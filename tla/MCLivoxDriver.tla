--------------------------- MODULE MCLivoxDriver ---------------------------
(* TLC instances of LivoxDriver.                                             *)
EXTENDS LivoxDriver

CONSTANTS lidar1, lidar2

MCLidar  == {lidar1}
MCLidars == {lidar1, lidar2}

\* No LiDAR has an entry in the configuration file; or one has two and another, for
\* which the table is too small, has one.
MCUnlisted == {<<>>}
MCListed ==
  {<<[ip |-> NoAddress, asked |-> {}], [ip |-> lidar1, asked |-> {}],
     [ip |-> lidar1, asked |-> Settings], [ip |-> lidar2, asked |-> Settings]>>}
=============================================================================
