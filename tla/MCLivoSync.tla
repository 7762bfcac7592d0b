---------------------------- MODULE MCLivoSync ----------------------------
(* TLC instances of LivoSync.  Scans follow each other without a gap.         *)
EXTENDS LivoSync
=============================================================================
