--------------------------- MODULE PackageStream ---------------------------
(***************************************************************************)
(* What the mapper's estimator is promised by the synchronisation of its   *)
(* three sensors: a stream of packages whose end times advance.  A package *)
(* of scan points holds every point measured since the last one up to its  *)
(* end, and the IMU samples that reach from the last end to this one; when *)
(* the camera is used, the image taken at that very end follows.  What is  *)
(* left of a scan an image has cut goes with the next package as a whole,  *)
(* however soon that one ends.                                             *)
(***************************************************************************)
EXTENDS Integers

CONSTANTS
  Stamps,            \* times a sensor may report
  Longest            \* points of a scan, one per unit of time
NoCut == -1          \* no package yet

VARIABLES
  imaging,           \* is the camera used
  points, imu,       \* received and not yet delivered
  left,              \* the points of a scan the last package has cut
  due,               \* "scan" | "image": what the next package is
  cut,               \* end of the last package
  kind, scan, samples  \* the last package: its kind, points and IMU samples

vars == <<imaging, points, imu, left, due, cut, kind, scan, samples>>

Init ==
  /\ imaging \in BOOLEAN
  /\ points = {} /\ imu = {} /\ left = {}
  /\ due = "scan" /\ cut = NoCut
  /\ kind = "none" /\ scan = {} /\ samples = {}

\* Sensor data arrive.  No point is late for a package already delivered; IMU
\* samples may be forgotten (the sensor was reset).
Receive ==
  /\ points' \in {points \cup new : new \in SUBSET {t \in Stamps : t >= cut}}
  /\ imu' \in SUBSET Stamps
  /\ UNCHANGED <<imaging, left, due, cut, kind, scan, samples>>

\* The points before the end are in the package, the ones after it are not, unless
\* they are left over, which takes them ahead of their time by less than a scan; a
\* point measured at the end may be in this package or in the next.  The IMU has
\* reached the end, and none of its samples since the last package (since the first
\* point, when there is no last package) is missing.
Scan(end) ==
  /\ due = "scan" /\ end > cut
  /\ due' = IF imaging THEN "image" ELSE "scan"
  /\ cut' = end /\ kind' = "LIO"
  /\ {t \in points : t < end} \subseteq scan'
  /\ left \subseteq scan' /\ scan' \subseteq left \cup {t \in points : t <= end}
  /\ points' = points \ scan'
  /\ left' \subseteq {t \in points' : t < end + Longest}
  /\ \E s \in imu : s >= end
  /\ samples' \subseteq {s \in imu : s <= end}
  /\ \A s \in imu :
       cut < s /\ s <= end /\ (cut = NoCut => \E t \in scan' : t < s) => s \in samples'
  /\ imu' = {s \in imu : s > end}
  /\ UNCHANGED imaging

Image ==
  /\ due = "image" /\ due' = "scan"
  /\ kind' = "VIO" /\ scan' = {} /\ samples' = {}
  /\ UNCHANGED <<imaging, points, imu, left, cut>>

Next == Receive \/ (\E end \in Stamps : Scan(end)) \/ Image

Spec == Init /\ [][Next]_vars
=============================================================================
