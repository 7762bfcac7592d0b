# ZAV in TLA+

A verification development for the ZAV workspace: a custom quadcopter with a
Livox MID360S LiDAR, a Hikrobot camera and PX4, a flight manager for the pilot
and the planner, and the FAST-LIVO2 mapper that turns corridor flights into 3D
maps. The specifications are translated from the code; paths below are relative
to the repository root.

## The system

| Part | State it keeps | Operations | Talks to |
|---|---|---|---|
| Flight manager, `src/zav_control/zav_control/zav_flight_manager.py` | flight mode, `is_flying`/`is_taking_off`, last PX4 status and pose, stick targets `des_*` and ramped `cmd_*`, heading lock, hold place, goal and velocity of the planner | five subscription callbacks, a 50 Hz control loop, a key handler, a Win32 key reader process | PX4 (`/fmu/...`), planner (`/zav/goal_pose`, `/zav/cmd_vel`), pilot's keyboard |
| Camera node, `src/mvs_ros_driver2/src/grab_trigger.cc` | SDK handle, frame queue, `exit_flag`, time of the last frame, failure count | main with a watchdog, GrabThread, PublishThread, signal handler; respawned by its launch file | camera SDK, mapper (images) |
| Livox driver, `src/livox_ros_driver2/src` | packet queue, points and clock of each LiDAR, frame rings with their indices, IMU lists, two semaphores, an index per LiDAR, configuration bits | SDK callbacks, the thread that cuts frames, two poll threads, the destructor | Livox SDK, mapper (scans, IMU) |
| Mapper, reading (`preprocess.cpp`) | the message being read | one handler per LiDAR type | Livox driver, front end |
| Mapper, front end (`LIVMapper.cpp`: callbacks, `sync_packages`) | buffers of scans, header times, IMU samples and images, left-over points | three callbacks, `sync_packages` | driver, camera node, estimator |
| Mapper, IMU (`IMU_Processing.cpp`) | last sample, end of the last propagation, poses, mean of the first samples | `Process2`: `IMU_init`, `UndistortPcl` | front end, loop |
| Mapper, filter (`voxel_map.cpp`, `vio.cpp`: `StateEstimation`, `updateState*`) | state, gain, error of the best iteration, cached Jacobians | iterate, undo, finish | both maps |
| Mapper, LiDAR map (`voxel_map.cpp`) | root voxels with octrees of points and planes | build, update, look up, slide | loop |
| Mapper, visual map (`vio.cpp`, `visual_point.cpp`) | visual points with patches and a reference, the submap of the last retrieval | retrieve, generate, update points and references, slide | loop |
| Mapper, loop (`LIVMapper.cpp`: `run`, `handle*`, publishers) | clouds waiting for colour, for publication and for saving, the pose at the rate of the IMU | one package after the other, a timer, the save at shutdown | all of the above |
| Scan session, `scripts/web_scan_controller.py`, `remote_scan_controller.py`, `run_corridor_scan.sh` | scan status, script in hand, map file, archive | HTTP start/stop/status, the script's steps and trap | operator, the nodes |
| Health, `src/mvs_ros_driver2/src/health_monitor.cpp` and the status page | last message per sensor, verdict, status file and its age | message callbacks, a timer, the page's reads | scan session (status file) |
| Keyboard teleop, `src/zav_control/zav_control/teleop_keyboard.py` | the flight manager's flags and sticks, no planner state | two subscription callbacks, a 50 Hz control loop, a key handler, the key reader process | PX4, pilot's keyboard |
| Tools | calibration, viewing, upload, bench tests, simulation, containers | one-shot | - |

What is hard in it, part by part, and what makes each part correct:

* **Flight manager.** One thread, but four sources of events (PX4 samples, planner,
  pilot, timers) in any order, two meanings of the Spacebar, three sources of stick
  input, and a helper process that may start late or die. Correct means: limits on what
  is commanded, no stick input while the planner flies, no disarming in the air, a
  planner goal that does not survive 1 or the Spacebar, sticks that come to rest when
  the keys are released, a take-off that ends.
* **Camera node.** Three threads share a handle, a queue and atomics; the cable
  may go at any moment and the node is respawned. Correct means: no SDK call on
  a destroyed handle, frames in order with only the oldest lost, a frozen stream
  noticed, a shutdown that completes, a camera that comes back is used again.
* **Livox driver.** SDK callback thread, publisher threads and polling threads
  around a ring without a lock, requests answered in any order, packets late or
  lost, and two clocks that may cut the frames. Correct means: every point in one
  frame and with its time, frames in order and not overwritten while read, no
  wake-up lost, nothing published of a LiDAR that is not configured, threads that
  end.
* **Mapper, up to the estimator.** Three streams with losses, repeats, late
  samples and clock resets are cut into packages, and the state is carried over
  them. Correct means: a gapless stream of packages, points with their true times,
  image updates at the time of the points, each instant propagated once, each
  point moved once, nothing that blocks the buffers.
* **Mapper, maps and filter.** Raw pointers between points, patches and submap
  with several places that delete; octrees walked separately to store, look up
  and compare; iterations that are undone. Correct means: no pointer outlives what
  it points to, the walks meet, what has settled stays, the covariance is reduced
  once and with the gain of the state it belongs to.
* **Scan session and health.** HTTP threads, a shell script with a trap, its
  children, a map file and a status file with several writers, and anything may be
  killed. Correct means: one scan at a time, a scan is archived with its own map,
  and the page does not show a dead sensor as fine.

## Modules

| Module | Models | Kind |
|---|---|---|
| `StickRamp` | `ramp_value` and the key-to-axis table | pure operators |
| `FlightManager` | the flight manager | state machine, properties |
| `TeleopKeyboard` | the keyboard teleop, from the handlers it shares with `FlightManager` and its own | state machine |
| `CameraGrab` | the camera node | state machine, properties |
| `LivoxFramer` | packets into frames and messages (`pub_handler.cpp`) | state machine, properties |
| `LivoxConfig` | the table of the LiDARs, their settings, requests and answers | component |
| `LivoxRing` | rings, semaphores and threads of the Livox driver | component |
| `FrameFifo` | what the driver promises of its frames | abstract specification |
| `LivoxDriver` | the last two components side by side; implements `FrameFifo` | composition, properties, refinement |
| `AviaHandler` | the times `avia_handler` gives the points of a message | pure operators |
| `Preprocess` | the clouds every handler makes of any message, with the times of their points | operators over a message that grows |
| `Queues` | the two walks over a queue the mapper's modules share | pure operators |
| `PackageStream` | what the estimator is promised | abstract specification |
| `LivoSync` | the mapper's front end; implements `PackageStream` | state machine, refinement |
| `ImuPropagation` | IMU initialisation, propagation, undistortion | state machine, properties |
| `IteratedFilter` | both measurement updates of the filter | state machine, properties |
| `VoxelMap` | the octrees of the LiDAR map | state machine, properties |
| `VisualMap` | visual points, patches and the pointers to them | state machine, properties |
| `MapperLoop` | packages through the mapper, its clouds, the IMU-rate pose | state machine, properties |
| `ScanSession` | controllers, scan script, mapper's file, archive | state machine, properties |
| `SensorStatus` | health monitor, status file, page | state machine with time, property |
| `FlightManagerProofs` | of `FlightManager` and `TeleopKeyboard` | TLAPS proofs |
| `CameraGrabProofs`, `LivoSyncProofs` | theorems about the module of that name | TLAPS proofs |
| `LivoxDriverProofs` | of `LivoxDriver` with its components, and of `LivoxFramer` | TLAPS proofs |
| `SessionProofs` | of `ScanSession` and `SensorStatus` | TLAPS proofs |
| `MapProofs` | of `VisualMap` and `VoxelMap` | TLAPS proofs |
| `PreprocessProofs` | of `AviaHandler`, `Preprocess` and `Queues`, and lemmas on sequences and arithmetic the others use | TLAPS proofs |
| `MapperProofs` | of `MapperLoop`, `IteratedFilter` and `ImuPropagation` | TLAPS proofs |
| `MC*` | instances for TLC, each extending what it instantiates | constants, choice of the part |

`MCMapper`, `MCScanSession` and `MCLivoxFrames` hold several modules that share no
state. `part` is chosen in the initial state and only that part moves; the others
stay in their initial states, so the states of a run are the sum of the parts'. The
variables of a part have names of their own, which is why the parts can be
extended side by side and the runs check the very definitions the theorems name.
`MCFlightManager` does the same with `program`: the two flight programs have the same
variables, and the initial state says which of them is running.

### FlightManager

`main()` alternates one ROS callback with one key read in a single thread, so a
handler is one action: `StatusCb`, `PosCb`, `GoalCb`, `VelCb`, the control loop
(`OffboardLoop`, `ClimbLoop`, `ManualLoop`) and `Key*`. The T key sleeps between
its two vehicle commands while its flags are still those of before, and is two
actions (`KeyTakeoff`, `TakeoffStart`; no other callback runs in between, only
timers and the outside world). `sp` and `sent` hold what the last step
published. Deadlines (`takeoff_late`, `held`, `vel_fresh`) are facts that may
become true at any moment. The key reader process may start, end and see any
set of `Masks`; `poll_latest` keeps the last mask of a reader that has ended.
Altitudes are decimetres and compared with the code's thresholds; positions and
headings are model values. A key handler is total: keys that no branch matches
are no step. History variables are `brake_pos` (where Space braked, until
another command comes), `landing` (L or E typed since the last sample) and
`offered` (the planner's goals since the pilot's last 1 or Spacebar).

Left out: the circular normalisation of the horizontal speed, which scales only
the output; the yaw target a turning vehicle leads by, which is any heading;
several keys read by one `os.read`, which match no branch and are no step.

### TeleopKeyboard

`teleop_keyboard.py` came before the flight manager, and ZAV may still start it in its
place. Where the two files do the same its handlers are the manager's
(`TeleopPosCb == PosCb`, and so on); `StickLoop`, the sticks' part of the control
loop, and `BrakeSticks` are cut out of the manager's handlers for that. Its own are
the ones that differ: the loop never asks PX4 for the offboard mode again, the
Spacebar brakes on the ground as in flight and neither arms nor disarms, and the keys
1, 2 and E do nothing. The sign of the lateral axis is the other way round in the
teleop (LEFT is positive in lines 336-341 and 550-555); `vy` stands for the axis
towards the right in both, and as its two deflections and its rates are equal,
nothing else changes. Planner mode, goal and hold place keep their initial values,
so every property of the flight manager is a property of it too, and `fm_modes` and
`fm_sticks` check it of both.

### CameraGrab

`main`, `grab` and `pub` are the program counters of the three threads. main goes
through `Enumerate`, `OpenOk`, `SettingsOk`, `ConfigureOk` (which starts GrabThread)
and `CreatePublisher` up to its loop; each of them can fail (`StartFails`,
`OpenFails`, `SettingsFail`, `ConfigureFails`, `PublisherFails`: the last one under a
running GrabThread), and how what is open then is released differs from place to
place. A call of `GetImageBuffer` may fail at once or at any time within its second. A step is
an SDK call, a critical section or an atomic access. Time counts half seconds,
`Tick` is held back only while `GetImageBuffer` has waited its second or the
work between two calls has taken `WorkTicks` (the assumption `HandleSafety`
rests on, `GrabAssumption`: a call and the work after it take less than the two
seconds main joins for). `camera` is the cable, `linked` says that the open
handle has not lost it. `Respawn` is the launch file's `respawn=True`, after any
exit.

### LivoxDriver: LivoxConfig, LivoxRing, FrameFifo

`LivoxConfig` is the table of the LiDARs and their settings. `InitLdsLidar` reads
the file, gives each entry with an address an index (`GetFreeIndex`: the old one of
the LiDAR or the first that is free, none when the table is full; a second entry of
a LiDAR replaces the first) and sets the callbacks; a file that cannot be read or an
SDK that does not start leaves a node without data (`start = "failed"`), whose poll
threads run all the same. Then come the callbacks of `livox_lidar_callback.cpp`.
Each holds `config_mutex_` while it touches `set_bits` and is one action:
`InfoChange` (the SDK reports a LiDAR), `Succeed` and `Fail` (the answer to one
setting). A request that times out is sent again by its own callback and stays in
flight. A LiDAR without an entry gets an index at its first report, if there is one;
its settings are zeroed memory, in which none is -1, so the second report sends all
of them. `confirmed` is a history variable. The SDK names a LiDAR by its address,
everything else by its index: `SamplingIsConfigured` is about the index and asks for
the LiDAR behind it.

`LivoxRing` is the way of a frame: `producer` is the thread that cuts frames
(`Lds::PushLidarData`), `sdk` the callback that stores IMU samples, `pcd` and `imu` the
two poll threads, `node` the destructor. One step is one access to an index, a count or
a slot, since nothing of it is locked; a copy into or out of a slot is one step too, and
`SlotIsSafe`, which looks at the whole interval from the look at the index to the update
of it, is what justifies that. The semaphore's own operations hold its mutex and are
steps; `GetCount` does not and is one of its own. The indices are `volatile` and nothing
more (`comm.h:207-208`), and the model takes the accesses of both threads as
sequentially consistent: that is an assumption on compiler and processor. On the ARM
board ZAV flies with, a reader could see the new `wr_idx` before the slot's contents,
and neither `SlotIsSafe` nor `ImplementsFifo` says anything about that. Indices are
taken modulo `Word`, 2^32 in the code. IMU lists have a mutex and a list of any length:
only whether they are empty is kept. When frames are cut is the matter of `LivoxFramer`;
here `Offer` stores any frame at any time.

`LivoxDriver` puts both side by side: every step is a step of one of them. They
share `known` and `connect_state`, which only the first writes, and callbacks of
both come until `LivoxLidarSdkUninit` has returned.

`FrameFifo` is the promise: frames that find room are published once each, whole,
in order; at most `Size` wait. The mapping is `queue <- ` the slots between the
two indices. `Write` and the copy out of a slot are stutters; `Advance` is `Store`,
`PcdPop` is `Publish`.

Left out: message layouts, the ROS 1 build, the .lvx file source, and `InitQueue` as
seen by a reader half-way (both indices are 0 before and after it).

### LivoxFramer

The SDK's callback (`OnLivoxLidarPointCloudCallback`) queues a packet with the
kind of its stamp and sets `is_timestamp_sync` for everybody; the thread
(`RawDataProcess`, `CheckTimer`, `PublishPointCloud`) takes packets off, collects
points per LiDAR and cuts: with synchronised stamps when the last point lies in a
millisecond that is a multiple of the interval and the points span the interval but
for 1 ms, else when the host's time has passed the interval, and then all LiDARs.
What a packet says is taken from the wire, as the callback does: `OnPointCloud` has any
stamp and any spacing of the points, so packets are late, lost, repeated or out of
order, several may be of one millisecond, and a LiDAR's clock may be set forward or
back; the kind of the stamps may change at any of them. `CustomMsg` is the message
`lddc.cpp` makes of a frame, and it is what `Preprocess` reads: `TimesArrive`
follows a point from the LiDAR's clock to the curvature in the mapper.
`WholeIntervals` says how long a frame on the LiDARs' clock is: at least the interval
less the tolerance, so a frame of 99 ms is one; within two intervals if its packets are
no more than a millisecond apart; and if the gap to the frame before is no more than that
either, it ends the interval that follows on the other. Nothing is said of
other packets, since nothing holds of them: with a gap in the millisecond that ends
an interval two or more intervals become one frame.

Assumed of the outside: packets of one length (`PacketPoints`; the code reads `dot_num`
of each), an interval of whole milliseconds (100 in ZAV's launch files, 10 Hz), and a
host clock that is not set back.

What happens at the edges, all of it in the model: with the host's clock a paused
thread catches up with a burst of short frames; points of unsynchronised packets
that came in a bunch have overlapping stamps, so times turn back; `offset_time` is
an unsigned difference and wraps when they do, and also in a frame longer than
2^32 ns (`OffsetWord`), which 4.3 s without a cut can make: such a point arrives early.

### Preprocess

Operators over any message. `Curvature` (in `AviaHandler`, which `LivoxFramer` uses
too) is `avia_handler`: every point whose time
is a millisecond or more from the time of the point before gets that point's time
plus 4.2 us, so behind one gap every later point of the scan is early;
`AviaTimes` says when times are exact, and that they are never late and never
turn back among the points kept. A point of no line of the LiDAR keeps the time 0 it was
made with, and the times behind it start again from there. `SpinTime` is
`velodyne_handler` for messages without times; its time is right for two turns and
falls back in the third.

`process` gives the clouds that can come of a message for each `lidar_type` but Livox'
own. They keep every `point_filter_num`-th of all points, not of the valid ones as
`avia_handler` does. A last point at time zero makes `velodyne_handler` take the angle;
then it leaves out the first point of each line. `Pandar128_handler` sorts, and
`Sortings` are the outcomes `std::sort` has, which keeps no order of equal points.
`CloudTimes` is what front end and undistortion take for granted: no point is ahead of its
time and the last one ends the scan. It names the exception: a LiDAR of several lines
whose message has no times starts every line at zero.

### LivoSync and PackageStream

`run()` spins the callbacks and calls `sync_packages` in one thread; a callback
is one action and so is a call of `sync_packages` with `processImu`:
`ThrowImage`, `CutLio`, `CutVio` (LIVO mode), `WholeScan` (ONLY_LIO mode) and
`SyncWaits` for the calls that return false but latch something. Buffers are
sequences of time stamps; a scan is its header and its number of points, one per
unit of time; `pcl_proc_next` keeps true time and curvature of each left-over
point, so that the two rebasings of the curvature can be compared with the true
times. The 3 s of `imu_loopback_first_wall_time_` are `LoopbackTimeout`.

`PackageStream` is the promise: packages with increasing ends, each holding all points
measured since the last one up to its end (a point at the very end may go either way)
and no others but those left over of the scan the last image has cut, the IMU samples
since the last one and at least one that has reached the end in the buffer, and the
image at that end after each package when the camera is used. `ImplementsStream` is that
`LivoSync` implements it, under the mapping `points <- ` left-over and buffered points,
`left <- ` the left-over ones, `cut <- pkg.end`. The left-over points are why a package
may hold points of after its end: `sync_packages` (LIVMapper.cpp:1118-1146) copies
`pcl_proc_next` into the next package whole, and when two images come within one scan,
that package ends before the scan does. The points are ahead by less than a scan and
keep their true times (`PointTimes`), so the undistortion moves them back by an
extrapolated motion. Without a camera (ONLY_LIO) the curvature counts from the header of
the scan (LIVMapper.cpp:1014-1016), while `UndistortPcl` counts the poses from the end
of the last package (IMU_Processing.cpp:250, 513); `PointTimes` states both, and with
them that each point is then taken for earlier than it was by the gap between that end
and the header. The environment of `LivoSync` loses and delays what the camera node and
the driver may lose and delay, so it stands for their composition with the front end.

### ImuPropagation

`Process2` on the packages `PackageStream` promises. `steps` is the time the
state was carried over, sample by sample; `heads` says with which poses each point
was moved. `Covered` and `MovedOnce` name what the code does at the edges: a
package with exactly one sample behind a package that ended between two samples
loses the time from its sample to its end, a package without samples is not
propagated at all, a point at the start of the package is not moved, and the first
point is moved again with each earlier pose. Every other point is moved once, from the
latest pose before it (`MovedBy`), which for a point left over past the end of the
package is the one before the end's, since the walk leaves out the last pose.
Packages hold such points, as `PackageStream` does; without a camera the times of the
points count from the header, and "before" is meant by that count. `StartKnown` is why the
uninitialised `last_prop_end_time` (`IMU_Processing.h:82`) does no harm with a
camera; in ONLY_LIO it is any value.

### IteratedFilter

A state is a number, new with each solution. `StateEstimation` (LiDAR) and
`updateState`/`updateStateInverse` on each pyramid level (images) are its actions;
whether an error grows and whether a step is small are choices. `FilterConsistent` is
the conjunction of five named parts: the covariance is reduced once per update, the gain
belongs to the state that is kept, the state of a larger error does not survive its
level, cached Jacobians are of their level, and the LiDAR update ends with the second
small step or out of iterations. That the patches read lie inside the image is not
stated: visibility is checked with a border of 20 rows before the state moves, patches
of a high search level reach 40, and neither `getImagePatch` nor `updateState` checks.

### VoxelMap

The tree is a function from paths to nodes, over all root voxels: a child exists
when its path is in the domain. `BuildVoxelMap` fills and fits the first scan,
`UpdateVoxelMap` adds the points of a later one by `UpdateOctoTree`,
`MapSliding` removes root voxels. Whether points are flat is a free choice at
every fit. `TargetOf`, `FindCorrespond` and `Compared` are the three walks of the
code, written separately as there; `TreeSound` compares them and bounds what each
kind of node stores. `BuildResidualListOMP` looks into a neighbouring voxel when the
first one gives no residual (715-726); that is the same walk from another root and is
left out.

Observations, all in the model and none of them contradicting a stated intent: a
refit that turns a plane into no plane keeps the points where they are; a
node of the last layer that is no plane at its limit is frozen and dead for good;
the points of nodes cut by the first scan are kept.

### VisualMap

`processFrame` is a sequence of stages, each one action, and a slide of the map may come
between frames. Points are addresses, patches the numbers of the frames they were cut
from. `PointersAlive` says that every reference is a patch the point has, and that the
points of the submap live as long as a stage follows pointers to them, but in one stage.
It is safe in an indirect way: `deleteNonRefPatchFeatures` and `deleteFeatureRef` may
leave a point without reference, and only the next retrieval repairs it, which needs
`NORMAL_EN`. The stage that is not safe is `plotTrackedPoints`: `retrieve` returns early
and leaves the last submap as it is when the map is empty (398), `total_points` then
keeps the other stages away from it, but `plotTrackedPoints` takes the submap's own
length (1745) and follows pointers to points that a slide has deleted. `TrackedAlive`
names exactly this state, a frame that found the map emptied. The filter update moves
the pose of the frame between the retrieval and `Generate`, unless no point is tracked
(`Reseen`), and the grid stays that of before. Two formulas compute a voxel:
`InsertVoxel` and `LookupVoxel` differ below zero but at the bounds of a voxel, so a
point there is never found again and another one is made beside it; and a place that the
update moves to a cell without a map point gets a second one too. `NoDuplicateAhead`
states what is left of "one point per place" beside these two.

### MapperLoop

The constructor (which throws, before there is a loop, when the file has no extrinsics
or no camera: `Constructed`), `run()` with `processImu`, `gravityAlignment`,
`handleLIO`, `handleVIO`, `publish_frame_world`, `publish_path`, `savePCD` and the timer
of `imu_prop_callback`. Clouds are the numbers of the scans they are of, poses the times
they stand for, on the path the scans. `OutputOnce` follows each scan to the coloured
cloud, the saved one and the path, which is never cut: every message of it has all poses
since the start. `PoseOnTime` follows the IMU-rate pose through estimates that are older
than the samples it has used and through samples that skip, are put behind one another
(`imu_cbk` repairs a jitter of 5 ms) or begin anew with an older clock, all of which
`ImuCbk` allows; only an estimate newer than every sample is then the pose itself. ZAV's
configurations leave `imu_rate_odom` off, so none of this runs there yet. The clouds of
a last, incomplete round are not in the saved file.

### ScanSession and SensorStatus

`ScanSession`: a start request of the web is two steps, for it checks the status, plays
a sound and then starts the script and sets the status. A stop request is a thread too
(`stopper`, `waits`): it checks, sets, signals, waits, gives up after its time-out, lets
go of whatever script is in hand by then and marks whatever scan there is idle; two of
them may have passed the check together. `script` is where each script is, `mapper`
where its mapper is; the trap of the script does not exit it (`AfterSignal`), the clean
slate of the next scan kills with -9, the mapper saves its map after SIGINT, first a
torn file and then a whole one, and `Archive` copies whatever is there. `ScriptsApart`
and `ArchiveOwn` state both what holds and the ways out of it: two start requests at a
time, two stop requests at a time (`raced`), a stop that gave up, and a clean slate that
did not happen (`skipped`): its command is guarded with `|| true`, so that a failure or
a signal passes unnoticed, the script goes on, and an earlier mapper that is still
saving stays beside the new one. The observations behind them: a script killed in one of
its guarded commands goes on to its next step, of which the skipped clean slate is one
case; the trap's own command and the web's `pkill` may fail as silently; the map file is
not removed before a scan, so a mapper that saves late, or not at all, leaves an earlier
map or a torn one to be archived.

`SensorStatus` counts ticks: `silent` is the truth about a sensor, `seen` what
the monitor has heard, `pass` a pass of its timer between the verdict and the
write, `file` the status file with its age. The monitor may stall, hang and die;
scripts and controllers write the file too: a stop may come at any stage of the
script, and one that lets go of a script (`launcher["old"]`) leaves it to kill the new
scan's monitor, launch its own nodes or write "idle, ok" over the status
(`WriteIdle`), which is the third exception of `ShownIsTrue`. Two monitors at once are
left out. `ShownIsTrue` bounds how long a dead
sensor can be shown as fine by the sum of its delays.

## Runs

| Run | Question | Bounds |
|---|---|---|
| `fm_modes` | flags, brake, disarm and quit under every order of commands, samples and planner input, in either program | two places, altitudes 0, 0.4, 1 and 2 m (one on each side of every threshold), no stick keys |
| `fm_sticks` | limits, safety gate, stop after release, end of take-off, in either program | axes vz (different deflections each way) and yaw (heading lock), full deflections 1 and 2, acceleration 1, braking 2 (vz) and 3 (yaw), four masks, one period length |
| `fm_brake` | the Spacebar in planner mode | as `fm_modes`, two altitudes |
| `cam_safety` | handle, queue, watchdog | queue of 2, 3 frames per process (so it overflows), 2 open attempts; time limits of the code |
| `cam_live` | exit, shutdown, recovery, under fairness | 1 frame per process; a call takes 1 tick, restart at 2 failures, end at 4, watchdog of 8 ticks (the time 4 failures and the work after them may take, so that either may come first) |
| `cam_exit` | the exit code | 1 frame per process, watchdog of 12 ticks |
| `livo_sync` | refinement, point times, order, blocking | eight time units, two scans of four points, of one point (which blocks ONLY_LIO) or empty, images from one unit apart, so that two of them fall within a scan and left-over points pass the next image; both modes, 2 IMU samples and 2 images buffered |
| `livo_loopback` | a LiDAR clock that turns back once | five time units, scans of two points, LIVO |
| `livox_ring` | every point once and with its time from packet to message; the ring as a FIFO and its slots | frames: two LiDARs of 3 and 1 packets of three points, frames of 2 ms, any order of four stamps a millisecond or more apart (repeated, set back, with a gap), packets that end in the millisecond after, either clock, an offset field that a merged frame overflows; ring: a file with an entry without an address, two of one LiDAR and one of another, for which the table of one is full; size 2 and indices modulo 4, so that both wrap; two contents of a frame, so that order shows |
| `livox_live` | a LiDAR without an entry: settings, stream and the end of the node, under fairness | two settings, one request of each on its way; ring of 1 and indices modulo 2 (full as soon as anything waits) |
| `mapper` | `VisualMap`, `VoxelMap`, `IteratedFilter`, `ImuPropagation`, `MapperLoop`, `Preprocess`, one at a time | below |
| `session` | `ScanSession` and `SensorStatus`, one at a time | two scans, two start and two stop requests at a time; two sensors (symmetric), time-outs, a stall and a stale file of one tick each, ages up to 4, the largest `ShownIsTrue` tells apart |

The bounds of `mapper`, and the case each is there for:

* visual map: two points, places on either side of zero in neighbouring voxels, two
  cells (so that places compete for one and the update moves them to the other;
  points and cells are symmetric), five frames, which is enough for a patch to
  be lost (limit 3) and for a point to converge (at 2) and be deleted;
* LiDAR map: two voxels on either side of zero, two octants, one layer of
  children, a fit at two points, freezing at four, six points; sliding with a cube
  that keeps one voxel;
* filter: 4 and 3 iterations, two pyramid levels, three errors, two updates (an image
  after a scan);
* IMU: six time units, up to three samples and two points in a package, also past its
  end, with and without a camera, initialisation of two samples;
* loop: four scans, colour rounds of two, each of three switches, three samples kept,
  of any stamps;
* times: messages of five points, lines of which one is not the LiDAR's, steps on
  both sides of a millisecond, three turns, every second point kept; the Pandar's
  messages also backwards, so that it has something to sort.

CHECK_DEADLOCK is off where the system ends or a bound ends it: after Q or an
interrupt the flight manager stops, `LivoSync` stops when the sensors have used up
`MaxTime`, the Livox driver's process ends after its destructor and its sensors
after their packets, each part of the mapper stops at its bounds, and the scan
session after its last scan.

Fairness. The flight manager's timer fires at 50 Hz as long as main spins, T
wakes from its sleep, and clocks pass their deadlines: weak fairness of exactly
these. PX4, planner, pilot and helper process have none; `ReleaseStops` states its
assumptions on the pilot and the reader as premises. In the camera node every
thread is scheduled and time passes, the launch file restarts a node that ended
by itself, and a plugged-in camera does not refuse for ever to be found, opened,
set up and started: each of the four steps that succeed has strong fairness, since the
cable may be pulled in between. The failing ones have weak fairness: a call to a
camera that is gone returns with an error. No frame ever has to arrive. In the
mapper, only `sync_packages` is called again and again. In the Livox driver every
thread is scheduled and every setting that is asked for again and again is in the
end confirmed, unless the LiDAR answers with errors. That a LiDAR reports itself,
that its errors end and that it goes on sending are premises of the properties
that need them: `StreamFlows` and `ExitCompletes` also assume that publishing one
frame takes less time than collecting the next (`KeepsUp`), for
`PublishCustomPointcloud` empties the ring without looking at the exit request.
`ExitCompletes` without a sending LiDAR would be false: `RequestExit` signals no
semaphore, and `Join` waits for threads that wait for data. The scan session and
the health page have no liveness property: the web's stop gives up, the remote's
waits without an end, and neither promises more.

Each property has a fault in `PROJECT.json` ("mutants"): a plausible bug, kept
beside the definition it would replace, that makes the property fail.

## What the code does and its words do not say

By a run:

* `fm_brake`: the Spacebar in planner mode prints that the hover is fixed in place
  (line 699); the vehicle returns to where 2 was typed.
* `cam_exit`: a node stopped by SIGINT says it exited unexpectedly and returns 1.
* `livo_loopback`: "lidar loop back, clear buffer" clears one of two parallel
  queues; clouds are stamped with other clouds' headers afterwards.

Seen while modelling, without a run of their own:

* Key 1 leaves the heading target of before the planner's flight
  (`zav_flight_manager.py:654-657`), and that heading is the frame of the "body"
  velocities of manual flight.
* A reader process that ends with a key down leaves the stick deflected (line 162),
  against "release brakes at once" (line 14); `ReleaseStops` has the reader's
  staying alive as its premise.
* The two voxel formulas of `vio.cpp` (227-250 and 434-441) differ below zero inside
  a voxel: visual points there are made anew and never found.
* Left-over points of a scan go into the next package also when they were measured
  after its end (`PackageStream`, `left`). An earlier form of that specification
  forbade it and held only for scans too short for two images.
* A point of a Livox frame longer than 2^32 ns arrives with a time cut to the width of
  `offset_time` (`LivoxFramer!TimesArrive`).
* A mapper package with one IMU sample loses the time behind it
  (`ImuPropagation!Covered` names the case).
* In ONLY_LIO the points are stamped from the scan's header and undistorted from the end
  of the last package (`LivoSync!FromHeader`).
* `plotTrackedPoints` follows pointers to deleted points in a frame that found the visual
  map emptied by a slide (`VisualMap!TrackedAlive` names the case).
* The scan script's trap does not exit, the old map file is not removed, and the web
  reports success after six seconds whatever the script does (`ScanSession`).

## What is proved

All by TLAPS, for every value of the constants under the named assumption. The
assumptions of `FlightManager`, `CameraGrab`, `LivoSync`, `LivoxDriver` and
`ScanSession` are ASSUMEs that TLC evaluates; the others are operators of the proof
modules and hypotheses of the theorems. Every safety property of a passing run,
invariant or action property, has its theorem, and the theorem names the definition
the run checks.

`FlightManagerProofs` (`AxesAssumption`, `WorldAssumption`), the manager:

* `TypeCorrect` - `TypeOK`, which holds the limits on the sticks. It rests on
  `RampBetween` (the limiter stays between where it was and its target) and
  `TargetsOK`, `RampedOK`.
* `SafetyGateHolds`, inductive together with `TypeOK`.
* `AirborneIsFlaggedHolds`, `ToggleOnGroundHolds`: neither is inductive. The
  strengthening is `FlagInv`: both, and a climbing vehicle is flagged as flying,
  since L and E lower both flags and a take-off raises both. `QuitLandsHolds` is
  an action property of the same invariant: Q looks at `is_flying` only.
* `GoalSinceRecallHolds` by `GoalInv`: a goal is stored exactly while one was
  offered since the last 1 or Spacebar, and the stored one is among those. A goal
  offered in manual mode counts: it is flown when 2 is typed, however old it is,
  which is what the code does and no document forbids.
* `SlewLimitedHolds`, an action property, by `ClimbAtRest`: during a climb the
  sticks are at rest, so that the reset at its end is no jump; per step it rests
  on `RampStep` and `CmdMoves`.

The teleop, from lemmas about the handlers both share (`StickLoopTypeOK`,
`StickLoopSlew`, `QuitSends`), with `TeleopStepKinds` for the rest of its steps:
`TeleopTypeCorrect`, `TeleopQuitLands` and `TeleopSlewLimited`, which state the
manager's `TypeOK`, `QuitLands` and `SlewLimited` of `TeleopSpec`.

`CameraGrabProofs` (`GrabAssumption`; invariant `IInv`, of five parts):

* `HandleSafetyHolds`. main ignores the result of its timed join, so the argument is
  one of time: `Joining` says that what main has waited and what GrabThread may
  still take (`Remaining`) add up to no more than one call and its work, which
  is less than the join lasts. GrabThread is therefore done when the join is over.
* `NewestInOrderHolds`: `Frames` has the queue as a run of consecutive numbers up
  to the last one pushed, full or starting behind the one taken last.
* `WatchdogSeesStampHolds`: `Stamps` has the order of the two atomics.
* `GrabTypeCorrect`.

`LivoxDriverProofs`, the ring and the settings (`DriverAssumption`: any number of
LiDARs, any configuration, any ring size and any width of the indices that is a
multiple of it):

* `SamplingIsConfiguredHolds`. Not inductive: a bit that is gone may mean confirmed
  or never sent. `Accounted` says which: nothing is on its way to the LiDAR
  (`Silent`), or each setting asked for is in the `set_bits` of its index or confirmed
  by it. `TableInv` has the table injective, with the indices given out exactly those
  in use, so the answers of one LiDAR never touch the bits of another; `RequestInv`
  that nothing is on its way to a LiDAR outside the table, nor before the callbacks
  are set, so the file cannot change what was asked for under way.
* `SlotIsSafeHolds`. `RingInv` says what each thread still knows of the index the
  other one moves: while the producer is at a slot there is room, while the reader
  is at one the ring is not empty, for each can only add to what the other needs.
  The rest is arithmetic of indices that wrap around: `Difference`, `Successor`,
  and `DifferentSlots`, where the ring's size dividing the word's is needed.
* `ImplementsFifoHolds`: the refinement. `FifoInv` adds to `RingInv` what a thread
  has done at its end and the indices do not show yet: a written slot holds the
  producer's frame, a frame in the reader's hands is the one of the oldest slot, and
  a ring not made yet holds nothing. Per step: `WriteMaps` (the slot is not among
  the used ones, by `SlotAhead`), `AdvanceMaps` (the new last slot is the one
  written, by `SlotBehind`: a `Store`), `PopMaps` (a `Publish`), and the others are
  stutters.
* `DriverTypeCorrect`; in it the semaphores count at most one, since the only thread
  that raises a count has seen it at 0 before (`RingType`).

`LivoxDriverProofs`, the frames (`FramerAssumption`: positive widths and an interval of
whole milliseconds, stamps and spacings that are natural numbers; `AviaAssumption`):

* `FramesTrueHolds`, by `FramerInv`, which has a part for each part of the
  property. `OnceInv`: what is published and collected are the points of the packets
  taken off, in order (`Expands`), and the queue has the rest of those that came.
  `StampsInv`: each collected point is stamped from its packet by the clock it
  claims, and a host's stamps run on. `IntervalInv`: as long as no host's stamp has come, a
  cloud is of whole packets of which none made it due (`Early`), and the last
  published packet ended at a `Boundary` of the interval; if it was early for every
  packet, and the packets are regular, the one that makes it due is in the first millisecond
  that may end the interval (`MsIs` and the arithmetic of `\div` and `%` below it).
  `FrameTypes` holds `HostPace`. An interval of one millisecond is left out: there the
  tolerance would be the interval.

`LivoSyncProofs` (`SyncAssumption`; invariant `SInv`, and `FrontInv` for the last two):

* `ImuSortedHolds`: the last stamp taken in bounds the queue; a late sample that
  the code repairs is stamped right behind that one, a restart empties the queue.
* `VioAtCutHolds`, inductive with the types: nothing but `CutVio` takes an image off
  while its turn is due.
* `PointTimesHolds`, in both modes with the base each has, and `ImplementsStreamHolds`,
  the refinement of `PackageStream`, both with `MaxLoopBacks = 0` as hypothesis:
  `livo_loopback` shows that a LiDAR whose clock turns back ruins the header times.
  `FrontInv` has the parts `ScansInv` (the two parallel queues agree and ascend),
  `LatchInv` (a latched scan is still at the front), `NewestInv`, `ImagesInv` (images
  whose turn has not come are later than the last cut), `CutsInv` (where the time of the
  estimator stands, in each mode and phase of the initialisation) and `LeftInv`
  (left-over points are counted from the last cut and older than all that waits). A cut
  is a `Scan(end)`: nothing is lost by `CutPoints` and `WaitingAfter`, the samples are
  those since the last cut by `SelectItems` (the loop over the queue leaves out nothing
  wanted) and `BaseReachesBack`; the image after it is an `Image`, callbacks are
  `Receive`, and the rest are stutters. The proof of this refinement is what showed that
  left-over points run ahead.

`SessionProofs`, scans (`SessionAssumption`; invariant `SInv == Basics /\ (Orderly =>
Alone /\ OneMapper)`, where `Orderly` is "no two start requests and no two stop
requests overlapped, and no stop gave up"):

* `ScriptsApartHolds`, by `Alone`: one start and one stop request are at work, and
  (`LastScript`) a script that is alive is the one in hand, the last started, and none
  is alive while the status is idle. Two mappers are there only for a later script in
  `skipped`, the scripts that went on without their clean slate.
* `ArchiveOwnHolds`, by `OneMapper`: for a script that had its clean slate, from there to
  its archive there is no other mapper, and the file of a saved mapper is whole and
  its own.
* `SessionTypeCorrect`.

`SessionProofs`, the page (`StatusAssumption`; invariant `StatusInv`):
`ShownIsTrueHolds`. `Fine(ages, up, d, e)` is "true d ago"; `Verdict` and
`Told` carry it from the monitor's judgement over its stall to the file and its
age.

`MapProofs`, visual map (`VisualAssumption`, which has `NORMAL_EN`; invariant `VInv`):

* `PointersAliveHolds`: a reference is one of the point's patches, except between
  the deletion and the choice of a new one; points that are tracked live and have one;
  and a submap without tracked points is one from before the map was emptied
  (`LeftOver`), which is why only `plotTrackedPoints` meets deleted points.
* `NoDuplicateHolds`, without ray casting: `Taken` says that under the view of the
  retrieval a place the scan shows again has its cell taken by the point it has, if the two
  formulas agree there; `IndicesAgree` says where they do. `Generate` uses the view
  after the update, so what is left is a place whose cell the update has changed.
* `ConvergedStaysHolds`, an action property.

`MapProofs`, LiDAR map (`VoxelAssumption`; invariant `MInv`):

* `TreeSoundHolds`. Each node is one of the shapes a node may have (`Shape`), and every
  ancestor of a node exists and is fitted (`Closed`). The three walks then stop at the
  same place: the first node down the path that is no cut node. In place of an
  induction over the layers the proof takes the least layer with that property
  (`LeastNatural`, from the library's ordering of finite sets), and the order of
  prefixes.
* `FrozenIsFinalHolds`, an action property, with `LimitAssumption`: fewer points
  make a fit than fill a node (5 and 30 or 50 in ZAV's configurations), else a node
  would be frozen before it is fitted. It also needs that the tree is empty before
  the first scan (`UnbuiltHolds`).

`PreprocessProofs` (`AviaAssumption`: the patch of 4.2 us is no longer than the
millisecond it stands for; `SpinAssumption`):

* `AviaTimesHolds`: what `AviaTimes` says is true of every message, not only of those
  a model can make; `LivoxFramer` uses it for the messages of the driver.
* `ScanTimesHolds`: with it, the times from the angle and the clouds of the other
  handlers. `SpinFollows` is the induction over the points of a line: within the two
  turns a point is on the turn the code takes it for; `SpinNeverAhead` that it is
  never taken for one of a later turn, in any turn. `CloudHas` says that a cloud's
  points are the message's in their order, `LastOfLine` that the point whose time is
  asked for is the last of its line so far, and `SortedIsSound` that sorting only
  moves points.
* The module's lemmas take the place of the library's induction theorems, which this
  prover cannot use: `Least` and `SetInduction` state induction for sets of numbers,
  `RecursionOn` and `LoopOn` that a function defined step by step is one, and from
  these come `SelectSteps`, `SelectFacts`, `SelectAll` and `FromFacts` about the loops
  over queues. So the loops of the code are proved about for sequences of any length.

`MapperProofs`:

* `OutputOnceHolds`, invariant `CloudInv`: the two waiting clouds are in the order of
  their scans and behind what is saved, each scan is in one round. `PathInv`: the path
  is in order and has a pose for every cloud handed on.
* `PoseOnTimeHolds`, an action property by `PoseInv`: what is kept behind the estimate
  ends with the newest sample, and if nothing is, that sample is of before the estimate; the
  pose stands for the time of the estimate and what was added.
* `FilterConsistentHolds` (`FilterAssumption`: at least one pyramid level, every error is
  below the value that stands for FLT_MAX) by `FilterInv`: `Solved` and `LeastIsOld` say
  that after the first solution of a level the gain is of the old state and no state
  measured was better; `LevelLeft` what a level leaves; `Rematched` that a rematch
  without a small step came last.
* `MotionConsistentHolds` (`PropAssumption`: the bound is a number) from
  `PropInvHolds`, `StartKnownHolds`, `CoveredHolds` and `MovedOnceHolds`: the first two
  by `PropInv` (from the first propagated package on, a package starts where the
  propagation ended), the others from the two loops of `UndistortPcl`: the intervals of
  any number of samples tile the package, so the poses are in the order of their times,
  and the walk backwards over the points, of any number and also past the end, gives
  each the latest pose before it.

Model-checked only: the liveness properties `TakeoffResolves`, `ReleaseStops`,
`StreamLossExits`, `ExitCompletes` of both nodes, `CameraRecovers`, `ImagesFlow`,
`ScansFlow`, `StreamFlows` and `ReportedSamples`, since fairness and ENABLED are out
of this prover's reach.

## Plan

Done, in this order: `FlightManager`, `CameraGrab`, `LivoSync` with
`PackageStream`; `LivoxConfig`, `LivoxRing`, `LivoxDriver` with `FrameFifo`; the
mapper's parts; `ScanSession` and `SensorStatus`; `LivoxFramer`; the proofs of every
safety property; `TeleopKeyboard` and the handlers of the other LiDARs.

Left, most important first:

1. The composition of `LivoxFramer` with `LivoxRing`, so that `FramesTrue` is carried
   through the ring by theorem (frames there are opaque now).
2. The ONLY_LO mode of `sync_packages` and `standard_pcl_cbk`, should a
   configuration of ZAV come to use them.

## Not modelled

* What no configuration of ZAV switches on or starts: feature extraction in
  `preprocess.cpp`, `standard_pcl_cbk`, ONLY_LO,
  `zenith_health_monitor.py` (the predecessor of the C++ monitor; its callbacks may
  run in four threads and race for its deques and its temporary file),
  `preflight_check.py`.
* Numerics: the values of poses, covariances, projections and photometric errors.
  What depends on them is a free choice, so the properties hold whatever they are;
  accuracy is no subject here.
* Publishers that only show state, the recording of bags, sounds, the menu, message
  layouts, JSON parsing.
* Calibration, viewing, upload and bench-test scripts, simulation and container
  set-up, and the vendored libraries: one-shot tools or third-party code.

`PROJECT.json` lists every component with its state of work and every hazard at
its line.
