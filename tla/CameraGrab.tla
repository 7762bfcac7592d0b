----------------------------- MODULE CameraGrab -----------------------------
(***************************************************************************)
(* mvs_camera_node (grab_trigger.cc): main() opens the camera, GrabThread  *)
(* takes frames from the SDK and queues them, PublishThread publishes      *)
(* them, main's watchdog ends a frozen stream, and the launch file starts  *)
(* the process again (respawn=True).                                       *)
(*                                                                         *)
(* The three threads interleave at their SDK calls, their critical         *)
(* sections and their atomic loads and stores.  Time counts ticks of half  *)
(* a second; a tick may pass in any step but not while a call of           *)
(* GrabThread has used up the time it may take, see Tick.                  *)
(***************************************************************************)
EXTENDS Integers, Sequences

CONSTANTS
  MAX_QUEUE_SIZE,  \* 5 in the code
  MaxFrames,       \* bound: frames one process queues
  OpenRetries,     \* 5: attempts to open the device
  RestartAt,       \* 3: failures in a row after which the stream is restarted
  DeadAt,          \* 6: failures in a row after which the node gives up
  GetTicks,        \* 2: the 1000 ms a call of MV_CC_GetImageBuffer waits
  WorkTicks,       \* bound on the time GrabThread needs between two such calls
  JoinTicks,       \* 4: the 2 s pthread_timedjoin_np waits
  WatchdogTicks    \* 20: the 10 s of the watchdog

ASSUME GrabAssumption ==
  /\ {MAX_QUEUE_SIZE, OpenRetries, RestartAt, GetTicks, WorkTicks} \subseteq Nat \ {0}
  /\ {MaxFrames, DeadAt, JoinTicks, WatchdogTicks} \subseteq Nat
  /\ RestartAt < DeadAt
  /\ GetTicks + WorkTicks < JoinTicks

VARIABLES
  camera,     \* is the camera plugged in
  linked,     \* has it stayed plugged in since the handle was opened
  main,       \* main: "enumerate" | "open" | "settings" | "configure" | "threads" |
              \* "loop" | "check" | "joinGrab" | "joinPub" | "stop" | "close" |
              \* "destroy" | "exited"
  open_retries,
  handle,     \* "none" | "open" | "grabbing" | "paused" (by GrabThread's restart)
              \* | "stopped" | "closed" | "destroyed" (by main)
  joined,     \* ticks main has waited in a timed join
  exit_code,
  grab,       \* GrabThread: "none" | "start" | "loop" | "get" | "stamp" | "flag" |
              \* "convert" | "push" | "reset" | "done"
  used,       \* ticks its current call or stretch of work has taken
  consecutive_timeouts,
  age,        \* ticks since last_frame_time_ms, no further than the watchdog cares
  has_received_first_frame,
  exit_flag,
  g_image_queue,
  pub,        \* PublishThread: "none" | "wait" | "publish" | "done"
  pushed,     \* number of the last frame queued
  taken,      \* number of the last frame PublishThread took
  stamped,    \* history: has this process ever stored last_frame_time_ms
  signalled   \* history: has this process had SIGINT or SIGTERM

mainVars  == <<open_retries, handle, joined, exit_code>>
grabVars  == <<grab, used, consecutive_timeouts>>
atomics   == <<age, has_received_first_frame, stamped>>
queueVars == <<g_image_queue, pushed>>
pubVars   == <<pub, taken>>
vars == <<camera, linked, main, mainVars, grabVars, atomics, exit_flag,
          queueVars, pubVars, signalled>>

LongAgo == WatchdogTicks + 1

Init ==
  /\ camera \in BOOLEAN /\ linked = FALSE
  /\ main = "enumerate" /\ open_retries = 0 /\ handle = "none" /\ joined = 0
  /\ exit_code = 0
  /\ grab = "none" /\ used = 0 /\ consecutive_timeouts = 0
  /\ age = LongAgo  \* last_frame_time_ms is 0, the steady clock far beyond it
  /\ has_received_first_frame = FALSE /\ stamped = FALSE
  /\ exit_flag = FALSE
  /\ g_image_queue = <<>> /\ pushed = 0
  /\ pub = "none" /\ taken = 0
  /\ signalled = FALSE

-----------------------------------------------------------------------------
(* main, up to its loop. *)

Return(code) == main' = "exited" /\ exit_code' = code

\* MV_CC_EnumDevices and MV_CC_CreateHandle.
Enumerate ==
  /\ main = "enumerate" /\ camera
  /\ main' = "open"
  /\ UNCHANGED <<camera, linked, mainVars, grabVars, atomics, exit_flag, queueVars,
                 pubVars, signalled>>

\* Whatever is missing before the device is opened ends the process: the settings,
\* the SDK, a device, or the one with the expected serial number among several.
StartFails ==
  /\ main = "enumerate"
  /\ Return(-1)
  /\ UNCHANGED <<camera, linked, open_retries, handle, joined, grabVars, atomics,
                 exit_flag, queueVars, pubVars, signalled>>

OpenOk ==
  /\ main = "open" /\ camera
  /\ main' = "settings" /\ handle' = "open" /\ linked' = TRUE
  /\ UNCHANGED <<camera, open_retries, joined, exit_code, grabVars, atomics,
                 exit_flag, queueVars, pubVars, signalled>>

\* A USB device may refuse while it settles; the last refusal ends the process.
OpenFails ==
  /\ main = "open"
  /\ open_retries' = open_retries + 1
  /\ IF open_retries' < OpenRetries
     THEN UNCHANGED <<main, handle, exit_code>>
     ELSE Return(-1) /\ handle' = "destroyed"
  /\ UNCHANGED <<camera, linked, joined, grabVars, atomics, exit_flag, queueVars,
                 pubVars, signalled>>

\* setParams: exposure, gain, gamma, frame rate and binning.  A setting the camera
\* refuses is logged and nothing else.
SettingsOk ==
  /\ main = "settings"
  /\ main' = "configure"
  /\ UNCHANGED <<camera, linked, mainVars, grabVars, atomics, exit_flag, queueVars,
                 pubVars, signalled>>

\* A pixel format the camera refuses, or settings that cannot be read again, end the
\* process with the device open.
SettingsFail ==
  /\ main = "settings"
  /\ Return(-1)
  /\ UNCHANGED <<camera, linked, open_retries, handle, joined, grabVars, atomics,
                 exit_flag, queueVars, pubVars, signalled>>

\* The trigger, MV_CC_StartGrabbing and GrabThread.
ConfigureOk ==
  /\ main = "configure" /\ linked
  /\ main' = "threads" /\ handle' = "grabbing"
  /\ grab' = "start" /\ used' = 0
  /\ UNCHANGED <<camera, linked, open_retries, joined, exit_code,
                 consecutive_timeouts, atomics, exit_flag, queueVars, pubVars,
                 signalled>>

ConfigureFails ==
  /\ main = "configure"
  /\ Return(-1)
  /\ UNCHANGED <<camera, linked, open_retries, handle, joined, grabVars, atomics,
                 exit_flag, queueVars, pubVars, signalled>>

\* PublishThread is created while GrabThread runs; if it cannot be, the process ends
\* under GrabThread.
CreatePublisher ==
  /\ main = "threads"
  /\ main' = "loop" /\ pub' = "wait"
  /\ UNCHANGED <<camera, linked, mainVars, grabVars, atomics, exit_flag, queueVars,
                 taken, signalled>>

PublisherFails ==
  /\ main = "threads"
  /\ Return(-1)
  /\ UNCHANGED <<camera, linked, open_retries, handle, joined, grabVars, atomics,
                 exit_flag, queueVars, pubVars, signalled>>

-----------------------------------------------------------------------------
(* main, its loop with the watchdog, and the shutdown. *)

StartShutdown == exit_flag' = TRUE /\ main' = "joinGrab" /\ joined' = 0

MustLeaveOnSignal == signalled  \* fault: what GrabThread decided is not seen
MustLeave == exit_flag

LeaveLoop ==
  /\ main = "loop" /\ MustLeave
  /\ StartShutdown
  /\ UNCHANGED <<camera, linked, open_retries, handle, exit_code, grabVars,
                 atomics, queueVars, pubVars, signalled>>

\* The watchdog loads has_received_first_frame first and last_frame_time_ms after.
WatchdogArms ==
  /\ main = "loop" /\ ~exit_flag
  /\ has_received_first_frame
  /\ main' = "check"
  /\ UNCHANGED <<camera, linked, mainVars, grabVars, atomics, exit_flag,
                 queueVars, pubVars, signalled>>

FrozenByCount == consecutive_timeouts > WatchdogTicks  \* fault: a count is watched
Frozen == age > WatchdogTicks

WatchdogFires ==
  /\ main = "check" /\ Frozen
  /\ StartShutdown
  /\ UNCHANGED <<camera, linked, open_retries, handle, exit_code, grabVars,
                 atomics, queueVars, pubVars, signalled>>

WatchdogRests ==
  /\ main = "check" /\ ~Frozen
  /\ main' = "loop"
  /\ UNCHANGED <<camera, linked, mainVars, grabVars, atomics, exit_flag,
                 queueVars, pubVars, signalled>>

\* pthread_timedjoin_np returns when the thread has ended or when the 2 s are
\* over; which of the two is not looked at.
JoinExpiredAtOnce == TRUE  \* fault: no wait at all
JoinExpired == joined >= JoinTicks

JoinGrab ==
  /\ main = "joinGrab" /\ (grab = "done" \/ JoinExpired)
  /\ main' = "joinPub" /\ joined' = 0
  /\ UNCHANGED <<camera, linked, open_retries, handle, exit_code, grabVars,
                 atomics, exit_flag, queueVars, pubVars, signalled>>

JoinPub ==
  /\ main = "joinPub" /\ (pub = "done" \/ JoinExpired)
  /\ main' = "stop"
  /\ UNCHANGED <<camera, linked, mainVars, grabVars, atomics, exit_flag,
                 queueVars, pubVars, signalled>>

\* MV_CC_StopGrabbing, MV_CC_CloseDevice, MV_CC_DestroyHandle: their results are
\* logged only.
Release(step, state, next) ==
  /\ main = step
  /\ handle' = state /\ main' = next
  /\ UNCHANGED <<camera, linked, open_retries, joined, exit_code, grabVars,
                 atomics, exit_flag, queueVars, pubVars, signalled>>

\* The node's own handler replaced the one of rclcpp, so rclcpp::ok() still holds
\* here whatever ended the loop.
DestroyAndReturn ==
  /\ main = "destroy"
  /\ handle' = "destroyed" /\ Return(1)
  /\ UNCHANGED <<camera, linked, open_retries, joined, grabVars, atomics,
                 exit_flag, queueVars, pubVars, signalled>>

Shutdown ==
  \/ LeaveLoop \/ JoinGrab \/ JoinPub
  \/ Release("stop", "stopped", "close")
  \/ Release("close", "closed", "destroy")
  \/ DestroyAndReturn

-----------------------------------------------------------------------------
(* GrabThread. *)

GrabUnchanged == <<camera, linked, main, open_retries, joined, exit_code, pubVars,
                   signalled>>

PayloadOk ==
  /\ grab = "start" /\ linked
  /\ grab' = "loop"
  /\ UNCHANGED <<GrabUnchanged, handle, used, consecutive_timeouts, atomics,
                 exit_flag, queueVars>>

\* Without a payload size the thread returns; nothing tells main.
PayloadFails ==
  /\ grab = "start" /\ ~linked
  /\ grab' = "done"
  /\ UNCHANGED <<GrabUnchanged, handle, used, consecutive_timeouts, atomics,
                 exit_flag, queueVars>>

GrabLoop ==
  /\ grab = "loop"
  /\ IF exit_flag THEN grab' = "done" /\ UNCHANGED used
                  ELSE grab' = "get" /\ used' = 0
  /\ UNCHANGED <<GrabUnchanged, handle, consecutive_timeouts, atomics, exit_flag,
                 queueVars>>

\* MV_CC_GetImageBuffer delivers a frame.
GetOk ==
  /\ grab = "get" /\ linked /\ pushed < MaxFrames
  /\ consecutive_timeouts' = 0
  /\ grab' = "stamp" /\ used' = 0
  /\ UNCHANGED <<GrabUnchanged, handle, atomics, exit_flag, queueVars>>

\* last_frame_time_ms is stored before has_received_first_frame.
FlagFirst ==  \* fault: the two stores swapped
  \/ /\ grab = "stamp" /\ grab' = "flag"
     /\ has_received_first_frame' = TRUE
     /\ UNCHANGED <<age, stamped>>
  \/ /\ grab = "flag" /\ grab' = "convert"
     /\ age' = 0 /\ stamped' = TRUE
     /\ UNCHANGED has_received_first_frame
StampFirst ==
  \/ /\ grab = "stamp" /\ grab' = "flag"
     /\ age' = 0 /\ stamped' = TRUE
     /\ UNCHANGED has_received_first_frame
  \/ /\ grab = "flag" /\ grab' = "convert"
     /\ has_received_first_frame' = TRUE
     /\ UNCHANGED <<age, stamped>>

Stamp ==
  /\ StampFirst
  /\ UNCHANGED <<GrabUnchanged, handle, used, consecutive_timeouts, exit_flag,
                 queueVars>>

\* MV_CC_ConvertPixelType; a frame it refuses is given back and forgotten.
Convert ==
  /\ grab = "convert" /\ grab' \in {"push", "loop"}
  /\ UNCHANGED <<GrabUnchanged, handle, used, consecutive_timeouts, atomics,
                 exit_flag, queueVars>>

\* The bounded queue: a full one loses its oldest frame.
QueuedDropNewest(q, f) ==  \* fault: pop_back for pop_front
  Append(IF Len(q) >= MAX_QUEUE_SIZE THEN SubSeq(q, 1, Len(q) - 1) ELSE q, f)
Queued(q, f) == Append(IF Len(q) >= MAX_QUEUE_SIZE THEN Tail(q) ELSE q, f)

Push ==
  /\ grab = "push" /\ grab' = "loop"
  /\ pushed' = pushed + 1
  /\ g_image_queue' = Queued(g_image_queue, pushed')
  /\ UNCHANGED <<GrabUnchanged, handle, used, consecutive_timeouts, atomics,
                 exit_flag>>

\* No frame within the second, or an error before that: the third in a row stops the
\* stream to start it again, the sixth ends the node.
GetFails ==
  /\ grab = "get"
  /\ consecutive_timeouts' = consecutive_timeouts + 1
  /\ used' = 0
  /\ CASE consecutive_timeouts' = RestartAt ->
            grab' = "reset" /\ handle' = "paused" /\ UNCHANGED exit_flag
       [] consecutive_timeouts' >= DeadAt ->
            grab' = "done" /\ exit_flag' = TRUE /\ UNCHANGED handle
       [] OTHER ->
            grab' = "loop" /\ UNCHANGED <<handle, exit_flag>>
  /\ UNCHANGED <<GrabUnchanged, atomics, queueVars>>

\* The stream starts again and the count with it, or it does not.
RestartOk ==
  /\ grab = "reset" /\ linked
  /\ grab' = "loop" /\ handle' = "grabbing" /\ consecutive_timeouts' = 0
  /\ UNCHANGED <<GrabUnchanged, used, atomics, exit_flag, queueVars>>

RestartFailsResets ==  \* fault: the count starts again whatever the result
  /\ grab = "reset"
  /\ grab' = "loop" /\ consecutive_timeouts' = 0
  /\ UNCHANGED <<GrabUnchanged, handle, used, atomics, exit_flag, queueVars>>
RestartFails ==
  /\ grab = "reset"
  /\ grab' = "loop"
  /\ UNCHANGED <<GrabUnchanged, handle, used, consecutive_timeouts, atomics,
                 exit_flag, queueVars>>

GrabStep == \/ PayloadOk \/ PayloadFails \/ GrabLoop \/ Stamp \/ Convert \/ Push
            \/ GetFails \/ RestartOk \/ RestartFails

-----------------------------------------------------------------------------
(* PublishThread. *)

\* The wait ends with a frame, with the exit flag or after 100 ms, so a missed
\* notification only delays it.
PubTake ==
  /\ pub = "wait" /\ ~exit_flag /\ g_image_queue # <<>>
  /\ taken' = Head(g_image_queue) /\ g_image_queue' = Tail(g_image_queue)
  /\ pub' = "publish"
  /\ UNCHANGED <<camera, linked, main, mainVars, grabVars, atomics, exit_flag,
                 pushed, signalled>>

PubPublish ==
  /\ pub = "publish" /\ pub' = "wait"
  /\ UNCHANGED <<camera, linked, main, mainVars, grabVars, atomics, exit_flag,
                 queueVars, taken, signalled>>

\* What is still queued is lost.
PubLeaves ==
  /\ pub = "wait" /\ exit_flag
  /\ pub' = "done"
  /\ UNCHANGED <<camera, linked, main, mainVars, grabVars, atomics, exit_flag,
                 queueVars, taken, signalled>>

PubStep == PubTake \/ PubPublish \/ PubLeaves

-----------------------------------------------------------------------------
(* Signals, the cable, time, and the launch file. *)

SignalHandler ==
  /\ main # "exited" /\ ~signalled
  /\ exit_flag' = TRUE /\ signalled' = TRUE
  /\ UNCHANGED <<camera, linked, main, mainVars, grabVars, atomics, queueVars,
                 pubVars>>

Unplug ==
  /\ camera
  /\ camera' = FALSE /\ linked' = FALSE
  /\ UNCHANGED <<main, mainVars, grabVars, atomics, exit_flag, queueVars, pubVars,
                 signalled>>

Replug ==
  /\ ~camera
  /\ camera' = TRUE
  /\ UNCHANGED <<linked, main, mainVars, grabVars, atomics, exit_flag, queueVars,
                 pubVars, signalled>>

\* Half a second passes, unless GrabThread has used up the time its call waits
\* (GetTicks) or its work may take (WorkTicks).
Tick ==
  /\ main # "exited"
  /\ grab \notin {"none", "done"} =>
       used < (IF grab = "get" THEN GetTicks ELSE WorkTicks)
  /\ used' = IF grab \in {"none", "done"} THEN used ELSE used + 1
  /\ age' = IF age = LongAgo THEN age ELSE age + 1
  /\ joined' = IF main \in {"joinGrab", "joinPub"} /\ joined < JoinTicks
               THEN joined + 1 ELSE joined
  /\ UNCHANGED <<camera, linked, main, open_retries, handle, exit_code, grab,
                 consecutive_timeouts, has_received_first_frame, stamped, exit_flag,
                 queueVars, pubVars, signalled>>

\* respawn=True: the process is gone with its threads and starts from nothing.
Respawn ==
  /\ main = "exited"
  /\ main' = "enumerate" /\ open_retries' = 0 /\ handle' = "none" /\ joined' = 0
  /\ exit_code' = 0 /\ linked' = FALSE
  /\ grab' = "none" /\ used' = 0 /\ consecutive_timeouts' = 0
  /\ age' = LongAgo /\ has_received_first_frame' = FALSE /\ stamped' = FALSE
  /\ exit_flag' = FALSE
  /\ g_image_queue' = <<>> /\ pushed' = 0
  /\ pub' = "none" /\ taken' = 0
  /\ signalled' = FALSE
  /\ UNCHANGED camera

Next ==
  \/ Enumerate \/ StartFails \/ OpenOk \/ OpenFails \/ SettingsOk \/ SettingsFail
  \/ ConfigureOk \/ ConfigureFails \/ CreatePublisher \/ PublisherFails
  \/ WatchdogArms \/ WatchdogFires \/ WatchdogRests
  \/ Shutdown
  \/ main # "exited" /\ (GrabStep \/ GetOk \/ PubStep)
  \/ SignalHandler \/ Unplug \/ Replug \/ Tick \/ Respawn

Spec == Init /\ [][Next]_vars

\* Every thread runs, time passes, the launch file starts what ended by itself, and
\* a plugged-in camera does not refuse for ever, nor is anything else main needs to
\* start missing for ever.  Nothing makes frames arrive.
Fairness ==
  /\ WF_vars(StartFails \/ OpenFails \/ SettingsFail \/ ConfigureFails \/ PublisherFails)
  /\ WF_vars(WatchdogArms \/ WatchdogFires \/ WatchdogRests)
  /\ WF_vars(Shutdown)
  /\ WF_vars(main # "exited" /\ GrabStep)
  /\ WF_vars(main # "exited" /\ PubStep)
  /\ WF_vars(Tick)
  /\ WF_vars(~signalled /\ Respawn)
  /\ SF_vars(Enumerate) /\ SF_vars(OpenOk)
  /\ SF_vars(SettingsOk) /\ SF_vars(ConfigureOk) /\ SF_vars(CreatePublisher)

FairSpec == Spec /\ Fairness

-----------------------------------------------------------------------------
(* Properties. *)

TypeOK ==
  /\ camera \in BOOLEAN /\ linked \in BOOLEAN /\ (linked => camera)
  /\ main \in {"enumerate", "open", "settings", "configure", "threads", "loop", "check",
               "joinGrab", "joinPub", "stop", "close", "destroy", "exited"}
  /\ open_retries \in 0 .. OpenRetries
  /\ handle \in {"none", "open", "grabbing", "paused", "stopped", "closed",
                 "destroyed"}
  /\ joined \in 0 .. JoinTicks /\ exit_code \in {-1, 0, 1}
  /\ grab \in {"none", "start", "loop", "get", "stamp", "flag", "convert", "push",
               "reset", "done"}
  /\ used \in 0 .. (IF GetTicks > WorkTicks THEN GetTicks ELSE WorkTicks)
  /\ consecutive_timeouts \in 0 .. DeadAt
  /\ age \in 0 .. LongAgo
  /\ has_received_first_frame \in BOOLEAN /\ exit_flag \in BOOLEAN
  /\ g_image_queue \in Seq(1 .. pushed) /\ Len(g_image_queue) <= MAX_QUEUE_SIZE
  /\ pushed \in 0 .. MaxFrames /\ taken \in 0 .. pushed
  /\ pub \in {"none", "wait", "publish", "done"}
  /\ stamped \in BOOLEAN /\ signalled \in BOOLEAN

\* GrabThread is never inside an SDK call, or about to make one, on a handle that
\* main has stopped, closed or destroyed: two seconds are enough for its longest
\* call, although main does not look whether the join succeeded.
HandleSafety ==
  handle \in {"stopped", "closed", "destroyed"} => grab \in {"none", "done"}

\* PublishThread sees the frames in order, each once, and misses one only because
\* MAX_QUEUE_SIZE newer ones waited: the queue is the newest frames without a gap,
\* and starts right after the frame taken last unless it is full.
NewestInOrder ==
  LET n == Len(g_image_queue)
  IN  /\ g_image_queue = [i \in 1 .. n |-> pushed - n + i]
      /\ n < MAX_QUEUE_SIZE => pushed - n = taken

\* The watchdog never compares the clock with the zero last_frame_time_ms starts
\* with: the first frame of a process cannot end it.
WatchdogSeesStamp == main = "check" => stamped

\* A stream that ran and stops for good ends the process, so that it is started
\* again, even when every restart of the stream reports success.
StreamLossExits ==
  <>[][~GetOk]_vars => (has_received_first_frame ~> main = "exited")

\* Once any thread or a signal raises exit_flag, main gets through its joins.
ExitCompletes == exit_flag ~> main = "exited"

\* A camera that is back for good is grabbed from again, unless a signal ended the
\* node or GrabThread returned over its payload size: then main loops on, blind.
Blind == main = "loop" /\ grab = "done" /\ ~exit_flag
CameraRecovers ==
  <>[]camera /\ <>[](~signalled) => []<>(grab = "get" /\ linked) \/ <>[]Blind

\* "mvs_camera_node exited unexpectedly. Terminating for respawn." (line 744): a
\* process that ends with 1 was not told to.
UnexpectedExitOnly == exit_code = 1 => ~signalled
=============================================================================
