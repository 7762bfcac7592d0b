-------------------------- MODULE CameraGrabProofs --------------------------
(***************************************************************************)
(* CameraGrab for any queue size, any retry limits and any timing in which *)
(* GrabThread's longest call and its work fit into main's timed join.      *)
(***************************************************************************)
EXTENDS CameraGrab, SequenceTheorems, TLAPS

-----------------------------------------------------------------------------
(* The inductive invariant. *)

\* TypeOK without the queue, with the tighter ranges the retry limits and the
\* clocks give while their loops run.
Scalars ==
  /\ camera \in BOOLEAN /\ linked \in BOOLEAN /\ (linked => camera)
  /\ open_retries \in 0 .. OpenRetries
  /\ main \in {"enumerate", "open"} => open_retries < OpenRetries
  /\ joined \in 0 .. JoinTicks /\ exit_code \in {-1, 0, 1}
  /\ used \in Nat
  /\ used <= IF grab = "get" THEN GetTicks ELSE WorkTicks
  /\ consecutive_timeouts \in 0 .. DeadAt
  /\ grab # "done" => consecutive_timeouts < DeadAt
  /\ age \in 0 .. LongAgo
  /\ has_received_first_frame \in BOOLEAN /\ exit_flag \in BOOLEAN
  /\ stamped \in BOOLEAN /\ signalled \in BOOLEAN

\* Where main is, what it has left of the handle, and where GrabThread may be.
Phases ==
  /\ main \in {"enumerate", "open", "settings", "configure", "threads", "loop", "check",
               "joinGrab", "joinPub", "stop", "close", "destroy", "exited"}
  /\ handle \in {"none", "open", "grabbing", "paused", "stopped", "closed",
                 "destroyed"}
  /\ grab \in {"none", "start", "loop", "get", "stamp", "flag", "convert", "push",
               "reset", "done"}
  /\ pub \in {"none", "wait", "publish", "done"}
  /\ main \in {"enumerate", "open", "settings", "configure"} => grab = "none"
  /\ main \in {"threads", "loop", "check", "joinGrab"} => grab # "none"
  /\ main \in {"joinPub", "stop", "close", "destroy"} => grab = "done"
  /\ handle \in {"stopped", "closed", "destroyed"} =>
       main \in {"close", "destroy", "exited"} /\ grab \in {"none", "done"}

\* Ticks GrabThread may still take before it sees exit_flag: at most the rest of
\* one call and the work after it.
Remaining == CASE grab \in {"none", "done"} -> 0
               [] grab = "get" -> GetTicks - used + WorkTicks
               [] OTHER -> WorkTicks - used

\* While main joins, what GrabThread has left and what main has waited add up to no
\* more than one call and its work.
Joining ==
  main = "joinGrab" =>
    exit_flag /\ (grab = "done" \/ joined + Remaining <= GetTicks + WorkTicks)

\* The stamp is there before the flag, and the flag before the watchdog looks.
Stamps ==
  /\ grab = "flag" => stamped
  /\ has_received_first_frame => stamped
  /\ main = "check" => stamped

\* The queue is the newest frames; a frame on its way has a number left.
QueueOf(q, p, t) ==
  \E n \in 0 .. MAX_QUEUE_SIZE :
    /\ q = [i \in 1 .. n |-> p - n + i]
    /\ t + n <= p /\ (n < MAX_QUEUE_SIZE => t + n = p)
Frames ==
  /\ pushed \in 0 .. MaxFrames /\ taken \in Nat
  /\ grab \in {"stamp", "flag", "convert", "push"} => pushed < MaxFrames
  /\ QueueOf(g_image_queue, pushed, taken)

IInv == Scalars /\ Phases /\ Joining /\ Stamps /\ Frames

-----------------------------------------------------------------------------
(* The queue. *)

\* A run of consecutive numbers is a sequence of them.
LEMMA RunIsSeq ==
  ASSUME NEW n \in Nat, NEW p \in Nat, n <= p
  PROVE  /\ [i \in 1 .. n |-> p - n + i] \in Seq(1 .. p)
         /\ Len([i \in 1 .. n |-> p - n + i]) = n
<1> DEFINE run == [i \in 1 .. n |-> p - n + i]
<1>1. run \in [1 .. n -> 1 .. p]
  OBVIOUS
<1>2. run \in Seq(1 .. p)
  BY <1>1
<1> QED  BY <1>1, <1>2, LenProperties

\* The run goes on with the next number.
LEMMA RunAppend ==
  ASSUME NEW n \in Nat, NEW p \in Nat, n <= p
  PROVE  Append([i \in 1 .. n |-> p - n + i], p + 1) = [i \in 1 .. n + 1 |-> p - n + i]
<1> DEFINE run == [i \in 1 .. n |-> p - n + i]
           longer == [i \in 1 .. n + 1 |-> p - n + i]
<1>1. run \in Seq(Int) /\ Len(run) = n
  <2>1. run \in Seq(1 .. p) /\ Len(run) = n
    BY RunIsSeq
  <2> QED  BY <2>1
<1> HIDE DEF run
<1>2. /\ Append(run, p + 1) \in Seq(Int)
      /\ Len(Append(run, p + 1)) = n + 1
      /\ \A i \in 1 .. n : Append(run, p + 1)[i] = run[i]
      /\ Append(run, p + 1)[n + 1] = p + 1
  BY <1>1, AppendProperties
<1>3. \A i \in 1 .. n : run[i] = p - n + i
  BY DEF run
<1>4. DOMAIN Append(run, p + 1) = 1 .. n + 1
  BY <1>2, LenProperties
<1>5. \A i \in 1 .. n + 1 : Append(run, p + 1)[i] = p - n + i
  BY <1>2, <1>3
<1>6. Append(run, p + 1) = [i \in 1 .. n + 1 |-> Append(run, p + 1)[i]]
  BY <1>2, <1>4, LenProperties
<1>7. Append(run, p + 1) = longer
  BY <1>5, <1>6
<1> QED  BY <1>7 DEF run

\* Without its first number it is still a run.
LEMMA RunTail ==
  ASSUME NEW n \in Nat \ {0}, NEW p \in Nat, n <= p
  PROVE  /\ Head([i \in 1 .. n |-> p - n + i]) = p - n + 1
         /\ Tail([i \in 1 .. n |-> p - n + i]) =
              [i \in 1 .. n - 1 |-> p - (n - 1) + i]
<1> DEFINE run == [i \in 1 .. n |-> p - n + i]
<1>1. run \in Seq(Int) /\ Len(run) = n
  <2>1. run \in Seq(1 .. p) /\ Len(run) = n
    BY RunIsSeq
  <2> QED  BY <2>1
<1>2. Head(run) = p - n + 1
  BY <1>1
<1>3. \A i \in 1 .. n : run[i] = p - n + i
  OBVIOUS
<1> HIDE DEF run
<1>4. run # <<>>
  BY <1>1
<1>5. /\ Tail(run) \in Seq(Int) /\ Len(Tail(run)) = n - 1
      /\ \A i \in 1 .. n - 1 : Tail(run)[i] = run[i + 1]
  BY <1>1, <1>4, HeadTailProperties
<1>6. \A i \in 1 .. n - 1 : Tail(run)[i] = p - (n - 1) + i
  BY <1>3, <1>5
<1>7. Tail(run) = [i \in 1 .. n - 1 |-> Tail(run)[i]]
  BY <1>5, LenProperties
<1>8. Tail(run) = [i \in 1 .. n - 1 |-> p - (n - 1) + i]
  BY <1>6, <1>7
<1> QED  BY <1>2, <1>8 DEF run

\* Queueing a frame keeps the newest ones.
LEMMA QueuedKeeps ==
  ASSUME NEW p \in Nat, NEW t \in Nat, NEW q, QueueOf(q, p, t)
  PROVE  QueueOf(Queued(q, p + 1), p + 1, t)
<1>1. PICK n \in 0 .. MAX_QUEUE_SIZE :
        /\ q = [i \in 1 .. n |-> p - n + i]
        /\ t + n <= p /\ (n < MAX_QUEUE_SIZE => t + n = p)
  BY DEF QueueOf
<1> n \in Nat /\ n <= p /\ MAX_QUEUE_SIZE \in Nat \ {0}
  BY <1>1, GrabAssumption
<1>2. Len(q) = n
  BY <1>1, RunIsSeq
<1>3. CASE n < MAX_QUEUE_SIZE
  <2>1. Queued(q, p + 1) = [i \in 1 .. n + 1 |-> p - n + i]
    BY <1>1, <1>2, <1>3, RunAppend DEF Queued
  <2>2. \A i \in 1 .. n + 1 : p - n + i = (p + 1) - (n + 1) + i
    OBVIOUS
  <2>3. Queued(q, p + 1) = [i \in 1 .. n + 1 |-> (p + 1) - (n + 1) + i]
    BY <2>1, <2>2
  <2>4. n + 1 \in 0 .. MAX_QUEUE_SIZE /\ t + (n + 1) = p + 1
    BY <1>1, <1>3
  <2> QED  BY <2>3, <2>4 DEF QueueOf
<1>4. CASE n = MAX_QUEUE_SIZE
  <2>1. Tail(q) = [i \in 1 .. n - 1 |-> p - (n - 1) + i]
    <3>1. n \in Nat \ {0}
      BY <1>4
    <3> QED  BY <1>1, <3>1, RunTail
  <2>2. Queued(q, p + 1) = Append(Tail(q), p + 1)
    BY <1>2, <1>4 DEF Queued
  <2>3. n - 1 \in Nat /\ n - 1 <= p
    BY <1>4
  <2>4. Append(Tail(q), p + 1) = [i \in 1 .. (n - 1) + 1 |-> p - (n - 1) + i]
    <3> DEFINE m == n - 1
    <3>1. Append([i \in 1 .. m |-> p - m + i], p + 1)
            = [i \in 1 .. m + 1 |-> p - m + i]
      BY <2>3, RunAppend
    <3> QED  BY <2>1, <3>1
  <2>5. (n - 1) + 1 = n /\ \A i \in 1 .. n : p - (n - 1) + i = (p + 1) - n + i
    OBVIOUS
  <2>6. Queued(q, p + 1) = [i \in 1 .. n |-> (p + 1) - n + i]
    BY <2>2, <2>4, <2>5
  <2>7. n \in 0 .. MAX_QUEUE_SIZE /\ t + n <= p + 1 /\ ~(n < MAX_QUEUE_SIZE)
    BY <1>1, <1>4
  <2> QED  BY <2>6, <2>7 DEF QueueOf
<1> QED  BY <1>1, <1>3, <1>4

\* Taking the first frame leaves the ones right after it.
LEMMA TakenKeeps ==
  ASSUME NEW p \in Nat, NEW t \in Nat, NEW q, QueueOf(q, p, t), q # <<>>
  PROVE  /\ Head(q) \in Nat /\ QueueOf(Tail(q), p, Head(q))
<1>1. PICK n \in 0 .. MAX_QUEUE_SIZE :
        /\ q = [i \in 1 .. n |-> p - n + i]
        /\ t + n <= p /\ (n < MAX_QUEUE_SIZE => t + n = p)
  BY DEF QueueOf
<1> n \in Nat /\ n <= p /\ MAX_QUEUE_SIZE \in Nat \ {0}
  BY <1>1, GrabAssumption
<1>2. n # 0
  <2> SUFFICES ASSUME n = 0  PROVE FALSE
    OBVIOUS
  <2>1. q \in Seq(1 .. p) /\ Len(q) = 0
    BY <1>1, RunIsSeq
  <2> QED  BY <2>1, EmptySeq
<1>3. Head(q) = p - n + 1 /\ Tail(q) = [i \in 1 .. n - 1 |-> p - (n - 1) + i]
  BY <1>1, <1>2, RunTail
<1>4. n - 1 \in 0 .. MAX_QUEUE_SIZE /\ Head(q) + (n - 1) = p /\ Head(q) \in Nat
  BY <1>2, <1>3
<1> DEFINE m == n - 1
<1>5. /\ m \in 0 .. MAX_QUEUE_SIZE /\ Head(q) + m = p
      /\ Tail(q) = [i \in 1 .. m |-> p - m + i]
  BY <1>3, <1>4
<1>6. Head(q) + m <= p
  BY <1>5
<1> HIDE DEF m
<1> QED  BY <1>4, <1>5, <1>6 DEF QueueOf

-----------------------------------------------------------------------------
(* Every step keeps it. *)

\* GrabAssumption, constant by constant.
LEMMA Constants ==
  /\ MAX_QUEUE_SIZE \in Nat \ {0} /\ OpenRetries \in Nat \ {0}
  /\ RestartAt \in Nat \ {0} /\ GetTicks \in Nat \ {0} /\ WorkTicks \in Nat \ {0}
  /\ MaxFrames \in Nat /\ DeadAt \in Nat /\ JoinTicks \in Nat /\ WatchdogTicks \in Nat
  /\ RestartAt < DeadAt /\ GetTicks + WorkTicks < JoinTicks /\ LongAgo \in Nat \ {0}
BY GrabAssumption DEF LongAgo

LEMMA GrabInit == Init => IInv
<1> SUFFICES ASSUME Init  PROVE IInv
  OBVIOUS
<1> USE Constants DEF Init
<1>1. QueueOf(<<>>, 0, 0) /\ Len(<<>>) = 0
  <2>1. <<>> = [i \in 1 .. 0 |-> 0 - 0 + i]
    OBVIOUS
  <2> QED  BY <2>1 DEF QueueOf
<1>2. Frames
  BY <1>1 DEF Frames
<1>3. Scalars
  <2>1. /\ camera \in BOOLEAN /\ linked \in BOOLEAN /\ (linked => camera)
        /\ has_received_first_frame \in BOOLEAN /\ exit_flag \in BOOLEAN
        /\ stamped \in BOOLEAN /\ signalled \in BOOLEAN
    BY Zenon
  <2>2. /\ open_retries = 0 /\ joined = 0 /\ exit_code = 0 /\ used = 0
        /\ consecutive_timeouts = 0 /\ age = LongAgo /\ grab = "none"
    OBVIOUS
  <2> QED  BY <2>1, <2>2 DEF Scalars
<1>4. Phases /\ Joining /\ Stamps
  BY DEF Phases, Joining, Stamps
<1> QED  BY <1>2, <1>3, <1>4 DEF IInv

\* A step that touches neither the numbers nor the queue keeps Frames.
LEMMA FramesUnmoved ==
  ASSUME Frames, UNCHANGED <<g_image_queue, pushed, taken>>,
         grab' \in {"stamp", "flag", "convert", "push"} => pushed < MaxFrames
  PROVE  Frames'
BY DEF Frames, QueueOf

\* main's steps, up to its loop.
LEMMA StartKeeps ==
  ASSUME IInv,
         \/ Enumerate \/ StartFails \/ OpenOk \/ OpenFails
         \/ SettingsOk \/ SettingsFail \/ ConfigureOk \/ ConfigureFails
         \/ CreatePublisher \/ PublisherFails
  PROVE  IInv'
<1> USE Constants DEF IInv, Return, mainVars, grabVars, atomics, queueVars, pubVars
<1>1. CASE Enumerate
  <2>1. Scalars'
    BY <1>1 DEF Enumerate, Scalars
  <2>2. Phases' /\ Joining' /\ Stamps'
    BY <1>1 DEF Enumerate, Phases, Joining, Stamps
  <2>3. Frames'
    BY <1>1, FramesUnmoved DEF Enumerate, Frames
  <2> QED  BY <2>1, <2>2, <2>3
<1>2. CASE OpenOk
  <2>1. Scalars'
    BY <1>2 DEF OpenOk, Scalars
  <2>2. Phases' /\ Joining' /\ Stamps'
    BY <1>2 DEF OpenOk, Phases, Joining, Stamps
  <2>3. Frames'
    BY <1>2, FramesUnmoved DEF OpenOk, Frames
  <2> QED  BY <2>1, <2>2, <2>3
<1>3. CASE OpenFails
  <2>1. Scalars'
    BY <1>3 DEF OpenFails, Scalars
  <2>2. Phases' /\ Joining' /\ Stamps'
    BY <1>3 DEF OpenFails, Phases, Joining, Stamps
  <2>3. Frames'
    BY <1>3, FramesUnmoved DEF OpenFails, Frames
  <2> QED  BY <2>1, <2>2, <2>3
<1>4. CASE ConfigureOk
  <2>1. Scalars'
    BY <1>4 DEF ConfigureOk, Scalars, Phases
  <2>2. Phases' /\ Joining' /\ Stamps'
    BY <1>4 DEF ConfigureOk, Phases, Joining, Stamps
  <2>3. Frames'
    BY <1>4, FramesUnmoved DEF ConfigureOk, Frames
  <2> QED  BY <2>1, <2>2, <2>3
<1>5. CASE ConfigureFails
  <2>1. Scalars'
    BY <1>5 DEF ConfigureFails, Scalars
  <2>2. Phases' /\ Joining' /\ Stamps'
    BY <1>5 DEF ConfigureFails, Phases, Joining, Stamps
  <2>3. Frames'
    BY <1>5, FramesUnmoved DEF ConfigureFails, Frames
  <2> QED  BY <2>1, <2>2, <2>3
<1>6. CASE StartFails
  <2>1. Scalars'
    BY <1>6 DEF StartFails, Scalars
  <2>2. Phases' /\ Joining' /\ Stamps'
    BY <1>6 DEF StartFails, Phases, Joining, Stamps
  <2>3. Frames'
    BY <1>6, FramesUnmoved DEF StartFails, Frames
  <2> QED  BY <2>1, <2>2, <2>3
<1>7. CASE SettingsOk
  <2>1. Scalars'
    BY <1>7 DEF SettingsOk, Scalars
  <2>2. Phases' /\ Joining' /\ Stamps'
    BY <1>7 DEF SettingsOk, Phases, Joining, Stamps
  <2>3. Frames'
    BY <1>7, FramesUnmoved DEF SettingsOk, Frames
  <2> QED  BY <2>1, <2>2, <2>3
<1>8. CASE SettingsFail
  <2>1. Scalars'
    BY <1>8 DEF SettingsFail, Scalars
  <2>2. Phases' /\ Joining' /\ Stamps'
    BY <1>8 DEF SettingsFail, Phases, Joining, Stamps
  <2>3. Frames'
    BY <1>8, FramesUnmoved DEF SettingsFail, Frames
  <2> QED  BY <2>1, <2>2, <2>3
<1>9. CASE CreatePublisher
  <2>1. Scalars'
    BY <1>9 DEF CreatePublisher, Scalars
  <2>2. Phases' /\ Joining' /\ Stamps'
    BY <1>9 DEF CreatePublisher, Phases, Joining, Stamps
  <2>3. Frames'
    BY <1>9, FramesUnmoved DEF CreatePublisher, Frames
  <2> QED  BY <2>1, <2>2, <2>3
<1>10. CASE PublisherFails
  <2>1. Scalars'
    BY <1>10 DEF PublisherFails, Scalars
  <2>2. Phases' /\ Joining' /\ Stamps'
    BY <1>10 DEF PublisherFails, Phases, Joining, Stamps
  <2>3. Frames'
    BY <1>10, FramesUnmoved DEF PublisherFails, Frames
  <2> QED  BY <2>1, <2>2, <2>3
<1> QED  BY <1>1, <1>2, <1>3, <1>4, <1>5, <1>6, <1>7, <1>8, <1>9, <1>10

\* main's loop, the watchdog and the joins.
LEMMA LoopKeeps ==
  ASSUME IInv, LeaveLoop \/ WatchdogArms \/ WatchdogFires \/ WatchdogRests \/ JoinGrab \/ JoinPub \/ DestroyAndReturn
  PROVE  IInv'
<1> USE Constants DEF IInv, mainVars, grabVars, atomics, queueVars, pubVars, Return, StartShutdown, MustLeave, Frozen, JoinExpired
<1>1. CASE LeaveLoop
  <2>1. Scalars'
    BY <1>1 DEF LeaveLoop, Scalars, Phases
  <2>2. Phases' /\ Joining' /\ Stamps'
    BY <1>1 DEF LeaveLoop, Scalars, Phases, Joining, Remaining, Stamps
  <2>3. Frames'
    BY <1>1, FramesUnmoved DEF LeaveLoop, Frames
  <2> QED  BY <2>1, <2>2, <2>3
<1>2. CASE WatchdogArms
  <2>1. Scalars'
    BY <1>2 DEF WatchdogArms, Scalars, Phases
  <2>2. Phases' /\ Joining' /\ Stamps'
    BY <1>2 DEF WatchdogArms, Scalars, Phases, Joining, Remaining, Stamps
  <2>3. Frames'
    BY <1>2, FramesUnmoved DEF WatchdogArms, Frames
  <2> QED  BY <2>1, <2>2, <2>3
<1>3. CASE WatchdogFires
  <2>1. Scalars'
    BY <1>3 DEF WatchdogFires, Scalars, Phases
  <2>2. Phases' /\ Joining' /\ Stamps'
    BY <1>3 DEF WatchdogFires, Scalars, Phases, Joining, Remaining, Stamps
  <2>3. Frames'
    BY <1>3, FramesUnmoved DEF WatchdogFires, Frames
  <2> QED  BY <2>1, <2>2, <2>3
<1>4. CASE WatchdogRests
  <2>1. Scalars'
    BY <1>4 DEF WatchdogRests, Scalars, Phases
  <2>2. Phases' /\ Joining' /\ Stamps'
    BY <1>4 DEF WatchdogRests, Scalars, Phases, Joining, Remaining, Stamps
  <2>3. Frames'
    BY <1>4, FramesUnmoved DEF WatchdogRests, Frames
  <2> QED  BY <2>1, <2>2, <2>3
<1>5. CASE JoinGrab
  <2>1. Scalars'
    BY <1>5 DEF JoinGrab, Scalars, Phases
  <2>2. Phases' /\ Joining' /\ Stamps'
    BY <1>5 DEF JoinGrab, Scalars, Phases, Joining, Remaining, Stamps
  <2>3. Frames'
    BY <1>5, FramesUnmoved DEF JoinGrab, Frames
  <2> QED  BY <2>1, <2>2, <2>3
<1>6. CASE JoinPub
  <2>1. Scalars'
    BY <1>6 DEF JoinPub, Scalars, Phases
  <2>2. Phases' /\ Joining' /\ Stamps'
    BY <1>6 DEF JoinPub, Scalars, Phases, Joining, Remaining, Stamps
  <2>3. Frames'
    BY <1>6, FramesUnmoved DEF JoinPub, Frames
  <2> QED  BY <2>1, <2>2, <2>3
<1>7. CASE DestroyAndReturn
  <2>1. Scalars'
    BY <1>7 DEF DestroyAndReturn, Scalars, Phases
  <2>2. Phases' /\ Joining' /\ Stamps'
    BY <1>7 DEF DestroyAndReturn, Scalars, Phases, Joining, Remaining, Stamps
  <2>3. Frames'
    BY <1>7, FramesUnmoved DEF DestroyAndReturn, Frames
  <2> QED  BY <2>1, <2>2, <2>3
<1> QED  BY <1>1, <1>2, <1>3, <1>4, <1>5, <1>6, <1>7

\* Stopping and closing the device.
LEMMA ReleaseKeeps ==
  ASSUME IInv, Release("stop", "stopped", "close") \/ Release("close", "closed", "destroy")
  PROVE  IInv'
<1> USE Constants DEF IInv, mainVars, grabVars, atomics, queueVars, pubVars, Return
<1>1. CASE Release("stop", "stopped", "close")
  <2>1. Scalars'
    BY <1>1 DEF Release, Scalars, Phases
  <2>2. Phases' /\ Joining' /\ Stamps'
    BY <1>1 DEF Release, Scalars, Phases, Joining, Remaining, Stamps
  <2>3. Frames'
    BY <1>1, FramesUnmoved DEF Release, Frames
  <2> QED  BY <2>1, <2>2, <2>3
<1>2. CASE Release("close", "closed", "destroy")
  <2>1. Scalars'
    BY <1>2 DEF Release, Scalars, Phases
  <2>2. Phases' /\ Joining' /\ Stamps'
    BY <1>2 DEF Release, Scalars, Phases, Joining, Remaining, Stamps
  <2>3. Frames'
    BY <1>2, FramesUnmoved DEF Release, Frames
  <2> QED  BY <2>1, <2>2, <2>3
<1> QED  BY <1>1, <1>2

\* GrabThread, but for the frame it queues.
LEMMA GrabKeeps ==
  ASSUME IInv, PayloadOk \/ PayloadFails \/ GrabLoop \/ GetOk \/ Stamp \/ Convert \/ GetFails \/ RestartOk \/ RestartFails
  PROVE  IInv'
<1> USE Constants DEF IInv, mainVars, grabVars, atomics, queueVars, pubVars, GrabUnchanged, StampFirst
<1>1. CASE PayloadOk
  <2>1. Scalars'
    BY <1>1 DEF PayloadOk, Scalars, Phases
  <2>2. Phases' /\ Joining' /\ Stamps'
    BY <1>1 DEF PayloadOk, Scalars, Phases, Joining, Remaining, Stamps
  <2>3. Frames'
    BY <1>1, FramesUnmoved DEF PayloadOk, Frames
  <2> QED  BY <2>1, <2>2, <2>3
<1>2. CASE PayloadFails
  <2>1. Scalars'
    BY <1>2 DEF PayloadFails, Scalars, Phases
  <2>2. Phases' /\ Joining' /\ Stamps'
    BY <1>2 DEF PayloadFails, Scalars, Phases, Joining, Remaining, Stamps
  <2>3. Frames'
    BY <1>2, FramesUnmoved DEF PayloadFails, Frames
  <2> QED  BY <2>1, <2>2, <2>3
<1>3. CASE GrabLoop
  <2>1. Scalars'
    BY <1>3 DEF GrabLoop, Scalars, Phases
  <2>2. Phases' /\ Joining' /\ Stamps'
    BY <1>3 DEF GrabLoop, Scalars, Phases, Joining, Remaining, Stamps
  <2>3. Frames'
    BY <1>3, FramesUnmoved DEF GrabLoop, Frames
  <2> QED  BY <2>1, <2>2, <2>3
<1>4. CASE GetOk
  <2>1. Scalars'
    BY <1>4 DEF GetOk, Scalars, Phases
  <2>2. Phases' /\ Joining' /\ Stamps'
    BY <1>4 DEF GetOk, Scalars, Phases, Joining, Remaining, Stamps
  <2>3. Frames'
    BY <1>4, FramesUnmoved DEF GetOk, Frames
  <2> QED  BY <2>1, <2>2, <2>3
<1>5. CASE Stamp
  <2>1. Scalars'
    <3>1. /\ age' = 0 \/ age' = age
          /\ stamped' \in BOOLEAN /\ has_received_first_frame' \in BOOLEAN
      BY <1>5, Zenon DEF Stamp, Scalars
    <3>2. grab # "get" /\ grab' # "get" /\ grab' # "done" /\ grab # "done"
      BY <1>5 DEF Stamp
    <3>3. UNCHANGED <<camera, linked, main, open_retries, joined, exit_code, used,
                      consecutive_timeouts, exit_flag, signalled>>
      BY <1>5 DEF Stamp
    <3> QED  BY <3>1, <3>2, <3>3 DEF Scalars
  <2>2. Phases' /\ Joining' /\ Stamps'
    BY <1>5 DEF Stamp, Scalars, Phases, Joining, Remaining, Stamps
  <2>3. Frames'
    BY <1>5, FramesUnmoved DEF Stamp, Frames
  <2> QED  BY <2>1, <2>2, <2>3
<1>6. CASE Convert
  <2>1. Scalars'
    BY <1>6 DEF Convert, Scalars, Phases
  <2>2. Phases' /\ Joining' /\ Stamps'
    BY <1>6 DEF Convert, Scalars, Phases, Joining, Remaining, Stamps
  <2>3. Frames'
    BY <1>6, FramesUnmoved DEF Convert, Frames
  <2> QED  BY <2>1, <2>2, <2>3
<1>7. CASE GetFails
  <2>1. Scalars'
    <3> DEFINE n == consecutive_timeouts + 1
    <3>1. n \in 1 .. DeadAt
      BY <1>7 DEF GetFails, Scalars
    <3>2. CASE n = RestartAt
      BY <1>7, <3>1, <3>2 DEF GetFails, Scalars
    <3>3. CASE n # RestartAt /\ n >= DeadAt
      BY <1>7, <3>1, <3>3 DEF GetFails, Scalars
    <3>4. CASE n # RestartAt /\ n < DeadAt
      BY <1>7, <3>1, <3>4 DEF GetFails, Scalars
    <3> QED  BY <3>1, <3>2, <3>3, <3>4
  <2>2. Phases' /\ Joining' /\ Stamps'
    BY <1>7 DEF GetFails, Scalars, Phases, Joining, Remaining, Stamps
  <2>3. Frames'
    BY <1>7, FramesUnmoved DEF GetFails, Frames
  <2> QED  BY <2>1, <2>2, <2>3
<1>8. CASE RestartOk
  <2>1. Scalars'
    BY <1>8 DEF RestartOk, Scalars, Phases
  <2>2. Phases' /\ Joining' /\ Stamps'
    BY <1>8 DEF RestartOk, Scalars, Phases, Joining, Remaining, Stamps
  <2>3. Frames'
    BY <1>8, FramesUnmoved DEF RestartOk, Frames
  <2> QED  BY <2>1, <2>2, <2>3
<1>9. CASE RestartFails
  <2>1. Scalars'
    BY <1>9 DEF RestartFails, Scalars, Phases
  <2>2. Phases' /\ Joining' /\ Stamps'
    BY <1>9 DEF RestartFails, Scalars, Phases, Joining, Remaining, Stamps
  <2>3. Frames'
    BY <1>9, FramesUnmoved DEF RestartFails, Frames
  <2> QED  BY <2>1, <2>2, <2>3
<1> QED  BY <1>1, <1>2, <1>3, <1>4, <1>5, <1>6, <1>7, <1>8, <1>9

\* Signals, the cable, time, and PublishThread's two other steps.
LEMMA WorldKeeps ==
  ASSUME IInv, PubPublish \/ PubLeaves \/ SignalHandler \/ Unplug \/ Replug \/ Tick
  PROVE  IInv'
<1> USE Constants DEF IInv, mainVars, grabVars, atomics, queueVars, pubVars
<1>1. CASE PubPublish
  <2>1. Scalars'
    BY <1>1 DEF PubPublish, Scalars, Phases
  <2>2. Phases' /\ Joining' /\ Stamps'
    BY <1>1 DEF PubPublish, Scalars, Phases, Joining, Remaining, Stamps
  <2>3. Frames'
    BY <1>1, FramesUnmoved DEF PubPublish, Frames
  <2> QED  BY <2>1, <2>2, <2>3
<1>2. CASE PubLeaves
  <2>1. Scalars'
    BY <1>2 DEF PubLeaves, Scalars, Phases
  <2>2. Phases' /\ Joining' /\ Stamps'
    BY <1>2 DEF PubLeaves, Scalars, Phases, Joining, Remaining, Stamps
  <2>3. Frames'
    BY <1>2, FramesUnmoved DEF PubLeaves, Frames
  <2> QED  BY <2>1, <2>2, <2>3
<1>3. CASE SignalHandler
  <2>1. Scalars'
    BY <1>3 DEF SignalHandler, Scalars, Phases
  <2>2. Phases' /\ Joining' /\ Stamps'
    BY <1>3 DEF SignalHandler, Scalars, Phases, Joining, Remaining, Stamps
  <2>3. Frames'
    BY <1>3, FramesUnmoved DEF SignalHandler, Frames
  <2> QED  BY <2>1, <2>2, <2>3
<1>4. CASE Unplug
  <2>1. Scalars'
    BY <1>4 DEF Unplug, Scalars, Phases
  <2>2. Phases' /\ Joining' /\ Stamps'
    BY <1>4 DEF Unplug, Scalars, Phases, Joining, Remaining, Stamps
  <2>3. Frames'
    BY <1>4, FramesUnmoved DEF Unplug, Frames
  <2> QED  BY <2>1, <2>2, <2>3
<1>5. CASE Replug
  <2>1. Scalars'
    BY <1>5 DEF Replug, Scalars, Phases
  <2>2. Phases' /\ Joining' /\ Stamps'
    BY <1>5 DEF Replug, Scalars, Phases, Joining, Remaining, Stamps
  <2>3. Frames'
    BY <1>5, FramesUnmoved DEF Replug, Frames
  <2> QED  BY <2>1, <2>2, <2>3
<1>6. CASE Tick
  <2>1. Scalars'
    BY <1>6 DEF Tick, Scalars, Phases
  <2>2. Phases' /\ Joining' /\ Stamps'
    <3>1. Phases' /\ Stamps'
      BY <1>6 DEF Tick, Phases, Stamps
    <3>2. Joining'
      <4> SUFFICES ASSUME main = "joinGrab", grab # "done"  PROVE Joining'
        BY <1>6 DEF Tick, Joining
      <4>1. joined' <= joined + 1 /\ exit_flag' = exit_flag /\ joined' \in Nat
        BY <1>6 DEF Tick, Scalars
      <4>2. grab # "none"
        BY DEF Phases
      <4>3. used' = used + 1 /\ grab' = grab
        BY <1>6, <4>2 DEF Tick
      <4>4. Remaining' + 1 = Remaining
        BY <4>2, <4>3 DEF Remaining, Scalars
      <4> QED  BY <4>1, <4>2, <4>3, <4>4 DEF Joining, Remaining, Scalars
    <3> QED  BY <3>1, <3>2
  <2>3. Frames'
    BY <1>6, FramesUnmoved DEF Tick, Frames
  <2> QED  BY <2>1, <2>2, <2>3
<1> QED  BY <1>1, <1>2, <1>3, <1>4, <1>5, <1>6

\* GrabThread queues a frame, PublishThread takes one.
LEMMA QueueKeeps == ASSUME IInv, Push \/ PubTake  PROVE IInv'
<1> USE Constants DEF IInv, mainVars, grabVars, atomics, queueVars, pubVars, GrabUnchanged
<1>1. CASE Push
  <2>1. Scalars'
    BY <1>1 DEF Push, Scalars
  <2>2. Phases' /\ Joining' /\ Stamps'
    BY <1>1 DEF Push, Scalars, Phases, Joining, Remaining, Stamps
  <2>3. Frames'
    <3>1. pushed' = pushed + 1 /\ pushed' \in 0 .. MaxFrames /\ taken' = taken
      BY <1>1 DEF Push, Frames
    <3>2. QueueOf(Queued(g_image_queue, pushed + 1), pushed + 1, taken)
      BY QueuedKeeps DEF Frames
    <3>3. QueueOf(g_image_queue', pushed', taken')
      BY <1>1, <3>1, <3>2 DEF Push
    <3> QED  BY <1>1, <3>1, <3>3 DEF Frames, Push
  <2> QED  BY <2>1, <2>2, <2>3
<1>2. CASE PubTake
  <2>1. Scalars'
    BY <1>2 DEF PubTake, Scalars
  <2>2. Phases' /\ Joining' /\ Stamps'
    BY <1>2 DEF PubTake, Phases, Joining, Remaining, Stamps
  <2>3. Frames'
    <3>1. Head(g_image_queue) \in Nat
          /\ QueueOf(Tail(g_image_queue), pushed, Head(g_image_queue))
      BY <1>2, TakenKeeps DEF PubTake, Frames
    <3>2. taken' \in Nat /\ QueueOf(g_image_queue', pushed', taken')
      BY <1>2, <3>1 DEF PubTake
    <3> QED  BY <1>2, <3>2 DEF PubTake, Frames
  <2> QED  BY <2>1, <2>2, <2>3
<1> QED  BY <1>1, <1>2

\* The launch file starts an empty process.
LEMMA RespawnKeeps == ASSUME IInv, Respawn  PROVE IInv'
<1> USE Constants DEF IInv, Respawn
<1>1. Scalars'
  <2>1. /\ camera' \in BOOLEAN /\ linked' \in BOOLEAN /\ (linked' => camera')
        /\ has_received_first_frame' \in BOOLEAN /\ exit_flag' \in BOOLEAN
        /\ stamped' \in BOOLEAN /\ signalled' \in BOOLEAN
    BY Zenon DEF Scalars
  <2>2. /\ open_retries' = 0 /\ joined' = 0 /\ exit_code' = 0 /\ used' = 0
        /\ consecutive_timeouts' = 0 /\ age' = LongAgo /\ grab' = "none"
    OBVIOUS
  <2> QED  BY <2>1, <2>2 DEF Scalars
<1>2. Phases' /\ Joining' /\ Stamps'
  BY DEF Phases, Joining, Stamps
<1>3. Frames'
  <2>1. <<>> = [i \in 1 .. 0 |-> 0 - 0 + i]
    OBVIOUS
  <2>2. QueueOf(<<>>, 0, 0)
    BY <2>1 DEF QueueOf
  <2>3. QueueOf(g_image_queue', pushed', taken')
    BY <2>2
  <2> QED  BY <2>3 DEF Frames
<1> QED  BY <1>1, <1>2, <1>3

LEMMA GrabNext == IInv /\ [Next]_vars => IInv'
<1> SUFFICES ASSUME IInv, [Next]_vars  PROVE IInv'
  OBVIOUS
<1>1. CASE \/ Enumerate \/ StartFails \/ OpenOk \/ OpenFails
           \/ SettingsOk \/ SettingsFail \/ ConfigureOk \/ ConfigureFails
           \/ CreatePublisher \/ PublisherFails
  BY <1>1, StartKeeps
<1>2. CASE WatchdogArms \/ WatchdogFires \/ WatchdogRests
  BY <1>2, LoopKeeps
<1>3. CASE Shutdown
  BY <1>3, LoopKeeps, ReleaseKeeps DEF Shutdown
<1>4. CASE GrabStep \/ GetOk
  BY <1>4, GrabKeeps, QueueKeeps DEF GrabStep
<1>5. CASE PubStep
  BY <1>5, WorldKeeps, QueueKeeps DEF PubStep
<1>6. CASE SignalHandler \/ Unplug \/ Replug \/ Tick
  BY <1>6, WorldKeeps
<1>7. CASE Respawn
  BY <1>7, RespawnKeeps
<1>8. CASE UNCHANGED vars
  <2> USE <1>8 DEF vars, mainVars, grabVars, atomics, queueVars, pubVars
  <2>1. Scalars'
    BY DEF IInv, Scalars
  <2>2. Phases' /\ Joining' /\ Stamps'
    BY DEF IInv, Phases, Joining, Remaining, Stamps
  <2>3. Frames'
    BY FramesUnmoved DEF IInv, Frames
  <2> QED  BY <2>1, <2>2, <2>3 DEF IInv
<1> QED  BY <1>1, <1>2, <1>3, <1>4, <1>5, <1>6, <1>7, <1>8 DEF Next

LEMMA GrabInvariant == Spec => []IInv
BY GrabInit, GrabNext, PTL DEF Spec

-----------------------------------------------------------------------------
(* The properties. *)

\* Every variable has its type; in particular the queue never holds more than
\* MAX_QUEUE_SIZE frames and no count passes its limit.
THEOREM GrabTypeCorrect == Spec => []TypeOK
<1>1. IInv => TypeOK
  <2> SUFFICES ASSUME IInv  PROVE TypeOK
    OBVIOUS
  <2>1. PICK n \in 0 .. MAX_QUEUE_SIZE :
          /\ g_image_queue = [i \in 1 .. n |-> pushed - n + i]
          /\ taken + n <= pushed /\ (n < MAX_QUEUE_SIZE => taken + n = pushed)
    BY DEF IInv, Frames, QueueOf
  <2>2. n \in Nat /\ n <= MAX_QUEUE_SIZE /\ n <= pushed /\ taken \in 0 .. pushed
        /\ pushed \in 0 .. MaxFrames
    BY <2>1, Constants DEF IInv, Frames
  <2>3. g_image_queue \in Seq(1 .. pushed) /\ Len(g_image_queue) <= MAX_QUEUE_SIZE
    BY <2>1, <2>2, RunIsSeq
  <2>4. used \in 0 .. (IF GetTicks > WorkTicks THEN GetTicks ELSE WorkTicks)
    BY Constants DEF IInv, Scalars
  <2> QED  BY <2>2, <2>3, <2>4 DEF IInv, Scalars, Phases, TypeOK
<1> QED  BY <1>1, GrabInvariant, PTL

\* main never stops, closes or destroys the handle under GrabThread, whatever the
\* limits, as long as one call and the work after it take less than the timed join.
THEOREM HandleSafetyHolds == Spec => []HandleSafety
<1>1. IInv => HandleSafety
  BY DEF IInv, Phases, HandleSafety
<1> QED  BY <1>1, GrabInvariant, PTL

\* For every size of the queue: what waits is the newest frames without a gap, and
\* PublishThread misses none unless the queue is full.
THEOREM NewestInOrderHolds == Spec => []NewestInOrder
<1>1. IInv => NewestInOrder
  <2> SUFFICES ASSUME IInv  PROVE NewestInOrder
    OBVIOUS
  <2>1. PICK n \in 0 .. MAX_QUEUE_SIZE :
          /\ g_image_queue = [i \in 1 .. n |-> pushed - n + i]
          /\ taken + n <= pushed /\ (n < MAX_QUEUE_SIZE => taken + n = pushed)
    BY DEF IInv, Frames, QueueOf
  <2>2. n \in Nat /\ n <= pushed /\ pushed \in Nat /\ taken \in Nat
    BY <2>1, Constants DEF IInv, Frames
  <2>3. Len(g_image_queue) = n
    BY <2>1, <2>2, RunIsSeq
  <2> QED  BY <2>1, <2>2, <2>3 DEF NewestInOrder
<1> QED  BY <1>1, GrabInvariant, PTL

\* The watchdog never measures the age of a frame that was never stamped.
THEOREM WatchdogSeesStampHolds == Spec => []WatchdogSeesStamp
<1>1. IInv => WatchdogSeesStamp
  BY DEF IInv, Stamps, WatchdogSeesStamp
<1> QED  BY <1>1, GrabInvariant, PTL
=============================================================================
