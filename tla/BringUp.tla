------------------------------- MODULE BringUp -------------------------------
(***************************************************************************)
(* The life of the node: main, Tron2HW::init with its ways to fail, the    *)
(* threads that come to life on the way, and the destructors at the end.   *)
(*                                                                         *)
(* The SDK calls back from the moment of a subscription and for ever: it   *)
(* has no way to unsubscribe.  Whatever a thread uses must be there when   *)
(* it uses it; "missed" records what was not.                              *)
(***************************************************************************)
EXTENDS Naturals, FiniteSets

CONSTANT MaxTicks   \* maxTicks: how often the handshake sleeps, at most

ASSUME MaxTicksAssumption == MaxTicks \in Nat

Topics == {"state", "imu", "joy", "diagnostic"}

\* What init() and main prepare, in this order.
Parts == {"buffers", "handles", "publishers", "clients"}

VARIABLES
  simMode,     \* robot_ip is 127.0.0.1
  shutdown,    \* ros::ok() is false
  pc,          \* where main is
  ready,       \* the parts that are prepared
  subscribed,  \* the SDK's topics with a callback
  firstState,  \* firstStateReceived_
  waited,      \* sleeps of the handshake
  owners,      \* who holds a reference to the Tron2HW object
  loopThread,  \* the control loop's thread
  starter,     \* the detached start thread
  exitCode,    \* what main has returned
  missed       \* what a thread has used while it was not there

threads == <<loopThread, starter>>
vars == <<simMode, shutdown, pc, ready, subscribed, firstState, waited, owners,
          threads, exitCode, missed>>

Pcs == {"ip", "clock", "sdk", "joints", "data", "interfaces", "sensors",
        "publishers", "joystick", "services", "handshake", "loop", "starter",
        "spin", "joinLoop", "release", "exited"}

TypeOK ==
  /\ simMode \in BOOLEAN
  /\ shutdown \in BOOLEAN
  /\ pc \in Pcs
  /\ ready \subseteq Parts
  /\ subscribed \subseteq Topics
  /\ firstState \in BOOLEAN
  /\ waited \in 0 .. MaxTicks
  /\ owners \subseteq {"main", "loop", "starter"}
  /\ loopThread \in {"none", "running", "ended"}
  /\ starter \in {"none", "asleep", "ended"}
  /\ exitCode \in {0, 1, 2}
  /\ missed \subseteq (Parts \cup {"callback: object", "thread: object"})

Running == 2   \* main has not returned

Init ==
  /\ simMode \in BOOLEAN
  /\ shutdown = FALSE
  /\ pc = "ip"
  /\ ready = {}
  /\ subscribed = {}
  /\ firstState = FALSE
  /\ waited = 0
  /\ owners = {}
  /\ loopThread = "none"
  /\ starter = "none"
  /\ exitCode = Running
  /\ missed = {}

----------------------------------------------------------------------------
(* main and Tron2HW::init.                                                 *)

\* main gives up: it returns 1, which destroys what it owns.
GiveUp ==
  /\ exitCode' = 1
  /\ pc' = "release"
  /\ UNCHANGED <<simMode, shutdown, ready, subscribed, firstState, waited,
                 owners, threads, missed>>

GoTo(next) ==
  /\ pc' = next
  /\ UNCHANGED <<simMode, shutdown, ready, subscribed, firstState, waited,
                 owners, threads, exitCode, missed>>

Prepare(part, next) ==
  /\ ready' = ready \cup {part}
  /\ pc' = next
  /\ UNCHANGED <<simMode, shutdown, subscribed, firstState, waited, owners,
                 threads, exitCode, missed>>

Subscribe(topics, next) ==
  /\ subscribed' = subscribed \cup topics
  /\ pc' = next
  /\ UNCHANGED <<simMode, shutdown, ready, firstState, waited, owners, threads,
                 exitCode, missed>>

\* Without robot_ip the node does not start; the simulator's clock is awaited
\* for 30 s, and then not any more.
CheckIp == pc = "ip" /\ (GiveUp \/ GoTo("clock"))

CreateHw ==
  /\ pc = "clock"
  /\ owners' = {"main"}
  /\ pc' = "sdk"
  /\ UNCHANGED <<simMode, shutdown, ready, subscribed, firstState, waited,
                 threads, exitCode, missed>>

\* init(): the SDK may have no instance, or not connect...
InitSdk == pc = "sdk" /\ (GiveUp \/ GoTo("joints"))

\* ... and the joint names may be missing.  (A robot_description may be, too.)
LoadJointNames == pc = "joints" /\ (GiveUp \/ GoTo("data"))

\* jointData_ gets its final size, the buffers their first element.
ResizeData == pc = "data" /\ Prepare("buffers", "interfaces")

\* The handles point into jointData_.
SetupInterfaces == pc = "interfaces" /\ Prepare("handles", "sensors")

SubscribeSensors == pc = "sensors" /\ Subscribe({"state", "imu"}, "publishers")

\* MUTANT of Advertise: the joystick comes first, the publishers are left out.
AdvertiseLate == pc = "publishers" /\ GoTo("joystick")

Advertise == pc = "publishers" /\ Prepare("publishers", "joystick")

SubscribeJoystick ==
  pc = "joystick" /\ Subscribe({"joy", "diagnostic"}, "services")

SetupServices == pc = "services" /\ Prepare("clients", "handshake")

\* MUTANT of HandshakeTick: the sleeps are not counted against the limit.
HandshakeTickOver ==
  /\ pc = "handshake"
  /\ simMode /\ ~shutdown /\ ~firstState
  /\ waited' = waited + 1
  /\ waited <= MaxTicks
  /\ UNCHANGED <<simMode, shutdown, pc, ready, subscribed, firstState, owners,
                 threads, exitCode, missed>>

HandshakeTick ==
  /\ pc = "handshake"
  /\ simMode /\ ~shutdown /\ ~firstState
  /\ waited < MaxTicks
  /\ waited' = waited + 1
  /\ UNCHANGED <<simMode, shutdown, pc, ready, subscribed, firstState, owners,
                 threads, exitCode, missed>>

\* MUTANT of HandshakeEnd: a shutdown does not end the handshake, which has no
\* other limit.
HandshakeEndPatient ==
  /\ pc = "handshake"
  /\ simMode => firstState
  /\ GoTo("loop")

\* Confirmed, timed out, shut down or on the robot: the loop is built anyway.
HandshakeEnd ==
  /\ pc = "handshake"
  /\ simMode => shutdown \/ firstState \/ waited = MaxTicks
  /\ GoTo("loop")

\* RobotHWLoop holds a reference; its thread starts.
StartControlLoop ==
  /\ pc = "loop"
  /\ owners' = owners \cup {"loop"}
  /\ loopThread' = "running"
  /\ pc' = "starter"
  /\ UNCHANGED <<simMode, shutdown, ready, subscribed, firstState, waited,
                 starter, exitCode, missed>>

\* MUTANT of DetachStarter: the thread captures the object without owning it.
DetachStarterRaw ==
  /\ pc = "starter"
  /\ starter' = "asleep"
  /\ pc' = "spin"
  /\ UNCHANGED <<simMode, shutdown, ready, subscribed, firstState, waited,
                 owners, loopThread, exitCode, missed>>

\* The detached thread holds a reference of its own.
DetachStarter ==
  /\ pc = "starter"
  /\ owners' = owners \cup {"starter"}
  /\ starter' = "asleep"
  /\ pc' = "spin"
  /\ UNCHANGED <<simMode, shutdown, ready, subscribed, firstState, waited,
                 loopThread, exitCode, missed>>

\* spin() returns; main returns 0.
SpinReturns ==
  /\ pc = "spin"
  /\ shutdown
  /\ exitCode' = 0
  /\ pc' = "joinLoop"
  /\ UNCHANGED <<simMode, shutdown, ready, subscribed, firstState, waited,
                 owners, threads, missed>>

\* The destructor waits for the loop thread, then drops its reference...
DestroyLoop ==
  /\ pc = "joinLoop"
  /\ loopThread' = "ended"
  /\ owners' = owners \ {"loop"}
  /\ pc' = "release"
  /\ UNCHANGED <<simMode, shutdown, ready, subscribed, firstState, waited,
                 starter, exitCode, missed>>

\* ... and main its own...
ReleaseHw ==
  /\ pc = "release"
  /\ owners' = owners \ {"main"}
  /\ pc' = "exited"
  /\ UNCHANGED <<simMode, shutdown, ready, subscribed, firstState, waited,
                 threads, exitCode, missed>>

----------------------------------------------------------------------------
(* The other threads, which run until the process has ended: between main's *)
(* last step and that end there is no order.                                *)

Miss(needed, object) ==
  missed' = missed \cup (needed \ ready)
                   \cup (IF owners = {} THEN {object} ELSE {})

\* What a callback uses.
Needs(topic) == IF topic \in {"state", "imu"} THEN {"buffers"}
                ELSE IF topic = "joy" THEN {"publishers"} ELSE {}

SdkCallback(topic) ==
  /\ topic \in subscribed
  /\ Miss(Needs(topic), "callback: object")
  /\ firstState' = (firstState \/ topic = "state")
  /\ UNCHANGED <<simMode, shutdown, pc, ready, subscribed, waited, owners,
                 threads, exitCode>>

\* L1+Y or L1+X: the callback calls the controller manager.
ShortcutCallback ==
  /\ "joy" \in subscribed
  /\ Miss({"publishers", "clients"}, "callback: object")
  /\ UNCHANGED <<simMode, shutdown, pc, ready, subscribed, firstState, waited,
                 owners, threads, exitCode>>

LoopCycle ==
  /\ loopThread = "running"
  /\ Miss({"buffers", "handles"}, "thread: object")
  /\ UNCHANGED <<simMode, shutdown, pc, ready, subscribed, firstState, waited,
                 owners, threads, exitCode>>

\* The start thread wakes and calls startController.
StarterWakes ==
  /\ starter = "asleep"
  /\ Miss({"clients"}, "thread: object")
  /\ starter' = "ended"
  /\ owners' = owners \ {"starter"}
  /\ UNCHANGED <<simMode, shutdown, pc, ready, subscribed, firstState, waited,
                 loopThread, exitCode>>

Shutdown ==
  /\ ~shutdown
  /\ shutdown' = TRUE
  /\ UNCHANGED <<simMode, pc, ready, subscribed, firstState, waited, owners,
                 threads, exitCode, missed>>

Main ==
  \/ CheckIp \/ CreateHw \/ InitSdk \/ LoadJointNames \/ ResizeData
  \/ SetupInterfaces \/ SubscribeSensors \/ Advertise \/ SubscribeJoystick
  \/ SetupServices \/ HandshakeTick \/ HandshakeEnd \/ StartControlLoop
  \/ DetachStarter \/ SpinReturns \/ DestroyLoop \/ ReleaseHw

Next ==
  \/ Main
  \/ \E topic \in Topics : SdkCallback(topic)
  \/ ShortcutCallback
  \/ LoopCycle
  \/ StarterWakes
  \/ Shutdown

Spec == Init /\ [][Next]_vars

\* main goes on: the SDK's init and the waits it makes are bounded.
FairSpec == Spec /\ WF_vars(Main)

----------------------------------------------------------------------------
(* Safety.                                                                 *)

\* Whatever a callback or a thread uses has been prepared when it first runs,
\* except the service clients: a shortcut pressed between the subscription of
\* the joystick and setupServices() finds them empty, and the press is lost.
PartsArePrepared == missed \cap Parts \subseteq {"clients"}

\* No thread of the node outlives the object it works on, however a shutdown,
\* the late start thread and the destructors interleave; and when init() fails,
\* the object main destroys has no callback yet: every way to fail comes before
\* the first subscription.  (On a regular end the SDK does call back into the
\* destroyed object.)
ObjectOutlivesUse ==
  /\ "thread: object" \notin missed
  /\ exitCode = 1 => "callback: object" \notin missed

----------------------------------------------------------------------------
(* Liveness, under FairSpec.                                               *)

\* A bring-up comes to spin or gives up, and a shutdown ends the node wherever
\* it finds it: in the handshake, too, which sleeps in a loop of its own.
BringUpEnds ==
  /\ <>(pc \in {"spin", "exited"})
  /\ shutdown ~> pc = "exited"
============================================================================
