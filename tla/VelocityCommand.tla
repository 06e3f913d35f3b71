--------------------------- MODULE VelocityCommand ---------------------------
(***************************************************************************)
(* The way of a velocity command from the sticks to the policy.            *)
(*                                                                         *)
(* The SDK's thread samples the sticks and publishes /cmd_vel at most      *)
(* thirty times a second; other nodes publish it whenever they like.  The  *)
(* subscription keeps one message, which ControllerBase::cmdVelCallback    *)
(* stores, component by component and in the main thread, into             *)
(* tron2Command_.  A policy tick of the loop thread reads tron2Command_    *)
(* twice: computeObservation its norm, computeActions its components.  A   *)
(* tick that is slow may read each component from another message.         *)
(***************************************************************************)
EXTENDS Integers, Sequences

CONSTANTS
  Positions,    \* the positions of the sticks
  Foreign,      \* the twists other nodes publish
  MaxVel,       \* cfg_.maxCmdVx, maxCmdVy, maxCmdYaw, the sticks' scale too
  GaitEnabled,  \* cfg_.gaitEnabled
  Period,       \* 1/30 s, in steps of the clock
  Jump,         \* how far back /clock may jump
  MaxResets,    \* bound on such jumps
  MaxForeign    \* bound on messages of other nodes

Axes == 1 .. 3
Rest == [a \in Axes |-> 0]

ASSUME PositionsAssumption == Positions \subseteq [Axes -> Int] /\ Rest \in Positions
ASSUME ForeignAssumption == Foreign \subseteq [Axes -> Int]
ASSUME MaxVelAssumption  == MaxVel \in [Axes -> Nat]
ASSUME GaitAssumption    == GaitEnabled \in BOOLEAN
ASSUME PeriodAssumption  == Period \in Nat \ {0} /\ Jump \in Nat
ASSUME BoundsAssumption  == MaxResets \in Nat /\ MaxForeign \in Nat

VARIABLES
  sticks,      \* where the operator holds the sticks
  inHand,      \* the sample the SDK's callback works on, if any
  sinceLast,   \* ros::Time::now() - lastPub, at most Period
  resets,      \* jumps of the clock so far
  foreign,     \* messages of other nodes so far
  queue,       \* the subscription's queue
  handling,    \* the message cmdVelCallback works on, if any
  stored,      \* components it has stored
  command,     \* tron2Command_
  pass,        \* what the tick reads the command for: the gait, or the policy
  reads,       \* the components it has read for it
  gaitPhase,   \* does the gait clock stand at 0 (footGaitPhaseIndex_)?
  policyIn,    \* the command in the last policy input
  survivors    \* messages from before the last start that were handled since

joystick == <<sticks, inHand, sinceLast, resets>>
spinner  == <<handling, stored>>
tick     == <<pass, reads, gaitPhase, policyIn>>
vars     == <<joystick, foreign, queue, spinner, command, tick, survivors>>

Messages == [twist : [Axes -> Int], before : BOOLEAN]

\* computeObservation reads the norm if the gait is on, computeActions the input.
FirstPass == IF GaitEnabled THEN "gait" ELSE "policy"
BetweenTicks == pass = FirstPass /\ reads = <<>>

TypeOK ==
  /\ sticks \in Positions
  /\ inHand \in Seq(Positions) /\ Len(inHand) <= 1
  /\ sinceLast \in -Jump .. Period
  /\ resets \in 0 .. MaxResets
  /\ foreign \in 0 .. MaxForeign
  /\ queue \in Seq(Messages) /\ Len(queue) <= 1
  /\ handling \in Seq(Messages) /\ Len(handling) <= 1
  /\ stored \in 0 .. 2
  /\ command \in [Axes -> Int]
  /\ pass \in {"gait", "policy"}
  /\ reads \in Seq(Int) /\ Len(reads) <= 3
  /\ gaitPhase \in {"zero", "running"}
  /\ policyIn \in [Axes -> Int]
  /\ survivors \in Nat

\* lastPub is the epoch: long ago by the wall clock, now by a simulated one.
Init ==
  /\ sticks = Rest
  /\ inHand = <<>>
  /\ sinceLast \in {0, Period}
  /\ resets = 0
  /\ foreign = 0
  /\ queue = <<>>
  /\ handling = <<>>
  /\ stored = 0
  /\ command = Rest
  /\ pass = FirstPass
  /\ reads = <<>>
  /\ gaitPhase = "zero"
  /\ policyIn = Rest
  /\ survivors = 0

----------------------------------------------------------------------------
(* The operator, the clock, and the SDK's thread.                          *)

MoveSticks(p) ==
  /\ sticks # p
  /\ sticks' = p
  /\ UNCHANGED <<inHand, sinceLast, resets, foreign, queue, spinner, command,
                 tick, survivors>>

ClockTick ==
  /\ sinceLast < Period
  /\ sinceLast' = sinceLast + 1
  /\ UNCHANGED <<sticks, inHand, resets, foreign, queue, spinner, command,
                 tick, survivors>>

\* The simulator is reset: lastPub lies in the future.
ClockReset ==
  /\ resets < MaxResets
  /\ resets' = resets + 1
  /\ sinceLast' = -Jump
  /\ UNCHANGED <<sticks, inHand, foreign, queue, spinner, command, tick,
                 survivors>>

\* A SensorJoy message.  Before its sticks come its buttons, whose services may
\* keep the callback for long (HwNode).
SensorJoy ==
  /\ inHand = <<>>
  /\ inHand' = <<sticks>>
  /\ UNCHANGED <<sticks, sinceLast, resets, foreign, queue, spinner, command,
                 tick, survivors>>

\* MUTANT of Deliver: the subscription keeps ten messages, as the publisher does.
DeliverAll(twist) ==
  queue' = Append(queue, [twist |-> twist, before |-> FALSE])

\* Subscribed with a queue of one: a newer message replaces the one waiting.
Deliver(twist) == queue' = <<[twist |-> twist, before |-> FALSE]>>

\* MUTANT of StickBranch: the sticks are published only while deflected.
StickBranchDeflected ==
  /\ inHand # <<>>
  /\ IF sinceLast >= Period /\ Head(inHand) # Rest
     THEN /\ Deliver([a \in Axes |-> Head(inHand)[a] * MaxVel[a]])
          /\ sinceLast' = 0
     ELSE UNCHANGED <<queue, sinceLast>>
  /\ inHand' = <<>>
  /\ UNCHANGED <<sticks, resets, foreign, spinner, command, tick, survivors>>

\* The sample is published, or dropped if it comes too soon.
StickBranch ==
  /\ inHand # <<>>
  /\ IF sinceLast >= Period
     THEN /\ Deliver([a \in Axes |-> Head(inHand)[a] * MaxVel[a]])
          /\ sinceLast' = 0
     ELSE UNCHANGED <<queue, sinceLast>>
  /\ inHand' = <<>>
  /\ UNCHANGED <<sticks, resets, foreign, spinner, command, tick, survivors>>

\* Teleop, rostopic, a planner.
ForeignMessage(twist) ==
  /\ foreign < MaxForeign
  /\ foreign' = foreign + 1
  /\ Deliver(twist)
  /\ UNCHANGED <<joystick, spinner, command, tick, survivors>>

----------------------------------------------------------------------------
(* The main thread: cmdVelCallback.                                        *)

CmdVelCallback ==
  /\ handling = <<>>
  /\ queue # <<>>
  /\ handling' = <<Head(queue)>>
  /\ queue' = Tail(queue)
  /\ survivors' = IF Head(queue).before THEN survivors + 1 ELSE survivors
  /\ UNCHANGED <<joystick, foreign, stored, command, pass, reads, gaitPhase,
                 policyIn>>

Clamped(x, a) == IF x > MaxVel[a] THEN MaxVel[a]
                 ELSE IF x < -MaxVel[a] THEN -MaxVel[a] ELSE x

StoreComponent ==
  LET a == stored + 1
  IN /\ handling # <<>>
     /\ command' = [command EXCEPT ![a] = Clamped(Head(handling).twist[a], a)]
     /\ stored' = a % 3
     /\ handling' = IF a = 3 THEN <<>> ELSE handling
     /\ UNCHANGED <<joystick, foreign, queue, tick, survivors>>

----------------------------------------------------------------------------
(* The loop thread.                                                        *)

\* starting() runs while main waits in the service that asked for it.
Starting ==
  /\ handling = <<>>
  /\ BetweenTicks
  /\ command' = Rest
  /\ gaitPhase' = "zero"
  /\ queue' = [i \in 1 .. Len(queue) |-> [queue[i] EXCEPT !.before = TRUE]]
  /\ survivors' = 0
  /\ UNCHANGED <<joystick, foreign, spinner, pass, reads, policyIn>>

\* A command below 0.02 stops the gait clock; any other lets it run.
GaitStep(norm) == IF norm = Rest THEN "zero" ELSE "running"

NextAxis == Len(reads) + 1

ReadComponent ==
  /\ NextAxis \in Axes
  /\ reads' = Append(reads, command[NextAxis])
  /\ UNCHANGED <<joystick, foreign, queue, spinner, command, pass,
                 gaitPhase, policyIn, survivors>>

\* computeObservation: the gait clock moves by the norm of what was read.
Gait ==
  /\ pass = "gait"
  /\ Len(reads) = 3
  /\ gaitPhase' = GaitStep(reads)
  /\ pass' = "policy"
  /\ reads' = <<>>
  /\ UNCHANGED <<joystick, foreign, queue, spinner, command,
                 policyIn, survivors>>

\* The policy runs on what was read last.
Infer ==
  /\ pass = "policy"
  /\ Len(reads) = 3
  /\ policyIn' = reads
  /\ pass' = FirstPass
  /\ reads' = <<>>
  /\ UNCHANGED <<joystick, foreign, queue, spinner, command, gaitPhase,
                 survivors>>

Main == CmdVelCallback \/ StoreComponent
Walk == ReadComponent \/ Gait \/ Infer

Next ==
  \/ \E p \in Positions : MoveSticks(p)
  \/ ClockTick
  \/ ClockReset
  \/ SensorJoy
  \/ StickBranch
  \/ \E twist \in Foreign : ForeignMessage(twist)
  \/ Main
  \/ Starting
  \/ Walk

Spec == Init /\ [][Next]_vars

\* Time passes, callbacks that have begun end, main spins, and the controller
\* walks.  Nothing makes the SDK send.
FairSpec == /\ Spec
            /\ WF_vars(ClockTick)
            /\ WF_vars(StickBranch)
            /\ WF_vars(Main)
            /\ WF_vars(Walk)

----------------------------------------------------------------------------
(* Safety.                                                                 *)

\* starting() clears the command, but not the subscription's queue: of the
\* messages published before a start at most one moves the robot after it.
OneSurvivesStart == survivors <= 1

----------------------------------------------------------------------------
(* Liveness, under FairSpec.                                               *)

\* What the throttle drops must not matter in the end: when the sticks stay at
\* rest and the SDK keeps sending them, the policy comes to see, and keeps
\* seeing, a command of zero, and the gait stands still - although the message
\* that brought the sticks to rest may be dropped, a message taken before it
\* may be published after it, and the clock may have jumped back.
SticksStream == []<>(inHand # <<>>)
SticksAtRest == <>[](sticks = Rest)

RestReachesPolicy ==
  SticksStream /\ SticksAtRest
    => <>[](policyIn = Rest /\ (GaitEnabled => gaitPhase = "zero"))
============================================================================
