-------------------------- MODULE Tron2Controller --------------------------
(***************************************************************************)
(* The locomotion controller (tron2_controllers, ControllerBase) while two *)
(* threads of tron2_hw_node share its fields without a lock:               *)
(*                                                                         *)
(*   - the loop thread (RobotHWLoop) repeats read, controller manager      *)
(*     update, write; the update runs ControllerBase::update, and, when a  *)
(*     switch is requested, ControllerBase::starting;                      *)
(*   - the spinner thread (main, in ros::spin) runs one callback at a      *)
(*     time: modeCallback, cmdVelCallback and the controller manager's     *)
(*     services.                                                           *)
(*                                                                         *)
(* A step is one access to a shared field.  A vector is represented by one *)
(* element (an access to a vector is a sequence of accesses to elements    *)
(* that do not depend on each other); the observation history keeps its    *)
(* rows.  An action or an observation is abstracted to its age:            *)
(* "zero" (cleared), "new" (computed in the walk in progress, or by the    *)
(* cycle that was under way when that walk was requested), "old".          *)
(***************************************************************************)
EXTENDS Integers

CONSTANTS
  Decimation,   \* cfg_.decimation: control cycles per policy tick
  HistLen,      \* cfg_.obsHistoryLength: rows of proprioHistoryBuffer_
  StandSteps,   \* cycles the stand ramp takes to reach 1.0
  MaxVx,        \* cfg_.maxCmdVx
  Sticks        \* values a /cmd_vel message may carry

ASSUME DecimationAssumption == Decimation \in Nat \ {0}
ASSUME HistLenAssumption    == HistLen \in Nat \ {0}
ASSUME StandStepsAssumption == StandSteps \in Nat \ {0}
ASSUME SticksAssumption     == MaxVx \in Nat /\ Sticks \subseteq Int

VARIABLES
  ctl,          \* the controller as the controller manager sees it
  doSwitch,     \* the switch the loop thread is asked to perform
  spinPc,       \* where the spinner thread is
  spinRow,      \* the history row modeCallback clears next
  loopPc,       \* where the loop thread is
  loopRow,      \* the history row updateObsHistory writes next
  seenMode,     \* mode_ as update() read it first
  seenCount,    \* loopCount_ as loopCount_++ read it
  seenRow,      \* a history row on its way to the row before it
  mode, loopCount, isFirstObs, standPercent,   \* ControllerBase's fields
  actions, lastActions, history, command,
  cmd,          \* what the joint handles hold: the command write() sends
  walkAsked,    \* a WALK message was accepted since the last start
  walkCycles,   \* cycles counted since modeCallback returned from WALK
  idleWritten,  \* a command was written since mode_ became IDLE
  walkTick      \* has a policy tick begun since modeCallback returned from WALK

managerVars == <<ctl, doSwitch>>
spinVars    == <<spinPc, spinRow>>
regVars     == <<loopRow, seenMode, seenCount, seenRow>>
policyVars  == <<isFirstObs, actions, lastActions, history>>
fields      == <<mode, loopCount, standPercent, policyVars, command, cmd>>
ghostVars   == <<walkAsked, walkCycles, idleWritten, walkTick>>
vars == <<managerVars, spinVars, loopPc, regVars, fields, ghostVars>>

Modes  == {"IDLE", "STAND", "WALK"}
Ages   == {"zero", "old", "new"}
Rows   == 1 .. HistLen
Cmds   == {"none", "damp", "ramp", "hold", "policy"}
Speeds == -MaxVx .. MaxVx

TickPcs     == {"observe", "fill", "shiftLoad", "shiftStore", "encode",
                "infer", "record"}
CountPcs    == {"countLoad", "countStore", "test"}
StartingPcs == {"starting1", "starting2", "starting3", "started"}
LoopPcs     == {"update", "checkIdle", "checkStand", "apply", "switch",
                "write"} \cup CountPcs \cup TickPcs \cup StartingPcs
SpinPcs     == {"spin", "waitSwitch", "resetCount", "resetFirst",
                "resetLast", "zeroRows"}

TypeOK ==
  /\ ctl \in {"unloaded", "initialized", "running", "stopped"}
  /\ doSwitch \in {"none", "start", "stop"}
  /\ spinPc \in SpinPcs
  /\ spinRow \in Rows
  /\ loopPc \in LoopPcs
  /\ loopRow \in Rows
  /\ seenMode \in Modes
  /\ seenCount \in 0 .. Decimation - 1
  /\ seenRow \in Ages
  /\ mode \in Modes
  /\ loopCount \in 0 .. Decimation - 1
  /\ isFirstObs \in BOOLEAN
  /\ standPercent \in 0 .. StandSteps
  /\ actions \in Ages
  /\ lastActions \in Ages
  /\ history \in [Rows -> Ages]
  /\ command \in Speeds
  /\ cmd \in Cmds
  /\ walkAsked \in BOOLEAN
  /\ walkCycles \in 0 .. Decimation
  /\ idleWritten \in BOOLEAN
  /\ walkTick \in {"none", "overFill", "clean"}

----------------------------------------------------------------------------
Age(a) == IF a = "new" THEN "old" ELSE a

Clamp(v, lo, hi) == IF v < lo THEN lo ELSE IF hi < v THEN hi ELSE v

\* MUTANTS of NextCount: the counter is never wrapped; it wraps one too late.
NextCountNoWrap(n) == n + 1
NextCountLate(n) == IF n = Decimation THEN 0 ELSE n + 1

\* loopCount_ is kept modulo Decimation, the only way update() reads it.
NextCount(n) == IF n + 1 = Decimation THEN 0 ELSE n + 1

\* The ghosts start anew with every accepted WALK message and every start.
ForgetWalk ==
  /\ walkCycles' = 0
  /\ idleWritten' = FALSE

ZeroHistory == [r \in Rows |-> "zero"]

Init ==
  /\ ctl = "unloaded"
  /\ doSwitch = "none"
  /\ spinPc = "spin"
  /\ spinRow = 1
  /\ loopPc = "update"
  /\ loopRow = 1
  /\ seenMode = "IDLE"
  /\ seenCount = 0
  /\ seenRow = "zero"
  /\ mode = "IDLE"
  /\ loopCount = 0
  /\ isFirstObs = TRUE
  /\ standPercent = 0
  /\ actions = "zero"
  /\ lastActions = "zero"
  /\ history = ZeroHistory
  /\ command = 0
  /\ cmd = "none"
  /\ walkAsked = FALSE
  /\ walkCycles = 0
  /\ idleWritten = FALSE
  /\ walkTick = "none"

----------------------------------------------------------------------------
(* The spinner thread: ros::spin() runs one callback to its end.           *)

SpinFree == spinPc = "spin"

\* load_controller: init() zeroes the vectors, which are zero already.
Load ==
  /\ SpinFree
  /\ ctl = "unloaded"
  /\ ctl' = "initialized"
  /\ UNCHANGED <<doSwitch, spinVars, loopPc, regVars, fields, ghostVars>>

\* switch_controller: the handler leaves a request to the loop thread...
SwitchRequest(what) ==
  /\ SpinFree
  /\ doSwitch' = what
  /\ spinPc' = "waitSwitch"
  /\ UNCHANGED <<ctl, spinRow, loopPc, regVars, fields, ghostVars>>

\* ... and polls until it has been performed.
SwitchReturn ==
  /\ spinPc = "waitSwitch"
  /\ doSwitch = "none"
  /\ spinPc' = "spin"
  /\ UNCHANGED <<managerVars, spinRow, loopPc, regVars, fields, ghostVars>>

Subscribed == ctl # "unloaded"

CmdVelCallback(v) ==
  /\ SpinFree
  /\ Subscribed
  /\ command' = Clamp(v, -MaxVx, MaxVx)
  /\ UNCHANGED <<managerVars, spinVars, loopPc, regVars, mode, loopCount,
                 policyVars, standPercent, cmd, ghostVars>>

\* modeCallback("WALK") assigns mode_ first.  What the policy computed so far
\* becomes old; an observation held by the cycle under way does not.
AcceptWalk ==
  /\ SpinFree
  /\ Subscribed
  /\ mode' = "WALK"
  /\ spinPc' = "resetCount"
  /\ actions' = Age(actions)
  /\ lastActions' = Age(lastActions)
  /\ history' = [r \in Rows |-> Age(history[r])]
  /\ seenRow' = Age(seenRow)
  /\ walkAsked' = TRUE
  /\ walkTick' = IF loopPc = "fill" THEN "overFill" ELSE "none"
  /\ ForgetWalk
  /\ UNCHANGED <<managerVars, spinRow, loopPc, loopRow, seenMode, seenCount,
                 loopCount, isFirstObs, standPercent, command, cmd>>

\* MUTANT of ModeCallbackWalk: the test mode_ != WALK is dropped.
ModeCallbackWalkAgain == AcceptWalk

ModeCallbackWalk == mode # "WALK" /\ AcceptWalk

\* The rest of modeCallback("WALK"), one assignment at a time.
WalkResetCount ==
  /\ spinPc = "resetCount"
  /\ loopCount' = 0
  /\ spinPc' = "resetFirst"
  /\ UNCHANGED <<managerVars, spinRow, loopPc, regVars, mode, policyVars,
                 standPercent, command, cmd, ghostVars>>

\* MUTANT of WalkResetFirst: isFirstObs_ is not set again.
WalkKeepFirst ==
  /\ spinPc = "resetFirst"
  /\ spinPc' = "resetLast"
  /\ UNCHANGED <<managerVars, spinRow, loopPc, regVars, fields, ghostVars>>

WalkResetFirst ==
  /\ spinPc = "resetFirst"
  /\ isFirstObs' = TRUE
  /\ spinPc' = "resetLast"
  /\ UNCHANGED <<managerVars, spinRow, loopPc, regVars, mode, loopCount,
                 standPercent, actions, lastActions, history, command, cmd,
                 ghostVars>>

WalkResetLast ==
  /\ spinPc = "resetLast"
  /\ lastActions' = "zero"
  /\ spinPc' = "zeroRows"
  /\ UNCHANGED <<managerVars, spinRow, loopPc, regVars, mode, loopCount,
                 isFirstObs, standPercent, actions, history, command, cmd,
                 ghostVars>>

WalkZeroRow ==
  /\ spinPc = "zeroRows"
  /\ history' = [history EXCEPT ![spinRow] = "zero"]
  /\ spinRow' = IF spinRow = HistLen THEN 1 ELSE spinRow + 1
  /\ spinPc' = IF spinRow = HistLen THEN "spin" ELSE "zeroRows"
  /\ UNCHANGED <<managerVars, loopPc, regVars, mode, loopCount, isFirstObs,
                 standPercent, actions, lastActions, command, cmd, ghostVars>>

ModeCallbackIdle ==
  /\ SpinFree
  /\ Subscribed
  /\ mode # "IDLE"
  /\ mode' = "IDLE"
  /\ UNCHANGED <<managerVars, spinVars, loopPc, regVars, loopCount,
                 policyVars, standPercent, command, cmd, ghostVars>>

\* What the spinner does of itself once a callback has begun.
SpinContinue ==
  \/ SwitchReturn
  \/ WalkResetCount
  \/ WalkResetFirst
  \/ WalkResetLast
  \/ WalkZeroRow

Spinner ==
  \/ SpinContinue
  \/ Load
  \/ \E what \in {"start", "stop"} : SwitchRequest(what)
  \/ \E v \in Sticks : CmdVelCallback(v)
  \/ ModeCallbackWalk
  \/ ModeCallbackIdle

----------------------------------------------------------------------------
(* The loop thread: RobotHWLoop::update, with ControllerBase::update in it. *)

\* ControllerManager::update calls update() of a running controller.
Update ==
  /\ loopPc = "update"
  /\ loopPc' = IF ctl = "running" THEN "checkIdle" ELSE "switch"
  /\ UNCHANGED <<managerVars, spinVars, regVars, fields, ghostVars>>

\* MUTANT of CheckIdle: update() returns in IDLE without a command.
CheckIdleSilent ==
  /\ loopPc = "checkIdle"
  /\ IF mode = "IDLE"
     THEN loopPc' = "switch" /\ UNCHANGED seenMode
     ELSE loopPc' = "checkStand" /\ seenMode' = mode
  /\ UNCHANGED <<managerVars, spinVars, loopRow, seenCount, seenRow, fields,
                 ghostVars>>

\* The first read of mode_: IDLE commands damping around the measured pose.
CheckIdle ==
  /\ loopPc = "checkIdle"
  /\ IF mode = "IDLE"
     THEN loopPc' = "switch" /\ cmd' = "damp" /\ UNCHANGED seenMode
     ELSE loopPc' = "checkStand" /\ seenMode' = mode /\ UNCHANGED cmd
  /\ UNCHANGED <<managerVars, spinVars, loopRow, seenCount, seenRow, mode,
                 loopCount, policyVars, standPercent, command, ghostVars>>

\* MUTANT of CheckStand: standPercent_ is not advanced.
CheckStandStuck ==
  /\ loopPc = "checkStand"
  /\ \E m \in {seenMode, mode} :
       IF m = "STAND"
       THEN /\ cmd' = IF standPercent < StandSteps THEN "ramp" ELSE "hold"
            /\ loopPc' = "switch"
       ELSE loopPc' = "countLoad" /\ UNCHANGED cmd
  /\ seenMode' = "IDLE"
  /\ UNCHANGED <<managerVars, spinVars, loopRow, seenCount, seenRow, mode,
                 loopCount, policyVars, standPercent, command, ghostVars>>

\* The second read: mode_ is a plain field, so the build may read it again or
\* keep what it read first.
CheckStand ==
  /\ loopPc = "checkStand"
  /\ \E m \in {seenMode, mode} :
       IF m = "STAND"
       THEN /\ cmd' = IF standPercent < StandSteps THEN "ramp" ELSE "hold"
            /\ standPercent' = IF standPercent < StandSteps
                               THEN standPercent + 1 ELSE standPercent
            /\ loopPc' = "switch"
       ELSE loopPc' = "countLoad" /\ UNCHANGED <<cmd, standPercent>>
  /\ seenMode' = "IDLE"
  /\ UNCHANGED <<managerVars, spinVars, loopRow, seenCount, seenRow, mode,
                 loopCount, policyVars, command, ghostVars>>

\* loopCount_++ is a load and a store; modeCallback may write in between.
CountLoad ==
  /\ loopPc = "countLoad"
  /\ seenCount' = loopCount
  /\ loopPc' = "countStore"
  /\ UNCHANGED <<managerVars, spinVars, loopRow, seenMode, seenRow, fields,
                 ghostVars>>

CountStore ==
  /\ loopPc = "countStore"
  /\ loopCount' = NextCount(seenCount)
  /\ walkCycles' = IF SpinFree /\ walkCycles < Decimation
                   THEN walkCycles + 1 ELSE walkCycles
  /\ loopPc' = "test"
  /\ UNCHANGED <<managerVars, spinVars, regVars, mode, policyVars,
                 standPercent, command, cmd, walkAsked, idleWritten,
                 walkTick>>

\* loopCount_ % decimation == 0, on the value stored or on the field again.
Test ==
  /\ loopPc = "test"
  /\ \E n \in {NextCount(seenCount), loopCount} :
       loopPc' = IF n = 0 THEN "observe" ELSE "apply"
  /\ seenCount' = 0
  /\ UNCHANGED <<managerVars, spinVars, loopRow, seenMode, seenRow, fields,
                 ghostVars>>

\* computeObservation, then updateObsHistory's test of isFirstObs_.
Observe ==
  /\ loopPc = "observe"
  /\ walkTick' = IF walkTick = "none" /\ SpinFree THEN "clean" ELSE walkTick
  /\ loopPc' = IF isFirstObs THEN "fill" ELSE "shiftLoad"
  /\ UNCHANGED <<managerVars, spinVars, regVars, fields, walkAsked,
                 walkCycles, idleWritten>>

\* First observation: every row becomes it; isFirstObs_ is cleared last.
Fill ==
  /\ loopPc = "fill"
  /\ history' = [history EXCEPT ![loopRow] = "new"]
  /\ IF loopRow = HistLen
     THEN loopRow' = 1 /\ loopPc' = "encode" /\ isFirstObs' = FALSE
     ELSE loopRow' = loopRow + 1 /\ UNCHANGED <<loopPc, isFirstObs>>
  /\ UNCHANGED <<managerVars, spinVars, seenMode, seenCount, seenRow, mode,
                 loopCount, standPercent, actions, lastActions, command, cmd,
                 ghostVars>>

\* Later ones: each row is copied over the row before it...
ShiftLoad ==
  /\ loopPc = "shiftLoad"
  /\ IF loopRow = HistLen
     THEN /\ history' = [history EXCEPT ![HistLen] = "new"]
          /\ loopRow' = 1
          /\ loopPc' = "encode"
          /\ UNCHANGED seenRow
     ELSE /\ seenRow' = history[loopRow + 1]
          /\ loopPc' = "shiftStore"
          /\ UNCHANGED <<history, loopRow>>
  /\ UNCHANGED <<managerVars, spinVars, seenMode, seenCount, mode, loopCount,
                 isFirstObs, standPercent, actions, lastActions, command, cmd,
                 ghostVars>>

\* MUTANT of ShiftStore: the row is not advanced.
ShiftStoreStuck ==
  /\ loopPc = "shiftStore"
  /\ history' = [history EXCEPT ![loopRow] = seenRow]
  /\ seenRow' = "zero"
  /\ loopPc' = "shiftLoad"
  /\ UNCHANGED <<managerVars, spinVars, loopRow, seenMode, seenCount, mode,
                 loopCount, isFirstObs, standPercent, actions, lastActions,
                 command, cmd, ghostVars>>

ShiftStore ==
  /\ loopPc = "shiftStore"
  /\ history' = [history EXCEPT ![loopRow] = seenRow]
  /\ seenRow' = "zero"
  /\ loopRow' = loopRow + 1
  /\ loopPc' = "shiftLoad"
  /\ UNCHANGED <<managerVars, spinVars, seenMode, seenCount, mode, loopCount,
                 isFirstObs, standPercent, actions, lastActions, command, cmd,
                 ghostVars>>

\* computeEncoder reads the whole history; nothing shared is written.
Encode ==
  /\ loopPc = "encode"
  /\ loopPc' = "infer"
  /\ UNCHANGED <<managerVars, spinVars, regVars, fields, ghostVars>>

\* computeActions and the clip to the action range.
Infer ==
  /\ loopPc = "infer"
  /\ actions' = "new"
  /\ loopPc' = "record"
  /\ UNCHANGED <<managerVars, spinVars, regVars, mode, loopCount, isFirstObs,
                 standPercent, lastActions, history, command, cmd, ghostVars>>

Record ==
  /\ loopPc = "record"
  /\ lastActions' = actions
  /\ loopPc' = "apply"
  /\ UNCHANGED <<managerVars, spinVars, regVars, mode, loopCount, isFirstObs,
                 standPercent, actions, history, command, cmd, ghostVars>>

\* applyActions hands actions_ to the joints, whatever their age.
Apply ==
  /\ loopPc = "apply"
  /\ cmd' = "policy"
  /\ loopPc' = "switch"
  /\ UNCHANGED <<managerVars, spinVars, regVars, mode, loopCount, policyVars,
                 standPercent, command, ghostVars>>

\* The controller manager, after the update: no switch was asked for...
NoSwitch ==
  /\ loopPc = "switch"
  /\ doSwitch = "none"
  /\ loopPc' = "write"
  /\ UNCHANGED <<managerVars, spinVars, regVars, fields, ghostVars>>

\* ... or one that changes nothing (BEST_EFFORT): the controller is not
\* loaded, or it is already what the request wants.
EmptySwitch ==
  /\ loopPc = "switch"
  /\ \/ doSwitch = "start" /\ ctl \in {"unloaded", "running"}
     \/ doSwitch = "stop" /\ ctl # "running"
  /\ doSwitch' = "none"
  /\ loopPc' = "write"
  /\ UNCHANGED <<ctl, spinVars, regVars, fields, ghostVars>>

\* stopping() is not overridden: the joints keep their last command.
StopSwitch ==
  /\ loopPc = "switch"
  /\ doSwitch = "stop"
  /\ ctl = "running"
  /\ ctl' = "stopped"
  /\ doSwitch' = "none"
  /\ loopPc' = "write"
  /\ UNCHANGED <<spinVars, regVars, fields, ghostVars>>

\* starting() is called, for a running controller only by the versions of the
\* controller manager that restart it.  Its assignments follow in order.
StartSwitch ==
  /\ loopPc = "switch"
  /\ doSwitch = "start"
  /\ ctl # "unloaded"
  /\ loopPc' = "starting1"
  /\ UNCHANGED <<managerVars, spinVars, regVars, fields, ghostVars>>

\* MUTANT of StartingMode: loopCount_ is not reset.
StartingModeKeepCount ==
  /\ loopPc = "starting1"
  /\ isFirstObs' = TRUE
  /\ mode' = "STAND"
  /\ standPercent' = 0
  /\ walkAsked' = FALSE
  /\ walkTick' = "none"
  /\ ForgetWalk
  /\ loopPc' = "starting2"
  /\ UNCHANGED <<managerVars, spinVars, regVars, loopCount, actions,
                 lastActions, history, command, cmd>>

StartingMode ==
  /\ loopPc = "starting1"
  /\ loopCount' = 0
  /\ isFirstObs' = TRUE
  /\ mode' = "STAND"
  /\ standPercent' = 0
  /\ walkAsked' = FALSE
  /\ walkTick' = "none"
  /\ ForgetWalk
  /\ loopPc' = "starting2"
  /\ UNCHANGED <<managerVars, spinVars, regVars, actions, lastActions,
                 history, command, cmd>>

\* MUTANT of StartingVectors: actions_ is not cleared.
StartingVectorsKeepActions ==
  /\ loopPc = "starting2"
  /\ lastActions' = "zero"
  /\ history' = ZeroHistory
  /\ loopPc' = "starting3"
  /\ UNCHANGED <<managerVars, spinVars, regVars, mode, loopCount, isFirstObs,
                 standPercent, actions, command, cmd, ghostVars>>

StartingVectors ==
  /\ loopPc = "starting2"
  /\ lastActions' = "zero"
  /\ actions' = "zero"
  /\ history' = ZeroHistory
  /\ loopPc' = "starting3"
  /\ UNCHANGED <<managerVars, spinVars, regVars, mode, loopCount, isFirstObs,
                 standPercent, command, cmd, ghostVars>>

StartingCommand ==
  /\ loopPc = "starting3"
  /\ command' = 0
  /\ loopPc' = "started"
  /\ UNCHANGED <<managerVars, spinVars, regVars, mode, loopCount, policyVars,
                 standPercent, cmd, ghostVars>>

Started ==
  /\ loopPc = "started"
  /\ ctl' = "running"
  /\ doSwitch' = "none"
  /\ loopPc' = "write"
  /\ UNCHANGED <<spinVars, regVars, fields, ghostVars>>

\* Tron2HW::write sends what the joints hold; the loop sleeps and repeats.
Write ==
  /\ loopPc = "write"
  /\ idleWritten' = (idleWritten \/ (mode = "IDLE" /\ ctl = "running"))
  /\ loopPc' = "update"
  /\ UNCHANGED <<managerVars, spinVars, regVars, fields, walkAsked,
                 walkCycles, walkTick>>

Loop ==
  \/ Update
  \/ CheckIdle
  \/ CheckStand
  \/ CountLoad
  \/ CountStore
  \/ Test
  \/ Observe
  \/ Fill
  \/ ShiftLoad
  \/ ShiftStore
  \/ Encode
  \/ Infer
  \/ Record
  \/ Apply
  \/ NoSwitch
  \/ EmptySwitch
  \/ StopSwitch
  \/ StartSwitch
  \/ StartingMode
  \/ StartingVectors
  \/ StartingCommand
  \/ Started
  \/ Write

Next == Loop \/ Spinner

Spec == Init /\ [][Next]_vars

\* The loop thread never blocks, and a callback that has begun goes on; no
\* message and no request is ever promised.
FairSpec == Spec /\ WF_vars(Loop) /\ WF_vars(SpinContinue)

----------------------------------------------------------------------------
(* Safety.                                                                 *)

\* While starting() runs, the spinner is inside the switch_controller handler
\* that asked for it, so no callback interleaves with its assignments.
StartExclusive == loopPc \in StartingPcs => spinPc = "waitSwitch"

\* When the controller is about to be marked running, nothing of an earlier
\* walk is left: starting() takes several steps, and all of them still hold.
StartClean ==
  loopPc = "started" =>
    /\ mode = "STAND"
    /\ loopCount = 0
    /\ isFirstObs
    /\ standPercent = 0
    /\ actions = "zero"
    /\ lastActions = "zero"
    /\ history = ZeroHistory
    /\ command = 0

\* The policy is evaluated only after a WALK message was accepted since the
\* last start, although update() reads mode_ twice and an IDLE message may
\* arrive between the reads.  With Decimation = 1 this would be false.
PolicyNeedsWalk == Decimation > 1 /\ loopPc \in TickPcs => walkAsked

\* Once one command was written in IDLE, every command written until IDLE is
\* left is the damping of update()'s first branch, whatever the cycle under
\* way was computing when modeCallback set IDLE.
IdleDamped ==
  loopPc = "write" /\ idleWritten /\ mode = "IDLE" /\ ctl = "running"
    => cmd = "damp"

\* modeCallback does not clear actions_: those of an earlier walk may still be
\* applied, but for fewer than Decimation cycles counted after it returned.
FreshWithinDecimation ==
  walkCycles = Decimation /\ loopPc \notin TickPcs \cup {"test"}
    => actions = "new"

\* A policy tick that begins after modeCallback returned hands the encoder a
\* history without a row of an earlier walk, although a tick under way when the
\* message was accepted may write rows and isFirstObs_ after they were reset.
\* Excepted is a message accepted while the rows were being filled: with four
\* rows or more, old rows then survive if the spinner is held up for a tick.
NoForeignHistory ==
  walkTick = "clean" /\ loopPc = "encode" => \A r \in Rows : history[r] # "old"

----------------------------------------------------------------------------
(* Liveness, under FairSpec.                                               *)

\* A running controller left in WALK comes to apply an action of that walk:
\* no race on loopCount_ postpones the policy tick for ever.
WalkReachesPolicy ==
  mode = "WALK" /\ ctl = "running"
    ~> \/ ctl # "running"
       \/ mode # "WALK"
       \/ loopPc = "apply" /\ actions = "new"

----------------------------------------------------------------------------
(* What the documentation says and the code does not do.                   *)

\* README: WALK is what runs the policy.  The cycle in which an IDLE message
\* lands between the two reads of mode_ in STAND applies the policy's actions.
PolicyCommandNeedsWalk == loopPc = "write" /\ cmd = "policy" => walkAsked

\* bringup_mvp.md: after the controller is stopped the command falls back to
\* damping.
StoppedIsDamped == loopPc = "write" /\ ctl = "stopped" => cmd = "damp"
============================================================================
