---------------------------- MODULE ControlCycle ----------------------------
(***************************************************************************)
(* From the measured pose to the published command: Tron2HW::read, the     *)
(* controller's update or starting, and Tron2HW::write, cycle by cycle.    *)
(*                                                                         *)
(* RobotIO, which this module extends, says which state of the robot a     *)
(* read returns and whether a command goes out.  Here is what the          *)
(* controller makes of the one and gives to the other, for one position    *)
(* controlled joint.  A pose is known by the number of the state it was    *)
(* read from, and a target by its distance from the default pose: every    *)
(* stand ramp begins RampSteps away from it and comes closer by one.       *)
(*                                                                         *)
(* The accesses inside update() are not interleaved with callbacks here:   *)
(* that is Tron2Controller.                                                *)
(***************************************************************************)
EXTENDS RobotIO, Integers

CONSTANTS
  RampSteps,   \* cycles of the stand ramp: standDuration_ / tron2HwControlDt_
  ActionRange  \* bound on a policy target, either way

ASSUME RampStepsAssumption == RampSteps \in Nat \ {0}
ASSUME ActionRangeAssumption == ActionRange \in Nat

VARIABLES
  ctl,        \* the controller: is it running?
  switch,     \* what the controller manager has been asked for
  mode,       \* mode_
  standStep,  \* standPercent_, in steps
  initPose,   \* tron2InitJointAngles_
  command,    \* what the joint handle holds
  published,  \* the command published last
  withheld    \* a command has been held back since

controller == <<ctl, switch, mode, standStep, initPose>>
output     == <<published, withheld>>
cycleVars  == <<vars, controller, command, output>>

\* What HybridJointHandle::setCommand stores, as far as it matters here: without
\* stiffness the joint is damped and its target does nothing.
SetCommand(by, pose, target, stiff) ==
  [by |-> by, pose |-> pose, target |-> target, stiff |-> stiff]

Commands == [by : {"none", "damp", "ramp", "hold", "policy"}, pose : States,
             target : -ActionRange .. ActionRange + RampSteps, stiff : BOOLEAN]

NoCommand == SetCommand("none", Constructed, 0, FALSE)

CycleTypeOK ==
  /\ TypeOK
  /\ ctl \in {"stopped", "running"}
  /\ switch \in {"none", "start", "stop"}
  /\ mode \in {"IDLE", "STAND", "WALK"}
  /\ standStep \in 0 .. RampSteps
  /\ initPose \in States
  /\ command \in Commands
  /\ published \in Commands
  /\ withheld \in BOOLEAN

CycleInit ==
  /\ Init
  /\ ctl = "stopped"
  /\ switch = "none"
  /\ mode = "IDLE"
  /\ standStep = 0
  /\ initPose = Constructed
  /\ command = NoCommand
  /\ published = NoCommand
  /\ withheld = FALSE

----------------------------------------------------------------------------
(* Requests, from outside the loop.                                        *)

ModeMessage(m) ==
  /\ mode # m
  /\ mode' = m
  /\ UNCHANGED <<vars, ctl, switch, standStep, initPose, command, output>>

SwitchMessage(s) ==
  /\ mainPc = "loop"
  /\ switch = "none"
  /\ s = "start" \/ ctl = "running"
  /\ switch' = s
  /\ UNCHANGED <<vars, ctl, mode, standStep, initPose, command, output>>

----------------------------------------------------------------------------
(* The controllers, between read and write.                                *)

\* MUTANT of Stand: the ramp begins where the joint is now.
StandFromHere(pose) ==
  IF standStep < RampSteps
  THEN SetCommand("ramp", pose, RampSteps - standStep, TRUE)
  ELSE SetCommand("hold", pose, 0, TRUE)

\* The ramp from the pose of the start, then the default pose.
Stand(pose) ==
  IF standStep < RampSteps
  THEN SetCommand("ramp", initPose, RampSteps - standStep, TRUE)
  ELSE SetCommand("hold", initPose, 0, TRUE)

\* The commands update() may give in a cycle that read this pose.
Update(pose) ==
  IF mode = "IDLE" THEN {SetCommand("damp", pose, 0, FALSE)}
  ELSE IF mode = "STAND" THEN {Stand(pose)}
  ELSE {SetCommand("policy", pose, t, TRUE) : t \in -ActionRange .. ActionRange}

\* MUTANT of NextStandStep: the ramp does not end.
NextStandStepOver ==
  IF ctl = "running" /\ mode = "STAND" THEN standStep + 1 ELSE standStep

NextStandStep ==
  IF ctl = "running" /\ mode = "STAND" /\ standStep < RampSteps
  THEN standStep + 1 ELSE standStep

NoSwitch ==
  /\ switch = "none"
  /\ standStep' = NextStandStep
  /\ UNCHANGED <<ctl, switch, mode, initPose>>

\* MUTANT of StartSwitch: only the first start captures the pose.
StartSwitchOnce ==
  /\ switch = "start"
  /\ switch' = "none"
  /\ ctl' = "running"
  /\ mode' = "STAND"
  /\ standStep' = 0
  /\ initPose' = IF initPose = Constructed THEN joint' ELSE initPose

\* starting(), of a controller that may be running.
StartSwitch ==
  /\ switch = "start"
  /\ switch' = "none"
  /\ ctl' = "running"
  /\ mode' = "STAND"
  /\ standStep' = 0
  /\ initPose' = joint'

\* stopping() does nothing.
StopSwitch ==
  /\ switch = "stop"
  /\ switch' = "none"
  /\ ctl' = "stopped"
  /\ standStep' = NextStandStep
  /\ UNCHANGED <<mode, initPose>>

\* Read, then update what runs, then switch.
ReadAndUpdate ==
  /\ ReadState
  /\ command' \in IF ctl = "running" THEN Update(joint') ELSE {command}
  /\ NoSwitch \/ StartSwitch \/ StopSwitch
  /\ UNCHANGED <<published, withheld>>

\* The gate: what it holds back is lost, the cycles go on.
Gate ==
  /\ WriteChecks
  /\ withheld' = (withheld \/ loopPc' # "publish")
  /\ UNCHANGED <<controller, command, published>>

Publish ==
  /\ WritePublishes
  /\ published' = command
  /\ withheld' = FALSE
  /\ UNCHANGED <<controller, command>>

CycleLoop == ReadAndUpdate \/ Gate \/ Publish

CycleNext ==
  \/ CycleLoop
  \/ (Sdk \/ Main) /\ UNCHANGED <<controller, command, output>>
  \/ \E m \in {"IDLE", "WALK"} : ModeMessage(m)
  \/ \E s \in {"start", "stop"} : SwitchMessage(s)

CycleSpec == CycleInit /\ [][CycleNext]_cycleVars

FairCycleSpec ==
  /\ CycleSpec
  /\ WF_cycleVars(Main /\ UNCHANGED <<controller, command, output>>)
  /\ WF_cycleVars(CycleLoop)

----------------------------------------------------------------------------
(* Safety.                                                                 *)

\* The poses that reach the joint - the damping around the present one, the
\* origins of the ramps - never go back to an earlier one, across modes,
\* restarts and reads that miss the lock.
PosesAdvance == [][command'.pose >= command.pose]_cycleVars

\* What the robot gets of a stand ramp comes without a jump: the ramp's first
\* command, or one of the same ramp, no more than a step further than what it was
\* given before - unless a command was held back.  (The ramp goes on behind a closed gate, so the
\* command after it may be far ahead.)
RampWithoutJump ==
  loopPc = "publish" /\ command.by \in {"ramp", "hold"} /\ ~withheld =>
    \/ command.by = "ramp" /\ command.target = RampSteps
    \/ /\ published.by \in {"ramp", "hold"}
       /\ published.pose = command.pose
       /\ published.target - command.target \in {0, 1}

----------------------------------------------------------------------------
(* Liveness, under FairCycleSpec.                                          *)

\* README: the controller begins in STAND and moves every joint to the default
\* pose.  So it does when it is left alone and the robot reports no trouble.
StandReached ==
  <>[](ctl = "running" /\ mode = "STAND" /\ switch = "none" /\ reported # "nonzero")
    => <>(published.by = "hold")

============================================================================
