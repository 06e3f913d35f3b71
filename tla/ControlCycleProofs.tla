------------------------- MODULE ControlCycleProofs -------------------------
(***************************************************************************)
(* The safety properties of RobotIO, for any number of messages and of     *)
(* sleeps of the handshake; then those of ControlCycle, which is RobotIO   *)
(* with a controller in it, for ramps of any length and policies of any    *)
(* range.                                                                  *)
(***************************************************************************)
EXTENDS ControlCycle, TLAPS

\* The lock is held exactly while a message is being copied.
LockInv == locked <=> sdkPc = "storing"

\* The slots hold nothing newer than what was received; news is newer than
\* what the reader has, and a message being copied is newer than both slots.
BufferInv ==
  /\ received > 0 \/ sdkPc = "idle"
  /\ realtime <= received + 1 /\ other <= received + 1
  /\ available => other > realtime
  /\ sdkPc = "storing" => realtime < received + 1 /\ other < received + 1
  /\ joint = realtime

\* Once a message was stored, it or a later one is what the next swap brings,
\* or what the reader has already.
Stored == firstState \/ sdkPc = "flag"
StateInv ==
  Stored => IF available THEN other > Blank ELSE realtime > Blank

\* Before the loop runs nothing was read; a confirmed handshake saw the flag.
HandshakeInv ==
  /\ mainPc # "loop" => realtime = Constructed /\ loopPc = "read"
  /\ confirmed => firstState /\ mainPc = "loop" /\ realtime # Blank

\* A command is late only after a report that no command has followed; the
\* calibration state is what was reported last.
LateInv ==
  /\ reported = "none" => calibration = "zero"
  /\ reported # "none" => calibration = reported
  /\ reported # "nonzero" => late = 0
  /\ late = 0 \/ (late = 1 /\ loopPc # "publish")

IInv == /\ TypeOK /\ LockInv /\ BufferInv /\ StateInv /\ HandshakeInv /\ LateInv

----------------------------------------------------------------------------
\* Each step keeps the types.
LEMMA TypeStep ==
  ASSUME MaxMsgs \in Nat, MaxTicks \in Nat, TypeOK, [Next]_vars
  PROVE  TypeOK'
PROOF
<1>1. CASE StateArrives
  BY <1>1 DEF StateArrives, TypeOK, States, Reports,
     main, gate
<1>2. CASE StateStored
  <2>1. other' \in States
    BY <1>2 DEF StateStored, TypeOK, States
  <2> QED
    BY <1>2, <2>1 DEF StateStored, TypeOK, States, main, gate
<1>3. CASE FirstStateSet
  BY <1>3 DEF FirstStateSet, TypeOK, States, Reports,
     buffer, main, gate
<1>4. ASSUME NEW code \in Reports, CalibrationReport(code) PROVE TypeOK'
  BY <1>4 DEF CalibrationReport, TypeOK, States, Reports,
     buffer, sdk, main
<1>5. CASE HandshakeTicks
  BY <1>5 DEF HandshakeTicks, TypeOK, States, Reports,
     buffer, sdk, gate
<1>6. CASE HandshakeOver
  BY <1>6 DEF HandshakeOver, TypeOK, States, Reports,
     buffer, sdk, gate
<1>7. CASE StartLoop
  BY <1>7 DEF StartLoop, TypeOK, States, Reports, buffer,
     sdk, gate
<1>8. CASE ReadState
  BY <1>8 DEF ReadState, TypeOK, States, Reports, sdk,
     main, gate
<1>9. CASE WriteChecks
  BY <1>9 DEF WriteChecks, TypeOK, States, Reports,
     buffer, sdk, main, gate
<1>10. CASE WritePublishes
  BY <1>10 DEF WritePublishes, TypeOK, States, Reports,
     buffer, sdk, main
<1>11. CASE UNCHANGED vars
  BY <1>11 DEF vars, TypeOK, States, Reports, buffer,
     sdk, main, gate
<1> QED
  BY <1>1, <1>2, <1>3, <1>4, <1>5, <1>6, <1>7, <1>8, <1>9, <1>10, <1>11
  DEF Next, Sdk, Main, Loop

\* Each step keeps the lock and the copy together.
LEMMA LockStep ==
  ASSUME LockInv, [Next]_vars
  PROVE  LockInv'
PROOF
<1>1. CASE StateArrives
  BY <1>1 DEF StateArrives, LockInv, main, gate
<1>2. CASE StateStored
  BY <1>2 DEF StateStored, LockInv, main, gate
<1>3. CASE FirstStateSet
  BY <1>3 DEF FirstStateSet, LockInv, buffer, main, gate
<1>4. ASSUME NEW code \in Reports, CalibrationReport(code) PROVE LockInv'
  BY <1>4 DEF CalibrationReport, LockInv, buffer, sdk, main
<1>5. CASE HandshakeTicks
  BY <1>5 DEF HandshakeTicks, LockInv, buffer, sdk, gate
<1>6. CASE HandshakeOver
  BY <1>6 DEF HandshakeOver, LockInv, buffer, sdk, gate
<1>7. CASE StartLoop
  BY <1>7 DEF StartLoop, LockInv, buffer, sdk, gate
<1>8. CASE ReadState
  BY <1>8 DEF ReadState, LockInv, sdk, main, gate
<1>9. CASE WriteChecks
  BY <1>9 DEF WriteChecks, LockInv, buffer, sdk, main, gate
<1>10. CASE WritePublishes
  BY <1>10 DEF WritePublishes, LockInv, buffer, sdk, main
<1>11. CASE UNCHANGED vars
  BY <1>11 DEF vars, LockInv, buffer, sdk, main, gate
<1> QED
  BY <1>1, <1>2, <1>3, <1>4, <1>5, <1>6, <1>7, <1>8, <1>9, <1>10, <1>11
  DEF Next, Sdk, Main, Loop

\* Each step keeps the order of the slots.
LEMMA BufferStep ==
  ASSUME TypeOK, TypeOK', LockInv, BufferInv, [Next]_vars
  PROVE  BufferInv'
PROOF
<1>1. CASE StateArrives
  BY <1>1 DEF StateArrives, TypeOK, LockInv, BufferInv, States, Constructed,
     Blank, main, gate
<1>2. CASE StateStored
  BY <1>2 DEF StateStored, TypeOK, LockInv, BufferInv, States, Constructed,
     Blank, main, gate
<1>3. CASE FirstStateSet
  BY <1>3 DEF FirstStateSet, TypeOK, LockInv, BufferInv, States, Constructed,
     Blank, buffer, main, gate
<1>4. ASSUME NEW code \in Reports, CalibrationReport(code) PROVE BufferInv'
  BY <1>4 DEF CalibrationReport, TypeOK, LockInv, BufferInv, States,
     Constructed, Blank, buffer, sdk, main
<1>5. CASE HandshakeTicks
  BY <1>5 DEF HandshakeTicks, TypeOK, LockInv, BufferInv, States,
     Constructed, Blank, buffer, sdk, gate
<1>6. CASE HandshakeOver
  BY <1>6 DEF HandshakeOver, TypeOK, LockInv, BufferInv, States, Constructed,
     Blank, buffer, sdk, gate
<1>7. CASE StartLoop
  BY <1>7 DEF StartLoop, TypeOK, LockInv, BufferInv, States, Constructed,
     Blank, buffer, sdk, gate
<1>8. CASE ReadState
  BY <1>8 DEF ReadState, TypeOK, LockInv, BufferInv, States, Constructed,
     Blank, sdk, main, gate
<1>9. CASE WriteChecks
  BY <1>9 DEF WriteChecks, TypeOK, LockInv, BufferInv, States, Constructed,
     Blank, buffer, sdk, main, gate
<1>10. CASE WritePublishes
  BY <1>10 DEF WritePublishes, TypeOK, LockInv, BufferInv, States,
     Constructed, Blank, buffer, sdk, main
<1>11. CASE UNCHANGED vars
  BY <1>11 DEF vars, TypeOK, LockInv, BufferInv, States, Constructed, Blank,
     buffer, sdk, main, gate
<1> QED
  BY <1>1, <1>2, <1>3, <1>4, <1>5, <1>6, <1>7, <1>8, <1>9, <1>10, <1>11
  DEF Next, Sdk, Main, Loop

\* Each step keeps a stored state of the robot within reach.
LEMMA StateStep ==
  ASSUME TypeOK, LockInv, BufferInv, StateInv, [Next]_vars
  PROVE  StateInv'
PROOF
<1>1. CASE StateArrives
  BY <1>1 DEF StateArrives, TypeOK, LockInv, BufferInv, StateInv, Stored,
     States, Blank, main, gate
<1>2. CASE StateStored
  BY <1>2 DEF StateStored, TypeOK, LockInv, BufferInv, StateInv, Stored,
     States, Blank, main, gate
<1>3. CASE FirstStateSet
  BY <1>3 DEF FirstStateSet, TypeOK, LockInv, BufferInv, StateInv, Stored,
     States, Blank, buffer, main, gate
<1>4. ASSUME NEW code \in Reports, CalibrationReport(code) PROVE StateInv'
  BY <1>4 DEF CalibrationReport, TypeOK, LockInv, BufferInv, StateInv,
     Stored, States, Blank, buffer, sdk, main
<1>5. CASE HandshakeTicks
  BY <1>5 DEF HandshakeTicks, TypeOK, LockInv, BufferInv, StateInv, Stored,
     States, Blank, buffer, sdk, gate
<1>6. CASE HandshakeOver
  BY <1>6 DEF HandshakeOver, TypeOK, LockInv, BufferInv, StateInv, Stored,
     States, Blank, buffer, sdk, gate
<1>7. CASE StartLoop
  BY <1>7 DEF StartLoop, TypeOK, LockInv, BufferInv, StateInv, Stored,
     States, Blank, buffer, sdk, gate
<1>8. CASE ReadState
  BY <1>8 DEF ReadState, TypeOK, LockInv, BufferInv, StateInv, Stored,
     States, Blank, sdk, main, gate
<1>9. CASE WriteChecks
  BY <1>9 DEF WriteChecks, TypeOK, LockInv, BufferInv, StateInv, Stored,
     States, Blank, buffer, sdk, main, gate
<1>10. CASE WritePublishes
  BY <1>10 DEF WritePublishes, TypeOK, LockInv, BufferInv, StateInv, Stored,
     States, Blank, buffer, sdk, main
<1>11. CASE UNCHANGED vars
  BY <1>11 DEF vars, TypeOK, LockInv, BufferInv, StateInv, Stored, States,
     Blank, buffer, sdk, main, gate
<1> QED
  BY <1>1, <1>2, <1>3, <1>4, <1>5, <1>6, <1>7, <1>8, <1>9, <1>10, <1>11
  DEF Next, Sdk, Main, Loop

\* Each step keeps what a confirmed handshake means.
LEMMA HandshakeStep ==
  ASSUME TypeOK, BufferInv, StateInv, HandshakeInv, [Next]_vars
  PROVE  HandshakeInv'
PROOF
<1>1. CASE StateArrives
  BY <1>1 DEF StateArrives, TypeOK, BufferInv, StateInv, HandshakeInv,
     Stored, States, Constructed, Blank, main, gate
<1>2. CASE StateStored
  BY <1>2 DEF StateStored, TypeOK, BufferInv, StateInv, HandshakeInv, Stored,
     States, Constructed, Blank, main, gate
<1>3. CASE FirstStateSet
  BY <1>3 DEF FirstStateSet, TypeOK, BufferInv, StateInv, HandshakeInv,
     Stored, States, Constructed, Blank, buffer, main, gate
<1>4. ASSUME NEW code \in Reports, CalibrationReport(code) PROVE HandshakeInv'
  BY <1>4 DEF CalibrationReport, TypeOK, BufferInv, StateInv, HandshakeInv,
     Stored, States, Constructed, Blank, buffer, sdk, main
<1>5. CASE HandshakeTicks
  BY <1>5 DEF HandshakeTicks, TypeOK, BufferInv, StateInv, HandshakeInv,
     Stored, States, Constructed, Blank, buffer, sdk, gate
<1>6. CASE HandshakeOver
  BY <1>6 DEF HandshakeOver, TypeOK, BufferInv, StateInv, HandshakeInv,
     Stored, States, Constructed, Blank, buffer, sdk, gate
<1>7. CASE StartLoop
  BY <1>7 DEF StartLoop, TypeOK, BufferInv, StateInv, HandshakeInv, Stored,
     States, Constructed, Blank, buffer, sdk, gate
<1>8. CASE ReadState
  BY <1>8 DEF ReadState, TypeOK, BufferInv, StateInv, HandshakeInv, Stored,
     States, Constructed, Blank, sdk, main, gate
<1>9. CASE WriteChecks
  BY <1>9 DEF WriteChecks, TypeOK, BufferInv, StateInv, HandshakeInv, Stored,
     States, Constructed, Blank, buffer, sdk, main, gate
<1>10. CASE WritePublishes
  BY <1>10 DEF WritePublishes, TypeOK, BufferInv, StateInv, HandshakeInv,
     Stored, States, Constructed, Blank, buffer, sdk, main
<1>11. CASE UNCHANGED vars
  BY <1>11 DEF vars, TypeOK, BufferInv, StateInv, HandshakeInv, Stored,
     States, Constructed, Blank, buffer, sdk, main, gate
<1> QED
  BY <1>1, <1>2, <1>3, <1>4, <1>5, <1>6, <1>7, <1>8, <1>9, <1>10, <1>11
  DEF Next, Sdk, Main, Loop

\* Each step keeps the count of late commands.
LEMMA LateStep ==
  ASSUME TypeOK, LateInv, [Next]_vars
  PROVE  LateInv'
PROOF
<1>1. CASE StateArrives
  BY <1>1 DEF StateArrives, TypeOK, LateInv, Reports, main, gate
<1>2. CASE StateStored
  BY <1>2 DEF StateStored, TypeOK, LateInv, Reports, main, gate
<1>3. CASE FirstStateSet
  BY <1>3 DEF FirstStateSet, TypeOK, LateInv, Reports, buffer, main, gate
<1>4. ASSUME NEW code \in Reports, CalibrationReport(code) PROVE LateInv'
  BY <1>4 DEF CalibrationReport, TypeOK, LateInv, Reports, buffer, sdk, main
<1>5. CASE HandshakeTicks
  BY <1>5 DEF HandshakeTicks, TypeOK, LateInv, Reports, buffer, sdk, gate
<1>6. CASE HandshakeOver
  BY <1>6 DEF HandshakeOver, TypeOK, LateInv, Reports, buffer, sdk, gate
<1>7. CASE StartLoop
  BY <1>7 DEF StartLoop, TypeOK, LateInv, Reports, buffer, sdk, gate
<1>8. CASE ReadState
  BY <1>8 DEF ReadState, TypeOK, LateInv, Reports, sdk, main, gate
<1>9. CASE WriteChecks
  BY <1>9 DEF WriteChecks, TypeOK, LateInv, Reports, buffer, sdk, main, gate
<1>10. CASE WritePublishes
  BY <1>10 DEF WritePublishes, TypeOK, LateInv, Reports, buffer, sdk, main
<1>11. CASE UNCHANGED vars
  BY <1>11 DEF vars, TypeOK, LateInv, Reports, buffer, sdk, main, gate
<1> QED
  BY <1>1, <1>2, <1>3, <1>4, <1>5, <1>6, <1>7, <1>8, <1>9, <1>10, <1>11
  DEF Next, Sdk, Main, Loop

\* init() leaves the buffer, the handshake and the gate as the invariant wants.
LEMMA InitStep ==
  ASSUME MaxMsgs \in Nat, MaxTicks \in Nat, Init
  PROVE  IInv
PROOF
<1>1. TypeOK
  <2>1. realtime \in States /\ other \in States /\ joint \in States
    BY DEF Init, States, Constructed, Blank
  <2>2. /\ simMode \in BOOLEAN /\ available \in BOOLEAN /\ locked \in BOOLEAN
        /\ firstState \in BOOLEAN /\ confirmed \in BOOLEAN
    BY DEF Init
  <2>3. received \in 0 .. MaxMsgs /\ waited \in 0 .. MaxTicks /\ late \in Nat
    BY DEF Init
  <2> QED
    BY <2>1, <2>2, <2>3 DEF Init, TypeOK, Reports
<1>2. BufferInv /\ HandshakeInv /\ LateInv
  BY DEF Init, BufferInv, HandshakeInv, LateInv, Constructed, Blank
<1>3. LockInv /\ StateInv
  BY DEF Init, LockInv, StateInv, Stored
<1> QED
  BY <1>1, <1>2, <1>3 DEF IInv

\* Every step of the SDK's callbacks, of main and of the loop keeps the invariant.
LEMMA InvStep ==
  ASSUME IInv, [Next]_vars
  PROVE  IInv'
PROOF
<1> USE MaxMsgsAssumption, MaxTicksAssumption
<1>1. TypeOK'
  BY TypeStep DEF IInv
<1>2. LockInv'
  BY LockStep DEF IInv
<1>3. BufferInv'
  BY <1>1, BufferStep DEF IInv
<1>4. StateInv'
  BY StateStep DEF IInv
<1>5. HandshakeInv'
  BY HandshakeStep DEF IInv
<1>6. LateInv'
  BY LateStep DEF IInv
<1> QED
  BY <1>1, <1>2, <1>3, <1>4, <1>5, <1>6 DEF IInv

\* A read returns the state it returned last, or a later one.
LEMMA ReadStep ==
  ASSUME IInv, Next
  PROVE  joint' >= joint
PROOF
<1>1. joint \in Nat /\ realtime \in Nat /\ other \in Nat
  BY MaxMsgsAssumption DEF IInv, TypeOK, States
<1>2. CASE ReadState
  BY <1>1, <1>2 DEF ReadState, IInv, BufferInv
<1>3. ASSUME NEW code \in Reports, CalibrationReport(code)
      PROVE  joint' = joint
  BY <1>3 DEF CalibrationReport
<1>4. CASE StateArrives \/ StateStored \/ FirstStateSet \/ Main
           \/ WriteChecks \/ WritePublishes
  BY <1>1, <1>4 DEF StateArrives, StateStored, FirstStateSet, Main,
     HandshakeTicks, HandshakeOver, StartLoop, WriteChecks, WritePublishes
<1> QED
  BY <1>1, <1>2, <1>3, <1>4 DEF Next, Sdk, Loop

\* The invariant holds of every behaviour of the SDK's callbacks, main and the
\* loop thread.
THEOREM Invariance == Spec => []IInv
PROOF
<1>1. Init => IInv
  BY InitStep, MaxMsgsAssumption, MaxTicksAssumption
<1>2. IInv /\ [Next]_vars => IInv'
  BY InvStep
<1> QED
  BY <1>1, <1>2, PTL DEF Spec

\* The variables keep their types, whatever the bounds.
THEOREM TypeCorrect == Spec => []TypeOK
PROOF
<1>1. IInv => TypeOK
  BY DEF IInv
<1> QED
  BY <1>1, Invariance, PTL

\* After a confirmed handshake, read() never returns the zeros of init().
THEOREM ConfirmedStateIsRead == Spec => []ReadsConfirmedState
PROOF
<1>1. IInv => ReadsConfirmedState
  BY DEF IInv, BufferInv, HandshakeInv, ReadsConfirmedState
<1> QED
  BY <1>1, Invariance, PTL

\* At most one command is published after a non-zero calibration report.
THEOREM OneLateCommand == Spec => []CommandsHeldBack
PROOF
<1>1. IInv => CommandsHeldBack
  BY DEF IInv, LateInv, CommandsHeldBack
<1> QED
  BY <1>1, Invariance, PTL

\* What read() returns never goes back to an earlier state of the robot.
THEOREM ReadsOnlyAdvance == Spec => ReadsAdvance
PROOF
<1>1. IInv /\ [Next]_vars => [joint' >= joint]_vars
  BY ReadStep
<1> QED
  BY <1>1, Invariance, PTL DEF Spec, ReadsAdvance

----------------------------------------------------------------------------
(* ControlCycle.                                                           *)

\* The command is one of a stand ramp, or of the default pose it ends in.
OfRamp(c) == c.by \in {"ramp", "hold"}

\* No pose is newer than what was read; a ramp begins at the last one known.
PoseInv ==
  /\ command.pose <= joint
  /\ initPose <= joint
  /\ mode = "STAND" => command.pose <= initPose

\* Within a ramp the command in the handle is the one of the step before.
RampInv ==
  mode = "STAND" /\ standStep > 0 =>
    /\ OfRamp(command)
    /\ command.pose = initPose
    /\ IF standStep < RampSteps THEN command.target = RampSteps - standStep + 1
                                ELSE command.target \in {0, 1}

\* d may follow c at the robot.
Follows(d, c) ==
  OfRamp(d) => \/ d.by = "ramp" /\ d.target = RampSteps
               \/ /\ OfRamp(c)
                  /\ c.pose = d.pose
                  /\ c.target - d.target \in {0, 1}

\* Unless one was held back, the robot has the command the next one follows.
OutputInv ==
  ~withheld => IF loopPc = "read" THEN published = command
                                  ELSE Follows(command, published)

CycleInv == /\ IInv /\ CycleTypeOK /\ PoseInv /\ RampInv /\ OutputInv

----------------------------------------------------------------------------
(* What the actions do to RobotIO's variables, and what a controller does. *)

\* A step of the cycle is a step of RobotIO, or changes nothing there.
LEMMA RobotIOStep ==
  ASSUME [CycleNext]_cycleVars
  PROVE  [Next]_vars
<1>1. CASE UNCHANGED cycleVars
  BY <1>1 DEF cycleVars
<1>2. CASE CycleLoop
  BY <1>2 DEF CycleLoop, ReadAndUpdate, Gate, Publish, Next, Loop
<1>3. CASE (Sdk \/ Main) /\ UNCHANGED <<controller, command, output>>
  BY <1>3 DEF Next
<1>4. CASE \E m \in {"IDLE", "WALK"} : ModeMessage(m)
  BY <1>4 DEF ModeMessage
<1>5. CASE \E s \in {"start", "stop"} : SwitchMessage(s)
  BY <1>5 DEF SwitchMessage
<1> QED BY <1>1, <1>2, <1>3, <1>4, <1>5 DEF CycleNext

\* The SDK and main leave the reader alone; main enters the loop, never leaves
\* it, and confirms a handshake as it enters.
LEMMA OthersStep ==
  ASSUME Sdk \/ Main
  PROVE  /\ joint' = joint /\ loopPc' = loopPc
         /\ mainPc = "loop" => mainPc' = "loop" /\ confirmed' = confirmed
<1>1. ASSUME NEW code \in Reports, CalibrationReport(code)
      PROVE  UNCHANGED <<joint, loopPc, mainPc, confirmed>>
  BY <1>1 DEF CalibrationReport, main
<1>2. CASE StateArrives \/ StateStored \/ FirstStateSet
  BY <1>2 DEF StateArrives, StateStored, FirstStateSet, main
<1>3. CASE Main
  BY <1>3 DEF Main, HandshakeTicks, HandshakeOver, StartLoop
<1> QED BY <1>1, <1>2, <1>3 DEF Sdk

\* What update() commands, mode by mode.
LEMMA UpdateIs ==
  ASSUME CycleTypeOK, NEW pose \in States, NEW c \in Update(pose)
  PROVE  /\ c \in Commands
         /\ mode # "STAND" => c.by \in {"damp", "policy"} /\ c.pose = pose
         /\ mode = "STAND" => /\ OfRamp(c)
                              /\ c.pose = initPose
                              /\ c.target = RampSteps - standStep
                              /\ standStep < RampSteps => c.by = "ramp"
<1> USE RampStepsAssumption, ActionRangeAssumption DEF RampStepsAssumption,
        ActionRangeAssumption, OfRamp
<1>0. /\ initPose \in States /\ standStep \in 0 .. RampSteps
      /\ mode \in {"IDLE", "STAND", "WALK"}
  BY DEF CycleTypeOK
<1>1. CASE mode = "IDLE"
  <2>1. c = SetCommand("damp", pose, 0, FALSE)
    BY <1>1 DEF Update
  <2>2. 0 \in -ActionRange .. ActionRange + RampSteps
    OBVIOUS
  <2> QED BY <1>1, <2>1, <2>2 DEF SetCommand, Commands
<1>2. CASE mode = "STAND"
  <2>1. c = Stand(pose)
    BY <1>2 DEF Update
  <2>2. CASE standStep < RampSteps
    BY <1>0, <1>2, <2>1, <2>2 DEF Stand, SetCommand, Commands
  <2>3. CASE ~(standStep < RampSteps)
    BY <1>0, <1>2, <2>1, <2>3 DEF Stand, SetCommand, Commands
  <2> QED BY <2>2, <2>3
<1>3. CASE mode = "WALK"
  <2>1. PICK t \in -ActionRange .. ActionRange :
               c = SetCommand("policy", pose, t, TRUE)
    BY <1>3 DEF Update
  <2>2. t \in -ActionRange .. ActionRange + RampSteps
    OBVIOUS
  <2> QED BY <1>3, <2>1, <2>2 DEF SetCommand, Commands
<1> QED BY <1>0, <1>1, <1>2, <1>3

----------------------------------------------------------------------------
(* The cycle: read, update, switch.                                        *)

\* The variables keep their types.
LEMMA CycleTypeStep ==
  ASSUME CycleTypeOK, TypeOK', [CycleNext]_cycleVars
  PROVE  CycleTypeOK'
<1> USE RampStepsAssumption DEF RampStepsAssumption, CycleTypeOK
<1>1. CASE ReadAndUpdate
  <2>1. joint' \in States
    BY DEF TypeOK
  <2>2. command' \in Commands
    <3>1. CASE ctl = "running"
      BY <1>1, <2>1, <3>1, UpdateIs DEF ReadAndUpdate
    <3>2. CASE ctl # "running"
      BY <1>1, <3>2 DEF ReadAndUpdate
    <3> QED BY <3>1, <3>2
  <2>3. NextStandStep \in 0 .. RampSteps
    BY DEF NextStandStep
  <2>4. CASE NoSwitch
    BY <1>1, <2>2, <2>3, <2>4 DEF ReadAndUpdate, NoSwitch
  <2>5. CASE StartSwitch
    BY <1>1, <2>1, <2>2, <2>5 DEF ReadAndUpdate, StartSwitch
  <2>6. CASE StopSwitch
    BY <1>1, <2>2, <2>3, <2>6 DEF ReadAndUpdate, StopSwitch
  <2> QED BY <1>1, <2>4, <2>5, <2>6 DEF ReadAndUpdate
<1>2. CASE Gate
  BY <1>2 DEF Gate, controller
<1>3. CASE Publish
  BY <1>3 DEF Publish, controller
<1>4. CASE UNCHANGED <<controller, command, output>>
  BY <1>4 DEF controller, output
<1>5. ASSUME NEW m \in {"IDLE", "WALK"}, ModeMessage(m) PROVE CycleTypeOK'
  BY <1>5 DEF ModeMessage, output
<1>6. ASSUME NEW s \in {"start", "stop"}, SwitchMessage(s) PROVE CycleTypeOK'
  BY <1>6 DEF SwitchMessage, output
<1> QED
  BY <1>1, <1>2, <1>3, <1>4, <1>5, <1>6 DEF CycleNext, CycleLoop, cycleVars

\* What the controller's part of a cycle leaves behind.
LEMMA CommandStep ==
  ASSUME CycleTypeOK, PoseInv, joint \in States, joint' \in States,
         joint' >= joint, ReadAndUpdate
  PROVE  /\ command' \in Commands
         /\ \/ ctl # "running" /\ command' = command
            \/ /\ ctl = "running"
               /\ mode # "STAND" /\ ~OfRamp(command') /\ command'.pose = joint'
            \/ /\ ctl = "running"
               /\ mode = "STAND" /\ OfRamp(command')
               /\ command'.pose = initPose
               /\ command'.target = RampSteps - standStep
               /\ standStep < RampSteps => command'.by = "ramp"
         /\ command'.pose >= command.pose
         /\ command'.pose <= joint'
<1>1. CASE ctl = "running"
  <2>1. command' \in Update(joint')
    BY <1>1 DEF ReadAndUpdate
  <2>2. command.pose \in Nat /\ command'.pose \in Nat /\ initPose \in Nat
    BY <2>1, UpdateIs DEF CycleTypeOK, Commands, States
  <2>3. command' \in Commands
    BY <2>1, UpdateIs
  <2>4. CASE mode # "STAND"
    <3>1. command'.by \in {"damp", "policy"} /\ command'.pose = joint'
      BY <2>1, <2>4, UpdateIs
    <3> QED
      BY <1>1, <2>2, <2>3, <2>4, <3>1 DEF PoseInv, States, OfRamp
  <2>5. CASE mode = "STAND"
    <3>1. /\ OfRamp(command') /\ command'.pose = initPose
          /\ command'.target = RampSteps - standStep
          /\ standStep < RampSteps => command'.by = "ramp"
      BY <2>1, <2>5, UpdateIs
    <3> QED BY <1>1, <2>2, <2>3, <2>5, <3>1 DEF PoseInv, States
  <2> QED BY <2>4, <2>5
<1>2. CASE ctl # "running"
  BY <1>2 DEF ReadAndUpdate, CycleTypeOK, Commands, States, PoseInv
<1> QED BY <1>1, <1>2

\* No pose goes back, nor is newer than what was read.
LEMMA PoseStep ==
  ASSUME CycleTypeOK, PoseInv, joint \in States, joint' \in States,
         [CycleNext]_cycleVars, [Next]_vars => joint' >= joint
  PROVE  PoseInv' /\ command'.pose >= command.pose
<1>0. /\ command.pose \in Nat /\ initPose \in Nat /\ joint' \in Nat
      /\ joint \in Nat /\ joint' >= joint
  BY RobotIOStep DEF CycleTypeOK, Commands, States
<1>8. command' = command => command'.pose >= command.pose
  BY <1>0
<1> USE DEF PoseInv
<1>1. CASE ReadAndUpdate
  <2>1. /\ command' \in Commands
        /\ command'.pose >= command.pose /\ command'.pose <= joint'
        /\ mode = "STAND" => command' = command \/ command'.pose = initPose
    BY <1>0, <1>1, CommandStep
  <2>2. command'.pose \in Nat
    BY <2>1 DEF Commands, States
  <2>3. CASE NoSwitch
    BY <1>0, <2>1, <2>2, <2>3 DEF NoSwitch
  <2>4. CASE StartSwitch
    BY <1>0, <2>1, <2>2, <2>4 DEF StartSwitch
  <2>5. CASE StopSwitch
    BY <1>0, <2>1, <2>2, <2>5 DEF StopSwitch
  <2> QED BY <1>1, <2>1, <2>3, <2>4, <2>5 DEF ReadAndUpdate
<1>2. CASE Gate
  BY <1>8, <1>0, <1>2 DEF Gate, WriteChecks, controller
<1>3. CASE Publish
  BY <1>8, <1>0, <1>3 DEF Publish, WritePublishes, controller
<1>4. CASE (Sdk \/ Main) /\ UNCHANGED <<controller, command, output>>
  BY <1>8, <1>0, <1>4, OthersStep DEF controller, output
<1>5. ASSUME NEW m \in {"IDLE", "WALK"}, ModeMessage(m) PROVE PoseInv' /\ command'.pose >= command.pose
  BY <1>8, <1>0, <1>5 DEF ModeMessage, output, vars
<1>6. ASSUME NEW s \in {"start", "stop"}, SwitchMessage(s) PROVE PoseInv' /\ command'.pose >= command.pose
  BY <1>8, <1>0, <1>6 DEF SwitchMessage, output, vars
<1>7. CASE UNCHANGED cycleVars
  BY <1>8, <1>0, <1>7 DEF cycleVars, controller, output, vars
<1> QED
  BY <1>1, <1>2, <1>3, <1>4, <1>5, <1>6, <1>7 DEF CycleNext, CycleLoop

\* A ramp is one sequence of commands, from the start to the default pose.
LEMMA RampStep ==
  ASSUME CycleTypeOK, PoseInv, RampInv, [CycleNext]_cycleVars,
         joint \in States, joint' \in States, joint' >= joint
  PROVE  RampInv'
<1> USE RampStepsAssumption DEF RampStepsAssumption, RampInv
<1>0. standStep \in 0 .. RampSteps
  BY DEF CycleTypeOK
<1>1. CASE ReadAndUpdate
  <2>1. CASE ctl # "running"
    <3>1. command' = command
      BY <1>1, <2>1 DEF ReadAndUpdate
    <3> QED
      BY <1>0, <1>1, <2>1, <3>1
      DEF ReadAndUpdate, NoSwitch, StartSwitch, StopSwitch, NextStandStep
  <2>2. CASE ctl = "running" /\ mode = "STAND"
    <3>1. /\ OfRamp(command') /\ command'.pose = initPose
          /\ command'.target = RampSteps - standStep
      BY <1>1, <2>2, CommandStep
    <3>2. OfRamp(command)'
      BY <3>1 DEF OfRamp
    <3> QED
      BY <1>0, <1>1, <2>2, <3>1, <3>2
      DEF ReadAndUpdate, NoSwitch, StartSwitch, StopSwitch, NextStandStep
  <2>3. CASE mode # "STAND"
    BY <1>1, <2>3 DEF ReadAndUpdate, NoSwitch, StartSwitch, StopSwitch
  <2> QED BY <2>1, <2>2, <2>3
<1>2. CASE Gate
  BY <1>2 DEF Gate, WriteChecks, controller, OfRamp
<1>3. CASE Publish
  BY <1>3 DEF Publish, WritePublishes, controller, OfRamp
<1>4. CASE (Sdk \/ Main) /\ UNCHANGED <<controller, command, output>>
  BY <1>4, OthersStep DEF controller, output, OfRamp
<1>5. ASSUME NEW m \in {"IDLE", "WALK"}, ModeMessage(m) PROVE RampInv'
  BY <1>5 DEF ModeMessage, output, vars, OfRamp
<1>6. ASSUME NEW s \in {"start", "stop"}, SwitchMessage(s) PROVE RampInv'
  BY <1>6 DEF SwitchMessage, output, vars, OfRamp
<1>7. CASE UNCHANGED cycleVars
  BY <1>7 DEF cycleVars, controller, output, vars, OfRamp
<1> QED
  BY <1>1, <1>2, <1>3, <1>4, <1>5, <1>6, <1>7 DEF CycleNext, CycleLoop

\* Every command follows the one the robot got, or one was held back.
LEMMA OutputStep ==
  ASSUME CycleTypeOK, PoseInv, RampInv, OutputInv, [CycleNext]_cycleVars,
         joint \in States, joint' \in States, joint' >= joint
  PROVE  OutputInv'
<1> USE DEF OutputInv, Follows, OfRamp
<1>0. command \in Commands /\ standStep \in 0 .. RampSteps
  BY DEF CycleTypeOK
<1>1. CASE ReadAndUpdate
  <2>1. /\ loopPc = "read" /\ loopPc' = "write"
        /\ withheld' = withheld /\ published' = published
    BY <1>1 DEF ReadAndUpdate, ReadState
  <2> SUFFICES ASSUME ~withheld PROVE Follows(command', command)
    BY <2>1
  <2>2. command.target \in Int
    BY <1>0 DEF Commands
  <2>3. CASE command' = command
    BY <2>2, <2>3
  <2>4. CASE ~OfRamp(command')
    BY <2>4
  <2>5. CASE /\ mode = "STAND" /\ command'.pose = initPose
             /\ command'.target = RampSteps - standStep
             /\ standStep < RampSteps => command'.by = "ramp"
    <3>1. CASE standStep = 0
      BY <2>5, <3>1, RampStepsAssumption DEF RampStepsAssumption
    <3>2. CASE standStep > 0
      BY <1>0, <2>2, <2>5, <3>2, RampStepsAssumption DEF RampInv, RampStepsAssumption
    <3> QED BY <1>0, <3>1, <3>2
  <2> QED BY <1>1, <2>3, <2>4, <2>5, CommandStep
<1>2. CASE Gate
  BY <1>2 DEF Gate, WriteChecks, controller
<1>3. CASE Publish
  BY <1>3 DEF Publish, WritePublishes, controller
<1>4. CASE (Sdk \/ Main) /\ UNCHANGED <<controller, command, output>>
  BY <1>4, OthersStep DEF controller, output
<1>5. ASSUME NEW m \in {"IDLE", "WALK"}, ModeMessage(m) PROVE OutputInv'
  BY <1>5 DEF ModeMessage, output, vars
<1>6. ASSUME NEW s \in {"start", "stop"}, SwitchMessage(s) PROVE OutputInv'
  BY <1>6 DEF SwitchMessage, output, vars
<1>7. CASE UNCHANGED cycleVars
  BY <1>7 DEF cycleVars, controller, output, vars
<1> QED
  BY <1>1, <1>2, <1>3, <1>4, <1>5, <1>6, <1>7 DEF CycleNext, CycleLoop

----------------------------------------------------------------------------
LEMMA CycleInitInv == CycleInit => CycleInv
<1> SUFFICES ASSUME CycleInit PROVE CycleInv OBVIOUS
<1> USE DEF CycleInit, NoCommand, SetCommand
<1>1. IInv
  BY InitStep, MaxMsgsAssumption, MaxTicksAssumption
<1>2. CycleTypeOK
  <2>1. TypeOK
    BY <1>1 DEF IInv
  <2>2. Constructed \in States /\ 0 \in -ActionRange .. ActionRange + RampSteps
    BY MaxMsgsAssumption, RampStepsAssumption, ActionRangeAssumption
    DEF States, Constructed, MaxMsgsAssumption, RampStepsAssumption,
        ActionRangeAssumption
  <2>3. NoCommand \in Commands /\ 0 \in 0 .. RampSteps
    BY <2>2, RampStepsAssumption DEF Commands, RampStepsAssumption
  <2> QED BY <2>1, <2>2, <2>3 DEF CycleTypeOK
<1>3. PoseInv /\ RampInv
  BY DEF PoseInv, RampInv, Init, Constructed
<1>4. OutputInv
  BY DEF OutputInv, Init
<1> QED BY <1>1, <1>2, <1>3, <1>4 DEF CycleInv

LEMMA CycleInvStep ==
  ASSUME CycleInv, [CycleNext]_cycleVars
  PROVE  CycleInv' /\ command'.pose >= command.pose
<1>1. IInv'
  BY InvStep, RobotIOStep DEF CycleInv
<1>2. joint \in States /\ joint' \in States
  BY <1>1 DEF CycleInv, IInv, TypeOK, States
<1>3. joint' >= joint
  BY <1>2, ReadStep, RobotIOStep DEF CycleInv, vars, States
<1>4. CycleTypeOK'
  BY <1>1, CycleTypeStep DEF CycleInv, IInv
<1>5. PoseInv' /\ command'.pose >= command.pose
  BY <1>2, <1>3, PoseStep DEF CycleInv
<1>6. RampInv'
  BY <1>2, <1>3, RampStep DEF CycleInv
<1>7. OutputInv'
  BY <1>2, <1>3, OutputStep DEF CycleInv
<1> QED BY <1>1, <1>4, <1>5, <1>6, <1>7 DEF CycleInv

THEOREM CycleInvariance == CycleSpec => []CycleInv
<1>1. CycleInv /\ [CycleNext]_cycleVars => CycleInv'
  BY CycleInvStep
<1> QED BY <1>1, CycleInitInv, PTL DEF CycleSpec

\* The whole cycle is RobotIO with a controller in it: what is proved of RobotIO
\* holds of the cycle.
THEOREM CycleImplementsRobotIO == CycleSpec => Spec
<1>1. CycleInit => Init
  BY DEF CycleInit
<1>2. [CycleNext]_cycleVars => [Next]_vars
  BY RobotIOStep
<1> QED BY <1>1, <1>2, PTL DEF CycleSpec, Spec

\* The variables keep their types, whatever the lengths and ranges.
THEOREM CycleTypeCorrect == CycleSpec => []CycleTypeOK
  BY CycleInvariance, PTL DEF CycleInv

\* The poses behind the commands never go back to an earlier one.
THEOREM CommandsAdvance == CycleSpec => PosesAdvance
<1>1. CycleInv /\ [CycleNext]_cycleVars => [command'.pose >= command.pose]_cycleVars
  BY CycleInvStep
<1> QED BY <1>1, CycleInvariance, PTL DEF CycleSpec, PosesAdvance

\* A stand ramp reaches the robot without a jump, unless a command was held back.
THEOREM RampIsSmooth == CycleSpec => []RampWithoutJump
<1>1. CycleInv => RampWithoutJump
  BY DEF CycleInv, OutputInv, Follows, OfRamp, RampWithoutJump
<1> QED BY <1>1, CycleInvariance, PTL

\* So the cycle never acts on the zeros of init() after a confirmed handshake,
\* lets one late command out at most, and reads states in their order.
THEOREM CycleReadsInOrder ==
  CycleSpec => [](ReadsConfirmedState /\ CommandsHeldBack) /\ ReadsAdvance
BY CycleImplementsRobotIO, ConfirmedStateIsRead, OneLateCommand, ReadsOnlyAdvance, PTL
=============================================================================
