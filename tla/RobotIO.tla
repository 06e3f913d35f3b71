------------------------------ MODULE RobotIO ------------------------------
(***************************************************************************)
(* The robot's side of tron2_hw: the callbacks of the SDK's thread, the    *)
(* handshake in main, and Tron2HW::read and write in the loop thread.      *)
(*                                                                         *)
(* The state of the robot travels through a RealtimeBuffer of two slots:   *)
(* the writer locks it; the reader swaps the slots when it gets the lock   *)
(* and finds new data, and otherwise keeps the slot it has.  A robot state *)
(* is numbered: 0 is the slot as constructed, whose vectors have no        *)
(* element; 1 is the state of zeros init() writes; from 2 on come the      *)
(* messages of the SDK.                                                    *)
(***************************************************************************)
EXTENDS Naturals

CONSTANTS
  MaxMsgs,    \* bound on the SDK's RobotState messages
  MaxTicks    \* maxTicks: how often the handshake sleeps, at most

ASSUME MaxMsgsAssumption  == MaxMsgs \in Nat
ASSUME MaxTicksAssumption == MaxTicks \in Nat

VARIABLES
  simMode,     \* robot_ip is 127.0.0.1
  realtime,    \* the buffer's slot of the reader
  other,       \* the buffer's slot of the writer
  available,   \* the writer's slot is newer
  locked,      \* the writer holds the lock
  sdkPc,       \* where the SDK's callback is
  received,    \* messages received so far
  firstState,  \* firstStateReceived_
  mainPc,      \* main: in the handshake, at the test after it, done
  waited,      \* sleeps of the handshake
  confirmed,   \* main logged that the handshake is confirmed
  loopPc,      \* where the loop thread is
  joint,       \* the state jointData_ was filled from
  calibration, \* is calibrationState_ zero?
  reported,    \* the robot's last calibration report
  late         \* commands published since the robot reports non-zero

buffer == <<realtime, other, available, locked>>
sdk    == <<sdkPc, received, firstState>>
main   == <<mainPc, waited, confirmed>>
gate   == <<calibration, reported, late>>
vars   == <<simMode, buffer, sdk, main, loopPc, joint, gate>>

Constructed == 0
Blank == 1
States == 0 .. MaxMsgs + 1
Reports == {"zero", "nonzero"}

TypeOK ==
  /\ simMode \in BOOLEAN
  /\ realtime \in States
  /\ other \in States
  /\ available \in BOOLEAN
  /\ locked \in BOOLEAN
  /\ sdkPc \in {"idle", "storing", "flag"}
  /\ received \in 0 .. MaxMsgs
  /\ firstState \in BOOLEAN
  /\ mainPc \in {"handshake", "test", "loop"}
  /\ waited \in 0 .. MaxTicks
  /\ confirmed \in BOOLEAN
  /\ loopPc \in {"read", "write", "publish"}
  /\ joint \in States
  /\ calibration \in Reports
  /\ reported \in Reports \cup {"none"}
  /\ late \in Nat

\* As Tron2HW::init leaves it.
Init ==
  /\ simMode \in BOOLEAN
  /\ realtime = Constructed
  /\ other = Blank
  /\ available = TRUE
  /\ locked = FALSE
  /\ sdkPc = "idle"
  /\ received = 0
  /\ firstState = FALSE
  /\ mainPc = "handshake"
  /\ waited = 0
  /\ confirmed = FALSE
  /\ loopPc = "read"
  /\ joint = Constructed
  /\ calibration = "zero"
  /\ reported = "none"
  /\ late = 0

----------------------------------------------------------------------------
(* The SDK's thread.                                                       *)

\* MUTANT of StateArrives: the flag is raised before the state is stored.
StateArrivesLate ==
  /\ sdkPc = "idle"
  /\ received < MaxMsgs
  /\ received' = received + 1
  /\ firstState' = TRUE
  /\ sdkPc' = "storing"
  /\ UNCHANGED <<simMode, buffer, main, loopPc, joint, gate>>

\* A RobotState message: writeFromNonRT takes the lock...
StateArrives ==
  /\ sdkPc = "idle"
  /\ received < MaxMsgs
  /\ received' = received + 1
  /\ locked' = TRUE
  /\ sdkPc' = "storing"
  /\ UNCHANGED <<simMode, realtime, other, available, firstState, main,
                 loopPc, joint, gate>>

\* ... copies the message and releases it.
StateStored ==
  /\ sdkPc = "storing"
  /\ other' = received + 1
  /\ available' = TRUE
  /\ locked' = FALSE
  /\ sdkPc' = "flag"
  /\ UNCHANGED <<simMode, realtime, received, firstState, main, loopPc,
                 joint, gate>>

FirstStateSet ==
  /\ sdkPc = "flag"
  /\ firstState' = TRUE
  /\ sdkPc' = "idle"
  /\ UNCHANGED <<simMode, buffer, received, main, loopPc, joint, gate>>

\* MUTANT of CalibrationReport: a report of zero is not taken over.
CalibrationReportSticky(code) ==
  /\ calibration' = IF code = "zero" THEN calibration ELSE code
  /\ reported' = code
  /\ late' = IF code = "zero" THEN 0 ELSE late
  /\ UNCHANGED <<simMode, buffer, sdk, main, loopPc, joint>>

CalibrationReport(code) ==
  /\ calibration' = code
  /\ reported' = code
  /\ late' = IF code = "zero" THEN 0 ELSE late
  /\ UNCHANGED <<simMode, buffer, sdk, main, loopPc, joint>>

----------------------------------------------------------------------------
(* main.                                                                   *)

HandshakeTicks ==
  /\ mainPc = "handshake"
  /\ simMode
  /\ ~firstState
  /\ waited < MaxTicks
  /\ waited' = waited + 1
  /\ UNCHANGED <<simMode, buffer, sdk, mainPc, confirmed, loopPc, joint, gate>>

\* The wait ends; on the robot there is none, and no test after it.
HandshakeOver ==
  /\ mainPc = "handshake"
  /\ simMode => firstState \/ waited = MaxTicks
  /\ mainPc' = IF simMode THEN "test" ELSE "loop"
  /\ UNCHANGED <<simMode, buffer, sdk, waited, confirmed, loopPc, joint, gate>>

\* Confirmed or timed out, the control loop is started.
StartLoop ==
  /\ mainPc = "test"
  /\ confirmed' = firstState
  /\ mainPc' = "loop"
  /\ UNCHANGED <<simMode, buffer, sdk, waited, loopPc, joint, gate>>

----------------------------------------------------------------------------
(* The loop thread; the controllers run between read and write.            *)

\* MUTANT of ReadState: the slots are swapped whether or not there is news.
ReadStateSwaps ==
  /\ mainPc = "loop"
  /\ loopPc = "read"
  /\ IF locked
     THEN joint' = realtime /\ UNCHANGED <<realtime, other, available>>
     ELSE /\ realtime' = other
          /\ other' = realtime
          /\ available' = FALSE
          /\ joint' = other
  /\ loopPc' = "write"
  /\ UNCHANGED <<simMode, locked, sdk, main, gate>>

\* readFromRT does not wait for the lock.
ReadState ==
  /\ mainPc = "loop"
  /\ loopPc = "read"
  /\ IF locked \/ ~available
     THEN joint' = realtime /\ UNCHANGED <<realtime, other, available>>
     ELSE /\ realtime' = other
          /\ other' = realtime
          /\ available' = FALSE
          /\ joint' = other
  /\ loopPc' = "write"
  /\ UNCHANGED <<simMode, locked, sdk, main, gate>>

\* MUTANT of WriteChecks: the calibration state is not tested.
WriteChecksNothing ==
  /\ loopPc = "write"
  /\ loopPc' = "publish"
  /\ UNCHANGED <<simMode, buffer, sdk, main, joint, gate>>

\* The command is filled; it goes out if the calibration state is zero...
WriteChecks ==
  /\ loopPc = "write"
  /\ loopPc' = IF calibration = "zero" THEN "publish" ELSE "read"
  /\ UNCHANGED <<simMode, buffer, sdk, main, joint, gate>>

\* ... when it was tested.
WritePublishes ==
  /\ loopPc = "publish"
  /\ late' = IF reported = "nonzero" THEN late + 1 ELSE late
  /\ loopPc' = "read"
  /\ UNCHANGED <<simMode, buffer, sdk, main, joint, calibration, reported>>

Main == HandshakeTicks \/ HandshakeOver \/ StartLoop
Loop == ReadState \/ WriteChecks \/ WritePublishes
Sdk  == \/ StateArrives
        \/ StateStored
        \/ FirstStateSet
        \/ \E code \in Reports : CalibrationReport(code)

Next == Sdk \/ Main \/ Loop

Spec == Init /\ [][Next]_vars

----------------------------------------------------------------------------
(* Safety.                                                                 *)

\* When main has logged a confirmed handshake, the loop never works with the
\* zeros init() put into the buffer: as soon as a read gets the lock, it gets a
\* state of the robot.  (Until then it has the slot as constructed.)
ReadsConfirmedState == confirmed => joint # Blank

\* What read() returns never goes back to an earlier state, although the slots
\* are swapped and a read may miss the lock.
ReadsAdvance == [][joint' >= joint]_vars

\* README: joint commands are held back while the robot reports a non-zero
\* calibration.  The test and the publication are two steps, so the command
\* under way when the report arrives still goes out, but no other.
CommandsHeldBack == late <= 1
============================================================================
