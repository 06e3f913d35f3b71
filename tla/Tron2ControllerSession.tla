----------------------- MODULE Tron2ControllerSession -----------------------
(***************************************************************************)
(* Tron2Controller implements ControllerSession.                           *)
(*                                                                         *)
(* The abstract cycle is ControllerBase::update, from its first read of    *)
(* mode_ to the command.  Which modes were in force meanwhile is not in    *)
(* the state of the controller: the history variable inForce records it.   *)
(***************************************************************************)
EXTENDS Tron2Controller

VARIABLE inForce   \* the modes in force since update() was entered

sessionVars == <<vars, inForce>>

\* Inside ControllerBase::update.
CyclePcs == {"checkIdle", "checkStand", "apply"} \cup CountPcs \cup TickPcs
InCycle == loopPc \in CyclePcs

\* Past the tests of mode_, on the way to applyActions().
PolicyPcs == {"apply"} \cup CountPcs \cup TickPcs

RecordModes ==
  inForce' = IF loopPc' \notin CyclePcs THEN {}
             ELSE (IF InCycle THEN inForce ELSE {}) \cup {mode'}

SessionInit == Init /\ inForce = {}

SessionNext == Next /\ RecordModes

SessionSpec == SessionInit /\ [][SessionNext]_sessionVars

FairSessionSpec ==
  SessionSpec /\ WF_sessionVars(Loop /\ RecordModes)
              /\ WF_sessionVars(SpinContinue /\ RecordModes)

\* A start counts from the moment starting() assigns mode_.
SessionOn == ctl = "running" \/ loopPc \in {"starting2", "starting3", "started"}

Session == INSTANCE ControllerSession WITH
  on <- SessionOn,
  seen <- inForce,
  busy <- InCycle,
  progress <- standPercent

\* Every behaviour of the two threads is one the session allows: each cycle
\* gives exactly one command, justified by a mode in force during that very
\* cycle, however many messages, restarts and stops interleave with the
\* accesses of update().
ImplementsSession == Session!SafeSpec

\* A cycle that has begun comes to its command: no loop of update() is caught
\* by the callback that resets what it works on.
EveryCycleEnds == Session!CyclesEnd

\* How many steps the loop thread needs at most to the end of its cycle: two for
\* each row that is still to be shifted, and one for each of the other stages.
StepsOf(pc, row) ==
  CASE pc = "checkIdle"  -> 9 + 2 * HistLen
    [] pc = "checkStand" -> 8 + 2 * HistLen
    [] pc = "countLoad"  -> 7 + 2 * HistLen
    [] pc = "countStore" -> 6 + 2 * HistLen
    [] pc = "test"       -> 5 + 2 * HistLen
    [] pc = "observe"    -> 4 + 2 * HistLen
    [] pc \in {"fill", "shiftLoad"} -> 5 + 2 * (HistLen - row)
    [] pc = "shiftStore" -> 4 + 2 * (HistLen - row)
    [] pc = "encode"     -> 4
    [] pc = "infer"      -> 3
    [] pc = "record"     -> 2
    [] pc = "apply"      -> 1
    [] OTHER             -> 0

StepsLeft == StepsOf(loopPc, loopRow)

\* update() has a bounded number of steps whatever the callbacks do: each step of
\* the loop thread brings the cycle nearer to its command, and nothing the
\* spinner resets under it (isFirstObs_, loopCount_, the history, mode_) makes it
\* begin any part again.
CyclesAdvance ==
  [][InCycle => IF Loop THEN StepsLeft' < StepsLeft ELSE StepsLeft' = StepsLeft]_vars
============================================================================
