------------------------- MODULE ControllerSession -------------------------
(***************************************************************************)
(* What a user of the locomotion controller is promised: the command of a  *)
(* control cycle is one that the modes in force during that cycle justify. *)
(*                                                                         *)
(* A mode request may arrive at any moment, also in the middle of a cycle; *)
(* the cycle may then follow the old mode or the new one.  The promise has *)
(* one wart, kept here because the controller has it: a cycle during which *)
(* STAND is left for IDLE may send the policy's command (see Justified).   *)
(***************************************************************************)
EXTENDS Naturals

CONSTANT StandSteps   \* commands of the stand ramp

VARIABLES
  on,        \* the controller has been started, and not stopped since
  mode,      \* the mode in force
  seen,      \* the modes in force since the cycle under way began
  busy,      \* a cycle is under way
  progress,  \* commands of the ramp given since the start
  cmd        \* the command the joints hold

sessionVars == <<on, mode, seen, busy, progress, cmd>>

Init ==
  /\ on = FALSE
  /\ mode = "IDLE"
  /\ seen = {}
  /\ busy = FALSE
  /\ progress = 0
  /\ cmd = "none"

\* The commands a cycle may give when these modes were in force during it.
Justified(c, modes) ==
  \/ c = "damp" /\ "IDLE" \in modes
  \/ c \in {"ramp", "hold"} /\ "STAND" \in modes
  \/ c = "policy" /\ ("WALK" \in modes \/ {"STAND", "IDLE"} \subseteq modes)

Request(m) ==
  /\ mode # m
  /\ mode' = m
  /\ seen' = IF busy THEN seen \cup {m} ELSE seen
  /\ UNCHANGED <<on, busy, progress, cmd>>

Begin ==
  /\ on
  /\ ~busy
  /\ busy' = TRUE
  /\ seen' = {mode}
  /\ UNCHANGED <<on, mode, progress, cmd>>

\* The ramp is given StandSteps times in all, however often STAND is
\* interrupted, and the default pose only after it.
Command(c) ==
  /\ busy
  /\ Justified(c, seen)
  /\ c = "ramp" => progress < StandSteps
  /\ c = "hold" => progress = StandSteps
  /\ progress' = IF c = "ramp" THEN progress + 1 ELSE progress
  /\ cmd' = c
  /\ busy' = FALSE
  /\ seen' = {}
  /\ UNCHANGED <<on, mode>>

\* A start, or a restart, between two cycles: the ramp begins anew.
Start ==
  /\ ~busy
  /\ on' = TRUE
  /\ mode' = "STAND"
  /\ progress' = 0
  /\ UNCHANGED <<seen, busy, cmd>>

\* A stop leaves the command as it is.
Stop ==
  /\ on
  /\ ~busy
  /\ on' = FALSE
  /\ UNCHANGED <<mode, seen, busy, progress, cmd>>

SomeCommand == \E c \in {"damp", "ramp", "hold", "policy"} : Command(c)

Next ==
  \/ \E m \in {"WALK", "IDLE"} : Request(m)
  \/ Begin
  \/ SomeCommand
  \/ Start
  \/ Stop

SafeSpec == Init /\ [][Next]_sessionVars

\* A cycle that has begun comes to its command.
CyclesEnd == WF_sessionVars(SomeCommand)

FairSpec == SafeSpec /\ CyclesEnd
============================================================================
