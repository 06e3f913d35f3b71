-------------------------- MODULE ControllerCalls --------------------------
(***************************************************************************)
(* What the node's services promise to those who call them, as if every    *)
(* call were handled on its own: it takes effect once, at a moment between *)
(* question and answer, and the answer says what that moment was like.     *)
(*                                                                         *)
(* Promised to the callers of list_controllers, load_controller,           *)
(* switch_controller and start_controller; HwNode shows how the threads of *)
(* tron2_hw_node keep it.  Only a shutdown may break a call off.           *)
(***************************************************************************)

CONSTANTS
  Callers,
  Once      \* the callers that ask for a start once and never again

VARIABLES
  call,     \* a caller's call: what it asked, that it is done, the answer
  late,     \* a switch whose call was broken off and that may still happen
  mayStart, \* the callers that may ask for a start
  avail,    \* the services there are
  ctl,      \* the controller: unloaded, loaded or running
  mode,     \* the mode of the controller
  down      \* the node has been shut down

callsVars == <<call, late, mayStart, avail, ctl, mode, down>>

Operations == {"list", "load", "start", "stop", "startService"}
Answers == {"running", "idle", "ok", "failed"}

Init ==
  /\ call = [c \in Callers |-> "none"]
  /\ late = "none"
  /\ mayStart = Callers
  /\ avail = {}
  /\ ctl = "unloaded"
  /\ mode = "IDLE"
  /\ down = FALSE

Becomes(c, stage) == call' = [call EXCEPT ![c] = stage]

----------------------------------------------------------------------------
\* c calls op, reading the answer to its last call if there was one.
Ask(c, op) ==
  /\ call[c] \in {"none"} \cup Answers
  /\ op = "start" => c \in mayStart
  /\ Becomes(c, IF op \in avail THEN op ELSE "failed")
  /\ mayStart' = IF op = "start" THEN mayStart \ (Once \cap {c}) ELSE mayStart
  /\ UNCHANGED <<late, avail, ctl, mode, down>>

\* c reads its answer, and may have asked for its last start.
Read(c) ==
  /\ call[c] \in Answers
  /\ Becomes(c, "none")
  /\ mayStart' \in {mayStart, mayStart \ (Once \cap {c})}
  /\ UNCHANGED <<late, avail, ctl, mode, down>>

List(c) ==
  /\ call[c] = "list"
  /\ Becomes(c, IF ctl = "running" THEN "running" ELSE "idle")
  /\ UNCHANGED <<late, mayStart, avail, ctl, mode, down>>

\* A load may be refused, and then changes nothing.
Load(c) ==
  /\ call[c] = "load"
  /\ \/ /\ ctl = "unloaded"
        /\ ctl' = "loaded"
        /\ Becomes(c, "ok")
     \/ /\ UNCHANGED ctl
        /\ Becomes(c, "failed")
  /\ UNCHANGED <<late, mayStart, avail, mode, down>>

\* What a switch does to the controller.  A start passes over one that is not
\* loaded, and may pass over one that runs.
Switch(op) ==
  \/ /\ op = "start" /\ ctl # "unloaded"
     /\ ctl' = "running"
     /\ mode' = "STAND"
  \/ /\ op = "start" /\ ctl # "loaded"
     /\ UNCHANGED <<ctl, mode>>
  \/ /\ op = "stop"
     /\ ctl' = IF ctl = "running" THEN "loaded" ELSE ctl
     /\ UNCHANGED mode

\* The switch c asked for happens, and c is answered only then.
Perform(c) ==
  /\ Switch(call[c])
  /\ Becomes(c, "done")
  /\ UNCHANGED <<late, mayStart, avail, down>>

Confirm(c) ==
  /\ call[c] = "done"
  /\ Becomes(c, "ok")
  /\ UNCHANGED <<late, mayStart, avail, ctl, mode, down>>

\* A shutdown breaks off calls; of the switches among them one may come late.
Refuse(c) ==
  /\ down
  /\ call[c] \in Operations \cup {"done"}
  /\ Becomes(c, "failed")
  /\ late' \in {late} \cup (IF late = "none" THEN {call[c]} \cap {"start", "stop"}
                            ELSE {})
  /\ UNCHANGED <<mayStart, avail, ctl, mode, down>>

PerformLate ==
  /\ Switch(late)
  /\ late' = "none"
  /\ UNCHANGED <<call, mayStart, avail, down>>

\* A mode message is handled by the controller, which is loaded then.
Message(m) ==
  /\ ctl # "unloaded"
  /\ mode' = m
  /\ UNCHANGED <<call, late, mayStart, avail, ctl, down>>

Advertise ==
  /\ ~down
  /\ avail \subseteq avail' /\ avail' \subseteq Operations
  /\ UNCHANGED <<call, late, mayStart, ctl, mode, down>>

Shutdown ==
  /\ down' = TRUE
  /\ avail' = {}
  /\ UNCHANGED <<call, late, mayStart, ctl, mode>>

Next ==
  \/ \E c \in Callers :
       \/ \E op \in Operations : Ask(c, op)
       \/ Read(c) \/ List(c) \/ Load(c) \/ Perform(c) \/ Confirm(c) \/ Refuse(c)
  \/ PerformLate
  \/ \E m \in {"IDLE", "WALK"} : Message(m)
  \/ Advertise
  \/ Shutdown

Spec == Init /\ [][Next]_callsVars
============================================================================
