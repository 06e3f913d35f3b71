------------------------------- MODULE HwNode -------------------------------
(***************************************************************************)
(* The threads of tron2_hw_node and the service calls between them.        *)
(*                                                                         *)
(* Every service of the node (those of the controller manager and          *)
(* start_controller) and every topic callback runs in main, one at a time, *)
(* inside ros::spin().  A caller - the detached start thread, the SDK's    *)
(* joystick thread, the spawner, an operator, or main itself inside the    *)
(* start_controller handler - blocks until its request is answered or the  *)
(* node shuts down.  Switches are performed by the loop thread.            *)
(***************************************************************************)
EXTENDS Naturals, Sequences, SequencesExt

CONSTANTS
  Shortcuts,    \* what of L1+X and L1+Y may be held: sets of "X" and "Y"
  MaxPresses,   \* joystick messages with a shortcut held, at most
  MaxRequests   \* calls and messages of the operator, at most

ASSUME ShortcutsAssumption == Shortcuts \subseteq (SUBSET {"X", "Y"}) \ {{}}
ASSUME BoundsAssumption == MaxPresses \in Nat /\ MaxRequests \in Nat

Callers == {"starter", "joy", "spawner", "operator", "main"}

VARIABLES
  mainPc,    \* main: bringing the node up, in spin(), in a handler, returned
  serving,   \* whose request the handler under way answers
  queue,     \* requests in the node's callback queue
  reply,     \* the answer a caller has not read yet
  pc,        \* where each caller is
  buttons,   \* the shortcut the joystick callback was called with
  doSwitch,  \* the switch the loop thread is asked to perform
  ctl,       \* the controller as the controller manager sees it
  mode,      \* mode_ of the controller
  modeMsg,   \* the message waiting in the subscription, whose depth is one
  started,   \* what startController() returned last
  wasRunning,\* the controller has been running
  down,      \* ros::shutdown() was called
  presses, requests

mainVars == <<mainPc, serving>>
callVars == <<queue, reply>>
ctlVars  == <<doSwitch, ctl, mode, modeMsg, wasRunning>>
budget   == <<presses, requests>>
vars == <<mainVars, callVars, pc, buttons, ctlVars, started, down, budget>>

Operations == {"list", "load", "start", "stop", "startService"}
Requests == [from : Callers, op : Operations]
Replies == {"none", "running", "idle", "ok", "failed"}
Waits == {"listed", "switched", "askedY", "askedX", "loading", "starting",
          "serviceWait"}
Pcs == Waits \cup {"idle", "sleep", "startController", "askX", "done"}

TypeOK ==
  /\ mainPc \in {"init", "handshake", "built", "spin", "switching", "handler",
                  "exit"}
  /\ serving \in Callers
  /\ queue \in Seq(Requests)
  /\ reply \in [Callers -> Replies]
  /\ pc \in [Callers -> Pcs]
  /\ buttons \subseteq {"X", "Y"}
  /\ doSwitch \in {"none", "start", "stop"}
  /\ ctl \in {"unloaded", "loaded", "running"}
  /\ mode \in {"IDLE", "STAND", "WALK"}
  /\ modeMsg \in {"none", "IDLE", "WALK"}
  /\ started \in [{"starter", "main"} -> BOOLEAN]
  /\ wasRunning \in BOOLEAN
  /\ down \in BOOLEAN
  /\ presses \in 0 .. MaxPresses
  /\ requests \in 0 .. MaxRequests

Init ==
  /\ mainPc = "init"
  /\ serving = "main"
  /\ queue = <<>>
  /\ reply = [c \in Callers |-> "none"]
  /\ pc = [c \in Callers |-> IF c \in {"starter", "spawner"} THEN "sleep"
                             ELSE "idle"]
  /\ buttons = {}
  /\ doSwitch = "none"
  /\ ctl = "unloaded"
  /\ mode = "IDLE"
  /\ modeMsg = "none"
  /\ started = [c \in {"starter", "main"} |-> FALSE]
  /\ wasRunning = FALSE
  /\ down = FALSE
  /\ presses = 0
  /\ requests = 0

----------------------------------------------------------------------------
(* Calls.                                                                  *)

\* start_controller exists from setupServices() on, the services of the
\* controller manager once RobotHWLoop is constructed.
Advertised(op) ==
  /\ ~down
  /\ mainPc \notin {"init", "exit"}
  /\ mainPc = "handshake" => op = "startService"

Goto(c, where) == pc' = [pc EXCEPT ![c] = where]

\* c calls op and waits at `where'.  Without the service the call fails.
Call(c, op, where) ==
  /\ Goto(c, where)
  /\ IF Advertised(op)
     THEN /\ queue' = Append(queue, [from |-> c, op |-> op])
          /\ reply' = [reply EXCEPT ![c] = "none"]
     ELSE /\ reply' = [reply EXCEPT ![c] = "failed"]
          /\ UNCHANGED queue

\* c has its answer and goes on without another call.
Return(c, where) ==
  /\ Goto(c, where)
  /\ reply' = [reply EXCEPT ![c] = "none"]
  /\ UNCHANGED queue

Waiting(c) == pc[c] \in Waits /\ reply[c] = "none"

Answered(c, where) == pc[c] = where /\ reply[c] # "none"

Queued(c) == {i \in DOMAIN queue : queue[i].from = c}

\* Shutdown drops the connections of the calls still unanswered.
CallCancelled(c) ==
  /\ down
  /\ Waiting(c)
  /\ reply' = [reply EXCEPT ![c] = "failed"]
  /\ \/ Queued(c) = {} /\ UNCHANGED queue
     \/ \E i \in Queued(c) : queue' = RemoveAt(queue, i)
  /\ UNCHANGED <<mainVars, pc, buttons, ctlVars, started, down, budget>>

----------------------------------------------------------------------------
(* Tron2HW::startController, called by c.                                  *)

AfterStart(c) == IF c = "joy" THEN "askX" ELSE "done"

\* The joystick callback drops what startController returns.
Returned(c, ok) ==
  started' = IF c = "joy" THEN started ELSE [started EXCEPT ![c] = ok]

StartController(c) ==
  /\ pc[c] = "startController"
  /\ Call(c, "list", "listed")
  /\ UNCHANGED <<mainVars, buttons, ctlVars, started, down, budget>>

\* MUTANT of StartListed: a failed call is repeated, also after a shutdown.
StartListedRetries(c) ==
  /\ Answered(c, "listed")
  /\ \/ /\ reply[c] = "idle"
        /\ Call(c, "start", "switched")
        /\ UNCHANGED started
     \/ /\ reply[c] = "running"
        /\ Return(c, AfterStart(c))
        /\ Returned(c, TRUE)
     \/ /\ reply[c] = "failed"
        /\ Return(c, "startController")
        /\ UNCHANGED started
  /\ UNCHANGED <<mainVars, buttons, ctlVars, down, budget>>

StartListed(c) ==
  /\ Answered(c, "listed")
  /\ \/ /\ reply[c] = "idle"
        /\ Call(c, "start", "switched")
        /\ UNCHANGED started
     \/ /\ reply[c] # "idle"
        /\ Return(c, AfterStart(c))
        /\ Returned(c, reply[c] = "running")
  /\ UNCHANGED <<mainVars, buttons, ctlVars, down, budget>>

\* MUTANT of StartSwitched: the answer is not waited for.
StartSwitchedAsync(c) ==
  /\ pc[c] = "switched"
  /\ Return(c, AfterStart(c))
  /\ Returned(c, TRUE)
  /\ UNCHANGED <<mainVars, buttons, ctlVars, down, budget>>

StartSwitched(c) ==
  /\ Answered(c, "switched")
  /\ Return(c, AfterStart(c))
  /\ Returned(c, reply[c] = "ok")
  /\ UNCHANGED <<mainVars, buttons, ctlVars, down, budget>>

----------------------------------------------------------------------------
(* The joystick callback of the SDK thread, for a message with L1 held.    *)

Publish(m) == modeMsg' = IF ctl = "unloaded" THEN modeMsg ELSE m

JoyPress(held) ==
  /\ pc["joy"] = "idle"
  /\ mainPc # "exit"
  /\ presses < MaxPresses
  /\ presses' = presses + 1
  /\ buttons' = held
  /\ IF "Y" \in held
     THEN Call("joy", "list", "askedY")
     ELSE Goto("joy", "askX") /\ UNCHANGED callVars
  /\ UNCHANGED <<mainVars, ctlVars, started, down, requests>>

\* L1+Y: WALK for a running controller, a start otherwise.
JoyAskedY ==
  /\ Answered("joy", "askedY")
  /\ IF reply["joy"] = "running"
     THEN Return("joy", "askX") /\ Publish("WALK")
     ELSE Return("joy", "startController") /\ UNCHANGED modeMsg
  /\ UNCHANGED <<mainVars, buttons, doSwitch, ctl, mode, wasRunning, started,
                 down, budget>>

JoyAskX ==
  /\ pc["joy"] = "askX"
  /\ IF "X" \in buttons
     THEN Call("joy", "list", "askedX")
     ELSE Goto("joy", "idle") /\ UNCHANGED callVars
  /\ buttons' = buttons \ {"Y"}
  /\ UNCHANGED <<mainVars, ctlVars, started, down, budget>>

\* L1+X: IDLE for a running controller.
JoyAskedX ==
  /\ Answered("joy", "askedX")
  /\ Return("joy", "idle")
  /\ IF reply["joy"] = "running" THEN Publish("IDLE") ELSE UNCHANGED modeMsg
  /\ buttons' = {}
  /\ UNCHANGED <<mainVars, doSwitch, ctl, mode, wasRunning, started,
                 down, budget>>

----------------------------------------------------------------------------
(* The detached thread, the spawner and the operator.                      *)

StarterWakes ==
  /\ pc["starter"] = "sleep"
  /\ mainPc \notin {"init", "handshake"}
  /\ Goto("starter", "startController")
  /\ UNCHANGED <<mainVars, callVars, buttons, ctlVars, started, down, budget>>

SpawnerLoads ==
  /\ pc["spawner"] = "sleep"
  /\ Advertised("load")
  /\ Call("spawner", "load", "loading")
  /\ UNCHANGED <<mainVars, buttons, ctlVars, started, down, budget>>

\* MUTANT of SpawnerStarts: the spawner only loads (its option --stopped).
SpawnerStartsNot ==
  /\ Answered("spawner", "loading")
  /\ Return("spawner", "done")
  /\ UNCHANGED <<mainVars, buttons, ctlVars, started, down, budget>>

SpawnerStarts ==
  /\ Answered("spawner", "loading")
  /\ IF reply["spawner"] = "ok"
     THEN Call("spawner", "start", "starting")
     ELSE Return("spawner", "done")
  /\ UNCHANGED <<mainVars, buttons, ctlVars, started, down, budget>>

SpawnerDone ==
  /\ Answered("spawner", "starting")
  /\ Return("spawner", "done")
  /\ UNCHANGED <<mainVars, buttons, ctlVars, started, down, budget>>

OperatorCalls(op) ==
  /\ pc["operator"] = "idle"
  /\ requests < MaxRequests
  /\ requests' = requests + 1
  /\ Call("operator", op, "serviceWait")
  /\ UNCHANGED <<mainVars, buttons, ctlVars, started, down, presses>>

OperatorDone ==
  /\ Answered("operator", "serviceWait")
  /\ Return("operator", "idle")
  /\ UNCHANGED <<mainVars, buttons, ctlVars, started, down, budget>>

\* rostopic pub, or the teleop node of the simulation.
OperatorMode(m) ==
  /\ ~down
  /\ requests < MaxRequests
  /\ requests' = requests + 1
  /\ Publish(m)
  /\ UNCHANGED <<mainVars, callVars, pc, buttons, doSwitch, ctl, mode,
                 wasRunning, started, down, presses>>

----------------------------------------------------------------------------
(* main and the loop thread.                                               *)

\* Tron2HW::init comes to its end: setupServices().
SetupServices ==
  /\ mainPc = "init"
  /\ mainPc' = "handshake"
  /\ UNCHANGED <<serving, callVars, pc, buttons, ctlVars, started, down,
                 budget>>

\* Handshake over or timed out: RobotHWLoop is constructed and started.
BuildLoop ==
  /\ mainPc = "handshake"
  /\ mainPc' = "built"
  /\ UNCHANGED <<serving, callVars, pc, buttons, ctlVars, started, down,
                 budget>>

\* MUTANT of EnterSpin: the start thread is joined, not detached.
EnterSpinJoins ==
  /\ mainPc = "built"
  /\ pc["starter"] = "done"
  /\ mainPc' = "spin"
  /\ UNCHANGED <<serving, callVars, pc, buttons, ctlVars, started, down,
                 budget>>

EnterSpin ==
  /\ mainPc = "built"
  /\ mainPc' = "spin"
  /\ UNCHANGED <<serving, callVars, pc, buttons, ctlVars, started, down,
                 budget>>

\* MUTANT of Spinning: a spinner of several threads goes on while one waits.
SpinningThreads == mainPc \in {"spin", "switching", "handler"} /\ ~down

Spinning == mainPc = "spin" /\ ~down

\* The request main takes from the queue, and its answer, which is lost when
\* a shutdown has cancelled the call.
Head1 == Head(queue)
Taken(op) == Spinning /\ queue # <<>> /\ Head1.op = op /\ queue' = Tail(queue)
Answer(c, with) ==
  reply' = IF Waiting(c) THEN [reply EXCEPT ![c] = with] ELSE reply

ServeList ==
  /\ Taken("list")
  /\ Answer(Head1.from, IF ctl = "running" THEN "running" ELSE "idle")
  /\ UNCHANGED <<mainVars, pc, buttons, ctlVars, started, down, budget>>

\* ControllerBase::init may return false or throw, which the controller manager
\* catches; nor does it load a second controller of the same name.
ServeLoad ==
  /\ Taken("load")
  /\ \/ /\ ctl = "unloaded"
        /\ ctl' = "loaded"
        /\ Answer(Head1.from, "ok")
     \/ /\ UNCHANGED ctl
        /\ Answer(Head1.from, "failed")
  /\ UNCHANGED <<mainVars, pc, buttons, doSwitch, mode, modeMsg, wasRunning,
                 started, down, budget>>

\* switch_controller waits for the loop thread.
ServeSwitch ==
  /\ \E op \in {"start", "stop"} : Taken(op) /\ doSwitch' = op
  /\ mainPc' = "switching"
  /\ serving' = Head1.from
  /\ UNCHANGED <<reply, pc, buttons, ctl, mode, modeMsg, wasRunning, started,
                 down, budget>>

\* MUTANT of SwitchDone: a switch that takes long is answered without it.
SwitchDoneInTime ==
  /\ mainPc = "switching"
  /\ mainPc' = "spin"
  /\ serving' = "main"
  /\ Answer(serving, IF doSwitch = "none" THEN "ok" ELSE "failed")
  /\ UNCHANGED <<queue, pc, buttons, ctlVars, started, down, budget>>

\* ... or until the node is shut down, and then fails.
SwitchDone ==
  /\ mainPc = "switching"
  /\ doSwitch = "none" \/ down
  /\ mainPc' = "spin"
  /\ serving' = "main"
  /\ Answer(serving, IF doSwitch = "none" THEN "ok" ELSE "failed")
  /\ UNCHANGED <<queue, pc, buttons, ctlVars, started, down, budget>>

\* onStartController runs startController in the thread that would serve it.
ServeStartService ==
  /\ Taken("startService")
  /\ mainPc' = "handler"
  /\ serving' = Head1.from
  /\ Goto("main", "startController")
  /\ UNCHANGED <<reply, buttons, ctlVars, started, down, budget>>

StartServiceDone ==
  /\ mainPc = "handler"
  /\ pc["main"] = "done"
  /\ mainPc' = "spin"
  /\ Goto("main", "idle")
  /\ Answer(serving, IF started["main"] THEN "ok" ELSE "failed")
  /\ started' = [started EXCEPT !["main"] = FALSE]
  /\ serving' = "main"
  /\ UNCHANGED <<queue, buttons, ctlVars, down, budget>>

\* MUTANTS of ModeCallback: it runs without a message; the message is dropped.
ModeCallbackEmpty ==
  /\ Spinning
  /\ mode' = modeMsg
  /\ modeMsg' = "none"
  /\ UNCHANGED <<mainVars, callVars, pc, buttons, doSwitch, ctl, wasRunning,
                 started, down, budget>>

ModeCallbackDrops ==
  /\ Spinning
  /\ modeMsg # "none"
  /\ modeMsg' = "none"
  /\ UNCHANGED <<mainVars, callVars, pc, buttons, doSwitch, ctl, mode,
                 wasRunning, started, down, budget>>

ModeCallback ==
  /\ Spinning
  /\ modeMsg # "none"
  /\ mode' = modeMsg
  /\ modeMsg' = "none"
  /\ UNCHANGED <<mainVars, callVars, pc, buttons, doSwitch, ctl, wasRunning,
                 started, down, budget>>

\* spin() returns after a shutdown; main joins the loop thread and returns.
Exit ==
  /\ mainPc = "spin"
  /\ down
  /\ mainPc' = "exit"
  /\ UNCHANGED <<serving, callVars, pc, buttons, ctlVars, started, down,
                 budget>>

\* BEST_EFFORT: a controller that is not loaded is passed over; whether one
\* that runs is started again depends on the controller manager.
PerformSwitch ==
  /\ mainPc # "exit"
  /\ doSwitch # "none"
  /\ doSwitch' = "none"
  /\ \/ /\ doSwitch = "start" /\ ctl # "unloaded"
        /\ ctl' = "running"
        /\ mode' = "STAND"
        /\ wasRunning' = TRUE
     \/ /\ doSwitch = "start" /\ ctl # "loaded"
        /\ UNCHANGED <<ctl, mode, wasRunning>>
     \/ /\ doSwitch = "stop"
        /\ ctl' = IF ctl = "running" THEN "loaded" ELSE ctl
        /\ UNCHANGED <<mode, wasRunning>>
  /\ UNCHANGED <<mainVars, callVars, pc, buttons, modeMsg, started, down,
                 budget>>

Shutdown ==
  /\ ~down
  /\ down' = TRUE
  /\ UNCHANGED <<mainVars, callVars, pc, buttons, ctlVars, started, budget>>

----------------------------------------------------------------------------
\* One formula per thread.
StartSteps(c) == StartController(c) \/ StartListed(c) \/ StartSwitched(c)
StarterSteps == StarterWakes \/ StartSteps("starter")
JoySteps == JoyAskedY \/ JoyAskX \/ JoyAskedX \/ StartSteps("joy")
SpawnerSteps == SpawnerLoads \/ SpawnerStarts \/ SpawnerDone
MainSteps == SetupServices \/ BuildLoop \/ EnterSpin
             \/ ServeList \/ ServeLoad \/ ServeSwitch
             \/ SwitchDone \/ ServeStartService \/ StartServiceDone \/ Exit
             \/ StartSteps("main")
Environment ==
  \/ \E held \in Shortcuts : JoyPress(held)
  \/ \E op \in {"stop", "startService"} : OperatorCalls(op)
  \/ \E m \in {"WALK", "IDLE"} : OperatorMode(m)
  \/ Shutdown

Next == StarterSteps \/ JoySteps \/ SpawnerSteps \/ OperatorDone \/ MainSteps
        \/ ModeCallback \/ PerformSwitch \/ Environment
        \/ \E c \in Callers : CallCancelled(c)

Spec == Init /\ [][Next]_vars

\* Every thread goes on when it can, spin() runs what is in its queue, and a
\* shutdown cancels calls.  Neither messages nor the operator are promised.
FairSpec ==
  /\ Spec
  /\ WF_vars(StarterSteps)
  /\ WF_vars(JoySteps)
  /\ WF_vars(SpawnerSteps)
  /\ WF_vars(OperatorDone)
  /\ WF_vars(MainSteps)
  /\ WF_vars(ModeCallback)
  /\ WF_vars(PerformSwitch)
  /\ WF_vars(\E c \in Callers : CallCancelled(c))

----------------------------------------------------------------------------
Served(c) == mainPc \in {"switching", "handler"} /\ serving = c

Pending(c) ==
  /\ Waiting(c) => (Queued(c) # {} <=> ~Served(c))
  /\ ~Waiting(c) => Queued(c) = {} /\ (Served(c) => down)
  /\ \A i, j \in Queued(c) : i = j

\* A caller that waits is in the queue once or is being served, and no other
\* caller is: no call is lost, and none is answered by the answer to another.
EveryCallPending == \A c \in Callers : Pending(c)

\* A switch is outstanding only while its handler keeps main from everything
\* else: no second request overwrites the first before the loop thread acted.
OneSwitchAtATime == doSwitch # "none" => mainPc = "switching" \/ down

\* The stage of c's call, for a caller as the services see it: what it asked,
\* while that is in the queue or in its handler; that its switch has been
\* performed; the answer.
Asked(c) == {queue[i].op : i \in Queued(c)}

Elem(S) == CHOOSE x \in S : TRUE

CallOf(c) ==
  IF ~Waiting(c) THEN reply[c]
  ELSE IF Asked(c) # {} THEN Elem(Asked(c))
  ELSE IF mainPc = "handler" THEN "startService"
  ELSE IF doSwitch = "none" THEN "done" ELSE doSwitch

Stages == [c \in Callers |-> CallOf(c)]

\* The switch under way, when nobody waits for it.
LateSwitch ==
  IF mainPc = "switching" /\ Waiting(serving) THEN "none" ELSE doSwitch

\* The callers that ask for a start once, and those that have not.
Once == {"starter", "spawner"}
Spent(c) == c \in Once /\ pc[c] \in {"switched", "starting", "done"}
MayStart == {c \in Callers : ~Spent(c)}

Services == {op \in Operations : Advertised(op)}

Calls == INSTANCE ControllerCalls WITH
  call <- Stages, late <- LateSwitch, mayStart <- MayStart, avail <- Services

\* Whatever the threads of the node do meanwhile, every call is as good as
\* handled on its own.  A start or stop takes effect once, before its caller is
\* told ok - or once after the call was broken off by a shutdown, if at all -
\* and nothing else starts, stops or loads the controller; a list is true when
\* it is made; start_controller never succeeds; the start thread and the
\* spawner ask for one start each.
ImplementsCalls == Calls!Spec

\* The start_controller handler waits for main, which runs it: see below.
Caught == mainPc = "handler" /\ ~down

\* Every call returns, in particular those that hold up the SDK's thread, unless
\* somebody uses the start_controller service - and then at the shutdown.
CallsReturn == \A c \in Callers : Waiting(c) ~> ~Waiting(c) \/ Caught

LoadRefused == pc["spawner"] = "done" /\ ctl = "unloaded"

\* However the spawner and the start thread race, which may be told ok for a
\* start before the load, the controller comes to run once - unless
\* ControllerBase::init has failed and the load with it.
ComesUp == <>(wasRunning \/ LoadRefused \/ down \/ Caught)

\* A mode that was asked for comes into force: its message is not lost, only
\* replaced by the next one, and that holds for the next one too.
ModeHeard ==
  \A m \in {"IDLE", "WALK"} :
    modeMsg = m ~> mode = m \/ modeMsg \notin {m, "none"} \/ down \/ Caught

\* Shutdown ends main, whatever handler it interrupts.
ShutdownEnds == down ~> mainPc = "exit"

----------------------------------------------------------------------------
(* What the documentation says and the code does not do.                   *)

\* README: /tron2_hw/start_controller starts the controller.
StartServiceAnswered == pc["operator"] = "serviceWait" ~>
                        pc["operator"] # "serviceWait"
============================================================================
