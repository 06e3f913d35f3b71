---------------------------- MODULE HwNodeProofs ----------------------------
(***************************************************************************)
(* The safety properties of HwNode, for any shortcuts and any number of    *)
(* presses and requests.                                                   *)
(***************************************************************************)
EXTENDS HwNode, SequenceTheorems, TLAPS

----------------------------------------------------------------------------
(* The queue.                                                              *)

\* RemoveAt takes out one element and closes the gap.
LEMMA RemoveAtProperties ==
  ASSUME NEW S, NEW q \in Seq(S), NEW i \in 1 .. Len(q)
  PROVE  /\ RemoveAt(q, i) \in Seq(S)
         /\ Len(RemoveAt(q, i)) = Len(q) - 1
         /\ \A j \in 1 .. Len(q) - 1 :
              RemoveAt(q, i)[j] = IF j < i THEN q[j] ELSE q[j + 1]
<1> DEFINE a == SubSeq(q, 1, i - 1)
           b == SubSeq(q, i + 1, Len(q))
<1>1. Len(q) \in Nat /\ i \in Nat \ {0} /\ i <= Len(q)
  OBVIOUS
<1>2. a \in Seq(S) /\ Len(a) = i - 1 /\ \A j \in 1 .. i - 1 : a[j] = q[j]
  BY <1>1
<1>3. b \in Seq(S) /\ Len(b) = Len(q) - i
        /\ \A j \in 1 .. Len(q) - i : b[j] = q[j + i]
  BY <1>1
<1> HIDE DEF a, b
<1>4. a \o b \in Seq(S) /\ Len(a \o b) = Len(a) + Len(b)
  BY <1>2, <1>3, ConcatProperties, Zenon
<1>5. Len(a \o b) = Len(q) - 1
  BY <1>1, <1>2, <1>3, <1>4
<1>6. \A j \in 1 .. Len(q) - 1 :
        (a \o b)[j] = IF j < i THEN q[j] ELSE q[j + 1]
  BY <1>1, <1>2, <1>3, ConcatProperties
<1> QED
  BY <1>4, <1>5, <1>6 DEF RemoveAt, a, b

\* queue' is the queue without its element k.
Removed(k) ==
  /\ k \in 1 .. Len(queue)
  /\ queue' \in Seq(Requests)
  /\ Len(queue') = Len(queue) - 1
  /\ \A j \in 1 .. Len(queue) - 1 :
       queue'[j] = IF j < k THEN queue[j] ELSE queue[j + 1]

Unique(c) == \A i, j \in Queued(c) : i = j

\* Who else is in the queue stays there; who was there once is not any more.
LEMMA RemovedQueued ==
  ASSUME queue \in Seq(Requests), NEW k, Removed(k), NEW c, Unique(c)
  PROVE  /\ queue[k].from # c => (Queued(c)' = {} <=> Queued(c) = {})
         /\ queue[k].from = c => Queued(c)' = {}
         /\ Unique(c)'
<1>1. Len(queue) \in Nat /\ DOMAIN queue = 1 .. Len(queue)
        /\ DOMAIN (queue') = 1 .. Len(queue) - 1
  BY DEF Removed
<1>2. \A j \in 1 .. Len(queue) - 1 :
        queue'[j] = queue[IF j < k THEN j ELSE j + 1]
  BY DEF Removed
<1>3. \A j \in Queued(c)' : (IF j < k THEN j ELSE j + 1) \in Queued(c) \ {k}
  BY <1>1, <1>2 DEF Queued, Removed
<1>4. \A i \in Queued(c) \ {k} : (IF i < k THEN i ELSE i - 1) \in Queued(c)'
  BY <1>1, <1>2 DEF Queued, Removed
<1>5. k \in DOMAIN queue
  BY <1>1 DEF Removed
<1>6. Unique(c)'
  <2> SUFFICES ASSUME NEW i \in Queued(c)', NEW j \in Queued(c)'
               PROVE  i = j
    BY DEF Unique
  <2>1. (IF i < k THEN i ELSE i + 1) = (IF j < k THEN j ELSE j + 1)
    BY <1>3 DEF Unique
  <2>2. i \in Int /\ j \in Int /\ k \in Int
    BY <1>1 DEF Queued, Removed
  <2> QED BY <2>1, <2>2
<1>7. ASSUME queue[k].from # c PROVE Queued(c)' = {} <=> Queued(c) = {}
  <2>1. k \notin Queued(c)
    BY <1>7 DEF Queued
  <2> QED BY <1>3, <1>4, <2>1
<1>8. ASSUME queue[k].from = c PROVE Queued(c)' = {}
  <2>1. k \in Queued(c)
    BY <1>5, <1>8 DEF Queued
  <2>2. Queued(c) \ {k} = {}
    BY <2>1 DEF Unique
  <2> QED BY <1>3, <2>2
<1> QED BY <1>6, <1>7, <1>8

LEMMA TailRemoves ==
  ASSUME queue \in Seq(Requests), queue # <<>>, queue' = Tail(queue)
  PROVE  Removed(1) /\ queue[1] = Head(queue) /\ queue[1] \in Requests
<1>1. Len(queue) \in Nat \ {0}
  OBVIOUS
<1>2. queue' \in Seq(Requests) /\ Len(queue') = Len(queue) - 1
  BY <1>1
<1>3. \A j \in 1 .. Len(queue) - 1 : queue'[j] = queue[j + 1]
  BY <1>1
<1> QED BY <1>1, <1>2, <1>3 DEF Removed

LEMMA RemoveAtRemoves ==
  ASSUME queue \in Seq(Requests), NEW c, NEW i \in Queued(c),
         queue' = RemoveAt(queue, i)
  PROVE  Removed(i) /\ queue[i].from = c
<1>1. i \in 1 .. Len(queue)
  BY DEF Queued
<1> QED BY <1>1, RemoveAtProperties DEF Removed, Queued

LEMMA AppendQueued ==
  ASSUME queue \in Seq(Requests), NEW r \in Requests,
         queue' = Append(queue, r), NEW c
  PROVE  /\ queue' \in Seq(Requests)
         /\ r.from # c => Queued(c)' = Queued(c)
         /\ r.from = c => Queued(c)' = Queued(c) \cup {Len(queue) + 1}
<1>1. /\ queue' \in Seq(Requests)
      /\ Len(queue) \in Nat
      /\ DOMAIN queue = 1 .. Len(queue)
      /\ DOMAIN (queue') = 1 .. Len(queue) + 1
      /\ \A j \in 1 .. Len(queue) : queue'[j] = queue[j]
      /\ queue'[Len(queue) + 1] = r
  OBVIOUS
<1>2. \A j : j \in DOMAIN (queue') <=> j \in DOMAIN queue \/ j = Len(queue) + 1
  BY <1>1
<1> HIDE DEF Requests
<1> QED BY <1>1, <1>2 DEF Queued

----------------------------------------------------------------------------
(* Types.                                                                  *)

LEMMA CallTypes ==
  ASSUME TypeOK, NEW c \in Callers, NEW op \in Operations, NEW where \in Pcs,
         Call(c, op, where)
  PROVE  /\ queue' \in Seq(Requests)
         /\ reply' \in [Callers -> Replies]
         /\ pc' \in [Callers -> Pcs]
<1>1. pc' \in [Callers -> Pcs]
  BY DEF TypeOK, Call, Goto
<1>2. reply' \in [Callers -> Replies]
  BY DEF TypeOK, Call, Replies
<1>3. [from |-> c, op |-> op] \in Requests
  BY DEF Requests
<1> HIDE DEF Requests
<1>4. queue' \in Seq(Requests)
  BY <1>3, AppendQueued DEF TypeOK, Call
<1> QED BY <1>1, <1>2, <1>4

LEMMA ReturnTypes ==
  ASSUME TypeOK, NEW c \in Callers, NEW where \in Pcs, Return(c, where)
  PROVE  /\ queue' \in Seq(Requests)
         /\ reply' \in [Callers -> Replies]
         /\ pc' \in [Callers -> Pcs]
  BY DEF TypeOK, Return, Goto, Replies

LEMMA TakenTypes ==
  ASSUME TypeOK, NEW op, Taken(op)
  PROVE  queue' \in Seq(Requests) /\ Head1.from \in Callers
<1>1. Removed(1) /\ Head1 \in Requests
  BY TailRemoves DEF TypeOK, Taken, Head1
<1> QED BY <1>1 DEF Removed, Requests

LEMMA AnswerTypes ==
  ASSUME TypeOK, NEW c \in Callers, NEW with \in Replies, Answer(c, with)
  PROVE  reply' \in [Callers -> Replies]
  BY DEF TypeOK, Answer

\* The steps of startController keep the types, whichever thread runs it.
LEMMA StartTypes ==
  ASSUME TypeOK, NEW c \in {"starter", "joy", "main"}, StartSteps(c)
  PROVE  TypeOK'
<1> USE DEF mainVars, ctlVars, budget
<1>1. c \in Callers /\ {"listed", "switched", "done", "askX"} \subseteq Pcs
        /\ {"list", "start"} \subseteq Operations /\ AfterStart(c) \in Pcs
  BY DEF Callers, Pcs, Waits, Operations, AfterStart
<1>2. CASE StartController(c)
  <2>1. Call(c, "list", "listed")
    BY <1>2 DEF StartController
  <2> QED BY <1>1, <1>2, <2>1, CallTypes DEF StartController, TypeOK
<1>3. CASE StartListed(c)
  <2>1. CASE Call(c, "start", "switched") /\ UNCHANGED started
    BY <1>1, <1>3, <2>1, CallTypes DEF StartListed, TypeOK
  <2>2. CASE Return(c, AfterStart(c)) /\ Returned(c, reply[c] = "running")
    BY <1>1, <1>3, <2>2, ReturnTypes DEF StartListed, Returned, TypeOK
  <2> QED BY <1>3, <2>1, <2>2 DEF StartListed
<1>4. CASE StartSwitched(c)
  <2>1. Return(c, AfterStart(c)) /\ Returned(c, reply[c] = "ok")
    BY <1>4 DEF StartSwitched
  <2> QED BY <1>1, <1>4, <2>1, ReturnTypes DEF StartSwitched, Returned, TypeOK
<1> QED BY <1>2, <1>3, <1>4 DEF StartSteps

\* So do the steps of the threads that ask...
LEMMA CallerTypes ==
  ASSUME TypeOK,
         StarterWakes \/ JoyAskedY \/ JoyAskX \/ JoyAskedX \/ SpawnerSteps
           \/ OperatorDone \/ Environment \/ \E c \in Callers : CallCancelled(c)
  PROVE  TypeOK'
<1> USE DEF mainVars, callVars, ctlVars, budget
<1>1. {"starter", "joy", "spawner", "operator"} \subseteq Callers
  BY DEF Callers
<1>2. Waits \cup {"idle", "sleep", "startController", "askX", "done"} \subseteq Pcs
        /\ {"listed", "askedY", "askedX", "loading", "starting",
            "serviceWait"} \subseteq Waits
  BY DEF Pcs, Waits
<1>3. CASE StarterWakes
  BY <1>1, <1>2, <1>3 DEF StarterWakes, Goto, TypeOK
<1>4. CASE JoyAskedY
  <2>1. Return("joy", "askX") \/ Return("joy", "startController")
    BY <1>4 DEF JoyAskedY
  <2>2. modeMsg' \in {"none", "IDLE", "WALK"}
    BY <1>4 DEF JoyAskedY, Publish, TypeOK
  <2>3. /\ queue' \in Seq(Requests)
        /\ reply' \in [Callers -> Replies]
        /\ pc' \in [Callers -> Pcs]
    BY <1>1, <1>2, <2>1, ReturnTypes
  <2> QED BY <1>4, <2>2, <2>3 DEF JoyAskedY, TypeOK
<1>5. CASE JoyAskX
  <2>1. CASE Call("joy", "list", "askedX")
    BY <1>1, <1>2, <1>5, <2>1, CallTypes DEF JoyAskX, Operations, TypeOK
  <2>2. CASE Goto("joy", "idle") /\ UNCHANGED callVars
    BY <1>1, <1>2, <1>5, <2>2 DEF JoyAskX, Goto, TypeOK
  <2> QED BY <1>5, <2>1, <2>2 DEF JoyAskX
<1>6. CASE JoyAskedX
  <2>1. modeMsg' \in {"none", "IDLE", "WALK"}
    BY <1>6 DEF JoyAskedX, Publish, TypeOK
  <2> QED BY <1>1, <1>2, <1>6, <2>1, ReturnTypes DEF JoyAskedX, TypeOK
<1>7. CASE SpawnerSteps
  <2>1. CASE SpawnerLoads
    BY <1>1, <1>2, <2>1, CallTypes DEF SpawnerLoads, Operations, TypeOK
  <2>2. CASE SpawnerStarts
    <3>1. CASE Call("spawner", "start", "starting")
      BY <1>1, <1>2, <2>2, <3>1, CallTypes
         DEF SpawnerStarts, Operations, TypeOK
    <3>2. CASE Return("spawner", "done")
      BY <1>1, <1>2, <2>2, <3>2, ReturnTypes DEF SpawnerStarts, TypeOK
    <3> QED BY <2>2, <3>1, <3>2 DEF SpawnerStarts
  <2>3. CASE SpawnerDone
    BY <1>1, <1>2, <2>3, ReturnTypes DEF SpawnerDone, TypeOK
  <2> QED BY <1>7, <2>1, <2>2, <2>3 DEF SpawnerSteps
<1>8. CASE OperatorDone
  BY <1>1, <1>2, <1>8, ReturnTypes DEF OperatorDone, TypeOK
<1>9. CASE Environment
  <2>1. ASSUME NEW held \in Shortcuts, JoyPress(held)
        PROVE  TypeOK'
    <3>1. buttons' \subseteq {"X", "Y"}
      BY <2>1, ShortcutsAssumption DEF JoyPress
    <3>2. presses' \in 0 .. MaxPresses
      BY <2>1, BoundsAssumption DEF JoyPress, TypeOK
    <3>3. CASE Call("joy", "list", "askedY")
      BY <1>1, <1>2, <2>1, <3>1, <3>2, <3>3, CallTypes
         DEF JoyPress, Operations, TypeOK
    <3>4. CASE Goto("joy", "askX") /\ UNCHANGED callVars
      BY <1>1, <1>2, <2>1, <3>1, <3>2, <3>4 DEF JoyPress, Goto, TypeOK
    <3> QED BY <2>1, <3>3, <3>4 DEF JoyPress
  <2>2. ASSUME NEW op \in {"stop", "startService"}, OperatorCalls(op)
        PROVE  TypeOK'
    <3>1. requests' \in 0 .. MaxRequests
      BY <2>2, BoundsAssumption DEF OperatorCalls, TypeOK
    <3>2. Call("operator", op, "serviceWait") /\ op \in Operations
      BY <2>2 DEF OperatorCalls, Operations
    <3> QED BY <1>1, <1>2, <2>2, <3>1, <3>2, CallTypes
               DEF OperatorCalls, TypeOK
  <2>3. ASSUME NEW m \in {"WALK", "IDLE"}, OperatorMode(m)
        PROVE  TypeOK'
    <3>1. requests' \in 0 .. MaxRequests
      BY <2>3, BoundsAssumption DEF OperatorMode, TypeOK
    <3>2. modeMsg' \in {"none", "IDLE", "WALK"}
      BY <2>3 DEF OperatorMode, Publish, TypeOK
    <3> QED BY <2>3, <3>1, <3>2 DEF OperatorMode, TypeOK
  <2>4. CASE Shutdown
    BY <2>4 DEF Shutdown, TypeOK
  <2> QED BY <1>9, <2>1, <2>2, <2>3, <2>4 DEF Environment
<1>10. ASSUME NEW c \in Callers, CallCancelled(c)
       PROVE  TypeOK'
  <2>1. queue' \in Seq(Requests)
    BY <1>10, RemoveAtRemoves DEF CallCancelled, Removed, TypeOK
  <2>2. reply' \in [Callers -> Replies]
    BY <1>10 DEF CallCancelled, Replies, TypeOK
  <2> QED BY <1>10, <2>1, <2>2 DEF CallCancelled, TypeOK
<1> QED
  BY <1>3, <1>4, <1>5, <1>6, <1>7, <1>8, <1>9, <1>10

\* ... and those of main and of the loop thread.
LEMMA MainTypes ==
  ASSUME TypeOK, MainSteps \/ ModeCallback \/ PerformSwitch
  PROVE  TypeOK'
<1> USE DEF mainVars, callVars, ctlVars, budget
<1>1. "main" \in Callers /\ {"startController", "idle"} \subseteq Pcs
        /\ {"running", "idle", "ok", "failed"} \subseteq Replies
  BY DEF Callers, Pcs, Replies
<1>2. CASE SetupServices \/ BuildLoop \/ EnterSpin \/ Exit
  BY <1>2 DEF SetupServices, BuildLoop, EnterSpin, Exit, TypeOK
<1>3. CASE ServeList
  <2>1. Taken("list")
    BY <1>3 DEF ServeList
  <2>2. queue' \in Seq(Requests) /\ Head1.from \in Callers
    BY <2>1, TakenTypes
  <2>3. reply' \in [Callers -> Replies]
    BY <1>1, <1>3, <2>2, AnswerTypes DEF ServeList
  <2> QED BY <1>3, <2>2, <2>3 DEF ServeList, TypeOK
<1>4. CASE ServeLoad
  <2>1. Taken("load")
    BY <1>4 DEF ServeLoad
  <2>2. queue' \in Seq(Requests) /\ Head1.from \in Callers
    BY <2>1, TakenTypes
  <2>3. reply' \in [Callers -> Replies]
    BY <1>1, <1>4, <2>2, AnswerTypes DEF ServeLoad
  <2>4. ctl' \in {"unloaded", "loaded", "running"}
    BY <1>4 DEF ServeLoad, TypeOK
  <2> QED BY <1>4, <2>2, <2>3, <2>4 DEF ServeLoad, TypeOK
<1>5. CASE ServeSwitch
  <2>1. PICK op \in {"start", "stop"} : Taken(op) /\ doSwitch' = op
    BY <1>5 DEF ServeSwitch
  <2>2. queue' \in Seq(Requests) /\ Head1.from \in Callers
    BY <2>1, TakenTypes
  <2> QED BY <1>5, <2>1, <2>2 DEF ServeSwitch, TypeOK
<1>6. CASE SwitchDone
  <2>1. reply' \in [Callers -> Replies]
    BY <1>1, <1>6, AnswerTypes DEF SwitchDone, TypeOK
  <2> QED BY <1>1, <1>6, <2>1 DEF SwitchDone, TypeOK
<1>7. CASE ServeStartService
  <2>1. Taken("startService")
    BY <1>7 DEF ServeStartService
  <2>2. queue' \in Seq(Requests) /\ Head1.from \in Callers
    BY <2>1, TakenTypes
  <2> QED BY <1>1, <1>7, <2>2 DEF ServeStartService, Goto, TypeOK
<1>8. CASE StartServiceDone
  <2>1. reply' \in [Callers -> Replies]
    BY <1>1, <1>8, AnswerTypes DEF StartServiceDone, TypeOK
  <2> QED BY <1>1, <1>8, <2>1 DEF StartServiceDone, Goto, TypeOK
<1>9. CASE ModeCallback
  BY <1>9 DEF ModeCallback, TypeOK
<1>10. CASE PerformSwitch
  BY <1>10 DEF PerformSwitch, TypeOK
<1>11. CASE StartSteps("main")
  BY <1>11, StartTypes
<1> QED
  BY <1>2, <1>3, <1>4, <1>5, <1>6, <1>7, <1>8, <1>9, <1>10, <1>11 DEF MainSteps

LEMMA TypeStep ==
  ASSUME TypeOK, [Next]_vars
  PROVE  TypeOK'
<1>1. CASE UNCHANGED vars
  BY <1>1 DEF vars, mainVars, callVars, ctlVars, budget, TypeOK
<1>2. CASE Next
  BY <1>2, StartTypes, CallerTypes, MainTypes
     DEF Next, StarterSteps, JoySteps, MainSteps, Environment
<1> QED BY <1>1, <1>2

\* Requests, replies and program counters stay what their types say, for any
\* number of presses and requests.
THEOREM TypeCorrect == Spec => []TypeOK
<1>1. Init => TypeOK
  <2> SUFFICES ASSUME Init PROVE TypeOK
    OBVIOUS
  <2>1. "main" \in Callers /\ {"idle", "sleep"} \subseteq Pcs
          /\ "none" \in Replies
    BY DEF Callers, Pcs, Replies
  <2>2. pc \in [Callers -> Pcs] /\ reply \in [Callers -> Replies]
    BY <2>1 DEF Init
  <2>3. queue \in Seq(Requests)
    BY DEF Init
  <2>4. presses \in 0 .. MaxPresses /\ requests \in 0 .. MaxRequests
    BY BoundsAssumption DEF Init, BoundsAssumption
  <2> QED BY <2>1, <2>2, <2>3, <2>4 DEF Init, TypeOK
<1> QED BY <1>1, TypeStep, PTL DEF Spec
----------------------------------------------------------------------------
(* Calls.                                                                  *)

\* main is a caller only inside the start_controller handler.
MainFit == pc["main"] # "idle" <=> mainPc = "handler"

\* A caller that nothing happens to stays as it is.
LEMMA PendingKept ==
  ASSUME NEW c, Pending(c), UNCHANGED <<pc[c], reply[c]>>,
         Queued(c)' = {} <=> Queued(c) = {}, Unique(c)',
         Served(c)' <=> Served(c), down => down'
  PROVE  Pending(c)'
<1>1. Waiting(c)' <=> Waiting(c)
  BY DEF Waiting
<1> QED BY <1>1 DEF Pending, Unique

\* One whose answer is there, or is not asked for, has nothing pending.
LEMMA PendingOver ==
  ASSUME NEW c, ~Waiting(c)', Queued(c)' = {}, Served(c)' => down'
  PROVE  Pending(c)'
  BY DEF Pending

LEMMA CallPending ==
  ASSUME TypeOK, EveryCallPending, NEW c \in Callers, NEW op \in Operations,
         NEW where \in Waits, ~Waiting(c), Call(c, op, where),
         UNCHANGED <<mainPc, serving, down>>
  PROVE  EveryCallPending'
<1>1. [from |-> c, op |-> op] \in Requests
  BY DEF Requests
<1>2. [from |-> c, op |-> op].from = c
  OBVIOUS
<1>3. SUFFICES ASSUME NEW d \in Callers PROVE Pending(d)'
  BY DEF EveryCallPending
<1>4. Pending(d) /\ Pending(c) /\ (Served(d)' <=> Served(d))
  BY DEF EveryCallPending, Served
<1>5. CASE d # c
  <2>1. UNCHANGED <<pc[d], reply[d]>>
    BY <1>5 DEF Call, Goto, TypeOK
  <2>2. Queued(d)' = Queued(d)
    <3>1. CASE queue' = Append(queue, [from |-> c, op |-> op])
      BY <1>1, <1>2, <1>5, <3>1, AppendQueued DEF TypeOK
    <3>2. CASE UNCHANGED queue
      BY <3>2 DEF Queued
    <3> QED BY <3>1, <3>2 DEF Call
  <2> QED BY <1>4, <2>1, <2>2, PendingKept DEF Pending, Unique
<1>6. CASE d = c
  <2>1. Queued(c) = {} /\ (Served(c) => down)
    BY <1>4 DEF Pending
  <2>2. CASE Advertised(op)
    <3>1. Queued(c)' = {Len(queue) + 1}
      BY <1>1, <1>2, <2>1, <2>2, AppendQueued DEF Call, TypeOK
    <3>2. ~Served(c)'
      BY <1>4, <1>6, <2>1, <2>2 DEF Advertised
    <3>3. Waiting(c)'
      BY <2>2 DEF Waiting, Call, Goto, TypeOK
    <3> QED BY <1>6, <3>1, <3>2, <3>3 DEF Pending
  <2>3. CASE ~Advertised(op)
    <3>1. ~Waiting(c)' /\ Queued(c)' = {}
      BY <2>1, <2>3 DEF Waiting, Call, Goto, TypeOK, Queued
    <3> QED BY <1>4, <1>6, <2>1, <3>1, PendingOver
  <2> QED BY <2>2, <2>3
<1> QED BY <1>5, <1>6

\* A caller moves on to where it waits for nothing.
LEMMA GotoPending ==
  ASSUME TypeOK, EveryCallPending, NEW c \in Callers, NEW where \in Pcs \ Waits,
         ~Waiting(c), Goto(c, where), UNCHANGED <<queue, mainPc, serving, down>>,
         \A d \in Callers \ {c} : reply'[d] = reply[d]
  PROVE  EveryCallPending'
<1> SUFFICES ASSUME NEW d \in Callers PROVE Pending(d)'
  BY DEF EveryCallPending
<1>1. Pending(d) /\ (Served(d)' <=> Served(d)) /\ Queued(d)' = Queued(d)
  BY DEF EveryCallPending, Served, Queued
<1>2. CASE d # c
  <2>1. UNCHANGED <<pc[d], reply[d]>>
    BY <1>2 DEF Goto, TypeOK
  <2> QED BY <1>1, <2>1, PendingKept DEF Pending, Unique
<1>3. CASE d = c
  <2>1. ~Waiting(d)'
    BY <1>3 DEF Goto, Waiting, TypeOK
  <2>2. Queued(d) = {} /\ (Served(d) => down)
    BY <1>1, <1>3 DEF Pending
  <2> QED BY <1>1, <2>1, <2>2, PendingOver
<1> QED BY <1>2, <1>3

LEMMA ReturnPending ==
  ASSUME TypeOK, EveryCallPending, NEW c \in Callers, NEW where \in Pcs \ Waits,
         ~Waiting(c), Return(c, where), UNCHANGED <<mainPc, serving, down>>
  PROVE  EveryCallPending'
<1>1. \A d \in Callers \ {c} : reply'[d] = reply[d]
  BY DEF Return, TypeOK
<1> QED BY <1>1, GotoPending DEF Return

\* Nobody's call is touched, main serves nobody before or after.
LEMMA IdlePending ==
  ASSUME EveryCallPending, UNCHANGED <<queue, reply, pc, serving>>,
         UNCHANGED mainPc \/ {mainPc, mainPc'} \cap {"switching", "handler"} = {},
         down => down'
  PROVE  EveryCallPending'
<1> SUFFICES ASSUME NEW c \in Callers PROVE Pending(c)'
  BY DEF EveryCallPending
<1>1. Pending(c) /\ (Served(c)' <=> Served(c)) /\ Queued(c)' = Queued(c)
  BY DEF EveryCallPending, Served, Queued
<1> QED BY <1>1, PendingKept DEF Pending, Unique

\* The request main takes is that of a caller who waits, and leaves the queue.
LEMMA TakenPending ==
  ASSUME TypeOK, EveryCallPending, NEW op, Taken(op)
  PROVE  /\ \A d \in Callers : Unique(d)' /\ ~Served(d)
         /\ \E c \in Callers :
              /\ c = Head1.from /\ Waiting(c) /\ Queued(c)' = {}
              /\ \A d \in Callers \ {c} : Queued(d)' = {} <=> Queued(d) = {}
<1>1. Removed(1) /\ queue[1] = Head1 /\ Head1.from \in Callers
  BY TailRemoves, TakenTypes DEF TypeOK, Taken, Head1
<1>2. \A c \in Callers : Unique(c) /\ Pending(c) /\ ~Served(c)
  BY DEF EveryCallPending, Pending, Unique, Taken, Spinning, Served
<1>3. queue \in Seq(Requests)
  BY DEF TypeOK
<1>4. 1 \in Queued(Head1.from)
  BY <1>1 DEF Queued, Removed
<1>5. Waiting(Head1.from)
  BY <1>1, <1>2, <1>4 DEF Pending
<1>6. ASSUME NEW c \in Callers
      PROVE  /\ c # Head1.from => (Queued(c)' = {} <=> Queued(c) = {})
             /\ c = Head1.from => Queued(c)' = {}
             /\ Unique(c)'
  <2>1. Unique(c)
    BY <1>2, <1>6
  <2> QED BY <1>1, <1>3, <2>1, RemovedQueued
<1>7. PICK c \in Callers : c = Head1.from
  BY <1>1
<1>8. Waiting(c) /\ Queued(c)' = {}
  BY <1>5, <1>6, <1>7
<1>9. \A d \in Callers \ {c} : Queued(d)' = {} <=> Queued(d) = {}
  BY <1>6, <1>7
<1> QED BY <1>2, <1>6, <1>7, <1>8, <1>9

\* main has answered the request it took, or the one it was busy with.
LEMMA AnsweredPending ==
  ASSUME TypeOK, EveryCallPending, NEW c \in Callers, NEW with \in Replies \ {"none"},
         Answer(c, with), UNCHANGED pc, down => down',
         Queued(c)' = {}, \A d \in Callers : Unique(d)' /\ ~Served(d)',
         \A d \in Callers \ {c} : ~Served(d) /\ (Queued(d)' = {} <=> Queued(d) = {})
  PROVE  EveryCallPending'
<1> SUFFICES ASSUME NEW d \in Callers PROVE Pending(d)'
  BY DEF EveryCallPending
<1>1. CASE d # c
  <2>1. UNCHANGED <<pc[d], reply[d]>>
    BY <1>1 DEF Answer, TypeOK
  <2>2. Pending(d) /\ (Served(d)' <=> Served(d))
    BY <1>1 DEF EveryCallPending
  <2> QED BY <1>1, <2>1, <2>2, PendingKept
<1>2. CASE d = c
  <2>1. ~Waiting(c)'
    BY DEF Answer, Waiting, TypeOK
  <2> QED BY <1>2, <2>1, PendingOver
<1> QED BY <1>1, <1>2

LEMMA StartPending ==
  ASSUME TypeOK, MainFit, EveryCallPending,
         NEW c \in {"starter", "joy", "main"}, StartSteps(c)
  PROVE  EveryCallPending' /\ MainFit'
<1> USE DEF mainVars
<1>1. /\ c \in Callers /\ {"listed", "switched"} \subseteq Waits
      /\ {"list", "start"} \subseteq Operations
      /\ AfterStart(c) \in Pcs \ Waits /\ AfterStart(c) # "idle"
  BY DEF Callers, Pcs, Waits, Operations, AfterStart
<1>2. CASE StartController(c)
  <2>1. ~Waiting(c)
    BY <1>2 DEF StartController, Waiting, Waits
  <2>2. /\ Call(c, "list", "listed") /\ UNCHANGED <<mainPc, serving, down>>
        /\ pc[c] # "idle"
    BY <1>2 DEF StartController
  <2>3. EveryCallPending'
    BY <1>1, <2>1, <2>2, CallPending
  <2> QED BY <1>1, <2>2, <2>3 DEF Call, Goto, TypeOK, MainFit
<1>3. CASE StartListed(c) \/ StartSwitched(c)
  <2>1. ~Waiting(c) /\ UNCHANGED <<mainPc, serving, down>> /\ pc[c] # "idle"
    BY <1>3 DEF StartListed, StartSwitched, Answered, Waiting
  <2>2. CASE Call(c, "start", "switched")
    <3>1. EveryCallPending'
      BY <1>1, <2>1, <2>2, CallPending
    <3> QED BY <1>1, <2>1, <2>2, <3>1 DEF Call, Goto, TypeOK, MainFit
  <2>3. CASE Return(c, AfterStart(c))
    <3>1. EveryCallPending'
      BY <1>1, <2>1, <2>3, ReturnPending
    <3> QED BY <1>1, <2>1, <2>3, <3>1 DEF Return, Goto, TypeOK, MainFit
  <2> QED BY <1>3, <2>2, <2>3 DEF StartListed, StartSwitched
<1> QED BY <1>2, <1>3 DEF StartSteps

\* Whatever a caller other than main does to its program counter.
LEMMA OthersFit ==
  ASSUME TypeOK, MainFit, NEW c, c # "main", NEW where, Goto(c, where),
         UNCHANGED mainPc
  PROVE  MainFit'
<1>1. "main" \in Callers
  BY DEF Callers
<1> QED BY <1>1 DEF MainFit, Goto, TypeOK

LEMMA CallerPending ==
  ASSUME TypeOK, MainFit, EveryCallPending,
         StarterWakes \/ JoyAskedY \/ JoyAskX \/ JoyAskedX \/ SpawnerSteps
           \/ OperatorDone \/ Environment \/ \E c \in Callers : CallCancelled(c)
  PROVE  EveryCallPending' /\ MainFit'
<1> USE DEF mainVars, callVars
<1>1. {"starter", "joy", "spawner", "operator"} \subseteq Callers
  BY DEF Callers
<1>2. /\ {"idle", "sleep", "startController", "askX", "done"} \subseteq Pcs \ Waits
      /\ {"listed", "askedY", "askedX", "loading", "starting",
          "serviceWait"} \subseteq Waits
      /\ {"list", "load", "start", "stop", "startService"} \subseteq Operations
  BY DEF Pcs, Waits, Operations
<1>3. CASE StarterWakes
  <2>1. ~Waiting("starter")
    BY <1>3 DEF StarterWakes, Waiting, Waits
  <2>2. Goto("starter", "startController") /\ UNCHANGED <<queue, reply, mainPc, serving, down>>
    BY <1>3 DEF StarterWakes
  <2> QED BY <1>1, <1>2, <2>1, <2>2, GotoPending, OthersFit
<1>4. CASE JoyAskedY \/ JoyAskedX
  <2>1. ~Waiting("joy") /\ UNCHANGED <<mainPc, serving, down>>
    BY <1>4 DEF JoyAskedY, JoyAskedX, Answered, Waiting
  <2>2. PICK where \in {"askX", "startController", "idle"} : Return("joy", where)
    BY <1>4 DEF JoyAskedY, JoyAskedX
  <2> QED BY <1>1, <1>2, <2>1, <2>2, ReturnPending, OthersFit DEF Return
<1>5. CASE JoyAskX
  <2>1. ~Waiting("joy") /\ UNCHANGED <<mainPc, serving, down>>
    BY <1>5 DEF JoyAskX, Waiting, Waits
  <2>2. CASE Call("joy", "list", "askedX")
    BY <1>1, <1>2, <2>1, <2>2, CallPending, OthersFit DEF Call
  <2>3. CASE Goto("joy", "idle") /\ UNCHANGED callVars
    BY <1>1, <1>2, <2>1, <2>3, GotoPending, OthersFit
  <2> QED BY <1>5, <2>2, <2>3 DEF JoyAskX
<1>6. CASE SpawnerSteps
  <2>1. ~Waiting("spawner") /\ UNCHANGED <<mainPc, serving, down>>
    BY <1>6 DEF SpawnerSteps, SpawnerLoads, SpawnerStarts, SpawnerDone,
      Answered, Waiting, Waits
  <2>2. CASE Call("spawner", "load", "loading")
    BY <1>1, <1>2, <2>1, <2>2, CallPending, OthersFit DEF Call
  <2>3. CASE Call("spawner", "start", "starting")
    BY <1>1, <1>2, <2>1, <2>3, CallPending, OthersFit DEF Call
  <2>4. CASE Return("spawner", "done")
    BY <1>1, <1>2, <2>1, <2>4, ReturnPending, OthersFit DEF Return
  <2> QED BY <1>6, <2>2, <2>3, <2>4
          DEF SpawnerSteps, SpawnerLoads, SpawnerStarts, SpawnerDone
<1>7. CASE OperatorDone
  <2>1. ~Waiting("operator") /\ UNCHANGED <<mainPc, serving, down>>
          /\ Return("operator", "idle")
    BY <1>7 DEF OperatorDone, Answered, Waiting
  <2> QED BY <1>1, <1>2, <2>1, ReturnPending, OthersFit DEF Return
<1>8. CASE Environment
  <2>1. ASSUME NEW held \in Shortcuts, JoyPress(held)
        PROVE  EveryCallPending' /\ MainFit'
    <3>1. ~Waiting("joy") /\ UNCHANGED <<mainPc, serving, down>>
      BY <2>1 DEF JoyPress, Waiting, Waits
    <3>2. CASE Call("joy", "list", "askedY")
      BY <1>1, <1>2, <3>1, <3>2, CallPending, OthersFit DEF Call
    <3>3. CASE Goto("joy", "askX") /\ UNCHANGED callVars
      BY <1>1, <1>2, <3>1, <3>3, GotoPending, OthersFit
    <3> QED BY <2>1, <3>2, <3>3 DEF JoyPress
  <2>2. ASSUME NEW op \in {"stop", "startService"}, OperatorCalls(op)
        PROVE  EveryCallPending' /\ MainFit'
    <3>1. ~Waiting("operator") /\ UNCHANGED <<mainPc, serving, down>>
            /\ Call("operator", op, "serviceWait")
      BY <2>2 DEF OperatorCalls, Waiting, Waits
    <3> QED BY <1>1, <1>2, <3>1, CallPending, OthersFit DEF Call
  <2>3. ASSUME NEW m \in {"WALK", "IDLE"}, OperatorMode(m)
        PROVE  EveryCallPending' /\ MainFit'
    BY <2>3, IdlePending DEF OperatorMode, MainFit
  <2>4. CASE Shutdown
    BY <2>4, IdlePending DEF Shutdown, MainFit
  <2> QED BY <1>8, <2>1, <2>2, <2>3, <2>4 DEF Environment
<1>9. ASSUME NEW c \in Callers, CallCancelled(c)
      PROVE  EveryCallPending' /\ MainFit'
  <2>1. MainFit' /\ UNCHANGED <<mainPc, serving, pc, down>> /\ down
    BY <1>9 DEF CallCancelled, MainFit
  <2>2. \A d \in Callers : Pending(d) /\ Unique(d) /\ (Served(d)' <=> Served(d))
    BY <2>1 DEF EveryCallPending, Pending, Unique, Served
  <2>3. ~Waiting(c)' /\ \A d \in Callers \ {c} : reply'[d] = reply[d]
    BY <1>9 DEF CallCancelled, Waiting, TypeOK
  <2>4. \A d \in Callers :
          /\ Unique(d)'
          /\ d # c => (Queued(d)' = {} <=> Queued(d) = {})
          /\ d = c => Queued(d)' = {}
    <3>1. CASE Queued(c) = {} /\ UNCHANGED queue
      BY <2>2, <3>1 DEF Queued, Unique
    <3>2. CASE \E i \in Queued(c) : queue' = RemoveAt(queue, i)
      <4>1. PICK i \in Queued(c) : queue' = RemoveAt(queue, i)
        BY <3>2
      <4>2. queue \in Seq(Requests) /\ Removed(i) /\ queue[i].from = c
        BY <4>1, RemoveAtRemoves DEF TypeOK
      <4> QED BY <2>2, <4>2, RemovedQueued
    <3> QED BY <1>9, <3>1, <3>2 DEF CallCancelled
  <2>5. ASSUME NEW d \in Callers PROVE Pending(d)'
    <3>1. CASE d # c
      BY <2>1, <2>2, <2>3, <2>4, <3>1, PendingKept
    <3>2. CASE d = c
      BY <2>1, <2>3, <2>4, <3>2, PendingOver
    <3> QED BY <3>1, <3>2
  <2> QED BY <2>1, <2>5 DEF EveryCallPending
<1> QED
  BY <1>3, <1>4, <1>5, <1>6, <1>7, <1>8, <1>9

LEMMA MainPending ==
  ASSUME TypeOK, MainFit, EveryCallPending,
         MainSteps \/ ModeCallback \/ PerformSwitch
  PROVE  EveryCallPending' /\ MainFit'
<1> USE DEF mainVars, callVars
<1>1. /\ "main" \in Callers /\ {"running", "idle", "ok", "failed"} \subseteq Replies
      /\ {"startController", "idle"} \subseteq Pcs \ Waits
  BY DEF Callers, Replies, Pcs, Waits
<1>2. CASE SetupServices \/ BuildLoop \/ EnterSpin \/ Exit
  <2>1. /\ UNCHANGED <<queue, reply, pc, serving, down>>
        /\ {mainPc, mainPc'} \cap {"switching", "handler"} = {}
    BY <1>2 DEF SetupServices, BuildLoop, EnterSpin, Exit
  <2>2. MainFit'
    BY <2>1 DEF MainFit
  <2> QED BY <2>1, <2>2, IdlePending
<1>3. CASE ServeList \/ ServeLoad
  <2>1. /\ \E op \in {"list", "load"} : Taken(op)
        /\ \E with \in Replies \ {"none"} : Answer(Head1.from, with)
        /\ UNCHANGED <<pc, mainPc, serving, down>>
    BY <1>1, <1>3 DEF ServeList, ServeLoad
  <2>2. PICK op \in {"list", "load"} : Taken(op)
    BY <2>1
  <2>3. PICK c \in Callers :
          /\ c = Head1.from /\ Waiting(c) /\ Queued(c)' = {}
          /\ \A d \in Callers \ {c} : Queued(d)' = {} <=> Queued(d) = {}
    BY <2>2, TakenPending
  <2>4. \A d \in Callers : Unique(d)' /\ ~Served(d) /\ ~Served(d)'
    <3>1. \A d \in Callers : Unique(d)' /\ ~Served(d)
      BY <2>2, TakenPending
    <3> QED BY <2>1, <3>1 DEF Served
  <2>5. \E with \in Replies \ {"none"} : Answer(c, with)
    BY <2>1, <2>3
  <2>6. EveryCallPending'
    BY <2>1, <2>3, <2>4, <2>5, AnsweredPending
  <2> QED BY <2>1, <2>6 DEF MainFit
<1>4. CASE ServeSwitch \/ ServeStartService
  <2>1. /\ \E op \in {"start", "stop", "startService"} : Taken(op)
        /\ mainPc' \in {"switching", "handler"} /\ mainPc = "spin"
        /\ serving' = Head1.from
        /\ UNCHANGED <<reply, down>>
    BY <1>4 DEF ServeSwitch, ServeStartService, Taken, Spinning
  <2>2. PICK op \in {"start", "stop", "startService"} : Taken(op)
    BY <2>1
  <2>3. PICK c \in Callers :
          /\ c = Head1.from /\ Waiting(c) /\ Queued(c)' = {}
          /\ \A d \in Callers \ {c} : Queued(d)' = {} <=> Queued(d) = {}
    BY <2>2, TakenPending
  <2>4. \A d \in Callers : Unique(d)' /\ ~Served(d)
    BY <2>2, TakenPending
  <2>5. Served(c)' /\ \A d \in Callers \ {c} : ~Served(d)'
    BY <2>1, <2>3 DEF Served
  <2>6. pc["main"] = "idle"
    BY <2>1 DEF MainFit
  <2>7. MainFit' /\ \A d \in Callers : Waiting(d)' <=> Waiting(d)
    <3>1. CASE ServeSwitch
      BY <2>1, <2>6, <3>1 DEF ServeSwitch, MainFit, Waiting
    <3>2. CASE ServeStartService
      <4>1. Goto("main", "startController") /\ mainPc' = "handler"
        BY <3>2 DEF ServeStartService
      <4>2. \A d \in Callers : pc'[d] = IF d = "main" THEN "startController" ELSE pc[d]
        BY <4>1 DEF Goto, TypeOK
      <4> QED BY <1>1, <2>1, <2>6, <4>1, <4>2 DEF MainFit, Waiting, Waits
    <3> QED BY <1>4, <3>1, <3>2
  <2>8. ASSUME NEW d \in Callers PROVE Pending(d)'
    <3>1. CASE d = c
      BY <2>3, <2>4, <2>5, <2>7, <3>1 DEF Pending, Unique
    <3>2. CASE d # c
      <4>1. Pending(d)
        BY DEF EveryCallPending
      <4> QED BY <2>1, <2>3, <2>4, <2>5, <2>7, <3>2, <4>1 DEF Pending, Unique
    <3> QED BY <3>1, <3>2
  <2> QED BY <2>7, <2>8 DEF EveryCallPending
<1>5. CASE SwitchDone \/ StartServiceDone
  <2>1. /\ \E with \in Replies \ {"none"} : Answer(serving, with)
        /\ mainPc' = "spin" /\ mainPc \in {"switching", "handler"}
        /\ UNCHANGED <<queue, down>>
    BY <1>1, <1>5 DEF SwitchDone, StartServiceDone
  <2>2. serving \in Callers
    BY DEF TypeOK
  <2>3. PICK c \in Callers : c = serving
    BY <2>2
  <2>4. Pending(c) /\ Served(c)
    BY <2>1, <2>3 DEF EveryCallPending, Served
  <2>5. \A d \in Callers : ~Served(d)' /\ Unique(d)' /\ Queued(d)' = Queued(d)
    BY <2>1 DEF EveryCallPending, Pending, Served, Unique, Queued
  <2>6. Queued(c)' = {} /\ \A d \in Callers \ {c} : ~Served(d)
    BY <2>3, <2>4, <2>5 DEF Pending, Served
  <2>7. PICK with \in Replies \ {"none"} : Answer(c, with)
    BY <2>1, <2>3
  <2>8. CASE SwitchDone
    <3>1. UNCHANGED pc
      BY <2>8 DEF SwitchDone
    <3>2. EveryCallPending'
      BY <2>1, <2>5, <2>6, <2>7, <3>1, AnsweredPending
    <3> QED BY <2>1, <2>8, <3>1, <3>2 DEF MainFit, SwitchDone
  <2>9. CASE StartServiceDone
    <3>1. Goto("main", "idle") /\ pc["main"] = "done"
      BY <2>9 DEF StartServiceDone
    <3>2. MainFit'
      BY <1>1, <2>1, <3>1 DEF MainFit, Goto, TypeOK
    <3>3. ASSUME NEW d \in Callers PROVE Pending(d)'
      <4>1. Pending(d)
        BY DEF EveryCallPending
      <4>2. CASE d = c
        <5>1. ~Waiting(c)'
          BY <2>7, <3>1 DEF Answer, Waiting, Goto, Waits, TypeOK
        <5> QED BY <2>5, <2>6, <4>2, <5>1, PendingOver
      <4>3. CASE d # c
        <5>1. reply'[d] = reply[d]
          BY <2>7, <4>3 DEF Answer, TypeOK
        <5>2. CASE d # "main"
          <6>1. UNCHANGED <<pc[d], reply[d]>>
            BY <3>1, <5>1, <5>2 DEF Goto, TypeOK
          <6> QED BY <2>1, <2>5, <2>6, <4>1, <4>3, <6>1, PendingKept
        <5>3. CASE d = "main"
          <6>1. ~Waiting(d) /\ ~Waiting(d)'
            BY <1>1, <3>1, <5>3 DEF Waiting, Goto, Waits, TypeOK
          <6>2. Queued(d) = {}
            BY <4>1, <6>1 DEF Pending
          <6> QED BY <2>5, <6>1, <6>2, PendingOver
        <5> QED BY <5>2, <5>3
      <4> QED BY <4>2, <4>3
    <3> QED BY <3>2, <3>3 DEF EveryCallPending
  <2> QED BY <1>5, <2>8, <2>9
<1>6. CASE ModeCallback
  BY <1>6, IdlePending DEF ModeCallback, MainFit
<1>7. CASE PerformSwitch
  BY <1>7, IdlePending DEF PerformSwitch, MainFit
<1>8. CASE StartSteps("main")
  BY <1>8, StartPending
<1> QED
  BY <1>2, <1>3, <1>4, <1>5, <1>6, <1>7, <1>8 DEF MainSteps

LEMMA CallsAreFit == Spec => [](MainFit /\ EveryCallPending)
<1>1. Init => MainFit /\ EveryCallPending
  <2> SUFFICES ASSUME Init PROVE MainFit /\ EveryCallPending
    OBVIOUS
  <2>1. MainFit
    BY DEF Init, MainFit, Callers
  <2>2. \A c \in Callers : Queued(c) = {} /\ ~Waiting(c) /\ ~Served(c)
    BY DEF Init, Queued, Waiting, Waits, Served
  <2> QED BY <2>1, <2>2 DEF EveryCallPending, Pending
<1>2. ASSUME TypeOK, MainFit, EveryCallPending, [Next]_vars
      PROVE  MainFit' /\ EveryCallPending'
  <2>1. CASE UNCHANGED vars
    BY <1>2, <2>1, IdlePending DEF vars, mainVars, callVars, MainFit
  <2>2. CASE Next
    BY <1>2, <2>2, StartPending, CallerPending, MainPending
       DEF Next, StarterSteps, JoySteps, MainSteps, Environment
  <2> QED BY <1>2, <2>1, <2>2
<1> QED BY <1>1, <1>2, TypeCorrect, PTL DEF Spec

\* No call is lost, and none is answered by the answer to another, however many
\* requests are made and whenever the node is shut down.
THEOREM CallsArePending == Spec => []EveryCallPending
  BY CallsAreFit, PTL

----------------------------------------------------------------------------
(* Switches.                                                               *)

\* A step of a thread other than main or the loop is no switch.
LEMMA CallersLeaveSwitch ==
  ASSUME StarterSteps \/ JoySteps \/ SpawnerSteps \/ OperatorDone \/ Environment
         \/ (\E c \in {"starter", "joy", "main"} : StartSteps(c))
         \/ (\E c \in Callers : CallCancelled(c))
  PROVE  UNCHANGED <<doSwitch, mainPc, ctl, mode>> /\ (down => down')
<1> USE DEF mainVars, ctlVars, budget
<1>1. ASSUME NEW c \in Callers, StartSteps(c)
      PROVE  UNCHANGED <<doSwitch, mainPc, ctl, mode>> /\ (down => down')
  BY <1>1 DEF StartSteps, StartController, StartListed, StartSwitched
<1>2. {"starter", "joy", "main"} \subseteq Callers
  BY DEF Callers
<1>3. CASE StarterSteps
  BY <1>1, <1>2, <1>3 DEF StarterSteps, StarterWakes
<1>4. CASE JoySteps
  BY <1>1, <1>2, <1>4 DEF JoySteps, JoyAskedY, JoyAskX, JoyAskedX
<1>5. CASE SpawnerSteps \/ OperatorDone
  BY <1>5 DEF SpawnerSteps, SpawnerLoads, SpawnerStarts, SpawnerDone,
    OperatorDone
<1>6. CASE Environment
  BY <1>6 DEF Environment, JoyPress, OperatorCalls, OperatorMode, Shutdown
<1>7. CASE \E c \in Callers : CallCancelled(c)
  BY <1>7 DEF CallCancelled
<1> QED BY <1>1, <1>2, <1>3, <1>4, <1>5, <1>6, <1>7

\* No second request overwrites a switch before the loop thread has acted on
\* it, for any number of callers' requests.
THEOREM SwitchesAreSingle == Spec => []OneSwitchAtATime
<1>1. Init => OneSwitchAtATime
  BY DEF Init, OneSwitchAtATime
<1>2. ASSUME OneSwitchAtATime, [Next]_vars
      PROVE  OneSwitchAtATime'
  <2> USE <1>2 DEF OneSwitchAtATime, mainVars, ctlVars
  <2>1. CASE UNCHANGED <<doSwitch, mainPc, ctl, mode>> /\ (down => down')
    BY <2>1
  <2>2. CASE UNCHANGED vars
    BY <2>1, <2>2 DEF vars
  <2>3. CASE MainSteps
    <3>1. CASE SetupServices \/ BuildLoop \/ EnterSpin \/ Exit
      BY <3>1 DEF SetupServices, BuildLoop, EnterSpin, Exit
    <3>2. CASE ServeList \/ ServeLoad \/ ServeStartService
      BY <3>2 DEF ServeList, ServeLoad, ServeStartService, Taken, Spinning
    <3>3. CASE ServeSwitch \/ SwitchDone \/ StartServiceDone
      BY <3>3 DEF ServeSwitch, SwitchDone, StartServiceDone
    <3>4. CASE StartSteps("main")
      BY <2>1, <3>4, CallersLeaveSwitch
    <3> QED BY <2>3, <3>1, <3>2, <3>3, <3>4 DEF MainSteps
  <2>4. CASE ModeCallback \/ PerformSwitch
    BY <2>4 DEF ModeCallback, PerformSwitch
  <2> QED BY <2>1, <2>2, <2>3, <2>4, CallersLeaveSwitch DEF Next
<1> QED BY <1>1, <1>2, PTL DEF Spec
----------------------------------------------------------------------------
(* Calls, as if each were handled on its own.                              *)

LEMMA ElemOfOne == \A x : Elem({x}) = x
  BY DEF Elem

LEMMA AskedEmpty == \A c : Asked(c) = {} <=> Queued(c) = {}
  BY DEF Asked

\* What a caller asked, one that is in the queue, is what it asked there.
LEMMA AskedOnce ==
  ASSUME NEW c, NEW i \in Queued(c), Unique(c)
  PROVE  Asked(c) = {queue[i].op}
<1>1. Queued(c) = {i}
  BY DEF Unique
<1> QED BY <1>1 DEF Asked

\* A request that leaves the queue does not change what the others asked.
LEMMA RemovedAsked ==
  ASSUME queue \in Seq(Requests), NEW k, Removed(k), NEW c, queue[k].from # c
  PROVE  Asked(c)' = Asked(c)
<1>1. Len(queue) \in Nat /\ DOMAIN queue = 1 .. Len(queue) /\ k \in 1 .. Len(queue)
        /\ DOMAIN (queue') = 1 .. Len(queue) - 1
  BY DEF Removed
<1>2. \A j \in 1 .. Len(queue) - 1 :
        queue'[j] = queue[IF j < k THEN j ELSE j + 1]
  BY DEF Removed
<1>3. ASSUME NEW j \in Queued(c)'
      PROVE  queue'[j].op \in Asked(c)
  <2> DEFINE i == IF j < k THEN j ELSE j + 1
  <2>1. i \in DOMAIN queue /\ queue'[j] = queue[i] /\ queue[i].from = c
    BY <1>1, <1>2, <1>3 DEF Queued
  <2> HIDE DEF i
  <2> QED BY <2>1 DEF Asked, Queued
<1>4. ASSUME NEW i \in Queued(c)
      PROVE  queue[i].op \in Asked(c)'
  <2> DEFINE j == IF i < k THEN i ELSE i - 1
  <2>1. i # k /\ i \in 1 .. Len(queue) /\ queue[i].from = c
    BY <1>1, <1>4 DEF Queued
  <2>2. j \in DOMAIN (queue') /\ queue'[j] = queue[i]
    BY <1>1, <1>2, <2>1
  <2> HIDE DEF j
  <2> QED BY <2>1, <2>2 DEF Asked, Queued
<1>5. Asked(c)' \subseteq Asked(c)
  BY <1>3 DEF Asked
<1>6. Asked(c) \subseteq Asked(c)'
  BY <1>4 DEF Asked
<1> QED BY <1>5, <1>6

LEMMA AppendAsked ==
  ASSUME queue \in Seq(Requests), NEW r \in Requests,
         queue' = Append(queue, r), NEW c
  PROVE  /\ r.from # c => Asked(c)' = Asked(c)
         /\ r.from = c /\ Queued(c) = {} => Asked(c)' = {r.op}
<1>1. /\ Len(queue) \in Nat
      /\ DOMAIN queue = 1 .. Len(queue)
      /\ \A j \in 1 .. Len(queue) : queue'[j] = queue[j]
      /\ queue'[Len(queue) + 1] = r
  OBVIOUS
<1>2. \A j \in Queued(c) : queue'[j] = queue[j]
  BY <1>1 DEF Queued
<1>3. CASE r.from # c
  <2>1. Queued(c)' = Queued(c)
    BY <1>3, AppendQueued
  <2> QED BY <1>2, <1>3, <2>1 DEF Asked
<1>4. CASE r.from = c /\ Queued(c) = {}
  <2>1. Queued(c)' = {Len(queue) + 1}
    BY <1>4, AppendQueued
  <2> QED BY <1>1, <1>4, <2>1 DEF Asked
<1> QED BY <1>3, <1>4

\* A caller that nothing happens to is at the same stage, whatever main does
\* for another.
LEMMA StageKept ==
  ASSUME NEW c, Pending(c), UNCHANGED <<pc[c], reply[c]>>, Asked(c)' = Asked(c),
         UNCHANGED <<mainPc, doSwitch>> \/ ~Served(c)
  PROVE  CallOf(c)' = CallOf(c) /\ (Waiting(c)' <=> Waiting(c))
<1>1. Waiting(c)' <=> Waiting(c)
  BY DEF Waiting
<1>2. CASE ~Waiting(c)
  BY <1>1, <1>2 DEF CallOf
<1>3. CASE Waiting(c) /\ Asked(c) # {}
  BY <1>1, <1>3 DEF CallOf
<1>4. CASE Waiting(c) /\ Asked(c) = {}
  <2>1. UNCHANGED <<mainPc, doSwitch>>
    BY <1>4, AskedEmpty DEF Pending
  <2> QED BY <1>1, <1>4, <2>1 DEF CallOf
<1> QED BY <1>1, <1>2, <1>3, <1>4

\* One caller has come to a stage, the others are where they were.
LEMMA OneMoves ==
  ASSUME NEW c \in Callers, NEW stage, CallOf(c)' = stage,
         \A d \in Callers \ {c} : CallOf(d)' = CallOf(d)
  PROVE  Calls!Becomes(c, stage) /\ Stages[c] = CallOf(c)
  BY DEF Calls!Becomes, Stages

LEMMA NoneMoves ==
  ASSUME \A d \in Callers : CallOf(d)' = CallOf(d)
  PROVE  UNCHANGED Stages
  BY DEF Stages

\* A caller asks: its call is in the queue, or has failed.
LEMMA CallStage ==
  ASSUME TypeOK, EveryCallPending, NEW c \in Callers, NEW op \in Operations,
         NEW where \in Waits, ~Waiting(c), Call(c, op, where),
         UNCHANGED <<mainPc, serving, doSwitch, down>>
  PROVE  /\ Calls!Becomes(c, IF op \in Services THEN op ELSE "failed")
         /\ Stages[c] = reply[c]
         /\ UNCHANGED <<LateSwitch, Services>>
<1>1. [from |-> c, op |-> op] \in Requests /\ queue \in Seq(Requests)
  BY DEF Requests, TypeOK
<1>2. Pending(c) /\ Queued(c) = {} /\ (Served(c) => down)
  BY DEF EveryCallPending, Pending
<1>3. ASSUME NEW d \in Callers \ {c}
      PROVE  CallOf(d)' = CallOf(d) /\ (Waiting(d)' <=> Waiting(d))
  <2>1. UNCHANGED <<pc[d], reply[d]>>
    BY <1>3 DEF Call, Goto, TypeOK
  <2>2. Asked(d)' = Asked(d)
    <3>1. CASE queue' = Append(queue, [from |-> c, op |-> op])
      BY <1>1, <1>3, <3>1, AppendAsked
    <3>2. CASE UNCHANGED queue
      BY <3>2 DEF Asked, Queued
    <3> QED BY <3>1, <3>2 DEF Call
  <2>3. Pending(d)
    BY <1>3 DEF EveryCallPending
  <2> QED BY <2>1, <2>2, <2>3, StageKept
<1>4. CASE op \in Services
  <2>1. Advertised(op) /\ ~down
    BY <1>4 DEF Services, Advertised
  <2>2. Asked(c)' = {op} /\ Waiting(c)'
    BY <1>1, <1>2, <2>1, AppendAsked DEF Call, Goto, Waiting, TypeOK
  <2>3. CallOf(c)' = op
    BY <2>2, ElemOfOne DEF CallOf
  <2>4. ~Served(c)
    BY <1>2, <2>1
  <2>5. serving \in Callers
    BY DEF TypeOK
  <2>6. UNCHANGED LateSwitch
    BY <1>3, <2>4, <2>5 DEF LateSwitch, Served
  <2> QED BY <1>3, <1>4, <2>3, <2>6, OneMoves DEF CallOf, Services, Advertised
<1>5. CASE op \notin Services
  <2>1. ~Waiting(c)' /\ reply'[c] = "failed"
    BY <1>5 DEF Services, Call, Goto, Waiting, TypeOK
  <2>2. CallOf(c)' = "failed"
    BY <2>1 DEF CallOf
  <2>3. serving \in Callers
    BY DEF TypeOK
  <2>4. UNCHANGED LateSwitch
    BY <1>3, <2>1, <2>3 DEF LateSwitch
  <2> QED BY <1>3, <1>5, <2>2, <2>4, OneMoves DEF CallOf, Services, Advertised
<1> QED BY <1>4, <1>5

\* A caller moves on to where it waits for nothing, with or without an answer.
LEMMA MoveStage ==
  ASSUME TypeOK, EveryCallPending, NEW c \in Callers, NEW where \in Pcs \ Waits,
         ~Waiting(c), Goto(c, where),
         UNCHANGED <<queue, mainPc, serving, doSwitch, down>>,
         \A d \in Callers \ {c} : reply'[d] = reply[d]
  PROVE  /\ Calls!Becomes(c, reply'[c])
         /\ Stages[c] = reply[c]
         /\ UNCHANGED <<LateSwitch, Services>>
         /\ reply'[c] = reply[c] => UNCHANGED Stages
<1>1. ASSUME NEW d \in Callers \ {c}
      PROVE  CallOf(d)' = CallOf(d) /\ (Waiting(d)' <=> Waiting(d))
  <2>1. UNCHANGED <<pc[d], reply[d]>> /\ Asked(d)' = Asked(d) /\ Pending(d)
    BY <1>1 DEF Goto, TypeOK, Asked, Queued, EveryCallPending
  <2> QED BY <2>1, StageKept
<1>2. ~Waiting(c)' /\ CallOf(c)' = reply'[c]
  BY DEF Goto, Waiting, CallOf, TypeOK
<1>3. CallOf(c) = reply[c] /\ serving \in Callers
  BY DEF CallOf, TypeOK
<1>4. UNCHANGED LateSwitch
  BY <1>1, <1>2, <1>3 DEF LateSwitch
<1>5. reply'[c] = reply[c] => UNCHANGED Stages
  BY <1>1, <1>2, <1>3, NoneMoves
<1> QED BY <1>1, <1>2, <1>3, <1>4, <1>5, OneMoves DEF Services, Advertised

LEMMA ReturnStage ==
  ASSUME TypeOK, EveryCallPending, NEW c \in Callers, NEW where \in Pcs \ Waits,
         ~Waiting(c), Return(c, where),
         UNCHANGED <<mainPc, serving, doSwitch, down>>
  PROVE  /\ Calls!Becomes(c, "none")
         /\ Stages[c] = reply[c]
         /\ UNCHANGED <<LateSwitch, Services>>
<1>1. reply'[c] = "none" /\ \A d \in Callers \ {c} : reply'[d] = reply[d]
  BY DEF Return, TypeOK
<1> QED BY <1>1, MoveStage DEF Return

----------------------------------------------------------------------------
(* The refinement of ControllerCalls.                                      *)

\* A caller that waits for nothing holds no answer.
RepliesRead == \A c \in Callers : pc[c] \notin Waits => reply[c] = "none"

\* main's own calls, in the start_controller handler, only ever fail, which takes
\* a shutdown.
MainRefused ==
  /\ reply["main"] \in {"none", "failed"}
  /\ reply["main"] = "failed" \/ pc["main"] = "done" => down
  /\ pc["main"] \in {"idle", "startController", "listed", "done"}
  /\ ~started["main"]

\* Mode messages wait for a controller that is loaded.
MessageFits == modeMsg # "none" => ctl # "unloaded"

CallsInv == /\ TypeOK /\ MainFit /\ EveryCallPending /\ OneSwitchAtATime
            /\ RepliesRead /\ MainRefused /\ MessageFits

\* main is no caller of its own services while it serves others.
LEMMA TakenNotMain ==
  ASSUME CallsInv, NEW op, Taken(op)
  PROVE  Head1.from # "main" /\ ~Waiting("main")
<1>1. pc["main"] = "idle"
  BY DEF CallsInv, MainFit, Taken, Spinning
<1>2. ~Waiting("main")
  BY <1>1 DEF Waiting, Waits
<1>3. \E c \in Callers : c = Head1.from /\ Waiting(c)
  BY TakenPending DEF CallsInv
<1> QED BY <1>2, <1>3

LEMMA ReadKept ==
  ASSUME TypeOK, RepliesRead, NEW c \in Callers,
         \/ \E op \in Operations, where \in Waits : Call(c, op, where)
         \/ \E where \in Pcs \ Waits : Return(c, where)
         \/ pc[c] \notin Waits /\ (\E where \in Pcs : Goto(c, where)) /\ UNCHANGED reply
  PROVE  RepliesRead'
<1>1. \A d \in Callers \ {c} : UNCHANGED <<pc[d], reply[d]>>
  BY DEF Call, Return, Goto, TypeOK
<1>2. pc'[c] \notin Waits => reply'[c] = "none"
  BY DEF Call, Return, Goto, TypeOK, RepliesRead
<1> QED BY <1>1, <1>2 DEF RepliesRead

\* Callers other than main leave main's calls alone.
LEMMA MainLeft ==
  ASSUME TypeOK, MainRefused, NEW c \in Callers \ {"main"},
         \/ \E op \in Operations, where \in Waits : Call(c, op, where)
         \/ \E where \in Pcs \ Waits : Return(c, where)
         \/ (\E where \in Pcs : Goto(c, where)) /\ UNCHANGED reply,
         started' = started \/ \E ok \in BOOLEAN : Returned(c, ok),
         UNCHANGED down
  PROVE  MainRefused'
<1>1. "main" \in Callers /\ c # "main"
  BY DEF Callers
<1>2. UNCHANGED <<pc["main"], reply["main"]>>
  BY <1>1 DEF Call, Return, Goto, TypeOK
<1>3. started'["main"] = started["main"]
  BY <1>1 DEF Returned, TypeOK
<1> QED BY <1>2, <1>3 DEF MainRefused

AbstractStep == [Calls!Next]_(Calls!callsVars)

PastStart == {"switched", "starting", "done"}

\* Who moves may give up its right to ask for a start.
LEMMA MayStartMoves ==
  ASSUME TypeOK, NEW c \in Callers, NEW where, Goto(c, where)
  PROVE  /\ c \notin Once \/ (where \in PastStart <=> Spent(c))
              => UNCHANGED MayStart
         /\ where \in PastStart => MayStart' = MayStart \ (Once \cap {c})
<1>1. \A d \in Callers : pc'[d] = IF d = c THEN where ELSE pc[d]
  BY DEF Goto, TypeOK
<1> QED BY <1>1 DEF MayStart, Spent, PastStart

\* A step in which a caller asks, one in which it reads its answer, one in which
\* it moves on between two calls.
LEMMA AskStep ==
  ASSUME CallsInv, NEW c \in Callers, NEW op \in Operations, NEW where \in Waits,
         ~Waiting(c), Call(c, op, where),
         UNCHANGED <<mainPc, serving, doSwitch, down, ctl, mode>>,
         IF op = "start" THEN ~Spent(c) /\ where \in PastStart
         ELSE c \in Once => (where \in PastStart <=> Spent(c))
  PROVE  AbstractStep
<1>1. /\ Calls!Becomes(c, IF op \in Services THEN op ELSE "failed")
      /\ Stages[c] = reply[c]
      /\ UNCHANGED <<LateSwitch, Services>>
  BY CallStage DEF CallsInv
<1>2. reply[c] \in {"none"} \cup Calls!Answers
  BY DEF CallsInv, TypeOK, Replies, Calls!Answers
<1>3. MayStart' = IF op = "start" THEN MayStart \ (Once \cap {c}) ELSE MayStart
  BY MayStartMoves DEF CallsInv, Call
<1>4. op = "start" => c \in MayStart
  BY DEF MayStart
<1>5. Calls!Ask(c, op)
  BY <1>1, <1>2, <1>3, <1>4 DEF Calls!Ask
<1>6. op \in Calls!Operations
  BY DEF Operations, Calls!Operations
<1> QED BY <1>5, <1>6 DEF AbstractStep, Calls!Next

LEMMA ReadStep ==
  ASSUME CallsInv, NEW c \in Callers, NEW where \in Pcs \ Waits,
         reply[c] # "none", Return(c, where),
         UNCHANGED <<mainPc, serving, doSwitch, down, ctl, mode>>,
         c \in Once => where \in PastStart
  PROVE  AbstractStep
<1>1. ~Waiting(c)
  BY DEF Waiting
<1>2. /\ Calls!Becomes(c, "none")
      /\ Stages[c] = reply[c]
      /\ UNCHANGED <<LateSwitch, Services>>
  BY <1>1, ReturnStage DEF CallsInv
<1>3. reply[c] \in Calls!Answers
  BY DEF CallsInv, TypeOK, Replies, Calls!Answers
<1>4. MayStart' \in {MayStart, MayStart \ (Once \cap {c})}
  BY MayStartMoves DEF CallsInv, Return
<1>5. Calls!Read(c)
  BY <1>2, <1>3, <1>4 DEF Calls!Read
<1> QED BY <1>5 DEF AbstractStep, Calls!Next

LEMMA MoveStep ==
  ASSUME CallsInv, NEW c \in Callers, NEW where \in Pcs \ Waits, pc[c] \notin Waits,
         Goto(c, where),
         UNCHANGED <<queue, reply, mainPc, serving, doSwitch, down, ctl, mode>>,
         c \in Once => (where \in PastStart <=> Spent(c))
  PROVE  AbstractStep
<1>1. ~Waiting(c)
  BY DEF Waiting
<1>2. UNCHANGED <<Stages, LateSwitch, Services>>
  BY <1>1, MoveStage DEF CallsInv
<1>3. UNCHANGED MayStart
  BY MayStartMoves DEF CallsInv
<1> QED BY <1>2, <1>3 DEF AbstractStep, Calls!callsVars

\* The steps of startController, whichever thread runs it.
LEMMA StartImplements ==
  ASSUME CallsInv, NEW c \in {"starter", "joy", "main"}, StartSteps(c)
  PROVE  AbstractStep /\ RepliesRead' /\ MainRefused'
<1> USE DEF mainVars, ctlVars
<1>1. /\ c \in Callers /\ {"listed", "switched"} \subseteq Waits
      /\ {"list", "start"} \subseteq Operations
      /\ AfterStart(c) \in Pcs \ Waits /\ (c # "joy" => AfterStart(c) = "done")
      /\ TypeOK /\ RepliesRead /\ MainRefused
      /\ PastStart = {"switched", "starting", "done"}
  BY DEF Callers, Pcs, Waits, Operations, AfterStart, CallsInv, PastStart
<1>2. CASE StartController(c)
  <2>1. /\ Call(c, "list", "listed") /\ ~Waiting(c) /\ ~Spent(c)
        /\ UNCHANGED <<mainPc, serving, doSwitch, down, ctl, mode, started>>
    BY <1>2 DEF StartController, Waiting, Waits, Spent
  <2>2. AbstractStep
    BY <1>1, <2>1, AskStep
  <2>3. RepliesRead'
    BY <1>1, <2>1, ReadKept
  <2>4. MainRefused'
    <3>1. CASE c = "main"
      <4>1. /\ pc'["main"] = "listed" /\ mainPc = "handler"
            /\ reply'["main"] \in {"none", "failed"}
            /\ reply'["main"] = "failed" => ~Advertised("list")
        BY <1>1, <1>2, <2>1, <3>1 DEF Call, Goto, TypeOK, StartController,
          CallsInv, MainFit, MainRefused, RepliesRead, Waits
      <4> QED BY <1>1, <2>1, <4>1 DEF MainRefused, Advertised
    <3>2. CASE c # "main"
      BY <1>1, <2>1, <3>2, MainLeft
    <3> QED BY <3>1, <3>2
  <2> QED BY <2>2, <2>3, <2>4
<1>3. CASE StartListed(c)
  <2>1. /\ ~Waiting(c) /\ ~Spent(c) /\ reply[c] # "none" /\ pc[c] = "listed"
        /\ UNCHANGED <<mainPc, serving, doSwitch, down, ctl, mode>>
    BY <1>3 DEF StartListed, Answered, Waiting, Spent
  <2>2. CASE reply[c] = "idle" /\ Call(c, "start", "switched") /\ UNCHANGED started
    <3>1. AbstractStep
      BY <1>1, <2>1, <2>2, AskStep
    <3>2. RepliesRead'
      BY <1>1, <2>2, ReadKept
    <3>3. c # "main"
      BY <1>1, <2>2 DEF MainRefused
    <3>4. MainRefused'
      BY <1>1, <2>1, <2>2, <3>3, MainLeft
    <3> QED BY <3>1, <3>2, <3>4
  <2>3. CASE Return(c, AfterStart(c)) /\ Returned(c, reply[c] = "running")
    <3>1. AbstractStep
      BY <1>1, <2>1, <2>3, ReadStep DEF Once
    <3>2. RepliesRead'
      BY <1>1, <2>3, ReadKept
    <3>3. MainRefused'
      <4>1. CASE c = "main"
        <5>1. reply["main"] = "failed" /\ down
          BY <1>1, <2>1, <4>1 DEF MainRefused
        <5>2. pc'["main"] = "done" /\ reply'["main"] = "none" /\ ~started'["main"]
          BY <1>1, <2>3, <4>1, <5>1 DEF Return, Goto, Returned, TypeOK
        <5> QED BY <2>1, <5>1, <5>2 DEF MainRefused
      <4>2. CASE c # "main"
        BY <1>1, <2>1, <2>3, <4>2, MainLeft
      <4> QED BY <4>1, <4>2
    <3> QED BY <3>1, <3>2, <3>3
  <2> QED BY <1>3, <2>2, <2>3 DEF StartListed
<1>4. CASE StartSwitched(c)
  <2>1. /\ reply[c] # "none" /\ pc[c] = "switched" /\ c # "main"
        /\ UNCHANGED <<mainPc, serving, doSwitch, down, ctl, mode>>
        /\ Return(c, AfterStart(c)) /\ Returned(c, reply[c] = "ok")
    BY <1>1, <1>4 DEF StartSwitched, Answered, MainRefused
  <2>2. AbstractStep
    BY <1>1, <2>1, ReadStep DEF Once
  <2>3. RepliesRead' /\ MainRefused'
    BY <1>1, <2>1, ReadKept, MainLeft
  <2> QED BY <2>2, <2>3
<1> QED BY <1>2, <1>3, <1>4 DEF StartSteps

\* Messages go to a controller that is there.
LEMMA MessageKept ==
  ASSUME TypeOK, MessageFits,
         UNCHANGED modeMsg \/ modeMsg' = "none" \/ \E m \in {"WALK", "IDLE"} : Publish(m),
         ctl' = ctl \/ ctl' # "unloaded"
  PROVE  MessageFits'
  BY DEF MessageFits, Publish, TypeOK

\* The other callers, and the environment.
LEMMA CallerImplements ==
  ASSUME CallsInv,
         StarterWakes \/ JoyAskedY \/ JoyAskX \/ JoyAskedX \/ SpawnerSteps
           \/ OperatorDone \/ Environment
  PROVE  AbstractStep /\ RepliesRead' /\ MainRefused' /\ MessageFits'
<1> USE DEF mainVars, callVars, ctlVars
<1>1. /\ {"starter", "joy", "spawner", "operator"} \subseteq Callers \ {"main"}
      /\ {"idle", "sleep", "startController", "askX", "done"} \subseteq Pcs \ Waits
      /\ {"listed", "askedY", "askedX", "loading", "starting",
          "serviceWait"} \subseteq Waits
      /\ {"list", "load", "start", "stop", "startService"} \subseteq Operations
      /\ Once = {"starter", "spawner"}
      /\ PastStart = {"switched", "starting", "done"}
  BY DEF Callers, Pcs, Waits, Operations, Once, PastStart
<1>2. TypeOK /\ RepliesRead /\ MainRefused /\ MessageFits /\ Waits \subseteq Pcs
  BY DEF CallsInv, Pcs
<1>3. ASSUME NEW c \in Callers \ {"main"}, NEW op \in Operations, NEW where \in Waits,
             Call(c, op, where), ~Waiting(c),
             IF op = "start" THEN ~Spent(c) /\ where \in PastStart
             ELSE c \in Once => (where \in PastStart <=> Spent(c)),
             UNCHANGED <<mainPc, serving, doSwitch, down, ctl, mode, started>>
      PROVE  AbstractStep /\ RepliesRead' /\ MainRefused'
  <2>1. AbstractStep
    BY <1>3, AskStep
  <2>2. RepliesRead'
    BY <1>2, <1>3, ReadKept
  <2>3. MainRefused'
    BY <1>2, <1>3, MainLeft
  <2> QED BY <2>1, <2>2, <2>3
<1>4. ASSUME NEW c \in Callers \ {"main"}, NEW where \in Pcs \ Waits,
             Return(c, where), reply[c] # "none",
             c \in Once => where \in PastStart,
             UNCHANGED <<mainPc, serving, doSwitch, down, ctl, mode, started>>
      PROVE  AbstractStep /\ RepliesRead' /\ MainRefused'
  <2>1. AbstractStep
    BY <1>4, ReadStep
  <2>2. RepliesRead'
    BY <1>2, <1>4, ReadKept
  <2>3. MainRefused'
    BY <1>2, <1>4, MainLeft
  <2> QED BY <2>1, <2>2, <2>3
<1>5. ASSUME NEW c \in Callers \ {"main"}, NEW where \in Pcs \ Waits,
             Goto(c, where), pc[c] \notin Waits,
             c \in Once => (where \in PastStart <=> Spent(c)),
             UNCHANGED <<queue, reply, mainPc, serving, doSwitch, down, ctl, mode,
                         started>>
      PROVE  AbstractStep /\ RepliesRead' /\ MainRefused'
  <2>1. AbstractStep
    BY <1>5, MoveStep
  <2>2. RepliesRead'
    BY <1>2, <1>5, ReadKept
  <2>3. MainRefused'
    BY <1>2, <1>5, MainLeft
  <2> QED BY <2>1, <2>2, <2>3
<1>6. CASE StarterWakes
  <2>1. /\ Goto("starter", "startController") /\ pc["starter"] = "sleep"
        /\ UNCHANGED <<queue, reply, mainPc, serving, doSwitch, down, ctl, mode,
                       started, modeMsg>>
    BY <1>6 DEF StarterWakes
  <2>2. pc["starter"] \notin Waits /\ ~Spent("starter")
    BY <2>1 DEF Waits, Spent
  <2> QED BY <1>1, <1>2, <1>5, <2>1, <2>2, MessageKept
<1>7. CASE JoyAskedY
  <2>1. /\ reply["joy"] # "none"
        /\ \E where \in {"askX", "startController"} : Return("joy", where)
        /\ UNCHANGED modeMsg \/ Publish("WALK")
        /\ UNCHANGED <<mainPc, serving, doSwitch, down, ctl, mode, started>>
    BY <1>7 DEF JoyAskedY, Answered
  <2> QED BY <1>1, <1>2, <1>4, <2>1, MessageKept
<1>8. CASE JoyAskX
  <2>1. /\ pc["joy"] = "askX"
        /\ \/ Call("joy", "list", "askedX")
           \/ Goto("joy", "idle") /\ UNCHANGED <<queue, reply>>
        /\ UNCHANGED <<mainPc, serving, doSwitch, down, ctl, mode, started, modeMsg>>
    BY <1>8 DEF JoyAskX
  <2>2. pc["joy"] \notin Waits /\ ~Waiting("joy") /\ "joy" \notin Once
    BY <1>1, <2>1 DEF Waits, Waiting
  <2> QED BY <1>1, <1>2, <1>3, <1>5, <2>1, <2>2, MessageKept
<1>9. CASE JoyAskedX
  <2>1. /\ reply["joy"] # "none"
        /\ Return("joy", "idle")
        /\ UNCHANGED modeMsg \/ Publish("IDLE")
        /\ UNCHANGED <<mainPc, serving, doSwitch, down, ctl, mode, started>>
    BY <1>9 DEF JoyAskedX, Answered
  <2> QED BY <1>1, <1>2, <1>4, <2>1, MessageKept
<1>10. CASE SpawnerSteps
  <2>1. UNCHANGED <<mainPc, serving, doSwitch, down, ctl, mode, started, modeMsg>>
    BY <1>10 DEF SpawnerSteps, SpawnerLoads, SpawnerStarts, SpawnerDone
  <2>2. CASE SpawnerLoads
    <3>1. Call("spawner", "load", "loading") /\ ~Waiting("spawner") /\ ~Spent("spawner")
      BY <2>2 DEF SpawnerLoads, Waiting, Waits, Spent
    <3> QED BY <1>1, <1>2, <1>3, <2>1, <3>1, MessageKept
  <2>3. CASE SpawnerStarts
    <3>1. /\ reply["spawner"] # "none" /\ ~Waiting("spawner") /\ ~Spent("spawner")
          /\ Call("spawner", "start", "starting") \/ Return("spawner", "done")
      BY <2>3 DEF SpawnerStarts, Answered, Waiting, Spent
    <3> QED BY <1>1, <1>2, <1>3, <1>4, <2>1, <3>1, MessageKept
  <2>4. CASE SpawnerDone
    <3>1. reply["spawner"] # "none" /\ Return("spawner", "done")
      BY <2>4 DEF SpawnerDone, Answered
    <3> QED BY <1>1, <1>2, <1>4, <2>1, <3>1, MessageKept
  <2> QED BY <1>10, <2>2, <2>3, <2>4 DEF SpawnerSteps
<1>11. CASE OperatorDone
  <2>1. /\ reply["operator"] # "none" /\ Return("operator", "idle")
        /\ UNCHANGED <<mainPc, serving, doSwitch, down, ctl, mode, started, modeMsg>>
    BY <1>11 DEF OperatorDone, Answered
  <2> QED BY <1>1, <1>2, <1>4, <2>1, MessageKept
<1>12. CASE Environment
  <2>1. ASSUME NEW held \in Shortcuts, JoyPress(held)
        PROVE  AbstractStep /\ RepliesRead' /\ MainRefused' /\ MessageFits'
    <3>1. /\ pc["joy"] = "idle"
          /\ \/ Call("joy", "list", "askedY")
             \/ Goto("joy", "askX") /\ UNCHANGED <<queue, reply>>
          /\ UNCHANGED <<mainPc, serving, doSwitch, down, ctl, mode, started, modeMsg>>
      BY <2>1 DEF JoyPress
    <3>2. pc["joy"] \notin Waits /\ ~Waiting("joy") /\ "joy" \notin Once
      BY <1>1, <3>1 DEF Waits, Waiting
    <3> QED BY <1>1, <1>2, <1>3, <1>5, <3>1, <3>2, MessageKept
  <2>2. ASSUME NEW op \in {"stop", "startService"}, OperatorCalls(op)
        PROVE  AbstractStep /\ RepliesRead' /\ MainRefused' /\ MessageFits'
    <3>1. /\ Call("operator", op, "serviceWait") /\ ~Waiting("operator")
          /\ UNCHANGED <<mainPc, serving, doSwitch, down, ctl, mode, started, modeMsg>>
      BY <2>2 DEF OperatorCalls, Waiting, Waits
    <3>2. op \in Operations /\ op # "start" /\ "operator" \notin Once
      BY <1>1
    <3> QED BY <1>1, <1>2, <1>3, <3>1, <3>2, MessageKept
  <2>3. ASSUME NEW m \in {"WALK", "IDLE"}, OperatorMode(m)
        PROVE  AbstractStep /\ RepliesRead' /\ MainRefused' /\ MessageFits'
    <3>1. /\ Publish(m)
          /\ UNCHANGED <<pc, queue, reply, mainPc, serving, doSwitch, down, ctl, mode,
                         started>>
      BY <2>3 DEF OperatorMode
    <3>2. UNCHANGED <<Stages, LateSwitch, MayStart, Services>>
      BY <3>1 DEF Stages, CallOf, Asked, Queued, Waiting, LateSwitch, MayStart,
        Spent, Services, Advertised
    <3> QED BY <1>2, <3>1, <3>2, MessageKept
            DEF AbstractStep, Calls!callsVars, RepliesRead, MainRefused
  <2>4. CASE Shutdown
    <3>1. /\ down' = TRUE
          /\ UNCHANGED <<pc, queue, reply, mainPc, serving, doSwitch, ctl, mode,
                         modeMsg, started>>
      BY <2>4 DEF Shutdown
    <3>2. UNCHANGED <<Stages, LateSwitch, MayStart>> /\ Services' = {}
      BY <3>1 DEF Stages, CallOf, Asked, Queued, Waiting, LateSwitch, MayStart,
        Spent, Services, Advertised
    <3>3. Calls!Shutdown
      BY <3>1, <3>2 DEF Calls!Shutdown
    <3> QED BY <1>2, <3>1, <3>3
            DEF AbstractStep, Calls!Next, RepliesRead, MainRefused, MessageFits
  <2> QED BY <1>12, <2>1, <2>2, <2>3, <2>4 DEF Environment
<1> QED BY <1>6, <1>7, <1>8, <1>9, <1>10, <1>11, <1>12

\* A call that is broken off: its switch may still come.
LEMMA CancelImplements ==
  ASSUME CallsInv, NEW c \in Callers, CallCancelled(c)
  PROVE  AbstractStep /\ RepliesRead' /\ MainRefused' /\ MessageFits'
<1> USE DEF mainVars, ctlVars
<1>1. /\ down /\ Waiting(c) /\ reply' = [reply EXCEPT ![c] = "failed"]
      /\ UNCHANGED <<mainPc, serving, pc, doSwitch, ctl, mode, modeMsg, started, down>>
      /\ TypeOK /\ Pending(c) /\ serving \in Callers
  BY DEF CallCancelled, CallsInv, EveryCallPending, TypeOK
<1>2. ASSUME NEW d \in Callers \ {c}
      PROVE  CallOf(d)' = CallOf(d) /\ (Waiting(d)' <=> Waiting(d))
  <2>1. UNCHANGED <<pc[d], reply[d]>> /\ Pending(d)
    BY <1>1, <1>2 DEF TypeOK, CallsInv, EveryCallPending
  <2>2. Asked(d)' = Asked(d)
    <3>1. CASE UNCHANGED queue
      BY <3>1 DEF Asked, Queued
    <3>2. CASE \E i \in Queued(c) : queue' = RemoveAt(queue, i)
      <4>1. PICK i \in Queued(c) : queue' = RemoveAt(queue, i)
        BY <3>2
      <4>2. queue \in Seq(Requests) /\ Removed(i) /\ queue[i].from = c
        BY <1>1, <4>1, RemoveAtRemoves DEF TypeOK
      <4> QED BY <1>2, <4>2, RemovedAsked
    <3> QED BY <3>1, <3>2 DEF CallCancelled
  <2> QED BY <1>1, <2>1, <2>2, StageKept
<1>3. ~Waiting(c)' /\ CallOf(c)' = "failed" /\ reply'[c] = "failed"
  BY <1>1 DEF Waiting, CallOf, TypeOK
<1>4. Calls!Becomes(c, "failed") /\ Stages[c] = CallOf(c)
  BY <1>2, <1>3, OneMoves
<1>5. CallOf(c) \in Calls!Operations \cup {"done"}
  <2>1. CASE Asked(c) # {}
    <3>1. PICK i \in Queued(c) : TRUE
      BY <2>1 DEF Asked
    <3>2. Unique(c)
      BY <1>1 DEF Pending, Unique
    <3>3. CallOf(c) = queue[i].op
      BY <1>1, <2>1, <3>1, <3>2, AskedOnce, ElemOfOne DEF CallOf
    <3>4. queue[i] \in Requests
      BY <1>1, <3>1 DEF Queued, TypeOK
    <3> QED BY <3>3, <3>4 DEF Requests, Operations, Calls!Operations
  <2>2. CASE Asked(c) = {}
    BY <1>1, <2>2 DEF CallOf, TypeOK, Calls!Operations
  <2> QED BY <2>1, <2>2
<1>6. LateSwitch' \in {LateSwitch} \cup (IF LateSwitch = "none"
                                        THEN {CallOf(c)} \cap {"start", "stop"} ELSE {})
  <2>1. CASE mainPc = "switching" /\ serving = c
    <3>1. LateSwitch = "none" /\ LateSwitch' = doSwitch
      BY <1>1, <1>3, <2>1 DEF LateSwitch
    <3>2. Asked(c) = {}
      BY <1>1, <2>1, AskedEmpty DEF Pending, Served
    <3>3. doSwitch # "none" => CallOf(c) = doSwitch
      BY <1>1, <2>1, <3>2 DEF CallOf
    <3> QED BY <1>1, <3>1, <3>3 DEF TypeOK
  <2>2. CASE ~(mainPc = "switching" /\ serving = c)
    BY <1>1, <1>2, <2>2 DEF LateSwitch
  <2> QED BY <2>1, <2>2
<1>7. UNCHANGED <<MayStart, Services>>
  BY <1>1 DEF MayStart, Spent, Services, Advertised
<1>8. Calls!Refuse(c)
  BY <1>1, <1>4, <1>5, <1>6, <1>7 DEF Calls!Refuse
<1>9. RepliesRead'
  BY <1>1 DEF CallsInv, RepliesRead, Waiting, TypeOK
<1>10. MainRefused' /\ MessageFits'
  BY <1>1 DEF CallsInv, MainRefused, MessageFits, TypeOK, Callers
<1> QED BY <1>8, <1>9, <1>10 DEF AbstractStep, Calls!Next

\* The request main takes is the call it is about to handle.
LEMMA TakenStage ==
  ASSUME CallsInv, NEW op, Taken(op)
  PROVE  /\ \A d \in Callers : ~Served(d)
         /\ \E c \in Callers \ {"main"} :
              /\ c = Head1.from /\ Waiting(c) /\ CallOf(c) = op /\ Asked(c)' = {}
              /\ \A d \in Callers \ {c} : Asked(d)' = Asked(d)
<1>1. TypeOK /\ EveryCallPending /\ queue \in Seq(Requests)
  BY DEF CallsInv, TypeOK
<1>2. Removed(1) /\ queue[1] = Head1 /\ Head1.from \in Callers /\ Head1.op = op
  BY <1>1, TailRemoves, TakenTypes DEF Taken, Head1
<1>3. PICK c \in Callers : c = Head1.from /\ Waiting(c) /\ Queued(c)' = {}
  BY <1>1, TakenPending
<1>4. \A d \in Callers : ~Served(d)
  BY <1>1, TakenPending
<1>5. 1 \in Queued(c) /\ Unique(c)
  BY <1>1, <1>2, <1>3 DEF Queued, Removed, EveryCallPending, Pending, Unique
<1>6. Asked(c) = {op}
  BY <1>2, <1>5, AskedOnce
<1>7. CallOf(c) = op
  BY <1>3, <1>6, ElemOfOne DEF CallOf
<1>8. \A d \in Callers \ {c} : Asked(d)' = Asked(d)
  BY <1>1, <1>2, <1>3, RemovedAsked
<1>9. Asked(c)' = {}
  BY <1>3 DEF Asked
<1>10. Head1.from # "main"
  BY TakenNotMain
<1> QED BY <1>3, <1>4, <1>7, <1>8, <1>9, <1>10

LEMMA AnswerKept ==
  ASSUME CallsInv, NEW c \in Callers, NEW with, Answer(c, with),
         c # "main" \/ ~Waiting("main"), UNCHANGED <<pc, started, down>>
  PROVE  RepliesRead' /\ MainRefused'
<1>1. UNCHANGED reply \/ (Waiting(c) /\ reply' = [reply EXCEPT ![c] = with])
  BY DEF Answer
<1>2. reply'["main"] = reply["main"]
  <2>1. "main" \in Callers
    BY DEF Callers
  <2> QED BY <1>1, <2>1 DEF CallsInv, TypeOK
<1>3. \A d \in Callers : pc[d] \notin Waits => reply'[d] = reply[d]
  BY <1>1 DEF CallsInv, TypeOK, Waiting
<1> QED BY <1>2, <1>3 DEF CallsInv, RepliesRead, MainRefused

\* main answers the call it has taken at once.
LEMMA ServeStage ==
  ASSUME CallsInv, NEW op, Taken(op), NEW with, with # "none",
         Answer(Head1.from, with),
         UNCHANGED <<pc, mainPc, serving, doSwitch, started, down>>
  PROVE  /\ \E c \in Callers : Stages[c] = op /\ Calls!Becomes(c, with)
         /\ UNCHANGED <<LateSwitch, MayStart, Services>>
         /\ RepliesRead' /\ MainRefused'
<1>1. PICK c \in Callers \ {"main"} :
        /\ c = Head1.from /\ Waiting(c) /\ CallOf(c) = op
        /\ \A d \in Callers \ {c} : Asked(d)' = Asked(d)
  BY TakenStage
<1>2. \A d \in Callers : ~Served(d)
  BY TakenStage
<1>3. reply' = [reply EXCEPT ![c] = with]
  BY <1>1 DEF Answer
<1>4. ASSUME NEW d \in Callers \ {c} PROVE CallOf(d)' = CallOf(d)
  <2>1. UNCHANGED <<pc[d], reply[d]>> /\ Pending(d)
    BY <1>3, <1>4 DEF CallsInv, TypeOK, EveryCallPending
  <2> QED BY <1>1, <1>2, <2>1, StageKept
<1>5. CallOf(c)' = with
  BY <1>3 DEF CallOf, Waiting, CallsInv, TypeOK
<1>6. mainPc = "spin"
  BY DEF Taken, Spinning
<1>7. UNCHANGED <<LateSwitch, MayStart, Services>>
  BY <1>6 DEF LateSwitch, MayStart, Spent, Services, Advertised
<1>8. RepliesRead' /\ MainRefused'
  BY <1>1, AnswerKept
<1> QED BY <1>1, <1>2, <1>4, <1>5, <1>7, <1>8, OneMoves

LEMMA ServeImplements ==
  ASSUME CallsInv, ServeList \/ ServeLoad
  PROVE  AbstractStep /\ RepliesRead' /\ MainRefused' /\ MessageFits'
<1> USE DEF mainVars, ctlVars
<1>1. CASE ServeList
  <2>1. /\ Taken("list")
        /\ Answer(Head1.from, IF ctl = "running" THEN "running" ELSE "idle")
        /\ UNCHANGED <<pc, mainPc, serving, doSwitch, started, down, ctl, mode, modeMsg>>
    BY <1>1 DEF ServeList
  <2> DEFINE with == IF ctl = "running" THEN "running" ELSE "idle"
  <2>2. with # "none"
    OBVIOUS
  <2> HIDE DEF with
  <2>3. /\ \E c \in Callers : Stages[c] = "list" /\ Calls!Becomes(c, with)
        /\ UNCHANGED <<LateSwitch, MayStart, Services>>
        /\ RepliesRead' /\ MainRefused'
    BY <2>1, <2>2, ServeStage DEF with
  <2>4. \E c \in Callers : Calls!List(c)
    BY <2>1, <2>3 DEF Calls!List, with
  <2>5. MessageFits'
    BY <2>1 DEF MessageFits, CallsInv
  <2> QED BY <2>3, <2>4, <2>5 DEF AbstractStep, Calls!Next
<1>2. CASE ServeLoad
  <2>1. /\ Taken("load")
        /\ \/ ctl = "unloaded" /\ ctl' = "loaded" /\ Answer(Head1.from, "ok")
           \/ UNCHANGED ctl /\ Answer(Head1.from, "failed")
        /\ UNCHANGED <<pc, mainPc, serving, doSwitch, started, down, mode, modeMsg>>
    BY <1>2 DEF ServeLoad
  <2>2. PICK with \in {"ok", "failed"} :
          /\ Answer(Head1.from, with)
          /\ \/ with = "ok" /\ ctl = "unloaded" /\ ctl' = "loaded"
             \/ with = "failed" /\ UNCHANGED ctl
    BY <2>1
  <2>3. /\ \E c \in Callers : Stages[c] = "load" /\ Calls!Becomes(c, with)
        /\ UNCHANGED <<LateSwitch, MayStart, Services>>
        /\ RepliesRead' /\ MainRefused'
    BY <2>1, <2>2, ServeStage
  <2>4. \E c \in Callers : Calls!Load(c)
    BY <2>1, <2>2, <2>3 DEF Calls!Load
  <2>5. MessageFits'
    BY <2>1, <2>2 DEF MessageFits, CallsInv
  <2> QED BY <2>3, <2>4, <2>5 DEF AbstractStep, Calls!Next
<1> QED BY <1>1, <1>2

\* main takes up a call that it cannot answer at once.
LEMMA TakeImplements ==
  ASSUME CallsInv, ServeSwitch \/ ServeStartService
  PROVE  AbstractStep /\ RepliesRead' /\ MainRefused' /\ MessageFits'
<1> USE DEF mainVars, ctlVars
<1>1. /\ mainPc = "spin" /\ ~down /\ doSwitch = "none" /\ pc["main"] = "idle"
      /\ "main" \in Callers
  BY DEF ServeSwitch, ServeStartService, Taken, Spinning, CallsInv, MainFit,
    OneSwitchAtATime, Callers
<1>2. /\ \E op \in {"start", "stop", "startService"} :
           /\ Taken(op)
           /\ \/ /\ op # "startService" /\ mainPc' = "switching" /\ doSwitch' = op
                 /\ UNCHANGED <<pc, reply>>
              \/ /\ op = "startService" /\ mainPc' = "handler" /\ UNCHANGED doSwitch
                 /\ Goto("main", "startController") /\ UNCHANGED reply
      /\ serving' = Head1.from
      /\ UNCHANGED <<ctl, mode, modeMsg, started, down>>
  BY DEF ServeSwitch, ServeStartService
<1>3. PICK op \in {"start", "stop", "startService"} :
           /\ Taken(op)
           /\ \/ /\ op # "startService" /\ mainPc' = "switching" /\ doSwitch' = op
                 /\ UNCHANGED <<pc, reply>>
              \/ /\ op = "startService" /\ mainPc' = "handler" /\ UNCHANGED doSwitch
                 /\ Goto("main", "startController") /\ UNCHANGED reply
  BY <1>2
<1>4. PICK c \in Callers \ {"main"} :
        /\ c = Head1.from /\ Waiting(c) /\ CallOf(c) = op /\ Asked(c)' = {}
        /\ \A d \in Callers \ {c} : Asked(d)' = Asked(d)
  BY <1>3, TakenStage
<1>5. \A d \in Callers : ~Served(d)
  BY <1>3, TakenStage
<1>6. \A d \in Callers \ {"main"} : UNCHANGED <<pc[d], reply[d]>>
  BY <1>3 DEF Goto, CallsInv, TypeOK
<1>7. Waiting(c)'
  BY <1>4, <1>6 DEF Waiting
<1>8. CallOf(c)' = op
  BY <1>3, <1>4, <1>7 DEF CallOf
<1>9. reply["main"] = "none" /\ reply'["main"] = "none"
  BY <1>1, <1>3 DEF CallsInv, RepliesRead, Waits
<1>10. pc'["main"] \notin Waits
  BY <1>1, <1>3 DEF Goto, CallsInv, TypeOK, Waits
<1>11. ASSUME NEW d \in Callers PROVE CallOf(d)' = CallOf(d)
  <2>1. CASE d = c
    BY <1>4, <1>8, <2>1
  <2>2. CASE d # c /\ d # "main"
    <3>1. Pending(d)
      BY DEF CallsInv, EveryCallPending
    <3> QED BY <1>4, <1>5, <1>6, <2>2, <3>1, StageKept
  <2>3. CASE d = "main"
    <3>1. ~Waiting("main") /\ ~Waiting("main")'
      BY <1>1, <1>10 DEF Waiting, Waits
    <3> QED BY <1>9, <2>3, <3>1 DEF CallOf
  <2> QED BY <2>1, <2>2, <2>3
<1>12. UNCHANGED Stages
  BY <1>11, NoneMoves
<1>13. UNCHANGED LateSwitch
  BY <1>1, <1>2, <1>3, <1>4, <1>7 DEF LateSwitch
<1>14. UNCHANGED <<MayStart, Services>>
  <2>1. UNCHANGED Services
    BY <1>1, <1>2, <1>3 DEF Services, Advertised
  <2>2. UNCHANGED MayStart
    BY <1>6 DEF MayStart, Spent, Once
  <2> QED BY <2>1, <2>2
<1>15. RepliesRead'
  BY <1>6, <1>9 DEF CallsInv, RepliesRead
<1>16. MainRefused' /\ MessageFits'
  <2>1. pc'["main"] \in {"idle", "startController"}
    BY <1>1, <1>3 DEF Goto, CallsInv, TypeOK
  <2> QED BY <1>2, <1>9, <2>1 DEF CallsInv, MainRefused, MessageFits
<1> QED BY <1>2, <1>12, <1>13, <1>14, <1>15, <1>16 DEF AbstractStep, Calls!callsVars

\* main comes to the end of a handler: its caller, if it still waits, gets the
\* answer, and nobody else notices.
LEMMA HandlerStage ==
  ASSUME CallsInv, mainPc \in {"switching", "handler"}, mainPc' = "spin",
         NEW c \in Callers, c = serving, NEW with, with # "none", Answer(c, with),
         UNCHANGED <<queue, doSwitch, down>>,
         \A d \in Callers : pc'[d] = pc[d] \/ {pc[d], pc'[d]} \cap Waits = {},
         UNCHANGED pc["starter"], UNCHANGED pc["spawner"]
  PROVE  /\ \A d \in Callers \ {c} : CallOf(d)' = CallOf(d)
         /\ Waiting(c) => CallOf(c)' = with /\ Asked(c) = {}
         /\ ~Waiting(c) => CallOf(c)' = CallOf(c)
         /\ UNCHANGED <<MayStart, Services>>
<1>1. \A d \in Callers : Pending(d) /\ Asked(d)' = Asked(d) /\ (Served(d) <=> d = c)
  BY DEF CallsInv, EveryCallPending, Asked, Queued, Served
<1>2. \A d \in Callers \ {c} : reply'[d] = reply[d]
  BY DEF Answer, CallsInv, TypeOK
<1>3. ASSUME NEW d \in Callers \ {c} PROVE CallOf(d)' = CallOf(d)
  <2>1. CASE pc'[d] = pc[d]
    BY <1>1, <1>2, <1>3, <2>1, StageKept
  <2>2. CASE {pc[d], pc'[d]} \cap Waits = {}
    BY <1>2, <1>3, <2>2 DEF CallOf, Waiting
  <2> QED BY <1>3, <2>1, <2>2
<1>4. CASE Waiting(c)
  <2>1. reply'[c] = with /\ ~Waiting(c)'
    BY <1>4 DEF Answer, Waiting, CallsInv, TypeOK
  <2>2. Asked(c) = {}
    BY <1>1, <1>4, AskedEmpty DEF Pending
  <2>3. CallOf(c)' = with
    BY <2>1 DEF CallOf
  <2> QED BY <1>3, <1>4, <2>2, <2>3 DEF MayStart, Spent, Once, Services, Advertised
<1>5. CASE ~Waiting(c)
  <2>1. UNCHANGED reply
    BY <1>5 DEF Answer
  <2>2. ~Waiting(c)'
    BY <1>5, <2>1 DEF Waiting
  <2>3. CallOf(c)' = CallOf(c)
    BY <1>5, <2>1, <2>2 DEF CallOf
  <2> QED BY <1>3, <1>5, <2>3 DEF MayStart, Spent, Once, Services, Advertised
<1> QED BY <1>4, <1>5

LEMMA DoneImplements ==
  ASSUME CallsInv, SwitchDone \/ StartServiceDone
  PROVE  AbstractStep /\ RepliesRead' /\ MainRefused' /\ MessageFits'
<1> USE DEF mainVars, ctlVars
<1>1. /\ TypeOK /\ MainFit /\ "main" \in Callers /\ serving \in Callers
      /\ pc["main"] \in {"idle", "done"} /\ reply["main"] = "none"
      /\ ~Waiting("main")
  BY DEF SwitchDone, StartServiceDone, CallsInv, MainFit, MainRefused,
    RepliesRead, Waiting, Waits, Callers, TypeOK
<1>2. PICK c \in Callers : c = serving
  BY <1>1
<1>3. ASSUME Calls!Becomes(c, "failed"), CallOf(c) \in Calls!Operations, down,
             \/ UNCHANGED LateSwitch
             \/ LateSwitch = "none" /\ LateSwitch' = CallOf(c)
                  /\ CallOf(c) \in {"start", "stop"},
             UNCHANGED <<MayStart, Services, ctl, mode, down>>
      PROVE  AbstractStep
  <2>1. Calls!Refuse(c)
    BY <1>3 DEF Calls!Refuse, Stages
  <2> QED BY <2>1 DEF AbstractStep, Calls!Next
<1>4. CASE SwitchDone
  <2> DEFINE with == IF doSwitch = "none" THEN "ok" ELSE "failed"
  <2>1. /\ mainPc = "switching" /\ mainPc' = "spin"
        /\ doSwitch = "none" \/ down
        /\ Answer(c, with) /\ with # "none"
        /\ UNCHANGED <<queue, pc, doSwitch, ctl, mode, modeMsg, started, down>>
    BY <1>2, <1>4 DEF SwitchDone
  <2> HIDE DEF with
  <2>2. /\ \A d \in Callers \ {c} : CallOf(d)' = CallOf(d)
        /\ Waiting(c) => CallOf(c)' = with /\ Asked(c) = {}
        /\ ~Waiting(c) => CallOf(c)' = CallOf(c)
        /\ UNCHANGED <<MayStart, Services>>
    BY <1>2, <2>1, HandlerStage
  <2>3. LateSwitch' = doSwitch
        /\ LateSwitch = IF Waiting(c) THEN "none" ELSE doSwitch
    BY <1>2, <2>1 DEF LateSwitch
  <2>4. RepliesRead' /\ MainRefused' /\ MessageFits'
    BY <1>1, <2>1, AnswerKept DEF CallsInv, MessageFits
  <2>5. CASE ~Waiting(c)
    <3>1. UNCHANGED <<Stages, LateSwitch>>
      BY <2>2, <2>3, <2>5, NoneMoves
    <3> QED BY <2>1, <2>2, <2>4, <3>1 DEF AbstractStep, Calls!callsVars
  <2>6. CASE Waiting(c) /\ doSwitch = "none"
    <3>1. CallOf(c) = "done"
      BY <2>1, <2>2, <2>6 DEF CallOf
    <3>2. Calls!Becomes(c, "ok") /\ Stages[c] = "done"
      BY <2>2, <2>6, <3>1, OneMoves DEF with
    <3>3. Calls!Confirm(c)
      BY <2>1, <2>2, <2>3, <2>6, <3>2 DEF Calls!Confirm
    <3> QED BY <2>4, <3>3 DEF AbstractStep, Calls!Next
  <2>7. CASE Waiting(c) /\ doSwitch # "none"
    <3>1. CallOf(c) = doSwitch /\ doSwitch \in {"start", "stop"}
      BY <1>1, <2>1, <2>2, <2>7 DEF CallOf, TypeOK
    <3>2. Calls!Becomes(c, "failed")
      BY <2>2, <2>7, OneMoves DEF with
    <3> QED BY <1>3, <2>1, <2>2, <2>3, <2>4, <2>7, <3>1, <3>2 DEF Calls!Operations
  <2> QED BY <2>5, <2>6, <2>7
<1>5. CASE StartServiceDone
  <2>1. /\ mainPc = "handler" /\ mainPc' = "spin"
        /\ pc["main"] = "done" /\ Goto("main", "idle")
        /\ Answer(c, IF started["main"] THEN "ok" ELSE "failed")
        /\ started' = [started EXCEPT !["main"] = FALSE]
        /\ UNCHANGED <<queue, doSwitch, ctl, mode, modeMsg, down>>
    BY <1>2, <1>5 DEF StartServiceDone
  <2>2. down /\ ~started["main"]
    BY <2>1 DEF CallsInv, MainRefused
  <2>3. /\ \A d \in Callers : pc'[d] = IF d = "main" THEN "idle" ELSE pc[d]
        /\ {pc["main"], "idle"} \cap Waits = {}
    BY <1>1, <2>1 DEF Goto, TypeOK, Waits
  <2>4. {"starter", "spawner"} \subseteq Callers \ {"main"}
    BY DEF Callers
  <2>5. Answer(c, "failed")
    BY <2>1, <2>2
  <2>6. /\ \A d \in Callers \ {c} : CallOf(d)' = CallOf(d)
        /\ Waiting(c) => CallOf(c)' = "failed" /\ Asked(c) = {}
        /\ ~Waiting(c) => CallOf(c)' = CallOf(c)
        /\ UNCHANGED <<MayStart, Services>>
    <3>1. \A d \in Callers : pc'[d] = pc[d] \/ {pc[d], pc'[d]} \cap Waits = {}
      BY <2>3
    <3> QED BY <1>2, <2>1, <2>3, <2>4, <2>5, <3>1, HandlerStage
  <2>7. UNCHANGED LateSwitch
    BY <2>1 DEF LateSwitch
  <2>8. reply'["main"] = "none" /\ MessageFits'
    BY <1>1, <2>1, <2>5 DEF Answer, TypeOK, CallsInv, MessageFits
  <2>9. MainRefused'
    BY <1>1, <2>1, <2>2, <2>3, <2>8 DEF MainRefused, TypeOK
  <2>10. RepliesRead'
    <3>1. \A d \in Callers : pc[d] \notin Waits => reply'[d] = reply[d]
      BY <1>1, <2>5 DEF Answer, Waiting, TypeOK
    <3> QED BY <2>3, <2>8, <3>1 DEF CallsInv, RepliesRead
  <2>11. CASE ~Waiting(c)
    <3>1. UNCHANGED Stages
      BY <2>6, <2>11, NoneMoves
    <3> QED BY <2>1, <2>6, <2>7, <2>8, <2>9, <2>10, <3>1 DEF AbstractStep, Calls!callsVars
  <2>12. CASE Waiting(c)
    <3>1. CallOf(c) = "startService"
      BY <2>1, <2>6, <2>12 DEF CallOf
    <3>2. Calls!Becomes(c, "failed")
      BY <2>6, <2>12, OneMoves
    <3> QED BY <1>3, <2>1, <2>2, <2>6, <2>7, <2>8, <2>9, <2>10, <3>1, <3>2
            DEF Calls!Operations
  <2> QED BY <2>11, <2>12
<1> QED BY <1>4, <1>5

\* main goes from one stage to the next: more services exist, or are as many.
LEMMA StageImplements ==
  ASSUME CallsInv, SetupServices \/ BuildLoop \/ EnterSpin \/ Exit
  PROVE  AbstractStep /\ RepliesRead' /\ MainRefused' /\ MessageFits'
<1> USE DEF callVars, ctlVars
<1>1. /\ {mainPc, mainPc'} \cap {"switching", "handler"} = {}
      /\ UNCHANGED <<serving, queue, reply, pc, doSwitch, ctl, mode, modeMsg, started,
                     down>>
  BY DEF SetupServices, BuildLoop, EnterSpin, Exit
<1>2. ASSUME NEW d \in Callers PROVE CallOf(d)' = CallOf(d)
  <2>1. Pending(d) /\ Asked(d)' = Asked(d) /\ ~Served(d)
    BY <1>1 DEF CallsInv, EveryCallPending, Asked, Queued, Served
  <2> QED BY <1>1, <2>1, StageKept
<1>3. UNCHANGED <<Stages, LateSwitch, MayStart>>
  BY <1>1, <1>2, NoneMoves DEF LateSwitch, MayStart, Spent
<1>4. RepliesRead' /\ MainRefused' /\ MessageFits'
  BY <1>1 DEF CallsInv, RepliesRead, MainRefused, MessageFits
<1>5. CASE down
  <2>1. UNCHANGED Services
    BY <1>1, <1>5 DEF Services, Advertised
  <2> QED BY <1>1, <1>3, <1>4, <2>1 DEF AbstractStep, Calls!callsVars
<1>6. CASE ~down
  <2>1. Services \subseteq Services' /\ Services' \subseteq Calls!Operations
    BY <1>1, <1>6 DEF SetupServices, BuildLoop, EnterSpin, Exit, Services, Advertised,
      Operations, Calls!Operations
  <2>2. Calls!Advertise
    BY <1>1, <1>3, <1>6, <2>1 DEF Calls!Advertise
  <2> QED BY <1>4, <2>2 DEF AbstractStep, Calls!Next
<1> QED BY <1>5, <1>6

\* The loop thread performs the switch main waits for, or one nobody waits for.
LEMMA SwitchImplements ==
  ASSUME CallsInv, PerformSwitch
  PROVE  AbstractStep /\ RepliesRead' /\ MainRefused' /\ MessageFits'
<1> USE DEF mainVars, callVars
<1>1. /\ doSwitch # "none" /\ doSwitch' = "none"
      /\ Calls!Switch(doSwitch)
      /\ UNCHANGED <<mainPc, serving, queue, reply, pc, modeMsg, started, down>>
  BY DEF PerformSwitch, Calls!Switch
<1>2. \A d \in Callers : /\ Pending(d) /\ Asked(d)' = Asked(d)
                         /\ Waiting(d)' <=> Waiting(d)
  BY <1>1 DEF CallsInv, EveryCallPending, Asked, Queued, Waiting
<1>3. /\ RepliesRead' /\ MainRefused'
      /\ MessageFits'
  <2>1. ctl' = ctl \/ ctl' # "unloaded"
    BY <1>1 DEF Calls!Switch
  <2> QED BY <1>1, <2>1, MessageKept DEF CallsInv, RepliesRead, MainRefused
<1>4. UNCHANGED <<MayStart, Services>>
  BY <1>1 DEF MayStart, Spent, Services, Advertised
<1>5. PICK c \in Callers : c = serving
  BY DEF CallsInv, TypeOK
<1>6. CASE mainPc = "switching" /\ Waiting(serving)
  <2>1. Waiting(c) /\ Served(c) /\ \A d \in Callers \ {c} : ~Served(d)
    BY <1>5, <1>6 DEF Served
  <2>2. Asked(c) = {}
    BY <1>2, <2>1, AskedEmpty DEF Pending
  <2>3. CallOf(c) = doSwitch /\ CallOf(c)' = "done"
    BY <1>1, <1>2, <1>6, <2>1, <2>2 DEF CallOf
  <2>4. \A d \in Callers \ {c} : CallOf(d)' = CallOf(d)
    BY <1>1, <1>2, <2>1, StageKept
  <2>5. Calls!Becomes(c, "done") /\ Stages[c] = doSwitch
    BY <2>3, <2>4, OneMoves
  <2>6. UNCHANGED LateSwitch
    BY <1>1, <1>2, <1>5, <1>6 DEF LateSwitch
  <2>7. Calls!Perform(c)
    BY <1>1, <1>4, <2>5, <2>6 DEF Calls!Perform
  <2> QED BY <1>3, <2>7 DEF AbstractStep, Calls!Next
<1>7. CASE ~(mainPc = "switching" /\ Waiting(serving))
  <2>1. LateSwitch = doSwitch /\ LateSwitch' = "none"
    BY <1>1, <1>2, <1>5, <1>7 DEF LateSwitch
  <2>2. ASSUME NEW d \in Callers PROVE CallOf(d)' = CallOf(d)
    <3>1. CASE ~Served(d)
      BY <1>1, <1>2, <3>1, StageKept
    <3>2. CASE ~Waiting(d)
      BY <1>1, <1>2, <3>2 DEF CallOf
    <3>3. CASE mainPc = "handler"
      BY <1>1, <1>2, <3>3 DEF CallOf
    <3> QED BY <1>7, <3>1, <3>2, <3>3 DEF Served
  <2>3. UNCHANGED Stages
    BY <2>2, NoneMoves
  <2>4. Calls!PerformLate
    BY <1>1, <1>4, <2>1, <2>3 DEF Calls!PerformLate
  <2> QED BY <1>3, <2>4 DEF AbstractStep, Calls!Next
<1> QED BY <1>6, <1>7

LEMMA ModeImplements ==
  ASSUME CallsInv, ModeCallback
  PROVE  AbstractStep /\ RepliesRead' /\ MainRefused' /\ MessageFits'
<1> USE DEF mainVars, callVars
<1>1. /\ modeMsg \in {"IDLE", "WALK"} /\ mode' = modeMsg /\ modeMsg' = "none"
      /\ ctl # "unloaded"
      /\ UNCHANGED <<mainPc, serving, queue, reply, pc, doSwitch, ctl, started, down>>
  BY DEF ModeCallback, CallsInv, TypeOK, MessageFits
<1>2. UNCHANGED <<Stages, LateSwitch, MayStart, Services>>
  BY <1>1 DEF Stages, CallOf, Asked, Queued, Waiting, LateSwitch, MayStart,
    Spent, Services, Advertised
<1>3. Calls!Message(modeMsg)
  BY <1>1, <1>2 DEF Calls!Message
<1>4. RepliesRead' /\ MainRefused' /\ MessageFits'
  BY <1>1 DEF CallsInv, RepliesRead, MainRefused, MessageFits
<1> QED BY <1>1, <1>3, <1>4 DEF AbstractStep, Calls!Next

RefineInv == RepliesRead /\ MainRefused /\ MessageFits

\* For any shortcuts and any number of presses and requests: the calls of five
\* threads, with a shutdown at any time, are as good as calls handled one by one;
\* each start or stop takes effect once, and is confirmed only then.
THEOREM NodeImplementsCalls == Spec => ImplementsCalls
<1>1. Init => Calls!Init /\ RefineInv
  <2> SUFFICES ASSUME Init PROVE Calls!Init /\ RefineInv
    OBVIOUS
  <2>1. \A c \in Callers : reply[c] = "none" /\ pc[c] \in {"idle", "sleep"}
    BY DEF Init
  <2>2. "main" \in Callers /\ pc["main"] = "idle" /\ ~started["main"]
    BY DEF Init, Callers
  <2>3. \A c \in Callers : ~Waiting(c) /\ CallOf(c) = "none" /\ ~Spent(c)
    BY <2>1 DEF Waiting, Waits, CallOf, Spent
  <2>4. Stages = [c \in Callers |-> "none"] /\ MayStart = Callers
    BY <2>3 DEF Stages, MayStart
  <2>5. LateSwitch = "none" /\ Services = {}
    BY DEF Init, LateSwitch, Services, Advertised
  <2>6. Calls!Init
    BY <2>4, <2>5 DEF Init, Calls!Init
  <2>7. RefineInv
    BY <2>1, <2>2 DEF Init, RefineInv, RepliesRead, MainRefused, MessageFits
  <2> QED BY <2>6, <2>7
<1>2. ASSUME TypeOK, MainFit, EveryCallPending, OneSwitchAtATime, RefineInv, [Next]_vars
      PROVE  AbstractStep /\ RefineInv'
  <2>1. CallsInv
    BY <1>2 DEF CallsInv, RefineInv
  <2>2. CASE UNCHANGED vars
    BY <1>2, <2>2 DEF vars, mainVars, callVars, ctlVars, RefineInv, RepliesRead,
      MainRefused, MessageFits, AbstractStep, Calls!callsVars, Stages, CallOf, Asked,
      Queued, Waiting, LateSwitch, MayStart, Spent, Services, Advertised
  <2>3. ASSUME NEW c \in {"starter", "joy", "main"}, StartSteps(c)
        PROVE  AbstractStep /\ RefineInv'
    <3>1. UNCHANGED <<modeMsg, ctl>>
      BY <2>3 DEF StartSteps, StartController, StartListed, StartSwitched, ctlVars
    <3> QED BY <2>1, <2>3, <3>1, StartImplements DEF CallsInv, MessageFits, RefineInv
  <2>4. CASE StarterWakes \/ JoyAskedY \/ JoyAskX \/ JoyAskedX \/ SpawnerSteps
               \/ OperatorDone \/ Environment
    BY <2>1, <2>4, CallerImplements DEF RefineInv
  <2>5. CASE \E c \in Callers : CallCancelled(c)
    BY <2>1, <2>5, CancelImplements DEF RefineInv
  <2>6. CASE MainSteps
    BY <2>1, <2>3, <2>6, StageImplements, ServeImplements, TakeImplements,
       DoneImplements DEF MainSteps, RefineInv
  <2>7. CASE ModeCallback \/ PerformSwitch
    BY <2>1, <2>7, ModeImplements, SwitchImplements DEF RefineInv
  <2> QED BY <1>2, <2>2, <2>3, <2>4, <2>5, <2>6, <2>7
          DEF Next, StarterSteps, JoySteps
<1> QED
  BY <1>1, <1>2, TypeCorrect, CallsAreFit, SwitchesAreSingle, PTL
     DEF Spec, AbstractStep, ImplementsCalls, Calls!Spec
=============================================================================
