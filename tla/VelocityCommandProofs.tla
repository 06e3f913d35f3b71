------------------------ MODULE VelocityCommandProofs ------------------------
(***************************************************************************)
(* The safety properties of VelocityCommand, for sticks, limits, clocks    *)
(* and messages of any kind and number.                                    *)
(***************************************************************************)
EXTENDS VelocityCommand, SequenceTheorems, TLAPS

\* The one message a start can leave is in the queue, or was handled.
QueueInv ==
  /\ survivors <= 1
  /\ queue # <<>> /\ queue[1].before => survivors = 0

IInv == TypeOK /\ QueueInv

----------------------------------------------------------------------------
(* Sequences of at most one element, and what the helpers return.          *)

LEMMA Singleton ==
  ASSUME NEW S, NEW x \in S
  PROVE  <<x>> \in Seq(S) /\ Len(<<x>>) = 1 /\ <<x>>[1] = x
  OBVIOUS

LEMMA NoneLeft ==
  ASSUME NEW S, NEW s \in Seq(S), Len(s) <= 1, s # <<>>
  PROVE  /\ Len(s) = 1 /\ Head(s) \in S /\ Head(s) = s[1]
         /\ Tail(s) = <<>> /\ Tail(s) \in Seq(S)
<1>1. Len(s) = 1
  <2>1. Len(s) \in Nat \ {0}
    BY EmptySeq
  <2> QED BY <2>1
<1>2. Tail(s) \in Seq(S) /\ Len(Tail(s)) = 0
  <2>1. Tail(s) \in Seq(S) /\ Len(Tail(s)) = Len(s) - 1
    BY HeadTailProperties
  <2> QED BY <1>1, <2>1
<1>3. Tail(s) = <<>>
  BY <1>2, EmptySeq
<1>4. Head(s) \in S /\ Head(s) = s[1]
  BY <1>1
<1> QED BY <1>1, <1>2, <1>3, <1>4

\* Messages carry whole numbers in each axis.
LEMMA Delivered ==
  ASSUME NEW twist \in [Axes -> Int], Deliver(twist)
  PROVE  queue' \in Seq(Messages) /\ Len(queue') = 1 /\ ~queue'[1].before
<1>1. [twist |-> twist, before |-> FALSE] \in Messages
  BY DEF Messages
<1> QED BY <1>1 DEF Deliver

LEMMA ScaledSticks ==
  ASSUME NEW p \in Positions
  PROVE  [a \in Axes |-> p[a] * MaxVel[a]] \in [Axes -> Int]
<1>1. ASSUME NEW a \in Axes PROVE p[a] \in Int /\ MaxVel[a] \in Int
  BY PositionsAssumption, MaxVelAssumption
  DEF PositionsAssumption, MaxVelAssumption
<1>2. ASSUME NEW a \in Axes PROVE p[a] * MaxVel[a] \in Int
  BY <1>1
<1> QED BY <1>2

LEMMA ClampedInt ==
  ASSUME NEW x \in Int, NEW a \in Axes
  PROVE  Clamped(x, a) \in Int
<1>1. MaxVel[a] \in Int
  BY MaxVelAssumption DEF MaxVelAssumption
<1> QED BY <1>1 DEF Clamped

LEMMA RestIsTwist == Rest \in Positions /\ Rest \in [Axes -> Int]
  BY PositionsAssumption DEF PositionsAssumption, Rest

\* A start marks what waits in the queue.
LEMMA Marked ==
  ASSUME NEW q \in Seq(Messages), Len(q) <= 1,
         NEW m, m = [i \in 1 .. Len(q) |-> [q[i] EXCEPT !.before = TRUE]]
  PROVE  m \in Seq(Messages) /\ Len(m) <= 1
<1>1. ASSUME NEW i \in 1 .. Len(q)
      PROVE  [q[i] EXCEPT !.before = TRUE] \in Messages
  <2>1. q[i] \in Messages
    BY ElementOfSeq
  <2> QED BY <2>1 DEF Messages
<1> QED BY <1>1

----------------------------------------------------------------------------
(* Types.                                                                  *)

LEMMA InitType == Init => TypeOK
<1> SUFFICES ASSUME Init PROVE TypeOK OBVIOUS
<1>1. /\ <<>> \in Seq(Positions) /\ <<>> \in Seq(Messages) /\ <<>> \in Seq(Int)
      /\ Len(<<>>) = 0
  BY EmptySeq
<1>2. sinceLast \in -Jump .. Period
  BY PeriodAssumption DEF Init, PeriodAssumption
<1>3. foreign \in 0 .. MaxForeign /\ resets \in 0 .. MaxResets
  BY BoundsAssumption DEF Init, BoundsAssumption
<1>4. pass \in {"gait", "policy"}
  BY DEF Init, FirstPass
<1> QED BY <1>1, <1>2, <1>3, <1>4, RestIsTwist DEF Init, TypeOK

LEMMA TypeStep ==
  ASSUME TypeOK, Next
  PROVE  TypeOK'
<1> USE DEF TypeOK, joystick, spinner, tick
<1>1. ASSUME NEW p \in Positions, MoveSticks(p) PROVE TypeOK'
  BY <1>1 DEF MoveSticks
<1>2. CASE ClockTick
  <2>1. sinceLast' \in -Jump .. Period
    BY <1>2, PeriodAssumption DEF ClockTick, PeriodAssumption
  <2> QED BY <1>2, <2>1 DEF ClockTick
<1>3. CASE ClockReset
  <2>1. sinceLast' \in -Jump .. Period /\ resets' \in 0 .. MaxResets
    BY <1>3, PeriodAssumption, BoundsAssumption
    DEF ClockReset, PeriodAssumption, BoundsAssumption
  <2> QED BY <1>3, <2>1 DEF ClockReset
<1>4. CASE SensorJoy
  <2>1. inHand' \in Seq(Positions) /\ Len(inHand') = 1
    BY <1>4, Singleton DEF SensorJoy
  <2> QED BY <1>4, <2>1 DEF SensorJoy
<1>5. CASE StickBranch
  <2>1. inHand' \in Seq(Positions) /\ Len(inHand') <= 1
    BY <1>5, EmptySeq DEF StickBranch
  <2>2. queue' \in Seq(Messages) /\ Len(queue') <= 1
    <3>1. CASE sinceLast >= Period
      <4>1. Head(inHand) \in Positions
        BY <1>5, NoneLeft DEF StickBranch
      <4> DEFINE twist == [a \in Axes |-> Head(inHand)[a] * MaxVel[a]]
      <4>2. twist \in [Axes -> Int]
        BY <4>1, ScaledSticks
      <4>3. Deliver(twist)
        BY <1>5, <3>1 DEF StickBranch
      <4> HIDE DEF twist
      <4>4. queue' \in Seq(Messages) /\ Len(queue') = 1
        BY <4>2, <4>3, Delivered
      <4> QED BY <4>4
    <3>2. CASE ~(sinceLast >= Period)
      BY <1>5, <3>2 DEF StickBranch
    <3> QED BY <3>1, <3>2
  <2>3. sinceLast' \in -Jump .. Period
    BY <1>5, PeriodAssumption DEF StickBranch, PeriodAssumption
  <2> QED BY <1>5, <2>1, <2>2, <2>3 DEF StickBranch
<1>6. ASSUME NEW twist \in Foreign, ForeignMessage(twist) PROVE TypeOK'
  <2>1. queue' \in Seq(Messages) /\ Len(queue') <= 1
    <3>1. twist \in [Axes -> Int]
      BY ForeignAssumption DEF ForeignAssumption
    <3>2. Deliver(twist)
      BY <1>6 DEF ForeignMessage
    <3>3. queue' \in Seq(Messages) /\ Len(queue') = 1
      BY <3>1, <3>2, Delivered
    <3> QED BY <3>3
  <2>2. foreign' \in 0 .. MaxForeign
    BY <1>6, BoundsAssumption DEF ForeignMessage, BoundsAssumption
  <2> QED BY <1>6, <2>1, <2>2 DEF ForeignMessage
<1>7. CASE CmdVelCallback
  <2>1. /\ Head(queue) \in Messages
        /\ queue' \in Seq(Messages) /\ Len(queue') <= 1
    BY <1>7, NoneLeft, EmptySeq DEF CmdVelCallback
  <2>2. handling' \in Seq(Messages) /\ Len(handling') <= 1
    BY <1>7, <2>1, Singleton DEF CmdVelCallback
  <2>3. survivors' \in Nat
    BY <1>7 DEF CmdVelCallback
  <2> QED BY <1>7, <2>1, <2>2, <2>3 DEF CmdVelCallback
<1>8. CASE StoreComponent
  <2> DEFINE a == stored + 1
  <2>1. a \in Axes /\ a % 3 \in 0 .. 2
    BY DEF Axes
  <2>2. Head(handling).twist[a] \in Int
    <3>1. handling # <<>>
      BY <1>8 DEF StoreComponent
    <3>2. Head(handling) \in Messages
      BY <3>1, NoneLeft
    <3>3. Head(handling).twist \in [Axes -> Int]
      BY <3>2 DEF Messages
    <3> QED BY <2>1, <3>3
  <2>3. command' \in [Axes -> Int]
    BY <1>8, <2>1, <2>2, ClampedInt DEF StoreComponent
  <2>4. handling' \in Seq(Messages) /\ Len(handling') <= 1
    BY <1>8, EmptySeq DEF StoreComponent
  <2> QED BY <1>8, <2>1, <2>3, <2>4 DEF StoreComponent
<1>9. CASE Starting
  <2>1. queue' \in Seq(Messages) /\ Len(queue') <= 1
    BY <1>9, Marked DEF Starting
  <2>2. command' \in [Axes -> Int]
    BY <1>9, RestIsTwist DEF Starting
  <2> QED BY <1>9, <2>1, <2>2 DEF Starting
<1>10. CASE ReadComponent
  <2>1. reads' \in Seq(Int) /\ Len(reads') <= 3
    <3>1. command[NextAxis] \in Int /\ Len(reads) \in Nat /\ Len(reads) + 1 <= 3
      BY <1>10 DEF ReadComponent, NextAxis, Axes
    <3> QED BY <1>10, <3>1, AppendProperties DEF ReadComponent
  <2> QED BY <1>10, <2>1 DEF ReadComponent
<1>11. CASE Gait
  <2>1. reads' \in Seq(Int) /\ Len(reads') <= 3
    BY <1>11, EmptySeq DEF Gait
  <2>2. gaitPhase' \in {"zero", "running"}
    BY <1>11 DEF Gait, GaitStep
  <2> QED BY <1>11, <2>1, <2>2 DEF Gait
<1>12. CASE Infer
  <2>1. reads' \in Seq(Int) /\ Len(reads') <= 3
    BY <1>12, EmptySeq DEF Infer
  <2>2. policyIn' \in [Axes -> Int]
    BY <1>12, LenProperties DEF Infer, Axes
  <2>3. pass' \in {"gait", "policy"}
    BY <1>12 DEF Infer, FirstPass
  <2> QED BY <1>12, <2>1, <2>2, <2>3 DEF Infer
<1> QED
  BY <1>1, <1>2, <1>3, <1>4, <1>5, <1>6, <1>7, <1>8, <1>9, <1>10, <1>11, <1>12
  DEF Next, Main, Walk

----------------------------------------------------------------------------
(* Survivors of a start.                                                   *)

\* Of the messages from before a start one at most is left.
LEMMA QueueStep ==
  ASSUME TypeOK, QueueInv, Next
  PROVE  QueueInv'
<1> USE DEF QueueInv, joystick, spinner, tick
<1>0. queue \in Seq(Messages) /\ Len(queue) <= 1 /\ survivors \in Nat
  BY DEF TypeOK
<1>1. CASE CmdVelCallback
  <2>1. queue # <<>> /\ Head(queue) = queue[1] /\ Tail(queue) = <<>>
    BY <1>0, <1>1, NoneLeft DEF CmdVelCallback
  <2>2. queue' = <<>> /\ survivors' <= 1
    BY <1>0, <1>1, <2>1 DEF CmdVelCallback
  <2> QED BY <2>2
<1>2. CASE Starting
  BY <1>2 DEF Starting
<1>3. ASSUME NEW twist, Deliver(twist), UNCHANGED survivors PROVE QueueInv'
  <2>1. queue'[1] = [twist |-> twist, before |-> FALSE]
    BY <1>3 DEF Deliver
  <2> QED BY <1>3, <2>1
<1>4. CASE StickBranch
  <2>1. survivors' = survivors
    BY <1>4 DEF StickBranch
  <2>2. CASE sinceLast >= Period /\ queue' # queue
    BY <1>3, <1>4, <2>1, <2>2 DEF StickBranch
  <2>3. CASE queue' = queue
    BY <2>1, <2>3
  <2> QED BY <1>4, <2>2, <2>3 DEF StickBranch
<1>5. ASSUME NEW twist \in Foreign, ForeignMessage(twist) PROVE QueueInv'
  BY <1>3, <1>5 DEF ForeignMessage
<1>6. CASE (\E p \in Positions : MoveSticks(p)) \/ ClockTick \/ ClockReset
           \/ SensorJoy \/ StoreComponent \/ Walk
  BY <1>6 DEF MoveSticks, ClockTick, ClockReset, SensorJoy, StoreComponent, Walk,
     ReadComponent, Gait, Infer
<1> QED BY <1>1, <1>2, <1>4, <1>5, <1>6 DEF Next, Main

LEMMA Invariance == Spec => []IInv
<1>1. Init => IInv
  <2> SUFFICES ASSUME Init PROVE IInv OBVIOUS
  <2>1. QueueInv
    BY DEF Init, QueueInv
  <2> QED BY <2>1, InitType DEF IInv
<1>2. IInv /\ [Next]_vars => IInv'
  <2> SUFFICES ASSUME IInv, [Next]_vars PROVE IInv' OBVIOUS
  <2>1. CASE Next
    BY <2>1, TypeStep, QueueStep DEF IInv
  <2>2. CASE UNCHANGED vars
    BY <2>2 DEF IInv, TypeOK, QueueInv, vars, joystick,
       spinner, tick
  <2> QED BY <2>1, <2>2
<1> QED BY <1>1, <1>2, PTL DEF Spec

\* The variables keep their types, whatever is published, and however often.
THEOREM TypeCorrect == Spec => []TypeOK
  BY Invariance, PTL DEF IInv

\* Of the commands from before a start at most one moves the robot after it.
THEOREM OldCommandsEnd == Spec => []OneSurvivesStart
<1>1. IInv => OneSurvivesStart
  BY DEF IInv, QueueInv, OneSurvivesStart
<1> QED BY <1>1, Invariance, PTL
=============================================================================
