---------------------------- MODULE BringUpProofs ----------------------------
(***************************************************************************)
(* The safety properties of BringUp, for a handshake of any length.        *)
(***************************************************************************)
EXTENDS BringUp, TLAPS

\* The order main keeps: what a callback or the loop uses is prepared before it
\* can come to life.
Unsubscribed == {"ip", "clock", "sdk", "joints", "data", "interfaces", "sensors"}
WithBuffers  == {"interfaces", "sensors", "publishers", "joystick", "services",
                 "handshake", "loop"}
WithHandles  == WithBuffers \ {"interfaces"}

OrderInv ==
  /\ pc \in WithBuffers => "buffers" \in ready
  /\ pc \in WithHandles => "handles" \in ready
  /\ pc = "joystick" => "publishers" \in ready
  /\ "state" \in subscribed \/ "imu" \in subscribed => "buffers" \in ready
  /\ "joy" \in subscribed => "publishers" \in ready
  /\ loopThread = "running" => "buffers" \in ready /\ "handles" \in ready

\* A thread that lives holds a reference; a failure comes before the first
\* subscription, and nobody calls back before it.
OwnerInv ==
  /\ loopThread = "running" => "loop" \in owners
  /\ starter = "asleep" => "starter" \in owners
  /\ pc \in Unsubscribed => subscribed = {}
  /\ pc \in Unsubscribed => loopThread = "none" /\ starter = "none"
  /\ pc \in Unsubscribed => exitCode = Running
  /\ exitCode = 1 => subscribed = {}
  /\ exitCode = 1 => pc = "release" \/ pc = "exited"

MissedInv ==
  /\ "buffers" \notin missed
  /\ "handles" \notin missed
  /\ "publishers" \notin missed
  /\ "thread: object" \notin missed
  /\ subscribed = {} => "callback: object" \notin missed

IInv == TypeOK /\ OrderInv /\ OwnerInv /\ MissedInv

\* A sleep below the limit stays within it.
LEMMA OneMore == \A w \in 0 .. MaxTicks : w < MaxTicks => w + 1 \in 0 .. MaxTicks
  BY MaxTicksAssumption DEF MaxTicksAssumption

LEMMA InitInv == Init => IInv
<1> SUFFICES ASSUME Init PROVE IInv OBVIOUS
<1>1. TypeOK
  <2>1. waited \in 0 .. MaxTicks
    BY MaxTicksAssumption DEF Init, MaxTicksAssumption
  <2> QED BY <2>1 DEF Init, TypeOK, Running, Pcs
<1>2. OrderInv
  BY DEF Init, OrderInv, WithBuffers, WithHandles
<1>3. OwnerInv
  BY DEF Init, OwnerInv, Unsubscribed, Running
<1>4. MissedInv
  BY DEF Init, MissedInv
<1> QED BY <1>1, <1>2, <1>3, <1>4 DEF IInv

\* Every step keeps the types; only the handshake counts.
LEMMA TypeStep == TypeOK /\ Next => TypeOK'
<1> SUFFICES ASSUME TypeOK, Next PROVE TypeOK' OBVIOUS
<1> USE DEF TypeOK, Pcs, Parts, Topics, threads
<1>1. CASE CheckIp
  BY <1>1 DEF CheckIp, GiveUp, GoTo
<1>2. CASE CreateHw
  BY <1>2 DEF CreateHw
<1>3. CASE InitSdk
  BY <1>3 DEF InitSdk, GiveUp, GoTo
<1>4. CASE LoadJointNames
  BY <1>4 DEF LoadJointNames, GiveUp, GoTo
<1>5. CASE ResizeData
  BY <1>5 DEF ResizeData, Prepare
<1>6. CASE SetupInterfaces
  BY <1>6 DEF SetupInterfaces, Prepare
<1>7. CASE SubscribeSensors
  BY <1>7 DEF SubscribeSensors, Subscribe
<1>8. CASE Advertise
  BY <1>8 DEF Advertise, Prepare
<1>9. CASE SubscribeJoystick
  BY <1>9 DEF SubscribeJoystick, Subscribe
<1>10. CASE SetupServices
  BY <1>10 DEF SetupServices, Prepare
<1>11. CASE HandshakeTick
  <2>1. waited' \in 0 .. MaxTicks
    <3>1. waited \in 0 .. MaxTicks /\ waited < MaxTicks /\ waited' = waited + 1
      BY <1>11 DEF HandshakeTick
    <3> QED BY <3>1, OneMore
  <2> QED BY <1>11, <2>1 DEF HandshakeTick
<1>12. CASE HandshakeEnd
  BY <1>12 DEF HandshakeEnd, GoTo
<1>13. CASE StartControlLoop
  BY <1>13 DEF StartControlLoop
<1>14. CASE DetachStarter
  BY <1>14 DEF DetachStarter
<1>15. CASE SpinReturns
  BY <1>15 DEF SpinReturns
<1>16. CASE DestroyLoop
  BY <1>16 DEF DestroyLoop
<1>17. CASE ReleaseHw
  BY <1>17 DEF ReleaseHw
<1>18. CASE ShortcutCallback
  BY <1>18 DEF ShortcutCallback, Miss
<1>19. CASE LoopCycle
  BY <1>19 DEF LoopCycle, Miss
<1>20. CASE StarterWakes
  BY <1>20 DEF StarterWakes, Miss
<1>21. CASE Shutdown
  BY <1>21 DEF Shutdown
<1>22. ASSUME NEW topic \in Topics, SdkCallback(topic) PROVE TypeOK'
  <2>1. Needs(topic) \subseteq Parts
    BY DEF Needs
  <2>2. missed' \subseteq Parts \cup {"callback: object", "thread: object"}
    BY <1>22, <2>1 DEF SdkCallback, Miss
  <2> QED BY <1>22, <2>2 DEF SdkCallback
<1> QED
  BY <1>1, <1>2, <1>3, <1>4, <1>5, <1>6, <1>7, <1>8, <1>9, <1>10, <1>11, <1>12, <1>13, <1>14, <1>15, <1>16, <1>17, <1>18, <1>19, <1>20, <1>21, <1>22 DEF Next, Main

\* Every step keeps the order of preparation.
LEMMA OrderStep == OrderInv /\ Next => OrderInv'
<1> SUFFICES ASSUME OrderInv, Next PROVE OrderInv' OBVIOUS
<1> USE DEF OrderInv, WithBuffers, WithHandles, threads
<1>1. CASE CheckIp
  BY <1>1 DEF CheckIp, GiveUp, GoTo
<1>2. CASE CreateHw
  BY <1>2 DEF CreateHw
<1>3. CASE InitSdk
  BY <1>3 DEF InitSdk, GiveUp, GoTo
<1>4. CASE LoadJointNames
  BY <1>4 DEF LoadJointNames, GiveUp, GoTo
<1>5. CASE ResizeData
  BY <1>5 DEF ResizeData, Prepare
<1>6. CASE SetupInterfaces
  BY <1>6 DEF SetupInterfaces, Prepare
<1>7. CASE SubscribeSensors
  BY <1>7 DEF SubscribeSensors, Subscribe
<1>8. CASE Advertise
  BY <1>8 DEF Advertise, Prepare
<1>9. CASE SubscribeJoystick
  BY <1>9 DEF SubscribeJoystick, Subscribe
<1>10. CASE SetupServices
  BY <1>10 DEF SetupServices, Prepare
<1>11. CASE HandshakeTick
  BY <1>11 DEF HandshakeTick
<1>12. CASE HandshakeEnd
  BY <1>12 DEF HandshakeEnd, GoTo
<1>13. CASE StartControlLoop
  BY <1>13 DEF StartControlLoop
<1>14. CASE DetachStarter
  BY <1>14 DEF DetachStarter
<1>15. CASE SpinReturns
  BY <1>15 DEF SpinReturns
<1>16. CASE DestroyLoop
  BY <1>16 DEF DestroyLoop
<1>17. CASE ReleaseHw
  BY <1>17 DEF ReleaseHw
<1>18. CASE ShortcutCallback
  BY <1>18 DEF ShortcutCallback, Miss
<1>19. CASE LoopCycle
  BY <1>19 DEF LoopCycle, Miss
<1>20. CASE StarterWakes
  BY <1>20 DEF StarterWakes, Miss
<1>21. CASE Shutdown
  BY <1>21 DEF Shutdown
<1>22. ASSUME NEW topic \in Topics, SdkCallback(topic) PROVE OrderInv'
  BY <1>22 DEF SdkCallback, Needs, Miss
<1> QED
  BY <1>1, <1>2, <1>3, <1>4, <1>5, <1>6, <1>7, <1>8, <1>9, <1>10, <1>11, <1>12, <1>13, <1>14, <1>15, <1>16, <1>17, <1>18, <1>19, <1>20, <1>21, <1>22 DEF Next, Main

\* Every step keeps the references.
LEMMA OwnerStep == OwnerInv /\ Next => OwnerInv'
<1> SUFFICES ASSUME OwnerInv, Next PROVE OwnerInv' OBVIOUS
<1> USE DEF OwnerInv, Unsubscribed, Running, threads
<1>1. CASE CheckIp
  BY <1>1 DEF CheckIp, GiveUp, GoTo
<1>2. CASE CreateHw
  BY <1>2 DEF CreateHw
<1>3. CASE InitSdk
  BY <1>3 DEF InitSdk, GiveUp, GoTo
<1>4. CASE LoadJointNames
  BY <1>4 DEF LoadJointNames, GiveUp, GoTo
<1>5. CASE ResizeData
  BY <1>5 DEF ResizeData, Prepare
<1>6. CASE SetupInterfaces
  BY <1>6 DEF SetupInterfaces, Prepare
<1>7. CASE SubscribeSensors
  BY <1>7 DEF SubscribeSensors, Subscribe
<1>8. CASE Advertise
  BY <1>8 DEF Advertise, Prepare
<1>9. CASE SubscribeJoystick
  BY <1>9 DEF SubscribeJoystick, Subscribe
<1>10. CASE SetupServices
  BY <1>10 DEF SetupServices, Prepare
<1>11. CASE HandshakeTick
  BY <1>11 DEF HandshakeTick
<1>12. CASE HandshakeEnd
  BY <1>12 DEF HandshakeEnd, GoTo
<1>13. CASE StartControlLoop
  BY <1>13 DEF StartControlLoop
<1>14. CASE DetachStarter
  BY <1>14 DEF DetachStarter
<1>15. CASE SpinReturns
  BY <1>15 DEF SpinReturns
<1>16. CASE DestroyLoop
  BY <1>16 DEF DestroyLoop
<1>17. CASE ReleaseHw
  BY <1>17 DEF ReleaseHw
<1>18. CASE ShortcutCallback
  BY <1>18 DEF ShortcutCallback, Miss
<1>19. CASE LoopCycle
  BY <1>19 DEF LoopCycle, Miss
<1>20. CASE StarterWakes
  BY <1>20 DEF StarterWakes, Miss
<1>21. CASE Shutdown
  BY <1>21 DEF Shutdown
<1>22. ASSUME NEW topic \in Topics, SdkCallback(topic) PROVE OwnerInv'
  BY <1>22 DEF SdkCallback, Needs, Miss
<1> QED
  BY <1>1, <1>2, <1>3, <1>4, <1>5, <1>6, <1>7, <1>8, <1>9, <1>10, <1>11, <1>12, <1>13, <1>14, <1>15, <1>16, <1>17, <1>18, <1>19, <1>20, <1>21, <1>22 DEF Next, Main

\* Nobody uses what is not there.
LEMMA MissedStep == OrderInv /\ OwnerInv /\ MissedInv /\ Next => MissedInv'
<1> SUFFICES ASSUME OrderInv, OwnerInv, MissedInv, Next PROVE MissedInv' OBVIOUS
<1> USE DEF OrderInv, OwnerInv, MissedInv, Unsubscribed, threads
<1>1. CASE CheckIp
  BY <1>1 DEF CheckIp, GiveUp, GoTo
<1>2. CASE CreateHw
  BY <1>2 DEF CreateHw
<1>3. CASE InitSdk
  BY <1>3 DEF InitSdk, GiveUp, GoTo
<1>4. CASE LoadJointNames
  BY <1>4 DEF LoadJointNames, GiveUp, GoTo
<1>5. CASE ResizeData
  BY <1>5 DEF ResizeData, Prepare
<1>6. CASE SetupInterfaces
  BY <1>6 DEF SetupInterfaces, Prepare
<1>7. CASE SubscribeSensors
  BY <1>7 DEF SubscribeSensors, Subscribe
<1>8. CASE Advertise
  BY <1>8 DEF Advertise, Prepare
<1>9. CASE SubscribeJoystick
  BY <1>9 DEF SubscribeJoystick, Subscribe
<1>10. CASE SetupServices
  BY <1>10 DEF SetupServices, Prepare
<1>11. CASE HandshakeTick
  BY <1>11 DEF HandshakeTick
<1>12. CASE HandshakeEnd
  BY <1>12 DEF HandshakeEnd, GoTo
<1>13. CASE StartControlLoop
  BY <1>13 DEF StartControlLoop
<1>14. CASE DetachStarter
  BY <1>14 DEF DetachStarter
<1>15. CASE SpinReturns
  BY <1>15 DEF SpinReturns
<1>16. CASE DestroyLoop
  BY <1>16 DEF DestroyLoop
<1>17. CASE ReleaseHw
  BY <1>17 DEF ReleaseHw
<1>18. CASE ShortcutCallback
  BY <1>18 DEF ShortcutCallback, Miss
<1>19. CASE LoopCycle
  BY <1>19 DEF LoopCycle, Miss
<1>20. CASE StarterWakes
  BY <1>20 DEF StarterWakes, Miss
<1>21. CASE Shutdown
  BY <1>21 DEF Shutdown
<1>22. ASSUME NEW topic \in Topics, SdkCallback(topic) PROVE MissedInv'
  BY <1>22 DEF SdkCallback, Needs, Miss
<1> QED
  BY <1>1, <1>2, <1>3, <1>4, <1>5, <1>6, <1>7, <1>8, <1>9, <1>10, <1>11, <1>12, <1>13, <1>14, <1>15, <1>16, <1>17, <1>18, <1>19, <1>20, <1>21, <1>22 DEF Next, Main

LEMMA Invariance == Spec => []IInv
<1>1. IInv /\ UNCHANGED vars => IInv'
  <2> SUFFICES ASSUME IInv, UNCHANGED vars PROVE IInv'
    OBVIOUS
  <2>1. TypeOK'
    BY DEF IInv, TypeOK, vars, threads
  <2>2. OrderInv'
    BY DEF IInv, OrderInv, vars, threads
  <2>3. OwnerInv'
    BY DEF IInv, OwnerInv, vars, threads
  <2>4. MissedInv'
    BY DEF IInv, MissedInv, vars, threads
  <2> QED BY <2>1, <2>2, <2>3, <2>4 DEF IInv
<1>2. IInv /\ Next => IInv'
  BY TypeStep, OrderStep, OwnerStep, MissedStep DEF IInv
<1> QED BY <1>1, <1>2, InitInv, PTL DEF Spec

\* The variables keep their types, however long the handshake may take.
THEOREM TypeCorrect == Spec => []TypeOK
  BY Invariance, PTL DEF IInv

\* Nothing but the service clients is used before it is prepared.
THEOREM PartsInOrder == Spec => []PartsArePrepared
<1>1. IInv => PartsArePrepared
  BY DEF IInv, MissedInv, PartsArePrepared, Parts
<1> QED BY <1>1, Invariance, PTL

\* No thread outlives the object, and a failed bring-up leaves no callback.
THEOREM ObjectIsOwned == Spec => []ObjectOutlivesUse
<1>1. IInv => ObjectOutlivesUse
  BY DEF IInv, OwnerInv, MissedInv, ObjectOutlivesUse
<1> QED BY <1>1, Invariance, PTL
==============================================================================
