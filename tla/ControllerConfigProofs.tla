------------------------- MODULE ControllerConfigProofs -------------------------
(***************************************************************************)
(* Theorems about ControllerConfig: the map of the indices, and that the   *)
(* code copes with exactly the consistent configurations, whatever lists,  *)
(* modes, gains and sizes the parameters hold.                             *)
(*                                                                         *)
(* What a loop computes is shown by a least counterexample: the least      *)
(* number of passes after which the claim fails is neither 0 nor one more  *)
(* than a number of passes after which it holds.                           *)
(***************************************************************************)
EXTENDS ControllerConfig, FiniteSetTheorems, SequenceTheorems, TLAPS

----------------------------------------------------------------------------
(* Numbers.                                                                *)

\* A set of natural numbers that is not empty has a least element: what the
\* arguments about loops rest on.
LEMMA LeastNumber ==
  ASSUME NEW T, T \subseteq Nat, T # {}
  PROVE  \E x \in T : \A y \in T : x <= y
<1> DEFINE R == OpToRel(<, Nat)
<1>1. IsWellFoundedOn(R, Nat)  BY NatLessThanWellFounded
<1>2. \A x, y \in Nat : y < x => <<y, x>> \in R  BY DEF OpToRel
<1> HIDE DEF R
<1>3. PICK x \in T : \A y \in T : ~ (<<y, x>> \in R)  BY <1>1, WFMin
<1>4. ASSUME NEW y \in T PROVE x <= y
  <2>1. x \in Nat /\ y \in Nat /\ ~(y < x)  BY <1>2, <1>3
  <2> QED BY <2>1
<1> QED BY <1>4

\* Positions in a list have a last one: the CHOOSE of SensorIdx and AtSensor.
LEMMA LastPosition ==
  ASSUME NEW n \in Nat, NEW T, \A t \in T : t \in 1 .. n, T # {}
  PROVE  \E i \in T : \A j \in T : j <= i
<1> DEFINE D == {n - j : j \in T}
<1>1. D \subseteq Nat /\ D # {}  OBVIOUS
<1>2. PICK d \in D : \A e \in D : d <= e  BY <1>1, LeastNumber
<1>3. PICK i \in T : d = n - i  OBVIOUS
<1>4. ASSUME NEW j \in T PROVE j <= i
  <2>1. n - i <= n - j  BY <1>2, <1>3
  <2>2. i \in 1 .. n /\ j \in 1 .. n  OBVIOUS
  <2> QED BY <2>1, <2>2
<1> QED BY <1>4

----------------------------------------------------------------------------
(* The loop that fills wheelfootNonWheelSensorIdx.                         *)

Below(T, i) == {j \in T : j <= i}

\* One pass of the loop: what the function of PushBack satisfies.
Pushes(f, T, n) ==
  f = [i \in 0 .. n |->
         IF i = 0 THEN <<>>
         ELSE IF i \in T THEN Append(f[i - 1], i) ELSE f[i - 1]]

\* There is a function that satisfies the equation PushBack is defined with.
LEMMA PushesExists ==
  ASSUME NEW T, NEW n \in Nat
  PROVE  \E f : Pushes(f, T, n)
<1> DEFINE Bad == {m \in Nat : ~ \E f : Pushes(f, T, m)}
<1>1. SUFFICES ASSUME Bad # {} PROVE FALSE
  OBVIOUS
<1>2. PICK m \in Bad : \A k \in Bad : m <= k
  BY <1>1, LeastNumber
<1>3. CASE m = 0
  <2> DEFINE f == [i \in 0 .. 0 |-> <<>>]
  <2>1. Pushes(f, T, 0)  BY DEF Pushes
  <2> QED BY <1>3, <2>1
<1>4. CASE m # 0
  <2>1. m - 1 \in Nat /\ m - 1 \notin Bad  BY <1>2, <1>4
  <2>2. PICK f : Pushes(f, T, m - 1)  BY <2>1
  <2> DEFINE g == [i \in 0 .. m |->
                     IF i = m THEN (IF m \in T THEN Append(f[m - 1], m) ELSE f[m - 1])
                     ELSE f[i]]
             h == [i \in 0 .. m |->
                     IF i = 0 THEN <<>>
                     ELSE IF i \in T THEN Append(g[i - 1], i) ELSE g[i - 1]]
  <2>3. ASSUME NEW i \in 0 .. m PROVE g[i] = h[i]
    <3>1. CASE i = m
      BY <1>4, <3>1, m - 1 \in 0 .. m, m - 1 # m
    <3>2. CASE i # m
      <4>1. i \in 0 .. m - 1 /\ g[i] = f[i]  BY <3>2
      <4>2. f[i] = IF i = 0 THEN <<>>
                   ELSE IF i \in T THEN Append(f[i - 1], i) ELSE f[i - 1]
        BY <2>2, <4>1 DEF Pushes
      <4>3. i # 0 => i - 1 \in 0 .. m /\ i - 1 # m  BY <4>1
      <4>4. i # 0 => g[i - 1] = f[i - 1]  BY <4>3
      <4> QED BY <4>1, <4>2, <4>4
    <3> QED BY <3>1, <3>2
  <2>4. g = h  BY <2>3
  <2>5. Pushes(g, T, m)  BY <2>4 DEF Pushes
  <2> QED BY <2>5
<1> QED BY <1>3, <1>4

\* How many elements of T lie below i, and how the number grows with i.
LEMMA BelowGrows ==
  ASSUME NEW n \in Nat, NEW T, \A t \in T : t \in 1 .. n
  PROVE  /\ IsFiniteSet(T) /\ Cardinality(T) \in Nat
         /\ Below(T, n) = T
         /\ Cardinality(Below(T, 0)) = 0
         /\ \A i \in 0 .. n :
              IsFiniteSet(Below(T, i)) /\ Cardinality(Below(T, i)) \in Nat
         /\ \A i \in 1 .. n :
              Cardinality(Below(T, i)) =
                IF i \in T THEN Cardinality(Below(T, i - 1)) + 1
                ELSE Cardinality(Below(T, i - 1))
         /\ \A i, j \in T : i < j => Cardinality(Below(T, i)) < Cardinality(Below(T, j))
<1>1. IsFiniteSet(T)
  BY FS_Interval, FS_Subset, 1 \in Int, n \in Int
<1>2. \A i \in 0 .. n : IsFiniteSet(Below(T, i)) /\ Cardinality(Below(T, i)) \in Nat
  <2> TAKE i \in 0 .. n
  <2>1. Below(T, i) \subseteq T  BY DEF Below
  <2>2. IsFiniteSet(Below(T, i))  BY <1>1, <2>1, FS_Subset
  <2> QED BY <2>2, FS_CardinalityType
<1>3. Below(T, 0) = {} /\ Below(T, n) = T  BY DEF Below
<1>4. ASSUME NEW i \in 1 .. n
      PROVE  Cardinality(Below(T, i)) =
               IF i \in T THEN Cardinality(Below(T, i - 1)) + 1
               ELSE Cardinality(Below(T, i - 1))
  <2>1. CASE i \in T
    <3>1. \A t \in T : t <= i <=> t <= i - 1 \/ t = i
      OBVIOUS
    <3>2. Below(T, i) = Below(T, i - 1) \cup {i}  BY <2>1, <3>1 DEF Below
    <3>3. i \notin Below(T, i - 1)  BY DEF Below
    <3>4. IsFiniteSet(Below(T, i - 1))  BY <1>2
    <3> QED BY <2>1, <3>2, <3>3, <3>4, FS_AddElement
  <2>2. CASE i \notin T
    <3>1. Below(T, i) = Below(T, i - 1)  BY <2>2 DEF Below
    <3> QED BY <2>2, <3>1
  <2> QED BY <2>1, <2>2
<1>5. ASSUME NEW i \in 1 .. n, NEW j \in 1 .. n, i \in T, j \in T, i < j
      PROVE  Cardinality(Below(T, i)) < Cardinality(Below(T, j))
  <2>1. \A t \in T : t <= i => t <= j - 1
    BY <1>5
  <2>2. Below(T, i) \subseteq Below(T, j - 1) /\ j - 1 \in 0 .. n
    BY <2>1 DEF Below
  <2>3. Cardinality(Below(T, i)) <= Cardinality(Below(T, j - 1))
    BY <2>2, <1>2, FS_Subset
  <2>4. Cardinality(Below(T, j)) = Cardinality(Below(T, j - 1)) + 1
    BY <1>4, <1>5
  <2> QED BY <2>2, <2>3, <2>4, <1>2
<1> QED BY <1>1, <1>2, <1>3, <1>4, <1>5, FS_EmptySet, FS_CardinalityType

\* After the loop the list holds every element of T once, in ascending order: as
\* many entries as T has elements, the k-th of them the k-th element.
LEMMA PushBackLists ==
  ASSUME NEW n \in Nat, NEW T, \A t \in T : t \in 1 .. n
  PROVE  /\ PushBack(T, n) \in Seq(T)
         /\ Len(PushBack(T, n)) = Cardinality(T)
         /\ \A k \in 1 .. Cardinality(T) :
              Cardinality(Below(T, PushBack(T, n)[k])) = k
<1> DEFINE f == CHOOSE f : Pushes(f, T, n)
           Right(i) == /\ f[i] \in Seq(T)
                       /\ Len(f[i]) = Cardinality(Below(T, i))
                       /\ \A k \in 1 .. Len(f[i]) : Cardinality(Below(T, f[i][k])) = k
           Bad == {i \in 0 .. n : ~ Right(i)}
<1>0. \A i \in 1 .. n :
        Cardinality(Below(T, i)) =
          IF i \in T THEN Cardinality(Below(T, i - 1)) + 1
          ELSE Cardinality(Below(T, i - 1))
  BY BelowGrows
<1>1. Pushes(f, T, n)
  BY PushesExists
<1>2. PushBack(T, n) = f[n]
  BY DEF PushBack, Pushes
<1> HIDE DEF f
<1>3. f[0] = <<>>
  BY <1>1, 0 \in 0 .. n DEF Pushes
<1>4. \A i \in 1 .. n : f[i] = IF i \in T THEN Append(f[i - 1], i) ELSE f[i - 1]
  <2> TAKE i \in 1 .. n
  <2>1. i \in 0 .. n /\ i # 0  OBVIOUS
  <2> QED BY <1>1, <2>1 DEF Pushes
<1>5. Right(0)
  BY <1>3, BelowGrows
<1>6. ASSUME NEW i \in 1 .. n, Right(i - 1) PROVE Right(i)
  <2>0. Cardinality(Below(T, i)) =
          IF i \in T THEN Cardinality(Below(T, i - 1)) + 1
          ELSE Cardinality(Below(T, i - 1))
    BY <1>0
  <2>1. CASE i \in T
    <3>1. f[i] = Append(f[i - 1], i)  BY <1>4, <2>1
    <3>2. Cardinality(Below(T, i)) = Len(f[i - 1]) + 1
      BY <1>6, <2>0, <2>1
    <3>3. /\ f[i] \in Seq(T) /\ Len(f[i]) = Len(f[i - 1]) + 1
          /\ Len(f[i - 1]) \in Nat
          /\ \A k \in 1 .. Len(f[i - 1]) : f[i][k] = f[i - 1][k]
          /\ f[i][Len(f[i - 1]) + 1] = i
      BY <1>6, <2>1, <3>1, AppendProperties
    <3>4. \A k \in 1 .. Len(f[i]) : Cardinality(Below(T, f[i][k])) = k
      <4> TAKE k \in 1 .. Len(f[i])
      <4>1. k \in 1 .. Len(f[i - 1]) \/ k = Len(f[i - 1]) + 1  BY <3>3
      <4> QED BY <1>6, <3>2, <3>3, <4>1
    <3> QED BY <3>2, <3>3, <3>4
  <2>2. CASE i \notin T
    <3>1. f[i] = f[i - 1]  BY <1>4, <2>2
    <3>2. Cardinality(Below(T, i)) = Cardinality(Below(T, i - 1))
      BY <2>0, <2>2
    <3> QED BY <1>6, <3>1, <3>2
  <2> QED BY <2>1, <2>2
<1> HIDE DEF Right
<1>7. ASSUME Bad # {} PROVE FALSE
  <2>0. Bad \subseteq Nat  OBVIOUS
  <2>1. PICK i \in Bad : \A j \in Bad : i <= j
    BY <1>7, <2>0, LeastNumber
  <2>2. i # 0 /\ i \in 1 .. n  BY <1>5, <2>1
  <2>3. i - 1 \in 0 .. n /\ i - 1 \notin Bad  BY <2>1, <2>2
  <2> QED BY <1>6, <2>1, <2>2, <2>3
<1>8. Right(n)
  BY <1>7
<1> QED BY <1>2, <1>8, BelowGrows DEF Right

\* The list of legs the networks expect, in which the k-th leg is the k-th position
\* that is not a wheel's, is the list at the positions the loop collects.
LEMMA LegsArePushed ==
  ASSUME NEW names \in Seq(DOMAIN KindOf)
  PROVE  /\ PushBack(NonWheel(names), Len(names)) \in Seq(NonWheel(names))
         /\ Len(PushBack(NonWheel(names), Len(names))) = Cardinality(NonWheel(names))
         /\ Cardinality(NonWheel(names)) \in Nat
         /\ \A k \in 1 .. Cardinality(NonWheel(names)) :
              /\ PushBack(NonWheel(names), Len(names))[k] \in 1 .. Len(names)
              /\ Legs(names)[k] = names[PushBack(NonWheel(names), Len(names))[k]]
<1> DEFINE n == Len(names)
           T == NonWheel(names)
           legs == PushBack(T, n)
<1>1. n \in Nat /\ DOMAIN names = 1 .. n
  OBVIOUS
<1>2. \A t \in T : t \in 1 .. n
  BY <1>1 DEF NonWheel
<1> HIDE DEF n, T
<1>3. /\ legs \in Seq(T) /\ Len(legs) = Cardinality(T)
      /\ \A k \in 1 .. Cardinality(T) : Cardinality(Below(T, legs[k])) = k
  BY <1>1, <1>2, PushBackLists
<1>4. /\ Cardinality(T) \in Nat
      /\ \A i, j \in T : i < j => Cardinality(Below(T, i)) < Cardinality(Below(T, j))
      /\ \A i \in T : Cardinality(Below(T, i)) \in Nat
  <2>1. \A i \in T : i \in 0 .. n  BY <1>1, <1>2
  <2> QED BY <1>1, <1>2, <2>1, BelowGrows
<1> HIDE DEF legs
<1>5. ASSUME NEW k \in 1 .. Cardinality(T)
      PROVE  legs[k] \in 1 .. n /\ Legs(names)[k] = names[legs[k]]
  <2>1. legs[k] \in T  BY <1>3, <1>4
  <2>2. \A i \in T : Cardinality(Below(T, i)) = k => i = legs[k]
    <3> SUFFICES ASSUME NEW i \in T, Cardinality(Below(T, i)) = k, i # legs[k] PROVE FALSE
      OBVIOUS
    <3>1. Cardinality(Below(T, legs[k])) = k  BY <1>3
    <3>2. i \in 1 .. n /\ legs[k] \in 1 .. n  BY <1>2, <2>1
    <3>3. i < legs[k] \/ legs[k] < i  BY <1>1, <3>2
    <3> QED BY <1>4, <2>1, <3>1, <3>3
  <2>3. KthLeg(names, k) = legs[k]
    BY <1>3, <2>1, <2>2 DEF KthLeg, Below, T
  <2> QED BY <1>2, <2>1, <2>3 DEF Legs, T
<1> QED BY <1>3, <1>4, <1>5 DEF n, T, legs

----------------------------------------------------------------------------
(* Lists, and the segments of an observation.                              *)

\* A list with n entries, whatever they are.
IsList(f, n) == f = [i \in 1 .. n |-> f[i]]

\* h is the list f of length m with the list g of length n behind it.
Joins(h, f, m, g, n) ==
  /\ IsList(h, m + n)
  /\ \A i \in 1 .. m : h[i] = f[i]
  /\ \A i \in 1 .. n : h[m + i] = g[i]

\* That is what concatenation does.
LEMMA Join ==
  ASSUME NEW m \in Nat, NEW n \in Nat, NEW f, NEW g, IsList(f, m), IsList(g, n)
  PROVE  Joins(f \o g, f, m, g, n)
<1> DEFINE E == {f[i] : i \in 1 .. m} \cup {g[i] : i \in 1 .. n}
<1>1. f \in [1 .. m -> E] /\ g \in [1 .. n -> E]
  BY DEF IsList
<1> HIDE DEF E
<1>2. f \in Seq(E) /\ g \in Seq(E) /\ Len(f) = m /\ Len(g) = n
  BY <1>1
<1>3. /\ f \o g \in Seq(E)
      /\ Len(f \o g) = m + n
      /\ \A i \in 1 .. m + n : (f \o g)[i] = IF i <= m THEN f[i] ELSE g[i - m]
  BY <1>2, ConcatProperties
<1>4. IsList(f \o g, m + n)
  BY <1>3 DEF IsList
<1>5. \A i \in 1 .. n : (f \o g)[m + i] = g[i]
  <2> TAKE i \in 1 .. n
  <2>1. m + i \in 1 .. m + n /\ ~(m + i <= m) /\ (m + i) - m = i  OBVIOUS
  <2> QED BY <1>3, <2>1
<1>6. \A i \in 1 .. m : (f \o g)[i] = f[i]
  BY <1>3
<1> QED BY <1>4, <1>5, <1>6 DEF Joins

\* A list has one length.
LEMMA ListLen ==
  ASSUME NEW n \in Nat, NEW f, IsList(f, n)
  PROVE  Len(f) = n /\ DOMAIN f = 1 .. n
  BY DEF IsList

\* Lists of the same length with the same entries are the same.
LEMMA SameList ==
  ASSUME NEW n \in Nat, NEW f, NEW g, IsList(f, n), IsList(g, n),
         \A i \in 1 .. n : f[i] = g[i]
  PROVE  f = g
  BY DEF IsList

GaitLen(c) == IF c.gait THEN 6 ELSE 0

\* f holds the segments pos and vel of lengths p and q, and n last actions, each
\* in its place.
Placed(f, c, pos, p, vel, q, n) ==
  /\ IsList(f, 6 + p + q + n + GaitLen(c))
  /\ \A i \in 1 .. 6 : f[i] = <<"imu", i>>
  /\ \A i \in 1 .. p : f[6 + i] = pos[i]
  /\ \A i \in 1 .. q : f[6 + p + i] = vel[i]
  /\ \A i \in 1 .. n : f[6 + p + q + i] = <<"lastAction", i>>
  /\ \A i \in 1 .. GaitLen(c) : f[6 + p + q + n + i] = <<"gait", i>>

\* Where each entry of an observation stands.
LEMMA SegmentPlaces ==
  ASSUME NEW c, NEW p \in Nat, NEW q \in Nat, NEW n \in Nat, NEW pos, NEW vel,
         IsList(pos, p), IsList(vel, q)
  PROVE  Placed(Segments(c, pos, vel, n), c, pos, p, vel, q, n)
<1> DEFINE a == Imu \o pos
           b == a \o vel
           d == b \o Past(n)
           e == d \o Gait(c)
           g == GaitLen(c)
<1>0. /\ 6 \in Nat /\ 6 + p \in Nat /\ 6 + p + q \in Nat /\ 6 + p + q + n \in Nat
  OBVIOUS
<1>1. IsList(Imu, 6) /\ \A i \in 1 .. 6 : Imu[i] = <<"imu", i>>
  BY DEF IsList, Imu
<1>2. IsList(Past(n), n) /\ \A i \in 1 .. n : Past(n)[i] = <<"lastAction", i>>
  BY DEF IsList, Past
<1>3. g \in Nat /\ IsList(Gait(c), g) /\ \A i \in 1 .. g : Gait(c)[i] = <<"gait", i>>
  BY DEF IsList, Gait, GaitLen
<1>4. Joins(a, Imu, 6, pos, p)
  BY <1>0, <1>1, Join
<1> HIDE DEF a
<1>5. Joins(b, a, 6 + p, vel, q)
  <2>1. IsList(a, 6 + p)  BY <1>4 DEF Joins
  <2> QED BY <1>0, <2>1, Join
<1> HIDE DEF b
<1>6. Joins(d, b, 6 + p + q, Past(n), n)
  <2>1. IsList(b, 6 + p + q)  BY <1>5 DEF Joins
  <2> QED BY <1>0, <1>2, <2>1, Join
<1> HIDE DEF d, g
<1>7. Joins(e, d, 6 + p + q + n, Gait(c), g)
  <2>1. IsList(d, 6 + p + q + n)  BY <1>6 DEF Joins
  <2> QED BY <1>0, <1>3, <2>1, Join
<1>8. Segments(c, pos, vel, n) = e
  BY DEF Segments, a, b, d, e
<1> HIDE DEF e
<1>9. \A i \in 1 .. 6 : e[i] = <<"imu", i>>
  BY <1>1, <1>4, <1>5, <1>6, <1>7 DEF Joins
<1>10. \A i \in 1 .. p : e[6 + i] = pos[i]
  BY <1>4, <1>5, <1>6, <1>7 DEF Joins
<1>11. \A i \in 1 .. q : e[6 + p + i] = vel[i]
  BY <1>5, <1>6, <1>7 DEF Joins
<1>12. \A i \in 1 .. n : e[6 + p + q + i] = <<"lastAction", i>>
  BY <1>2, <1>6, <1>7 DEF Joins
<1>13. \A i \in 1 .. g : e[6 + p + q + n + i] = <<"gait", i>>
  BY <1>3, <1>7 DEF Joins
<1> QED BY <1>7, <1>8, <1>9, <1>10, <1>11, <1>12, <1>13 DEF g, Joins, Placed

----------------------------------------------------------------------------
(* The inductive invariant: what each variable holds, as a function of the *)
(* parameters.                                                             *)

Observed ==
  IF given.variant = "WF" THEN WheelfootSegments(given, idx) ELSE SolefootSegments(given)

Parts == PolicyInput(given.encoderOutputSize, obs)

\* No access of loadRLCfg, of computeObservation, of the two networks went wrong.
LoadOk == ~(Len(Sensors(given)) < Len(given.joints))

ObserveOk ==
  /\ given.variant = "WF" =>
       /\ \A i \in 1 .. given.actionsSize : ~(idx[i] > given.actionsSize)
       /\ \A i \in NonWheel(Sensors(given)) : ~(i > given.actionsSize)
  /\ ~(Len(Observed) > given.policyObsSize)

InferOk ==
  /\ ~(given.encoderInputSize > given.obsHistoryLength * given.policyObsSize)
  /\ given.encoderInputSize = given.net.encoderInput
  /\ given.policyInputSize = given.net.policyInput
  /\ ~(given.encoderOutputSize > given.net.encoderOutput)
  /\ ~(given.actionsSize > given.net.actions)
  /\ ~(Len(Parts) > given.policyInputSize)

ModesMissing == given.variant = "WF" /\ Len(given.modes) < given.actionsSize

LoadInv ==
  pc \notin {"load", "refused"} =>
    /\ given.joints # <<>>
    /\ idx = ActionToSensorIdx(given)
    /\ gain = [i \in DOMAIN given.joints |-> Gain(given, i)]

ObsInv ==
  /\ pc = "observe" => obs = [k \in 1 .. given.policyObsSize |-> Zero]
  /\ pc \in {"infer", "apply", "done"} =>
       /\ given.actionsSize <= Len(given.joints)
       /\ obs = [k \in 1 .. given.policyObsSize |->
                   IF k <= Len(Observed) THEN Observed[k] ELSE Zero]

InputInv ==
  pc \in {"apply", "done"} =>
    input = [k \in 1 .. given.policyInputSize |->
               IF k <= Len(Parts) THEN Parts[k] ELSE Unset]

DrivenInv ==
  pc = "done" =>
    /\ ~ ModesMissing
    /\ driven = [i \in 1 .. given.actionsSize |-> Drive(given, i)]

FaultsInv ==
  /\ pc \in {"load", "refused"} => faults = {}
  /\ pc = "observe" => (faults = {} <=> LoadOk)
  /\ pc = "infer" => (faults = {} <=> LoadOk /\ ObserveOk)
  /\ pc \in {"apply", "done"} => (faults = {} <=> LoadOk /\ ObserveOk /\ InferOk)
  /\ pc = "aborted" =>
       faults # {} /\ (given.actionsSize > Len(given.joints) \/ ModesMissing)

Stages == {"load", "refused", "observe", "infer", "apply", "done", "aborted"}

IInv ==
  /\ pc \in Stages /\ given \in Configs
  /\ LoadInv /\ ObsInv /\ InputInv /\ DrivenInv /\ FaultsInv

\* The initial states satisfy the invariant.
LEMMA InitInv == Init => IInv
  BY DEF Init, IInv, LoadInv, ObsInv, InputInv, DrivenInv, FaultsInv, Stages

\* So does every step preserve it, one action after the other.
LEMMA NextInv == IInv /\ [Next]_vars => IInv'
<1> SUFFICES ASSUME IInv, [Next]_vars PROVE IInv'
  OBVIOUS
<1> USE DEF IInv
<1>1. CASE LoadRLCfg
  BY <1>1 DEF LoadRLCfg, LoadInv, ObsInv, InputInv, DrivenInv, FaultsInv, Stages,
              LoadOk, DefaultsFault
<1>2. CASE LoadRefused
  BY <1>2 DEF LoadRefused, LoadInv, ObsInv, InputInv, DrivenInv, FaultsInv, Stages
<1>3. CASE ComputeObservation
  <2>1. Observed' = Observed /\ UNCHANGED <<given, idx, gain, input, driven>>
    BY <1>3 DEF ComputeObservation, Observed
  <2>2. LoadOk' = LoadOk /\ ModesMissing' = ModesMissing
    BY <2>1 DEF LoadOk, ModesMissing
  <2>3. ObserveOk' = ObserveOk
    BY <2>1 DEF ObserveOk
  <2>4. HandleFaults # {} <=> given.actionsSize > Len(given.joints)
    BY DEF HandleFaults
  <2>5. LoadInv'
    BY <1>3, <2>1 DEF ComputeObservation, LoadInv
  <2>6. CASE HandleFaults # {}
    <3>1. pc' = "aborted" /\ faults' # {}
      BY <1>3, <2>6 DEF ComputeObservation
    <3> QED
      BY <2>1, <2>4, <2>5, <2>6, <3>1 DEF ObsInv, InputInv, DrivenInv, FaultsInv, Stages
  <2>7. CASE HandleFaults = {}
    <3>1. /\ pc = "observe" /\ pc' = "infer"
          /\ obs' = [k \in 1 .. given.policyObsSize |->
                       IF k <= Len(Observed) THEN Observed[k] ELSE obs[k]]
          /\ faults' = faults \cup (IF given.variant = "WF" THEN WheelfootFaults ELSE {})
                \cup (IF Len(Observed) > given.policyObsSize
                      THEN {"observations_ written past its end"} ELSE {})
      BY <1>3, <2>7 DEF ComputeObservation, Observed
    <3>2. obs' = [k \in 1 .. given.policyObsSize |->
                    IF k <= Len(Observed) THEN Observed[k] ELSE Zero]
      BY <3>1 DEF ObsInv
    <3>3. given \in Configs /\ given.actionsSize \in Nat /\ given.policyObsSize \in Nat
      BY ConfigsAssumption
    <3>4. WheelfootFaults = {} <=>
            /\ ~ \E i \in 1 .. given.actionsSize : idx[i] > given.actionsSize
            /\ ~ \E i \in NonWheel(Sensors(given)) : i > given.actionsSize
      BY DEF WheelfootFaults
    <3>5. faults' = {} <=> LoadOk /\ ObserveOk
      BY <3>1, <3>4 DEF FaultsInv, ObserveOk
    <3>6. given.actionsSize <= Len(given.joints)
      BY <2>4, <2>7, <3>3, ConfigsAssumption
    <3>7. ObsInv'
      BY <2>1, <3>1, <3>2, <3>6 DEF ObsInv
    <3>8. InputInv' /\ DrivenInv'
      BY <3>1 DEF InputInv, DrivenInv
    <3>9. FaultsInv'
      BY <2>2, <2>3, <3>1, <3>5 DEF FaultsInv
    <3> QED BY <2>1, <2>5, <3>1, <3>7, <3>8, <3>9 DEF Stages
  <2> QED BY <2>6, <2>7
<1>4. CASE Infer
  <2>1. /\ pc = "infer" /\ pc' = "apply"
        /\ UNCHANGED <<given, idx, gain, obs, driven>>
        /\ input' = [k \in 1 .. given.policyInputSize |->
                       IF k <= Len(Parts) THEN Parts[k] ELSE Unset]
    BY <1>4 DEF Infer, Parts
  <2>2. Observed' = Observed /\ Parts' = Parts
    BY <2>1 DEF Observed, Parts
  <2>3. LoadOk' = LoadOk /\ ModesMissing' = ModesMissing /\ ObserveOk' = ObserveOk
    BY <2>1, <2>2 DEF LoadOk, ModesMissing, ObserveOk
  <2>4. InferOk' = InferOk
    BY <2>1, <2>2 DEF InferOk
  <2>5. LoadInv' /\ ObsInv' /\ InputInv' /\ DrivenInv'
    BY <2>1, <2>2 DEF LoadInv, ObsInv, InputInv, DrivenInv
  <2>6. faults' = {} <=> faults = {} /\ InferOk
    <3>1. faults' = faults
            \cup (IF given.encoderInputSize > given.obsHistoryLength * given.policyObsSize
                  THEN {"history read past its end"} ELSE {})
            \cup (IF given.encoderInputSize # given.net.encoderInput
                     \/ given.policyInputSize # given.net.policyInput
                  THEN {"the network refuses its input"} ELSE {})
            \cup (IF given.encoderOutputSize > given.net.encoderOutput
                     \/ given.actionsSize > given.net.actions
                  THEN {"output read past its end"} ELSE {})
            \cup (IF Len(Parts) > given.policyInputSize
                  THEN {"policyInput written past its end"} ELSE {})
      BY <1>4 DEF Infer, Parts
    <3> QED BY <3>1 DEF InferOk
  <2>7. FaultsInv'
    BY <2>1, <2>3, <2>4, <2>6 DEF FaultsInv
  <2> QED BY <2>1, <2>5, <2>7 DEF Stages
<1>5. CASE ApplyActions
  <2>1. /\ pc = "apply" /\ UNCHANGED <<given, idx, gain, obs, input>>
        /\ IF ModesMissing
           THEN /\ faults' = faults \cup {"jointModes read past its end"}
                /\ pc' = "aborted"
                /\ UNCHANGED driven
           ELSE /\ driven' = [i \in 1 .. given.actionsSize |-> Drive(given, i)]
                /\ pc' = "done"
                /\ UNCHANGED faults
    BY <1>5 DEF ApplyActions, ModesMissing
  <2>2. Observed' = Observed /\ Parts' = Parts
    BY <2>1 DEF Observed, Parts
  <2>3. LoadOk' = LoadOk /\ ModesMissing' = ModesMissing /\ ObserveOk' = ObserveOk
    BY <2>1, <2>2 DEF LoadOk, ModesMissing, ObserveOk
  <2>4. InferOk' = InferOk
    BY <2>1, <2>2 DEF InferOk
  <2>5. LoadInv' /\ ObsInv' /\ InputInv' /\ DrivenInv'
    BY <2>1, <2>2, <2>3 DEF LoadInv, ObsInv, InputInv, DrivenInv
  <2>6. FaultsInv'
    BY <2>1, <2>3, <2>4 DEF FaultsInv
  <2> QED BY <2>1, <2>5, <2>6 DEF Stages
<1>6. CASE UNCHANGED vars
  <2>1. UNCHANGED <<pc, given, idx, gain, obs, input, driven, faults>>
    BY <1>6 DEF vars
  <2>2. Observed' = Observed /\ Parts' = Parts
    BY <2>1 DEF Observed, Parts
  <2>3. LoadOk' = LoadOk /\ ModesMissing' = ModesMissing /\ ObserveOk' = ObserveOk
    BY <2>1, <2>2 DEF LoadOk, ModesMissing, ObserveOk
  <2>4. InferOk' = InferOk
    BY <2>1, <2>2 DEF InferOk
  <2> QED
    BY <2>1, <2>2, <2>3, <2>4 DEF LoadInv, ObsInv, InputInv, DrivenInv, FaultsInv
<1> QED BY <1>1, <1>2, <1>3, <1>4, <1>5, <1>6 DEF Next

----------------------------------------------------------------------------
(* The map of the indices.                                                 *)

\* What the parameters of a controller that was loaded are.
LEMMA Given ==
  ASSUME NEW c \in Configs, c.joints # <<>>
  PROVE  /\ c.joints \in Seq(DOMAIN KindOf) /\ Sensors(c) \in Seq(DOMAIN KindOf)
         /\ Len(c.joints) \in Nat /\ Len(c.joints) > 0
         /\ Len(Sensors(c)) \in Nat
         /\ (Sensors(c) # <<>> => Len(Sensors(c)) > 0)
         /\ DOMAIN c.joints = 1 .. Len(c.joints)
         /\ DOMAIN Sensors(c) = 1 .. Len(Sensors(c))
<1>1. c.joints \in Seq(DOMAIN KindOf) /\ c.sensors \in Seq(DOMAIN KindOf)
  BY ConfigsAssumption
<1>2. Sensors(c) \in Seq(DOMAIN KindOf)
  BY <1>1 DEF Sensors
<1>3. \A s \in Seq(DOMAIN KindOf) :
        Len(s) \in Nat /\ DOMAIN s = 1 .. Len(s) /\ (s # <<>> => Len(s) > 0)
  BY EmptySeq, LenProperties
<1> QED BY <1>1, <1>2, <1>3

\* SensorIdx gives a position of the list, and one where the name stands if it
\* stands anywhere; no later position has it.
LEMMA SensorIdxFinds ==
  ASSUME NEW names \in Seq(DOMAIN KindOf), Len(names) > 0, NEW name
  PROVE  /\ SensorIdx(name, names) \in 1 .. Len(names)
         /\ (\E i \in 1 .. Len(names) : names[i] = name)
              => names[SensorIdx(name, names)] = name
         /\ \A j \in 1 .. Len(names) : names[j] = name => j <= SensorIdx(name, names)
<1> DEFINE n == Len(names)
           T == Occurs(name, names)
<1>1. n \in Nat /\ n > 0 /\ DOMAIN names = 1 .. n
  BY LenProperties
<1>2. \A i : i \in T <=> i \in 1 .. n /\ names[i] = name
  BY <1>1 DEF Occurs
<1> HIDE DEF n
<1>3. CASE T = {}
  <2>1. SensorIdx(name, names) = 1  BY <1>3 DEF SensorIdx
  <2>2. ~ \E i \in 1 .. n : names[i] = name  BY <1>2, <1>3
  <2> QED BY <1>1, <2>1, <2>2 DEF n
<1>4. CASE T # {}
  <2> HIDE DEF T
  <2>1. \E i \in T : \A j \in T : j <= i  BY <1>1, <1>2, <1>4, LastPosition
  <2>2. SensorIdx(name, names) = CHOOSE i \in T : \A j \in T : j <= i
    BY <1>4 DEF SensorIdx, T
  <2>3. SensorIdx(name, names) \in T /\ \A j \in T : j <= SensorIdx(name, names)
    BY <2>1, <2>2
  <2> QED BY <1>2, <2>3 DEF n
<1> QED BY <1>3, <1>4

\* The invariant implies the property: every joint is mapped to a position of the
\* list of the sensors, and to one of its own name if and only if there is one.
LEMMA InvIndexMap == IInv => IndexMapMatches
<1> SUFFICES ASSUME IInv, pc \notin {"load", "refused"}
             PROVE  /\ Sensors(given) # <<>> => Range(idx) \subseteq DOMAIN Sensors(given)
                    /\ (\A i \in DOMAIN given.joints : MapsToItsName(i))
                       <=> Range(given.joints) \subseteq Range(Sensors(given))
  BY DEF IndexMapMatches
<1> DEFINE J == given.joints
           S == Sensors(given)
<1>1. given \in Configs /\ J # <<>> /\ idx = ActionToSensorIdx(given)
  BY DEF IInv, LoadInv
<1>2. /\ J \in Seq(DOMAIN KindOf) /\ S \in Seq(DOMAIN KindOf)
      /\ S # <<>> => Len(S) > 0
      /\ DOMAIN S = 1 .. Len(S)
      /\ 1 \in DOMAIN J
  BY <1>1, Given
<1>3. DOMAIN idx = DOMAIN J /\ \A i \in DOMAIN J : idx[i] = SensorIdx(J[i], S)
  BY <1>1 DEF ActionToSensorIdx
<1>4. \A i : MapsToItsName(i) <=> idx[i] \in DOMAIN S /\ S[idx[i]] = J[i]
  BY DEF MapsToItsName
<1> HIDE DEF J, S
<1>5. CASE S = <<>>
  <2>1. DOMAIN S = {}
    BY <1>5
  <2>2. ~ MapsToItsName(1)
    BY <1>4, <2>1
  <2>3. J[1] \in Range(J) /\ Range(S) = {}
    BY <1>2, <2>1 DEF Range
  <2> QED BY <1>2, <1>5, <2>2, <2>3 DEF J, S
<1>6. CASE S # <<>>
  <2>1. \A i \in DOMAIN J :
          /\ idx[i] \in DOMAIN S
          /\ (\E s \in DOMAIN S : S[s] = J[i]) => S[idx[i]] = J[i]
    BY <1>2, <1>3, <1>6, SensorIdxFinds
  <2>2. (\A i \in DOMAIN J : MapsToItsName(i)) <=> Range(J) \subseteq Range(S)
    BY <1>4, <2>1 DEF Range
  <2>3. Range(idx) \subseteq DOMAIN S
    BY <1>3, <2>1 DEF Range
  <2> QED BY <2>2, <2>3 DEF J, S
<1> QED BY <1>5, <1>6

----------------------------------------------------------------------------
(* The sensors and the joints.                                             *)

\* An entry of qSensor holds the position of a joint that is mapped to it, or
\* nothing was written to it.
LEMMA AtSensorHolds ==
  ASSUME NEW c \in Configs, NEW at, NEW s
  PROVE  \/ \E i \in 1 .. c.actionsSize : at[i] = s /\ AtSensor(c, at, s) = c.joints[i]
         \/ /\ ~ \E i \in 1 .. c.actionsSize : at[i] = s
            /\ AtSensor(c, at, s) = Garbage
<1> DEFINE n == c.actionsSize
           T == {i \in 1 .. n : at[i] = s}
<1>1. n \in Nat
  BY ConfigsAssumption
<1> HIDE DEF n
<1>2. CASE T = {}
  BY <1>2 DEF AtSensor, n
<1>3. CASE T # {}
  <2>1. \A t \in T : t \in 1 .. n  OBVIOUS
  <2> HIDE DEF T
  <2>2. \E i \in T : \A j \in T : j <= i  BY <1>1, <1>3, <2>1, LastPosition
  <2> DEFINE w == CHOOSE i \in T : \A j \in T : j <= i
  <2>3. w \in T  BY <2>2
  <2>4. AtSensor(c, at, s) = c.joints[w]  BY <1>3 DEF AtSensor, n, T
  <2> HIDE DEF w
  <2>5. w \in 1 .. n /\ at[w] = s  BY <2>3 DEF T
  <2> QED BY <2>4, <2>5 DEF n
<1> QED BY <1>2, <1>3

\* A list without repetitions is not longer than a list of the same names.
LEMMA NotLonger ==
  ASSUME NEW m \in Nat, NEW l \in Nat, NEW S, NEW J,
         DOMAIN S = 1 .. m, DOMAIN J = 1 .. l, J \in [1 .. l -> Range(J)],
         S \in [1 .. m -> Range(S)], IsInjective(S), Range(S) = Range(J)
  PROVE  m <= l
<1>1. IsFiniteSet(1 .. l) /\ Cardinality(1 .. l) = l
  BY FS_Interval, 1 \in Int, l \in Int
<1>2. IsFiniteSet(1 .. m) /\ Cardinality(1 .. m) = m
  BY FS_Interval, 1 \in Int, m \in Int
<1>3. J \in Surjection(1 .. l, Range(J))
  BY DEF Surjection, Range
<1>4. IsFiniteSet(Range(J)) /\ Cardinality(Range(J)) <= l
  BY <1>1, <1>3, FS_Surjection
<1>5. S \in Injection(1 .. m, Range(J))
  BY DEF Injection
<1>6. m <= Cardinality(Range(J))
  BY <1>2, <1>4, <1>5, FS_Injection
<1>7. Cardinality(Range(J)) \in Nat
  BY <1>4, FS_CardinalityType
<1> QED BY <1>4, <1>6, <1>7

\* As many sensors as joints, all of them driven: the entries of qSensor are the
\* joints the sensors are named after if and only if the list of the sensors is
\* without repetitions and names the same joints.
LEMMA SensorsMatch ==
  ASSUME NEW c \in Configs, c.joints # <<>>,
         c.actionsSize = Len(c.joints), Len(Sensors(c)) = Len(c.joints)
  PROVE  (\A s \in 1 .. Len(c.joints) :
            AtSensor(c, ActionToSensorIdx(c), s) = Sensors(c)[s])
         <=> IsInjective(Sensors(c)) /\ Range(Sensors(c)) = Range(c.joints)
<1> DEFINE J == c.joints
           S == Sensors(c)
           n == Len(J)
           at == ActionToSensorIdx(c)
           Held(s) == AtSensor(c, at, s)
<1>1. /\ J \in Seq(DOMAIN KindOf) /\ S \in Seq(DOMAIN KindOf) /\ Len(S) = n
      /\ n \in Nat /\ n > 0 /\ DOMAIN J = 1 .. n /\ DOMAIN S = 1 .. n
  BY Given
<1>2. DOMAIN at = 1 .. n /\ \A i \in 1 .. n : at[i] = SensorIdx(J[i], S)
  BY <1>1 DEF ActionToSensorIdx
<1>3. \A s \in 1 .. n :
        \/ \E i \in 1 .. n : at[i] = s /\ Held(s) = J[i]
        \/ ~ (\E i \in 1 .. n : at[i] = s) /\ Held(s) = Garbage
  BY AtSensorHolds
<1>4. IsInjective(at) <=> \A i, j \in 1 .. n : at[i] = at[j] => i = j
  BY <1>2 DEF IsInjective
<1>5. at = [i \in 1 .. n |-> at[i]]
  BY <1>1 DEF ActionToSensorIdx
<1> HIDE DEF J, S, n, at, Held
<1>6. \A i \in 1 .. n :
        /\ at[i] \in 1 .. n
        /\ (\E s \in 1 .. n : S[s] = J[i]) => S[at[i]] = J[i]
  <2> TAKE i \in 1 .. n
  <2>1. /\ SensorIdx(J[i], S) \in 1 .. Len(S)
        /\ (\E s \in 1 .. Len(S) : S[s] = J[i]) => S[SensorIdx(J[i], S)] = J[i]
    BY <1>1, SensorIdxFinds
  <2> QED BY <1>1, <1>2, <2>1
<1>7. ASSUME \A s \in 1 .. n : Held(s) = S[s]
      PROVE  IsInjective(S) /\ Range(S) = Range(J)
  <2>1. \A s \in 1 .. n : \E i \in 1 .. n : at[i] = s /\ J[i] = S[s]
    <3> TAKE s \in 1 .. n
    <3>1. S[s] # Garbage  BY <1>1, KindOfAssumption
    <3> QED BY <1>3, <1>7, <3>1
  <2>2. at \in Surjection(1 .. n, 1 .. n)
    <3>1. at \in [1 .. n -> 1 .. n]  BY <1>5, <1>6
    <3> QED BY <2>1, <3>1 DEF Surjection
  <2>3. IsFiniteSet(1 .. n)
    BY <1>1, FS_Interval, 1 \in Int, n \in Int
  <2>4. IsInjective(at)
    BY <2>2, <2>3, FS_SurjSameCardinalityImpliesInj DEF Injection
  <2>5. \A i \in 1 .. n : S[at[i]] = J[i]
    <3> TAKE i \in 1 .. n
    <3>1. PICK w \in 1 .. n : at[w] = at[i] /\ J[w] = S[at[i]]  BY <1>6, <2>1
    <3> QED BY <1>4, <2>4, <3>1
  <2>6. Range(S) = Range(J)
    <3>1. ASSUME NEW x \in Range(S) PROVE x \in Range(J)
      <4>1. PICK s \in 1 .. n : S[s] = x  BY <1>1 DEF Range
      <4>2. PICK i \in 1 .. n : J[i] = S[s]  BY <2>1
      <4> QED BY <1>1, <4>1, <4>2 DEF Range
    <3>2. \A x \in Range(J) : x \in Range(S)  BY <1>1, <1>6, <2>5 DEF Range
    <3> QED BY <3>1, <3>2
  <2>7. ASSUME NEW a \in 1 .. n, NEW b \in 1 .. n, S[a] = S[b] PROVE a = b
    <3>1. PICK i \in 1 .. n : at[i] = a /\ J[i] = S[a]  BY <2>1
    <3>2. PICK j \in 1 .. n : at[j] = b /\ J[j] = S[b]  BY <2>1
    <3> QED BY <1>2, <2>7, <3>1, <3>2
  <2> QED BY <1>1, <2>6, <2>7 DEF IsInjective
<1>8. ASSUME IsInjective(S), Range(S) = Range(J), NEW s \in 1 .. n
      PROVE  Held(s) = S[s]
  <2>1. PICK i \in 1 .. n : J[i] = S[s]
    BY <1>1, <1>8 DEF Range
  <2>2. at[i] = s
    BY <1>1, <1>6, <1>8, <2>1 DEF IsInjective
  <2>3. PICK w \in 1 .. n : at[w] = s /\ Held(s) = J[w]
    BY <1>3, <2>2
  <2>4. \E t \in 1 .. n : S[t] = J[w]
    BY <1>1, <1>8 DEF Range
  <2> QED BY <1>6, <2>3, <2>4
<1> QED BY <1>7, <1>8 DEF J, S, n, at, Held

----------------------------------------------------------------------------
(* The observation and the layout, entry by entry.                         *)

\* The observation of the wheel-foot variant.
LEMMA WheelfootPlaces ==
  ASSUME NEW c \in Configs, c.joints # <<>>, NEW at,
         NEW p, p = Cardinality(NonWheel(Sensors(c)))
  PROVE  Placed(WheelfootSegments(c, at), c,
           [k \in 1 .. p |-> <<"pos", AtSensor(c, at, NonWheelSensorIdx(c)[k]),
                               DefaultOfSensor(c, NonWheelSensorIdx(c)[k])>>], p,
           [s \in 1 .. c.actionsSize |-> <<"vel", AtSensor(c, at, s)>>],
           c.actionsSize, c.actionsSize)
<1> DEFINE n == c.actionsSize
           legs == NonWheelSensorIdx(c)
           pos == [k \in 1 .. p |-> <<"pos", AtSensor(c, at, legs[k]),
                                      DefaultOfSensor(c, legs[k])>>]
           vel == [s \in 1 .. n |-> <<"vel", AtSensor(c, at, s)>>]
<1>1. n \in Nat
  BY ConfigsAssumption
<1>2. legs \in Seq(NonWheel(Sensors(c))) /\ Len(legs) = p /\ p \in Nat
  BY Given, LegsArePushed DEF NonWheelSensorIdx
<1>3. DOMAIN legs = 1 .. p
  BY <1>2
<1>4. WheelfootSegments(c, at) = Segments(c, pos, vel, n)
  BY <1>3 DEF WheelfootSegments
<1>5. IsList(pos, p) /\ IsList(vel, n)
  BY DEF IsList
<1> HIDE DEF pos, vel, n, legs
<1>6. Placed(Segments(c, pos, vel, n), c, pos, p, vel, n, n)
  BY <1>1, <1>2, <1>5, SegmentPlaces
<1> QED BY <1>4, <1>6 DEF pos, vel, n, legs

\* The layout the networks of the wheel-foot variant expect.
LEMMA WheelfootLayout ==
  ASSUME NEW c \in Configs, c.joints # <<>>, c.variant = "WF",
         NEW p, p = Cardinality(NonWheel(Sensors(c)))
  PROVE  Placed(Layout(c), c,
           [k \in 1 .. p |-> <<"pos", Legs(Sensors(c))[k], Legs(Sensors(c))[k]>>], p,
           [k \in 1 .. Len(Sensors(c)) |-> <<"vel", Sensors(c)[k]>>],
           Len(Sensors(c)), Len(c.joints))
<1> DEFINE S == Sensors(c)
           m == Len(S)
           l == Len(c.joints)
           pos == [k \in 1 .. p |-> <<"pos", Legs(S)[k], Legs(S)[k]>>]
           vel == [k \in 1 .. m |-> <<"vel", S[k]>>]
<1>1. l \in Nat /\ m \in Nat /\ p \in Nat /\ DOMAIN S = 1 .. m
  BY Given, LegsArePushed
<1>2. DOMAIN Legs(S) = 1 .. p
  BY DEF Legs
<1>3. Layout(c) = Segments(c, pos, vel, l)
  BY <1>1, <1>2 DEF Layout
<1>4. IsList(pos, p) /\ IsList(vel, m)
  BY DEF IsList
<1> HIDE DEF pos, vel, m, l, S
<1>5. Placed(Segments(c, pos, vel, l), c, pos, p, vel, m, l)
  BY <1>1, <1>4, SegmentPlaces
<1> QED BY <1>3, <1>5 DEF pos, vel, m, l, S

\* The layout of the sole-foot variant, and its observation when there are as many
\* actions as joints: they are the same.
LEMMA SolefootLayout ==
  ASSUME NEW c \in Configs, c.joints # <<>>, c.variant = "SF"
  PROVE  /\ Placed(Layout(c), c,
              [k \in 1 .. Len(c.joints) |-> <<"pos", c.joints[k], c.joints[k]>>],
              Len(c.joints),
              [k \in 1 .. Len(c.joints) |-> <<"vel", c.joints[k]>>],
              Len(c.joints), Len(c.joints))
         /\ c.actionsSize = Len(c.joints) => SolefootSegments(c) = Layout(c)
<1> DEFINE J == c.joints
           l == Len(J)
           pos == [k \in 1 .. l |-> <<"pos", J[k], J[k]>>]
           vel == [k \in 1 .. l |-> <<"vel", J[k]>>]
<1>1. l \in Nat /\ DOMAIN J = 1 .. l
  BY Given
<1>2. Layout(c) = Segments(c, pos, vel, l)
  BY <1>1 DEF Layout
<1>3. IsList(pos, l) /\ IsList(vel, l)
  BY DEF IsList
<1>4. ASSUME c.actionsSize = l PROVE SolefootSegments(c) = Segments(c, pos, vel, l)
  BY <1>4 DEF SolefootSegments
<1> HIDE DEF pos, vel, l
<1>5. Placed(Segments(c, pos, vel, l), c, pos, l, vel, l, l)
  BY <1>1, <1>3, SegmentPlaces
<1> QED BY <1>2, <1>4, <1>5 DEF pos, vel, l

\* A layout is never empty, and its last entry is none that nobody wrote.
LEMMA LayoutEnds ==
  ASSUME NEW c \in Configs, c.joints # <<>>
  PROVE  \E L \in Nat : /\ L > 0 /\ IsList(Layout(c), L) /\ Len(Layout(c)) = L
                        /\ Layout(c)[L] # Zero
<1> DEFINE l == Len(c.joints)
           g == GaitLen(c)
<1>1. \E p, q \in Nat : \E pos, vel : Placed(Layout(c), c, pos, p, vel, q, l)
  <2>1. c.variant \in {"WF", "SF"} /\ l \in Nat /\ Len(Sensors(c)) \in Nat
    BY ConfigsAssumption, Given
  <2>2. Cardinality(NonWheel(Sensors(c))) \in Nat
    BY Given, LegsArePushed
  <2>3. CASE c.variant = "WF"
    BY <2>1, <2>2, <2>3, WheelfootLayout
  <2>4. CASE c.variant = "SF"
    BY <2>1, <2>4, SolefootLayout
  <2> QED BY <2>1, <2>3, <2>4
<1>1a. PICK p, q \in Nat : \E pos, vel : Placed(Layout(c), c, pos, p, vel, q, l)
  BY <1>1
<1>2. PICK pos, vel : Placed(Layout(c), c, pos, p, vel, q, l)
  BY <1>1a
<1>3. l \in Nat /\ l > 0 /\ g \in {0, 6}
  BY Given DEF GaitLen
<1>4. /\ IsList(Layout(c), 6 + p + q + l + g)
      /\ \A i \in 1 .. l : Layout(c)[6 + p + q + i] = <<"lastAction", i>>
      /\ \A i \in 1 .. g : Layout(c)[6 + p + q + l + i] = <<"gait", i>>
  BY <1>2 DEF Placed
<1> HIDE DEF l, g
<1>5. \/ Layout(c)[6 + p + q + l + g] = <<"lastAction", l>>
      \/ Layout(c)[6 + p + q + l + g] = <<"gait", 6>>
  <2>1. CASE g = 0
    <3>1. 6 + p + q + l + g = 6 + p + q + l /\ l \in 1 .. l  BY <1>3, <2>1
    <3> QED BY <1>4, <3>1
  <2>2. CASE g = 6
    BY <1>4, <2>2, 6 \in 1 .. 6
  <2> QED BY <1>3, <2>1, <2>2
<1> DEFINE L == 6 + p + q + l + g
<1>6. Layout(c)[L] # Zero
  BY <1>5 DEF Zero
<1>7. L \in Nat /\ L > 0
  BY <1>3
<1> HIDE DEF L
<1>8. IsList(Layout(c), L)
  BY <1>4 DEF L
<1> QED BY <1>6, <1>7, <1>8, ListLen

----------------------------------------------------------------------------
(* The input of the policy.                                                *)

\* f holds e outputs of the encoder, the list o of length q, and the command, each
\* in its place.
Filled(f, e, o, q) ==
  /\ IsList(f, e + q + 3)
  /\ Len(f) = e + q + 3
  /\ \A i \in 1 .. e : f[i] = <<"encoded", i>>
  /\ \A i \in 1 .. q : f[e + i] = o[i]
  /\ \A i \in 1 .. 3 : f[e + q + i] = <<"command", i>>

\* Where each entry of the policy's input stands.
LEMMA InputPlaces ==
  ASSUME NEW e \in Nat, NEW q \in Nat, NEW o, IsList(o, q)
  PROVE  Filled(PolicyInput(e, o), e, o, q)
<1> DEFINE a == Encoded(e) \o o
           f == a \o Command
<1>0. 3 \in Nat /\ e + q \in Nat /\ e + q + 3 \in Nat
  OBVIOUS
<1>1. IsList(Encoded(e), e) /\ \A i \in 1 .. e : Encoded(e)[i] = <<"encoded", i>>
  BY DEF IsList, Encoded
<1>2. IsList(Command, 3) /\ \A i \in 1 .. 3 : Command[i] = <<"command", i>>
  BY DEF IsList, Command
<1>3. Joins(a, Encoded(e), e, o, q)
  BY <1>1, Join
<1> HIDE DEF a
<1>4. Joins(f, a, e + q, Command, 3)
  <2>1. IsList(a, e + q)  BY <1>3 DEF Joins
  <2> QED BY <1>0, <1>2, <2>1, Join
<1> HIDE DEF f
<1>5. IsList(f, e + q + 3)
  BY <1>4 DEF Joins
<1>6. Len(f) = e + q + 3
  BY <1>0, <1>5, ListLen
<1>7. /\ \A i \in 1 .. e : f[i] = <<"encoded", i>>
      /\ \A i \in 1 .. q : f[e + i] = o[i]
      /\ \A i \in 1 .. 3 : f[e + q + i] = <<"command", i>>
  BY <1>1, <1>2, <1>3, <1>4 DEF Joins
<1> QED BY <1>5, <1>6, <1>7 DEF f, a, PolicyInput, Filled

\* The parts f as they fill an input of this size.
Fitted(f, size) == [k \in 1 .. size |-> IF k <= Len(f) THEN f[k] ELSE Unset]

\* What it takes for an input of this size to be the trained one.
Trained(e, o, P, size, n, lay, L) ==
  Fitted(PolicyInput(e, o), size) = PolicyInput(n, lay)
    <=> e = n /\ P = L /\ size = e + P + 3 /\ o = lay

\* The policy's input is the one the network was trained with if and only if the
\* encoder's output and the observation have the trained sizes, nothing is left
\* over, and the observation is the trained one.
LEMMA InputMatches ==
  ASSUME NEW e \in Nat, NEW n \in Nat, NEW P \in Nat, NEW L \in Nat, NEW size \in Nat,
         NEW o, IsList(o, P), NEW lay, IsList(lay, L),
         P > 0, o[1] = <<"imu", 1>>, e <= n, e + P + 3 <= size
  PROVE  Trained(e, o, P, size, n, lay, L)
<1> DEFINE f == PolicyInput(e, o)
           h == PolicyInput(n, lay)
           in == Fitted(f, size)
<1>1. Filled(f, e, o, P)
  BY InputPlaces
<1>2. Filled(h, n, lay, L)
  BY InputPlaces
<1>3. IsList(in, size) /\ Len(in) = size
      /\ \A k \in 1 .. size : in[k] = IF k <= e + P + 3 THEN f[k] ELSE Unset
  <2>1. Len(f) = e + P + 3  BY <1>1 DEF Filled
  <2> HIDE DEF f
  <2> QED BY <2>1 DEF IsList, Fitted
<1>4. ASSUME e = n, P = L, size = e + P + 3, o = lay PROVE in = h
  <2>1. f = h  BY <1>4
  <2>2. IsList(h, size)  BY <1>2, <1>4 DEF Filled
  <2> HIDE DEF in, f, h
  <2>3. \A k \in 1 .. size : in[k] = h[k]  BY <1>3, <1>4, <2>1
  <2> QED BY <1>3, <2>2, <2>3, SameList
<1> HIDE DEF in, f, h
<1> USE DEF Filled
<1>5. ASSUME in = h PROVE e = n /\ P = L /\ size = e + P + 3 /\ o = lay
  <2>1. size = n + L + 3
    BY <1>2, <1>3, <1>5
  <2>2. h[size] = <<"command", 3>>
    <3>1. size = n + L + 3 /\ 3 \in 1 .. 3  BY <2>1
    <3> QED BY <1>2, <3>1
  <2>3. size = e + P + 3
    <3>1. size \in 1 .. size  BY <2>1
    <3>2. size > e + P + 3 => in[size] = Unset  BY <1>3, <3>1
    <3> QED BY <1>5, <2>2, <3>2 DEF Unset
  <2>4. e = n
    <3> SUFFICES ASSUME e < n PROVE FALSE  OBVIOUS
    <3>1. e + 1 \in 1 .. n /\ e + 1 \in 1 .. size /\ 1 \in 1 .. P /\ e + 1 <= e + P + 3
      BY <2>1
    <3>2. h[e + 1] = <<"encoded", e + 1>>  BY <1>2, <3>1
    <3>3. in[e + 1] = <<"imu", 1>>  BY <1>1, <1>3, <3>1
    <3> QED BY <1>5, <3>2, <3>3
  <2>5. P = L
    BY <2>1, <2>3, <2>4
  <2>6. \A i \in 1 .. P : o[i] = lay[i]
    <3> TAKE i \in 1 .. P
    <3>1. e + i \in 1 .. size /\ e + i <= e + P + 3  BY <2>3
    <3>2. in[e + i] = o[i]  BY <1>1, <1>3, <3>1
    <3>3. h[e + i] = lay[i]  BY <1>2, <2>4, <2>5
    <3> QED BY <1>5, <3>2, <3>3
  <2>7. o = lay
    BY <2>5, <2>6, SameList
  <2> QED BY <2>3, <2>4, <2>5, <2>7
<1> QED BY <1>4, <1>5 DEF Trained, in, f, h

\* The observation is the trained one if and only if the segments are, and fill it.
LEMMA ObservationMatches ==
  ASSUME NEW P \in Nat, NEW M \in Nat, NEW seg, IsList(seg, M), NEW lay, IsList(lay, P),
         P > 0, lay[P] # Zero, M <= P
  PROVE  [k \in 1 .. P |-> IF k <= M THEN seg[k] ELSE Zero] = lay <=> seg = lay
<1> DEFINE o == [k \in 1 .. P |-> IF k <= M THEN seg[k] ELSE Zero]
<1>1. IsList(o, P) /\ \A k \in 1 .. P : o[k] = IF k <= M THEN seg[k] ELSE Zero
  BY DEF IsList
<1> HIDE DEF o
<1>2. ASSUME o = lay PROVE seg = lay
  <2>1. M = P
    <3>1. P \in 1 .. P  OBVIOUS
    <3>2. M < P => o[P] = Zero  BY <1>1, <3>1
    <3> QED BY <1>2, <3>2
  <2>2. \A k \in 1 .. P : seg[k] = lay[k]  BY <1>1, <1>2, <2>1
  <2> QED BY <2>1, <2>2, SameList
<1>3. ASSUME seg = lay PROVE o = lay
  <2>1. M = P  BY <1>3, ListLen
  <2>2. \A k \in 1 .. P : o[k] = lay[k]  BY <1>1, <1>3, <2>1
  <2> QED BY <1>1, <2>2, SameList
<1> QED BY <1>2, <1>3 DEF o

----------------------------------------------------------------------------
(* The two conditions.                                                     *)

\* With as many actions as joints, the segments of the wheel-foot variant are the
\* trained layout if and only if there are as many sensors as joints, and each
\* entry of qSensor is the joint its sensor is named after.
LEMMA WheelfootMatches ==
  ASSUME NEW c \in Configs, c.joints # <<>>, c.variant = "WF",
         c.actionsSize = Len(c.joints)
  PROVE  WheelfootSegments(c, ActionToSensorIdx(c)) = Layout(c)
         <=> /\ Len(Sensors(c)) = Len(c.joints)
             /\ \A s \in 1 .. Len(c.joints) :
                  AtSensor(c, ActionToSensorIdx(c), s) = Sensors(c)[s]
<1> DEFINE l == Len(c.joints)
           S == Sensors(c)
           m == Len(S)
           legs == NonWheelSensorIdx(c)
           p == Cardinality(NonWheel(S))
           Held(s) == AtSensor(c, ActionToSensorIdx(c), s)
           seg == WheelfootSegments(c, ActionToSensorIdx(c))
           lay == Layout(c)
           pos == [k \in 1 .. p |-> <<"pos", Held(legs[k]), DefaultOfSensor(c, legs[k])>>]
           vel == [s \in 1 .. l |-> <<"vel", Held(s)>>]
           pos2 == [k \in 1 .. p |-> <<"pos", Legs(S)[k], Legs(S)[k]>>]
           vel2 == [k \in 1 .. m |-> <<"vel", S[k]>>]
           g == GaitLen(c)
<1>1. l \in Nat /\ m \in Nat /\ p \in Nat /\ g \in Nat
  BY Given, LegsArePushed DEF GaitLen
<1>2. Placed(seg, c, pos, p, vel, l, l)
  BY WheelfootPlaces
<1>3. Placed(lay, c, pos2, p, vel2, m, l)
  BY WheelfootLayout
<1>4. \A k \in 1 .. p : legs[k] \in 1 .. m /\ Legs(S)[k] = S[legs[k]]
  BY Given, LegsArePushed DEF NonWheelSensorIdx
<1>5. \A s : s <= l /\ s <= m => DefaultOfSensor(c, s) = S[s]
  BY DEF DefaultOfSensor
<1>6. /\ \A k \in 1 .. p : pos[k] = <<"pos", Held(legs[k]), DefaultOfSensor(c, legs[k])>>
      /\ \A k \in 1 .. p : pos2[k] = <<"pos", Legs(S)[k], Legs(S)[k]>>
      /\ \A s \in 1 .. l : vel[s] = <<"vel", Held(s)>>
      /\ \A s \in 1 .. m : vel2[s] = <<"vel", S[s]>>
  OBVIOUS
<1> HIDE DEF l, S, m, legs, p, Held, seg, lay, pos, vel, pos2, vel2
<1>7. /\ IsList(seg, 6 + p + l + l + g)
      /\ \A i \in 1 .. 6 : seg[i] = <<"imu", i>>
      /\ \A i \in 1 .. p : seg[6 + i] = pos[i]
      /\ \A i \in 1 .. l : seg[6 + p + i] = vel[i]
      /\ \A i \in 1 .. l : seg[6 + p + l + i] = <<"lastAction", i>>
      /\ \A i \in 1 .. g : seg[6 + p + l + l + i] = <<"gait", i>>
  BY <1>2 DEF Placed
<1>8. /\ IsList(lay, 6 + p + m + l + g)
      /\ \A i \in 1 .. 6 : lay[i] = <<"imu", i>>
      /\ \A i \in 1 .. p : lay[6 + i] = pos2[i]
      /\ \A i \in 1 .. m : lay[6 + p + i] = vel2[i]
      /\ \A i \in 1 .. l : lay[6 + p + m + i] = <<"lastAction", i>>
      /\ \A i \in 1 .. g : lay[6 + p + m + l + i] = <<"gait", i>>
  BY <1>3 DEF Placed
<1> HIDE DEF g
<1>9. ASSUME seg = lay
      PROVE  m = l /\ \A s \in 1 .. l : Held(s) = S[s]
  <2>1. 6 + p + l + l + g = 6 + p + m + l + g
    BY <1>1, <1>7, <1>8, <1>9, 6 + p + l + l + g \in Nat, 6 + p + m + l + g \in Nat, ListLen
  <2>2. m = l
    BY <1>1, <2>1
  <2>3. \A s \in 1 .. l : Held(s) = S[s]
    <3> TAKE s \in 1 .. l
    <3>1. <<"vel", Held(s)>> = <<"vel", S[s]>>
      BY <1>6, <1>7, <1>8, <1>9, <2>2
    <3> QED BY <3>1
  <2> QED BY <2>2, <2>3
<1>10. ASSUME m = l, \A s \in 1 .. l : Held(s) = S[s]
       PROVE  seg = lay
  <2>1. \A k \in 1 .. p : pos[k] = pos2[k]
    <3> TAKE k \in 1 .. p
    <3>1. legs[k] \in 1 .. l /\ Legs(S)[k] = S[legs[k]]  BY <1>4, <1>10
    <3>2. Held(legs[k]) = S[legs[k]]  BY <1>10, <3>1
    <3>3. DefaultOfSensor(c, legs[k]) = S[legs[k]]  BY <1>1, <1>5, <1>10, <3>1
    <3> QED BY <1>6, <3>1, <3>2, <3>3
  <2>2. \A s \in 1 .. l : vel[s] = vel2[s]
    BY <1>6, <1>10
  <2> DEFINE L == 6 + p + l + l + g
  <2>3. L \in Nat /\ IsList(seg, L) /\ IsList(lay, L)
    BY <1>1, <1>7, <1>8, <1>10
  <2>4. ASSUME NEW i \in 1 .. L PROVE seg[i] = lay[i]
    <3>1. ASSUME i <= 6 PROVE seg[i] = lay[i]
      <4>1. i \in 1 .. 6  BY <1>1, <3>1
      <4> QED BY <1>7, <1>8, <4>1
    <3>2. ASSUME NEW j \in 1 .. p, i = 6 + j PROVE seg[i] = lay[i]
      BY <1>7, <1>8, <2>1, <3>2
    <3>3. ASSUME NEW j \in 1 .. l, i = 6 + p + j PROVE seg[i] = lay[i]
      BY <1>7, <1>8, <1>10, <2>2, <3>3
    <3>4. ASSUME NEW j \in 1 .. l, i = 6 + p + l + j PROVE seg[i] = lay[i]
      <4>1. seg[i] = <<"lastAction", j>>  BY <1>7, <3>4
      <4>2. lay[i] = <<"lastAction", j>>  BY <1>8, <1>10, <3>4
      <4> QED BY <4>1, <4>2
    <3>5. ASSUME NEW j \in 1 .. g, i = 6 + p + l + l + j PROVE seg[i] = lay[i]
      <4>1. seg[i] = <<"gait", j>>  BY <1>7, <3>5
      <4>2. lay[i] = <<"gait", j>>  BY <1>8, <1>10, <3>5
      <4> QED BY <4>1, <4>2
    <3>6. \/ i <= 6
          \/ i - 6 \in 1 .. p /\ i = 6 + (i - 6)
          \/ i - 6 - p \in 1 .. l /\ i = 6 + p + (i - 6 - p)
          \/ i - 6 - p - l \in 1 .. l /\ i = 6 + p + l + (i - 6 - p - l)
          \/ i - 6 - p - l - l \in 1 .. g /\ i = 6 + p + l + l + (i - 6 - p - l - l)
      BY <1>1
    <3> HIDE DEF L
    <3> QED BY <3>1, <3>2, <3>3, <3>4, <3>5, <3>6
  <2> QED BY <2>3, <2>4, SameList
<1> QED BY <1>9, <1>10 DEF l, S, m, Held, seg, lay

\* Of a loaded controller with as many actions as joints: its segments are a list
\* that starts with the IMU, and are the trained layout if and only if, for the
\* wheel-foot variant, the sensors and the joints match.
LEMMA ObservedMatches ==
  ASSUME IInv, pc = "done", given.actionsSize = Len(given.joints)
  PROVE  Observed = Layout(given)
         <=> (given.variant = "WF" =>
                /\ Len(Sensors(given)) = Len(given.joints)
                /\ IsInjective(Sensors(given))
                /\ Range(Sensors(given)) = Range(given.joints))
<1>1. /\ given \in Configs /\ given.joints # <<>> /\ idx = ActionToSensorIdx(given)
      /\ given.variant \in {"WF", "SF"}
  BY ConfigsAssumption DEF IInv, LoadInv
<1>2. CASE given.variant = "WF"
  <2>1. Observed = WheelfootSegments(given, ActionToSensorIdx(given))
    BY <1>1, <1>2 DEF Observed
  <2>2. Observed = Layout(given)
        <=> /\ Len(Sensors(given)) = Len(given.joints)
            /\ \A s \in 1 .. Len(given.joints) :
                 AtSensor(given, ActionToSensorIdx(given), s) = Sensors(given)[s]
    BY <1>1, <1>2, <2>1, WheelfootMatches
  <2>3. Len(Sensors(given)) = Len(given.joints) =>
          ((\A s \in 1 .. Len(given.joints) :
              AtSensor(given, ActionToSensorIdx(given), s) = Sensors(given)[s])
           <=> IsInjective(Sensors(given)) /\ Range(Sensors(given)) = Range(given.joints))
    BY <1>1, SensorsMatch
  <2> QED BY <1>2, <2>2, <2>3
<1>3. CASE given.variant = "SF"
  BY <1>1, <1>3, SolefootLayout DEF Observed
<1> QED BY <1>1, <1>2, <1>3

\* What the segments are, whatever the parameters.
LEMMA ObservedIsList ==
  ASSUME IInv, pc = "done"
  PROVE  \E M \in Nat : /\ M > 5 /\ IsList(Observed, M) /\ Len(Observed) = M
                        /\ Observed[1] = <<"imu", 1>>
<1> DEFINE n == given.actionsSize
           g == GaitLen(given)
<1>1. /\ given \in Configs /\ given.joints # <<>>
      /\ given.variant \in {"WF", "SF"} /\ n \in Nat /\ g \in Nat
  BY ConfigsAssumption DEF IInv, LoadInv, GaitLen
<1>2. \E p \in Nat : \E pos, vel : Placed(Observed, given, pos, p, vel, n, n)
  <2>1. CASE given.variant = "WF"
    <3>1. Cardinality(NonWheel(Sensors(given))) \in Nat
      BY <1>1, Given, LegsArePushed
    <3> QED BY <1>1, <2>1, <3>1, WheelfootPlaces DEF Observed
  <2>2. CASE given.variant = "SF"
    <3> DEFINE pos == [i \in 1 .. n |-> <<"pos", given.joints[i], given.joints[i]>>]
               vel == [i \in 1 .. n |-> <<"vel", given.joints[i]>>]
    <3>1. IsList(pos, n) /\ IsList(vel, n)  BY DEF IsList
    <3>2. Observed = Segments(given, pos, vel, n)
      BY <2>2 DEF Observed, SolefootSegments
    <3> HIDE DEF pos, vel, n
    <3>3. Placed(Segments(given, pos, vel, n), given, pos, n, vel, n, n)
      BY <1>1, <3>1, SegmentPlaces
    <3> QED BY <1>1, <3>2, <3>3
  <2> QED BY <1>1, <2>1, <2>2
<1>2a. PICK p \in Nat : \E pos, vel : Placed(Observed, given, pos, p, vel, n, n)
  BY <1>2
<1>3. PICK pos, vel : Placed(Observed, given, pos, p, vel, n, n)
  BY <1>2a
<1> HIDE DEF n
<1>4. IsList(Observed, 6 + p + n + n + g) /\ Observed[1] = <<"imu", 1>>
  BY <1>3, 1 \in 1 .. 6 DEF Placed
<1> HIDE DEF g
<1>5. 6 + p + n + n + g \in Nat /\ 6 + p + n + n + g > 5
  BY <1>1
<1> QED BY <1>4, <1>5, ListLen

\* How the joints are driven, and with which gains, is right if and only if the
\* modes fit the joints and every kind of joint has gains.
LEMMA DrivenMatches ==
  ASSUME IInv, pc = "done", given.actionsSize = Len(given.joints)
  PROVE  /\ (\A i \in DOMAIN given.joints : Drive(given, i) = Wanted(given.joints[i]))
            <=> \A i \in DOMAIN given.joints :
                  IF given.variant = "WF"
                  THEN i <= Len(given.modes)
                         /\ (given.modes[i] = "velocity"
                               <=> KindOf[given.joints[i]] = "wheel")
                  ELSE KindOf[given.joints[i]] # "wheel"
         /\ Garbage \notin Range(gain)
            <=> \A i \in DOMAIN given.joints : KindOf[given.joints[i]] \in given.gains
<1> DEFINE J == given.joints
           l == Len(J)
<1>1. /\ given \in Configs /\ J # <<>> /\ given.variant \in {"WF", "SF"}
      /\ given.modes \in Seq(STRING) /\ given.gains \subseteq Kinds
      /\ gain = [i \in DOMAIN J |-> Gain(given, i)]
  BY ConfigsAssumption DEF IInv, LoadInv
<1>2. l \in Nat /\ DOMAIN J = 1 .. l /\ J \in Seq(DOMAIN KindOf)
  BY <1>1, Given
<1>3. given.variant = "WF" => l <= Len(given.modes)
  <2>1. ~ ModesMissing  BY DEF IInv, DrivenInv
  <2>2. Len(given.modes) \in Nat  BY <1>1
  <2> QED BY <1>2, <2>1, <2>2 DEF ModesMissing
<1>4. \A i \in DOMAIN J : given.variant = "WF" => i <= Len(given.modes)
  <2> TAKE i \in DOMAIN J
  <2>1. i \in 1 .. l /\ Len(given.modes) \in Nat  BY <1>1, <1>2
  <2> QED BY <1>2, <1>3, <2>1
<1>5. \A i \in DOMAIN J :
        Drive(given, i) = Wanted(J[i])
        <=> IF given.variant = "WF"
            THEN given.modes[i] = "velocity" <=> KindOf[J[i]] = "wheel"
            ELSE KindOf[J[i]] # "wheel"
  BY DEF Drive, Wanted
<1>6. \A i \in DOMAIN J : Gain(given, i) = Garbage <=> KindOf[J[i]] \notin given.gains
  <2>1. Garbage \notin Kinds  BY DEF Garbage, Kinds
  <2> QED BY <1>1, <2>1 DEF Gain
<1>7. Garbage \notin Range(gain) <=> \A i \in DOMAIN J : Gain(given, i) # Garbage
  BY <1>1 DEF Range
<1> QED BY <1>4, <1>5, <1>6, <1>7

\* A tick that was broken off is not sound, and its parameters were not consistent.
LEMMA AbortedIsNeither ==
  ASSUME IInv, pc = "aborted"
  PROVE  ~ Sound /\ ~ Consistent(given)
<1>1. faults # {} /\ (given.actionsSize > Len(given.joints) \/ ModesMissing)
  BY DEF IInv, FaultsInv
<1>2. ~ Sound
  BY <1>1 DEF Sound
<1>3. given \in Configs /\ given.joints # <<>> /\ given.modes \in Seq(STRING)
  BY ConfigsAssumption DEF IInv, LoadInv
<1>4. /\ Len(given.joints) \in Nat /\ DOMAIN given.joints = 1 .. Len(given.joints)
      /\ Len(given.joints) > 0 /\ Len(given.modes) \in Nat
  BY <1>3, Given
<1>5. SUFFICES ASSUME Consistent(given) PROVE FALSE
  BY <1>2
<1>6. given.actionsSize = Len(given.joints)
  BY <1>5 DEF Consistent
<1>7. given.variant = "WF" => \A i \in DOMAIN given.joints : i <= Len(given.modes)
  BY <1>5 DEF Consistent
<1>8. Len(given.joints) \in DOMAIN given.joints
  BY <1>4
<1>9. given.variant = "WF" => Len(given.joints) <= Len(given.modes)
  BY <1>7, <1>8
<1> QED BY <1>1, <1>4, <1>6, <1>9 DEF ModesMissing

\* A tick that is done is sound if and only if its parameters were consistent.
LEMMA DoneIsSound ==
  ASSUME IInv, pc = "done"
  PROVE  Sound <=> Consistent(given)
<1> DEFINE c == given
           J == c.joints
           S == Sensors(c)
           l == Len(J)
           m == Len(S)
           n == c.actionsSize
           P == c.policyObsSize
           e == c.encoderOutputSize
           ei == c.encoderInputSize
           size == c.policyInputSize
           hist == c.obsHistoryLength * P
           lay == Layout(c)
<1>1. /\ c \in Configs /\ J # <<>> /\ c.variant \in {"WF", "SF"}
      /\ n \in Nat /\ P \in Nat /\ e \in Nat /\ ei \in Nat /\ size \in Nat
      /\ c.obsHistoryLength \in Nat
      /\ c.net \in [encoderInput : Nat, encoderOutput : Nat, policyInput : Nat, actions : Nat]
  BY ConfigsAssumption DEF IInv, LoadInv
<1>2. /\ l \in Nat /\ m \in Nat /\ DOMAIN J = 1 .. l /\ DOMAIN S = 1 .. m
      /\ J \in Seq(DOMAIN KindOf) /\ S \in Seq(DOMAIN KindOf)
  BY <1>1, Given
<1>3. hist \in Nat
  BY <1>1
<1>4. /\ obs = [k \in 1 .. P |-> IF k <= Len(Observed) THEN Observed[k] ELSE Zero]
      /\ input = [k \in 1 .. size |-> IF k <= Len(Parts) THEN Parts[k] ELSE Unset]
      /\ driven = [i \in 1 .. n |-> Drive(c, i)]
      /\ faults = {} <=> LoadOk /\ ObserveOk /\ InferOk
      /\ idx = ActionToSensorIdx(c)
  BY DEF IInv, LoadInv, ObsInv, InputInv, DrivenInv, FaultsInv
<1>5. PICK M \in Nat : /\ M > 5 /\ IsList(Observed, M) /\ Len(Observed) = M
                       /\ Observed[1] = <<"imu", 1>>
  BY ObservedIsList
<1>6. PICK L \in Nat : /\ L > 0 /\ IsList(lay, L) /\ Len(lay) = L /\ lay[L] # Zero
  BY <1>1, LayoutEnds
<1>7. IsList(obs, P) /\ (M <= P => P > 0 /\ obs[1] = <<"imu", 1>>)
  <2>1. IsList(obs, P)  BY <1>4 DEF IsList
  <2>2. ASSUME M <= P PROVE P > 0 /\ 1 \in 1 .. P /\ 1 <= M
    BY <1>1, <1>5, <2>2
  <2> QED BY <1>4, <1>5, <2>1, <2>2
<1>8. Len(Parts) = e + P + 3
  <2>1. Filled(PolicyInput(e, obs), e, obs, P)
    BY <1>1, <1>7, InputPlaces
  <2> QED BY <2>1 DEF Parts, Filled
<1>9. M <= P /\ P = L => (obs = lay <=> Observed = lay)
  <2> HIDE DEF lay, P
  <2> SUFFICES ASSUME M <= P, P = L PROVE obs = lay <=> Observed = lay
    OBVIOUS
  <2>1. [k \in 1 .. P |-> IF k <= M THEN Observed[k] ELSE Zero] = lay <=> Observed = lay
    BY <1>1, <1>5, <1>6, ObservationMatches
  <2> QED BY <1>4, <1>5, <2>1
<1>10. M <= P /\ e <= c.net.encoderOutput /\ e + P + 3 <= size =>
         (input = PolicyInput(c.net.encoderOutput, lay)
          <=> e = c.net.encoderOutput /\ P = L /\ size = e + P + 3 /\ obs = lay)
  <2> SUFFICES ASSUME M <= P, e <= c.net.encoderOutput, e + P + 3 <= size
               PROVE  input = PolicyInput(c.net.encoderOutput, lay)
                      <=> /\ e = c.net.encoderOutput /\ P = L /\ size = e + P + 3
                          /\ obs = lay
    OBVIOUS
  <2> DEFINE out == c.net.encoderOutput
  <2>1. /\ e \in Nat /\ out \in Nat /\ P \in Nat /\ L \in Nat /\ size \in Nat
        /\ IsList(obs, P) /\ IsList(lay, L)
        /\ P > 0 /\ obs[1] = <<"imu", 1>> /\ e <= out /\ e + P + 3 <= size
    BY <1>1, <1>6, <1>7
  <2> HIDE DEF lay, P, e, size, out
  <2>2. Trained(e, obs, P, size, out, lay, L)
    BY <2>1, InputMatches
  <2>3. input = Fitted(Parts, size)  BY <1>4 DEF Fitted, size
  <2>4. Parts = PolicyInput(e, obs)  BY DEF Parts, e
  <2> QED BY <2>2, <2>3, <2>4 DEF Trained, out
<1>11. n = l =>
         (Observed = lay <=> (c.variant = "WF" =>
                                m = l /\ IsInjective(S) /\ Range(S) = Range(J)))
  BY ObservedMatches
<1>12. EncoderInput = [k \in 1 .. hist |-> <<"history", k>>] <=> ei = hist
  <2>1. IsList(EncoderInput, ei)  BY DEF IsList, EncoderInput
  <2> DEFINE all == [k \in 1 .. hist |-> <<"history", k>>]
  <2>2. IsList(all, hist)  BY DEF IsList
  <2>3. ei = hist => EncoderInput = all  BY <1>1 DEF EncoderInput
  <2> HIDE DEF all, hist, ei
  <2>4. EncoderInput = all => ei = hist  BY <1>1, <1>3, <2>1, <2>2, ListLen
  <2> QED BY <2>3, <2>4 DEF all, hist
<1>13. DOMAIN driven = 1 .. n /\ (DOMAIN driven = DOMAIN J <=> n = l)
  BY <1>1, <1>2, <1>4
<1>14. c.net.actions = n /\ n = l =>
         (driven = [i \in 1 .. c.net.actions |-> Wanted(J[i])]
          <=> \A i \in DOMAIN J : Drive(c, i) = Wanted(J[i]))
  BY <1>2, <1>4
<1>15. n = l =>
         /\ (\A i \in DOMAIN J : Drive(c, i) = Wanted(J[i]))
              <=> \A i \in DOMAIN J :
                    IF c.variant = "WF"
                    THEN i <= Len(c.modes) /\ (c.modes[i] = "velocity" <=> KindOf[J[i]] = "wheel")
                    ELSE KindOf[J[i]] # "wheel"
         /\ Garbage \notin Range(gain) <=> \A i \in DOMAIN J : KindOf[J[i]] \in c.gains
  BY DrivenMatches
<1>16. LoadOk <=> m >= l
  BY <1>2 DEF LoadOk
<1>17. InferOk <=> /\ ei <= hist /\ ei = c.net.encoderInput /\ size = c.net.policyInput
                   /\ e <= c.net.encoderOutput /\ n <= c.net.actions
                   /\ e + P + 3 <= size
  <2> DEFINE out == c.net.encoderOutput
             acts == c.net.actions
             len == Len(Parts)
  <2>1. /\ out \in Nat /\ acts \in Nat /\ len = e + P + 3
        /\ ei \in Nat /\ hist \in Nat /\ e \in Nat /\ n \in Nat /\ P \in Nat
        /\ size \in Nat
    BY <1>1, <1>3, <1>8
  <2>2. InferOk <=> /\ ~(ei > hist) /\ ei = c.net.encoderInput
                    /\ size = c.net.policyInput
                    /\ ~(e > out) /\ ~(n > acts) /\ ~(len > size)
    BY DEF InferOk
  <2> HIDE DEF out, acts, len, ei, hist, e, n, P, size
  <2>3. /\ ~(ei > hist) <=> ei <= hist
        /\ ~(e > out) <=> e <= out
        /\ ~(n > acts) <=> n <= acts
        /\ ~(len > size) <=> e + P + 3 <= size
    BY <2>1
  <2> QED BY <2>2, <2>3 DEF out, acts
<1> HIDE DEF J, S, l, m, n, P, e, ei, size, hist, lay
<1>18. ASSUME Sound PROVE Consistent(c)
  <2>1. /\ LoadOk /\ ObserveOk /\ InferOk
        /\ EncoderInput = [k \in 1 .. hist |-> <<"history", k>>]
        /\ input = PolicyInput(c.net.encoderOutput, lay)
        /\ driven = [i \in 1 .. c.net.actions |-> Wanted(J[i])]
        /\ DOMAIN driven = DOMAIN J
        /\ Garbage \notin Range(gain)
    BY <1>4, <1>18 DEF Sound, hist, P, lay, J
  <2>2. n = l /\ c.net.actions = n
    <3>1. n = l  BY <1>13, <2>1
    <3>2. 1 .. c.net.actions = 1 .. n  BY <1>13, <2>1
    <3> QED BY <1>1, <3>1, <3>2
  <2>3. M <= P
    BY <1>1, <1>5, <2>1 DEF ObserveOk, P
  <2>4. e = c.net.encoderOutput /\ P = L /\ size = e + P + 3 /\ obs = lay
    BY <1>10, <1>17, <2>1, <2>3
  <2>5. c.variant = "WF" => m = l /\ IsInjective(S) /\ Range(S) = Range(J)
    BY <1>9, <1>11, <2>2, <2>3, <2>4
  <2>6. /\ \A i \in DOMAIN J :
             IF c.variant = "WF"
             THEN i <= Len(c.modes) /\ (c.modes[i] = "velocity" <=> KindOf[J[i]] = "wheel")
             ELSE KindOf[J[i]] # "wheel"
        /\ \A i \in DOMAIN J : KindOf[J[i]] \in c.gains
    BY <1>14, <1>15, <2>1, <2>2
  <2>7. ei = hist
    BY <1>12, <2>1
  <2>8. c.net = [encoderInput |-> ei, encoderOutput |-> e, policyInput |-> size,
                 actions |-> n]
    BY <1>1, <1>17, <2>1, <2>2, <2>4
  <2>9. m >= l /\ P = Len(lay)
    BY <1>6, <1>16, <2>1, <2>4
  <2> QED
    BY <2>2, <2>4, <2>5, <2>6, <2>7, <2>8, <2>9
    DEF Consistent, J, S, l, m, n, P, e, ei, size, hist, lay
<1>19. ASSUME Consistent(c) PROVE Sound
  <2>1. /\ c.variant = "WF" => IsInjective(S) /\ Range(S) = Range(J)
        /\ m >= l /\ n = l /\ P = Len(lay) /\ ei = hist /\ size = e + P + 3
        /\ \A i \in DOMAIN J : KindOf[J[i]] \in c.gains
        /\ \A i \in DOMAIN J :
             IF c.variant = "WF"
             THEN i <= Len(c.modes) /\ (c.modes[i] = "velocity" <=> KindOf[J[i]] = "wheel")
             ELSE KindOf[J[i]] # "wheel"
        /\ c.net = [encoderInput |-> ei, encoderOutput |-> e, policyInput |-> size,
                    actions |-> n]
    BY <1>19 DEF Consistent, J, S, l, m, n, P, e, ei, size, hist, lay
  <2>2. /\ c.net.encoderInput = ei /\ c.net.encoderOutput = e
        /\ c.net.policyInput = size /\ c.net.actions = n
    BY <2>1
  <2>3. ASSUME c.variant = "WF" PROVE m = l
    <3>1. J \in [1 .. l -> Range(J)] /\ S \in [1 .. m -> Range(S)]
      BY <1>2 DEF Range
    <3>2. /\ l \in Nat /\ m \in Nat /\ DOMAIN J = 1 .. l /\ DOMAIN S = 1 .. m
          /\ IsInjective(S) /\ Range(S) = Range(J)
      BY <1>2, <2>1, <2>3
    <3>3. m <= l  BY <3>1, <3>2, NotLonger
    <3>4. m >= l  BY <2>1
    <3> QED BY <3>2, <3>3, <3>4
  <2>4. Observed = lay
    BY <1>11, <2>1, <2>3
  <2>5. M = P /\ P = L
    BY <1>5, <1>6, <2>1, <2>4
  <2>6. obs = lay /\ input = PolicyInput(c.net.encoderOutput, lay)
    BY <1>1, <1>9, <1>10, <2>1, <2>2, <2>4, <2>5
  <2>7. LoadOk /\ InferOk
    BY <1>1, <1>3, <1>16, <1>17, <2>1, <2>2
  <2>8. ObserveOk
    <3>1. ~(Len(Observed) > P)  BY <1>1, <1>5, <2>5
    <3>2. ASSUME c.variant = "WF", NEW i \in 1 .. n PROVE ~(idx[i] > n)
      <4>1. idx[i] = SensorIdx(J[i], S)
        BY <1>2, <1>4, <2>1, <3>2 DEF ActionToSensorIdx, J, S
      <4>2. m > 0
        <5>1. l > 0  BY <1>1, Given DEF l, J
        <5> QED BY <1>2, <2>1, <5>1
      <4>3. SensorIdx(J[i], S) \in 1 .. m
        BY <1>2, <4>2, SensorIdxFinds DEF m
      <4> QED BY <1>1, <1>2, <2>1, <2>3, <3>2, <4>1, <4>3
    <3>3. ASSUME c.variant = "WF", NEW i \in NonWheel(S) PROVE ~(i > n)
      <4>1. i \in 1 .. m  BY <1>2, <3>3 DEF NonWheel
      <4> QED BY <1>1, <1>2, <2>1, <2>3, <3>3, <4>1
    <3> QED BY <3>1, <3>2, <3>3 DEF ObserveOk, n, S, P
  <2>9. faults = {}
    BY <1>4, <2>7, <2>8
  <2>10. EncoderInput = [k \in 1 .. hist |-> <<"history", k>>]
    BY <1>12, <2>1
  <2>11. driven = [i \in 1 .. c.net.actions |-> Wanted(J[i])] /\ DOMAIN driven = DOMAIN J
    BY <1>13, <1>14, <1>15, <2>1, <2>2
  <2>12. Garbage \notin Range(gain)
    BY <1>15, <2>1
  <2> QED
    BY <2>6, <2>9, <2>10, <2>11, <2>12 DEF Sound, hist, P, lay, J
<1> QED BY <1>18, <1>19

----------------------------------------------------------------------------
(* The theorems.                                                           *)

\* Every variable holds what the invariant says, in every reachable state.
THEOREM Invariant == Spec => []IInv
<1>1. Init => IInv  BY InitInv
<1>2. IInv /\ [Next]_vars => IInv'  BY NextInv
<1> QED BY <1>1, <1>2, PTL DEF Spec

\* Whatever the two lists hold, actionToSensorIdx maps every joint to an existing
\* sensor, and to one of its own name for every joint if and only if every joint
\* has one.
THEOREM IndexMapTheorem == Spec => []IndexMapMatches
<1>1. IInv => IndexMapMatches  BY InvIndexMap
<1> QED BY <1>1, Invariant, PTL

\* For all lists, modes, gains and sizes: the tick is sound if and only if the
\* parameters are consistent.  None of the conditions, which the code does not
\* check, is too many, and none is missing.
THEOREM ConsistentTheorem == Spec => []ConsistentIsSound
<1>1. ASSUME IInv PROVE ConsistentIsSound
  BY <1>1, AbortedIsNeither, DoneIsSound DEF ConsistentIsSound
<1> QED BY <1>1, Invariant, PTL
=============================================================================
