-------------------------- MODULE OrtWrapperProofs --------------------------
(***************************************************************************)
(* Ownership in the wrapper, for any number of C++ objects, of addresses   *)
(* and of outputs, and any classes used together.                          *)
(***************************************************************************)
EXTENDS OrtWrapper, TLAPS

\* What a call may make: nothing that makes a wrapper wraps a Status, and a part
\* is of another class than what lends parts.
Lenders == {"Allocator", "TypeInfo"}

Typed(k) ==
  /\ k.how \in {"plain", "owner", "part", "bare"}
  /\ k.how # "plain" => k.gives \in BaseClasses \cup {"Memory"}
  /\ k.how = "part" => k.on \in Lenders /\ k.gives \notin Lenders

\* Every call that some set of classes allows is of that kind.
LEMMA CallsTyped == \A k \in Calls : Typed(k)
<1> USE DEF Typed, Lenders, Call, BaseClasses
<1>1. \A c : \A k \in Use(c) : Typed(k)
  BY DEF Use
<1>2. \A c : \A d \in BaseClasses \cup {"Memory"} :
        \A k \in Make(c, d) \cup Keep(c, d) \cup Bare(c, d) : Typed(k)
  BY DEF Make, Keep, Bare
<1>3. \A c \in Lenders : \A d \in (BaseClasses \cup {"Memory"}) \ Lenders :
        \A k \in Lend(c, d) : Typed(k)
  BY DEF Lend
<1> HIDE DEF Typed, Call
<1>4. \A k \in DefaultAllocatorCalls \cup MemoryInfoCalls \cup AllocatorCalls
                 \cup IoBindingCalls \cup ArenaCfgCalls : Typed(k)
  BY <1>1, <1>2, <1>3 DEF DefaultAllocatorCalls, MemoryInfoCalls,
     AllocatorCalls, IoBindingCalls, ArenaCfgCalls
<1>5. \A k \in EnvCalls \cup CustomOpDomainCalls \cup RunOptionsCalls
                 \cup SessionOptionsCalls \cup SessionCalls
                 \cup ModelMetadataCalls : Typed(k)
  BY <1>1, <1>2 DEF EnvCalls, CustomOpDomainCalls, RunOptionsCalls,
     SessionOptionsCalls, SessionCalls, ModelMetadataCalls
<1>6. \A k \in TypeInfoCalls : Typed(k)
  BY <1>1, <1>2, <1>3 DEF TypeInfoCalls
<1>7. \A k \in ValueCreations \cup ValueQueries \cup CustomOpCalls : Typed(k)
  BY <1>1, <1>2 DEF ValueCreations, ValueQueries, CustomOpCalls
<1> QED BY <1>4, <1>5, <1>6, <1>7 DEF Calls

\* The addresses that somebody has to release.
Solid == Live \ parts

Holds(o) == kind[o] \in {"building", "owner"} /\ ptr[o] # Null

\* Who may release what, address by address.
HandInv ==
  /\ parts \subseteq Live
  /\ \A o \in Objects : Holds(o) => ptr[o] \in Solid /\ class[ptr[o]] = type[o]
  /\ \A o, q \in Objects : Holds(o) /\ Holds(q) /\ ptr[o] = ptr[q] => o = q
  /\ bare \subseteq Solid /\ array \subseteq Solid
  /\ \A h \in array : class[h] = "Value"
  /\ \A x \in {buffer, status} : x # Null => x \in Solid
  /\ \A o \in Objects : Holds(o) =>
       ptr[o] \notin bare \cup array \cup {buffer, status}
  /\ bare \cap (array \cup {buffer, status}) = {}
  /\ array \cap {buffer, status} = {}
  /\ buffer # Null => buffer # status
  /\ \A h \in Solid : \/ h \in bare \cup array \cup {buffer, status}
                      \/ \E o \in Objects : Holds(o) /\ ptr[o] = h

\* A part belongs to something solid that is not a part of the call in progress.
PartInv ==
  /\ \A h \in parts : class[h] \notin Lenders /\ uses[h] \in Solid
  /\ \A h \in parts : uses[h] \notin array \cup {buffer, status}
  /\ \A h \in parts : \A o \in making : uses[h] # ptr[o]
  /\ \A o \in Objects : kind[o] = "unowned" =>
       ptr[o] \in parts /\ class[ptr[o]] = type[o]

\* What the call in progress has in its hands, stage by stage.
StageInv ==
  /\ \A o \in Objects : o \in making <=> kind[o] = "building"
  /\ stage = "running" => \A o \in making : ptr[o] = Null /\ type[o] = "Value"
  /\ stage \in {"idle", "thrown"} => making = {}
  /\ stage \notin {"harvesting", "unwinding"} => array = {} /\ buffer = Null
  /\ stage = "harvesting" => buffer # Null
  /\ stage # "failed" => status = Null

\* The C objects that the call in progress has in its hands.
InCall(h) == h \in array \cup {buffer, status} \/ \E o \in making : ptr[o] = h

\* During a call there live the C objects that lived before, and those.
BeforeInv ==
  stage \notin {"idle", "thrown"} =>
    \A h \in Handles : /\ h \in Live <=> h \in before \/ InCall(h)
                       /\ ~(h \in before /\ InCall(h))

IInv == TypeOK /\ HandInv /\ PartInv /\ StageInv /\ BeforeInv

----------------------------------------------------------------------------
\* The address by address form says what Ownership says.
LEMMA InvOwns == IInv => Ownership
<1> SUFFICES ASSUME IInv PROVE Ownership OBVIOUS
<1> USE DEF IInv, HandInv, PartInv, Solid, Holds
<1>1. \A o \in Objects : o \in Holders <=> Holds(o)
  BY DEF Holders
<1>2. Live \subseteq Handles /\ \A h \in Handles : h \in Live <=> class[h] # "free"
  BY DEF Live, Free
<1>3. OneHolder
  <2>1. \A h \in Held : \E o \in Objects : Holds(o) /\ ptr[o] = h
    BY <1>1 DEF Held, Holders
  <2>2. \A h \in bare \cup array \cup Buffers \cup Statuses :
           h \in Live \ (parts \cup Held)
    BY <2>1 DEF Buffers, Statuses
  <2>3. \A h \in bare : h \notin array \cup Buffers \cup Statuses
    BY DEF Buffers, Statuses
  <2>4. array \cap (Buffers \cup Statuses) = {} /\ Buffers \cap Statuses = {}
    BY DEF Buffers, Statuses
  <2>5. /\ \A o \in Holders : class[ptr[o]] = type[o] /\ ptr[o] \notin parts
        /\ \A o, q \in Holders : ptr[o] = ptr[q] => o = q
    BY <1>1 DEF Holders
  <2> QED BY <2>2, <2>3, <2>4, <2>5 DEF OneHolder
<1>4. NothingIsLost
  <2>1. \A h \in Held : h \in Solid
    BY <1>1 DEF Held, Holders
  <2>2. \A h \in Solid : h \in Held \cup bare \cup array \cup Buffers \cup Statuses
    <3> SUFFICES ASSUME NEW h \in Solid
                 PROVE  h \in Held \cup bare \cup array \cup Buffers \cup Statuses
      OBVIOUS
    <3>1. h # Null
      BY <1>2, OrtAssumption DEF OrtAssumption
    <3>2. CASE h \in bare \cup array \cup {buffer, status}
      BY <3>1, <3>2 DEF Buffers, Statuses
    <3>3. CASE \E o \in Objects : Holds(o) /\ ptr[o] = h
      BY <1>1, <3>3 DEF Held
    <3> QED BY <3>2, <3>3
  <2>3. Buffers \cup Statuses \subseteq Solid
    BY DEF Buffers, Statuses
  <2> QED BY <2>1, <2>2, <2>3 DEF NothingIsLost
<1>5. BorrowsAreParts
  BY DEF BorrowsAreParts
<1> QED BY <1>3, <1>4, <1>5 DEF Ownership

----------------------------------------------------------------------------
(* The heap.                                                               *)

\* The addresses where something lives.
LEMMA LiveIs ==
  /\ Live \subseteq Handles /\ Null \notin Live
  /\ \A h \in Handles : h \in Live <=> class[h] # "free"
  BY OrtAssumption DEF Live, Free, OrtAssumption

\* The runtime puts a new C object where nothing lives.
LEMMA FreshIsFree == \A n : \A h \in Fresh(n) : h \in Handles \ Live
  BY DEF Fresh, Live, Free

\* A C object comes to life at a free address, and nothing else changes.
LEMMA AllocateHeap ==
  ASSUME TypeOK, parts \subseteq Live, NEW h \in Handles \ Live,
         NEW c \in HandleClasses, NEW g \in Handles \cup {Null}, Allocate(h, c, g)
  PROVE  /\ class' \in [Handles -> HandleClasses \cup {"free"}]
         /\ uses' \in [Handles -> Handles \cup {Null}]
         /\ parts' = parts
         /\ Live' = Live \cup {h} /\ Solid' = Solid \cup {h} /\ h \notin Solid
         /\ class'[h] = c
         /\ \A x \in Live : class'[x] = class[x] /\ uses'[x] = uses[x]
<1>1. /\ class' \in [Handles -> HandleClasses \cup {"free"}]
      /\ uses' \in [Handles -> Handles \cup {Null}]
      /\ parts' = parts
      /\ class'[h] = c
      /\ \A x \in Handles \ {h} : class'[x] = class[x] /\ uses'[x] = uses[x]
  BY DEF Allocate, TypeOK
<1>2. c # "free"
  BY DEF HandleClasses, BaseClasses
<1>3. Live' = Live \cup {h}
  BY <1>1, <1>2 DEF Live, Free
<1>4. Solid' = Solid \cup {h} /\ h \notin Solid
  BY <1>1, <1>3 DEF Solid
<1> QED BY <1>1, <1>3, <1>4, LiveIs

\* A release takes the C objects of S away, with their parts, and no other.
LEMMA ReleaseHeap ==
  ASSUME TypeOK, parts \subseteq Live, \A h \in parts : uses[h] \in Solid,
         NEW S, S \subseteq Solid \cup {Null}, Release(S)
  PROVE  /\ class' \in [Handles -> HandleClasses \cup {"free"}]
         /\ uses' \in [Handles -> Handles \cup {Null}]
         /\ parts' = {h \in parts : uses[h] \notin S}
         /\ parts' \subseteq Live'
         /\ Live' = Live \ (S \cup {h \in parts : uses[h] \in S})
         /\ Solid' = Solid \ S
         /\ \A x \in Live' : class'[x] = class[x] /\ uses'[x] = uses[x]
<1> DEFINE gone == S \cup {h \in parts : uses[h] \in S}
<1>1. /\ class' = [h \in Handles |-> IF h \in gone THEN "free" ELSE class[h]]
      /\ uses' = [h \in Handles |-> IF h \in gone THEN Null ELSE uses[h]]
      /\ parts' = parts \ gone
  BY DEF Release
<1>2. parts \cap S = {}
  BY LiveIs DEF Solid
<1>3. parts' = {h \in parts : uses[h] \notin S}
  BY <1>1, <1>2
<1>4. Live' = Live \ gone
  BY <1>1 DEF Live, Free
<1>5. Solid' = Solid \ S
  BY <1>1, <1>2, <1>3, <1>4 DEF Solid
<1>6. \A x \in Live' : class'[x] = class[x] /\ uses'[x] = uses[x]
  BY <1>1, <1>4, LiveIs
<1>7. /\ class' \in [Handles -> HandleClasses \cup {"free"}]
      /\ uses' \in [Handles -> Handles \cup {Null}]
  BY <1>1 DEF TypeOK
<1>8. parts' \subseteq Live'
  BY <1>2, <1>3, <1>4, <1>1
<1> QED BY <1>3, <1>4, <1>5, <1>6, <1>7, <1>8
----------------------------------------------------------------------------
(* Steps that leave the heap alone.                                        *)

\* release().
LEMMA GiveUpStep ==
  ASSUME IInv, NEW o \in Objects, GiveUp(o)
  PROVE  IInv'
<1> USE DEF GiveUp, IInv, heap, progress, Idle
<1>0. Solid' = Solid /\ Live' = Live
  BY DEF Solid, Live, Free
<1>1. TypeOK'
  BY DEF TypeOK
<1>2. HandInv'
  BY <1>0 DEF TypeOK, HandInv, StageInv, Holds
<1>3. PartInv'
  BY <1>0 DEF TypeOK, PartInv, StageInv
<1>4. StageInv' /\ BeforeInv'
  BY DEF TypeOK, StageInv, BeforeInv
<1> QED BY <1>1, <1>2, <1>3, <1>4

\* T{p}.
LEMMA AdoptStep ==
  ASSUME IInv, NEW o \in Objects, NEW h \in bare, Adopt(o, h)
  PROVE  IInv'
<1> USE DEF Adopt, IInv, heap, progress, Idle
<1>0. Solid' = Solid /\ Live' = Live /\ h \in Handles /\ h # Null
  BY OrtAssumption DEF Solid, Live, Free, TypeOK, OrtAssumption
<1>1. TypeOK'
  BY <1>0 DEF TypeOK
<1>2. HandInv'
  BY <1>0 DEF TypeOK, HandInv, StageInv, Holds
<1>3. PartInv'
  BY <1>0 DEF TypeOK, PartInv, StageInv
<1>4. StageInv' /\ BeforeInv'
  BY DEF TypeOK, StageInv, BeforeInv
<1> QED BY <1>1, <1>2, <1>3, <1>4

\* Base(Base&& v).
LEMMA MoveConstructStep ==
  ASSUME IInv, NEW d \in Objects, NEW s \in Objects, MoveConstruct(d, s)
  PROVE  IInv'
<1> USE DEF MoveConstruct, IInv, heap, progress, Idle
<1>0. Solid' = Solid /\ Live' = Live
  BY DEF Solid, Live, Free
<1>1. TypeOK'
  BY DEF TypeOK
<1>2. HandInv'
  BY <1>0 DEF TypeOK, HandInv, StageInv, Holds
<1>3. PartInv'
  BY <1>0 DEF TypeOK, PartInv, StageInv
<1>4. StageInv' /\ BeforeInv'
  BY DEF TypeOK, StageInv, BeforeInv
<1> QED BY <1>1, <1>2, <1>3, <1>4

\* Unowned wrappers come and go without the C object that they point into.
LEMMA UnownedStep ==
  ASSUME IInv,
         \/ \E d, s \in Objects : MoveUnowned(d, s)
         \/ \E o \in Objects : DestroyUnowned(o)
  PROVE  IInv'
<1> USE DEF IInv, heap, progress, Idle
<1>1. ASSUME NEW d \in Objects, NEW s \in Objects, MoveUnowned(d, s)
      PROVE  IInv'
  <2> USE <1>1 DEF MoveUnowned
  <2>0. Solid' = Solid /\ Live' = Live
    BY DEF Solid, Live, Free
  <2>1. TypeOK'
    BY DEF TypeOK
  <2>2. HandInv'
    BY <2>0 DEF TypeOK, HandInv, StageInv, Holds
  <2>3. PartInv'
    BY <2>0 DEF TypeOK, PartInv, StageInv
  <2>4. StageInv' /\ BeforeInv'
    BY DEF TypeOK, StageInv, BeforeInv
  <2> QED BY <2>1, <2>2, <2>3, <2>4
<1>2. ASSUME NEW o \in Objects, DestroyUnowned(o)
      PROVE  IInv'
  <2> USE <1>2 DEF DestroyUnowned, Gone
  <2>0. Solid' = Solid /\ Live' = Live
    BY DEF Solid, Live, Free
  <2>1. TypeOK'
    BY DEF TypeOK
  <2>2. HandInv'
    BY <2>0 DEF TypeOK, HandInv, StageInv, Holds
  <2>3. PartInv'
    BY <2>0 DEF TypeOK, PartInv, StageInv
  <2>4. StageInv' /\ BeforeInv'
    BY DEF TypeOK, StageInv, BeforeInv
  <2> QED BY <2>1, <2>2, <2>3, <2>4
<1> QED BY <1>1, <1>2

\* Steps that only move the call along.
LEMMA ProgressStep ==
  ASSUME IInv, SetLanguageProjection \/ HarvestThrows \/ Catch
                 \/ \E k \in CallsNow, g \in Pointers : CastThrows(k, g)
  PROVE  IInv'
<1> USE DEF IInv, heap, objects, Idle
<1>1. CASE SetLanguageProjection
  <2> USE <1>1 DEF SetLanguageProjection, Complete
  <2>0. Solid' = Solid /\ Live' = Live
    BY DEF Solid, Live, Free
  <2>1. TypeOK'
    BY LiveIs DEF TypeOK, Stages
  <2>2. HandInv'
    BY <2>0 DEF TypeOK, HandInv, StageInv, Holds
  <2>3. PartInv'
    BY <2>0 DEF TypeOK, PartInv, StageInv
  <2>4. StageInv'
    BY DEF TypeOK, StageInv
  <2>5. BeforeInv'
    BY <2>0, LiveIs, OrtAssumption
    DEF TypeOK, StageInv, BeforeInv, InCall, OrtAssumption
  <2> QED BY <2>1, <2>2, <2>3, <2>4, <2>5
<1>2. CASE HarvestThrows
  <2> USE <1>2 DEF HarvestThrows
  <2>0. Solid' = Solid /\ Live' = Live
    BY DEF Solid, Live, Free
  <2>1. TypeOK'
    BY LiveIs DEF TypeOK, Stages
  <2>2. HandInv'
    BY <2>0 DEF TypeOK, HandInv, StageInv, Holds
  <2>3. PartInv'
    BY <2>0 DEF TypeOK, PartInv, StageInv
  <2>4. StageInv'
    BY DEF TypeOK, StageInv
  <2>5. BeforeInv'
    BY <2>0, LiveIs, OrtAssumption
    DEF TypeOK, StageInv, BeforeInv, InCall, OrtAssumption
  <2> QED BY <2>1, <2>2, <2>3, <2>4, <2>5
<1>3. CASE Catch
  <2> USE <1>3 DEF Catch
  <2>0. Solid' = Solid /\ Live' = Live
    BY DEF Solid, Live, Free
  <2>1. TypeOK'
    BY LiveIs DEF TypeOK, Stages
  <2>2. HandInv'
    BY <2>0 DEF TypeOK, HandInv, StageInv, Holds
  <2>3. PartInv'
    BY <2>0 DEF TypeOK, PartInv, StageInv
  <2>4. StageInv'
    BY DEF TypeOK, StageInv
  <2>5. BeforeInv'
    BY <2>0, LiveIs, OrtAssumption
    DEF TypeOK, StageInv, BeforeInv, InCall, OrtAssumption
  <2> QED BY <2>1, <2>2, <2>3, <2>4, <2>5
<1>4. CASE \E k \in CallsNow, g \in Pointers : CastThrows(k, g)
  <2> USE <1>4 DEF CastThrows
  <2>0. Solid' = Solid /\ Live' = Live
    BY DEF Solid, Live, Free
  <2>1. TypeOK'
    BY LiveIs DEF TypeOK, Stages
  <2>2. HandInv'
    BY <2>0 DEF TypeOK, HandInv, StageInv, Holds
  <2>3. PartInv'
    BY <2>0 DEF TypeOK, PartInv, StageInv
  <2>4. StageInv'
    BY DEF TypeOK, StageInv
  <2>5. BeforeInv'
    BY <2>0, LiveIs, OrtAssumption
    DEF TypeOK, StageInv, BeforeInv, InCall, OrtAssumption
  <2> QED BY <2>1, <2>2, <2>3, <2>4, <2>5
<1> QED BY <1>1, <1>2, <1>3, <1>4
----------------------------------------------------------------------------
(* Releases.                                                               *)

\* The client frees what it holds by a bare pointer.
LEMMA FreeBareStep ==
  ASSUME IInv, NEW h \in bare, FreeBare(h)
  PROVE  IInv'
<1> USE DEF FreeBare, objects, progress, Idle, IInv
<1>1. {h} \subseteq Solid \cup {Null}
  BY DEF HandInv
<1>2. parts \subseteq Live /\ \A x \in parts : uses[x] \in Solid
  BY DEF HandInv, PartInv
<1>3. /\ class' \in [Handles -> HandleClasses \cup {"free"}]
      /\ uses' \in [Handles -> Handles \cup {Null}]
      /\ parts' = {x \in parts : uses[x] \notin {h}}
      /\ parts' \subseteq Live'
      /\ Live' = Live \ ({h} \cup {x \in parts : uses[x] \in {h}})
      /\ Solid' = Solid \ {h}
      /\ \A x \in Live' : class'[x] = class[x] /\ uses'[x] = uses[x]
  BY <1>1, <1>2, ReleaseHeap
<1>4. Solid \subseteq Live /\ Solid' \subseteq Live' /\ Solid \cap parts = {}
        /\ Null \notin Live
  BY LiveIs DEF Solid
<1>5. TypeOK'
  BY <1>2, <1>3, <1>4, LiveIs DEF TypeOK, Stages
<1>6. HandInv'
  BY <1>3, <1>4 DEF TypeOK, HandInv, StageInv, Holds, Unused, PartsOf
<1>7. PartInv'
  BY <1>2, <1>3, <1>4 DEF TypeOK, PartInv, StageInv, Unused, PartsOf
<1>8. StageInv'
  BY DEF TypeOK, StageInv
<1>9. BeforeInv'
  BY DEF TypeOK, StageInv, BeforeInv
<1> QED BY <1>5, <1>6, <1>7, <1>8, <1>9

\* ~Base and ~MemoryAllocation.
LEMMA DestroyOwnerStep ==
  ASSUME IInv, NEW o \in Objects, DestroyOwner(o)
  PROVE  IInv'
<1> USE DEF DestroyOwner, DropOwner, Gone, progress, Idle, IInv
<1>1. {ptr[o]} \subseteq Solid \cup {Null}
  BY DEF HandInv, Holds, TypeOK
<1>2. parts \subseteq Live /\ \A h \in parts : uses[h] \in Solid
  BY DEF HandInv, PartInv
<1>3. /\ class' \in [Handles -> HandleClasses \cup {"free"}]
      /\ uses' \in [Handles -> Handles \cup {Null}]
      /\ parts' = {h \in parts : uses[h] \notin {ptr[o]}}
      /\ parts' \subseteq Live'
      /\ Live' = Live \ ({ptr[o]} \cup {h \in parts : uses[h] \in {ptr[o]}})
      /\ Solid' = Solid \ {ptr[o]}
      /\ \A x \in Live' : class'[x] = class[x] /\ uses'[x] = uses[x]
  BY <1>1, <1>2, ReleaseHeap
<1>4. Solid \subseteq Live /\ Solid' \subseteq Live' /\ Solid \cap parts = {}
        /\ Null \notin Live
  BY LiveIs DEF Solid
<1>5. TypeOK'
  BY <1>2, <1>3, <1>4, LiveIs DEF TypeOK, Stages
<1>6. HandInv'
  BY <1>3, <1>4 DEF TypeOK, HandInv, StageInv, Holds
<1>7. PartInv'
  BY <1>2, <1>3, <1>4 DEF TypeOK, PartInv, StageInv, Unused, PartsOf
<1>8. StageInv'
  BY DEF TypeOK, StageInv
<1>9. BeforeInv'
  BY DEF TypeOK, StageInv, BeforeInv
<1> QED BY <1>5, <1>6, <1>7, <1>8, <1>9

\* operator= releases what the target had.
LEMMA MoveAssignStep ==
  ASSUME IInv, NEW d \in Objects, NEW s \in Objects, MoveAssign(d, s)
  PROVE  IInv'
<1> USE DEF MoveAssign, progress, Idle, IInv
<1>1. {ptr[d]} \subseteq Solid \cup {Null}
  BY DEF HandInv, Holds, TypeOK
<1>2. parts \subseteq Live /\ \A h \in parts : uses[h] \in Solid
  BY DEF HandInv, PartInv
<1>3. /\ class' \in [Handles -> HandleClasses \cup {"free"}]
      /\ uses' \in [Handles -> Handles \cup {Null}]
      /\ parts' = {h \in parts : uses[h] \notin {ptr[d]}}
      /\ parts' \subseteq Live'
      /\ Live' = Live \ ({ptr[d]} \cup {h \in parts : uses[h] \in {ptr[d]}})
      /\ Solid' = Solid \ {ptr[d]}
      /\ \A x \in Live' : class'[x] = class[x] /\ uses'[x] = uses[x]
  BY <1>1, <1>2, ReleaseHeap
<1>4. Solid \subseteq Live /\ Solid' \subseteq Live' /\ Solid \cap parts = {}
        /\ Null \notin Live
  BY LiveIs DEF Solid
<1>5. TypeOK'
  BY <1>2, <1>3, <1>4, LiveIs DEF TypeOK, Stages
<1>6. HandInv'
  BY <1>3, <1>4 DEF TypeOK, HandInv, StageInv, Holds
<1>7. PartInv'
  BY <1>2, <1>3, <1>4 DEF TypeOK, PartInv, StageInv, Unused, PartsOf
<1>8. StageInv'
  BY DEF TypeOK, StageInv
<1>9. BeforeInv'
  BY DEF TypeOK, StageInv, BeforeInv
<1> QED BY <1>5, <1>6, <1>7, <1>8, <1>9

\* So does the swap of two allocations.
LEMMA MoveAllocationStep ==
  ASSUME IInv, NEW d \in Objects, NEW s \in Objects,
         MoveAllocation(d, s)
  PROVE  IInv'
<1> USE DEF MoveAllocation, progress, Idle, IInv
<1>1. {ptr[d]} \subseteq Solid \cup {Null}
  BY DEF HandInv, Holds, TypeOK
<1>2. parts \subseteq Live /\ \A h \in parts : uses[h] \in Solid
  BY DEF HandInv, PartInv
<1>3. /\ class' \in [Handles -> HandleClasses \cup {"free"}]
      /\ uses' \in [Handles -> Handles \cup {Null}]
      /\ parts' = {h \in parts : uses[h] \notin {ptr[d]}}
      /\ parts' \subseteq Live'
      /\ Live' = Live \ ({ptr[d]} \cup {h \in parts : uses[h] \in {ptr[d]}})
      /\ Solid' = Solid \ {ptr[d]}
      /\ \A x \in Live' : class'[x] = class[x] /\ uses'[x] = uses[x]
  BY <1>1, <1>2, ReleaseHeap
<1>4. Solid \subseteq Live /\ Solid' \subseteq Live' /\ Solid \cap parts = {}
        /\ Null \notin Live
  BY LiveIs DEF Solid
<1>5. TypeOK'
  BY <1>2, <1>3, <1>4, LiveIs DEF TypeOK, Stages
<1>6. HandInv'
  BY <1>3, <1>4 DEF TypeOK, HandInv, StageInv, Holds
<1>7. PartInv'
  BY <1>2, <1>3, <1>4 DEF TypeOK, PartInv, StageInv, Unused, PartsOf
<1>8. StageInv'
  BY DEF TypeOK, StageInv
<1>9. BeforeInv'
  BY DEF TypeOK, StageInv, BeforeInv
<1> QED BY <1>5, <1>6, <1>7, <1>8, <1>9

\* The status goes when it has been turned into an exception.
LEMMA ThrowOnErrorStep ==
  ASSUME IInv, ThrowOnError
  PROVE  IInv'
<1> USE DEF ThrowOnError, objects, IInv
<1>1. {status} \subseteq Solid \cup {Null}
  BY DEF HandInv, Holds, TypeOK
<1>2. parts \subseteq Live /\ \A h \in parts : uses[h] \in Solid
  BY DEF HandInv, PartInv
<1>3. /\ class' \in [Handles -> HandleClasses \cup {"free"}]
      /\ uses' \in [Handles -> Handles \cup {Null}]
      /\ parts' = {h \in parts : uses[h] \notin {status}}
      /\ parts' \subseteq Live'
      /\ Live' = Live \ ({status} \cup {h \in parts : uses[h] \in {status}})
      /\ Solid' = Solid \ {status}
      /\ \A x \in Live' : class'[x] = class[x] /\ uses'[x] = uses[x]
  BY <1>1, <1>2, ReleaseHeap
<1>4. Solid \subseteq Live /\ Solid' \subseteq Live' /\ Solid \cap parts = {}
        /\ Null \notin Live
  BY LiveIs DEF Solid
<1>5. TypeOK'
  BY <1>2, <1>3, <1>4, LiveIs DEF TypeOK, Stages
<1>6. HandInv'
  BY <1>3, <1>4 DEF TypeOK, HandInv, StageInv, Holds
<1>7. PartInv'
  BY <1>2, <1>3, <1>4 DEF TypeOK, PartInv, StageInv
<1>8. StageInv'
  BY DEF TypeOK, StageInv
<1>9. BeforeInv'
  <2>1. Live' = Live \ {status}
    BY <1>2, <1>3 DEF PartInv
  <2>2. \A h \in Handles : InCall(h)' <=> InCall(h) /\ h # status
    <3>1. /\ array' = array /\ buffer' = buffer /\ making' = making /\ ptr' = ptr
          /\ status' = Null /\ array = {} /\ buffer = Null
      BY DEF StageInv
    <3>2. \A o \in making : ptr[o] # Null => ptr[o] # status
      BY DEF HandInv, StageInv, Holds, TypeOK
    <3> QED BY <3>1, <3>2, OrtAssumption DEF InCall, OrtAssumption
  <2>3. before' = before /\ stage = "failed"
    OBVIOUS
  <2> QED BY <2>1, <2>2, <2>3 DEF BeforeInv, InCall
<1> QED BY <1>5, <1>6, <1>7, <1>8, <1>9

\* The C array goes when its elements have been taken over.
LEMMA ReturnValuesStep ==
  ASSUME IInv, ReturnValues
  PROVE  IInv'
<1> USE DEF ReturnValues, Complete, IInv
<1>1. {buffer} \subseteq Solid \cup {Null}
  BY DEF HandInv, Holds, TypeOK
<1>2. parts \subseteq Live /\ \A h \in parts : uses[h] \in Solid
  BY DEF HandInv, PartInv
<1>3. /\ class' \in [Handles -> HandleClasses \cup {"free"}]
      /\ uses' \in [Handles -> Handles \cup {Null}]
      /\ parts' = {h \in parts : uses[h] \notin {buffer}}
      /\ parts' \subseteq Live'
      /\ Live' = Live \ ({buffer} \cup {h \in parts : uses[h] \in {buffer}})
      /\ Solid' = Solid \ {buffer}
      /\ \A x \in Live' : class'[x] = class[x] /\ uses'[x] = uses[x]
  BY <1>1, <1>2, ReleaseHeap
<1>4. Solid \subseteq Live /\ Solid' \subseteq Live' /\ Solid \cap parts = {}
        /\ Null \notin Live
  BY LiveIs DEF Solid
<1>5. TypeOK'
  BY <1>2, <1>3, <1>4, LiveIs DEF TypeOK, Stages
<1>6. HandInv'
  BY <1>3, <1>4 DEF TypeOK, HandInv, StageInv, Holds
<1>7. PartInv'
  BY <1>2, <1>3, <1>4 DEF TypeOK, PartInv, StageInv
<1>8. StageInv'
  BY DEF TypeOK, StageInv
<1>9. BeforeInv'
  BY DEF TypeOK, StageInv, BeforeInv
<1> QED BY <1>5, <1>6, <1>7, <1>8, <1>9

\* All that the call had in its hands goes.
LEMMA UnwindStep ==
  ASSUME IInv, Unwind
  PROVE  IInv'
<1> USE DEF Unwind, IInv
<1>1. ({ptr[o] : o \in making} \cup array \cup {buffer}) \subseteq Solid \cup {Null}
  BY DEF HandInv, Holds, TypeOK, StageInv
<1>2. parts \subseteq Live /\ \A h \in parts : uses[h] \in Solid
  BY DEF HandInv, PartInv
<1>3. /\ class' \in [Handles -> HandleClasses \cup {"free"}]
      /\ uses' \in [Handles -> Handles \cup {Null}]
      /\ parts' = {h \in parts : uses[h] \notin ({ptr[o] : o \in making} \cup array \cup {buffer})}
      /\ parts' \subseteq Live'
      /\ Live' = Live \ (({ptr[o] : o \in making} \cup array \cup {buffer}) \cup {h \in parts : uses[h] \in ({ptr[o] : o \in making} \cup array \cup {buffer})})
      /\ Solid' = Solid \ ({ptr[o] : o \in making} \cup array \cup {buffer})
      /\ \A x \in Live' : class'[x] = class[x] /\ uses'[x] = uses[x]
  BY <1>1, <1>2, ReleaseHeap
<1>4. Solid \subseteq Live /\ Solid' \subseteq Live' /\ Solid \cap parts = {}
        /\ Null \notin Live
  BY LiveIs DEF Solid
<1>5. TypeOK'
  BY <1>2, <1>3, <1>4, LiveIs DEF TypeOK, Stages
<1>6. HandInv'
  BY <1>3, <1>4 DEF TypeOK, HandInv, StageInv, Holds
<1>7. PartInv'
  BY <1>2, <1>3, <1>4 DEF TypeOK, PartInv, StageInv
<1>8. StageInv'
  BY DEF TypeOK, StageInv
<1>9. BeforeInv'
  BY DEF TypeOK, StageInv, BeforeInv
<1> QED BY <1>5, <1>6, <1>7, <1>8, <1>9
----------------------------------------------------------------------------
(* Allocations.                                                            *)

\* A constructor, and the first call of the constructor of Env.
LEMMA MakeOwnerStep ==
  ASSUME IInv, NEW k \in CallsNow, NEW g \in Pointers, NEW o \in Objects,
         MakeOwner(k, g, o)
  PROVE  IInv'
<1> USE DEF MakeOwner, progress, Idle, IInv
<1>1. /\ k.gives \in BaseClasses \cup {"Memory"}
      /\ g \in Handles \cup {Null}
  BY CallsTyped DEF CallsNow, Pointers, Typed, TypeOK
<1>2. PICK h \in Fresh(1) : /\ Allocate(h, k.gives, IF k.keeps THEN g ELSE Null)
                          /\ ptr' = [ptr EXCEPT ![o] = h]
  OBVIOUS
<1>3. /\ h \in Handles \ Live /\ h # Null /\ h \in Handles
      /\ parts \subseteq Live /\ k.gives \in HandleClasses
  BY <1>1, FreshIsFree, OrtAssumption DEF HandInv, HandleClasses, OrtAssumption
<1>4. /\ class' \in [Handles -> HandleClasses \cup {"free"}]
      /\ uses' \in [Handles -> Handles \cup {Null}]
      /\ parts' = parts
      /\ Live' = Live \cup {h} /\ Solid' = Solid \cup {h} /\ h \notin Solid
      /\ class'[h] = k.gives
      /\ \A x \in Live : class'[x] = class[x] /\ uses'[x] = uses[x]
  BY <1>1, <1>2, <1>3, AllocateHeap
<1>5. Solid \subseteq Live /\ Live \subseteq Handles /\ Null \notin Live
  BY LiveIs DEF Solid
<1>6. TypeOK'
  BY <1>1, <1>2, <1>3, <1>4, <1>5 DEF TypeOK, Stages
<1>7. HandInv'
  BY <1>1, <1>2, <1>3, <1>4, <1>5 DEF TypeOK, HandInv, StageInv, Holds
<1>8. PartInv'
  BY <1>2, <1>3, <1>4, <1>5 DEF TypeOK, HandInv, PartInv, StageInv
<1>9. StageInv'
  BY <1>1, <1>2, <1>3 DEF TypeOK, StageInv
<1>10. BeforeInv'
  <2>1. CASE k.gives # "Env"
    BY <2>1 DEF BeforeInv
  <2>2. CASE k.gives = "Env"
    <3>1. /\ making' = {o} /\ array' = {} /\ buffer' = Null /\ status' = Null
          /\ before' = Live /\ ptr'[o] = h
      BY <1>2, <2>2 DEF StageInv, TypeOK
    <3>2. \A x \in Handles : InCall(x)' <=> x = h
      BY <1>3, <3>1, OrtAssumption DEF InCall, OrtAssumption
    <3> QED BY <1>3, <1>4, <3>1, <3>2 DEF BeforeInv
  <2> QED BY <2>1, <2>2
<1> QED BY <1>6, <1>7, <1>8, <1>9, <1>10

\* Names, and memory of an allocator.
LEMMA TakeBareStep ==
  ASSUME IInv, NEW k \in CallsNow, NEW g \in Pointers, TakeBare(k, g)
  PROVE  IInv'
<1> USE DEF TakeBare, objects, progress, Idle, IInv
<1>1. /\ k.gives \in BaseClasses \cup {"Memory"}
      /\ g \in Handles \cup {Null}
  BY CallsTyped DEF CallsNow, Pointers, Typed, TypeOK
<1>2. PICK h \in Fresh(1) : Allocate(h, k.gives, Null) /\ bare' = bare \cup {h}
  OBVIOUS
<1>3. /\ h \in Handles \ Live /\ h # Null /\ h \in Handles
      /\ parts \subseteq Live /\ k.gives \in HandleClasses
  BY <1>1, FreshIsFree, OrtAssumption DEF HandInv, HandleClasses, OrtAssumption
<1>4. /\ class' \in [Handles -> HandleClasses \cup {"free"}]
      /\ uses' \in [Handles -> Handles \cup {Null}]
      /\ parts' = parts
      /\ Live' = Live \cup {h} /\ Solid' = Solid \cup {h} /\ h \notin Solid
      /\ class'[h] = k.gives
      /\ \A x \in Live : class'[x] = class[x] /\ uses'[x] = uses[x]
  BY <1>1, <1>2, <1>3, AllocateHeap
<1>5. Solid \subseteq Live /\ Live \subseteq Handles /\ Null \notin Live
  BY LiveIs DEF Solid
<1>6. TypeOK'
  BY <1>1, <1>2, <1>3, <1>4, <1>5 DEF TypeOK, Stages
<1>7. HandInv'
  BY <1>1, <1>2, <1>3, <1>4, <1>5 DEF TypeOK, HandInv, StageInv, Holds
<1>8. PartInv'
  BY <1>2, <1>3, <1>4, <1>5 DEF TypeOK, HandInv, PartInv, StageInv
<1>9. StageInv'
  BY <1>1, <1>2, <1>3 DEF TypeOK, StageInv
<1>10. BeforeInv'
  BY DEF TypeOK, StageInv, BeforeInv
<1> QED BY <1>6, <1>7, <1>8, <1>9, <1>10

\* A status comes to life when a call fails.
LEMMA CallFailsStep ==
  ASSUME IInv, NEW k \in CallsNow, NEW g \in Pointers, CallFails(k, g)
  PROVE  IInv'
<1> USE DEF CallFails, FailWith, objects, Idle, IInv
<1>1. "Status" \in HandleClasses
  BY DEF HandleClasses
<1>2. PICK h \in Fresh(1) : FailWith(h)
  OBVIOUS
<1>3. /\ h \in Handles \ Live /\ h # Null /\ h \in Handles
      /\ parts \subseteq Live /\ "Status" \in HandleClasses
  BY <1>1, FreshIsFree, OrtAssumption DEF HandInv, HandleClasses, OrtAssumption
<1>4. /\ class' \in [Handles -> HandleClasses \cup {"free"}]
      /\ uses' \in [Handles -> Handles \cup {Null}]
      /\ parts' = parts
      /\ Live' = Live \cup {h} /\ Solid' = Solid \cup {h} /\ h \notin Solid
      /\ class'[h] = "Status"
      /\ \A x \in Live : class'[x] = class[x] /\ uses'[x] = uses[x]
  BY <1>1, <1>2, <1>3, AllocateHeap
<1>5. Solid \subseteq Live /\ Live \subseteq Handles /\ Null \notin Live
  BY LiveIs DEF Solid
<1>6. TypeOK'
  BY <1>1, <1>2, <1>3, <1>4, <1>5 DEF TypeOK, Stages
<1>7. HandInv'
  BY <1>1, <1>2, <1>3, <1>4, <1>5 DEF TypeOK, HandInv, StageInv, Holds
<1>8. PartInv'
  BY <1>2, <1>3, <1>4, <1>5 DEF TypeOK, HandInv, PartInv, StageInv
<1>9. StageInv'
  BY <1>1, <1>2, <1>3 DEF TypeOK, StageInv
<1>10. BeforeInv'
  <2>1. /\ making' = {} /\ array' = {} /\ buffer' = Null /\ status' = h
        /\ before' = Live
    BY <1>2 DEF StageInv
  <2>2. \A x \in Handles : InCall(x)' <=> x = h
    BY <1>3, <2>1, OrtAssumption DEF InCall, OrtAssumption
  <2> QED BY <1>3, <1>4, <2>1, <2>2 DEF BeforeInv
<1> QED BY <1>6, <1>7, <1>8, <1>9, <1>10

\* Also when the second call of a constructor fails, or a run.
LEMMA SecondCallFailsStep ==
  ASSUME IInv, SecondCallFails
  PROVE  IInv'
<1> USE DEF SecondCallFails, FailWith, objects, IInv
<1>1. "Status" \in HandleClasses
  BY DEF HandleClasses
<1>2. PICK h \in Fresh(1) : FailWith(h)
  OBVIOUS
<1>3. /\ h \in Handles \ Live /\ h # Null /\ h \in Handles
      /\ parts \subseteq Live /\ "Status" \in HandleClasses
  BY <1>1, FreshIsFree, OrtAssumption DEF HandInv, HandleClasses, OrtAssumption
<1>4. /\ class' \in [Handles -> HandleClasses \cup {"free"}]
      /\ uses' \in [Handles -> Handles \cup {Null}]
      /\ parts' = parts
      /\ Live' = Live \cup {h} /\ Solid' = Solid \cup {h} /\ h \notin Solid
      /\ class'[h] = "Status"
      /\ \A x \in Live : class'[x] = class[x] /\ uses'[x] = uses[x]
  BY <1>1, <1>2, <1>3, AllocateHeap
<1>5. Solid \subseteq Live /\ Live \subseteq Handles /\ Null \notin Live
  BY LiveIs DEF Solid
<1>6. TypeOK'
  BY <1>1, <1>2, <1>3, <1>4, <1>5 DEF TypeOK, Stages
<1>7. HandInv'
  BY <1>1, <1>2, <1>3, <1>4, <1>5 DEF TypeOK, HandInv, StageInv, Holds
<1>8. PartInv'
  BY <1>2, <1>3, <1>4, <1>5 DEF TypeOK, HandInv, PartInv, StageInv
<1>9. StageInv'
  BY <1>1, <1>2, <1>3 DEF TypeOK, StageInv
<1>10. BeforeInv'
  <2>1. /\ making' = making /\ array' = {} /\ buffer' = Null /\ status' = h
        /\ before' = before /\ ptr' = ptr
        /\ array = {} /\ buffer = Null /\ status = Null
    BY <1>2 DEF StageInv
  <2>2. \A x \in Handles : InCall(x)' <=> InCall(x) \/ x = h
    BY <1>3, <2>1, OrtAssumption DEF InCall, OrtAssumption
  <2>3. \A x \in Handles : /\ x \in Live <=> x \in before \/ InCall(x)
                           /\ ~(x \in before /\ InCall(x))
    BY DEF BeforeInv
  <2>4. \A x \in Handles : /\ x \in Live' <=> x \in before' \/ InCall(x)'
                           /\ ~(x \in before' /\ InCall(x)')
    BY <1>3, <1>4, <2>1, <2>2, <2>3
  <2> QED BY <2>4 DEF BeforeInv
<1> QED BY <1>6, <1>7, <1>8, <1>9, <1>10

\* A wrapper of a part: the part is there already, or comes to life.
LEMMA BorrowStep ==
  ASSUME IInv, NEW k \in CallsNow, NEW g \in Pointers, NEW o \in Objects,
         Borrow(k, g, o)
  PROVE  IInv'
<1> USE DEF Borrow, IInv, progress, Idle
<1>1. /\ k.gives \in BaseClasses \cup {"Memory"} /\ k.gives \notin Lenders
      /\ k.on \in Lenders
  BY CallsTyped DEF CallsNow, Typed
<1>2. g \in Handles /\ class[g] = k.on /\ g # Null
  BY <1>1 DEF On, Pointers, TypeOK, Lenders
<1>3. g \in Solid
  <2>1. g \in Live
    BY <1>1, <1>2, LiveIs DEF Lenders
  <2>2. g \notin parts
    BY <1>1, <1>2 DEF PartInv
  <2> QED BY <2>1, <2>2 DEF Solid
<1>4. making = {} /\ array = {} /\ buffer = Null /\ status = Null
  BY DEF StageInv
<1>5. Solid \subseteq Live /\ Live \subseteq Handles /\ Null \notin Live
        /\ parts \subseteq Live
  BY LiveIs DEF Solid, HandInv
<1>6. StageInv' /\ BeforeInv'
  BY DEF TypeOK, StageInv, BeforeInv
<1>7. CASE {h \in PartsOf(g) : class[h] = k.gives} # {}
  <2>1. PICK h \in PartsOf(g) : /\ class[h] = k.gives
                                /\ ptr' = [ptr EXCEPT ![o] = h]
                                /\ UNCHANGED heap
    BY <1>7
  <2>2. h \in parts /\ h \in Handles
    BY <1>5, <2>1 DEF PartsOf
  <2>3. Solid' = Solid /\ Live' = Live /\ parts' = parts /\ class' = class
          /\ uses' = uses
    BY <2>1 DEF Solid, Live, Free, heap
  <2>4. TypeOK'
    BY <1>1, <2>1, <2>2, <2>3 DEF TypeOK
  <2>5. HandInv'
    BY <2>1, <2>3 DEF TypeOK, HandInv, StageInv, Holds
  <2>6. PartInv'
    BY <1>4, <2>1, <2>2, <2>3 DEF TypeOK, PartInv, StageInv
  <2> QED BY <1>6, <2>4, <2>5, <2>6
<1>8. CASE ~({h \in PartsOf(g) : class[h] = k.gives} # {})
  <2>1. PICK h \in Fresh(1) : /\ class' = [class EXCEPT ![h] = k.gives]
                              /\ uses' = [uses EXCEPT ![h] = g]
                              /\ parts' = parts \cup {h}
                              /\ ptr' = [ptr EXCEPT ![o] = h]
    BY <1>8
  <2>2. h \in Handles \ Live /\ k.gives \in HandleClasses /\ k.gives # "free"
    BY <1>1, FreshIsFree DEF HandleClasses, BaseClasses
  <2>3. Live' = Live \cup {h}
    BY <2>1, <2>2 DEF Live, Free, TypeOK
  <2>4. Solid' = Solid
    BY <2>1, <2>2, <2>3 DEF Solid
  <2>5. /\ class'[h] = k.gives /\ uses'[h] = g
        /\ \A x \in Live : class'[x] = class[x] /\ uses'[x] = uses[x]
    BY <1>5, <2>1, <2>2 DEF TypeOK
  <2>6. TypeOK'
    BY <1>1, <1>2, <2>1, <2>2 DEF TypeOK
  <2>7. HandInv'
    BY <1>5, <2>1, <2>2, <2>3, <2>4, <2>5 DEF TypeOK, HandInv, StageInv, Holds
  <2>8. PartInv'
    BY <1>1, <1>2, <1>3, <1>4, <1>5, <2>1, <2>2, <2>3, <2>4, <2>5
    DEF TypeOK, PartInv, StageInv
  <2> QED BY <1>6, <2>6, <2>7, <2>8
<1> QED BY <1>7, <1>8

----------------------------------------------------------------------------
(* Calls of several steps.                                                 *)

\* The elements of a run's outputs are made empty.
LEMMA RunStep ==
  ASSUME IInv, NEW g \in Pointers, NEW S \in SUBSET Objects, Run(g, S)
  PROVE  IInv'
<1> USE DEF Run, IInv, heap, Idle
<1>0. Solid' = Solid /\ Live' = Live
  BY DEF Solid, Live, Free
<1>1. \A o \in S : kind[o] = "gone" /\ ptr[o] = Null
  BY DEF TypeOK
<1>2. TypeOK'
  BY LiveIs DEF TypeOK, Stages, BaseClasses
<1>3. HandInv'
  BY <1>0, <1>1 DEF TypeOK, HandInv, StageInv, Holds
<1>4. PartInv'
  BY <1>0, <1>1, LiveIs DEF TypeOK, PartInv, StageInv, Solid
<1>5. StageInv'
  BY <1>1 DEF TypeOK, StageInv
<1>6. BeforeInv'
  BY <1>0, <1>1, OrtAssumption
  DEF TypeOK, StageInv, BeforeInv, InCall, OrtAssumption
<1> QED BY <1>2, <1>3, <1>4, <1>5, <1>6

\* The runtime fills them all.
LEMMA RunReturnsStep ==
  ASSUME IInv, RunReturns
  PROVE  IInv'
<1> USE DEF RunReturns, Complete, IInv
<1>1. PICK f \in [making -> Fresh(Cardinality(making))] :
        /\ \A o, q \in making : f[o] = f[q] => o = q
        /\ class' = [h \in Handles |-> IF \E o \in making : f[o] = h
                                       THEN "Value" ELSE class[h]]
        /\ ptr' = [o \in Objects |-> IF o \in making THEN f[o] ELSE ptr[o]]
  OBVIOUS
<1>2. \A o \in making : f[o] \in Handles \ Live
  BY <1>1, FreshIsFree
<1>3. Live' = Live \cup {f[o] : o \in making}
  BY <1>1, <1>2 DEF Live, Free, TypeOK
<1>4. parts \subseteq Live /\ Live \subseteq Handles /\ Null \notin Live
        /\ Solid \subseteq Live /\ making \subseteq Objects
  BY LiveIs DEF HandInv, Solid, TypeOK
<1>5. Solid' = Solid \cup {f[o] : o \in making}
  BY <1>2, <1>3, <1>4 DEF Solid
<1>6. /\ \A o \in making : class'[f[o]] = "Value"
      /\ \A x \in Live : class'[x] = class[x]
  BY <1>1, <1>2, <1>4
<1>7. /\ \A o \in making : ptr'[o] = f[o] /\ kind'[o] = "owner"
      /\ \A o \in Objects \ making : ptr'[o] = ptr[o] /\ kind'[o] = kind[o]
  BY <1>1, <1>4
<1>8. \A o \in making : type[o] = "Value"
  BY DEF StageInv
<1>9. array = {} /\ buffer = Null /\ status = Null
  BY DEF StageInv
<1>10. TypeOK'
  BY <1>1, <1>2, <1>4 DEF TypeOK, Stages, HandleClasses, BaseClasses
<1>11. StageInv'
  BY <1>7, <1>9 DEF TypeOK, StageInv
<1>12. BeforeInv'
  BY DEF BeforeInv
<1>13. /\ HandInv /\ PartInv /\ StageInv
       /\ UNCHANGED <<uses, parts, type, bare, array, buffer, status>>
       /\ making' = {} /\ \A o \in making : ptr[o] = Null /\ kind[o] = "building"
       /\ \A o, q \in making : f[o] = f[q] => o = q
  BY <1>1, <1>4 DEF StageInv
<1> HIDE DEF RunReturns, Complete, IInv
<1>14. HandInv'
  <2>1. \A o \in Objects : Holds(o)' <=> Holds(o) \/ o \in making
    BY <1>2, <1>7, OrtAssumption DEF Holds, OrtAssumption
  <2>3. \A o \in making : /\ ptr'[o] \in Solid' /\ ptr'[o] \notin Live
                          /\ class'[ptr'[o]] = type'[o]
    BY <1>2, <1>5, <1>6, <1>7, <1>8, <1>13
  <2>4. \A o \in Objects \ making : Holds(o) =>
           /\ ptr'[o] \in Solid /\ ptr'[o] \in Solid' /\ ptr'[o] = ptr[o]
           /\ class'[ptr'[o]] = type'[o]
    BY <1>4, <1>5, <1>6, <1>7, <1>13 DEF HandInv
  <2>5. \A o, q \in Objects : Holds(o)' /\ Holds(q)' /\ ptr'[o] = ptr'[q] => o = q
    BY <1>4, <1>7, <1>13, <2>1, <2>3, <2>4 DEF HandInv, Holds
  <2>6. \A h \in Solid' : h \in bare \/ \E o \in Objects : Holds(o)' /\ ptr'[o] = h
    <3> SUFFICES ASSUME NEW h \in Solid'
                 PROVE  h \in bare \/ \E o \in Objects : Holds(o)' /\ ptr'[o] = h
      OBVIOUS
    <3>1. CASE h \in Solid
      <4>1. h # Null
        BY <1>4, <3>1
      <4>2. h \in bare \/ \E o \in Objects : Holds(o) /\ ptr[o] = h
        BY <1>9, <1>13, <3>1, <4>1 DEF HandInv
      <4>3. \A o \in Objects : Holds(o) => o \notin making
        BY <1>13 DEF Holds
      <4> QED BY <2>1, <2>4, <4>2, <4>3
    <3>2. CASE h \notin Solid
      BY <1>4, <1>5, <1>7, <2>1, <3>2
    <3> QED BY <3>1, <3>2
  <2>7. parts' \subseteq Live' /\ bare' \subseteq Solid'
    BY <1>3, <1>4, <1>5, <1>13 DEF HandInv
  <2>8. \A o \in Objects : Holds(o)' => /\ ptr'[o] \notin bare' /\ ptr'[o] # Null
                                       /\ ptr'[o] \in Solid'
                                       /\ class'[ptr'[o]] = type'[o]
    BY <1>4, <1>13, <2>1, <2>3, <2>4, <2>7 DEF HandInv, Holds
  <2>9. Null \notin bare
    BY <1>4, <1>13 DEF HandInv
  <2> QED BY <1>9, <1>13, <2>5, <2>6, <2>7, <2>8, <2>9 DEF HandInv
<1>15. PartInv'
  <2>1. parts' = parts /\ uses' = uses /\ array' = {} /\ buffer' = Null
          /\ status' = Null /\ making' = {}
    BY <1>9, <1>13
  <2>2. \A h \in parts : /\ class'[h] \notin Lenders
                         /\ uses[h] \in Solid' /\ uses[h] # Null
    BY <1>4, <1>5, <1>6, <1>13 DEF PartInv
  <2>3. ASSUME NEW o \in Objects, kind'[o] = "unowned"
        PROVE  ptr'[o] \in parts /\ class'[ptr'[o]] = type'[o]
    <3>1. o \notin making /\ kind[o] = "unowned" /\ ptr'[o] = ptr[o]
      BY <1>7, <1>13, <2>3
    <3>2. ptr[o] \in parts /\ class[ptr[o]] = type[o]
      BY <1>13, <3>1 DEF PartInv
    <3> QED BY <1>4, <1>6, <1>13, <3>1, <3>2
  <2> QED BY <2>1, <2>2, <2>3 DEF PartInv
<1> QED BY <1>10, <1>14, <1>15, <1>11, <1>12 DEF IInv

\* A C array and the values it lists come to life together.
LEMMA GetBoundOutputValuesStep ==
  ASSUME IInv, NEW g \in Pointers, NEW n \in 1 .. MaxOutputs,
         GetBoundOutputValues(g, n)
  PROVE  IInv'
<1> USE DEF GetBoundOutputValues, IInv, objects, Idle
<1> DEFINE F == Fresh(n + 1)
<1>1. PICK h \in F :
        /\ buffer' = h
        /\ array' = F \ {h}
        /\ class' = [a \in Handles |-> IF a = h THEN "Memory"
                                       ELSE IF a \in F THEN "Value" ELSE class[a]]
  OBVIOUS
<1>2. F \subseteq Handles \ Live
  BY FreshIsFree
<1> HIDE DEF F
<1>3. Live' = Live \cup F
  BY <1>1, <1>2 DEF Live, Free, TypeOK
<1>4. parts \subseteq Live /\ Live \subseteq Handles /\ Null \notin Live
        /\ Null \notin Handles /\ Solid \subseteq Live
  BY LiveIs, OrtAssumption DEF HandInv, Solid, OrtAssumption
<1>5. Solid' = Solid \cup F
  BY <1>2, <1>3, <1>4 DEF Solid
<1>6. \A x \in Live : class'[x] = class[x]
  BY <1>1, <1>2, <1>4
<1>7. /\ making = {} /\ making' = {} /\ array = {} /\ buffer = Null
      /\ status = Null /\ status' = Null
  BY DEF StageInv
<1>8. F = array' \cup {buffer'} /\ buffer' \notin array'
  BY <1>1
<1>9. TypeOK'
  BY <1>1, <1>2, <1>4 DEF TypeOK, Stages, HandleClasses, BaseClasses
<1>10. HandInv'
  BY <1>2, <1>3, <1>4, <1>5, <1>6, <1>7, <1>8 DEF TypeOK, HandInv, Holds
<1>11. PartInv'
  BY <1>2, <1>3, <1>4, <1>5, <1>6, <1>7, <1>8 DEF TypeOK, PartInv
<1>12. StageInv'
  BY <1>1, <1>2, <1>4, <1>7 DEF TypeOK, StageInv
<1>13. BeforeInv'
  <2>1. \A x \in Handles : InCall(x)' <=> x \in F
    BY <1>4, <1>7, <1>8 DEF InCall
  <2> QED BY <1>2, <1>3, <1>4, <2>1 DEF BeforeInv
<1> QED BY <1>9, <1>10, <1>11, <1>12, <1>13

\* An element of the vector takes one of them over.
LEMMA EmplaceBackStep ==
  ASSUME IInv, NEW o \in Objects, NEW h \in array, EmplaceBack(o, h)
  PROVE  IInv'
<1> USE DEF EmplaceBack, IInv, heap
<1>0. Solid' = Solid /\ Live' = Live /\ h \in Handles /\ h # Null
  BY OrtAssumption DEF Solid, Live, Free, TypeOK, OrtAssumption
<1>1. class[h] = "Value"
  BY DEF HandInv
<1>2. TypeOK'
  BY <1>0 DEF TypeOK, BaseClasses
<1>3. HandInv'
  BY <1>0, <1>1 DEF TypeOK, HandInv, StageInv, Holds
<1>4. PartInv'
  BY <1>0 DEF TypeOK, PartInv, StageInv
<1>5. StageInv'
  BY DEF TypeOK, StageInv
<1>6. BeforeInv'
  BY <1>0 DEF TypeOK, StageInv, BeforeInv, InCall
<1> QED BY <1>2, <1>3, <1>4, <1>5, <1>6

----------------------------------------------------------------------------
(* The invariant, and what follows from it.                                *)

\* At first there is nothing to own.
LEMMA InitInv == Init => IInv
<1> SUFFICES ASSUME Init PROVE IInv OBVIOUS
<1> USE DEF Init
<1>1. Live = {} /\ Solid = {}
  BY DEF Live, Free, Solid
<1>2. TypeOK
  BY DEF TypeOK, Stages
<1>3. HandInv /\ PartInv /\ StageInv /\ BeforeInv
  BY <1>1 DEF HandInv, PartInv, StageInv, BeforeInv, Holds
<1> QED BY <1>2, <1>3 DEF IInv

\* No call, failure, move or destructor disturbs it.
LEMMA NextStep == IInv /\ Next => IInv'
<1> SUFFICES ASSUME IInv, Next PROVE IInv' OBVIOUS
<1>1. CASE Succeed
  <2>1. ASSUME NEW k \in CallsNow, NEW g \in Pointers, NEW o \in Vacant,
               MakeOwner(k, g, o) \/ Borrow(k, g, o)
        PROVE  IInv'
    BY <2>1, MakeOwnerStep, BorrowStep DEF Vacant
  <2> QED BY <1>1, <2>1, TakeBareStep, ProgressStep, RunStep, RunReturnsStep
          DEF Succeed
<1>2. CASE Harvest
  BY <1>2, GetBoundOutputValuesStep, EmplaceBackStep, ReturnValuesStep, ProgressStep
  DEF Harvest, Vacant
<1>3. CASE Fail
  BY <1>3, CallFailsStep, ProgressStep, SecondCallFailsStep, ThrowOnErrorStep,
     UnwindStep DEF Fail
<1>4. CASE Catch
  BY <1>4, ProgressStep
<1>5. CASE Hold
  <2>1. ASSUME NEW d \in Vacant, NEW s \in Objects,
               MoveConstruct(d, s) \/ MoveUnowned(d, s)
        PROVE  IInv'
    BY <2>1, MoveConstructStep, UnownedStep DEF Vacant
  <2>2. ASSUME NEW d \in Objects, NEW s \in Objects,
               MoveAssign(d, s) \/ MoveAllocation(d, s)
        PROVE  IInv'
    BY <2>2, MoveAssignStep, MoveAllocationStep
  <2>3. ASSUME NEW o \in Objects, GiveUp(o) \/ DestroyOwner(o) \/ DestroyUnowned(o)
        PROVE  IInv'
    BY <2>3, GiveUpStep, DestroyOwnerStep, UnownedStep
  <2>4. ASSUME NEW o \in Vacant, NEW h \in bare, Adopt(o, h)
        PROVE  IInv'
    BY <2>4, AdoptStep DEF Vacant
  <2> QED BY <1>5, <2>1, <2>2, <2>3, <2>4, FreeBareStep DEF Hold
<1> QED BY <1>1, <1>2, <1>3, <1>4, <1>5 DEF Next

\* Nor does a step of somebody else.
LEMMA StutterStep == IInv /\ UNCHANGED vars => IInv'
<1> SUFFICES ASSUME IInv, UNCHANGED vars PROVE IInv' OBVIOUS
<1> USE DEF vars, heap, objects, progress
<1>1. Live' = Live /\ Solid' = Solid
  BY DEF Live, Free, Solid
<1> QED BY <1>1 DEF IInv, TypeOK, HandInv, PartInv, StageInv, BeforeInv, InCall, Holds

\* What the steps keep holds from the start on.
LEMMA Invariance == Spec => []IInv
<1>1. IInv /\ [Next]_vars => IInv'
  BY NextStep, StutterStep
<1> QED BY <1>1, InitInv, PTL DEF Spec

\* Through every sequence of constructors, moves, borrows, releases, runs and
\* exceptions, each C object is released by exactly one holder, none is lost,
\* and no borrow outlives what it points into (Base<T>, Unowned<T>,
\* MemoryAllocation, GetOutputValuesHelper).
THEOREM OwnershipHolds == Spec => []Ownership
BY Invariance, InvOwns, PTL

\* Unwinding releases what the call made, and no part of anything older.
LEMMA UnwindLeaves == IInv /\ Unwind => Live' = before
<1> SUFFICES ASSUME IInv, Unwind PROVE Live' = before OBVIOUS
<1> USE DEF IInv
<1> DEFINE S == {ptr[o] : o \in making} \cup array \cup {buffer}
<1>1. Release(S) /\ stage = "unwinding" /\ status = Null
  BY DEF Unwind, StageInv
<1>2. S \subseteq Solid \cup {Null}
  <2>1. \A o \in making : o \in Objects /\ kind[o] = "building"
    BY DEF TypeOK, StageInv
  <2> QED BY <2>1 DEF HandInv, Holds
<1>3. parts \subseteq Live /\ \A h \in parts : uses[h] \in Solid
  BY DEF HandInv, PartInv
<1>4. {h \in parts : uses[h] \in S} = {}
  BY DEF PartInv
<1>5. \A h \in Handles : InCall(h) <=> h \in S
  BY <1>1, OrtAssumption DEF InCall, OrtAssumption
<1> HIDE DEF S
<1>6. Live' = Live \ (S \cup {h \in parts : uses[h] \in S})
  BY <1>1, <1>2, <1>3, ReleaseHeap
<1>7. \A h \in Handles : h \in Live' <=> h \in before
  BY <1>1, <1>4, <1>5, <1>6 DEF BeforeInv
<1>8. Live' \subseteq Handles /\ before \subseteq Handles
  BY <1>6, LiveIs DEF TypeOK
<1> QED BY <1>7, <1>8

\* Only unwinding ends in an exception.
LEMMA OnlyUnwindThrows ==
  Next /\ stage' = "thrown" /\ stage # "thrown" => Unwind
<1> SUFFICES ASSUME Next, stage' = "thrown", stage # "thrown" PROVE Unwind OBVIOUS
<1> USE DEF progress, Idle
<1>1. ~Succeed
  BY DEF Succeed, MakeOwner, Borrow, TakeBare, SetLanguageProjection, Complete, Run,
     RunReturns
<1>2. ~Harvest
  BY DEF Harvest, GetBoundOutputValues, EmplaceBack, ReturnValues, Complete,
     HarvestThrows
<1>3. ~Catch /\ ~Hold
  BY DEF Catch, Hold, MoveConstruct, MoveUnowned, MoveAssign, MoveAllocation, GiveUp,
     DestroyOwner, DropOwner, DestroyUnowned, Gone, Adopt, FreeBare
<1>4. Fail => Unwind
  BY DEF Fail, CallFails, FailWith, CastThrows, SecondCallFails, ThrowOnError
<1> QED BY <1>1, <1>2, <1>3, <1>4 DEF Next

\* Whatever the step that failed, the exception that reaches the client leaves
\* alive what lived before the call (ThrowOnError, ~Base, the guard of
\* GetOutputValuesHelper).
THEOREM ThrowsCleanly == Spec => ThrowLeavesNothing
<1>1. IInv /\ [Next]_vars => [stage' = "thrown" /\ stage # "thrown" => Live' = before]_vars
  BY UnwindLeaves, OnlyUnwindThrows
<1> QED BY <1>1, Invariance, PTL DEF Spec, ThrowLeavesNothing
=============================================================================
