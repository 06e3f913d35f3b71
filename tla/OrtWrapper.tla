------------------------------ MODULE OrtWrapper ------------------------------
(***************************************************************************)
(* The C++ wrapper of ONNX Runtime that the controller links: who owns     *)
(* which C object, through constructors, moves, borrows, bare pointers,    *)
(* failing calls and the exceptions they turn into.                        *)
(*                                                                         *)
(* The client is any program that keeps the wrapper's contract: it does    *)
(* not move a wrapper onto itself, does not move an Unowned<T> into a T,   *)
(* and releases nothing that something alive still uses.  The runtime      *)
(* behind the C API is external: a call succeeds or returns a status.      *)
(***************************************************************************)
EXTENDS Naturals, FiniteSets

CONSTANTS
  Objects,     \* the C++ objects of the client
  Handles,     \* the addresses of C objects, reused once they are free
  Null,        \* nullptr
  Exercised,   \* sets of classes of C objects the client uses at a time
  MaxOutputs,  \* how many outputs a run has, at most
  MaxBare      \* how many bare pointers the client holds at a time, at most

ASSUME OrtAssumption == /\ Handles \subseteq Nat
                        /\ Null \notin Handles
                        /\ MaxOutputs \in Nat
                        /\ MaxBare \in Nat

\* Each of these wraps a C object with Base<T>; MemoryAllocation wraps "Memory".
BaseClasses ==
  {"Env", "CustomOpDomain", "RunOptions", "SessionOptions", "Session",
   "ModelMetadata", "TypeInfo", "TensorTypeAndShapeInfo", "SequenceTypeInfo",
   "MapTypeInfo", "Value", "MemoryInfo", "Allocator", "IoBinding", "ArenaCfg"}

HandleClasses == BaseClasses \cup {"Memory", "Status"}

-----------------------------------------------------------------------------
(***************************************************************************)
(* The calls of the wrapper.  "on" is the class of the C object a call     *)
(* works on, "gives" what it returns and "how": an owning wrapper, an      *)
(* Unowned wrapper of a part of "on", a bare pointer the caller has to     *)
(* free, or nothing that needs freeing.  "keeps": the new C object goes on *)
(* using "on".                                                             *)
(***************************************************************************)
Call(on, how, gives, keeps) ==
  [on |-> on, how |-> how, gives |-> gives, keeps |-> keeps]
Use(c)     == {Call(c, "plain", "None", FALSE)}
Make(c, d) == {Call(c, "owner", d, FALSE)}
Keep(c, d) == {Call(c, "owner", d, TRUE)}
Lend(c, d) == {Call(c, "part", d, TRUE)}
Bare(c, d) == {Call(c, "bare", d, FALSE)}

\* AllocatorWithDefaultOptions wraps a singleton that nobody releases.
DefaultAllocatorCalls == Make("None", "Memory") \cup Bare("None", "Memory")

MemoryInfoCalls == Make("None", "MemoryInfo") \cup Use("MemoryInfo")

AllocatorCalls == Keep("Session", "Allocator") \cup Keep("Allocator", "Memory")
                    \cup Lend("Allocator", "MemoryInfo")

IoBindingCalls == Keep("Session", "IoBinding") \cup Use("IoBinding")

ArenaCfgCalls == Make("None", "ArenaCfg")

EnvCalls == Make("None", "Env") \cup Use("Env")

CustomOpDomainCalls == Make("None", "CustomOpDomain") \cup Use("CustomOpDomain")

RunOptionsCalls == Make("None", "RunOptions") \cup Use("RunOptions")

\* Clone makes a second SessionOptions; every setter returns *this.
SessionOptionsCalls ==
  Make("None", "SessionOptions") \cup Make("SessionOptions", "SessionOptions")
    \cup Use("SessionOptions")

\* The names are char* from the caller's allocator.
SessionCalls ==
  Keep("Env", "Session") \cup Make("Session", "ModelMetadata")
    \cup Bare("Session", "Memory") \cup Use("Session")

ModelMetadataCalls == Bare("ModelMetadata", "Memory") \cup Use("ModelMetadata")

TypeInfoCalls ==
  UNION {Make("Session", "TypeInfo"), Use("TypeInfo"),
         Lend("TypeInfo", "TensorTypeAndShapeInfo"), Use("TensorTypeAndShapeInfo"),
         Lend("TypeInfo", "SequenceTypeInfo"), Make("SequenceTypeInfo", "TypeInfo"),
         Lend("TypeInfo", "MapTypeInfo"), Make("MapTypeInfo", "TypeInfo"),
         Use("MapTypeInfo")}

\* CreateTensor over p_data uses the caller's memory; over an allocator, its own.
ValueCreations ==
  Keep("Memory", "Value") \cup Make("None", "Value") \cup Make("Value", "Value")
    \cup Make("Value", "TensorTypeAndShapeInfo") \cup Use("Value")

ValueQueries ==
  Use("Value") \cup Make("Value", "Value") \cup Make("Value", "TypeInfo")
    \cup Make("Value", "TensorTypeAndShapeInfo")

CustomOpCalls == Bare("Value", "TensorTypeAndShapeInfo") \cup Use("Value")

Calls ==
  {k \in UNION {DefaultAllocatorCalls, MemoryInfoCalls, AllocatorCalls,
                IoBindingCalls, ArenaCfgCalls, EnvCalls, CustomOpDomainCalls,
                RunOptionsCalls, SessionOptionsCalls, SessionCalls,
                ModelMetadataCalls, TypeInfoCalls, ValueCreations, ValueQueries,
                CustomOpCalls} :
     \E used \in Exercised : {k.on, k.gives} \subseteq used \cup {"None"}}

-----------------------------------------------------------------------------
VARIABLES
  class,    \* class[h]: what lives at address h, or "free"
  uses,     \* uses[h]: the C object that h is a part of or works on
  parts,    \* the addresses that are parts of another C object
  kind,     \* kind[o]: "gone", "building", "owner" or "unowned"
  type,     \* type[o]: the class the wrapper is for, T of Base<T>
  ptr,      \* ptr[o]: p_ of the wrapper
  bare,     \* the addresses the client holds by a bare pointer and must free
  stage,    \* where the wrapper's call in progress is
  making,   \* the objects that call has made so far
  array,    \* GetOutputValuesHelper: the values no element owns yet
  buffer,   \* GetOutputValuesHelper: the C array that listed them
  status,   \* the OrtStatus in the wrapper's hands
  before    \* the C objects that lived when the call began

heap == <<class, uses, parts>>
objects == <<kind, type, ptr>>
progress == <<stage, making, array, buffer, status, before>>
vars == <<heap, objects, bare, progress>>

Stages == {"idle", "projecting", "running", "harvesting", "failed", "unwinding",
           "thrown"}

Free == {h \in Handles : class[h] = "free"}
Live == Handles \ Free
Holders == {o \in Objects : kind[o] \in {"building", "owner"} /\ ptr[o] # Null}
Held == {ptr[o] : o \in Holders}

TypeOK ==
  /\ class \in [Handles -> HandleClasses \cup {"free"}]
  /\ uses \in [Handles -> Handles \cup {Null}]
  /\ parts \subseteq Handles
  /\ kind \in [Objects -> {"gone", "building", "owner", "unowned"}]
  /\ type \in [Objects -> BaseClasses \cup {"Memory", "none"}]
  /\ ptr \in [Objects -> Handles \cup {Null}]
  /\ bare \subseteq Handles
  /\ stage \in Stages
  /\ making \subseteq Objects
  /\ array \subseteq Handles
  /\ buffer \in Handles \cup {Null}
  /\ status \in Handles \cup {Null}
  /\ before \subseteq Handles
  /\ \A o \in Objects : kind[o] = "gone" => type[o] = "none" /\ ptr[o] = Null

Init ==
  /\ class = [h \in Handles |-> "free"]
  /\ uses = [h \in Handles |-> Null]
  /\ parts = {}
  /\ kind = [o \in Objects |-> "gone"]
  /\ type = [o \in Objects |-> "none"]
  /\ ptr = [o \in Objects |-> Null]
  /\ bare = {}
  /\ stage = "idle"
  /\ making = {}
  /\ array = {}
  /\ buffer = Null
  /\ status = Null
  /\ before = {}

-----------------------------------------------------------------------------
(* The C objects.                                                          *)

\* Where the runtime's allocator puts the next n C objects.
Fresh(n) == {h \in Free : Cardinality({g \in Free : g <= h}) <= n}

Allocate(h, c, g) ==
  /\ class' = [class EXCEPT ![h] = c]
  /\ uses' = [uses EXCEPT ![h] = g]
  /\ UNCHANGED parts

\* OrtRelease and AllocatorFree: the parts of a C object go with it.
Release(S) ==
  LET gone == S \cup {h \in parts : uses[h] \in S}
  IN  /\ class' = [h \in Handles |-> IF h \in gone THEN "free" ELSE class[h]]
      /\ uses' = [h \in Handles |-> IF h \in gone THEN Null ELSE uses[h]]
      /\ parts' = parts \ gone

PartsOf(g) == {h \in parts : uses[h] = g}

\* The client's part of the contract: nothing alive works on g.
Unused(g) == g # Null =>
  /\ \A h \in Live \ parts : uses[h] # g
  /\ \A o \in Objects : kind[o] = "unowned" => ptr[o] \notin PartsOf(g)

Idle == stage = "idle"

\* g is the C object that a call k is made on.
On(k, g) ==
  IF k.on = "None" THEN g = Null
  ELSE /\ g # Null
       /\ class[g] = k.on
       /\ \E o \in Objects : kind[o] \in {"owner", "unowned"} /\ ptr[o] = g

-----------------------------------------------------------------------------
(* Calls that succeed.                                                     *)

\* A constructor or a getter.  Env's constructor has a second call to make.
MakeOwner(k, g, o) ==
  /\ Idle /\ On(k, g) /\ k.how = "owner" /\ kind[o] = "gone"
  /\ \E h \in Fresh(1) :
       /\ Allocate(h, k.gives, IF k.keeps THEN g ELSE Null)
       /\ ptr' = [ptr EXCEPT ![o] = h]
  /\ type' = [type EXCEPT ![o] = k.gives]
  /\ IF k.gives = "Env"
     THEN /\ kind' = [kind EXCEPT ![o] = "building"]
          /\ stage' = "projecting"
          /\ making' = {o}
          /\ before' = Live
          /\ UNCHANGED <<array, buffer, status>>
     ELSE /\ kind' = [kind EXCEPT ![o] = "owner"]
          /\ UNCHANGED progress
  /\ UNCHANGED bare

\* The object under construction is complete.
Complete ==
  /\ kind' = [o \in Objects |-> IF o \in making THEN "owner" ELSE kind[o]]
  /\ making' = {}
  /\ before' = {}
  /\ stage' = "idle"

SetLanguageProjection ==
  /\ stage = "projecting"
  /\ Complete
  /\ UNCHANGED <<heap, type, ptr, bare, array, buffer, status>>

\* CastTypeInfoTo... and GetInfo return a pointer into g, the same each time.
Borrow(k, g, o) ==
  /\ Idle /\ On(k, g) /\ k.how = "part" /\ kind[o] = "gone"
  /\ LET found == {h \in PartsOf(g) : class[h] = k.gives}
     IN  IF found # {}
         THEN /\ \E h \in found : ptr' = [ptr EXCEPT ![o] = h]
              /\ UNCHANGED heap
         ELSE \E h \in Fresh(1) :
                /\ class' = [class EXCEPT ![h] = k.gives]
                /\ uses' = [uses EXCEPT ![h] = g]
                /\ parts' = parts \cup {h}
                /\ ptr' = [ptr EXCEPT ![o] = h]
  /\ kind' = [kind EXCEPT ![o] = "unowned"]
  /\ type' = [type EXCEPT ![o] = k.gives]
  /\ UNCHANGED <<bare, progress>>

\* Alloc, GetInputName, GetTensorTypeAndShape of the custom operators.
TakeBare(k, g) ==
  /\ Idle /\ On(k, g) /\ k.how = "bare" /\ Cardinality(bare) < MaxBare
  /\ \E h \in Fresh(1) : /\ Allocate(h, k.gives, Null)
                         /\ bare' = bare \cup {h}
  /\ UNCHANGED <<objects, progress>>

\* Free, ReleaseTensorTypeAndShapeInfo, and Release... of what release() gave up.
FreeBare(h) ==
  /\ Idle /\ h \in bare /\ Unused(h)
  /\ Release({h})
  /\ bare' = bare \ {h}
  /\ UNCHANGED <<objects, progress>>

\* Run makes the vector's elements empty, then the runtime fills them.
Run(g, outputs) ==
  /\ Idle /\ On(Call("Session", "plain", "None", FALSE), g)
  /\ outputs # {} /\ Cardinality(outputs) <= MaxOutputs
  /\ \A o \in outputs : kind[o] = "gone"
  /\ kind' = [o \in Objects |-> IF o \in outputs THEN "building" ELSE kind[o]]
  /\ type' = [o \in Objects |-> IF o \in outputs THEN "Value" ELSE type[o]]
  /\ making' = outputs
  /\ stage' = "running"
  /\ before' = Live
  /\ UNCHANGED <<heap, ptr, bare, array, buffer, status>>

RunReturns ==
  /\ stage = "running"
  /\ Cardinality(Fresh(Cardinality(making))) = Cardinality(making)
  /\ \E f \in [making -> Fresh(Cardinality(making))] :
       /\ \A o, q \in making : f[o] = f[q] => o = q
       /\ class' = [h \in Handles |-> IF \E o \in making : f[o] = h
                                      THEN "Value" ELSE class[h]]
       /\ ptr' = [o \in Objects |-> IF o \in making THEN f[o] ELSE ptr[o]]
  /\ Complete
  /\ UNCHANGED <<uses, parts, type, bare, array, buffer, status>>

-----------------------------------------------------------------------------
(* GetOutputValuesHelper: the elements of a vector take over the values of *)
(* a C array one by one; a guard frees the array and what is left in it.   *)

GetBoundOutputValues(g, n) ==
  /\ Idle /\ On(Call("IoBinding", "plain", "None", FALSE), g)
  /\ Cardinality(Fresh(n + 1)) = n + 1
  /\ \E h \in Fresh(n + 1) :
       /\ buffer' = h
       /\ array' = Fresh(n + 1) \ {h}
       /\ class' = [a \in Handles |-> IF a = h THEN "Memory"
                                      ELSE IF a \in Fresh(n + 1) THEN "Value"
                                      ELSE class[a]]
       /\ \A a \in Fresh(n + 1) : h <= a
  /\ stage' = "harvesting"
  /\ making' = {}
  /\ before' = Live
  /\ UNCHANGED <<uses, parts, objects, bare, status>>

EmplaceBack(o, h) ==
  /\ stage = "harvesting" /\ h \in array /\ kind[o] = "gone"
  /\ kind' = [kind EXCEPT ![o] = "building"]
  /\ type' = [type EXCEPT ![o] = "Value"]
  /\ ptr' = [ptr EXCEPT ![o] = h]
  /\ array' = array \ {h}
  /\ making' = making \cup {o}
  /\ UNCHANGED <<heap, bare, stage, buffer, status, before>>

ReturnValues ==
  /\ stage = "harvesting" /\ array = {}
  /\ Release({buffer})
  /\ buffer' = Null
  /\ Complete
  /\ UNCHANGED <<type, ptr, bare, array, status>>

\* reserve() runs out of memory, or an entry is null and Base<T>(T*) throws.
HarvestThrows ==
  /\ stage = "harvesting"
  /\ stage' = "unwinding"
  /\ UNCHANGED <<heap, objects, bare, making, array, buffer, status, before>>

-----------------------------------------------------------------------------
(* Calls that fail.                                                        *)

FailWith(h) ==
  /\ Allocate(h, "Status", Null)
  /\ status' = h
  /\ stage' = "failed"
  /\ UNCHANGED <<objects, bare, array, buffer>>

\* A constructor that fails here has a Base<T> with a null p_ to destroy.
CallFails(k, g) ==
  /\ Idle /\ On(k, g)
  /\ \E h \in Fresh(1) : FailWith(h)
  /\ before' = Live
  /\ UNCHANGED making

SecondCallFails ==
  /\ stage \in {"projecting", "running"}
  /\ \E h \in Fresh(1) : FailWith(h)
  /\ UNCHANGED <<making, before>>

\* The cast found no such part: Unowned<T> of a null pointer does not build.
CastThrows(k, g) ==
  /\ Idle /\ On(k, g) /\ k.how = "part" /\ k.on = "TypeInfo"
  /\ stage' = "unwinding"
  /\ before' = Live
  /\ UNCHANGED <<heap, objects, bare, making, array, buffer, status>>

ThrowOnError ==
  /\ stage = "failed"
  /\ Release({status})
  /\ status' = Null
  /\ stage' = "unwinding"
  /\ UNCHANGED <<objects, bare, making, array, buffer, before>>

\* A mutant: no guard over the C array.
UnwindWithoutGuard ==
  /\ stage = "unwinding"
  /\ Release({ptr[o] : o \in making})
  /\ kind' = [o \in Objects |-> IF o \in making THEN "gone" ELSE kind[o]]
  /\ type' = [o \in Objects |-> IF o \in making THEN "none" ELSE type[o]]
  /\ ptr' = [o \in Objects |-> IF o \in making THEN Null ELSE ptr[o]]
  /\ making' = {}
  /\ array' = {}
  /\ buffer' = Null
  /\ stage' = "thrown"
  /\ UNCHANGED <<bare, status, before>>

\* The guard first, then the vector's elements or the base of the object.
Unwind ==
  /\ stage = "unwinding"
  /\ Release({ptr[o] : o \in making} \cup array \cup {buffer})
  /\ kind' = [o \in Objects |-> IF o \in making THEN "gone" ELSE kind[o]]
  /\ type' = [o \in Objects |-> IF o \in making THEN "none" ELSE type[o]]
  /\ ptr' = [o \in Objects |-> IF o \in making THEN Null ELSE ptr[o]]
  /\ making' = {}
  /\ array' = {}
  /\ buffer' = Null
  /\ stage' = "thrown"
  /\ UNCHANGED <<bare, status, before>>

Catch ==
  /\ stage = "thrown"
  /\ stage' = "idle"
  /\ before' = {}
  /\ UNCHANGED <<heap, objects, bare, making, array, buffer, status>>

-----------------------------------------------------------------------------
(* Moves and destructors.                                                  *)

\* Base(Base&& v).
MoveConstruct(d, s) ==
  /\ Idle /\ kind[s] = "owner" /\ kind[d] = "gone"
  /\ kind' = [kind EXCEPT ![d] = "owner"]
  /\ type' = [type EXCEPT ![d] = type[s]]
  /\ ptr' = [ptr EXCEPT ![d] = ptr[s], ![s] = Null]
  /\ UNCHANGED <<heap, bare, progress>>

\* operator=(Base&& v): release p_, then take v's.
MoveAssign(d, s) ==
  /\ Idle /\ d # s /\ kind[d] = "owner" /\ kind[s] = "owner"
  /\ type[d] = type[s] /\ type[d] # "Memory" /\ Unused(ptr[d])
  /\ Release({ptr[d]})
  /\ ptr' = [ptr EXCEPT ![d] = ptr[s], ![s] = Null]
  /\ UNCHANGED <<kind, type, bare, progress>>

\* MemoryAllocation swaps, and a temporary frees the old memory: moving an
\* allocation onto itself empties it.
MoveAllocation(d, s) ==
  /\ Idle /\ kind[d] = "owner" /\ kind[s] = "owner"
  /\ type[d] = "Memory" /\ type[s] = "Memory" /\ Unused(ptr[d])
  /\ Release({ptr[d]})
  /\ ptr' = IF d = s THEN [ptr EXCEPT ![d] = Null]
                     ELSE [ptr EXCEPT ![d] = ptr[s], ![s] = Null]
  /\ UNCHANGED <<kind, type, bare, progress>>

\* Unowned(Unowned&& v): both keep the pointer, neither frees it.
MoveUnowned(d, s) ==
  /\ Idle /\ kind[s] = "unowned" /\ kind[d] = "gone"
  /\ kind' = [kind EXCEPT ![d] = "unowned"]
  /\ type' = [type EXCEPT ![d] = type[s]]
  /\ ptr' = [ptr EXCEPT ![d] = ptr[s]]
  /\ UNCHANGED <<heap, bare, progress>>

\* release().
GiveUp(o) ==
  /\ Idle /\ kind[o] = "owner" /\ ptr[o] # Null /\ type[o] # "Memory"
  /\ Cardinality(bare) < MaxBare
  /\ bare' = bare \cup {ptr[o]}
  /\ ptr' = [ptr EXCEPT ![o] = Null]
  /\ UNCHANGED <<heap, kind, type, progress>>

\* T{p} of a C object the client has in hand.
Adopt(o, h) ==
  /\ Idle /\ kind[o] = "gone" /\ h \in bare /\ class[h] \in BaseClasses
  /\ kind' = [kind EXCEPT ![o] = "owner"]
  /\ type' = [type EXCEPT ![o] = class[h]]
  /\ ptr' = [ptr EXCEPT ![o] = h]
  /\ bare' = bare \ {h}
  /\ UNCHANGED <<heap, progress>>

Gone(o) ==
  /\ kind' = [kind EXCEPT ![o] = "gone"]
  /\ type' = [type EXCEPT ![o] = "none"]
  /\ ptr' = [ptr EXCEPT ![o] = Null]
  /\ UNCHANGED <<bare, progress>>

\* ~Base and ~MemoryAllocation.
DropOwner(o) ==
  /\ Idle /\ kind[o] = "owner"
  /\ Release({ptr[o]})
  /\ Gone(o)

DestroyOwner(o) == Unused(ptr[o]) /\ DropOwner(o)

\* A mutant: without the call of release(), ~Base frees the part.
DestroyUnownedFrees(o) ==
  /\ Idle /\ kind[o] = "unowned"
  /\ Release({ptr[o]})
  /\ Gone(o)

\* ~Unowned calls release(), so that ~Base has nothing to free.
DestroyUnowned(o) ==
  /\ Idle /\ kind[o] = "unowned"
  /\ UNCHANGED heap
  /\ Gone(o)

-----------------------------------------------------------------------------
Pointers == {ptr[o] : o \in Objects} \cup {Null}

\* The client does not use more classes at a time than it is said to.
CallsNow ==
  LET living == {class[h] : h \in Live}
  IN  {k \in Calls : \E used \in Exercised :
         {k.on, k.gives} \cup living \subseteq used \cup {"None"}}

Vacant == {o \in Objects : kind[o] = "gone"}

Fail == \/ \E k \in CallsNow, g \in Pointers : CallFails(k, g) \/ CastThrows(k, g)
        \/ SecondCallFails
        \/ ThrowOnError
        \/ Unwind

Harvest == \/ \E g \in Pointers, n \in 1 .. MaxOutputs : GetBoundOutputValues(g, n)
           \/ \E o \in Vacant, h \in array : EmplaceBack(o, h)
           \/ ReturnValues
           \/ HarvestThrows

Succeed == \/ \E k \in CallsNow, g \in Pointers, o \in Vacant :
                MakeOwner(k, g, o) \/ Borrow(k, g, o)
           \/ \E k \in CallsNow, g \in Pointers : TakeBare(k, g)
           \/ SetLanguageProjection
           \/ \E g \in Pointers, S \in SUBSET Objects : Run(g, S)
           \/ RunReturns

Hold == \/ \E d \in Vacant, s \in Objects : MoveConstruct(d, s) \/ MoveUnowned(d, s)
        \/ \E d, s \in Objects : MoveAssign(d, s) \/ MoveAllocation(d, s)
        \/ \E o \in Objects : GiveUp(o) \/ DestroyOwner(o) \/ DestroyUnowned(o)
        \/ \E o \in Vacant, h \in bare : Adopt(o, h)
        \/ \E h \in bare : FreeBare(h)

Next == Succeed \/ Harvest \/ Fail \/ Catch \/ Hold

Spec == Init /\ [][Next]_vars

-----------------------------------------------------------------------------
Statuses == {status} \ {Null}
Buffers == {buffer} \ {Null}

\* No C object is released twice: whatever an owning wrapper, the client's bare
\* pointers or a call in progress will release is alive, is what they take it
\* for, and nobody else releases it (~Base, operator=, ~MemoryAllocation).
OneHolder ==
  /\ \A o \in Holders : class[ptr[o]] = type[o] /\ ptr[o] \notin parts
  /\ \A o, q \in Holders : ptr[o] = ptr[q] => o = q
  /\ \A h \in bare \cup array \cup Buffers \cup Statuses : h \in Live \ (parts \cup Held)
  /\ \A h \in bare : h \notin array \cup Buffers \cup Statuses
  /\ array \cap (Buffers \cup Statuses) = {}
  /\ Buffers \cap Statuses = {}

\* Nothing is lost, on no path of moves and failures: every C object is in the
\* hands of a wrapper, of the client or of the call in progress, or part of one.
NothingIsLost == Live = Held \cup bare \cup array \cup Buffers \cup Statuses \cup parts

\* An Unowned wrapper points to a part of a living C object for as long as the
\* client keeps that one: destroying another Unowned never takes it away.
BorrowsAreParts ==
  /\ \A o \in Objects : kind[o] = "unowned" => ptr[o] \in parts /\ class[ptr[o]] = type[o]
  /\ \A h \in parts : uses[h] \in Live \ parts

\* Who releases what is never in doubt.
Ownership == TypeOK /\ OneHolder /\ NothingIsLost /\ BorrowsAreParts

\* A call that throws, at whichever of its steps, leaves alive exactly the C
\* objects that lived before it ("automatically releasing resources in the
\* destructors", onnxruntime_cxx_api.h:9-10).
ThrowLeavesNothing == [][stage' = "thrown" /\ stage # "thrown" => Live' = before]_vars
=============================================================================
