-------------------------- MODULE ModelSessionProofs --------------------------
(***************************************************************************)
(* The controller keeps the wrapper's contract on lifetimes, through every *)
(* call of loadModel() and of the inferences that fails, and only the model *)
(* outlives a routine: for any set of addresses and any number of loads.   *)
(***************************************************************************)
EXTENDS ModelSession, OrtWrapperProofs, FiniteSetTheorems, SequenceTheorems

-----------------------------------------------------------------------------
(* What the objects of the code are.                                       *)

\* The class each of them wraps.
Wraps(o) == CASE o = "env" -> "Env"
              [] o \in {"policy", "encoder"} -> "Session"
              [] o \in {"history", "policyInput"} -> "Memory"
              [] o = "options" -> "SessionOptions"
              [] o = "typeInfo" -> "TypeInfo"
              [] o = "shapeInfo" -> "TensorTypeAndShapeInfo"
              [] o = "memoryInfo" -> "MemoryInfo"
              [] OTHER -> "Value"

\* The C object of q is a part of the one of o, or works on it.
WorksOn(q, o) == \/ q \in {"policy", "encoder"} /\ o = "env"
                 \/ q = "inputTensor" /\ o \in {"history", "policyInput"}
                 \/ q = "shapeInfo" /\ o = "typeInfo"

-----------------------------------------------------------------------------
(* What there is at each step of a routine, when nothing has failed.       *)

\* loadModel: the members stay, the options to the end, and the information on
\* a type for one loop over inputs each.
LoadPresent(i) ==
  {o \in Objects :
     \/ o = "env" /\ i > 1
     \/ o = "options" /\ i \in 3 .. 32
     \/ o = "policy" /\ i > 5
     \/ o = "encoder" /\ i > 6
     \/ o = "typeInfo" /\ (i \in 11 .. 15 \/ i \in 23 .. 27)
     \/ o = "shapeInfo" /\ (i \in 12 .. 14 \/ i \in 24 .. 26)}

\* An inference, besides the members.
InferPresent(i) ==
  {o \in Objects :
     \/ o \in Members
     \/ o = "memoryInfo" /\ i \in 2 .. 8
     \/ o = "inputTensor" /\ i \in 3 .. 7
     \/ o = "output" /\ i \in 4 .. 6}

\* computeActions has one step more in front, which makes policyInput.
Present(r, i) ==
  IF r = "loadModel" THEN LoadPresent(i)
  ELSE IF r = "computeEncoder" THEN InferPresent(i)
  ELSE InferPresent(i - 1) \cup {o \in Objects : o = "policyInput" /\ i \in 2 .. 10}

\* How many names the model has by then.
Names(r, i) ==
  IF r # "loadModel" \/ i > 30 THEN 4
  ELSE IF i > 21 THEN 3 ELSE IF i > 18 THEN 2 ELSE IF i > 9 THEN 1 ELSE 0

\* Where an object is under construction for more than one step of the wrapper.
Constructs(r, i) == IF r = "loadModel" /\ i = 1 THEN {"env"}
                    ELSE IF \/ r = "computeEncoder" /\ i = 3
                            \/ r = "computeActions" /\ i = 4 THEN {"output"}
                    ELSE {}

-----------------------------------------------------------------------------
(* The inductive invariant.                                                *)

\* The wrappers are what the code declares, and what a call in progress makes is
\* the object of the step.
WrapInv ==
  /\ \A o \in Objects : kind[o] # "gone" => type[o] = Wraps(o)
  /\ \A o \in Objects : kind[o] = "unowned" => o = "shapeInfo"
  /\ \A o \in Objects : kind[o] = "owner" => o # "shapeInfo" /\ ptr[o] # Null
  /\ \A o \in Objects : o \in making <=> kind[o] = "building"
  /\ stage = "projecting" => making = {"env"} /\ ptr["env"] # Null
  /\ stage = "running" => making = {"output"} /\ ptr["output"] = Null
  /\ stage \in {"idle", "thrown"} => making = {}
  /\ stage # "harvesting" /\ array = {} /\ buffer = Null
  /\ stage = "failed" <=> status # Null

\* What somebody will not release any more, or will release by a bare pointer.
Kept == bare \cup leaked

\* Every C object is in one hand, was left behind, or is part of another.
StockInv ==
  /\ parts \subseteq Live
  /\ \A o \in Objects : Holds(o) => ptr[o] \in Solid /\ class[ptr[o]] = Wraps(o)
  /\ \A o, q \in Objects : Holds(o) /\ Holds(q) /\ ptr[o] = ptr[q] => o = q
  /\ \A h \in Kept : h \in Solid
  /\ status # Null => status \in Solid /\ class[status] = "Status"
  /\ \A o \in Objects : Holds(o) => ptr[o] \notin Kept /\ ptr[o] # status
  /\ status \notin Kept
  /\ \A h \in Solid : \/ h \in Kept \/ h = status
                      \/ \E o \in Objects : Holds(o) /\ ptr[o] = h

\* What a C object works on is there, and in the hands that the code says.
UseInv ==
  /\ \A h \in parts : /\ class[h] = "TensorTypeAndShapeInfo"
                      /\ Holds("typeInfo") /\ uses[h] = ptr["typeInfo"]
  /\ kind["shapeInfo"] = "unowned" => ptr["shapeInfo"] \in parts
  /\ \A o \in Objects : Holds(o) /\ uses[ptr[o]] # Null =>
       \E m \in Objects : WorksOn(o, m) /\ Holds(m) /\ uses[ptr[o]] = ptr[m]
  /\ \A h \in bare : class[h] = "Memory" /\ uses[h] = Null
  /\ status # Null => uses[status] = Null

\* Where nothing lives, nothing works on anything.
FreeInv == \A h \in Handles : class[h] = "free" => uses[h] = Null

\* A controller that failed to load leaves an environment, its sessions and names.
LeftInv ==
  /\ \A h \in leaked : class[h] \in {"Env", "Session", "Memory"}
  /\ \A h \in leaked : uses[h] # Null =>
       class[h] = "Session" /\ uses[h] \in leaked /\ class[uses[h]] = "Env"

\* For every load that failed, three objects of the members and four names.
CountInv ==
  /\ IsFiniteSet(leaked)
  /\ Cardinality(leaked) <= FailedLoads * 7
  /\ phase # "unloaded" => loads # 0

\* What is there when a routine is at a step, and between routines.
ScriptInv ==
  /\ IsFiniteSet(bare)
  /\ routine = "loadModel" => at \in 1 .. 33
  /\ routine = "computeEncoder" => at \in 1 .. 9
  /\ routine = "computeActions" => at \in 1 .. 11
  /\ routine = "none" => stage = "idle"
  /\ phase = "unloaded" => bare = {} /\ \A o \in Objects : kind[o] = "gone"
  /\ phase = "ready" => /\ Cardinality(bare) = 4
                        /\ \A o \in Objects : kind[o] # "gone" <=> o \in Members
  /\ routine # "none" =>
       /\ Cardinality(bare) = Names(routine, at)
       /\ \A o \in making : o \in Constructs(routine, at) \ Present(routine, at)
       /\ stage # "thrown" =>
            \A o \in Objects : kind[o] # "gone" <=> o \in Present(routine, at) \cup making
       /\ \A o \in Objects : kind[o] # "gone" => o \in Present(routine, at) \cup making
       /\ \A m \in Members : m \in Present(routine, at) => kind[m] # "gone"

ObjectInv == TypeOK /\ WrapInv /\ StockInv /\ UseInv /\ FreeInv /\ LeftInv

ClientInv == ClientTypeOK /\ ObjectInv /\ CountInv /\ ScriptInv

-----------------------------------------------------------------------------
(* The scripts.                                                            *)

\* The pairs of classes of which the second works on the first, or is a part.
Keeping == {<<"Env", "Session">>, <<"Memory", "Value">>,
            <<"TypeInfo", "TensorTypeAndShapeInfo">>}

\* A step makes and destroys what the next one finds, in an order that leaves
\* nothing without what it works on.
Fits(r, i, s) ==
  /\ s.act \in {"new", "part", "name", "run", "end", "plain", "read"}
  /\ s.on = "none" \/ s.on \in Present(r, i)
  /\ s.act = "name" => s.gives = "Memory" /\ Names(r, i + 1) = Names(r, i) + 1
  /\ s.act # "name" => Names(r, i + 1) = Names(r, i)
  /\ s.act \in {"new", "part", "run"} =>
       /\ s.obj \in Objects \ Present(r, i)
       /\ Present(r, i + 1) = Present(r, i) \cup {s.obj}
       /\ s.gives = Wraps(s.obj)
  /\ s.act = "new" =>
       /\ s.obj \notin {"shapeInfo", "history", "output"}
       /\ s.on # "none" /\ <<Wraps(s.on), s.gives>> \in Keeping => WorksOn(s.obj, s.on)
       /\ s.obj = "env" => Constructs(r, i) = {"env"}
  /\ s.act = "part" => s.obj = "shapeInfo" /\ s.on = "typeInfo"
  /\ s.act = "run" => s.obj = "output" /\ Constructs(r, i) = {"output"}
  /\ s.act = "end" => /\ s.obj \in Present(r, i) \ Members
                      /\ Present(r, i + 1) = Present(r, i) \ {s.obj}
                      /\ \A q \in Present(r, i) : ~WorksOn(q, s.obj)
  /\ s.act \in {"plain", "read", "name"} => Present(r, i + 1) = Present(r, i)
  /\ Constructs(r, i) # {} => s.act \in {"new", "run"} /\ Constructs(r, i) = {s.obj}

\* f has n entries, g follows it with m, and h is both.
IsScript(f, n) == f = [i \in 1 .. n |-> f[i]]
Joins(h, f, n, g, m) ==
  /\ IsScript(h, n + m) /\ Len(h) = n + m
  /\ \A i \in 1 .. n : h[i] = f[i]
  /\ \A i \in 1 .. m : h[n + i] = g[i]

\* That is what concatenation does.
LEMMA Join ==
  ASSUME NEW n \in Nat, NEW m \in Nat, NEW f, NEW g, IsScript(f, n), IsScript(g, m)
  PROVE  Joins(f \o g, f, n, g, m)
<1> DEFINE S == {f[i] : i \in 1 .. n} \cup {g[i] : i \in 1 .. m}
<1>1. f \in [1 .. n -> S] /\ g \in [1 .. m -> S]
  BY DEF IsScript
<1> HIDE DEF S
<1>2. f \in Seq(S) /\ g \in Seq(S) /\ Len(f) = n /\ Len(g) = m
  BY <1>1
<1>3. /\ f \o g \in Seq(S) /\ Len(f \o g) = n + m
      /\ \A i \in 1 .. n + m : (f \o g)[i] = IF i <= n THEN f[i] ELSE g[i - n]
  BY <1>2, ConcatProperties
<1>4. IsScript(f \o g, n + m)
  BY <1>3 DEF IsScript
<1>5. \A i \in 1 .. m : (f \o g)[n + i] = g[i]
  <2> TAKE i \in 1 .. m
  <2>1. n + i \in 1 .. n + m /\ ~(n + i <= n) /\ (n + i) - n = i  OBVIOUS
  <2> QED BY <1>3, <2>1
<1>6. \A i \in 1 .. n : (f \o g)[i] = f[i]
  BY <1>3
<1> QED BY <1>3, <1>4, <1>5, <1>6 DEF Joins

\* The two loops.
LEMMA LoopsAre == \A s : IsScript(InputNames(s), 9) /\ IsScript(OutputNames(s), 3)
BY DEF IsScript, InputNames, OutputNames

\* loadModel in its pieces.
LEMMA LoadModelIs ==
  /\ Len(LoadModel) = 32
  /\ LoadModel[1] = New("env", "none", "Env")
  /\ LoadModel[2] = New("options", "none", "SessionOptions")
  /\ LoadModel[3] = Plain("options") /\ LoadModel[4] = Plain("options")
  /\ LoadModel[5] = New("policy", "env", "Session")
  /\ LoadModel[6] = New("encoder", "env", "Session")
  /\ LoadModel[7] = Plain("none")
  /\ \A i \in 1 .. 9 : LoadModel[7 + i] = InputNames("policy")[i]
  /\ \A i \in 1 .. 3 : LoadModel[16 + i] = OutputNames("policy")[i]
  /\ \A i \in 1 .. 9 : LoadModel[19 + i] = InputNames("encoder")[i]
  /\ \A i \in 1 .. 3 : LoadModel[28 + i] = OutputNames("encoder")[i]
  /\ LoadModel[32] = End("options")
<1> DEFINE a == <<New("env", "none", "Env"), New("options", "none", "SessionOptions"),
                  Plain("options"), Plain("options"), New("policy", "env", "Session"),
                  New("encoder", "env", "Session"), Plain("none")>>
           b == a \o InputNames("policy")
           c == b \o OutputNames("policy")
           d == c \o InputNames("encoder")
           e == d \o OutputNames("encoder")
           z == <<End("options")>>
<1>1. LoadModel = e \o z
  BY DEF LoadModel
<1>2. IsScript(a, 7)
  BY DEF IsScript
<1>3. IsScript(z, 1) /\ z[1] = End("options")
  BY DEF IsScript
<1>4. /\ a[1] = New("env", "none", "Env")
      /\ a[2] = New("options", "none", "SessionOptions")
      /\ a[3] = Plain("options") /\ a[4] = Plain("options")
      /\ a[5] = New("policy", "env", "Session")
      /\ a[6] = New("encoder", "env", "Session")
      /\ a[7] = Plain("none")
  OBVIOUS
<1> HIDE DEF a, z
<1>5. Joins(b, a, 7, InputNames("policy"), 9)
  BY <1>2, LoopsAre, Join
<1> HIDE DEF b
<1>6. Joins(c, b, 16, OutputNames("policy"), 3)
  <2>1. IsScript(b, 16)  BY <1>5 DEF Joins
  <2> QED BY <2>1, LoopsAre, Join
<1> HIDE DEF c
<1>7. Joins(d, c, 19, InputNames("encoder"), 9)
  <2>1. IsScript(c, 19)  BY <1>6 DEF Joins
  <2> QED BY <2>1, LoopsAre, Join
<1> HIDE DEF d
<1>8. Joins(e, d, 28, OutputNames("encoder"), 3)
  <2>1. IsScript(d, 28)  BY <1>7 DEF Joins
  <2> QED BY <2>1, LoopsAre, Join
<1> HIDE DEF e
<1>9. Joins(LoadModel, e, 31, z, 1)
  <2>1. IsScript(e, 31)  BY <1>8 DEF Joins
  <2> QED BY <1>1, <1>3, <2>1, Join
<1>10. LoadModel[32] = z[1]
  BY <1>9 DEF Joins
<1>11. \A i \in 1 .. 7 : LoadModel[i] = a[i]
  BY <1>5, <1>6, <1>7, <1>8, <1>9 DEF Joins
<1>12. \A i \in 1 .. 9 : LoadModel[7 + i] = InputNames("policy")[i]
  BY <1>5, <1>6, <1>7, <1>8, <1>9 DEF Joins
<1>13. \A i \in 1 .. 3 : LoadModel[16 + i] = OutputNames("policy")[i]
  BY <1>6, <1>7, <1>8, <1>9 DEF Joins
<1>14. \A i \in 1 .. 9 : LoadModel[19 + i] = InputNames("encoder")[i]
  BY <1>7, <1>8, <1>9 DEF Joins
<1>15. \A i \in 1 .. 3 : LoadModel[28 + i] = OutputNames("encoder")[i]
  BY <1>8, <1>9 DEF Joins
<1>16. /\ LoadModel[1] = a[1] /\ LoadModel[2] = a[2] /\ LoadModel[3] = a[3]
       /\ LoadModel[4] = a[4] /\ LoadModel[5] = a[5] /\ LoadModel[6] = a[6]
       /\ LoadModel[7] = a[7]
  BY <1>11
<1>17. Len(LoadModel) = 32
  BY <1>9 DEF Joins
<1> QED BY <1>3, <1>4, <1>10, <1>12, <1>13, <1>14, <1>15, <1>16, <1>17

\* The same of computeActions.
LEMMA ComputeActionsIs ==
  /\ Len(ComputeActions) = 10
  /\ ComputeActions[1] = New("policyInput", "none", "Memory")
  /\ \A i \in 1 .. 8 : ComputeActions[1 + i] = Infer("policy", "policyInput")[i]
  /\ ComputeActions[10] = End("policyInput")
<1> DEFINE a == <<New("policyInput", "none", "Memory")>>
           f == Infer("policy", "policyInput")
           b == a \o f
           z == <<End("policyInput")>>
<1>1. ComputeActions = b \o z
  BY DEF ComputeActions
<1>2. IsScript(a, 1) /\ a[1] = New("policyInput", "none", "Memory")
  BY DEF IsScript
<1>3. IsScript(z, 1) /\ z[1] = End("policyInput")
  BY DEF IsScript
<1>4. IsScript(f, 8)
  BY DEF IsScript, Infer
<1> HIDE DEF a, f, z
<1>5. Joins(b, a, 1, f, 8)
  BY <1>2, <1>4, Join
<1> HIDE DEF b
<1>6. Joins(ComputeActions, b, 9, z, 1)
  <2>1. IsScript(b, 9)  BY <1>5 DEF Joins
  <2> QED BY <1>1, <1>3, <2>1, Join
<1>7. ComputeActions[1] = a[1] /\ ComputeActions[10] = z[1] /\ Len(ComputeActions) = 10
  BY <1>5, <1>6 DEF Joins
<1>8. \A i \in 1 .. 8 : ComputeActions[1 + i] = f[i]
  BY <1>5, <1>6 DEF Joins
<1> QED BY <1>2, <1>3, <1>7, <1>8 DEF f

\* loadModel step by step.
LEMMA LoadModelFits == \A i \in 1 .. 32 : Fits("loadModel", i, LoadModel[i])
<1> USE ClientAssumption, LoadModelIs
    DEF ClientAssumption, Members, Automatic, Fits, Present, LoadPresent, Names,
        Constructs, Wraps, WorksOn, Keeping, New, Part, Plain, Name, End, Step
<1>1. Fits("loadModel", 1, LoadModel[1])  OBVIOUS
<1>2. Fits("loadModel", 2, LoadModel[2])  OBVIOUS
<1>3. Fits("loadModel", 3, LoadModel[3])  OBVIOUS
<1>4. Fits("loadModel", 4, LoadModel[4])  OBVIOUS
<1>5. Fits("loadModel", 5, LoadModel[5])  OBVIOUS
<1>6. Fits("loadModel", 6, LoadModel[6])  OBVIOUS
<1>7. Fits("loadModel", 7, LoadModel[7])  OBVIOUS
<1>8. /\ Fits("loadModel", 8, LoadModel[8])
      /\ Fits("loadModel", 20, LoadModel[20])
  <2>1. /\ LoadModel[8] = InputNames("policy")[1]
        /\ LoadModel[20] = InputNames("encoder")[1]
    OBVIOUS
  <2> QED BY <2>1 DEF InputNames
<1>9. /\ Fits("loadModel", 9, LoadModel[9])
      /\ Fits("loadModel", 21, LoadModel[21])
  <2>1. /\ LoadModel[9] = InputNames("policy")[2]
        /\ LoadModel[21] = InputNames("encoder")[2]
    OBVIOUS
  <2> QED BY <2>1 DEF InputNames
<1>10. /\ Fits("loadModel", 10, LoadModel[10])
      /\ Fits("loadModel", 22, LoadModel[22])
  <2>1. /\ LoadModel[10] = InputNames("policy")[3]
        /\ LoadModel[22] = InputNames("encoder")[3]
    OBVIOUS
  <2> QED BY <2>1 DEF InputNames
<1>11. /\ Fits("loadModel", 11, LoadModel[11])
      /\ Fits("loadModel", 23, LoadModel[23])
  <2>1. /\ LoadModel[11] = InputNames("policy")[4]
        /\ LoadModel[23] = InputNames("encoder")[4]
    OBVIOUS
  <2> QED BY <2>1 DEF InputNames
<1>12. /\ Fits("loadModel", 12, LoadModel[12])
      /\ Fits("loadModel", 24, LoadModel[24])
  <2>1. /\ LoadModel[12] = InputNames("policy")[5]
        /\ LoadModel[24] = InputNames("encoder")[5]
    OBVIOUS
  <2> QED BY <2>1 DEF InputNames
<1>13. /\ Fits("loadModel", 13, LoadModel[13])
      /\ Fits("loadModel", 25, LoadModel[25])
  <2>1. /\ LoadModel[13] = InputNames("policy")[6]
        /\ LoadModel[25] = InputNames("encoder")[6]
    OBVIOUS
  <2> QED BY <2>1 DEF InputNames
<1>14. /\ Fits("loadModel", 14, LoadModel[14])
      /\ Fits("loadModel", 26, LoadModel[26])
  <2>1. /\ LoadModel[14] = InputNames("policy")[7]
        /\ LoadModel[26] = InputNames("encoder")[7]
    OBVIOUS
  <2> QED BY <2>1 DEF InputNames
<1>15. /\ Fits("loadModel", 15, LoadModel[15])
      /\ Fits("loadModel", 27, LoadModel[27])
  <2>1. /\ LoadModel[15] = InputNames("policy")[8]
        /\ LoadModel[27] = InputNames("encoder")[8]
    OBVIOUS
  <2> QED BY <2>1 DEF InputNames
<1>16. /\ Fits("loadModel", 16, LoadModel[16])
      /\ Fits("loadModel", 28, LoadModel[28])
  <2>1. /\ LoadModel[16] = InputNames("policy")[9]
        /\ LoadModel[28] = InputNames("encoder")[9]
    OBVIOUS
  <2> QED BY <2>1 DEF InputNames
<1>17. /\ Fits("loadModel", 17, LoadModel[17])
      /\ Fits("loadModel", 29, LoadModel[29])
  <2>1. /\ LoadModel[17] = OutputNames("policy")[1]
        /\ LoadModel[29] = OutputNames("encoder")[1]
    OBVIOUS
  <2> QED BY <2>1 DEF OutputNames
<1>18. /\ Fits("loadModel", 18, LoadModel[18])
      /\ Fits("loadModel", 30, LoadModel[30])
  <2>1. /\ LoadModel[18] = OutputNames("policy")[2]
        /\ LoadModel[30] = OutputNames("encoder")[2]
    OBVIOUS
  <2> QED BY <2>1 DEF OutputNames
<1>19. /\ Fits("loadModel", 19, LoadModel[19])
      /\ Fits("loadModel", 31, LoadModel[31])
  <2>1. /\ LoadModel[19] = OutputNames("policy")[3]
        /\ LoadModel[31] = OutputNames("encoder")[3]
    OBVIOUS
  <2> QED BY <2>1 DEF OutputNames
<1>20. Fits("loadModel", 32, LoadModel[32])  OBVIOUS
<1> HIDE DEF Fits
<1> QED BY <1>1, <1>2, <1>3, <1>4, <1>5, <1>6, <1>7, <1>8, <1>9, <1>10, <1>11, <1>12, <1>13, <1>14, <1>15, <1>16, <1>17, <1>18, <1>19, <1>20

\* computeEncoder step by step.
LEMMA ComputeEncoderFits ==
  /\ Len(ComputeEncoder) = 8
  /\ \A i \in 1 .. 8 : Fits("computeEncoder", i, ComputeEncoder[i])
<1> USE ClientAssumption
    DEF ClientAssumption, Members, Automatic, Fits, Present, InferPresent, Names,
        Constructs, Wraps, WorksOn, Keeping, New, Plain, RunInto, Reads, End, Step
<1>0. Len(ComputeEncoder) = 8
  BY DEF ComputeEncoder, Infer
<1>1. Fits("computeEncoder", 1, ComputeEncoder[1])
  BY DEF ComputeEncoder, Infer
<1>2. Fits("computeEncoder", 2, ComputeEncoder[2])
  BY DEF ComputeEncoder, Infer
<1>3. Fits("computeEncoder", 3, ComputeEncoder[3])
  BY DEF ComputeEncoder, Infer
<1>4. Fits("computeEncoder", 4, ComputeEncoder[4])
  BY DEF ComputeEncoder, Infer
<1>5. Fits("computeEncoder", 5, ComputeEncoder[5])
  BY DEF ComputeEncoder, Infer
<1>6. Fits("computeEncoder", 6, ComputeEncoder[6])
  BY DEF ComputeEncoder, Infer
<1>7. Fits("computeEncoder", 7, ComputeEncoder[7])
  BY DEF ComputeEncoder, Infer
<1>8. Fits("computeEncoder", 8, ComputeEncoder[8])
  BY DEF ComputeEncoder, Infer
<1> HIDE DEF Fits
<1> QED BY <1>0, <1>1, <1>2, <1>3, <1>4, <1>5, <1>6, <1>7, <1>8

\* computeActions step by step.
LEMMA ComputeActionsFits == \A i \in 1 .. 10 : Fits("computeActions", i, ComputeActions[i])
<1> USE ClientAssumption, ComputeActionsIs
    DEF ClientAssumption, Members, Automatic, Fits, Present, InferPresent, Names,
        Constructs, Wraps, WorksOn, Keeping, New, Plain, RunInto, Reads, End, Step
<1>1. Fits("computeActions", 1, ComputeActions[1])  OBVIOUS
<1>2. Fits("computeActions", 2, ComputeActions[2])
  <2>1. ComputeActions[2] = Infer("policy", "policyInput")[1]  OBVIOUS
  <2> QED BY <2>1 DEF Infer
<1>3. Fits("computeActions", 3, ComputeActions[3])
  <2>1. ComputeActions[3] = Infer("policy", "policyInput")[2]  OBVIOUS
  <2> QED BY <2>1 DEF Infer
<1>4. Fits("computeActions", 4, ComputeActions[4])
  <2>1. ComputeActions[4] = Infer("policy", "policyInput")[3]  OBVIOUS
  <2> QED BY <2>1 DEF Infer
<1>5. Fits("computeActions", 5, ComputeActions[5])
  <2>1. ComputeActions[5] = Infer("policy", "policyInput")[4]  OBVIOUS
  <2> QED BY <2>1 DEF Infer
<1>6. Fits("computeActions", 6, ComputeActions[6])
  <2>1. ComputeActions[6] = Infer("policy", "policyInput")[5]  OBVIOUS
  <2> QED BY <2>1 DEF Infer
<1>7. Fits("computeActions", 7, ComputeActions[7])
  <2>1. ComputeActions[7] = Infer("policy", "policyInput")[6]  OBVIOUS
  <2> QED BY <2>1 DEF Infer
<1>8. Fits("computeActions", 8, ComputeActions[8])
  <2>1. ComputeActions[8] = Infer("policy", "policyInput")[7]  OBVIOUS
  <2> QED BY <2>1 DEF Infer
<1>9. Fits("computeActions", 9, ComputeActions[9])
  <2>1. ComputeActions[9] = Infer("policy", "policyInput")[8]  OBVIOUS
  <2> QED BY <2>1 DEF Infer
<1>10. Fits("computeActions", 10, ComputeActions[10])  OBVIOUS
<1> HIDE DEF Fits
<1> QED BY <1>1, <1>2, <1>3, <1>4, <1>5, <1>6, <1>7, <1>8, <1>9, <1>10

\* The routines, and how many steps they have.
Lengths ==
  [r \in {"loadModel", "computeEncoder", "computeActions"} |->
     IF r = "loadModel" THEN 32 ELSE IF r = "computeEncoder" THEN 8 ELSE 10]

\* Every step of every routine fits.
LEMMA ScriptFits ==
  ASSUME NEW r \in DOMAIN Lengths
  PROVE  /\ Len(Routine(r)) = Lengths[r]
         /\ \A i \in 1 .. Lengths[r] : Fits(r, i, Routine(r)[i])
<1>1. CASE r = "loadModel"
  BY <1>1, LoadModelIs, LoadModelFits DEF Routine, Lengths
<1>2. CASE r = "computeEncoder"
  BY <1>2, ComputeEncoderFits DEF Routine, Lengths
<1>3. CASE r = "computeActions"
  BY <1>3, ComputeActionsIs, ComputeActionsFits DEF Routine, Lengths
<1> QED BY <1>1, <1>2, <1>3 DEF Lengths

-----------------------------------------------------------------------------
(* The objects, call by call.                                              *)

\* Every object wraps something that is not a status, and only env an Env.
LEMMA WrapsIs ==
  \A o \in Objects : /\ Wraps(o) \in BaseClasses \cup {"Memory"}
                     /\ Wraps(o) \in HandleClasses /\ Wraps(o) # "free"
                     /\ Wraps(o) = "Env" <=> o = "env"
BY ClientAssumption
DEF ClientAssumption, Members, Automatic, Wraps, BaseClasses, HandleClasses

\* Somebody's hands hold what lives and is no part.
LEMMA SolidIs ==
  /\ Solid \subseteq Live /\ Live \subseteq Handles /\ Null \notin Live /\ Null \notin Handles
  /\ \A h \in parts : h \notin Solid
BY LiveIs, OrtAssumption DEF Solid, OrtAssumption

\* What comes to life or goes leaves the rest of the heap as empty as it was.
LEMMA FreeStays ==
  ASSUME TypeOK, FreeInv
  PROVE  /\ \A h \in Handles : \A c \in HandleClasses : \A g :
              Allocate(h, c, g) => FreeInv'
         /\ \A S : Release(S) => FreeInv'
<1>1. ASSUME NEW h \in Handles, NEW c \in HandleClasses, NEW g, Allocate(h, c, g)
      PROVE  FreeInv'
  <2>1. c # "free"
    BY DEF HandleClasses, BaseClasses
  <2> QED BY <1>1, <2>1 DEF Allocate, FreeInv, TypeOK
<1>2. ASSUME NEW S, Release(S) PROVE FreeInv'
  BY <1>2 DEF Release, FreeInv
<1> QED BY <1>1, <1>2

\* A constructor that works on what its object may work on.
LEMMA MakeOwnerObjects ==
  ASSUME ObjectInv, NEW k, NEW g \in Handles \cup {Null}, NEW o \in Objects,
         MakeOwner(k, g, o), k.gives = Wraps(o), o # "shapeInfo",
         k.keeps /\ g # Null => \E m \in Objects : WorksOn(o, m) /\ Holds(m) /\ g = ptr[m],
         UNCHANGED leaked
  PROVE  ObjectInv'
<1> USE DEF MakeOwner, progress, Idle, ObjectInv
<1>1. k.gives \in BaseClasses \cup {"Memory"} /\ k.gives \in HandleClasses
        /\ (k.gives = "Env" <=> o = "env")
  BY WrapsIs
<1>2. PICK h \in Fresh(1) : /\ Allocate(h, k.gives, IF k.keeps THEN g ELSE Null)
                            /\ ptr' = [ptr EXCEPT ![o] = h]
  OBVIOUS
<1>3. h \in Handles \ Live /\ h # Null /\ h \in Handles /\ parts \subseteq Live
  BY FreshIsFree, SolidIs DEF StockInv
<1>4. /\ class' \in [Handles -> HandleClasses \cup {"free"}]
      /\ uses' \in [Handles -> Handles \cup {Null}]
      /\ parts' = parts
      /\ Live' = Live \cup {h} /\ Solid' = Solid \cup {h} /\ h \notin Solid
      /\ class'[h] = k.gives
      /\ \A x \in Live : class'[x] = class[x] /\ uses'[x] = uses[x]
  BY <1>1, <1>2, <1>3, AllocateHeap
<1>5. uses'[h] = IF k.keeps THEN g ELSE Null
  BY <1>2, <1>3 DEF Allocate, TypeOK
<1>6. /\ kind[o] = "gone" /\ making = {} /\ bare' = bare /\ status = Null /\ status' = Null
      /\ kind' = [kind EXCEPT ![o] = IF o = "env" THEN "building" ELSE "owner"]
      /\ type' = [type EXCEPT ![o] = Wraps(o)]
      /\ array' = array /\ buffer' = buffer /\ Kept' = Kept
  BY <1>1 DEF WrapInv, Kept
<1>7. /\ kind'[o] \in {"building", "owner"} /\ ptr'[o] = h /\ type'[o] = Wraps(o)
      /\ \A q \in Objects \ {o} : /\ kind'[q] = kind[q] /\ ptr'[q] = ptr[q]
                                  /\ type'[q] = type[q]
  BY <1>2, <1>6 DEF TypeOK
<1>8. /\ Holds(o)' /\ ~Holds(o)
      /\ \A q \in Objects \ {o} : Holds(q)' <=> Holds(q)
  BY <1>3, <1>6, <1>7 DEF Holds, TypeOK
<1>9. TypeOK'
  BY <1>1, <1>2, <1>3, <1>4, SolidIs DEF TypeOK, Stages
<1>10. WrapInv'
  BY <1>1, <1>2, <1>3, <1>6, <1>7 DEF WrapInv, TypeOK
<1>11. StockInv'
  BY <1>1, <1>3, <1>4, <1>6, <1>7, <1>8, SolidIs DEF StockInv
<1>12. UseInv'
  <2>1. \A x \in parts : /\ class'[x] = "TensorTypeAndShapeInfo"
                         /\ Holds("typeInfo")' /\ uses'[x] = ptr'["typeInfo"]
    BY <1>3, <1>4, <1>7, <1>8, ClientAssumption
    DEF UseInv, ClientAssumption, Automatic
  <2>2. kind'["shapeInfo"] = "unowned" => ptr'["shapeInfo"] \in parts
    BY <1>7, ClientAssumption DEF UseInv, ClientAssumption, Automatic
  <2>3. ASSUME NEW q \in Objects, Holds(q)', uses'[ptr'[q]] # Null
        PROVE  \E m \in Objects : WorksOn(q, m) /\ Holds(m)' /\ uses'[ptr'[q]] = ptr'[m]
    <3>1. CASE q = o
      <4>1. PICK m \in Objects : WorksOn(o, m) /\ Holds(m) /\ g = ptr[m]
        BY <1>5, <1>7, <2>3, <3>1
      <4> QED BY <1>5, <1>7, <1>8, <2>3, <3>1, <4>1
    <3>2. CASE q # o
      <4>1. Holds(q) /\ ptr'[q] = ptr[q] /\ ptr[q] \in Live
        BY <1>7, <1>8, <2>3, <3>2, SolidIs DEF StockInv
      <4>2. PICK m \in Objects : WorksOn(q, m) /\ Holds(m) /\ uses[ptr[q]] = ptr[m]
        BY <1>4, <2>3, <4>1 DEF UseInv
      <4> QED BY <1>4, <1>7, <1>8, <4>1, <4>2
    <3> QED BY <3>1, <3>2
  <2>4. \A x \in bare : class'[x] = "Memory" /\ uses'[x] = Null
    BY <1>4, SolidIs DEF UseInv, StockInv, Kept
  <2> QED BY <1>4, <1>6, <2>1, <2>2, <2>3, <2>4 DEF UseInv
<1>13. LeftInv'
  BY <1>4, SolidIs DEF LeftInv, StockInv, Kept
<1>14. FreeInv'
  BY <1>1, <1>2, <1>3, FreeStays
<1> QED BY <1>9, <1>10, <1>11, <1>12, <1>13, <1>14

\* The objects of D go, and their C objects with them: nobody works on those.
LEMMA ReleaseObjects ==
  ASSUME ObjectInv, NEW D \in SUBSET Objects, NEW S, Release(S),
         \A o \in D : kind[o] \in {"owner", "building"} /\ ptr[o] \in S,
         \A h \in S : h = Null \/ \E o \in D : ptr[o] = h,
         \A o \in D : \A q \in Objects : kind[q] # "gone" => ~WorksOn(q, o),
         kind' = [q \in Objects |-> IF q \in D THEN "gone" ELSE kind[q]],
         type' = [q \in Objects |-> IF q \in D THEN "none" ELSE type[q]],
         ptr' = [q \in Objects |-> IF q \in D THEN Null ELSE ptr[q]],
         UNCHANGED <<bare, status, leaked>>
  PROVE  /\ StockInv' /\ UseInv' /\ FreeInv' /\ LeftInv'
         /\ class' \in [Handles -> HandleClasses \cup {"free"}]
         /\ uses' \in [Handles -> Handles \cup {Null}]
         /\ parts' \subseteq Handles
<1> USE DEF ObjectInv
<1>1. S \subseteq Solid \cup {Null}
  BY DEF StockInv, Holds
<1>2. parts \subseteq Live /\ \A h \in parts : uses[h] \in Solid
  BY ClientAssumption DEF StockInv, UseInv, ClientAssumption, Automatic
<1>3. /\ class' \in [Handles -> HandleClasses \cup {"free"}]
      /\ uses' \in [Handles -> Handles \cup {Null}]
      /\ parts' = {h \in parts : uses[h] \notin S}
      /\ parts' \subseteq Live'
      /\ Live' = Live \ (S \cup {h \in parts : uses[h] \in S})
      /\ Solid' = Solid \ S
      /\ \A x \in Live' : class'[x] = class[x] /\ uses'[x] = uses[x]
  BY <1>1, <1>2, ReleaseHeap
<1>4. \A q \in Objects : Holds(q)' <=> Holds(q) /\ q \notin D
  BY DEF Holds
<1>5. \A q \in Objects \ D : ptr'[q] = ptr[q] /\ kind'[q] = kind[q] /\ type'[q] = type[q]
  OBVIOUS
<1>6. \A q \in Objects : Holds(q) /\ q \notin D => ptr[q] \notin S
  BY DEF StockInv, Holds
<1>7. Kept' = Kept /\ \A h \in Kept : h \notin S /\ h # Null
  BY SolidIs DEF Kept, StockInv, Holds
<1>8. status # Null => status \notin S
  BY DEF StockInv, Holds
<1>9. Solid' \subseteq Live' /\ Live' \subseteq Live
  BY <1>3 DEF Solid
<1>10. StockInv'
  <2>1. \A h \in Solid' : \/ h \in Kept' \/ h = status'
                          \/ \E o \in Objects : Holds(o)' /\ ptr'[o] = h
    <3> TAKE h \in Solid'
    <3>1. h \in Solid /\ h \notin S
      BY <1>3
    <3>2. CASE h \in Kept \/ h = status
      BY <1>7, <3>2
    <3>3. CASE \E o \in Objects : Holds(o) /\ ptr[o] = h
      BY <1>4, <1>5, <3>1, <3>3
    <3> QED BY <3>1, <3>2, <3>3 DEF StockInv
  <2>2. \A o \in Objects : Holds(o)' => /\ ptr'[o] \in Solid' /\ class'[ptr'[o]] = Wraps(o)
                                        /\ ptr'[o] = ptr[o] /\ Holds(o)
    BY <1>3, <1>4, <1>5, <1>6, <1>9 DEF StockInv
  <2>3. \A o \in Objects : Holds(o)' => ptr'[o] \notin Kept' /\ ptr'[o] # status'
    BY <1>7, <2>2 DEF StockInv
  <2>4. \A o, q \in Objects : Holds(o)' /\ Holds(q)' /\ ptr'[o] = ptr'[q] => o = q
    BY <2>2 DEF StockInv
  <2>5. \A h \in Kept' : h \in Solid'
    BY <1>3, <1>7 DEF StockInv
  <2>6. status' # Null => status' \in Solid' /\ class'[status'] = "Status"
    BY <1>3, <1>8, <1>9 DEF StockInv
  <2>7. status' \notin Kept'
    BY <1>7 DEF StockInv
  <2> QED BY <1>3, <2>1, <2>2, <2>3, <2>4, <2>5, <2>6, <2>7 DEF StockInv
<1>11. UseInv'
  <2>1. ASSUME NEW h \in parts'
        PROVE  /\ class'[h] = "TensorTypeAndShapeInfo"
               /\ Holds("typeInfo")' /\ uses'[h] = ptr'["typeInfo"]
    <3>1. h \in parts /\ uses[h] \notin S /\ h \in Live'
      BY <1>3
    <3>2. "typeInfo" \in Objects /\ Holds("typeInfo") /\ uses[h] = ptr["typeInfo"]
      BY <3>1, ClientAssumption DEF UseInv, ClientAssumption, Automatic
    <3>3. "typeInfo" \notin D
      BY <3>1, <3>2
    <3> QED BY <1>3, <1>4, <1>5, <3>1, <3>2, <3>3 DEF UseInv
  <2>2. kind'["shapeInfo"] = "unowned" => ptr'["shapeInfo"] \in parts'
    <3>1. SUFFICES ASSUME kind'["shapeInfo"] = "unowned"
                   PROVE  ptr'["shapeInfo"] \in parts'
      OBVIOUS
    <3>2. "shapeInfo" \in Objects \ D /\ "typeInfo" \in Objects
      BY <3>1, ClientAssumption DEF ClientAssumption, Automatic
    <3>3. kind["shapeInfo"] = "unowned" /\ ptr["shapeInfo"] \in parts
      BY <1>5, <3>1, <3>2 DEF UseInv
    <3>4. "typeInfo" \notin D
      BY <3>2, <3>3 DEF WorksOn
    <3>5. uses[ptr["shapeInfo"]] = ptr["typeInfo"] /\ Holds("typeInfo")
      BY <3>3 DEF UseInv
    <3>6. ptr["typeInfo"] \notin S
      BY <1>6, <3>2, <3>4, <3>5
    <3> QED BY <1>3, <1>5, <3>2, <3>3, <3>5, <3>6
  <2>3. ASSUME NEW q \in Objects, Holds(q)', uses'[ptr'[q]] # Null
        PROVE  \E m \in Objects : WorksOn(q, m) /\ Holds(m)' /\ uses'[ptr'[q]] = ptr'[m]
    <3>1. q \notin D /\ Holds(q) /\ ptr'[q] = ptr[q] /\ kind[q] # "gone"
      BY <1>4, <1>5, <2>3 DEF Holds
    <3>2. uses'[ptr[q]] = uses[ptr[q]]
      BY <1>3, <1>6, <1>9, <3>1 DEF StockInv
    <3>3. PICK m \in Objects : WorksOn(q, m) /\ Holds(m) /\ uses[ptr[q]] = ptr[m]
      BY <2>3, <3>1, <3>2 DEF UseInv
    <3>4. m \notin D
      BY <3>1, <3>3
    <3> QED BY <1>4, <1>5, <3>1, <3>2, <3>3, <3>4
  <2>4. \A h \in bare : class'[h] = "Memory" /\ uses'[h] = Null
    BY <1>3, <1>7, <1>9 DEF UseInv, StockInv, Kept
  <2>5. status # Null => uses'[status] = Null
    BY <1>3, <1>8, <1>9 DEF UseInv, StockInv
  <2> QED BY <2>1, <2>2, <2>3, <2>4, <2>5 DEF UseInv
<1>12. LeftInv'
  <2>1. \A h \in leaked : h \in Live' /\ class'[h] = class[h] /\ uses'[h] = uses[h]
    BY <1>3, <1>7, <1>9 DEF StockInv, Kept
  <2> QED BY <2>1 DEF LeftInv
<1>13. parts' \subseteq Handles
  BY <1>3 DEF TypeOK
<1>14. FreeInv'
  BY FreeStays
<1> QED BY <1>3, <1>10, <1>11, <1>12, <1>13, <1>14

\* A wrapper is destroyed when nothing works on its C object any more.
LEMMA DropObjects ==
  ASSUME ObjectInv, NEW o \in Objects, kind[o] = "owner", Release({ptr[o]}),
         \A q \in Objects : kind[q] # "gone" => ~WorksOn(q, o),
         kind' = [kind EXCEPT ![o] = "gone"],
         type' = [type EXCEPT ![o] = "none"],
         ptr' = [ptr EXCEPT ![o] = Null],
         UNCHANGED <<bare, progress, leaked>>
  PROVE  ObjectInv'
<1>1. /\ kind' = [q \in Objects |-> IF q \in {o} THEN "gone" ELSE kind[q]]
      /\ type' = [q \in Objects |-> IF q \in {o} THEN "none" ELSE type[q]]
      /\ ptr' = [q \in Objects |-> IF q \in {o} THEN Null ELSE ptr[q]]
      /\ UNCHANGED <<bare, status, leaked>>
  BY DEF ObjectInv, TypeOK, progress
<1>2. /\ {o} \in SUBSET Objects
      /\ \A d \in {o} : kind[d] \in {"owner", "building"} /\ ptr[d] \in {ptr[o]}
      /\ \A h \in {ptr[o]} : h = Null \/ \E d \in {o} : ptr[d] = h
      /\ \A d \in {o} : \A q \in Objects : kind[q] # "gone" => ~WorksOn(q, d)
  OBVIOUS
<1>3. /\ StockInv' /\ UseInv' /\ FreeInv' /\ LeftInv'
      /\ class' \in [Handles -> HandleClasses \cup {"free"}]
      /\ uses' \in [Handles -> Handles \cup {Null}]
      /\ parts' \subseteq Handles
  BY <1>1, <1>2, ReleaseObjects
<1>4. TypeOK'
  BY <1>1, <1>3 DEF ObjectInv, TypeOK, progress
<1>5. WrapInv'
  BY <1>1 DEF ObjectInv, WrapInv, TypeOK, progress
<1> QED BY <1>3, <1>4, <1>5 DEF ObjectInv

\* What the call made goes when it is unwound.
LEMMA UnwindObjects ==
  ASSUME ObjectInv, Unwind, UNCHANGED leaked,
         \A o \in making : \A q \in Objects : kind[q] # "gone" => ~WorksOn(q, o)
  PROVE  ObjectInv'
<1> DEFINE S == {ptr[o] : o \in making} \cup array \cup {buffer}
<1>1. /\ making \in SUBSET Objects /\ array = {} /\ buffer = Null
      /\ \A o \in making : kind[o] = "building"
  BY DEF ObjectInv, TypeOK, WrapInv
<1>2. /\ \A o \in making : kind[o] \in {"owner", "building"} /\ ptr[o] \in S
      /\ \A h \in S : h = Null \/ \E o \in making : ptr[o] = h
  BY <1>1
<1>3. /\ Release(S)
      /\ kind' = [q \in Objects |-> IF q \in making THEN "gone" ELSE kind[q]]
      /\ type' = [q \in Objects |-> IF q \in making THEN "none" ELSE type[q]]
      /\ ptr' = [q \in Objects |-> IF q \in making THEN Null ELSE ptr[q]]
      /\ UNCHANGED <<bare, status, leaked>>
      /\ stage = "unwinding" /\ stage' = "thrown" /\ making' = {} /\ array' = {}
      /\ buffer' = Null /\ before' = before
  BY DEF Unwind
<1> HIDE DEF S
<1>4. /\ StockInv' /\ UseInv' /\ FreeInv' /\ LeftInv'
      /\ class' \in [Handles -> HandleClasses \cup {"free"}]
      /\ uses' \in [Handles -> Handles \cup {Null}]
      /\ parts' \subseteq Handles
  BY <1>1, <1>2, <1>3, ReleaseObjects
<1>5. TypeOK'
  BY <1>3, <1>4 DEF ObjectInv, TypeOK, Stages
<1>6. WrapInv'
  BY <1>1, <1>3 DEF ObjectInv, WrapInv, TypeOK
<1> QED BY <1>4, <1>5, <1>6 DEF ObjectInv

\* The status goes when it has been turned into an exception.
LEMMA ThrowObjects ==
  ASSUME ObjectInv, ThrowOnError, UNCHANGED leaked
  PROVE  ObjectInv'
<1> USE DEF ThrowOnError, objects, ObjectInv
<1>1. {status} \subseteq Solid \cup {Null}
  BY DEF StockInv
<1>2. parts \subseteq Live /\ \A h \in parts : uses[h] \in Solid
  BY ClientAssumption DEF StockInv, UseInv, ClientAssumption, Automatic
<1>3. /\ class' \in [Handles -> HandleClasses \cup {"free"}]
      /\ uses' \in [Handles -> Handles \cup {Null}]
      /\ parts' = {h \in parts : uses[h] \notin {status}}
      /\ parts' \subseteq Live'
      /\ Live' = Live \ ({status} \cup {h \in parts : uses[h] \in {status}})
      /\ Solid' = Solid \ {status}
      /\ \A x \in Live' : class'[x] = class[x] /\ uses'[x] = uses[x]
  BY <1>1, <1>2, ReleaseHeap
<1>4. parts' = parts /\ Live' = Live \ {status}
  BY <1>2, <1>3, ClientAssumption
  DEF UseInv, StockInv, ClientAssumption, Automatic
<1>5. Kept' = Kept /\ \A h \in Kept : h \in Solid' /\ h \in Live'
  BY <1>3, SolidIs DEF Kept, StockInv, Solid
<1>6. \A o \in Objects : Holds(o)' <=> Holds(o)
  BY DEF Holds
<1>7. \A o \in Objects : Holds(o) => ptr[o] \in Solid' /\ ptr[o] \in Live'
  BY <1>3, SolidIs DEF StockInv, Solid
<1>8. stage = "failed" /\ stage' = "unwinding" /\ status' = Null /\ parts \subseteq Handles
  BY DEF TypeOK
<1>9. TypeOK'
  BY <1>3, <1>4, <1>8 DEF TypeOK, Stages
<1>10. WrapInv'
  BY DEF WrapInv
<1>11. StockInv'
  <2>1. status' \notin Kept'
    BY <1>5, SolidIs DEF StockInv
  <2>2. \A o \in Objects : Holds(o) => ptr[o] \notin Kept /\ ptr[o] # Null
    BY SolidIs DEF StockInv, Holds
  <2>3. \A h \in Solid' : h \in Kept \/ \E o \in Objects : Holds(o) /\ ptr[o] = h
    BY <1>3 DEF StockInv
  <2> QED BY <1>3, <1>4, <1>5, <1>6, <1>7, <2>1, <2>2, <2>3 DEF StockInv
<1>12. UseInv'
  <2>1. \A h \in parts : class'[h] = class[h] /\ uses'[h] = uses[h]
    BY <1>3, <1>4
  <2>2. \A h \in bare : class'[h] = class[h] /\ uses'[h] = uses[h]
    BY <1>3, <1>5 DEF Kept
  <2>3. \A o \in Objects : Holds(o) => uses'[ptr[o]] = uses[ptr[o]]
    BY <1>3, <1>7
  <2>4. Holds("typeInfo")' <=> Holds("typeInfo")
    BY <1>6, ClientAssumption DEF ClientAssumption, Automatic
  <2> QED BY <1>4, <1>6, <2>1, <2>2, <2>3, <2>4 DEF UseInv
<1>13. LeftInv'
  BY <1>3, <1>5 DEF LeftInv, Kept
<1>14. FreeInv'
  BY FreeStays
<1> QED BY <1>9, <1>10, <1>11, <1>12, <1>13, <1>14

\* A status comes to life when a call fails, at whichever of its steps.
LEMMA FailObjects ==
  ASSUME ObjectInv, NEW h \in Fresh(1), FailWith(h), status = Null,
         stage \in {"idle", "projecting", "running"},
         before' \subseteq Handles, UNCHANGED <<making, leaked>>
  PROVE  ObjectInv'
<1> USE DEF FailWith, objects, ObjectInv
<1>1. h \in Handles \ Live /\ h # Null /\ h \in Handles /\ parts \subseteq Live
        /\ "Status" \in HandleClasses
  BY FreshIsFree, SolidIs DEF StockInv, HandleClasses
<1>2. /\ class' \in [Handles -> HandleClasses \cup {"free"}]
      /\ uses' \in [Handles -> Handles \cup {Null}]
      /\ parts' = parts
      /\ Live' = Live \cup {h} /\ Solid' = Solid \cup {h} /\ h \notin Solid
      /\ class'[h] = "Status"
      /\ \A x \in Live : class'[x] = class[x] /\ uses'[x] = uses[x]
  BY <1>1, AllocateHeap
<1>3. uses'[h] = Null
  BY <1>1 DEF Allocate, TypeOK
<1>4. Kept' = Kept /\ \A o \in Objects : Holds(o)' <=> Holds(o)
  BY DEF Kept, Holds
<1>5. TypeOK'
  BY <1>1, <1>2 DEF TypeOK, Stages
<1>6. WrapInv'
  BY <1>1 DEF WrapInv
<1>7. StockInv'
  BY <1>1, <1>2, <1>4, SolidIs DEF StockInv
<1>8. UseInv'
  <2>1. \A x \in parts : class'[x] = class[x] /\ uses'[x] = uses[x]
    BY <1>1, <1>2
  <2>2. \A x \in bare : class'[x] = class[x] /\ uses'[x] = uses[x]
    BY <1>2, SolidIs DEF Kept, StockInv
  <2>3. \A o \in Objects : Holds(o) => uses'[ptr[o]] = uses[ptr[o]]
    BY <1>2, SolidIs DEF StockInv
  <2>4. Holds("typeInfo")' <=> Holds("typeInfo")
    BY <1>4, ClientAssumption DEF ClientAssumption, Automatic
  <2> QED BY <1>2, <1>3, <1>4, <2>1, <2>2, <2>3, <2>4 DEF UseInv
<1>9. LeftInv'
  BY <1>2, SolidIs DEF LeftInv, StockInv, Kept
<1>10. FreeInv'
  BY <1>1, FreeStays
<1> QED BY <1>5, <1>6, <1>7, <1>8, <1>9, <1>10

\* The shape of a tensor is a part of the information on its type.
LEMMA BorrowObjects ==
  ASSUME ObjectInv, NEW k, Borrow(k, ptr["typeInfo"], "shapeInfo"), Holds("typeInfo"),
         k.gives = "TensorTypeAndShapeInfo", UNCHANGED leaked
  PROVE  ObjectInv'
<1> DEFINE g == ptr["typeInfo"]
<1> USE DEF Borrow, progress, Idle, ObjectInv
<1>1. /\ "typeInfo" \in Objects /\ "shapeInfo" \in Objects
      /\ Wraps("shapeInfo") = "TensorTypeAndShapeInfo"
      /\ k.gives \in HandleClasses /\ k.gives \in BaseClasses /\ k.gives # "free"
  BY ClientAssumption
  DEF ClientAssumption, Automatic, Wraps, HandleClasses, BaseClasses
<1>2. /\ g \in Solid /\ g \in Live /\ g \in Handles
      /\ kind["shapeInfo"] = "gone" /\ parts \subseteq Live
      /\ ptr["shapeInfo"] = Null
  BY <1>1, SolidIs DEF StockInv, TypeOK
<1>3. PICK h \in Handles :
        /\ ptr' = [ptr EXCEPT !["shapeInfo"] = h]
        /\ \/ h \in parts /\ UNCHANGED heap
           \/ /\ h \notin Live /\ parts' = parts \cup {h}
              /\ class' = [class EXCEPT ![h] = k.gives]
              /\ uses' = [uses EXCEPT ![h] = g]
  <2>1. CASE {h \in PartsOf(g) : class[h] = k.gives} # {}
    BY <2>1 DEF PartsOf, TypeOK
  <2>2. CASE ~({h \in PartsOf(g) : class[h] = k.gives} # {})
    BY <2>2, FreshIsFree
  <2> QED BY <2>1, <2>2
<1>4. /\ Live' = Live \cup {h} /\ Solid' = Solid /\ parts' = parts \cup {h}
      /\ \A x \in Live : class'[x] = class[x] /\ uses'[x] = uses[x]
      /\ class'[h] = "TensorTypeAndShapeInfo" /\ uses'[h] = g
      /\ class' \in [Handles -> HandleClasses \cup {"free"}]
      /\ uses' \in [Handles -> Handles \cup {Null}]
  <2>1. CASE h \in parts /\ UNCHANGED heap
    <3>1. Live' = Live /\ Solid' = Solid
      BY <2>1 DEF heap, Live, Free, Solid
    <3> QED BY <1>2, <2>1, <3>1 DEF heap, UseInv, TypeOK
  <2>2. CASE /\ h \notin Live /\ parts' = parts \cup {h}
             /\ class' = [class EXCEPT ![h] = k.gives]
             /\ uses' = [uses EXCEPT ![h] = g]
    <3>1. Live' = Live \cup {h}
      BY <1>1, <1>3, <2>2 DEF Live, Free, TypeOK
    <3>2. Solid' = Solid
      BY <2>2, <3>1 DEF Solid
    <3> QED BY <1>1, <1>2, <2>2, <3>1, <3>2, SolidIs DEF TypeOK
  <2> QED BY <1>3, <2>1, <2>2
<1>5. /\ kind' = [kind EXCEPT !["shapeInfo"] = "unowned"]
      /\ type' = [type EXCEPT !["shapeInfo"] = Wraps("shapeInfo")]
      /\ UNCHANGED <<bare, stage, making, array, buffer, status, before>>
      /\ Kept' = Kept
  BY <1>1 DEF Kept
<1>6. \A q \in Objects \ {"shapeInfo"} : /\ kind'[q] = kind[q] /\ ptr'[q] = ptr[q]
                                         /\ type'[q] = type[q]
  BY <1>3, <1>5 DEF TypeOK
<1>7. kind'["shapeInfo"] = "unowned" /\ ptr'["shapeInfo"] = h
        /\ type'["shapeInfo"] = Wraps("shapeInfo")
  BY <1>1, <1>3, <1>5 DEF TypeOK
<1>8. \A q \in Objects : Holds(q)' <=> Holds(q)
  BY <1>2, <1>6, <1>7 DEF Holds
<1>9. \A q \in Objects : Holds(q) => ptr'[q] = ptr[q] /\ ptr[q] \in Live
  BY <1>2, <1>6, SolidIs DEF Holds, StockInv
<1>10. TypeOK'
  BY <1>1, <1>2, <1>3, <1>4, <1>5 DEF TypeOK
<1>11. WrapInv'
  BY <1>1, <1>2, <1>5, <1>6, <1>7, ClientAssumption
  DEF WrapInv, ClientAssumption, Members, Automatic
<1>12. StockInv'
  <2>1. \A x \in Kept : x \in Solid
    BY DEF StockInv
  <2> QED BY <1>2, <1>4, <1>5, <1>8, <1>9, <2>1, SolidIs DEF StockInv
<1>13. UseInv'
  <2>1. \A x \in parts' : class'[x] = "TensorTypeAndShapeInfo" /\ uses'[x] = g
    BY <1>2, <1>4 DEF UseInv
  <2>2. Holds("typeInfo")' /\ ptr'["typeInfo"] = g
    BY <1>1, <1>8, <1>9
  <2>3. \A x \in bare : class'[x] = class[x] /\ uses'[x] = uses[x]
    BY <1>4, SolidIs DEF Kept, StockInv
  <2>4. status # Null => uses'[status] = uses[status]
    BY <1>4, SolidIs DEF StockInv
  <2> QED BY <1>4, <1>5, <1>7, <1>8, <1>9, <2>1, <2>2, <2>3, <2>4 DEF UseInv
<1>14. LeftInv'
  BY <1>4, SolidIs DEF LeftInv, StockInv, Kept
<1>15. FreeInv'
  BY <1>1, <1>3 DEF FreeInv, heap, TypeOK
<1> QED BY <1>10, <1>11, <1>12, <1>13, <1>14, <1>15

\* A name is memory that the client has to free.
LEMMA NameObjects ==
  ASSUME ObjectInv, NEW k, NEW g, TakeBare(k, g), k.gives = "Memory", UNCHANGED leaked
  PROVE  /\ ObjectInv'
         /\ \E h : h \notin bare /\ bare' = bare \cup {h}
<1> USE DEF TakeBare, objects, progress, Idle, ObjectInv
<1>1. PICK h \in Fresh(1) : Allocate(h, "Memory", Null) /\ bare' = bare \cup {h}
  OBVIOUS
<1>2. h \in Handles \ Live /\ h # Null /\ h \in Handles /\ parts \subseteq Live
        /\ "Memory" \in HandleClasses
  BY <1>1, FreshIsFree, SolidIs DEF StockInv, HandleClasses
<1>3. /\ class' \in [Handles -> HandleClasses \cup {"free"}]
      /\ uses' \in [Handles -> Handles \cup {Null}]
      /\ parts' = parts
      /\ Live' = Live \cup {h} /\ Solid' = Solid \cup {h} /\ h \notin Solid
      /\ class'[h] = "Memory"
      /\ \A x \in Live : class'[x] = class[x] /\ uses'[x] = uses[x]
  BY <1>1, <1>2, AllocateHeap
<1>4. uses'[h] = Null
  BY <1>1, <1>2 DEF Allocate, TypeOK
<1>5. Kept' = Kept \cup {h} /\ \A o \in Objects : Holds(o)' <=> Holds(o)
  BY <1>1 DEF Kept, Holds
<1>6. TypeOK'
  BY <1>1, <1>2, <1>3 DEF TypeOK
<1>7. WrapInv'
  BY DEF WrapInv
<1>8. StockInv'
  BY <1>2, <1>3, <1>5, SolidIs DEF StockInv
<1>9. UseInv'
  <2>1. \A x \in parts : class'[x] = class[x] /\ uses'[x] = uses[x]
    BY <1>2, <1>3
  <2>2. \A x \in bare : class'[x] = class[x] /\ uses'[x] = uses[x]
    BY <1>3, SolidIs DEF Kept, StockInv
  <2>3. \A o \in Objects : Holds(o) => uses'[ptr[o]] = uses[ptr[o]]
    BY <1>3, SolidIs DEF StockInv
  <2>4. Holds("typeInfo")' <=> Holds("typeInfo")
    BY <1>5, ClientAssumption DEF ClientAssumption, Automatic
  <2>5. status # Null => uses'[status] = uses[status]
    BY <1>3, SolidIs DEF StockInv
  <2> QED BY <1>1, <1>3, <1>4, <1>5, <2>1, <2>2, <2>3, <2>4, <2>5 DEF UseInv
<1>10. LeftInv'
  BY <1>3, SolidIs DEF LeftInv, StockInv, Kept
<1>11. h \notin bare
  BY <1>3 DEF StockInv, Kept
<1>12. FreeInv'
  BY <1>1, <1>2, FreeStays
<1> QED BY <1>1, <1>6, <1>7, <1>8, <1>9, <1>10, <1>11, <1>12

\* A run that returns has made its output.
LEMMA RunReturnsObjects ==
  ASSUME ObjectInv, RunReturns, UNCHANGED leaked
  PROVE  ObjectInv'
<1> USE DEF RunReturns, Complete, ObjectInv
<1>1. /\ making = {"output"} /\ ptr["output"] = Null /\ kind["output"] = "building"
      /\ "output" \in Objects /\ Wraps("output") = "Value" /\ status = Null
  BY ClientAssumption DEF WrapInv, ClientAssumption, Automatic, Wraps
<1>2. PICK h \in Handles \ Live :
        /\ class' = [x \in Handles |-> IF x = h THEN "Value" ELSE class[x]]
        /\ ptr' = [o \in Objects |-> IF o = "output" THEN h ELSE ptr[o]]
  <2>1. PICK f \in [making -> Fresh(Cardinality(making))] :
          /\ class' = [x \in Handles |-> IF \E o \in making : f[o] = x
                                         THEN "Value" ELSE class[x]]
          /\ ptr' = [o \in Objects |-> IF o \in making THEN f[o] ELSE ptr[o]]
    OBVIOUS
  <2>2. f["output"] \in Handles \ Live
    BY <1>1, <2>1, FreshIsFree
  <2>3. class' = [x \in Handles |-> IF x = f["output"] THEN "Value" ELSE class[x]]
    BY <1>1, <2>1
  <2>4. ptr' = [o \in Objects |-> IF o = "output" THEN f["output"] ELSE ptr[o]]
    BY <1>1, <2>1
  <2> QED BY <2>2, <2>3, <2>4
<1>3. h \in Handles /\ h \notin Live /\ h # Null /\ parts \subseteq Live /\ h \notin Solid
  BY SolidIs DEF StockInv
<1>4. Live' = Live \cup {h}
  BY <1>2, <1>3 DEF Live, Free, TypeOK
<1>5. Solid' = Solid \cup {h}
  BY <1>3, <1>4 DEF Solid
<1>6. class'[h] = "Value" /\ uses' = uses /\ \A x \in Live : class'[x] = class[x]
  BY <1>2, <1>3, SolidIs
<1>7. /\ ptr'["output"] = h /\ kind'["output"] = "owner"
      /\ \A q \in Objects \ {"output"} : ptr'[q] = ptr[q] /\ kind'[q] = kind[q]
  BY <1>1, <1>2
<1>8. /\ Holds("output")' /\ ~Holds("output")
      /\ \A q \in Objects \ {"output"} : Holds(q)' <=> Holds(q)
  BY <1>1, <1>3, <1>7 DEF Holds
<1>9. Kept' = Kept /\ status' = Null /\ parts' = parts /\ type' = type
  BY <1>1 DEF Kept
<1>10. TypeOK'
  BY <1>1, <1>2, <1>3, <1>9 DEF TypeOK, Stages, HandleClasses, BaseClasses
<1>11. WrapInv'
  BY <1>1, <1>3, <1>7, <1>9 DEF WrapInv, TypeOK
<1>12. StockInv'
  BY <1>1, <1>3, <1>4, <1>5, <1>6, <1>7, <1>8, <1>9, SolidIs DEF StockInv
<1>13. uses[h] = Null
  BY <1>3, LiveIs DEF FreeInv
<1>14. UseInv'
  <2>1. \A x \in parts : /\ class'[x] = "TensorTypeAndShapeInfo"
                         /\ Holds("typeInfo")' /\ uses'[x] = ptr'["typeInfo"]
    <3>1. "typeInfo" \in Objects \ {"output"}
      BY ClientAssumption DEF ClientAssumption, Automatic
    <3>2. ASSUME NEW x \in parts
          PROVE  /\ class'[x] = class[x] /\ uses'[x] = uses[x]
                 /\ class[x] = "TensorTypeAndShapeInfo"
                 /\ Holds("typeInfo") /\ uses[x] = ptr["typeInfo"]
      BY <1>3, <1>6 DEF UseInv
    <3>3. ptr'["typeInfo"] = ptr["typeInfo"] /\ (Holds("typeInfo")' <=> Holds("typeInfo"))
      BY <1>7, <1>8, <3>1
    <3> QED BY <3>2, <3>3
  <2>2. kind'["shapeInfo"] = "unowned" => ptr'["shapeInfo"] \in parts
    BY <1>7, ClientAssumption DEF UseInv, ClientAssumption, Automatic
  <2>3. ASSUME NEW q \in Objects, Holds(q)', uses'[ptr'[q]] # Null
        PROVE  \E m \in Objects : WorksOn(q, m) /\ Holds(m)' /\ uses'[ptr'[q]] = ptr'[m]
    <3>1. q # "output"
      BY <1>6, <1>7, <1>13, <2>3
    <3>2. Holds(q) /\ ptr'[q] = ptr[q]
      BY <1>7, <1>8, <2>3, <3>1
    <3>3. PICK m \in Objects : WorksOn(q, m) /\ Holds(m) /\ uses[ptr[q]] = ptr[m]
      BY <1>6, <2>3, <3>2 DEF UseInv
    <3>4. m # "output"
      BY <1>8, <3>3
    <3> QED BY <1>6, <1>7, <1>8, <3>2, <3>3, <3>4
  <2>4. \A x \in bare : class'[x] = "Memory" /\ uses'[x] = Null
    BY <1>6, SolidIs DEF UseInv, StockInv, Kept
  <2> QED BY <1>1, <1>9, <2>1, <2>2, <2>3, <2>4 DEF UseInv
<1>15. LeftInv'
  BY <1>6, SolidIs DEF LeftInv, StockInv, Kept
<1>16. FreeInv'
  BY <1>2, <1>6 DEF FreeInv
<1> QED BY <1>10, <1>11, <1>12, <1>14, <1>15, <1>16

\* A step that neither makes nor releases a C object, nor passes one on.
LEMMA QuietObjects ==
  ASSUME ObjectInv, UNCHANGED <<heap, bare, status, leaked>>,
         \A o \in Objects : (Holds(o)' <=> Holds(o)) /\ (Holds(o) => ptr'[o] = ptr[o]),
         kind'["shapeInfo"] = "unowned" =>
           kind["shapeInfo"] = "unowned" /\ ptr'["shapeInfo"] = ptr["shapeInfo"]
  PROVE  StockInv' /\ UseInv' /\ FreeInv' /\ LeftInv'
<1> USE DEF ObjectInv, heap
<1>1. Live' = Live /\ Solid' = Solid /\ Kept' = Kept
  BY DEF Live, Free, Solid, Kept
<1>2. StockInv'
  BY <1>1 DEF StockInv
<1>3. UseInv'
  <2>1. "typeInfo" \in Objects
    BY ClientAssumption DEF ClientAssumption, Automatic
  <2>2. ASSUME NEW q \in Objects, Holds(q)', uses'[ptr'[q]] # Null
        PROVE  \E m \in Objects : WorksOn(q, m) /\ Holds(m)' /\ uses'[ptr'[q]] = ptr'[m]
    <3>1. Holds(q) /\ ptr'[q] = ptr[q]
      BY <2>2
    <3>2. PICK m \in Objects : WorksOn(q, m) /\ Holds(m) /\ uses[ptr[q]] = ptr[m]
      BY <2>2, <3>1 DEF UseInv
    <3> QED BY <3>1, <3>2
  <2>3. \A h \in parts : Holds("typeInfo")' /\ uses[h] = ptr'["typeInfo"]
    BY <2>1 DEF UseInv
  <2> QED BY <2>2, <2>3 DEF UseInv
<1>4. FreeInv' /\ LeftInv'
  BY DEF FreeInv, LeftInv
<1> QED BY <1>2, <1>3, <1>4

\* The constructor of Env makes its second call.
LEMMA ProjectionObjects ==
  ASSUME ObjectInv, SetLanguageProjection, UNCHANGED leaked
  PROVE  ObjectInv'
<1> USE DEF SetLanguageProjection, Complete, ObjectInv
<1>1. making = {"env"} /\ "env" \in Objects /\ kind["env"] = "building" /\ ptr["env"] # Null
  BY ClientAssumption DEF WrapInv, ClientAssumption, Members
<1>2. /\ kind' = [o \in Objects |-> IF o = "env" THEN "owner" ELSE kind[o]]
      /\ UNCHANGED <<heap, ptr, type, bare, status, leaked, array, buffer>>
  BY <1>1
<1>3. \A o \in Objects : (Holds(o)' <=> Holds(o)) /\ (Holds(o) => ptr'[o] = ptr[o])
  BY <1>1, <1>2 DEF Holds
<1>4. kind'["shapeInfo"] = "unowned" =>
        kind["shapeInfo"] = "unowned" /\ ptr'["shapeInfo"] = ptr["shapeInfo"]
  BY <1>2, ClientAssumption DEF ClientAssumption, Automatic
<1>5. StockInv' /\ UseInv' /\ FreeInv' /\ LeftInv'
  BY <1>2, <1>3, <1>4, QuietObjects
<1>6. TypeOK'
  BY <1>1, <1>2 DEF TypeOK, Stages, heap
<1>7. WrapInv'
  BY <1>1, <1>2 DEF WrapInv
<1> QED BY <1>5, <1>6, <1>7

\* The output of a run is made empty.
LEMMA RunObjects ==
  ASSUME ObjectInv, NEW g, Run(g, {"output"}), UNCHANGED leaked
  PROVE  ObjectInv'
<1> USE DEF Run, Idle, ObjectInv
<1>1. /\ "output" \in Objects /\ kind["output"] = "gone" /\ ptr["output"] = Null
      /\ Wraps("output") = "Value" /\ making = {}
  BY ClientAssumption DEF WrapInv, TypeOK, ClientAssumption, Automatic, Wraps
<1>2. /\ kind' = [o \in Objects |-> IF o = "output" THEN "building" ELSE kind[o]]
      /\ type' = [o \in Objects |-> IF o = "output" THEN "Value" ELSE type[o]]
      /\ UNCHANGED <<heap, ptr, bare, status, leaked, array, buffer>>
      /\ making' = {"output"} /\ stage' = "running" /\ before' = Live
  OBVIOUS
<1>3. \A o \in Objects : (Holds(o)' <=> Holds(o)) /\ (Holds(o) => ptr'[o] = ptr[o])
  BY <1>1, <1>2 DEF Holds
<1>4. kind'["shapeInfo"] = "unowned" =>
        kind["shapeInfo"] = "unowned" /\ ptr'["shapeInfo"] = ptr["shapeInfo"]
  BY <1>2, ClientAssumption DEF ClientAssumption, Automatic
<1>5. StockInv' /\ UseInv' /\ FreeInv' /\ LeftInv'
  BY <1>2, <1>3, <1>4, QuietObjects
<1>6. TypeOK'
  BY <1>1, <1>2, LiveIs DEF TypeOK, Stages, heap, BaseClasses
<1>7. WrapInv'
  BY <1>1, <1>2 DEF WrapInv
<1> QED BY <1>5, <1>6, <1>7

\* The wrapper of a part goes; the part stays.
LEMMA DestroyUnownedObjects ==
  ASSUME ObjectInv, NEW o \in Objects, kind[o] = "unowned", UNCHANGED heap, Gone(o),
         UNCHANGED leaked
  PROVE  ObjectInv'
<1> USE DEF Gone, progress, ObjectInv
<1>1. \A q \in Objects : (Holds(q)' <=> Holds(q)) /\ (Holds(q) => ptr'[q] = ptr[q])
  BY DEF Holds, TypeOK
<1>2. kind'["shapeInfo"] # "unowned"
  BY ClientAssumption DEF WrapInv, TypeOK, ClientAssumption, Automatic
<1>3. StockInv' /\ UseInv' /\ FreeInv' /\ LeftInv'
  BY <1>1, <1>2, QuietObjects
<1>4. TypeOK'
  BY DEF TypeOK, heap
<1>5. WrapInv'
  BY DEF WrapInv, TypeOK
<1> QED BY <1>3, <1>4, <1>5

\* A step that only moves a call, or the client, along.
LEMMA StageObjects ==
  ASSUME ObjectInv, UNCHANGED <<heap, objects, bare, making, array, buffer, status, leaked>>,
         before' \subseteq Handles,
         \/ stage' = stage
         \/ making = {} /\ status = Null /\ stage' \in {"idle", "unwinding", "thrown"}
  PROVE  ObjectInv'
<1> USE DEF ObjectInv, objects
<1>1. \A q \in Objects : (Holds(q)' <=> Holds(q)) /\ (Holds(q) => ptr'[q] = ptr[q])
  BY DEF Holds
<1>2. StockInv' /\ UseInv' /\ FreeInv' /\ LeftInv'
  BY <1>1, QuietObjects
<1>3. TypeOK'
  BY DEF TypeOK, heap, Stages
<1>4. WrapInv'
  BY DEF WrapInv
<1> QED BY <1>2, <1>3, <1>4

\* A controller that goes leaves what it points to.
LEMMA DropControllerObjects ==
  ASSUME ObjectInv, DropController,
         \A o \in Objects : kind[o] # "gone" => o \in {"env", "policy", "encoder"}
  PROVE  ObjectInv'
<1> DEFINE L == {ptr[o] : o \in {m \in Members : ptr[m] # Null}}
<1> USE DEF DropController, ObjectInv
<1>1. making = {} /\ array = {} /\ buffer = Null /\ status = Null
  BY DEF WrapInv
<1>2. leaked' = leaked \cup bare \cup L /\ bare' = {} /\ heap' = heap
  OBVIOUS
<1>3. \A h : h \in L <=> \E o \in Objects : Holds(o) /\ ptr[o] = h
  <2>1. ASSUME NEW o \in Members, ptr[o] # Null
        PROVE  o \in Objects /\ Holds(o)
    BY <2>1, <1>1, ClientAssumption
    DEF ClientAssumption, Members, Holds, TypeOK, WrapInv
  <2>2. ASSUME NEW o \in Objects, Holds(o)
        PROVE  o \in Members /\ ptr[o] # Null
    BY <2>2 DEF Holds, Members
  <2> QED BY <2>1, <2>2
<1> HIDE DEF L
<1>4. Live' = Live /\ Solid' = Solid /\ class' = class /\ uses' = uses /\ parts' = parts
  BY DEF heap, Live, Free, Solid
<1>5. \A o \in Objects : ~Holds(o)' /\ kind'[o] = "gone"
  BY DEF Holds
<1>6. "typeInfo" \in Objects /\ "shapeInfo" \in Objects
  BY ClientAssumption DEF ClientAssumption, Automatic
<1>7. parts = {}
  BY <1>6 DEF UseInv, Holds
<1>8. TypeOK'
  <2>1. L \subseteq Handles
    BY <1>3, SolidIs DEF StockInv
  <2> QED BY <1>1, <1>2, <1>4, <2>1 DEF TypeOK, Stages
<1>9. WrapInv'
  BY <1>1, <1>5 DEF WrapInv
<1>10. StockInv'
  <2>1. Kept' = leaked \cup bare \cup L
    BY <1>2 DEF Kept
  <2>2. \A h \in Solid : h \in leaked \cup bare \cup L
    BY <1>1, <1>3, SolidIs DEF StockInv, Kept
  <2>3. \A h \in leaked \cup bare \cup L : h \in Solid
    BY <1>3 DEF StockInv, Kept
  <2>4. status' = Null /\ Null \notin Solid
    BY <1>1, SolidIs
  <2> QED BY <1>4, <1>5, <1>7, <2>1, <2>2, <2>3, <2>4 DEF StockInv
<1>11. UseInv' /\ FreeInv'
  BY <1>1, <1>2, <1>4, <1>5, <1>6, <1>7 DEF UseInv, FreeInv
<1>12. LeftInv'
  <2>1. ASSUME NEW h \in L
        PROVE  /\ class[h] \in {"Env", "Session"}
               /\ uses[h] # Null => /\ class[h] = "Session" /\ uses[h] \in L
                                    /\ class[uses[h]] = "Env"
    <3>1. PICK o \in Objects : Holds(o) /\ ptr[o] = h
      BY <1>3
    <3>2. o \in {"env", "policy", "encoder"} /\ class[h] = Wraps(o)
      BY <3>1 DEF StockInv, Holds
    <3>3. class[h] = IF o = "env" THEN "Env" ELSE "Session"
      BY <3>2 DEF Wraps
    <3>4. ASSUME uses[h] # Null
          PROVE  class[h] = "Session" /\ uses[h] \in L /\ class[uses[h]] = "Env"
      <4>1. PICK m \in Objects : WorksOn(o, m) /\ Holds(m) /\ uses[h] = ptr[m]
        BY <3>1, <3>4 DEF UseInv
      <4>2. m = "env" /\ o # "env"
        BY <3>2, <4>1 DEF WorksOn
      <4>3. class[ptr[m]] = "Env"
        BY <4>1, <4>2 DEF StockInv, Wraps
      <4> QED BY <1>3, <3>3, <4>1, <4>2, <4>3
    <3> QED BY <3>3, <3>4
  <2>2. \A h \in bare : class[h] = "Memory" /\ uses[h] = Null
    BY DEF UseInv
  <2>3. \A h \in leaked : /\ class[h] \in {"Env", "Session", "Memory"}
                          /\ uses[h] # Null => /\ class[h] = "Session" /\ uses[h] \in leaked
                                               /\ class[uses[h]] = "Env"
    BY DEF LeftInv
  <2> QED BY <1>2, <1>4, <2>1, <2>2, <2>3 DEF LeftInv
<1> QED BY <1>8, <1>9, <1>10, <1>11, <1>12

-----------------------------------------------------------------------------
(* The routines, step by step.                                             *)

\* When a step is due, what the script says is there.
LEMMA DueFits ==
  ASSUME ClientInv, Due
  PROVE  /\ routine \in DOMAIN Lengths /\ at \in 1 .. Lengths[routine]
         /\ Fits(routine, at, Now)
         /\ stage = "idle" /\ making = {} /\ status = Null
         /\ \A o \in Objects : kind[o] # "gone" <=> o \in Present(routine, at)
         /\ IsFiniteSet(bare) /\ Cardinality(bare) = Names(routine, at)
<1>1. routine \in DOMAIN Lengths
  BY DEF Due, ClientInv, ClientTypeOK, Lengths
<1>2. at \in Nat /\ at >= 1
  BY <1>1 DEF ClientInv, ClientTypeOK
<1>3. at \in 1 .. Lengths[routine]
  <2>1. Lengths[routine] \in Nat
    BY <1>1 DEF Lengths
  <2>2. at <= Lengths[routine]
    BY <1>1, ScriptFits DEF Due
  <2> QED BY <1>2, <2>1, <2>2
<1>4. Fits(routine, at, Now)
  BY <1>1, <1>3, ScriptFits DEF Now
<1>5. stage = "idle" /\ making = {} /\ status = Null /\ routine # "none"
  BY DEF Due, Idle, ClientInv, ObjectInv, WrapInv
<1>6. /\ \A o \in Objects : kind[o] # "gone" <=> o \in Present(routine, at)
      /\ IsFiniteSet(bare) /\ Cardinality(bare) = Names(routine, at)
  BY <1>5 DEF ClientInv, ScriptInv
<1> QED BY <1>1, <1>3, <1>4, <1>5, <1>6

\* What is there wraps a living C object of its class.
LEMMA PresentIs ==
  ASSUME ClientInv, NEW o \in Objects, kind[o] # "gone", making = {}
  PROVE  /\ type[o] = Wraps(o) /\ ptr[o] \in Live /\ class[ptr[o]] = Wraps(o)
         /\ kind[o] = (IF o = "shapeInfo" THEN "unowned" ELSE "owner")
         /\ o # "shapeInfo" => Holds(o)
<1> USE DEF ClientInv, ObjectInv
<1>1. kind[o] \in {"owner", "unowned"} /\ type[o] = Wraps(o)
  BY DEF TypeOK, WrapInv
<1>2. CASE kind[o] = "owner"
  <2>1. Holds(o) /\ o # "shapeInfo"
    BY <1>2 DEF WrapInv, Holds
  <2> QED BY <1>1, <1>2, <2>1, SolidIs DEF StockInv
<1>3. CASE kind[o] = "unowned"
  <2>1. o = "shapeInfo" /\ ptr[o] \in parts
    BY <1>3 DEF WrapInv, UseInv
  <2> QED BY <1>1, <1>3, <2>1 DEF StockInv, UseInv, Wraps
<1> QED BY <1>1, <1>2, <1>3

\* A step is over.
LEMMA StepForward ==
  ASSUME ClientInv, routine \in DOMAIN Lengths, at \in 1 .. Lengths[routine],
         at' = at + 1, UNCHANGED <<phase, routine, loads, leaked>>, ObjectInv',
         stage' = "idle", making' = {},
         \A o \in Objects : kind'[o] # "gone" <=> o \in Present(routine, at + 1),
         IsFiniteSet(bare'), Cardinality(bare') = Names(routine, at + 1)
  PROVE  ClientInv'
<1>1. ClientTypeOK'
  BY LoadModelIs DEF ClientInv, ClientTypeOK, ObjectInv, Lengths
<1>2. CountInv'
  BY DEF ClientInv, CountInv, FailedLoads
<1>3. routine # "none" /\ phase \notin {"unloaded", "ready"}
  BY DEF ClientInv, ClientTypeOK, Lengths
<1>4. Members \subseteq Objects
  BY ClientAssumption DEF ClientAssumption
<1>5. ScriptInv'
  BY <1>3, <1>4 DEF ScriptInv, Lengths
<1> QED BY <1>1, <1>2, <1>5 DEF ClientInv

\* A step goes on, or has failed.
LEMMA StepStays ==
  ASSUME ClientInv, routine # "none", UNCHANGED client, ObjectInv', UNCHANGED bare,
         \A o \in making' : o \in Constructs(routine, at) \ Present(routine, at),
         stage' # "thrown" =>
           \A o \in Objects : kind'[o] # "gone" <=> o \in Present(routine, at) \cup making',
         \A o \in Objects : kind'[o] # "gone" => o \in Present(routine, at) \cup making',
         \A m \in Members : m \in Present(routine, at) => kind'[m] # "gone"
  PROVE  ClientInv'
<1> USE DEF client
<1>1. ClientTypeOK'
  BY DEF ClientInv, ClientTypeOK, ObjectInv
<1>2. CountInv'
  BY DEF ClientInv, CountInv, FailedLoads
<1>3. phase \notin {"unloaded", "ready"}
  BY DEF ClientInv, ClientTypeOK
<1>4. ScriptInv'
  BY <1>3 DEF ClientInv, ScriptInv
<1> QED BY <1>1, <1>2, <1>4 DEF ClientInv

\* Something new: an object, or the object that a constructor of two calls makes.
LEMMA NewStep ==
  ASSUME ClientInv, Due, Now.act = "new", MakeOwner(CallOf(Now), Target, Now.obj),
         Advance, UNCHANGED <<phase, routine, loads, leaked>>
  PROVE  ClientInv'
<1> DEFINE o == Now.obj  s == Now  k == CallOf(Now)
<1>1. /\ routine \in DOMAIN Lengths /\ at \in 1 .. Lengths[routine]
      /\ Fits(routine, at, s)
      /\ stage = "idle" /\ making = {} /\ status = Null
      /\ \A q \in Objects : kind[q] # "gone" <=> q \in Present(routine, at)
      /\ IsFiniteSet(bare) /\ Cardinality(bare) = Names(routine, at)
  BY DueFits
<1>2. /\ o \in Objects \ Present(routine, at)
      /\ Present(routine, at + 1) = Present(routine, at) \cup {o}
      /\ s.gives = Wraps(o) /\ o \notin {"shapeInfo", "history", "output"}
      /\ s.on # "none" /\ <<Wraps(s.on), s.gives>> \in Keeping => WorksOn(o, s.on)
      /\ o = "env" => Constructs(routine, at) = {"env"}
      /\ s.on = "none" \/ s.on \in Present(routine, at)
      /\ Names(routine, at + 1) = Names(routine, at)
  BY <1>1 DEF Fits
<1>3. Present(routine, at) \subseteq Objects
  BY DEF Present, LoadPresent, InferPresent
<1>4. /\ k.gives = Wraps(o)
      /\ k.keeps <=> <<ClassOf(s.on), s.gives>> \in Keeping
  BY <1>2 DEF CallOf, Call, Keeping
<1>5. Target \in Handles \cup {Null}
  BY <1>2, <1>3 DEF Target, ClientInv, ObjectInv, TypeOK
<1>6. ASSUME k.keeps, Target # Null
      PROVE  \E m \in Objects : WorksOn(o, m) /\ Holds(m) /\ Target = ptr[m]
  <2>1. s.on # "none" /\ s.on \in Objects /\ kind[s.on] # "gone"
    BY <1>1, <1>2, <1>3, <1>6 DEF Target
  <2>2. ClassOf(s.on) = Wraps(s.on) /\ Target = ptr[s.on]
    BY <1>1, <2>1, PresentIs DEF ClassOf, Target
  <2>3. WorksOn(o, s.on)
    BY <1>2, <1>4, <1>6, <2>1, <2>2
  <2>4. s.on # "shapeInfo"
    BY <2>3 DEF WorksOn
  <2>5. Holds(s.on)
    BY <1>1, <2>1, <2>4, PresentIs
  <2> QED BY <2>1, <2>2, <2>3, <2>5
<1>7. ObjectInv'
  <2>1. ObjectInv /\ o \in Objects /\ o # "shapeInfo" /\ UNCHANGED leaked
    BY <1>2 DEF ClientInv
  <2> HIDE DEF k, o
  <2>2. MakeOwner(k, Target, o)
    BY DEF k, o
  <2> QED BY <1>4, <1>5, <1>6, <2>1, <2>2, MakeOwnerObjects
<1>8. (k.gives = "Env" <=> o = "env")
  BY <1>2, <1>4, WrapsIs
<1>9. /\ bare' = bare
      /\ kind' = [kind EXCEPT ![o] = IF o = "env" THEN "building" ELSE "owner"]
      /\ IF o = "env" THEN stage' = "projecting" /\ making' = {o}
                      ELSE stage' = stage /\ making' = making
  BY <1>8 DEF MakeOwner, progress
<1>10. \A q \in Objects : kind'[q] # "gone" <=> q \in Present(routine, at) \cup {o}
  BY <1>1, <1>2, <1>9 DEF ClientInv, ObjectInv, TypeOK
<1> HIDE DEF o, s, k
<1>11. CASE o = "env"
  <2>1. at' = at /\ making' = {"env"} /\ stage' = "projecting"
    BY <1>9, <1>11 DEF Advance
  <2>2. Members \subseteq Objects
    BY ClientAssumption DEF ClientAssumption
  <2>3. routine # "none" /\ UNCHANGED client
    BY <1>1, <2>1 DEF Lengths, client
  <2> QED BY <1>2, <1>7, <1>9, <1>10, <1>11, <2>1, <2>2, <2>3, StepStays
<1>12. CASE o # "env"
  <2>1. at' = at + 1 /\ making' = {} /\ stage' = "idle"
    BY <1>1, <1>9, <1>12 DEF Advance
  <2> QED BY <1>1, <1>2, <1>7, <1>9, <1>10, <2>1, StepForward
<1> QED BY <1>11, <1>12

\* The shape of a session's input.
LEMMA PartStep ==
  ASSUME ClientInv, Due, Now.act = "part", Borrow(CallOf(Now), Target, Now.obj),
         Advance, UNCHANGED <<phase, routine, loads, leaked>>
  PROVE  ClientInv'
<1> DEFINE k == CallOf(Now)
<1>1. /\ routine \in DOMAIN Lengths /\ at \in 1 .. Lengths[routine]
      /\ Fits(routine, at, Now)
      /\ stage = "idle" /\ making = {} /\ status = Null
      /\ \A q \in Objects : kind[q] # "gone" <=> q \in Present(routine, at)
      /\ IsFiniteSet(bare) /\ Cardinality(bare) = Names(routine, at)
  BY DueFits
<1>2. /\ Now.obj = "shapeInfo" /\ Now.on = "typeInfo" /\ "shapeInfo" \in Objects
      /\ "typeInfo" \in Present(routine, at) /\ Now.gives = Wraps("shapeInfo")
      /\ Present(routine, at + 1) = Present(routine, at) \cup {"shapeInfo"}
      /\ Names(routine, at + 1) = Names(routine, at)
  BY <1>1 DEF Fits
<1>3. k.gives = "TensorTypeAndShapeInfo" /\ Target = ptr["typeInfo"]
  BY <1>2 DEF CallOf, Call, Target, Wraps
<1>4. Holds("typeInfo")
  BY <1>1, <1>2, PresentIs, ClientAssumption DEF ClientAssumption, Automatic
<1>5. Borrow(k, ptr["typeInfo"], "shapeInfo") /\ ObjectInv /\ UNCHANGED leaked
  BY <1>2, <1>3 DEF ClientInv
<1> HIDE DEF k
<1>6. ObjectInv'
  BY <1>3, <1>4, <1>5, BorrowObjects
<1>7. /\ kind' = [kind EXCEPT !["shapeInfo"] = "unowned"]
      /\ UNCHANGED <<bare, progress>>
  BY <1>5 DEF Borrow
<1>8. \A q \in Objects : kind'[q] # "gone" <=> q \in Present(routine, at) \cup {"shapeInfo"}
  BY <1>1, <1>2, <1>7 DEF ClientInv, ObjectInv, TypeOK
<1>9. at' = at + 1 /\ making' = {} /\ stage' = "idle"
  BY <1>1, <1>7 DEF Advance, progress
<1> QED BY <1>1, <1>2, <1>6, <1>7, <1>8, <1>9, StepForward

\* The name of an input or output.
LEMMA NameStep ==
  ASSUME ClientInv, Due, Now.act = "name", TakeBare(CallOf(Now), Target),
         Advance, UNCHANGED <<phase, routine, loads, leaked>>
  PROVE  ClientInv'
<1> DEFINE k == CallOf(Now)
<1>1. /\ routine \in DOMAIN Lengths /\ at \in 1 .. Lengths[routine]
      /\ Fits(routine, at, Now)
      /\ stage = "idle" /\ making = {} /\ status = Null
      /\ \A q \in Objects : kind[q] # "gone" <=> q \in Present(routine, at)
      /\ IsFiniteSet(bare) /\ Cardinality(bare) = Names(routine, at)
  BY DueFits
<1>2. /\ Now.gives = "Memory" /\ Names(routine, at + 1) = Names(routine, at) + 1
      /\ Present(routine, at + 1) = Present(routine, at)
  BY <1>1 DEF Fits
<1>3. k.gives = "Memory"
  BY <1>2 DEF CallOf, Call
<1>4. TakeBare(k, Target) /\ ObjectInv /\ UNCHANGED leaked
  BY DEF ClientInv
<1> HIDE DEF k
<1>5. ObjectInv' /\ \E h : h \notin bare /\ bare' = bare \cup {h}
  BY <1>3, <1>4, NameObjects
<1>6. IsFiniteSet(bare') /\ Cardinality(bare') = Cardinality(bare) + 1
  BY <1>1, <1>5, FS_AddElement
<1>7. UNCHANGED <<objects, progress>>
  BY <1>4 DEF TakeBare
<1>8. at' = at + 1 /\ making' = {} /\ stage' = "idle" /\ kind' = kind
  BY <1>1, <1>7 DEF Advance, progress, objects
<1> QED BY <1>1, <1>2, <1>5, <1>6, <1>8, StepForward

\* A run begins.
LEMMA BeginRunStep ==
  ASSUME ClientInv, Due, Now.act = "run", Run(Target, {Now.obj}),
         Advance, UNCHANGED <<phase, routine, loads, leaked>>
  PROVE  ClientInv'
<1>1. /\ routine \in DOMAIN Lengths /\ at \in 1 .. Lengths[routine]
      /\ Fits(routine, at, Now)
      /\ \A q \in Objects : kind[q] # "gone" <=> q \in Present(routine, at)
  BY DueFits
<1>2. /\ Now.obj = "output" /\ Constructs(routine, at) = {"output"}
      /\ "output" \in Objects \ Present(routine, at)
  BY <1>1 DEF Fits
<1>3. Run(Target, {"output"}) /\ ObjectInv /\ UNCHANGED leaked
  BY <1>2 DEF ClientInv
<1>4. ObjectInv'
  BY <1>3, RunObjects
<1>5. /\ stage' = "running" /\ making' = {"output"} /\ UNCHANGED bare
      /\ kind' = [o \in Objects |-> IF o \in {"output"} THEN "building" ELSE kind[o]]
  BY <1>3 DEF Run
<1>6. at' = at /\ UNCHANGED client /\ routine # "none"
  BY <1>1, <1>5 DEF Advance, client, Lengths
<1>7. /\ \A q \in Objects : kind'[q] # "gone" <=> q \in Present(routine, at) \cup making'
      /\ \A m \in Members : m \in Present(routine, at) => kind'[m] # "gone"
  BY <1>1, <1>2, <1>5, ClientAssumption DEF ClientAssumption
<1> QED BY <1>2, <1>4, <1>5, <1>6, <1>7, StepStays

\* The end of an automatic object.
LEMMA EndStep ==
  ASSUME ClientInv, Due, Now.act = "end", DropOwner(Now.obj) \/ DestroyUnowned(Now.obj),
         Advance, UNCHANGED <<phase, routine, loads, leaked>>
  PROVE  ClientInv'
<1> DEFINE o == Now.obj
<1>1. /\ routine \in DOMAIN Lengths /\ at \in 1 .. Lengths[routine]
      /\ Fits(routine, at, Now)
      /\ stage = "idle" /\ making = {} /\ status = Null
      /\ \A q \in Objects : kind[q] # "gone" <=> q \in Present(routine, at)
      /\ IsFiniteSet(bare) /\ Cardinality(bare) = Names(routine, at)
  BY DueFits
<1>2. /\ o \in Present(routine, at)
      /\ Present(routine, at + 1) = Present(routine, at) \ {o}
      /\ \A q \in Present(routine, at) : ~WorksOn(q, o)
      /\ Names(routine, at + 1) = Names(routine, at)
  BY <1>1 DEF Fits
<1>3. o \in Objects /\ ObjectInv /\ UNCHANGED leaked
        /\ \A q \in Objects : kind[q] # "gone" => ~WorksOn(q, o)
  BY <1>1, <1>2 DEF ClientInv, Present, LoadPresent, InferPresent
<1>4. DropOwner(o) \/ DestroyUnowned(o)
  OBVIOUS
<1> HIDE DEF o
<1>5. /\ kind' = [kind EXCEPT ![o] = "gone"]
      /\ type' = [type EXCEPT ![o] = "none"]
      /\ ptr' = [ptr EXCEPT ![o] = Null]
      /\ UNCHANGED <<bare, progress>>
      /\ DropOwner(o) => kind[o] = "owner" /\ Release({ptr[o]})
  BY <1>4 DEF DropOwner, DestroyUnowned, Gone
<1>6. ObjectInv'
  <2>1. CASE DropOwner(o)
    BY <1>3, <1>5, <2>1, DropObjects
  <2>2. CASE DestroyUnowned(o)
    BY <1>3, <2>2, DestroyUnownedObjects DEF DestroyUnowned
  <2> QED BY <1>4, <2>1, <2>2
<1>7. \A q \in Objects : kind'[q] # "gone" <=> q \in Present(routine, at) \ {o}
  BY <1>1, <1>3, <1>5 DEF ClientInv, ObjectInv, TypeOK
<1>8. at' = at + 1 /\ making' = {} /\ stage' = "idle"
  BY <1>1, <1>5 DEF Advance, progress
<1> QED BY <1>1, <1>2, <1>5, <1>6, <1>7, <1>8, StepForward

\* A call that gives nothing, or reads.
LEMMA PlainStep ==
  ASSUME ClientInv, Due, Now.act \in {"plain", "read"}, UNCHANGED vars,
         Advance, UNCHANGED <<phase, routine, loads, leaked>>
  PROVE  ClientInv'
<1>1. /\ routine \in DOMAIN Lengths /\ at \in 1 .. Lengths[routine]
      /\ Fits(routine, at, Now)
      /\ stage = "idle" /\ making = {} /\ status = Null
      /\ \A q \in Objects : kind[q] # "gone" <=> q \in Present(routine, at)
      /\ IsFiniteSet(bare) /\ Cardinality(bare) = Names(routine, at)
  BY DueFits
<1>2. /\ Present(routine, at + 1) = Present(routine, at)
      /\ Names(routine, at + 1) = Names(routine, at)
  BY <1>1 DEF Fits
<1>3. /\ UNCHANGED <<heap, objects, bare, making, array, buffer, status, leaked>>
      /\ before' \subseteq Handles /\ stage' = stage /\ ObjectInv
  BY DEF vars, progress, ClientInv, ObjectInv, TypeOK
<1>4. ObjectInv'
  BY <1>3, StageObjects
<1>5. at' = at + 1 /\ making' = {} /\ stage' = "idle" /\ kind' = kind
  BY <1>1, <1>3 DEF Advance, objects
<1> QED BY <1>1, <1>2, <1>3, <1>4, <1>5, StepForward

\* A step of a routine that does not fail.
LEMMA SucceedsStep == ClientInv /\ Succeeds => ClientInv'
BY NewStep, PartStep, NameStep, BeginRunStep, EndStep, PlainStep DEF Succeeds

\* A call that makes something in more than one step.
LEMMA MakingFits ==
  ASSUME ClientInv, routine # "none", making # {}
  PROVE  /\ routine \in DOMAIN Lengths /\ at \in 1 .. Lengths[routine]
         /\ Present(routine, at + 1) = Present(routine, at) \cup making
         /\ Names(routine, at + 1) = Names(routine, at)
         /\ \A m \in making : m \in Objects /\ m \notin Present(routine, at)
         /\ \A o \in making : \A q \in Objects : kind[q] # "gone" => ~WorksOn(q, o)
         /\ \A q \in Objects : kind[q] # "gone" => q \in Present(routine, at) \cup making
<1>1. /\ routine \in DOMAIN Lengths
      /\ \A o \in making : o \in Constructs(routine, at) \ Present(routine, at)
      /\ \A q \in Objects : kind[q] # "gone" => q \in Present(routine, at) \cup making
      /\ making \subseteq Objects
  BY DEF ClientInv, ClientTypeOK, ScriptInv, Lengths, ObjectInv, TypeOK
<1>2. PICK o : making = {o} /\ Constructs(routine, at) = {o}
                /\ \/ o = "env" /\ routine = "loadModel" /\ at = 1
                   \/ o = "output"
  BY <1>1 DEF Constructs
<1>3. at \in 1 .. Lengths[routine]
  BY <1>1, <1>2 DEF Constructs, Lengths
<1>4. Fits(routine, at, Routine(routine)[at])
  BY <1>1, <1>3, ScriptFits
<1>5. /\ Present(routine, at + 1) = Present(routine, at) \cup making
      /\ Names(routine, at + 1) = Names(routine, at)
  BY <1>2, <1>4 DEF Fits
<1>6. \A q \in Objects : kind[q] # "gone" => ~WorksOn(q, o)
  <2>1. CASE o = "output"
    BY <2>1 DEF WorksOn
  <2>2. CASE o = "env" /\ routine = "loadModel" /\ at = 1
    BY <1>1, <1>2, <2>2 DEF WorksOn, Present, LoadPresent
  <2> QED BY <1>2, <2>1, <2>2
<1> QED BY <1>1, <1>2, <1>3, <1>5, <1>6

\* The rest of a call.
LEMMA ContinuesStep == ClientInv /\ Continues => ClientInv'
<1> SUFFICES ASSUME ClientInv, Continues PROVE ClientInv' OBVIOUS
<1>1. routine # "none" /\ Advance /\ UNCHANGED <<phase, routine, loads, leaked>>
        /\ ObjectInv /\ UNCHANGED leaked
  BY DEF Continues, ClientInv
<1>2. /\ IsFiniteSet(bare) /\ Cardinality(bare) = Names(routine, at)
      /\ \A o \in making : o \in Constructs(routine, at) \ Present(routine, at)
      /\ stage # "thrown" =>
           \A o \in Objects : kind[o] # "gone" <=> o \in Present(routine, at) \cup making
      /\ \A m \in Members : m \in Present(routine, at) => kind[m] # "gone"
      /\ Members \subseteq Objects
  BY <1>1, ClientAssumption DEF ClientInv, ScriptInv, ClientAssumption
<1>3. CASE SetLanguageProjection \/ RunReturns
  <2>1. making # {} /\ stage # "thrown" /\ stage' = "idle" /\ making' = {}
          /\ bare' = bare
          /\ kind' = [o \in Objects |-> IF o \in making THEN "owner" ELSE kind[o]]
    BY <1>1, <1>3
    DEF SetLanguageProjection, RunReturns, Complete, ObjectInv, WrapInv
  <2>2. ObjectInv'
    BY <1>1, <1>3, ProjectionObjects, RunReturnsObjects
  <2>3. /\ routine \in DOMAIN Lengths /\ at \in 1 .. Lengths[routine]
        /\ Present(routine, at + 1) = Present(routine, at) \cup making
        /\ Names(routine, at + 1) = Names(routine, at)
    BY <1>1, <2>1, MakingFits
  <2>4. \A o \in Objects : kind'[o] # "gone" <=> o \in Present(routine, at + 1)
    BY <1>2, <2>1, <2>3
  <2>5. at' = at + 1
    BY <1>1, <2>1 DEF Advance
  <2> QED BY <1>1, <1>2, <2>1, <2>2, <2>3, <2>4, <2>5, StepForward
<1>4. CASE ThrowOnError
  <2>1. /\ stage = "failed" /\ stage' = "unwinding" /\ making' = making
        /\ kind' = kind /\ bare' = bare
    BY <1>4 DEF ThrowOnError, objects
  <2>2. ObjectInv'
    BY <1>1, <1>4, ThrowObjects
  <2>3. UNCHANGED client
    BY <1>1, <2>1 DEF Advance, client
  <2> QED BY <1>1, <1>2, <2>1, <2>2, <2>3, StepStays
<1>5. CASE Unwind
  <2>1. /\ stage = "unwinding" /\ stage' = "thrown" /\ making' = {} /\ bare' = bare
        /\ kind' = [o \in Objects |-> IF o \in making THEN "gone" ELSE kind[o]]
    BY <1>5 DEF Unwind
  <2>2. /\ \A o \in making : \A q \in Objects : kind[q] # "gone" => ~WorksOn(q, o)
        /\ \A o \in making : o \notin Present(routine, at)
    BY <1>1, <1>2, MakingFits
  <2>3. ObjectInv'
    BY <1>1, <1>5, <2>2, UnwindObjects
  <2>4. UNCHANGED client
    BY <1>1, <2>1 DEF Advance, client
  <2>5. /\ \A o \in Objects : kind'[o] # "gone" => o \in Present(routine, at) \cup making'
        /\ \A m \in Members : m \in Present(routine, at) => kind'[m] # "gone"
    BY <1>2, <2>1, <2>2
  <2> QED BY <1>1, <2>1, <2>3, <2>4, <2>5, StepStays
<1> QED BY <1>3, <1>4, <1>5 DEF Continues

\* A call that fails.
LEMMA FailsStep == ClientInv /\ Fails => ClientInv'
<1> SUFFICES ASSUME ClientInv, Fails PROVE ClientInv' OBVIOUS
<1>1. routine # "none" /\ UNCHANGED client /\ ObjectInv /\ UNCHANGED leaked
  BY DEF Fails, ClientInv, client
<1>2. /\ \A o \in making : o \in Constructs(routine, at) \ Present(routine, at)
      /\ stage # "thrown" =>
           \A o \in Objects : kind[o] # "gone" <=> o \in Present(routine, at) \cup making
      /\ \A o \in Objects : kind[o] # "gone" => o \in Present(routine, at) \cup making
      /\ \A m \in Members : m \in Present(routine, at) => kind[m] # "gone"
  BY <1>1 DEF ClientInv, ScriptInv
<1>3. \/ \E h \in Fresh(1) : FailWith(h) /\ before' \subseteq Handles /\ UNCHANGED making
                              /\ stage \in {"idle", "projecting", "running"}
      \/ /\ UNCHANGED <<heap, objects, bare, making, array, buffer, status>>
         /\ before' \subseteq Handles /\ stage = "idle" /\ stage' = "unwinding"
  BY LiveIs DEF Fails, CallFails, SecondCallFails, CastThrows, Idle, ClientInv, ObjectInv,
     TypeOK
<1>4. status = Null /\ stage # "thrown" /\ (stage = "idle" => making = {})
  BY <1>1, <1>3 DEF ObjectInv, WrapInv
<1>5. CASE \E h \in Fresh(1) : FailWith(h) /\ before' \subseteq Handles /\ UNCHANGED making
                               /\ stage \in {"idle", "projecting", "running"}
  <2>1. ObjectInv'
    BY <1>1, <1>4, <1>5, FailObjects
  <2>2. kind' = kind /\ bare' = bare /\ making' = making
    BY <1>5 DEF FailWith, objects
  <2> QED BY <1>1, <1>2, <1>4, <2>1, <2>2, StepStays
<1>6. CASE /\ UNCHANGED <<heap, objects, bare, making, array, buffer, status>>
           /\ before' \subseteq Handles /\ stage = "idle" /\ stage' = "unwinding"
  <2>1. ObjectInv'
    BY <1>1, <1>4, <1>6, StageObjects
  <2>2. kind' = kind /\ bare' = bare /\ making' = making
    BY <1>6 DEF objects
  <2> QED BY <1>1, <1>2, <1>4, <2>1, <2>2, StepStays
<1> QED BY <1>3, <1>5, <1>6

-----------------------------------------------------------------------------
(* Between the routines.                                                   *)

\* One more element is at most one more.
LEMMA AtMostOneMore ==
  ASSUME NEW S, NEW x, NEW n \in Nat, IsFiniteSet(S), Cardinality(S) <= n
  PROVE  IsFiniteSet(S \cup {x}) /\ Cardinality(S \cup {x}) <= n + 1
<1>1. Cardinality(S) \in Nat
  BY FS_CardinalityType
<1>2. CASE x \in S
  <2>1. S \cup {x} = S
    BY <1>2
  <2>2. Cardinality(S) <= n + 1
    BY <1>1
  <2> QED BY <2>1, <2>2
<1>3. CASE x \notin S
  <2>1. IsFiniteSet(S \cup {x}) /\ Cardinality(S \cup {x}) = Cardinality(S) + 1
    BY <1>3, FS_AddElement
  <2> QED BY <1>1, <2>1
<1> QED BY <1>2, <1>3

\* At the end of loadModel there are the model's environment and sessions.
LEMMA LoadedIs ==
  /\ Len(Routine("loadModel")) = 32
  /\ \A o \in Objects : o \in Present("loadModel", 33) <=> o \in {"env", "policy", "encoder"}
  /\ \A i \in 1 .. 33 : \A o \in Present("loadModel", i) :
       o \in {"env", "policy", "encoder", "options", "typeInfo", "shapeInfo"}
  /\ Names("loadModel", 33) = 4
  /\ \A i : Names("loadModel", i) \in 0 .. 4
BY ScriptFits, ClientAssumption
DEF Lengths, Present, LoadPresent, Names, ClientAssumption, Members, Automatic

\* loadModel is at its end after 32 steps.
LEMMA LoadFinished ==
  ASSUME ClientInv, Finished("loadModel")
  PROVE  routine = "loadModel" /\ at = 33
<1>1. routine = "loadModel" /\ at > Len(Routine("loadModel"))
  BY DEF Finished
<1>2. at \in 1 .. 33
  BY <1>1 DEF ClientInv, ScriptInv
<1>3. Len(Routine("loadModel")) = 32
  BY LoadedIs
<1> DEFINE n == Len(Routine("loadModel"))
<1>4. at > n /\ n = 32
  BY <1>1, <1>3
<1> HIDE DEF n
<1>5. at > 32
  BY <1>4
<1> QED BY <1>1, <1>2, <1>5

\* init() is called.
LEMMA StartInitStep == ClientInv /\ StartInit => ClientInv'
<1> SUFFICES ASSUME ClientInv, StartInit PROVE ClientInv' OBVIOUS
<1> USE DEF StartInit, Enter, ClientInv
<1>1. /\ UNCHANGED <<heap, objects, bare, making, array, buffer, status, leaked>>
      /\ stage' = stage /\ before' = before /\ before \subseteq Handles
  BY DEF vars, progress, ObjectInv, TypeOK
<1>2. ObjectInv'
  BY <1>1, StageObjects
<1>3. ClientTypeOK'
  BY <1>2, ClientAssumption, LoadModelIs DEF ClientTypeOK, ObjectInv, ClientAssumption
<1>4. CountInv'
  BY DEF CountInv, FailedLoads, ClientTypeOK
<1>5. ScriptInv'
  <2>1. routine = "none" /\ stage = "idle" /\ making = {} /\ kind' = kind
    BY <1>1 DEF ClientTypeOK, ScriptInv, ObjectInv, WrapInv, objects
  <2>2. /\ bare' = {} /\ making' = {} /\ \A o \in Objects : kind'[o] = "gone"
    BY <1>1, <2>1 DEF ScriptInv
  <2>3. Present("loadModel", 1) = {} /\ Names("loadModel", 1) = 0
    BY DEF Present, LoadPresent, Names
  <2>4. Members \subseteq Objects
    BY ClientAssumption DEF ClientAssumption
  <2> QED BY <1>1, <2>2, <2>3, <2>4, FS_EmptySet DEF ScriptInv
<1> QED BY <1>2, <1>3, <1>4, <1>5

\* loadModel returns before its first call.
LEMMA ParameterMissingStep == ClientInv /\ ParameterMissing => ClientInv'
<1> SUFFICES ASSUME ClientInv, ParameterMissing PROVE ClientInv' OBVIOUS
<1> USE DEF ParameterMissing, Enter, ClientInv
<1>1. /\ UNCHANGED <<heap, objects, bare, making, array, buffer, status, leaked>>
      /\ stage' = stage /\ before' = before /\ before \subseteq Handles
  BY DEF vars, progress, ObjectInv, TypeOK
<1>2. ObjectInv'
  BY <1>1, StageObjects
<1>3. ClientTypeOK'
  BY <1>2, LoadModelIs DEF ClientTypeOK, ObjectInv
<1>4. CountInv'
  <2>1. phase = "init" /\ loads \in Nat /\ loads # 0 /\ Cardinality(leaked) <= (loads - 1) * 7
          /\ IsFiniteSet(leaked)
    BY ClientAssumption DEF ClientTypeOK, CountInv, FailedLoads, ClientAssumption
  <2>2. Cardinality(leaked) \in Nat
    BY <2>1, FS_CardinalityType
  <2> QED BY <2>1, <2>2 DEF CountInv, FailedLoads
<1>5. ScriptInv'
  <2>1. stage = "idle" /\ making = {} /\ routine = "loadModel" /\ at = 1 /\ kind' = kind
    BY <1>1 DEF ObjectInv, WrapInv, Idle, objects
  <2>2. Present("loadModel", 1) = {} /\ Names("loadModel", 1) = 0
    BY DEF Present, LoadPresent, Names
  <2>3. bare' = {} /\ \A o \in Objects : kind'[o] = "gone"
    BY <1>1, <2>1, <2>2, FS_EmptySet DEF ScriptInv
  <2> QED BY <1>1, <2>1, <2>3 DEF ScriptInv
<1> QED BY <1>2, <1>3, <1>4, <1>5

\* init() reserves the memory of the history.
LEMMA InitSucceedsStep == ClientInv /\ InitSucceeds => ClientInv'
<1> SUFFICES ASSUME ClientInv, InitSucceeds PROVE ClientInv' OBVIOUS
<1> DEFINE k == Call("None", "owner", "Memory", FALSE)
<1> USE DEF InitSucceeds, Enter, ClientInv
<1>1. routine = "loadModel" /\ at = 33 /\ stage = "idle" /\ making = {}
  BY LoadFinished DEF MakeOwner, Idle, ObjectInv, WrapInv
<1>2. /\ "history" \in Objects /\ "history" # "shapeInfo" /\ Wraps("history") = "Memory"
      /\ Members \subseteq Objects
  BY ClientAssumption DEF ClientAssumption, Members, Wraps
<1>3. k.gives = "Memory" /\ k.keeps = FALSE
  BY DEF Call
<1>4. ObjectInv /\ UNCHANGED leaked /\ Null \in Handles \cup {Null}
        /\ MakeOwner(k, Null, "history")
  OBVIOUS
<1> HIDE DEF k
<1>5. ObjectInv'
  BY <1>2, <1>3, <1>4, MakeOwnerObjects
<1>6. /\ kind' = [kind EXCEPT !["history"] = "owner"]
      /\ UNCHANGED progress /\ bare' = bare
  BY <1>3, <1>4 DEF MakeOwner
<1>7. ClientTypeOK'
  BY <1>5, LoadModelIs DEF ClientTypeOK, ObjectInv
<1>8. CountInv'
  <2>1. phase = "init" /\ loads \in Nat /\ loads # 0 /\ Cardinality(leaked) <= (loads - 1) * 7
          /\ IsFiniteSet(leaked)
    BY <1>1, ClientAssumption DEF ClientTypeOK, CountInv, FailedLoads, ClientAssumption
  <2>2. Cardinality(leaked) \in Nat
    BY <2>1, FS_CardinalityType
  <2> QED BY <2>1, <2>2 DEF CountInv, FailedLoads
<1>9. ScriptInv'
  <2>1. \A o \in Objects : kind[o] # "gone" <=> o \in {"env", "policy", "encoder"}
    BY <1>1, LoadedIs DEF ScriptInv
  <2>2. \A o \in Objects : kind'[o] # "gone" <=> o \in Members
    BY <1>2, <1>6, <2>1 DEF ObjectInv, TypeOK, Members
  <2>3. IsFiniteSet(bare) /\ Cardinality(bare) = 4
    BY <1>1, LoadedIs DEF ScriptInv
  <2> QED BY <1>1, <1>6, <2>2, <2>3 DEF ScriptInv, progress
<1> QED BY <1>5, <1>7, <1>8, <1>9

\* getHandle() throws.
LEMMA NoSuchHandleStep == ClientInv /\ NoSuchHandle => ClientInv'
<1> SUFFICES ASSUME ClientInv, NoSuchHandle PROVE ClientInv' OBVIOUS
<1>1. /\ UNCHANGED <<heap, objects, bare, making, array, buffer, status, leaked>>
      /\ stage' = "thrown" /\ before' = before /\ before \subseteq Handles
      /\ UNCHANGED client /\ kind' = kind
  BY DEF NoSuchHandle, client, ClientInv, ObjectInv, TypeOK, objects
<1>2. routine = "loadModel" /\ at = 33
  BY LoadFinished DEF NoSuchHandle
<1>3. stage = "idle" /\ making = {} /\ status = Null /\ ObjectInv
  BY DEF NoSuchHandle, Idle, ClientInv, ObjectInv, WrapInv
<1>4. ObjectInv'
  BY <1>1, <1>3, StageObjects
<1>5. /\ \A o \in Objects : kind[o] # "gone" <=> o \in Present(routine, at)
      /\ Members \subseteq Objects
  BY <1>2, <1>3, ClientAssumption DEF ClientInv, ScriptInv, ClientAssumption
<1> QED BY <1>1, <1>2, <1>3, <1>4, <1>5, StepStays


\* The automatic objects of loadModel that an exception destroys.
LEMMA NewestIs ==
  ASSUME NEW o, Newest(o)
  PROVE  /\ o \in {"options", "typeInfo", "shapeInfo"} /\ kind[o] # "gone"
         /\ o = "typeInfo" => kind["shapeInfo"] = "gone"
<1>1. PICK i \in DOMAIN Order : /\ Order[i] = o
                                /\ \A j \in i + 1 .. Len(Order) : kind[Order[j]] = "gone"
  BY DEF Newest
<1>2. DOMAIN Order = 1 .. 3 /\ Len(Order) = 3 /\ Order[1] = "options"
        /\ Order[2] = "typeInfo" /\ Order[3] = "shapeInfo"
  BY DEF Order
<1>3. o \in {"options", "typeInfo", "shapeInfo"}
  BY <1>1, <1>2
<1>4. o = "typeInfo" => kind["shapeInfo"] = "gone"
  <2>1. SUFFICES ASSUME o = "typeInfo" PROVE kind["shapeInfo"] = "gone"
    OBVIOUS
  <2>2. i = 2
    BY <1>1, <1>2, <2>1
  <2> QED BY <1>1, <1>2, <2>2
<1> QED BY <1>3, <1>4 DEF Newest

\* The exception passes the automatic objects of loadModel.
LEMMA UnwindLocalStep == ClientInv /\ UnwindLocal => ClientInv'
<1> SUFFICES ASSUME ClientInv, UnwindLocal PROVE ClientInv' OBVIOUS
<1>1. PICK o \in Objects :
        /\ Newest(o)
        /\ IF kind[o] = "owner" THEN Release({ptr[o]}) ELSE UNCHANGED heap
        /\ kind' = [kind EXCEPT ![o] = "gone"]
        /\ type' = [type EXCEPT ![o] = "none"]
        /\ ptr' = [ptr EXCEPT ![o] = Null]
  BY DEF UnwindLocal
<1>2. /\ UNCHANGED <<bare, progress, client>> /\ stage = "thrown" /\ phase = "init"
      /\ UNCHANGED leaked /\ making = {} /\ making' = {} /\ stage' = "thrown"
      /\ routine = "loadModel" /\ routine # "none" /\ ObjectInv
  BY DEF UnwindLocal, progress, client, ClientInv, ObjectInv, WrapInv, ClientTypeOK
<1>3. /\ o \in {"options", "typeInfo", "shapeInfo"} /\ kind[o] # "gone"
      /\ o = "typeInfo" => kind["shapeInfo"] = "gone"
  BY <1>1, NewestIs
<1>4. /\ \A q \in Objects : kind[q] # "gone" => q \in Present(routine, at)
      /\ \A m \in Members : m \in Present(routine, at) => kind[m] # "gone"
      /\ Members \subseteq Objects
  BY <1>2, ClientAssumption DEF ClientInv, ScriptInv, ClientAssumption
<1>5. \A q \in Objects : kind[q] # "gone" => ~WorksOn(q, o)
  BY <1>3 DEF WorksOn
<1>6. ObjectInv'
  <2>1. kind[o] = (IF o = "shapeInfo" THEN "unowned" ELSE "owner")
    BY <1>2, <1>3, PresentIs
  <2>2. CASE o = "shapeInfo"
    <3>1. kind[o] = "unowned" /\ UNCHANGED heap /\ Gone(o)
      BY <1>1, <1>2, <2>1, <2>2 DEF Gone
    <3> QED BY <1>2, <3>1, DestroyUnownedObjects
  <2>3. CASE o # "shapeInfo"
    <3>1. kind[o] = "owner" /\ Release({ptr[o]})
      BY <1>1, <2>1, <2>3
    <3>2. UNCHANGED <<bare, progress, leaked>>
      BY <1>2
    <3> QED BY <1>1, <1>2, <1>5, <3>1, <3>2, DropObjects
  <2> QED BY <2>2, <2>3
<1>7. \A q \in Objects : kind'[q] = IF q = o THEN "gone" ELSE kind[q]
  BY <1>1, <1>2 DEF ObjectInv, TypeOK
<1>8. o \notin Members
  BY <1>3 DEF Members
<1> QED BY <1>2, <1>4, <1>6, <1>7, <1>8, StepStays

\* What a controller that goes leaves is at most seven C objects more.
LEMMA LeavesSeven ==
  ASSUME ClientInv, DropController, routine = "loadModel",
         \A o \in Objects : kind[o] # "gone" => o \in {"env", "policy", "encoder"}
  PROVE  IsFiniteSet(leaked') /\ Cardinality(leaked') <= Cardinality(leaked) + 7
<1> DEFINE L == {ptr[o] : o \in {m \in Members : ptr[m] # Null}}
<1>1. leaked' = leaked \cup bare \cup L
  BY DEF DropController
<1>2. L \subseteq {ptr["env"], ptr["policy"], ptr["encoder"]}
  BY ClientAssumption DEF ClientInv, ObjectInv, TypeOK, ClientAssumption
<1> HIDE DEF L
<1>3. /\ IsFiniteSet(leaked) /\ Cardinality(leaked) \in Nat
      /\ IsFiniteSet(bare) /\ Cardinality(bare) \in 0 .. 4
  BY LoadedIs, FS_CardinalityType DEF ClientInv, CountInv, FailedLoads, ScriptInv
<1> DEFINE A == leaked \cup bare
           n == Cardinality(leaked) + 4
<1>4. IsFiniteSet(A) /\ Cardinality(A) <= n
  <2>1. /\ IsFiniteSet(A) /\ Cardinality(leaked \cap bare) \in Nat
        /\ Cardinality(A) = Cardinality(leaked) + Cardinality(bare)
                              - Cardinality(leaked \cap bare)
    <3>1. IsFiniteSet(leaked \cap bare)
      BY <1>3, FS_Subset
    <3> QED BY <1>3, <3>1, FS_Union, FS_CardinalityType
  <2> QED BY <1>3, <2>1
<1>5. n \in Nat /\ n + 1 \in Nat /\ n + 1 + 1 \in Nat
  BY <1>3
<1> HIDE DEF A, n
<1> DEFINE B == A \cup {ptr["env"]}
           C == B \cup {ptr["policy"]}
           D == C \cup {ptr["encoder"]}
<1>6. IsFiniteSet(B) /\ Cardinality(B) <= n + 1
  BY <1>4, <1>5, AtMostOneMore
<1> HIDE DEF B
<1>7. IsFiniteSet(C) /\ Cardinality(C) <= n + 1 + 1
  BY <1>5, <1>6, AtMostOneMore
<1> HIDE DEF C
<1>8. IsFiniteSet(D) /\ Cardinality(D) <= n + 1 + 1 + 1
  BY <1>5, <1>7, AtMostOneMore
<1>9. leaked' \subseteq D
  BY <1>1, <1>2 DEF A, B, C
<1> HIDE DEF D
<1>10. IsFiniteSet(leaked') /\ Cardinality(leaked') <= Cardinality(D)
  BY <1>8, <1>9, FS_Subset
<1>11. Cardinality(leaked') \in Nat /\ Cardinality(D) \in Nat
  BY <1>8, <1>10, FS_CardinalityType
<1>12. n + 1 + 1 + 1 = Cardinality(leaked) + 7
  BY <1>3 DEF n
<1> QED BY <1>3, <1>5, <1>8, <1>10, <1>11, <1>12

\* controller_manager drops the controller that failed.
LEMMA DropControllerStep == ClientInv /\ DropController => ClientInv'
<1> SUFFICES ASSUME ClientInv, DropController PROVE ClientInv' OBVIOUS
<1>1. /\ stage = "thrown" /\ phase = "init" /\ routine = "loadModel" /\ making = {}
      /\ at \in 1 .. 33
  BY DEF DropController, ClientInv, ClientTypeOK, ObjectInv, WrapInv, ScriptInv
<1>2. \A o \in Objects : kind[o] # "gone" => o \in {"env", "policy", "encoder"}
  <2> TAKE o \in Objects
  <2>1. HAVE kind[o] # "gone"
  <2>2. o \in Present("loadModel", at)
    BY <1>1, <2>1 DEF ClientInv, ScriptInv
  <2>3. o \notin Automatic
    BY <2>1 DEF DropController
  <2> QED BY <1>1, <2>2, <2>3, LoadedIs DEF Automatic
<1>3. ObjectInv'
  BY <1>2, DropControllerObjects DEF ClientInv
<1>4. /\ phase' = "unloaded" /\ routine' = "none" /\ at' = 1 /\ loads' = loads
      /\ bare' = {} /\ stage' = "idle" /\ making' = making
      /\ kind' = [o \in Objects |-> "gone"]
  BY DEF DropController, Enter
<1>5. ClientTypeOK'
  <2>1. leaked' \subseteq Handles
    <3>1. /\ leaked \subseteq Handles /\ bare \subseteq Handles /\ Members \subseteq Objects
          /\ \A o \in Objects : ptr[o] \in Handles \cup {Null}
      BY ClientAssumption
      DEF ClientInv, ClientTypeOK, ObjectInv, TypeOK, ClientAssumption
    <3> QED BY <3>1 DEF DropController
  <2> QED BY <1>3, <1>4, <2>1, LoadModelIs DEF ClientTypeOK, ClientInv, ObjectInv
<1>6. CountInv'
  <2>1. IsFiniteSet(leaked') /\ Cardinality(leaked') <= Cardinality(leaked) + 7
    BY <1>1, <1>2, LeavesSeven
  <2>2. /\ loads \in Nat /\ loads # 0 /\ IsFiniteSet(leaked)
        /\ Cardinality(leaked) <= (loads - 1) * 7
    BY <1>1, ClientAssumption
    DEF ClientInv, ClientTypeOK, CountInv, FailedLoads, ClientAssumption
  <2>3. Cardinality(leaked) \in Nat /\ Cardinality(leaked') \in Nat
    BY <2>1, <2>2, FS_CardinalityType
  <2>4. Cardinality(leaked') <= loads * 7
    BY <2>1, <2>2, <2>3
  <2> QED BY <1>4, <2>1, <2>4 DEF CountInv, FailedLoads
<1>7. ScriptInv'
  BY <1>1, <1>4, FS_EmptySet DEF ScriptInv
<1> QED BY <1>3, <1>5, <1>6, <1>7 DEF ClientInv

\* So are the inferences after eight and ten.
LEMMA FinishedInference ==
  ASSUME ClientInv, Idle
  PROVE  /\ Finished("computeEncoder") =>
              routine = "computeEncoder" /\ at = 9 /\ phase = "cycle"
         /\ Finished("computeActions") =>
              routine = "computeActions" /\ at = 11 /\ phase = "cycle"
         /\ stage = "idle" /\ making = {}
<1>1. Len(Routine("computeEncoder")) = 8 /\ Len(Routine("computeActions")) = 10
  BY ScriptFits DEF Lengths
<1>2. ASSUME Finished("computeEncoder")
      PROVE  routine = "computeEncoder" /\ at = 9 /\ phase = "cycle"
  <2> DEFINE n == Len(Routine("computeEncoder"))
  <2>1. routine = "computeEncoder" /\ at > n /\ n = 8
    BY <1>1, <1>2 DEF Finished
  <2> HIDE DEF n
  <2>2. at > 8
    BY <2>1
  <2>3. at \in 1 .. 9 /\ phase = "cycle"
    BY <2>1 DEF ClientInv, ScriptInv, ClientTypeOK
  <2> QED BY <2>1, <2>2, <2>3
<1>3. ASSUME Finished("computeActions")
      PROVE  routine = "computeActions" /\ at = 11 /\ phase = "cycle"
  <2> DEFINE n == Len(Routine("computeActions"))
  <2>1. routine = "computeActions" /\ at > n /\ n = 10
    BY <1>1, <1>3 DEF Finished
  <2> HIDE DEF n
  <2>2. at > 10
    BY <2>1
  <2>3. at \in 1 .. 11 /\ phase = "cycle"
    BY <2>1 DEF ClientInv, ScriptInv, ClientTypeOK
  <2> QED BY <2>1, <2>2, <2>3
<1>4. stage = "idle" /\ making = {}
  BY DEF Idle, ClientInv, ObjectInv, WrapInv
<1> QED BY <1>2, <1>3, <1>4

\* A tick begins, goes on to the policy, and ends.
LEMMA TickStep == ClientInv /\ (PolicyTick \/ EncoderDone \/ TickDone) => ClientInv'
<1> SUFFICES ASSUME ClientInv, PolicyTick \/ EncoderDone \/ TickDone PROVE ClientInv'
  OBVIOUS
<1>1. /\ UNCHANGED <<heap, objects, bare, making, array, buffer, status, leaked>>
      /\ stage' = stage /\ before' = before /\ before \subseteq Handles /\ ObjectInv
      /\ UNCHANGED <<loads, leaked>> /\ at' = 1 /\ kind' = kind
  BY DEF PolicyTick, EncoderDone, TickDone, Enter, vars, progress, ClientInv, ObjectInv,
     TypeOK, objects
<1>2. ObjectInv'
  BY <1>1, StageObjects
<1>3. Members \subseteq Objects
  BY ClientAssumption DEF ClientAssumption
<1>4. /\ Present("computeEncoder", 1) = Members /\ Present("computeActions", 1) = Members
      /\ Present("computeEncoder", 9) = Members /\ Present("computeActions", 11) = Members
      /\ Names("computeEncoder", 1) = 4 /\ Names("computeActions", 1) = 4
      /\ Names("computeEncoder", 9) = 4 /\ Names("computeActions", 11) = 4
  BY <1>3, ClientAssumption
  DEF Present, InferPresent, Names, ClientAssumption, Members, Automatic
<1>5. CASE PolicyTick
  <2>1. /\ phase = "ready" /\ phase' = "cycle" /\ routine' = "computeEncoder"
        /\ routine = "none" /\ stage = "idle" /\ making = {}
    BY <1>5 DEF PolicyTick, Enter, ClientInv, ClientTypeOK, ScriptInv, ObjectInv, WrapInv
  <2>2. ClientTypeOK'
    BY <1>1, <1>2, <2>1, LoadModelIs DEF ClientInv, ClientTypeOK, ObjectInv
  <2>3. CountInv'
    BY <1>1, <2>1 DEF ClientInv, CountInv, FailedLoads
  <2>4. ScriptInv'
    BY <1>1, <1>3, <1>4, <2>1 DEF ClientInv, ScriptInv
  <2> QED BY <1>2, <2>2, <2>3, <2>4 DEF ClientInv
<1>6. CASE EncoderDone
  <2>1. /\ routine = "computeEncoder" /\ at = 9 /\ phase = "cycle" /\ phase' = "cycle"
        /\ routine' = "computeActions" /\ stage = "idle" /\ making = {}
    BY <1>6, FinishedInference DEF EncoderDone, Enter
  <2>2. ClientTypeOK'
    BY <1>1, <1>2, <2>1, LoadModelIs DEF ClientInv, ClientTypeOK, ObjectInv
  <2>3. CountInv'
    BY <1>1, <2>1 DEF ClientInv, CountInv, FailedLoads
  <2>4. ScriptInv'
    BY <1>1, <1>3, <1>4, <2>1 DEF ClientInv, ScriptInv
  <2> QED BY <1>2, <2>2, <2>3, <2>4 DEF ClientInv
<1>7. CASE TickDone
  <2>1. /\ routine = "computeActions" /\ at = 11 /\ phase = "cycle" /\ phase' = "ready"
        /\ routine' = "none" /\ stage = "idle" /\ making = {}
    BY <1>7, FinishedInference DEF TickDone, Enter
  <2>2. ClientTypeOK'
    BY <1>1, <1>2, <2>1, LoadModelIs DEF ClientInv, ClientTypeOK, ObjectInv
  <2>3. CountInv'
    BY <1>1, <2>1 DEF ClientInv, CountInv, FailedLoads
  <2>4. ScriptInv'
    BY <1>1, <1>3, <1>4, <2>1 DEF ClientInv, ScriptInv
  <2> QED BY <1>2, <2>2, <2>3, <2>4 DEF ClientInv
<1> QED BY <1>5, <1>6, <1>7

\* The process ends.
LEMMA TerminateStep == ClientInv /\ Terminate => ClientInv'
<1> SUFFICES ASSUME ClientInv, Terminate PROVE ClientInv' OBVIOUS
<1>1. /\ UNCHANGED <<heap, objects, bare, making, array, buffer, status, leaked>>
      /\ stage' = "idle" /\ before' = before /\ before \subseteq Handles /\ ObjectInv
      /\ making = {} /\ status = Null /\ stage = "thrown" /\ phase = "cycle"
      /\ phase' = "terminated" /\ routine' = "none" /\ at' = 1 /\ loads' = loads
  BY DEF Terminate, Enter, ClientInv, ObjectInv, TypeOK, WrapInv
<1>2. ObjectInv'
  BY <1>1, StageObjects
<1>3. ClientTypeOK'
  BY <1>1, <1>2, LoadModelIs DEF ClientInv, ClientTypeOK, ObjectInv
<1>4. CountInv'
  BY <1>1 DEF ClientInv, CountInv, FailedLoads
<1>5. ScriptInv'
  BY <1>1 DEF ClientInv, ScriptInv
<1> QED BY <1>2, <1>3, <1>4, <1>5 DEF ClientInv

\* Before the first load nothing is there.
LEMMA ClientInitInv == ClientInit => ClientInv
<1> SUFFICES ASSUME ClientInit PROVE ClientInv OBVIOUS
<1> USE DEF ClientInit, Init
<1>1. TypeOK
  BY DEF TypeOK, Stages
<1>2. ClientTypeOK
  BY <1>1, LoadModelIs, ClientAssumption DEF ClientTypeOK, ClientAssumption
<1>3. WrapInv
  BY DEF WrapInv
<1>4. Live = {} /\ \A o \in Objects : ~Holds(o)
  BY DEF Live, Free, Holds
<1>5. StockInv /\ UseInv /\ LeftInv /\ FreeInv
  <2>1. StockInv
    BY <1>4 DEF StockInv, Kept, Solid
  <2>2. "shapeInfo" \in Objects
    BY ClientAssumption DEF ClientAssumption, Automatic
  <2> QED BY <1>4, <2>1, <2>2 DEF UseInv, LeftInv, FreeInv
<1>6. CountInv
  BY FS_EmptySet DEF CountInv, FailedLoads
<1>7. ScriptInv
  BY FS_EmptySet DEF ScriptInv
<1> QED BY <1>1, <1>2, <1>3, <1>5, <1>6, <1>7 DEF ClientInv, ObjectInv

\* A stuttering step changes nothing it speaks of.
LEMMA ClientStutter == ClientInv /\ UNCHANGED allVars => ClientInv'
<1> SUFFICES ASSUME ClientInv, UNCHANGED allVars PROVE ClientInv' OBVIOUS
<1>1. /\ UNCHANGED <<heap, objects, bare, making, array, buffer, status, leaked>>
      /\ stage' = stage /\ before' = before /\ before \subseteq Handles /\ ObjectInv
      /\ UNCHANGED <<phase, routine, at, loads, leaked>> /\ kind' = kind
  BY DEF allVars, client, vars, progress, ClientInv, ObjectInv, TypeOK, objects
<1>2. ObjectInv'
  BY <1>1, StageObjects
<1>3. ClientTypeOK'
  BY <1>1, <1>2 DEF ClientInv, ClientTypeOK, ObjectInv
<1>4. CountInv'
  BY <1>1 DEF ClientInv, CountInv, FailedLoads
<1>5. ScriptInv'
  BY <1>1 DEF ClientInv, ScriptInv
<1> QED BY <1>2, <1>3, <1>4, <1>5 DEF ClientInv

\* Every step keeps the invariant.
LEMMA ClientNextStep == ClientInv /\ ClientNext => ClientInv'
BY StartInitStep, ParameterMissingStep, SucceedsStep, ContinuesStep, FailsStep,
   InitSucceedsStep, NoSuchHandleStep, UnwindLocalStep, DropControllerStep, TickStep,
   TerminateStep
DEF ClientNext

\* The inductive invariant holds of every session.
LEMMA ClientInvariance == ClientSpec => []ClientInv
<1>1. ClientInv /\ [ClientNext]_allVars => ClientInv'
  BY ClientNextStep, ClientStutter
<1> QED BY ClientInitInv, <1>1, PTL DEF ClientSpec

-----------------------------------------------------------------------------
(* What the invariant says of a session.                                   *)

\* A call is made on something alive.
LEMMA StepsAlive == ClientInv => StepsUseTheLiving
<1> SUFFICES ASSUME ClientInv, Due, Now.on # "none"
             PROVE  kind[Now.on] \in {"owner", "unowned"} /\ class[Target] = type[Now.on]
  BY DEF StepsUseTheLiving
<1> DEFINE o == Now.on
<1>1. /\ Fits(routine, at, Now) /\ making = {}
      /\ \A q \in Objects : kind[q] # "gone" <=> q \in Present(routine, at)
  BY DueFits
<1>2. o \in Present(routine, at)
  BY <1>1 DEF Fits
<1>3. o \in Objects /\ kind[o] # "gone"
  BY <1>1, <1>2, ClientAssumption
  DEF Present, LoadPresent, InferPresent, ClientAssumption
<1>4. Target = ptr[o]
  BY DEF Target
<1> HIDE DEF o
<1>5. /\ type[o] = Wraps(o) /\ class[ptr[o]] = Wraps(o)
      /\ kind[o] = (IF o = "shapeInfo" THEN "unowned" ELSE "owner")
  BY <1>1, <1>3, PresentIs
<1>6. kind[o] \in {"owner", "unowned"} /\ class[Target] = type[o]
  BY <1>4, <1>5
<1> QED BY <1>6 DEF o

\* What a C object in somebody's hands works on.
LEMMA HeldUses ==
  ASSUME ObjectInv, NEW o \in Objects, Holds(o), uses[ptr[o]] # Null
  PROVE  <<class[uses[ptr[o]]], class[ptr[o]]>> \in Keeping
<1>1. PICK m \in Objects : WorksOn(o, m) /\ Holds(m) /\ uses[ptr[o]] = ptr[m]
  BY DEF ObjectInv, UseInv
<1>2. class[ptr[o]] = Wraps(o) /\ class[ptr[m]] = Wraps(m)
  BY <1>1 DEF ObjectInv, StockInv
<1>3. <<Wraps(m), Wraps(o)>> \in Keeping
  BY <1>1 DEF WorksOn, Wraps, Keeping
<1> QED BY <1>1, <1>2, <1>3

\* What anything alive works on is alive.
LEMMA NeedsAlive == ObjectInv => NeedsAreAlive
<1> SUFFICES ASSUME ObjectInv, NEW h \in Live, uses[h] # Null
             PROVE  <<class[uses[h]], class[h]>> \in Keeping
  BY DEF NeedsAreAlive, Keeping
<1>1. CASE h \in parts
  <2>1. /\ class[h] = "TensorTypeAndShapeInfo" /\ Holds("typeInfo")
        /\ uses[h] = ptr["typeInfo"] /\ "typeInfo" \in Objects
    BY <1>1, ClientAssumption DEF ObjectInv, UseInv, ClientAssumption, Automatic
  <2>2. class[uses[h]] = "TypeInfo"
    BY <2>1 DEF ObjectInv, StockInv, Wraps
  <2> QED BY <2>1, <2>2 DEF Keeping
<1>2. CASE h \notin parts
  <2>1. h \in Solid
    BY <1>2 DEF Solid
  <2>2. CASE h \in bare
    BY <2>2 DEF ObjectInv, UseInv
  <2>3. CASE h \in leaked
    BY <2>3 DEF ObjectInv, LeftInv, Keeping
  <2>4. CASE h = status
    BY <2>4, SolidIs DEF ObjectInv, UseInv
  <2>5. CASE \E o \in Objects : Holds(o) /\ ptr[o] = h
    BY <2>5, HeldUses
  <2> QED BY <2>1, <2>2, <2>3, <2>4, <2>5 DEF ObjectInv, StockInv, Kept
<1> QED BY <1>1, <1>2

\* The lifetimes nest: every call loadModel() and an inference make is made on a
\* C object that is alive, and what a living C object works on is alive, after
\* any sequence of loads, ticks and failing calls (ControllerBase.cpp:249-283,
\* :308-369).
THEOREM LifetimesNestTheorem == ClientSpec => []LifetimesNest
<1>1. ClientInv => LifetimesNest
  BY StepsAlive, NeedsAlive DEF LifetimesNest, ClientInv
<1> QED BY <1>1, ClientInvariance, PTL

-----------------------------------------------------------------------------
(* What is left when no routine runs.                                      *)

\* Between two routines nothing is in the middle of anything.
LEMMA Between ==
  ASSUME ClientInv, routine = "none", phase # "terminated"
  PROVE  /\ phase \in {"unloaded", "ready"} /\ making = {} /\ status = Null
         /\ \A o \in Objects : kind[o] # "gone" => o \in Members
         /\ parts = {}
<1>1. phase \in {"unloaded", "ready"} /\ stage = "idle"
  BY DEF ClientInv, ClientTypeOK, ScriptInv
<1>2. making = {} /\ status = Null
  BY <1>1 DEF ClientInv, ObjectInv, WrapInv
<1>3. \A o \in Objects : kind[o] # "gone" => o \in Members
  BY <1>1 DEF ClientInv, ScriptInv
<1>4. "typeInfo" \in Objects /\ "typeInfo" \notin Members
  BY ClientAssumption DEF ClientAssumption, Automatic, Members
<1>5. ~Holds("typeInfo")
  BY <1>3, <1>4 DEF Holds
<1>6. parts = {}
  BY <1>5 DEF ClientInv, ObjectInv, UseInv
<1> QED BY <1>1, <1>2, <1>3, <1>6

\* Between two routines only the model is there: no tick leaves a C object
\* behind, and a controller that failed to load leaves at most its environment,
\* its sessions and their names (ControllerBase.cpp:249-283).
LEMMA OnlyModels == ClientInv => OnlyModelsOutlive
<1> SUFFICES ASSUME ClientInv, routine = "none", phase # "terminated"
             PROVE  /\ Live = {ptr[m] : m \in {q \in Members : ptr[q] # Null}}
                                \cup bare \cup leaked
                    /\ phase = "ready" => Cardinality(bare) = ModelNames
                    /\ {class[h] : h \in leaked} \subseteq {"Env", "Session", "Memory"}
                    /\ Cardinality(leaked) <= FailedLoads * (3 + ModelNames)
  BY DEF OnlyModelsOutlive
<1> DEFINE L == {ptr[m] : m \in {q \in Members : ptr[q] # Null}}
<1>1. /\ phase \in {"unloaded", "ready"} /\ making = {} /\ status = Null
      /\ \A o \in Objects : kind[o] # "gone" => o \in Members
      /\ parts = {}
  BY Between
<1>2. ObjectInv /\ Members \subseteq Objects /\ Live = Solid
  BY <1>1, ClientAssumption DEF ClientInv, ClientAssumption, Solid
<1>3. \A h \in Live : h \in L \cup bare \cup leaked
  <2> TAKE h \in Live
  <2>1. h \in Solid /\ h # status
    BY <1>1, <1>2, SolidIs
  <2>2. h \in bare \/ h \in leaked \/ \E o \in Objects : Holds(o) /\ ptr[o] = h
    BY <1>2, <2>1 DEF ObjectInv, StockInv, Kept
  <2>3. ASSUME NEW o \in Objects, Holds(o), ptr[o] = h PROVE h \in L
    <3>1. o \in Members /\ ptr[o] # Null
      BY <1>1, <2>3 DEF Holds
    <3> QED BY <2>3, <3>1
  <2> QED BY <2>2, <2>3
<1>4. L \subseteq Live
  <2>1. ASSUME NEW m \in Members, ptr[m] # Null PROVE ptr[m] \in Live
    <3>1. m \in Objects /\ kind[m] # "gone"
      BY <1>2, <2>1 DEF ObjectInv, TypeOK
    <3> QED BY <1>1, <3>1, PresentIs
  <2> QED BY <2>1
<1>5. bare \subseteq Live /\ leaked \subseteq Live
  BY <1>2 DEF ObjectInv, StockInv, Kept
<1>6. Live = L \cup bare \cup leaked
  BY <1>3, <1>4, <1>5
<1>7. phase = "ready" => Cardinality(bare) = ModelNames
  BY DEF ClientInv, ScriptInv, ModelNames
<1>8. {class[h] : h \in leaked} \subseteq {"Env", "Session", "Memory"}
  BY DEF ClientInv, ObjectInv, LeftInv
<1>9. Cardinality(leaked) <= FailedLoads * (3 + ModelNames)
  BY <1>1 DEF ClientInv, CountInv, FailedLoads, ModelNames
<1> QED BY <1>6, <1>7, <1>8, <1>9

\* No tick leaves a C object behind, and no load more than its model, however
\* often a load fails and whatever fails in it.
THEOREM OnlyModelsOutliveTheorem == ClientSpec => []OnlyModelsOutlive
BY OnlyModels, ClientInvariance, PTL

-----------------------------------------------------------------------------
(* The model in use.                                                       *)

\* While a controller runs, it holds its model, and no call is making a part of it.
LEMMA Running ==
  ASSUME ClientInv, phase \in {"ready", "cycle"}
  PROVE  /\ ModelIsHeld /\ Members \subseteq Objects
         /\ \A m \in Members : m \notin making
         /\ routine # "none" =>
              \A i : Members \subseteq Present(routine, i) /\ Names(routine, i) = 4
<1>1. Members \subseteq Objects /\ "shapeInfo" \notin Members /\ "output" \notin Members
  BY ClientAssumption DEF ClientAssumption, Members
<1>2. routine # "loadModel" /\ (phase = "cycle" => routine # "none")
        /\ (phase = "ready" => routine = "none")
  BY DEF ClientInv, ClientTypeOK
<1>3. routine # "none" =>
        \A i : Members \subseteq Present(routine, i) /\ Names(routine, i) = 4
  BY <1>1, <1>2 DEF Present, InferPresent, Names
<1>4. \A m \in Members : m \notin making
  <2>1. CASE routine = "none"
    BY <2>1 DEF ClientInv, ScriptInv, ObjectInv, WrapInv
  <2>2. CASE routine # "none"
    <3>1. \A o \in making : o \in Constructs(routine, at)
      BY <2>2 DEF ClientInv, ScriptInv
    <3>2. Constructs(routine, at) \subseteq {"output"}
      BY <1>2 DEF Constructs
    <3> QED BY <1>1, <3>1, <3>2
  <2> QED BY <2>1, <2>2
<1>5. \A m \in Members : kind[m] # "gone"
  <2>1. CASE phase = "ready"
    BY <1>1, <2>1 DEF ClientInv, ScriptInv
  <2>2. CASE phase = "cycle"
    BY <1>2, <1>3, <2>2 DEF ClientInv, ScriptInv
  <2> QED BY <2>1, <2>2
<1>6. ASSUME NEW m \in Members PROVE kind[m] = "owner" /\ ptr[m] # Null
  <2>1. m \in Objects /\ kind[m] \in {"gone", "building", "owner", "unowned"}
    BY <1>1 DEF ClientInv, ObjectInv, TypeOK
  <2>2. kind[m] = "owner"
    BY <1>1, <1>4, <1>5, <2>1 DEF ClientInv, ObjectInv, WrapInv
  <2> QED BY <2>1, <2>2 DEF ClientInv, ObjectInv, WrapInv
<1> QED BY <1>1, <1>3, <1>4, <1>6 DEF ModelIsHeld

\* What a step leaves of the model, when it leaves the members alone.
ModelUntouched == /\ \A m \in Members : kind'[m] = kind[m] /\ ptr'[m] = ptr[m]
                  /\ bare' = bare

\* A call that succeeds makes or destroys automatic objects only.
LEMMA SucceedsLeaves ==
  ASSUME ClientInv, phase \in {"ready", "cycle"}, Succeeds
  PROVE  ModelUntouched
<1>1. /\ Fits(routine, at, Now) /\ routine # "none"
      /\ \A q \in Objects : kind[q] # "gone" <=> q \in Present(routine, at)
  BY DueFits DEF Succeeds, Due
<1>2. /\ Members \subseteq Objects /\ Members \subseteq Present(routine, at)
      /\ Names(routine, at) = 4 /\ Names(routine, at + 1) = 4
  BY <1>1, Running
<1>3. Now.act # "name"
  BY <1>1, <1>2 DEF Fits
<1>4. Now.act \in {"new", "part", "run", "end"} => \A m \in Members : m # Now.obj
  BY <1>1, <1>2 DEF Fits
<1>5. TypeOK
  BY DEF ClientInv, ObjectInv
<1> DEFINE o == Now.obj
<1>6. \/ Now.act = "new" /\ MakeOwner(CallOf(Now), Target, o)
      \/ Now.act = "part" /\ Borrow(CallOf(Now), Target, o)
      \/ Now.act = "run" /\ Run(Target, {o})
      \/ Now.act = "end" /\ (DropOwner(o) \/ DestroyUnowned(o))
      \/ Now.act \in {"plain", "read"} /\ UNCHANGED vars
  BY <1>3 DEF Succeeds
<1>7. CASE Now.act = "new" /\ MakeOwner(CallOf(Now), Target, o)
  <2>1. \A m \in Members : m # o
    BY <1>4, <1>7
  <2> HIDE DEF o
  <2>2. /\ \E h : ptr' = [ptr EXCEPT ![o] = h]
        /\ \E k : kind' = [kind EXCEPT ![o] = k]
        /\ bare' = bare
    BY <1>7 DEF MakeOwner
  <2> QED BY <1>2, <1>5, <2>1, <2>2 DEF ModelUntouched, TypeOK
<1>8. CASE Now.act = "part" /\ Borrow(CallOf(Now), Target, o)
  <2>1. \A m \in Members : m # o
    BY <1>4, <1>8
  <2> HIDE DEF o
  <2>2. /\ \E h : ptr' = [ptr EXCEPT ![o] = h]
        /\ kind' = [kind EXCEPT ![o] = "unowned"]
        /\ bare' = bare
    BY <1>8 DEF Borrow
  <2> QED BY <1>2, <1>5, <2>1, <2>2 DEF ModelUntouched, TypeOK
<1>9. CASE Now.act = "run" /\ Run(Target, {o})
  <2>1. \A m \in Members : m # o
    BY <1>4, <1>9
  <2> HIDE DEF o
  <2> QED BY <1>2, <1>9, <2>1 DEF Run, ModelUntouched
<1>10. CASE Now.act = "end" /\ (DropOwner(o) \/ DestroyUnowned(o))
  <2>1. \A m \in Members : m # o
    BY <1>4, <1>10
  <2> HIDE DEF o
  <2>2. /\ ptr' = [ptr EXCEPT ![o] = Null]
        /\ kind' = [kind EXCEPT ![o] = "gone"]
        /\ bare' = bare
    BY <1>10 DEF DropOwner, DestroyUnowned, Gone
  <2> QED BY <1>2, <1>5, <2>1, <2>2 DEF ModelUntouched, TypeOK
<1>11. CASE UNCHANGED vars
  BY <1>11 DEF vars, objects, ModelUntouched
<1> QED BY <1>6, <1>7, <1>8, <1>9, <1>10, <1>11

\* So do the rest of a call, and the calls that fail.
LEMMA CallsLeave ==
  ASSUME ClientInv, phase \in {"ready", "cycle"}, Continues \/ Fails
  PROVE  ModelUntouched
<1>1. Members \subseteq Objects /\ \A m \in Members : m \notin making
  BY Running
<1>2. CASE Continues
  <2>1. CASE SetLanguageProjection
    BY <1>1, <2>1 DEF SetLanguageProjection, Complete, ModelUntouched
  <2>2. CASE RunReturns
    BY <1>1, <2>2 DEF RunReturns, Complete, ModelUntouched
  <2>3. CASE ThrowOnError
    BY <2>3 DEF ThrowOnError, objects, ModelUntouched
  <2>4. CASE Unwind
    BY <1>1, <2>4 DEF Unwind, ModelUntouched
  <2> QED BY <1>2, <2>1, <2>2, <2>3, <2>4 DEF Continues
<1>3. CASE Fails
  <2>1. UNCHANGED <<objects, bare>>
    BY <1>3 DEF Fails, CallFails, SecondCallFails, CastThrows, FailWith, objects
  <2> QED BY <2>1 DEF objects, ModelUntouched
<1> QED BY <1>2, <1>3

\* And every other step of a controller that runs.
LEMMA StepLeaves ==
  ASSUME ClientInv, phase \in {"ready", "cycle"}, [ClientNext]_allVars
  PROVE  ModelUntouched
<1>1. CASE UNCHANGED allVars
  BY <1>1 DEF allVars, vars, objects, ModelUntouched
<1>2. CASE PolicyTick \/ EncoderDone \/ TickDone \/ Terminate
  BY <1>2 DEF PolicyTick, EncoderDone, TickDone, Terminate, vars, objects, ModelUntouched
<1>3. CASE Succeeds
  BY <1>3, SucceedsLeaves
<1>4. CASE Continues \/ Fails
  BY <1>4, CallsLeave
<1>5. CASE StartInit \/ ParameterMissing \/ InitSucceeds \/ NoSuchHandle \/ UnwindLocal
           \/ DropController
  <2>1. phase \in {"unloaded", "init"}
    BY <1>5 DEF StartInit, ParameterMissing, InitSucceeds, NoSuchHandle, UnwindLocal,
       DropController, Finished, ClientInv, ClientTypeOK
  <2> QED BY <2>1
<1> QED BY <1>1, <1>2, <1>3, <1>4, <1>5 DEF ClientNext

\* The sessions a controller infers with, their environment and the memory of the
\* history stay the same, and alive, from init() to the end of the process
\* (ControllerBase.h:105-107, ControllerBase.cpp:321-330).
THEOREM ModelStaysTheorem == ClientSpec => ModelStays
<1> DEFINE Stays == (phase \in {"ready", "cycle"}) =>
                      /\ ModelIsHeld'
                      /\ \A m \in Members : (ptr[m])' = ptr[m]
                      /\ bare' = bare
<1>1. ClientInv /\ [ClientNext]_allVars => Stays
  <2> SUFFICES ASSUME ClientInv, [ClientNext]_allVars, phase \in {"ready", "cycle"}
               PROVE  /\ ModelIsHeld'
                      /\ \A m \in Members : (ptr[m])' = ptr[m]
                      /\ bare' = bare
    OBVIOUS
  <2>1. ModelUntouched /\ ModelIsHeld
    BY StepLeaves, Running
  <2> QED BY <2>1 DEF ModelUntouched, ModelIsHeld
<1>2. ClientInv /\ [ClientNext]_allVars => [Stays]_allVars
  BY <1>1
<1> QED BY <1>2, ClientInvariance, PTL DEF ClientSpec, ModelStays
=============================================================================
