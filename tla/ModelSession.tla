----------------------------- MODULE ModelSession -----------------------------
(***************************************************************************)
(* The controller as a client of the ONNX Runtime wrapper: init() with     *)
(* loadModel(), and the two inferences of a policy tick.  Each routine is  *)
(* the sequence of its calls; every call may fail.  An exception destroys  *)
(* the automatic objects, but not what loadModel() made with new or keeps  *)
(* by a char*: controller_manager catches it and drops the controller.  In *)
(* the loop thread nobody catches it and the process ends.                 *)
(***************************************************************************)
EXTENDS OrtWrapper, Sequences

CONSTANT MaxLoads   \* how often the controller is loaded, at most

\* The objects of the code.  The first four outlive the routines.
Members == {"env", "policy", "encoder", "history"}
Automatic == {"options", "typeInfo", "shapeInfo", "policyInput", "memoryInfo",
              "inputTensor", "output"}

ASSUME ClientAssumption == /\ Objects = Members \cup Automatic
                           /\ MaxLoads \in Nat

\* The calls a routine consists of.
Step(act, obj, on, gives) == [act |-> act, obj |-> obj, on |-> on, gives |-> gives]
New(obj, on, gives)  == Step("new", obj, on, gives)
Part(obj, on, gives) == Step("part", obj, on, gives)
Plain(on)            == Step("plain", "none", on, "None")
Name(on)             == Step("name", "none", on, "Memory")
RunInto(obj, on)     == Step("run", obj, on, "Value")
Reads(on)            == Step("read", "none", on, "None")
End(obj)             == Step("end", obj, "none", "None")

\* The loops over the inputs and outputs of a session, which has one of each:
\* the count is asked for again before the loop ends.
InputNames(s) ==
  <<Plain(s), Name(s), New("typeInfo", s, "TypeInfo"),
    Part("shapeInfo", "typeInfo", "TensorTypeAndShapeInfo"),
    Plain("shapeInfo"), Plain("shapeInfo"), End("shapeInfo"), End("typeInfo"),
    Plain(s)>>

OutputNames(s) == <<Plain(s), Name(s), Plain(s)>>

LoadModel ==
  <<New("env", "none", "Env"), New("options", "none", "SessionOptions"),
    Plain("options"), Plain("options"),
    New("policy", "env", "Session"), New("encoder", "env", "Session"), Plain("none")>>
  \o InputNames("policy") \o OutputNames("policy")
  \o InputNames("encoder") \o OutputNames("encoder") \o <<End("options")>>

\* A mutant: the session is closed after a run.
InferCloses(session, floats) ==
  <<New("memoryInfo", "none", "MemoryInfo"), New("inputTensor", floats, "Value"),
    RunInto("output", session), Plain("output"), Reads("output"), End("output"),
    End("inputTensor"), End("memoryInfo"), End(session)>>

\* Both inferences: a tensor over the caller's floats, the run, the copy of its
\* output, and the destructors in reverse order.
Infer(session, floats) ==
  <<New("memoryInfo", "none", "MemoryInfo"), New("inputTensor", floats, "Value"),
    RunInto("output", session), Plain("output"), Reads("output"), End("output"),
    End("inputTensor"), End("memoryInfo")>>

ComputeEncoder == Infer("encoder", "history")

\* A mutant: the input vector is a temporary, gone before the run.
ComputeActionsTemporary ==
  <<New("policyInput", "none", "Memory"), New("memoryInfo", "none", "MemoryInfo"),
    New("inputTensor", "policyInput", "Value"), End("policyInput"),
    RunInto("output", "policy"), Plain("output"), Reads("output"), End("output"),
    End("inputTensor"), End("memoryInfo")>>

ComputeActions ==
  <<New("policyInput", "none", "Memory")>> \o Infer("policy", "policyInput")
  \o <<End("policyInput")>>

Routine(r) == IF r = "loadModel" THEN LoadModel
              ELSE IF r = "computeEncoder" THEN ComputeEncoder
              ELSE ComputeActions

-----------------------------------------------------------------------------
VARIABLES
  phase,     \* "unloaded", "init", "ready", "cycle" or "terminated"
  routine,   \* the routine that runs, or "none"
  at,        \* its next step
  loads,     \* how often init() was called
  leaked     \* what controllers that are gone have left behind

client == <<phase, routine, at, loads, leaked>>
allVars == <<vars, client>>

ClientTypeOK ==
  /\ TypeOK
  /\ phase \in {"unloaded", "init", "ready", "cycle", "terminated"}
  /\ routine \in {"none", "loadModel", "computeEncoder", "computeActions"}
  /\ at \in 1 .. Len(LoadModel) + 1
  /\ loads \in 0 .. MaxLoads
  /\ leaked \subseteq Handles
  /\ phase = "init" <=> routine = "loadModel"
  /\ phase = "cycle" <=> routine \in {"computeEncoder", "computeActions"}

ClientInit ==
  /\ Init
  /\ phase = "unloaded"
  /\ routine = "none"
  /\ at = 1
  /\ loads = 0
  /\ leaked = {}

Enter(r) == routine' = r /\ at' = 1

\* The step that is due, when the wrapper is not in the middle of one.
Due == routine # "none" /\ at <= Len(Routine(routine)) /\ Idle
Now == Routine(routine)[at]
Target == IF Now.on = "none" THEN Null ELSE ptr[Now.on]
ClassOf(on) == IF on = "none" THEN "None" ELSE type[on]

CallOf(s) ==
  Call(ClassOf(s.on),
       IF s.act = "new" THEN "owner" ELSE IF s.act = "part" THEN "part"
       ELSE IF s.act = "name" THEN "bare" ELSE "plain",
       s.gives,
       <<ClassOf(s.on), s.gives>> \in {<<"Env", "Session">>, <<"Memory", "Value">>,
                                       <<"TypeInfo", "TensorTypeAndShapeInfo">>})

\* A step is over when the wrapper has no call in progress.
Advance == at' = IF stage' = "idle" THEN at + 1 ELSE at

Succeeds ==
  /\ Due
  /\ \/ Now.act = "new" /\ MakeOwner(CallOf(Now), Target, Now.obj)
     \/ Now.act = "part" /\ Borrow(CallOf(Now), Target, Now.obj)
     \/ Now.act = "name" /\ TakeBare(CallOf(Now), Target)
     \/ Now.act = "run" /\ Run(Target, {Now.obj})
     \/ Now.act = "end" /\ (DropOwner(Now.obj) \/ DestroyUnowned(Now.obj))
     \/ Now.act \in {"plain", "read"} /\ UNCHANGED vars
  /\ Advance
  /\ UNCHANGED <<phase, routine, loads, leaked>>

\* The rest of a call that takes more than one step of the wrapper.
Continues ==
  /\ routine # "none"
  /\ SetLanguageProjection \/ RunReturns \/ ThrowOnError \/ Unwind
  /\ Advance
  /\ UNCHANGED <<phase, routine, loads, leaked>>

\* Allocating policyInput and copying the output are no calls of the wrapper.
Fails ==
  /\ routine # "none"
  /\ \/ /\ Due /\ Now.act \in {"new", "part", "name", "plain"} /\ Now.gives # "Memory"
        /\ CallFails(CallOf(Now), Target)
     \/ Due /\ Now.act = "name" /\ CallFails(CallOf(Now), Target)
     \/ Due /\ Now.act = "part" /\ CastThrows(CallOf(Now), Target)
     \/ SecondCallFails
  /\ UNCHANGED client

-----------------------------------------------------------------------------
StartInit ==
  /\ phase = "unloaded" /\ loads < MaxLoads
  /\ phase' = "init"
  /\ loads' = loads + 1
  /\ Enter("loadModel")
  /\ UNCHANGED <<vars, leaked>>

Finished(r) == routine = r /\ at > Len(Routine(r))

\* policyFile or encoderFile is missing: loadModel() returns before its first call.
ParameterMissing ==
  /\ routine = "loadModel" /\ at = 1 /\ Idle
  /\ phase' = "unloaded"
  /\ Enter("none")
  /\ UNCHANGED <<vars, loads, leaked>>

\* proprioHistoryBuffer_ gets its memory at the end of init().
InitSucceeds ==
  /\ Finished("loadModel")
  /\ MakeOwner(Call("None", "owner", "Memory", FALSE), Null, "history")
  /\ phase' = "ready"
  /\ Enter("none")
  /\ UNCHANGED <<loads, leaked>>

\* getHandle() throws for a joint or an IMU the robot does not have.
NoSuchHandle ==
  /\ Finished("loadModel") /\ Idle
  /\ stage' = "thrown"
  /\ UNCHANGED <<heap, objects, bare, making, array, buffer, status, before, client>>

\* The automatic objects go first, the newest of them before the older ones.
Order == <<"options", "typeInfo", "shapeInfo">>
Newest(o) == /\ kind[o] # "gone"
             /\ \E i \in DOMAIN Order :
                  /\ Order[i] = o
                  /\ \A j \in i + 1 .. Len(Order) : kind[Order[j]] = "gone"

\* A mutant: automatic objects that were made with new as well.
UnwindLocalLeaks ==
  /\ stage = "thrown" /\ phase = "init"
  /\ \E o \in Objects :
       /\ Newest(o)
       /\ kind' = [kind EXCEPT ![o] = "gone"]
       /\ type' = [type EXCEPT ![o] = "none"]
       /\ ptr' = [ptr EXCEPT ![o] = Null]
  /\ UNCHANGED <<heap, bare, progress, client>>

UnwindLocal ==
  /\ stage = "thrown" /\ phase = "init"
  /\ \E o \in Objects :
       /\ Newest(o)
       /\ IF kind[o] = "owner" THEN Release({ptr[o]}) ELSE UNCHANGED heap
       /\ kind' = [kind EXCEPT ![o] = "gone"]
       /\ type' = [type EXCEPT ![o] = "none"]
       /\ ptr' = [ptr EXCEPT ![o] = Null]
  /\ UNCHANGED <<bare, progress, client>>

\* controller_manager drops the controller; nothing deletes what it points to.
DropController ==
  /\ stage = "thrown" /\ phase = "init"
  /\ \A o \in Automatic : kind[o] = "gone"
  /\ leaked' = leaked \cup bare \cup {ptr[o] : o \in {m \in Members : ptr[m] # Null}}
  /\ bare' = {}
  /\ kind' = [o \in Objects |-> "gone"]
  /\ type' = [o \in Objects |-> "none"]
  /\ ptr' = [o \in Objects |-> Null]
  /\ stage' = "idle"
  /\ before' = {}
  /\ phase' = "unloaded"
  /\ Enter("none")
  /\ UNCHANGED <<heap, making, array, buffer, status, loads>>

\* A policy tick: the encoder, then the policy.
PolicyTick ==
  /\ phase = "ready"
  /\ phase' = "cycle"
  /\ Enter("computeEncoder")
  /\ UNCHANGED <<vars, loads, leaked>>

EncoderDone ==
  /\ Finished("computeEncoder") /\ Idle
  /\ Enter("computeActions")
  /\ UNCHANGED <<vars, phase, loads, leaked>>

TickDone ==
  /\ Finished("computeActions") /\ Idle
  /\ phase' = "ready"
  /\ Enter("none")
  /\ UNCHANGED <<vars, loads, leaked>>

\* The loop thread has no handler.
Terminate ==
  /\ stage = "thrown" /\ phase = "cycle"
  /\ phase' = "terminated"
  /\ stage' = "idle"
  /\ Enter("none")
  /\ UNCHANGED <<heap, objects, bare, making, array, buffer, status, before, loads, leaked>>

ClientNext ==
  \/ StartInit \/ ParameterMissing \/ Succeeds \/ Continues \/ Fails
  \/ InitSucceeds \/ NoSuchHandle \/ UnwindLocal \/ DropController
  \/ PolicyTick \/ EncoderDone \/ TickDone \/ Terminate

ClientSpec == ClientInit /\ [][ClientNext]_allVars

-----------------------------------------------------------------------------
\* Each call of loadModel and of an inference is made on a C object that is
\* alive: the TypeInfo behind a borrowed shape, the Env behind a Session, the
\* floats under the input tensor, the output whose data is copied
\* (ControllerBase.cpp:265, :321-330).
StepsUseTheLiving ==
  Due /\ Now.on # "none" =>
    /\ kind[Now.on] \in {"owner", "unowned"}
    /\ class[Target] = type[Now.on]

\* The controller keeps the wrapper's contract on lifetimes, on the way back from
\* an exception too: what a living C object works on is alive.
NeedsAreAlive ==
  \A h \in Live : uses[h] # Null =>
    <<class[uses[h]], class[h]>> \in {<<"Env", "Session">>, <<"Memory", "Value">>,
                                      <<"TypeInfo", "TensorTypeAndShapeInfo">>}

LifetimesNest == ClientTypeOK /\ StepsUseTheLiving /\ NeedsAreAlive

\* All loads have failed, or all but the one under way or in use.
ModelNames == 4
FailedLoads == IF phase = "unloaded" THEN loads ELSE loads - 1

\* Between two routines only the model is there: no tick, however it went, leaves
\* a C object behind, and a controller that failed to load leaves at most its
\* environment, its two sessions and their names.
OnlyModelsOutlive ==
  (routine = "none" /\ phase # "terminated") =>
    /\ Live = {ptr[m] : m \in {q \in Members : ptr[q] # Null}} \cup bare \cup leaked
    /\ phase = "ready" => Cardinality(bare) = ModelNames
    /\ {class[h] : h \in leaked} \subseteq {"Env", "Session", "Memory"}
    /\ Cardinality(leaked) <= FailedLoads * (3 + ModelNames)

\* The model a controller infers with is whole and stays the same for its life:
\* the sessions, their environment and the memory of the history.
ModelIsHeld == \A m \in Members : kind[m] = "owner" /\ ptr[m] # Null
ModelStays ==
  [][(phase \in {"ready", "cycle"}) =>
       /\ ModelIsHeld'
       /\ \A m \in Members : (ptr[m])' = ptr[m]
       /\ bare' = bare]_allVars
=============================================================================
