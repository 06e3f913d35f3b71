--------------------------- MODULE ControllerConfig ---------------------------
(***************************************************************************)
(* What ControllerBase makes of its parameters.                            *)
(*                                                                         *)
(* loadRLCfg checks one thing: that there are joints.  Every other         *)
(* parameter is taken as it is, and a missing one leaves what was there: a *)
(* zero, or nothing at all.  The vectors, tensors and indices built from   *)
(* them are used unchecked in every policy tick.  Here one controller is   *)
(* loaded and ticks once, for a configuration out of many; "faults"        *)
(* records each access that does not do what it should.                    *)
(*                                                                         *)
(* Numbers are symbols: an entry of the observation is a tuple that says   *)
(* what it holds, an angle with the joint it belongs to and the joint      *)
(* whose default was taken off.  Indices count from 1.                     *)
(***************************************************************************)
EXTENDS Integers, Sequences, FiniteSets, Functions

CONSTANTS
  Configs,   \* the parameters a controller may be given
  KindOf     \* what a joint's name says: "wheel", "light" (yaw, ankle), "leg"

Garbage == "garbage"   \* memory nobody has written

Kinds == {"wheel", "light", "leg"}

ASSUME KindOfAssumption ==
  /\ KindOf \in [DOMAIN KindOf -> Kinds]
  /\ Garbage \notin DOMAIN KindOf

\* The parameters have the types getParam asks for, and no size is negative.
\* Nothing is assumed of their values.
ASSUME ConfigsAssumption ==
  \A c \in Configs :
    /\ c.variant \in {"WF", "SF"}
    /\ c.joints \in Seq(DOMAIN KindOf)
    /\ c.sensorsGiven \in BOOLEAN
    /\ c.sensors \in Seq(DOMAIN KindOf)
    /\ c.modes \in Seq(STRING)
    /\ c.gains \subseteq Kinds
    /\ c.gait \in BOOLEAN
    /\ c.actionsSize \in Nat
    /\ c.policyObsSize \in Nat
    /\ c.obsHistoryLength \in Nat
    /\ c.encoderInputSize \in Nat
    /\ c.encoderOutputSize \in Nat
    /\ c.policyInputSize \in Nat
    /\ c.net \in [encoderInput : Nat, encoderOutput : Nat, policyInput : Nat, actions : Nat]

VARIABLES
  pc,        \* what the controller does next
  given,     \* the parameters
  idx,       \* cfg_.actionToSensorIdx
  gain,      \* cfg_.kp and kd, per joint: whose parameters they come from
  obs,       \* observations_
  input,     \* the input of the policy
  driven,    \* how each joint is commanded
  faults     \* what went wrong

vars == <<pc, given, idx, gain, obs, input, driven, faults>>

Unset == <<Garbage>>   \* an entry nobody has written
Zero  == <<"zero">>    \* an entry as setZero leaves it

\* sensor_joint_names defaults to joint_names.  A list that is given is taken,
\* an empty one too.
Sensors(c) == IF c.sensorsGiven THEN c.sensors ELSE c.joints

Init ==
  /\ given \in Configs
  /\ pc = "load"
  /\ idx = <<>>
  /\ gain = <<>>
  /\ obs = <<>>
  /\ input = <<>>
  /\ driven = <<>>
  /\ faults = {}

----------------------------------------------------------------------------
(* loadRLCfg.                                                              *)

Occurs(name, names) == {i \in DOMAIN names : names[i] = name}

\* MUTANT of SensorIdx: the loop that fills the map stops one sensor early.
SensorIdxButLast(name, names) ==
  LET found == Occurs(name, names) \ {Len(names)}
  IN IF found = {} THEN 1 ELSE CHOOSE i \in found : \A j \in found : j <= i

\* sensorIdxByName[name]: the last position of the name; operator[] inserts
\* the first of all for a name that has none.
SensorIdx(name, names) ==
  IF Occurs(name, names) = {} THEN 1
  ELSE CHOOSE i \in Occurs(name, names) :
         \A j \in Occurs(name, names) : j <= i

ActionToSensorIdx(c) ==
  [i \in DOMAIN c.joints |-> SensorIdx(c.joints[i], Sensors(c))]

\* push_back of every i of T, for i = 1 .. n in this order.
PushBack(T, n) ==
  LET pushed[i \in 0 .. n] ==
        IF i = 0 THEN <<>>
        ELSE IF i \in T THEN Append(pushed[i - 1], i) ELSE pushed[i - 1]
  IN pushed[n]

NonWheel(names) == {i \in DOMAIN names : KindOf[names[i]] # "wheel"}

NonWheelSensorIdx(c) == PushBack(NonWheel(Sensors(c)), Len(Sensors(c)))

\* A joint's gains are those of its kind; the locals they are read into are not
\* initialized.
Gain(c, i) ==
  LET kind == KindOf[c.joints[i]]
  IN IF kind \in c.gains THEN kind ELSE Garbage

\* The defaults are read for the first sensors, one for each joint.
DefaultsFault(c) ==
  IF Len(Sensors(c)) < Len(c.joints) THEN {"sensorJointNames read past its end"}
  ELSE {}

LoadRLCfg ==
  /\ pc = "load"
  /\ given.joints # <<>>
  /\ pc' = "observe"
  /\ idx' = ActionToSensorIdx(given)
  /\ gain' = [i \in DOMAIN given.joints |-> Gain(given, i)]
  /\ obs' = [k \in 1 .. given.policyObsSize |-> Zero]
  /\ faults' = DefaultsFault(given)
  /\ UNCHANGED <<given, input, driven>>

\* Without joints init() fails, and the controller is not loaded.
LoadRefused ==
  /\ pc = "load"
  /\ given.joints = <<>>
  /\ pc' = "refused"
  /\ UNCHANGED <<given, idx, gain, obs, input, driven, faults>>

----------------------------------------------------------------------------
(* computeObservation of the two variants.                                 *)

Imu     == [i \in 1 .. 6 |-> <<"imu", i>>]
Past(n) == [i \in 1 .. n |-> <<"lastAction", i>>]
Gait(c) == [i \in 1 .. (IF c.gait THEN 6 ELSE 0) |-> <<"gait", i>>]

\* The segments, written one behind the other, with the n last actions.
Segments(c, pos, vel, n) == Imu \o pos \o vel \o Past(n) \o Gait(c)

\* Entry s of qSensor and dqSensor, for the map "at": the joint written to it last.
AtSensor(c, at, s) ==
  LET writers == {i \in 1 .. c.actionsSize : at[i] = s}
  IN IF writers = {} THEN Garbage
     ELSE c.joints[CHOOSE i \in writers : \A j \in writers : j <= i]

DefaultOfSensor(c, s) ==
  IF s <= Len(c.joints) /\ s <= Len(Sensors(c)) THEN Sensors(c)[s] ELSE Garbage

\* MUTANT of WheelfootSegments: the offsets are those of the joint at that
\* place, not of the sensor.
WheelfootSegmentsByJoint(c, at) ==
  LET legs == NonWheelSensorIdx(c)
  IN Segments(c,
       [k \in DOMAIN legs |->
          <<"pos", AtSensor(c, at, legs[k]),
            IF k <= Len(c.joints) THEN c.joints[k] ELSE Garbage>>],
       [s \in 1 .. c.actionsSize |-> <<"vel", AtSensor(c, at, s)>>],
       c.actionsSize)

WheelfootSegments(c, at) ==
  LET legs == NonWheelSensorIdx(c)
  IN Segments(c,
       [k \in DOMAIN legs |->
          <<"pos", AtSensor(c, at, legs[k]), DefaultOfSensor(c, legs[k])>>],
       [s \in 1 .. c.actionsSize |-> <<"vel", AtSensor(c, at, s)>>],
       c.actionsSize)

SolefootSegments(c) ==
  Segments(c,
    [i \in 1 .. c.actionsSize |-> <<"pos", c.joints[i], c.joints[i]>>],
    [i \in 1 .. c.actionsSize |-> <<"vel", c.joints[i]>>],
    c.actionsSize)

WheelfootFaults ==
  LET n == given.actionsSize
  IN (IF \E i \in 1 .. n : idx[i] > n THEN {"qSensor written past its end"} ELSE {})
     \cup (IF \E i \in NonWheel(Sensors(given)) : i > n
           THEN {"qSensor read past its end"} ELSE {})

\* More actions than joints: the handles end.
HandleFaults ==
  IF given.actionsSize > Len(given.joints) THEN {"handles read past their end"} ELSE {}

\* The segments are written one behind the other into the vector init() sized.
ComputeObservation ==
  LET wheelfoot == given.variant = "WF"
      segments  == IF wheelfoot THEN WheelfootSegments(given, idx)
                   ELSE SolefootSegments(given)
      size      == given.policyObsSize
  IN /\ pc = "observe"
     /\ IF HandleFaults # {}
        THEN /\ faults' = faults \cup HandleFaults
             /\ pc' = "aborted"
             /\ UNCHANGED obs
        ELSE /\ obs' = [k \in 1 .. size |->
                          IF k <= Len(segments) THEN segments[k] ELSE obs[k]]
             /\ faults' = faults \cup (IF wheelfoot THEN WheelfootFaults ELSE {})
                  \cup (IF Len(segments) > size
                        THEN {"observations_ written past its end"} ELSE {})
             /\ pc' = "infer"
     /\ UNCHANGED <<given, idx, gain, input, driven>>

----------------------------------------------------------------------------
(* computeEncoder, computeActions, applyActions.                           *)

Encoded(n) == [i \in 1 .. n |-> <<"encoded", i>>]
Command    == [i \in 1 .. 3 |-> <<"command", i>>]

\* n outputs of the encoder, the observation, the command.
PolicyInput(n, observation) == Encoded(n) \o observation \o Command

\* What the encoder is shown: a view of the history.
EncoderInput ==
  [k \in 1 .. given.encoderInputSize |->
     IF k <= given.obsHistoryLength * given.policyObsSize THEN <<"history", k>> ELSE Unset]

\* The tensors are views of given sizes over the history and the policy's
\* input; a network refuses a size that is not its own, and has so many outputs.
Infer ==
  LET parts == PolicyInput(given.encoderOutputSize, obs)
      size  == given.policyInputSize
  IN /\ pc = "infer"
     /\ input' = [k \in 1 .. size |-> IF k <= Len(parts) THEN parts[k] ELSE Unset]
     /\ faults' = faults
          \cup (IF given.encoderInputSize > given.obsHistoryLength * given.policyObsSize
                THEN {"history read past its end"} ELSE {})
          \cup (IF given.encoderInputSize # given.net.encoderInput
                   \/ size # given.net.policyInput
                THEN {"the network refuses its input"} ELSE {})
          \cup (IF given.encoderOutputSize > given.net.encoderOutput
                   \/ given.actionsSize > given.net.actions
                THEN {"output read past its end"} ELSE {})
          \cup (IF Len(parts) > size THEN {"policyInput written past its end"} ELSE {})
     /\ pc' = "apply"
     /\ UNCHANGED <<given, idx, gain, obs, driven>>

\* How setCommand leaves a joint: driven in velocity, driven in position, or
\* damped.  (The stiffness of a wheel is 0, whatever the parameters.)
Drive(c, i) ==
  IF c.variant = "WF" /\ c.modes[i] = "velocity" THEN "velocity"
  ELSE IF KindOf[c.joints[i]] = "wheel" THEN "damped" ELSE "position"

\* WheelfootController asks the mode of every joint; SolefootController none.
ApplyActions ==
  LET n == given.actionsSize
      short == given.variant = "WF" /\ Len(given.modes) < n
  IN /\ pc = "apply"
     /\ IF short
        THEN /\ faults' = faults \cup {"jointModes read past its end"}
             /\ pc' = "aborted"
             /\ UNCHANGED driven
        ELSE /\ driven' = [i \in 1 .. n |-> Drive(given, i)]
             /\ pc' = "done"
             /\ UNCHANGED faults
     /\ UNCHANGED <<given, idx, gain, obs, input>>

Next == LoadRLCfg \/ LoadRefused \/ ComputeObservation \/ Infer \/ ApplyActions

Spec == Init /\ [][Next]_vars

----------------------------------------------------------------------------
(* The layout the networks were trained for.                               *)

\* The position of the k-th leg joint of a list.
KthLeg(names, k) ==
  CHOOSE i \in NonWheel(names) : Cardinality({j \in NonWheel(names) : j <= i}) = k

Legs(names) ==
  [k \in 1 .. Cardinality(NonWheel(names)) |-> names[KthLeg(names, k)]]

Layout(c) ==
  LET names == IF c.variant = "WF" THEN Sensors(c) ELSE c.joints
      held  == IF c.variant = "WF" THEN Legs(names) ELSE names
  IN Segments(c, [k \in DOMAIN held |-> <<"pos", held[k], held[k]>>],
                 [k \in DOMAIN names |-> <<"vel", names[k]>>],
                 Len(c.joints))

\* What a joint of this kind needs: a wheel turns, a leg holds its pose.
Wanted(name) == IF KindOf[name] = "wheel" THEN "velocity" ELSE "position"

\* The conditions on the parameters, none of which the code checks.
Consistent(c) ==
  /\ c.variant = "WF" => IsInjective(Sensors(c)) /\ Range(Sensors(c)) = Range(c.joints)
  /\ Len(Sensors(c)) >= Len(c.joints)
  /\ c.actionsSize = Len(c.joints)
  /\ \A i \in DOMAIN c.joints : KindOf[c.joints[i]] \in c.gains
  /\ \A i \in DOMAIN c.joints :
       IF c.variant = "WF"
       THEN i <= Len(c.modes)
              /\ (c.modes[i] = "velocity" <=> KindOf[c.joints[i]] = "wheel")
       ELSE KindOf[c.joints[i]] # "wheel"
  /\ c.policyObsSize = Len(Layout(c))
  /\ c.encoderInputSize = c.obsHistoryLength * c.policyObsSize
  /\ c.policyInputSize = c.encoderOutputSize + c.policyObsSize + 3
  /\ c.net = [encoderInput |-> c.encoderInputSize, encoderOutput |-> c.encoderOutputSize,
              policyInput |-> c.policyInputSize, actions |-> c.actionsSize]

----------------------------------------------------------------------------
(* Safety.                                                                 *)

\* The tick is as it should be: the encoder sees the whole history, every input
\* of the policy is the one it was trained with, each of its actions drives a
\* joint the way the joint's kind needs, with gains that were given, and no access
\* has gone wrong.
Sound ==
  /\ faults = {}
  /\ EncoderInput = [k \in 1 .. given.obsHistoryLength * given.policyObsSize |->
                       <<"history", k>>]
  /\ input = PolicyInput(given.net.encoderOutput, Layout(given))
  /\ driven = [i \in 1 .. given.net.actions |-> Wanted(given.joints[i])]
  /\ DOMAIN driven = DOMAIN given.joints
  /\ Garbage \notin Range(gain)

\* The code copes with exactly the consistent configurations: none of the
\* conditions is checked, none is too many, and none is missing.
ConsistentIsSound ==
  pc \in {"done", "aborted"} => (Sound <=> Consistent(given))

MapsToItsName(i) ==
  /\ idx[i] \in DOMAIN Sensors(given)
  /\ Sensors(given)[idx[i]] = given.joints[i]

\* Whatever the lists hold, and wherever a name stands twice: every joint is
\* mapped to a sensor of its name if and only if every joint has one, and to some
\* sensor in any case - unless there is none, as an empty list makes it.
IndexMapMatches ==
  pc \notin {"load", "refused"} =>
    /\ Sensors(given) # <<>> => Range(idx) \subseteq DOMAIN Sensors(given)
    /\ (\A i \in DOMAIN given.joints : MapsToItsName(i))
         <=> Range(given.joints) \subseteq Range(Sensors(given))
============================================================================
