-------------------------- MODULE MCControllerConfig --------------------------
(***************************************************************************)
(* The two shipped configurations, and their neighbourhood: small joint    *)
(* lists with one or more parameters wrong.                                *)
(***************************************************************************)
EXTENDS ControllerConfig, SequencesExt

ShippedLeg(side) == <<"pitch" \o side, "roll" \o side, "yaw" \o side, "knee" \o side>>
SfJoints == ShippedLeg("L") \o <<"ankleL">> \o ShippedLeg("R") \o <<"ankleR">>
WfJoints == ShippedLeg("L") \o <<"wheelL">> \o ShippedLeg("R") \o <<"wheelR">>

MCKindOf ==
  [name \in Range(SfJoints) \cup Range(WfJoints) |->
     IF name \in {"wheelL", "wheelR"} THEN "wheel"
     ELSE IF name \in {"yawL", "yawR", "ankleL", "ankleR"} THEN "light" ELSE "leg"]

Net(ei, eo, pi, a) ==
  [encoderInput |-> ei, encoderOutput |-> eo, policyInput |-> pi, actions |-> a]

\* params.yaml of SF_TRON2A and of WF_TRON2A.
ShippedSf ==
  [variant |-> "SF", joints |-> SfJoints, sensorsGiven |-> FALSE, sensors |-> <<>>,
   gains |-> {"leg", "light"},
   modes |-> [i \in 1 .. 10 |-> "position"], gait |-> TRUE, actionsSize |-> 10,
   policyObsSize |-> 42, obsHistoryLength |-> 10, encoderInputSize |-> 420,
   encoderOutputSize |-> 3, policyInputSize |-> 48, net |-> Net(420, 3, 48, 10)]

ShippedWf ==
  [variant |-> "WF", joints |-> WfJoints, sensorsGiven |-> TRUE, sensors |-> WfJoints,
   gains |-> {"leg", "light", "wheel"},
   modes |-> [i \in 1 .. 10 |-> IF i \in {5, 10} THEN "velocity" ELSE "position"],
   gait |-> FALSE, actionsSize |-> 10, policyObsSize |-> 34, obsHistoryLength |-> 10,
   encoderInputSize |-> 340, encoderOutputSize |-> 3, policyInputSize |-> 40,
   net |-> Net(340, 3, 40, 10)]

\* Lists of two or three joints.
Lists == {<<"pitchL", "wheelL">>, <<"yawL", "pitchL">>, <<"wheelL", "pitchL", "yawL">>}

\* The sensor lists that may go with them: missing, empty, and permuted, too short,
\* too long, with a foreign name and with one twice.
SensorLists(joints) ==
  {[given |-> FALSE, list |-> <<>>]} \cup
  {[given |-> TRUE, list |-> list] :
     list \in {<<>>, Reverse(joints), Tail(joints), Append(joints, "rollR"),
              [joints EXCEPT ![1] = "rollR"], [joints EXCEPT ![1] = joints[2]]}}

RightModes(joints) ==
  [i \in DOMAIN joints |-> IF MCKindOf[joints[i]] = "wheel" THEN "velocity" ELSE "position"]

Around(variant, joints) ==
  LET n == Len(joints)
      wheels == Cardinality({i \in 1 .. n : MCKindOf[joints[i]] = "wheel"})
      size(gait) == 6 + 3 * n - (IF variant = "WF" THEN wheels ELSE 0)
                    + (IF gait THEN 6 ELSE 0)
  IN UNION {
       {[variant |-> variant, joints |-> joints, sensorsGiven |-> sensors.given,
         sensors |-> sensors.list, gains |-> gains, modes |-> modes, gait |-> gait,
         actionsSize |-> a,
         policyObsSize |-> size(gait) + d, obsHistoryLength |-> 2,
         encoderInputSize |-> 2 * (size(gait) + e), encoderOutputSize |-> 1,
         policyInputSize |-> 4 + size(gait) + p,
         net |-> Net(2 * size(gait), 1, 4 + size(gait), n)] :
          sensors \in SensorLists(joints), gains \in {{"leg", "light", "wheel"}, {"leg"}},
          modes \in {RightModes(joints), Tail(RightModes(joints)),
                     [i \in 1 .. n |-> "position"]},
          a \in {n - 1, n, n + 1}, d \in {-1, 0, 1}, e \in {0, 1}, p \in {-1, 0, 1}} :
       gait \in BOOLEAN}

NoJoints == [ShippedSf EXCEPT !.joints = <<>>]

MCConfigs == {ShippedSf, ShippedWf, NoJoints}
               \cup UNION {Around(variant, joints) : variant \in {"WF", "SF"}, joints \in Lists}

\* The shipped parameters fit together.
ASSUME ShippedAreConsistent == Consistent(ShippedSf) /\ Consistent(ShippedWf)
============================================================================
