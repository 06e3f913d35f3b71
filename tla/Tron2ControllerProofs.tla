----------------------- MODULE Tron2ControllerProofs -----------------------
(***************************************************************************)
(* The safety properties of Tron2Controller for every Decimation, HistLen, *)
(* StandSteps and MaxVx.  Each is implied by one conjunct of an inductive  *)
(* invariant; the conjuncts are proved one after the other, those before   *)
(* being used by those after.  At the end, Tron2Controller implements the  *)
(* safety part of ControllerSession.                                       *)
(***************************************************************************)
EXTENDS Tron2ControllerSession, TLAPS

ResetPcs    == {"resetCount", "resetFirst", "resetLast", "zeroRows"}
ComputePcs  == CountPcs \cup TickPcs \cup {"apply"}

\* A copied row has a row to go to; a tick begins with the first row.
RowInv ==
  /\ loopPc = "shiftStore" => loopRow < HistLen
  /\ loopPc \notin {"fill", "shiftLoad", "shiftStore"} => loopRow = 1

\* A switch is asked for, and performed, only while the spinner waits for it.
SwitchInv ==
  /\ doSwitch # "none" => spinPc = "waitSwitch"
  /\ loopPc \in StartingPcs => doSwitch = "start"

\* What each assignment of starting() set stays as it was set.
StartInv ==
  /\ loopPc \in {"starting2", "starting3", "started"} =>
       mode = "STAND" /\ loopCount = 0 /\ isFirstObs /\ standPercent = 0
  /\ loopPc \in {"starting3", "started"} =>
       actions = "zero" /\ lastActions = "zero" /\ history = ZeroHistory
  /\ loopPc = "started" => command = 0

\* Before a WALK message: the cycles are not counted in STAND, and at most one
\* is counted, the one IDLE overtakes between the two reads of mode_.
WalkInv ==
  /\ mode = "STAND" => ~walkAsked /\ loopCount = 0 /\ loopPc \notin ComputePcs
  /\ spinPc \in ResetPcs => walkAsked
  /\ ~walkAsked =>
       /\ mode # "WALK"
       /\ loopPc \in ComputePcs => mode = "IDLE"
       /\ loopPc = "checkStand" => loopCount = 0 /\ seenMode = "STAND"
       /\ loopPc = "countLoad" => loopCount = 0
       /\ loopPc \in {"countStore", "test"} => seenCount = 0
       /\ loopPc = "test" => loopCount = NextCount(0)
       /\ Decimation > 1 => loopPc \notin TickPcs

\* From the first command written in IDLE on, the loop is in no branch of
\* update() but the damping one.
IdleInv ==
  idleWritten =>
    /\ mode = "IDLE"
    /\ loopPc \notin {"starting2", "starting3", "started"}
    /\ ctl = "running" =>
         /\ loopPc \in {"update", "checkIdle", "switch", "write", "starting1"}
         /\ loopPc \in {"switch", "write"} => cmd = "damp"

\* While the actions are not those of the walk in progress, loopCount_ is not
\* behind the cycles counted, unless the tick that renews them is due.
FreshInv ==
  /\ spinPc \in ResetPcs => walkCycles = 0
  /\ loopPc \in {"starting2", "starting3", "started"} => walkCycles = 0
  /\ loopPc = "test" /\ NextCount(seenCount) = 0 => loopCount = 0
  /\ \/ actions = "new"
     \/ loopPc \in TickPcs
     \/ loopPc = "test" /\ NextCount(seenCount) = 0
     \/ /\ walkCycles <= loopCount
        /\ loopPc = "countStore" => walkCycles <= seenCount
  /\ loopPc = "record" /\ actions # "new" => walkCycles = 0

NoOldRow == (\A r \in Rows : history[r] # "old") /\ seenRow # "old"

\* After isFirstObs_ was set for the walk, either the next tick fills every row
\* or no old row is left.
HistInv ==
  /\ loopPc # "shiftStore" => seenRow = "zero"
  /\ walkTick # "overFill" =>
       /\ loopPc = "fill" => \A r \in Rows : r < loopRow => history[r] # "old"
       /\ spinPc \notin {"resetCount", "resetFirst"} => isFirstObs \/ NoOldRow
  /\ walkTick = "clean" =>
       /\ spinPc \notin ResetPcs
       /\ loopPc \in {"shiftLoad", "shiftStore", "encode"} => ~isFirstObs

IInv ==
  /\ TypeOK
  /\ RowInv
  /\ SwitchInv
  /\ StartInv
  /\ WalkInv
  /\ IdleInv
  /\ FreshInv
  /\ HistInv
----------------------------------------------------------------------------
USE DecimationAssumption, HistLenAssumption, StandStepsAssumption,
    SticksAssumption
USE DEF DecimationAssumption, HistLenAssumption, StandStepsAssumption,
        SticksAssumption

\* The initial state is typed.
LEMMA InitTypes == ASSUME Init PROVE TypeOK
<1>1. history \in [Rows -> Ages]
  BY DEF Init, ZeroHistory, Ages
<1>2. isFirstObs \in BOOLEAN /\ walkAsked \in BOOLEAN /\ idleWritten \in BOOLEAN
  BY DEF Init
<1>3. spinRow \in Rows /\ loopRow \in Rows /\ seenCount \in 0 .. Decimation - 1
  BY DEF Init, Rows
<1>4. /\ loopCount \in 0 .. Decimation - 1 /\ standPercent \in 0 .. StandSteps
      /\ command \in Speeds /\ walkCycles \in 0 .. Decimation
  BY DEF Init, Speeds
<1>5. /\ ctl \in {"unloaded", "initialized", "running", "stopped"}
      /\ doSwitch \in {"none", "start", "stop"}
      /\ spinPc \in SpinPcs /\ loopPc \in LoopPcs
      /\ {seenMode, mode} \subseteq Modes
      /\ {seenRow, actions, lastActions} \subseteq Ages
      /\ cmd \in Cmds
      /\ walkTick \in {"none", "overFill", "clean"}
  BY DEF Init, SpinPcs, LoopPcs, Modes, Ages, Cmds
<1> QED BY <1>1, <1>2, <1>3, <1>4, <1>5 DEF TypeOK

\* Every step keeps the types and the rows in range.
LEMMA TypeStep ==
  ASSUME TypeOK, RowInv, [Next]_vars
  PROVE  TypeOK' /\ RowInv'
<1> USE DEF TypeOK, RowInv, Modes, Ages, Rows, Cmds, Speeds, LoopPcs,
    SpinPcs, TickPcs, CountPcs, StartingPcs, managerVars, spinVars, regVars,
    fields, policyVars, ghostVars, SpinFree, Subscribed
<1>1. CASE SwitchReturn BY <1>1 DEF SwitchReturn
<1>2. CASE WalkResetCount BY <1>2 DEF WalkResetCount
<1>3. CASE WalkResetFirst BY <1>3 DEF WalkResetFirst
<1>4. CASE WalkResetLast BY <1>4 DEF WalkResetLast
<1>5. CASE WalkZeroRow BY <1>5 DEF WalkZeroRow
<1>6. CASE Load BY <1>6 DEF Load
<1>7. ASSUME NEW what \in {"start", "stop"}, SwitchRequest(what)
        PROVE TypeOK' /\ RowInv'
  BY <1>7 DEF SwitchRequest
<1>8. ASSUME NEW v \in Sticks, CmdVelCallback(v)
        PROVE TypeOK' /\ RowInv'
  BY <1>8 DEF CmdVelCallback, Clamp
<1>9. CASE ModeCallbackWalk
  <2>1. history' \in [Rows -> Ages]
    BY <1>9 DEF ModeCallbackWalk, AcceptWalk, Age
  <2>2. {seenRow', actions', lastActions'} \subseteq Ages
    BY <1>9 DEF ModeCallbackWalk, AcceptWalk, Age
  <2>3. mode' \in Modes /\ spinPc' \in SpinPcs
    BY <1>9 DEF ModeCallbackWalk, AcceptWalk
  <2>4. walkAsked' \in BOOLEAN /\ idleWritten' \in BOOLEAN
    BY <1>9 DEF ModeCallbackWalk, AcceptWalk, ForgetWalk
  <2>5. walkCycles' \in 0 .. Decimation
    BY <1>9 DEF ModeCallbackWalk, AcceptWalk, ForgetWalk
  <2>6. walkTick' \in {"none", "overFill", "clean"}
    BY <1>9 DEF ModeCallbackWalk, AcceptWalk
  <2>7. UNCHANGED <<managerVars, spinRow, loopPc, loopRow, seenMode, seenCount,
                    loopCount, isFirstObs, standPercent, command, cmd>>
    BY <1>9 DEF ModeCallbackWalk, AcceptWalk
  <2> QED BY <2>1, <2>2, <2>3, <2>4, <2>5, <2>6, <2>7
<1>10. CASE ModeCallbackIdle BY <1>10 DEF ModeCallbackIdle
<1>11. CASE Update BY <1>11 DEF Update
<1>12. CASE CheckIdle BY <1>12 DEF CheckIdle
<1>13. CASE CheckStand BY <1>13 DEF CheckStand
<1>14. CASE CountLoad BY <1>14 DEF CountLoad
<1>15. CASE CountStore BY <1>15 DEF CountStore, NextCount
<1>16. CASE Test BY <1>16 DEF Test, NextCount
<1>17. CASE Observe BY <1>17 DEF Observe
<1>18. CASE Fill
  <2>1. history' \in [Rows -> Ages]
    BY <1>18 DEF Fill
  <2>2. isFirstObs' \in BOOLEAN
    BY <1>18 DEF Fill
  <2>3. loopRow' \in Rows /\ loopPc' \in {"fill", "encode"}
        /\ (loopPc' = "encode" => loopRow' = 1)
    BY <1>18 DEF Fill
  <2>4. /\ UNCHANGED <<managerVars, spinVars, seenMode, seenCount, seenRow>>
        /\ UNCHANGED <<mode, loopCount, standPercent, actions, lastActions>>
        /\ UNCHANGED <<command, cmd, ghostVars>>
    BY <1>18 DEF Fill
  <2> QED BY <2>1, <2>2, <2>3, <2>4
<1>19. CASE ShiftLoad BY <1>19 DEF ShiftLoad
<1>20. CASE ShiftStore BY <1>20 DEF ShiftStore
<1>21. CASE Encode BY <1>21 DEF Encode
<1>22. CASE Infer BY <1>22 DEF Infer
<1>23. CASE Record BY <1>23 DEF Record
<1>24. CASE Apply BY <1>24 DEF Apply
<1>25. CASE NoSwitch BY <1>25 DEF NoSwitch
<1>26. CASE EmptySwitch BY <1>26 DEF EmptySwitch
<1>27. CASE StopSwitch BY <1>27 DEF StopSwitch
<1>28. CASE StartSwitch BY <1>28 DEF StartSwitch
<1>29. CASE StartingMode
  <2>1. mode' \in Modes /\ loopCount' \in 0 .. Decimation - 1
        /\ standPercent' \in 0 .. StandSteps
    BY <1>29 DEF StartingMode
  <2>2. isFirstObs' \in BOOLEAN /\ walkAsked' \in BOOLEAN
        /\ idleWritten' \in BOOLEAN
    BY <1>29 DEF StartingMode, ForgetWalk
  <2>3. walkCycles' \in 0 .. Decimation
    BY <1>29 DEF StartingMode, ForgetWalk
  <2>4. walkTick' \in {"none", "overFill", "clean"}
    BY <1>29 DEF StartingMode
  <2>5. /\ UNCHANGED <<managerVars, spinVars, regVars>>
        /\ UNCHANGED <<actions, lastActions, history, command, cmd>>
        /\ loopPc = "starting1" /\ loopPc' = "starting2"
    BY <1>29 DEF StartingMode
  <2> QED BY <2>1, <2>2, <2>3, <2>4, <2>5
<1>30. CASE StartingVectors BY <1>30 DEF StartingVectors, ZeroHistory
<1>31. CASE StartingCommand BY <1>31 DEF StartingCommand
<1>32. CASE Started BY <1>32 DEF Started
<1>33. CASE Write BY <1>33 DEF Write
<1>34. CASE UNCHANGED vars BY <1>34 DEF vars
<1> QED BY <1>1, <1>2, <1>3, <1>4, <1>5, <1>6, <1>7, <1>8, <1>9, <1>10,
       <1>11, <1>12, <1>13, <1>14, <1>15, <1>16, <1>17, <1>18, <1>19, <1>20,
       <1>21, <1>22, <1>23, <1>24, <1>25, <1>26, <1>27, <1>28, <1>29, <1>30,
       <1>31, <1>32, <1>33, <1>34
       DEF Next, Spinner, SpinContinue, Loop

\* Every step keeps a switch to one spinner callback that waits for it.
LEMMA SwitchStep ==
  ASSUME TypeOK, SwitchInv, [Next]_vars
  PROVE  SwitchInv'
<1> USE DEF TypeOK, SwitchInv, LoopPcs, SpinPcs, TickPcs, CountPcs,
    StartingPcs, managerVars, spinVars, regVars, fields, policyVars,
    ghostVars, SpinFree, Subscribed
<1>1. CASE SwitchReturn BY <1>1 DEF SwitchReturn
<1>2. CASE WalkResetCount BY <1>2 DEF WalkResetCount
<1>3. CASE WalkResetFirst BY <1>3 DEF WalkResetFirst
<1>4. CASE WalkResetLast BY <1>4 DEF WalkResetLast
<1>5. CASE WalkZeroRow BY <1>5 DEF WalkZeroRow
<1>6. CASE Load BY <1>6 DEF Load
<1>7. ASSUME NEW what \in {"start", "stop"}, SwitchRequest(what)
        PROVE SwitchInv'
  BY <1>7 DEF SwitchRequest
<1>8. ASSUME NEW v \in Sticks, CmdVelCallback(v)
        PROVE SwitchInv'
  BY <1>8 DEF CmdVelCallback
<1>9. CASE ModeCallbackWalk BY <1>9 DEF ModeCallbackWalk, AcceptWalk
<1>10. CASE ModeCallbackIdle BY <1>10 DEF ModeCallbackIdle
<1>11. CASE Update BY <1>11 DEF Update
<1>12. CASE CheckIdle BY <1>12 DEF CheckIdle
<1>13. CASE CheckStand BY <1>13 DEF CheckStand
<1>14. CASE CountLoad BY <1>14 DEF CountLoad
<1>15. CASE CountStore BY <1>15 DEF CountStore
<1>16. CASE Test BY <1>16 DEF Test
<1>17. CASE Observe BY <1>17 DEF Observe
<1>18. CASE Fill BY <1>18 DEF Fill
<1>19. CASE ShiftLoad BY <1>19 DEF ShiftLoad
<1>20. CASE ShiftStore BY <1>20 DEF ShiftStore
<1>21. CASE Encode BY <1>21 DEF Encode
<1>22. CASE Infer BY <1>22 DEF Infer
<1>23. CASE Record BY <1>23 DEF Record
<1>24. CASE Apply BY <1>24 DEF Apply
<1>25. CASE NoSwitch BY <1>25 DEF NoSwitch
<1>26. CASE EmptySwitch BY <1>26 DEF EmptySwitch
<1>27. CASE StopSwitch BY <1>27 DEF StopSwitch
<1>28. CASE StartSwitch BY <1>28 DEF StartSwitch
<1>29. CASE StartingMode BY <1>29 DEF StartingMode
<1>30. CASE StartingVectors BY <1>30 DEF StartingVectors
<1>31. CASE StartingCommand BY <1>31 DEF StartingCommand
<1>32. CASE Started BY <1>32 DEF Started
<1>33. CASE Write BY <1>33 DEF Write
<1>34. CASE UNCHANGED vars BY <1>34 DEF vars
<1> QED BY <1>1, <1>2, <1>3, <1>4, <1>5, <1>6, <1>7, <1>8, <1>9, <1>10,
       <1>11, <1>12, <1>13, <1>14, <1>15, <1>16, <1>17, <1>18, <1>19, <1>20,
       <1>21, <1>22, <1>23, <1>24, <1>25, <1>26, <1>27, <1>28, <1>29, <1>30,
       <1>31, <1>32, <1>33, <1>34
       DEF Next, Spinner, SpinContinue, Loop

\* Every step keeps what starting() has assigned so far.
LEMMA StartStep ==
  ASSUME TypeOK, SwitchInv, StartInv, [Next]_vars
  PROVE  StartInv'
<1> USE DEF TypeOK, SwitchInv, StartInv, LoopPcs, SpinPcs, TickPcs, CountPcs,
    StartingPcs, managerVars, spinVars, regVars, fields, policyVars,
    ghostVars, SpinFree, Subscribed
<1>1. CASE SwitchReturn BY <1>1 DEF SwitchReturn
<1>2. CASE WalkResetCount BY <1>2 DEF WalkResetCount
<1>3. CASE WalkResetFirst BY <1>3 DEF WalkResetFirst
<1>4. CASE WalkResetLast BY <1>4 DEF WalkResetLast
<1>5. CASE WalkZeroRow BY <1>5 DEF WalkZeroRow
<1>6. CASE Load BY <1>6 DEF Load
<1>7. ASSUME NEW what \in {"start", "stop"}, SwitchRequest(what)
        PROVE StartInv'
  BY <1>7 DEF SwitchRequest
<1>8. ASSUME NEW v \in Sticks, CmdVelCallback(v)
        PROVE StartInv'
  BY <1>8 DEF CmdVelCallback
<1>9. CASE ModeCallbackWalk BY <1>9 DEF ModeCallbackWalk, AcceptWalk
<1>10. CASE ModeCallbackIdle BY <1>10 DEF ModeCallbackIdle
<1>11. CASE Update BY <1>11 DEF Update
<1>12. CASE CheckIdle BY <1>12 DEF CheckIdle
<1>13. CASE CheckStand BY <1>13 DEF CheckStand
<1>14. CASE CountLoad BY <1>14 DEF CountLoad
<1>15. CASE CountStore BY <1>15 DEF CountStore
<1>16. CASE Test BY <1>16 DEF Test
<1>17. CASE Observe BY <1>17 DEF Observe
<1>18. CASE Fill BY <1>18 DEF Fill
<1>19. CASE ShiftLoad BY <1>19 DEF ShiftLoad
<1>20. CASE ShiftStore BY <1>20 DEF ShiftStore
<1>21. CASE Encode BY <1>21 DEF Encode
<1>22. CASE Infer BY <1>22 DEF Infer
<1>23. CASE Record BY <1>23 DEF Record
<1>24. CASE Apply BY <1>24 DEF Apply
<1>25. CASE NoSwitch BY <1>25 DEF NoSwitch
<1>26. CASE EmptySwitch BY <1>26 DEF EmptySwitch
<1>27. CASE StopSwitch BY <1>27 DEF StopSwitch
<1>28. CASE StartSwitch BY <1>28 DEF StartSwitch
<1>29. CASE StartingMode BY <1>29 DEF StartingMode
<1>30. CASE StartingVectors BY <1>30 DEF StartingVectors, ZeroHistory
<1>31. CASE StartingCommand BY <1>31 DEF StartingCommand
<1>32. CASE Started BY <1>32 DEF Started
<1>33. CASE Write BY <1>33 DEF Write
<1>34. CASE UNCHANGED vars BY <1>34 DEF vars
<1> QED BY <1>1, <1>2, <1>3, <1>4, <1>5, <1>6, <1>7, <1>8, <1>9, <1>10,
       <1>11, <1>12, <1>13, <1>14, <1>15, <1>16, <1>17, <1>18, <1>19, <1>20,
       <1>21, <1>22, <1>23, <1>24, <1>25, <1>26, <1>27, <1>28, <1>29, <1>30,
       <1>31, <1>32, <1>33, <1>34
       DEF Next, Spinner, SpinContinue, Loop

\* Every step keeps the count of cycles before a WALK message below one tick.
LEMMA WalkStep ==
  ASSUME TypeOK, SwitchInv, WalkInv, [Next]_vars
  PROVE  WalkInv'
<1> USE DEF TypeOK, SwitchInv, WalkInv, Modes, LoopPcs, SpinPcs, TickPcs,
    CountPcs, StartingPcs, ResetPcs, ComputePcs, managerVars, spinVars,
    regVars, fields, policyVars, ghostVars, SpinFree, Subscribed
<1>1. CASE SwitchReturn BY <1>1 DEF SwitchReturn
<1>2. CASE WalkResetCount BY <1>2 DEF WalkResetCount
<1>3. CASE WalkResetFirst BY <1>3 DEF WalkResetFirst
<1>4. CASE WalkResetLast BY <1>4 DEF WalkResetLast
<1>5. CASE WalkZeroRow BY <1>5 DEF WalkZeroRow
<1>6. CASE Load BY <1>6 DEF Load
<1>7. ASSUME NEW what \in {"start", "stop"}, SwitchRequest(what)
        PROVE WalkInv'
  BY <1>7 DEF SwitchRequest
<1>8. ASSUME NEW v \in Sticks, CmdVelCallback(v)
        PROVE WalkInv'
  BY <1>8 DEF CmdVelCallback
<1>9. CASE ModeCallbackWalk BY <1>9 DEF ModeCallbackWalk, AcceptWalk
<1>10. CASE ModeCallbackIdle BY <1>10 DEF ModeCallbackIdle
<1>11. CASE Update BY <1>11 DEF Update
<1>12. CASE CheckIdle BY <1>12 DEF CheckIdle
<1>13. CASE CheckStand BY <1>13 DEF CheckStand
<1>14. CASE CountLoad BY <1>14 DEF CountLoad
<1>15. CASE CountStore BY <1>15 DEF CountStore, NextCount
<1>16. CASE Test BY <1>16 DEF Test, NextCount
<1>17. CASE Observe BY <1>17 DEF Observe
<1>18. CASE Fill BY <1>18 DEF Fill
<1>19. CASE ShiftLoad BY <1>19 DEF ShiftLoad
<1>20. CASE ShiftStore BY <1>20 DEF ShiftStore
<1>21. CASE Encode BY <1>21 DEF Encode
<1>22. CASE Infer BY <1>22 DEF Infer
<1>23. CASE Record BY <1>23 DEF Record
<1>24. CASE Apply BY <1>24 DEF Apply
<1>25. CASE NoSwitch BY <1>25 DEF NoSwitch
<1>26. CASE EmptySwitch BY <1>26 DEF EmptySwitch
<1>27. CASE StopSwitch BY <1>27 DEF StopSwitch
<1>28. CASE StartSwitch BY <1>28 DEF StartSwitch
<1>29. CASE StartingMode BY <1>29 DEF StartingMode
<1>30. CASE StartingVectors BY <1>30 DEF StartingVectors
<1>31. CASE StartingCommand BY <1>31 DEF StartingCommand
<1>32. CASE Started BY <1>32 DEF Started
<1>33. CASE Write BY <1>33 DEF Write
<1>34. CASE UNCHANGED vars BY <1>34 DEF vars
<1> QED BY <1>1, <1>2, <1>3, <1>4, <1>5, <1>6, <1>7, <1>8, <1>9, <1>10,
       <1>11, <1>12, <1>13, <1>14, <1>15, <1>16, <1>17, <1>18, <1>19, <1>20,
       <1>21, <1>22, <1>23, <1>24, <1>25, <1>26, <1>27, <1>28, <1>29, <1>30,
       <1>31, <1>32, <1>33, <1>34
       DEF Next, Spinner, SpinContinue, Loop

\* Every step keeps the loop to the damping branch once IDLE was written.
LEMMA IdleStep ==
  ASSUME TypeOK, SwitchInv, IdleInv, [Next]_vars
  PROVE  IdleInv'
<1> USE DEF TypeOK, SwitchInv, IdleInv, LoopPcs, SpinPcs, TickPcs, CountPcs,
    StartingPcs, ResetPcs, ComputePcs, managerVars, spinVars, regVars,
    fields, policyVars, ghostVars, SpinFree, Subscribed
<1>1. CASE SwitchReturn BY <1>1 DEF SwitchReturn
<1>2. CASE WalkResetCount BY <1>2 DEF WalkResetCount
<1>3. CASE WalkResetFirst BY <1>3 DEF WalkResetFirst
<1>4. CASE WalkResetLast BY <1>4 DEF WalkResetLast
<1>5. CASE WalkZeroRow BY <1>5 DEF WalkZeroRow
<1>6. CASE Load BY <1>6 DEF Load
<1>7. ASSUME NEW what \in {"start", "stop"}, SwitchRequest(what)
        PROVE IdleInv'
  BY <1>7 DEF SwitchRequest
<1>8. ASSUME NEW v \in Sticks, CmdVelCallback(v)
        PROVE IdleInv'
  BY <1>8 DEF CmdVelCallback
<1>9. CASE ModeCallbackWalk
  BY <1>9 DEF ModeCallbackWalk, AcceptWalk, ForgetWalk
<1>10. CASE ModeCallbackIdle BY <1>10 DEF ModeCallbackIdle
<1>11. CASE Update BY <1>11 DEF Update
<1>12. CASE CheckIdle BY <1>12 DEF CheckIdle
<1>13. CASE CheckStand BY <1>13 DEF CheckStand
<1>14. CASE CountLoad BY <1>14 DEF CountLoad
<1>15. CASE CountStore BY <1>15 DEF CountStore
<1>16. CASE Test BY <1>16 DEF Test
<1>17. CASE Observe BY <1>17 DEF Observe
<1>18. CASE Fill BY <1>18 DEF Fill
<1>19. CASE ShiftLoad BY <1>19 DEF ShiftLoad
<1>20. CASE ShiftStore BY <1>20 DEF ShiftStore
<1>21. CASE Encode BY <1>21 DEF Encode
<1>22. CASE Infer BY <1>22 DEF Infer
<1>23. CASE Record BY <1>23 DEF Record
<1>24. CASE Apply BY <1>24 DEF Apply
<1>25. CASE NoSwitch BY <1>25 DEF NoSwitch
<1>26. CASE EmptySwitch BY <1>26 DEF EmptySwitch
<1>27. CASE StopSwitch BY <1>27 DEF StopSwitch
<1>28. CASE StartSwitch BY <1>28 DEF StartSwitch
<1>29. CASE StartingMode BY <1>29 DEF StartingMode, ForgetWalk
<1>30. CASE StartingVectors BY <1>30 DEF StartingVectors
<1>31. CASE StartingCommand BY <1>31 DEF StartingCommand
<1>32. CASE Started BY <1>32 DEF Started
<1>33. CASE Write BY <1>33 DEF Write
<1>34. CASE UNCHANGED vars BY <1>34 DEF vars
<1> QED BY <1>1, <1>2, <1>3, <1>4, <1>5, <1>6, <1>7, <1>8, <1>9, <1>10,
       <1>11, <1>12, <1>13, <1>14, <1>15, <1>16, <1>17, <1>18, <1>19, <1>20,
       <1>21, <1>22, <1>23, <1>24, <1>25, <1>26, <1>27, <1>28, <1>29, <1>30,
       <1>31, <1>32, <1>33, <1>34
       DEF Next, Spinner, SpinContinue, Loop

\* Every step keeps loopCount_ level with the cycles counted in the walk.
LEMMA FreshStep ==
  ASSUME TypeOK, SwitchInv, StartInv, FreshInv, [Next]_vars
  PROVE  FreshInv'
<1> USE DEF TypeOK, SwitchInv, StartInv, FreshInv, Ages, NextCount, LoopPcs,
    SpinPcs, TickPcs, CountPcs, StartingPcs, ResetPcs, ComputePcs,
    managerVars, spinVars, regVars, fields, policyVars, ghostVars, SpinFree,
    Subscribed
<1>1. CASE SwitchReturn BY <1>1 DEF SwitchReturn
<1>2. CASE WalkResetCount BY <1>2 DEF WalkResetCount
<1>3. CASE WalkResetFirst BY <1>3 DEF WalkResetFirst
<1>4. CASE WalkResetLast BY <1>4 DEF WalkResetLast
<1>5. CASE WalkZeroRow BY <1>5 DEF WalkZeroRow
<1>6. CASE Load BY <1>6 DEF Load
<1>7. ASSUME NEW what \in {"start", "stop"}, SwitchRequest(what)
        PROVE FreshInv'
  BY <1>7 DEF SwitchRequest
<1>8. ASSUME NEW v \in Sticks, CmdVelCallback(v)
        PROVE FreshInv'
  BY <1>8 DEF CmdVelCallback
<1>9. CASE ModeCallbackWalk
  BY <1>9 DEF ModeCallbackWalk, AcceptWalk, Age, ForgetWalk
<1>10. CASE ModeCallbackIdle BY <1>10 DEF ModeCallbackIdle
<1>11. CASE Update BY <1>11 DEF Update
<1>12. CASE CheckIdle BY <1>12 DEF CheckIdle
<1>13. CASE CheckStand BY <1>13 DEF CheckStand
<1>14. CASE CountLoad BY <1>14 DEF CountLoad
<1>15. CASE CountStore BY <1>15 DEF CountStore
<1>16. CASE Test BY <1>16 DEF Test
<1>17. CASE Observe BY <1>17 DEF Observe
<1>18. CASE Fill BY <1>18 DEF Fill
<1>19. CASE ShiftLoad BY <1>19 DEF ShiftLoad
<1>20. CASE ShiftStore BY <1>20 DEF ShiftStore
<1>21. CASE Encode BY <1>21 DEF Encode
<1>22. CASE Infer BY <1>22 DEF Infer
<1>23. CASE Record BY <1>23 DEF Record
<1>24. CASE Apply BY <1>24 DEF Apply
<1>25. CASE NoSwitch BY <1>25 DEF NoSwitch
<1>26. CASE EmptySwitch BY <1>26 DEF EmptySwitch
<1>27. CASE StopSwitch BY <1>27 DEF StopSwitch
<1>28. CASE StartSwitch BY <1>28 DEF StartSwitch
<1>29. CASE StartingMode BY <1>29 DEF StartingMode, ForgetWalk
<1>30. CASE StartingVectors BY <1>30 DEF StartingVectors
<1>31. CASE StartingCommand BY <1>31 DEF StartingCommand
<1>32. CASE Started BY <1>32 DEF Started
<1>33. CASE Write BY <1>33 DEF Write
<1>34. CASE UNCHANGED vars BY <1>34 DEF vars
<1> QED BY <1>1, <1>2, <1>3, <1>4, <1>5, <1>6, <1>7, <1>8, <1>9, <1>10,
       <1>11, <1>12, <1>13, <1>14, <1>15, <1>16, <1>17, <1>18, <1>19, <1>20,
       <1>21, <1>22, <1>23, <1>24, <1>25, <1>26, <1>27, <1>28, <1>29, <1>30,
       <1>31, <1>32, <1>33, <1>34
       DEF Next, Spinner, SpinContinue, Loop

\* Every step keeps old rows out of the history, or isFirstObs_ set.
LEMMA HistStep ==
  ASSUME TypeOK, RowInv, SwitchInv, HistInv, [Next]_vars
  PROVE  HistInv'
<1> USE DEF TypeOK, RowInv, SwitchInv, HistInv, NoOldRow, Ages, Rows,
    LoopPcs, SpinPcs, TickPcs, CountPcs, StartingPcs, ResetPcs, ComputePcs,
    managerVars, spinVars, regVars, fields, policyVars, ghostVars, SpinFree,
    Subscribed
<1>1. CASE SwitchReturn BY <1>1 DEF SwitchReturn
<1>2. CASE WalkResetCount BY <1>2 DEF WalkResetCount
<1>3. CASE WalkResetFirst BY <1>3 DEF WalkResetFirst
<1>4. CASE WalkResetLast BY <1>4 DEF WalkResetLast
<1>5. CASE WalkZeroRow BY <1>5 DEF WalkZeroRow
<1>6. CASE Load BY <1>6 DEF Load
<1>7. ASSUME NEW what \in {"start", "stop"}, SwitchRequest(what)
        PROVE HistInv'
  BY <1>7 DEF SwitchRequest
<1>8. ASSUME NEW v \in Sticks, CmdVelCallback(v)
        PROVE HistInv'
  BY <1>8 DEF CmdVelCallback
<1>9. CASE ModeCallbackWalk
  BY <1>9 DEF ModeCallbackWalk, AcceptWalk, Age, ForgetWalk
<1>10. CASE ModeCallbackIdle BY <1>10 DEF ModeCallbackIdle
<1>11. CASE Update BY <1>11 DEF Update
<1>12. CASE CheckIdle BY <1>12 DEF CheckIdle
<1>13. CASE CheckStand BY <1>13 DEF CheckStand
<1>14. CASE CountLoad BY <1>14 DEF CountLoad
<1>15. CASE CountStore BY <1>15 DEF CountStore
<1>16. CASE Test BY <1>16 DEF Test
<1>17. CASE Observe BY <1>17 DEF Observe
<1>18. CASE Fill BY <1>18 DEF Fill
<1>19. CASE ShiftLoad BY <1>19 DEF ShiftLoad
<1>20. CASE ShiftStore BY <1>20 DEF ShiftStore
<1>21. CASE Encode BY <1>21 DEF Encode
<1>22. CASE Infer BY <1>22 DEF Infer
<1>23. CASE Record BY <1>23 DEF Record
<1>24. CASE Apply BY <1>24 DEF Apply
<1>25. CASE NoSwitch BY <1>25 DEF NoSwitch
<1>26. CASE EmptySwitch BY <1>26 DEF EmptySwitch
<1>27. CASE StopSwitch BY <1>27 DEF StopSwitch
<1>28. CASE StartSwitch BY <1>28 DEF StartSwitch
<1>29. CASE StartingMode BY <1>29 DEF StartingMode, ForgetWalk
<1>30. CASE StartingVectors BY <1>30 DEF StartingVectors, ZeroHistory
<1>31. CASE StartingCommand BY <1>31 DEF StartingCommand
<1>32. CASE Started BY <1>32 DEF Started
<1>33. CASE Write BY <1>33 DEF Write
<1>34. CASE UNCHANGED vars BY <1>34 DEF vars
<1> QED BY <1>1, <1>2, <1>3, <1>4, <1>5, <1>6, <1>7, <1>8, <1>9, <1>10,
       <1>11, <1>12, <1>13, <1>14, <1>15, <1>16, <1>17, <1>18, <1>19, <1>20,
       <1>21, <1>22, <1>23, <1>24, <1>25, <1>26, <1>27, <1>28, <1>29, <1>30,
       <1>31, <1>32, <1>33, <1>34
       DEF Next, Spinner, SpinContinue, Loop

\* The invariant holds initially and every step preserves it.
THEOREM Invariance == Spec => []IInv
<1>1. Init => IInv
  <2> SUFFICES ASSUME Init PROVE IInv
    OBVIOUS
  <2>1. TypeOK
    BY InitTypes
  <2>2. RowInv /\ SwitchInv /\ StartInv /\ IdleInv
    BY DEF Init, RowInv, SwitchInv, StartInv, IdleInv, StartingPcs
  <2>3. WalkInv /\ FreshInv
    BY DEF Init, WalkInv, FreshInv, ResetPcs, ComputePcs, CountPcs, TickPcs
  <2>4. HistInv
    BY DEF Init, HistInv, NoOldRow, ZeroHistory, ResetPcs
  <2> QED BY <2>1, <2>2, <2>3, <2>4 DEF IInv
<1>2. IInv /\ [Next]_vars => IInv'
  BY TypeStep, SwitchStep, StartStep, WalkStep, IdleStep, FreshStep, HistStep
  DEF IInv
<1> QED BY <1>1, <1>2, PTL DEF Spec

\* Types: no field leaves its range, loopCount_ and command_ in particular.
THEOREM TypeCorrect == Spec => []TypeOK
<1>1. IInv => TypeOK
  BY DEF IInv
<1> QED BY <1>1, Invariance, PTL

\* No callback interleaves with starting().
THEOREM StartIsExclusive == Spec => []StartExclusive
<1>1. IInv => StartExclusive
  BY DEF IInv, SwitchInv, StartExclusive, StartingPcs
<1> QED BY <1>1, Invariance, PTL

\* The controller is marked running with every field reset.
THEOREM StartIsClean == Spec => []StartClean
<1>1. IInv => StartClean
  BY DEF IInv, StartInv, StartClean
<1> QED BY <1>1, Invariance, PTL

\* With two cycles or more per tick, the policy is evaluated only in a walk.
THEOREM PolicyOnlyInWalk == Spec => []PolicyNeedsWalk
<1>1. IInv => PolicyNeedsWalk
  BY DEF IInv, WalkInv, PolicyNeedsWalk
<1> QED BY <1>1, Invariance, PTL

\* IDLE damps from the second command after the message on.
THEOREM IdleStaysDamped == Spec => []IdleDamped
<1>1. IInv => IdleDamped
  BY DEF IInv, IdleInv, IdleDamped
<1> QED BY <1>1, Invariance, PTL

\* Actions of an earlier walk are applied for fewer than Decimation cycles.
THEOREM ActionsFreshInTime == Spec => []FreshWithinDecimation
<1>1. IInv => FreshWithinDecimation
  BY DEF IInv, TypeOK, FreshInv, FreshWithinDecimation
<1> QED BY <1>1, Invariance, PTL

\* No row of an earlier walk reaches the encoder in a tick begun after it.
THEOREM HistoryIsOwn == Spec => []NoForeignHistory
<1>1. IInv => NoForeignHistory
  BY DEF IInv, HistInv, NoOldRow, NoForeignHistory, ResetPcs, TypeOK
<1> QED BY <1>1, Invariance, PTL

----------------------------------------------------------------------------
(* The refinement of ControllerSession.                                    *)

\* What the loop knows of the modes is in the history variable: the mode read
\* first in checkStand, and the reason to be on the policy's path after it.
SessionInv ==
  /\ IF InCycle THEN mode \in inForce /\ ctl = "running" ELSE inForce = {}
  /\ loopPc = "checkStand" => seenMode \in inForce \ {"IDLE"}
  /\ loopPc \in PolicyPcs =>
       "WALK" \in inForce \/ {"STAND", "IDLE"} \subseteq inForce

AbstractStep == [Session!Next]_(Session!sessionVars)

\* The history variable only watches: what it is added to is Tron2Controller.
LEMMA Watches == SessionSpec => Spec
<1>1. SessionInit => Init
  BY DEF SessionInit
<1>2. [SessionNext]_sessionVars => [Next]_vars
  BY DEF SessionNext, sessionVars
<1> QED BY <1>1, <1>2, PTL DEF SessionSpec, Spec

\* A step inside or outside the cycle that leaves mode_ alone keeps the record,
\* and one that changes neither ctl nor mode, command and ramp is a stutter.
LEMMA LoopStep ==
  ASSUME TypeOK, SessionInv, Loop, RecordModes
  PROVE  SessionInv' /\ AbstractStep
<1> USE DEF TypeOK, SessionInv, InCycle, RecordModes, CyclePcs, PolicyPcs,
    CountPcs, TickPcs, StartingPcs, LoopPcs, Modes, managerVars, spinVars,
    regVars, policyVars, fields, ghostVars, AbstractStep, Session!Next,
    Session!sessionVars, SessionOn
<1>1. CASE Update
  BY <1>1 DEF Update, Session!Begin
<1>2. CASE CheckIdle
  <2>1. CASE mode = "IDLE"
    BY <1>2, <2>1 DEF CheckIdle, Session!SomeCommand, Session!Command,
      Session!Justified
  <2>2. CASE mode # "IDLE"
    BY <1>2, <2>2 DEF CheckIdle
  <2> QED BY <2>1, <2>2
<1>3. CASE CheckStand
  <2>1. PICK m \in {seenMode, mode} :
          IF m = "STAND"
          THEN /\ cmd' = IF standPercent < StandSteps THEN "ramp" ELSE "hold"
               /\ standPercent' = IF standPercent < StandSteps
                                  THEN standPercent + 1 ELSE standPercent
               /\ loopPc' = "switch"
          ELSE loopPc' = "countLoad" /\ UNCHANGED <<cmd, standPercent>>
    BY <1>3 DEF CheckStand
  <2>2. m \in inForce /\ loopPc = "checkStand" /\ UNCHANGED <<ctl, mode>>
    BY <1>3, <2>1 DEF CheckStand
  <2>3. CASE m = "STAND"
    <3>1. "STAND" \in inForce /\ inForce' = {} /\ loopPc' = "switch"
      BY <2>1, <2>2, <2>3
    <3>2. Session!Command(cmd')
      BY <3>1, <2>1, <2>2, <2>3, StandStepsAssumption
         DEF Session!Command, Session!Justified
    <3>3. cmd' \in {"damp", "ramp", "hold", "policy"}
      BY <2>1, <2>3
    <3> QED BY <3>1, <3>2, <3>3, <2>2 DEF Session!SomeCommand
  <2>4. CASE m # "STAND"
    <3>1. loopPc' = "countLoad" /\ inForce' = inForce
      BY <2>1, <2>2, <2>4
    <3>2. "WALK" \in inForce \/ {"STAND", "IDLE"} \subseteq inForce
      BY <2>2, <2>4
    <3> QED BY <3>1, <3>2, <2>1, <2>2, <2>4
  <2> QED BY <2>3, <2>4
<1>4. CASE CountLoad \/ CountStore \/ Test
  BY <1>4 DEF CountLoad, CountStore, Test
<1>5. CASE Observe \/ Encode \/ Infer \/ Record
  BY <1>5 DEF Observe, Encode, Infer, Record
<1>6. CASE Fill
  BY <1>6 DEF Fill
<1>7. CASE ShiftLoad \/ ShiftStore
  BY <1>7 DEF ShiftLoad, ShiftStore
<1>8. CASE Apply
  BY <1>8 DEF Apply, Session!SomeCommand, Session!Command, Session!Justified
<1>9. CASE NoSwitch \/ EmptySwitch \/ StartSwitch \/ Write
  BY <1>9 DEF NoSwitch, EmptySwitch, StartSwitch, Write
<1>10. CASE StopSwitch
  BY <1>10 DEF StopSwitch, Session!Stop
<1>11. CASE StartingMode
  BY <1>11 DEF StartingMode, Session!Start
<1>12. CASE StartingVectors \/ StartingCommand \/ Started
  BY <1>12 DEF StartingVectors, StartingCommand, Started
<1> QED
  BY <1>1, <1>2, <1>3, <1>4, <1>5, <1>6, <1>7, <1>8, <1>9, <1>10, <1>11,
     <1>12 DEF Loop

\* A callback changes the mode by one request, and otherwise nothing the
\* session sees.
LEMMA SpinnerStep ==
  ASSUME TypeOK, SessionInv, Spinner, RecordModes
  PROVE  SessionInv' /\ AbstractStep
<1> USE DEF TypeOK, SessionInv, InCycle, RecordModes, CyclePcs, PolicyPcs,
    CountPcs, TickPcs, Modes, managerVars, spinVars, regVars, policyVars,
    fields, ghostVars, AbstractStep, Session!Next, Session!sessionVars,
    SessionOn
<1>1. CASE SpinContinue
  BY <1>1 DEF SpinContinue, SwitchReturn, WalkResetCount, WalkResetFirst,
    WalkResetLast, WalkZeroRow
<1>2. CASE Load
  BY <1>2 DEF Load
<1>3. CASE \E what \in {"start", "stop"} : SwitchRequest(what)
  BY <1>3 DEF SwitchRequest
<1>4. CASE \E v \in Sticks : CmdVelCallback(v)
  BY <1>4 DEF CmdVelCallback
<1>5. CASE ModeCallbackWalk
  BY <1>5 DEF ModeCallbackWalk, AcceptWalk, ForgetWalk, Session!Request
<1>6. CASE ModeCallbackIdle
  BY <1>6 DEF ModeCallbackIdle, Session!Request
<1> QED BY <1>1, <1>2, <1>3, <1>4, <1>5, <1>6 DEF Spinner

\* Each cycle of the controller gives one command that a mode in force during
\* the cycle justifies: Tron2Controller implements ControllerSession.
THEOREM ControllerImplementsSession == SessionSpec => ImplementsSession
<1>1. SessionInit => SessionInv /\ Session!Init
  BY DEF SessionInit, Init, SessionInv, Session!Init, InCycle, CyclePcs,
    PolicyPcs, CountPcs, TickPcs, SessionOn
<1>2. ASSUME TypeOK, SessionInv, [SessionNext]_sessionVars
      PROVE  SessionInv' /\ AbstractStep
  <2>1. CASE UNCHANGED sessionVars
    BY <1>2, <2>1 DEF sessionVars, vars, SessionInv, InCycle, AbstractStep,
      Session!sessionVars, SessionOn, managerVars, spinVars, regVars,
      policyVars, fields, ghostVars
  <2>2. CASE SessionNext
    BY <1>2, <2>2, LoopStep, SpinnerStep DEF SessionNext, Next
  <2> QED BY <1>2, <2>1, <2>2
<1> QED
  BY <1>1, <1>2, Watches, TypeCorrect, PTL
     DEF SessionSpec, AbstractStep, ImplementsSession, Session!SafeSpec

----------------------------------------------------------------------------
(* The bound on the steps of a cycle.                                      *)

\* The count, stage by stage.
LEMMA StepsAre ==
  ASSUME NEW r
  PROVE  /\ StepsOf("checkIdle", r)  = 9 + 2 * HistLen
         /\ StepsOf("checkStand", r) = 8 + 2 * HistLen
         /\ StepsOf("countLoad", r)  = 7 + 2 * HistLen
         /\ StepsOf("countStore", r) = 6 + 2 * HistLen
         /\ StepsOf("test", r)       = 5 + 2 * HistLen
         /\ StepsOf("observe", r)    = 4 + 2 * HistLen
         /\ StepsOf("fill", r)       = 5 + 2 * (HistLen - r)
         /\ StepsOf("shiftLoad", r)  = 5 + 2 * (HistLen - r)
         /\ StepsOf("shiftStore", r) = 4 + 2 * (HistLen - r)
         /\ StepsOf("encode", r) = 4 /\ StepsOf("infer", r) = 3
         /\ StepsOf("record", r) = 2 /\ StepsOf("apply", r) = 1
         /\ StepsOf("switch", r) = 0
BY DEF StepsOf

\* A step of the loop thread within a cycle brings it nearer to its end.
LEMMA LoopAdvances ==
  ASSUME TypeOK, RowInv, InCycle, Loop
  PROVE  StepsLeft' < StepsLeft
<1> DEFINE pc == loopPc
           row == loopRow
           npc == loopPc'
           nrow == loopRow'
<1>1. HistLen \in Nat /\ HistLen > 0 /\ row \in 1 .. HistLen
  BY HistLenAssumption DEF TypeOK, Rows
<1>2. SUFFICES StepsOf(npc, nrow) < StepsOf(pc, row)
  BY DEF StepsLeft
<1>3. CASE CheckIdle
  <2>1. pc = "checkIdle" /\ npc \in {"checkStand", "switch"}
    BY <1>3 DEF CheckIdle
  <2> QED BY <1>1, <2>1, StepsAre
<1>4. CASE CheckStand
  <2>1. pc = "checkStand" /\ npc \in {"countLoad", "switch"}
    BY <1>4 DEF CheckStand
  <2> QED BY <1>1, <2>1, StepsAre
<1>5. CASE CountLoad \/ CountStore \/ Test
  <2>1. \/ pc = "countLoad" /\ npc = "countStore"
        \/ pc = "countStore" /\ npc = "test"
        \/ pc = "test" /\ npc \in {"observe", "apply"}
    BY <1>5 DEF CountLoad, CountStore, Test
  <2> QED BY <1>1, <2>1, StepsAre
<1>6. CASE Observe
  <2>1. pc = "observe" /\ npc \in {"fill", "shiftLoad"} /\ nrow = row
    BY <1>6 DEF Observe, regVars
  <2> QED BY <1>1, <2>1, StepsAre
<1>7. CASE Fill
  <2>1. /\ pc = "fill"
        /\ \/ row = HistLen /\ npc = "encode"
           \/ row # HistLen /\ npc = "fill" /\ nrow = row + 1
    BY <1>7 DEF Fill
  <2> QED BY <1>1, <2>1, StepsAre
<1>8. CASE ShiftLoad
  <2>1. /\ pc = "shiftLoad"
        /\ \/ row = HistLen /\ npc = "encode"
           \/ row # HistLen /\ npc = "shiftStore" /\ nrow = row
    BY <1>8 DEF ShiftLoad
  <2> QED BY <1>1, <2>1, StepsAre
<1>9. CASE ShiftStore
  <2>1. pc = "shiftStore" /\ npc = "shiftLoad" /\ nrow = row + 1
    BY <1>9 DEF ShiftStore
  <2> QED BY <1>1, <2>1, StepsAre
<1>10. CASE Encode \/ Infer \/ Record \/ Apply
  <2>1. \/ pc = "encode" /\ npc = "infer"
        \/ pc = "infer" /\ npc = "record"
        \/ pc = "record" /\ npc = "apply"
        \/ pc = "apply" /\ npc = "switch"
    BY <1>10 DEF Encode, Infer, Record, Apply
  <2> QED BY <2>1, StepsAre
<1>11. CASE \/ Update \/ NoSwitch \/ EmptySwitch \/ StopSwitch \/ StartSwitch
            \/ StartingMode \/ StartingVectors \/ StartingCommand \/ Started \/ Write
  <2>1. ~InCycle
    BY <1>11 DEF InCycle, CyclePcs, CountPcs, TickPcs, Update, NoSwitch, EmptySwitch,
       StopSwitch, StartSwitch, StartingMode, StartingVectors, StartingCommand,
       Started, Write
  <2> QED BY <2>1
<1> QED
  BY <1>3, <1>4, <1>5, <1>6, <1>7, <1>8, <1>9, <1>10, <1>11 DEF Loop

\* A callback leaves the loop thread where it is.
LEMMA SpinnerLeaves ==
  ASSUME Spinner
  PROVE  UNCHANGED <<loopPc, loopRow>>
<1> USE DEF regVars
<1>1. CASE SpinContinue
  BY <1>1 DEF SpinContinue, SwitchReturn, WalkResetCount, WalkResetFirst,
     WalkResetLast, WalkZeroRow
<1>2. CASE Load \/ \E what \in {"start", "stop"} : SwitchRequest(what)
  BY <1>2 DEF Load, SwitchRequest
<1>3. CASE \E v \in Sticks : CmdVelCallback(v)
  BY <1>3 DEF CmdVelCallback
<1>4. CASE ModeCallbackWalk \/ ModeCallbackIdle
  BY <1>4 DEF ModeCallbackWalk, ModeCallbackIdle, AcceptWalk, ForgetWalk
<1> QED BY <1>1, <1>2, <1>3, <1>4 DEF Spinner

\* update() has a bounded number of steps, whatever the callbacks reset under it
\* and however long the history is: what EveryCycleEnds needs besides fairness.
THEOREM CyclesAreBounded == Spec => CyclesAdvance
<1>1. IInv /\ [Next]_vars =>
        [InCycle => IF Loop THEN StepsLeft' < StepsLeft ELSE StepsLeft' = StepsLeft]_vars
  <2> SUFFICES ASSUME IInv, Next, InCycle
               PROVE  IF Loop THEN StepsLeft' < StepsLeft ELSE StepsLeft' = StepsLeft
    OBVIOUS
  <2>1. CASE Loop
    BY <2>1, LoopAdvances DEF IInv
  <2>2. CASE ~Loop
    <3>1. UNCHANGED <<loopPc, loopRow>>
      BY <2>2, SpinnerLeaves DEF Next
    <3> QED BY <2>2, <3>1 DEF StepsLeft
  <2> QED BY <2>1, <2>2
<1> QED BY <1>1, Invariance, PTL DEF Spec, CyclesAdvance
============================================================================
