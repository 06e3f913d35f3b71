# TLA+ models of tron2_rl_deploy_ros

The repository deploys a learned walking policy on the TRON2A biped: a ROS
node, `tron2_hw_node`, wraps the LimX SDK as a `ros_control` hardware
interface, and a controller plugin, `tron2_controller`, turns measurements into
joint commands with an ONNX policy. About 1,700 lines are the project's own;
the rest is the C++ wrapper of ONNX Runtime, its C API and documentation.

The models are about what is hard to test in those lines: one process with
several threads that share plain fields, blocking service calls between those
threads, hardware messages that arrive whenever they like, parameters that are
never checked, and C objects whose owner changes while calls fail.

## 1. The system

| Component | Source | State | Operations | Talks to |
|---|---|---|---|---|
| Locomotion controller | `tron2_controllers/src/ControllerBase.cpp` | `mode_`, `loopCount_`, `isFirstObs_`, `standPercent_`, `actions_`, `lastActions_`, `proprioHistoryBuffer_`, `tron2Command_` | `init`, `starting`, `update`, `modeCallback`, `cmdVelCallback` | called by the controller manager (loop thread) and by `ros::spin` (main); writes joint handles |
| Configuration | `loadRLCfg` | `cfg_` | at `init` | parameter server |
| Model loading | `loadModel` | sessions, names, shapes | at `init` | ONNX Runtime, files |
| Variants | `WheelfootController.cpp`, `SolefootController.cpp` | gait phase | `computeObservation`, `applyActions` | called by `update` |
| Inference | `computeEncoder`, `computeActions` | - | - | history, observation, command, ONNX Runtime |
| Node | `tron2_hw_node.cpp` | - | bring-up, handshake, detached start thread, `ros::spin` | everything |
| Control loop | `RobotHWLoop.cpp` | `loopRunning_` | read, update, write, sleep | `Tron2HW`, controller manager |
| Robot I/O | `Tron2HW::init`, `read`, `write`, SDK callbacks | `robotStateBuffer_`, `firstStateReceived_`, `calibrationState_`, `jointData_` | set-up, read, write, three callbacks | SDK threads, loop thread |
| Start and mode requests | `Tron2HW::startController`, `isControllerRunning`, `onStartController`, joystick callback | - | service calls, mode messages | controller manager, from four threads |
| Velocity command | joystick callback (sticks), `cmdVelCallback` | `lastPub`, `tron2Command_`, subscription queue | publish, store, read | SDK thread, main, loop thread |
| Interfaces | `robot_common` | pointers | `setCommand` | controller to `jointData_` |
| ONNX Runtime wrapper | `onnxruntime_sdk/include` | `p_` of every wrapper | construct, move, borrow, run, throw, destroy | the C API |
| External | controller_manager, roscpp, limxsdk, realtime_tools, ONNX Runtime itself | | | |

Threads of the process:

- **loop**: `RobotHWLoop::update` for ever - read, controllers, write;
- **main**: bring-up, then every topic callback and every service of the node,
  one at a time, in `ros::spin`;
- **start thread**: detached, calls `startController` 1.2 s after the loop;
- **SDK threads**: robot state, IMU, joystick, diagnostics;
- outside the process, the controller spawner and operators.

Nothing in the repository takes a lock. `mode_`, `loopCount_`, the history,
`tron2Command_` and `calibrationState_` are plain fields written by one thread
and read by another.

### What is hard, and which property is about it

The list, with lines, is in `PROJECT.json` under `hazards`. The ones that
shaped the models:

1. `update()` reads `mode_` twice. A mode message between the reads sends a
   cycle into a branch nobody asked for (`PolicyNeedsWalk`, `IdleDamped`,
   `ImplementsSession`; and the disagreement `PolicyCommandNeedsWalk`).
2. `modeCallback("WALK")` resets five fields while a policy tick may be writing
   three of them (`NoForeignHistory`, `FreshWithinDecimation`,
   `WalkReachesPolicy`).
3. `starting()` resets a dozen fields, in the loop thread, while callbacks that
   write the same fields exist (`StartClean`; the theorem `StartIsExclusive`).
4. Services of the node are called from the node's own threads, one of them
   from the only thread that could serve it (`CallsReturn`, `ShutdownEnds`,
   `EveryCallPending`; and the disagreement `StartServiceAnswered`).
5. Two independent starters race with the loading of the controller, which may
   be refused, and with whoever stops it (`ImplementsCalls`,
   `OneSwitchAtATime`, `ComesUp`); mode messages replace each other
   (`ModeHeard`).
6. The buffer between SDK and loop never blocks the reader, which may get an
   old slot (`ReadsConfirmedState`, `ReadsAdvance`, and what the controller
   makes of it: `PosesAdvance`).
7. The calibration gate is a test followed by a publication, in front of a
   ramp that goes on behind it (`CommandsHeldBack`, `RampWithoutJump`).
8. A velocity travels through a throttle, a queue of one, three assignments in
   one thread and two passes of reads in another (`OneSurvivesStart`,
   `RestReachesPolicy`).
9. The SDK calls back from the subscription to the end of the process, and a
   detached thread and a shutdown race with the destructors
   (`PartsArePrepared`, `ObjectOutlivesUse`, `BringUpEnds`).
10. One parameter of the controller is checked, and every vector, index and
    tensor of a tick depends on a dozen others (`ConsistentIsSound`,
    `IndexMapMatches`).
11. Every call of the wrapper may fail halfway, and exceptions unwind owners,
    borrowers and bare pointers (`Ownership`, `ThrowLeavesNothing`,
    `LifetimesNest`, `OnlyModelsOutlive`, `ModelStays`).

## 2. Modules

| Module | About | Builds on |
|---|---|---|
| `ControllerSession` | what a user of the controller is promised (abstract) | |
| `Tron2Controller` | the controller between two threads | |
| `Tron2ControllerSession` | the refinement of the first by the second | both |
| `ControllerCalls` | what the callers of the node's services are promised (abstract) | |
| `HwNode` | threads and service calls of the node; implements `ControllerCalls` | `ControllerCalls` |
| `RobotIO` | buffer, handshake, calibration gate | |
| `ControlCycle` | the composition: from the pose read to the command sent | extends `RobotIO` |
| `VelocityCommand` | from the sticks to the policy's input | |
| `BringUp` | the life of the node from `main` to the destructors | |
| `ControllerConfig` | what `loadRLCfg` and a tick make of the parameters | |
| `OrtWrapper` | ownership in the C++ wrapper of ONNX Runtime | |
| `ModelSession` | `loadModel` and the inferences as a client of it | extends `OrtWrapper` |
| `MCVelocityCommand`, `MCControllerConfig` | values of the constants for TLC | |
| `MCOrtWrapper` | symmetry of the client's C++ objects for TLC | extends `OrtWrapper` |
| `...Proofs` | the theorems (section 5) | |

### Tron2Controller: the controller between two threads

A step is one access to a shared field. The loop thread's program counter
`loopPc` walks through `ControllerBase::update` - `checkIdle` (first read of
`mode_`), `checkStand` (second read), `countLoad`/`countStore`
(`loopCount_++`), `test`, then the policy tick `observe`, `fill` or
`shiftLoad`/`shiftStore`, `encode`, `infer`, `record`, and `apply` - then
through the controller manager's switch, with `ControllerBase::starting` inside
it, and `write`. The spinner's program counter `spinPc` walks through
`modeCallback`, one assignment per step, or waits in `switch_controller`.

| Code | Model |
|---|---|
| `modeCallback` | `ModeCallbackWalk`, then `WalkResetCount`, `WalkResetFirst`, `WalkResetLast`, `WalkZeroRow`; `ModeCallbackIdle` |
| `cmdVelCallback` | `CmdVelCallback` |
| `update` | `CheckIdle` ... `Apply` |
| `updateObsHistory` | `Fill`, or `ShiftLoad` and `ShiftStore` per row |
| `starting` | `StartingMode`, `StartingVectors`, `StartingCommand` |
| controller manager | `Load`, `SwitchRequest`, `SwitchReturn`, `NoSwitch`, `EmptySwitch`, `StopSwitch`, `StartSwitch`, `Started` |

Data are abstracted to what the properties tell apart. A vector is one element,
because accesses to a vector touch its elements independently; the history
keeps its rows, because rows are copied onto each other. An action or a row has
an age: `zero`, `new` (of the walk in progress), `old` (of an earlier walk). A
command is the branch that issued it. `mode_` is a plain field of a build
without a declared optimisation level, so the second read in `CheckStand` and
the test in `Test` may use the field or the value read before.

`starting()` is split in three because its assignments before, among and after
the vectors cannot be told apart by anyone: `StartExclusive` is the proof that
no callback runs meanwhile.

Ghost variables: `walkAsked`, `walkCycles`, `idleWritten`, `walkTick`. They are
assigned in the steps they observe and never tested by an action.

### ControllerSession and Tron2ControllerSession: the promise

`ControllerSession` knows whether the controller is on, the mode, the modes in
force since the cycle under way began, the progress of the stand ramp and the
command the joints hold. A cycle gives one command, `Justified` by a mode in
force during that very cycle; a ramp is given `StandSteps` times in all. The
promise has one wart because the controller has it: a cycle during which STAND
is left for IDLE may send the policy's command.

`Tron2ControllerSession` adds the history variable `inForce` to
`Tron2Controller` and maps: `on` is "running, or past `starting()`'s assignment
of `mode_`", `busy` is "inside `update`", `progress` is `standPercent_`. It also
states what `update()` owes by itself: `CyclesAdvance` counts the steps the loop
thread has left to its command (`StepsLeft`, at most `9 + 2 * HistLen`) and says
that each step takes at least one off and no callback puts one back.

### HwNode: threads and service calls

One program counter per caller (`starter`, `joy`, `spawner`, `operator`, and
`main` when the `start_controller` handler calls out), a queue of requests that
only main serves, and the reply each caller waits for. `startController` is
`StartController`, `StartListed`, `StartSwitched`; the joystick callback is
`JoyPress`, `JoyAskedY`, `JoyAskX`, `JoyAskedX` and blocks the SDK's thread
while it waits. `switch_controller` occupies main until the loop thread has
performed the switch (`ServeSwitch`, `PerformSwitch`, `SwitchDone`). `Shutdown`
may happen at any moment; it cancels calls (`CallCancelled`), and main leaves
`spin` and joins the loop thread (`Exit`).

`SetupServices` is the end of `Tron2HW::init`, from which on `start_controller`
is `Advertised` and its calls are queued; the services of the controller manager
follow with the construction of `RobotHWLoop` (`BuildLoop`). `ServeLoad` may
refuse: `ControllerBase::init` returns false or throws for reasons of its own
(`ControllerConfig` and `ModelSession` have them), and a controller is not loaded
twice. The spawner then gives up.

The mode subscription has queue size 1: `modeMsg` is overwritten by a newer
message. The controller's modes are reduced to what starts and messages set.

### ControllerCalls: the promise to the callers

`ControllerCalls` knows neither queue nor threads nor handlers. A caller asks,
the call takes effect in one step, and the caller reads the answer: `List` tells
the truth about that moment, `Load` loads or is refused and changes nothing,
`Perform` starts or stops for a caller that asked for just that, and only then
`Confirm` answers ok. Only a shutdown breaks a call off; of the switches among
those calls one may still come late. The start thread and the spawner ask for
one start each (`Once`, `mayStart`). Nothing else loads, starts or stops the
controller, so a start for which nobody asked, a second one for one request, and
an ok before the switch are all excluded - and a stop can be undone by those two
callers at most once each.

In `HwNode` the stage of a call (`CallOf`) is read off the queue, the handler,
`doSwitch` and the reply; `LateSwitch` is the switch of a handler whose caller
has been cancelled; `MayStart` follows from the program counters of the start
thread and the spawner, `Services` from `Advertised`.

### RobotIO: buffer, handshake, calibration gate

Robot states are numbered by arrival; 0 is the buffer's slot as constructed and
1 the zeros `init()` stores. `StateArrives`, `StateStored` and `FirstStateSet`
are the SDK callback: lock, copy and unlock, flag. `HandshakeTicks`,
`HandshakeOver` and `StartLoop` are main between `init` and the loop; on the
robot (`simMode` false) there is no handshake, and the model starts in either
mode. `ReadState` swaps the slots only when it gets the lock and there is news.
`WriteChecks` and `WritePublishes` are the test of `calibrationState_` and the
publication, with reports possible in between.

### ControlCycle: the composition of loop, controller and I/O

Extends `RobotIO` with one position controlled joint.

| Code | Model |
|---|---|
| `RobotHWLoop::update` up to `write` | `ReadAndUpdate`: `ReadState`, then `Update` of a running controller, then the switch |
| STAND branch of `update` | `Stand`, `NextStandStep` |
| `starting`, `stopping` | `StartSwitch`, `StopSwitch` |
| `HybridJointHandle::setCommand` | `SetCommand` |
| `Tron2HW::write` | `Gate`, `Publish` |

A pose is the number of the state it was read from, and a target of the ramp is
its distance from the default pose in steps, so a jump is a difference of two
numbers. The accesses inside `update` are not interleaved with callbacks here:
that is `Tron2Controller`.

### VelocityCommand: from the sticks to the policy

| Code | Model |
|---|---|
| joystick callback, sticks and `lastPub` throttle (`Tron2HW.cpp`) | `SensorJoy`, `StickBranch` |
| subscription of `/cmd_vel`, queue of one | `Deliver`, `ForeignMessage` |
| `cmdVelCallback` | `CmdVelCallback`, then `StoreComponent` three times |
| `starting` | `Starting` |
| `computeObservation` (gait clock), `computeActions` | `ReadComponent` three times and `Gait`; three times again and `Infer` |

Time is a clock that may jump back, as a simulated `/clock` does when the
simulator is reset.

### BringUp: from main to the destructors

One action per stage of `main` and `Tron2HW::init`, each with its way to fail;
callbacks of the SDK from the moment of their subscription until for ever; the
loop thread, the detached start thread and the destructors, with the references
of the `shared_ptr` in `owners`. Each thread says what it needs, and `missed`
records what was not there.

### ControllerConfig: unchecked parameters

A controller is loaded with one configuration of many and ticks once:
`LoadRLCfg` builds the index map by name (with `operator[]` inserting the first
index for a name it does not know), the gains per joint (read into uninitialised
locals, so a missing parameter leaves `Garbage`) and the sizes;
`ComputeObservation`, `Infer` and `ApplyActions` use them. Only a
`sensor_joint_names` that is missing falls back to `joint_names`; one that is
given and empty stays empty (`sensorsGiven`). An entry of the observation is a symbol
that names what it holds. `Consistent` lists the conditions on the parameters
that the code silently needs, `Sound` says that the tick is what the networks
were trained for: the encoder sees the whole history, every input of the policy
is the right one, every action drives its joint the way the joint needs. The run
shows that the two are equivalent over 24,195 configurations, the two shipped
ones among them; the proof, for every configuration of the types `getParam`
delivers (`ConfigsAssumption`) without a negative size, which the code would
hand to `setZero()`.

### OrtWrapper and ModelSession: who releases what

`OrtWrapper` is the wrapper as its client sees it: C objects at addresses that
are reused, wrappers that own (`Base<T>`), wrappers that borrow
(`Unowned<T>`), bare pointers (`SessionOptions`' names, `GetInputName`), a call
in progress that may fail at each of its steps, and the exception. The member
functions of the wrapper are of few kinds - use, make, keep, lend, bare - and
`Calls` lists which class offers which. `GetOutputValuesHelper`, with its C
array, its vector and its scope guard, and `Session::Run` with its output
vector are modelled step by step.

`ModelSession` is the client this repository has: `LoadModel`,
`ComputeEncoder` and `ComputeActions` are the sequences of their calls, each of
which may fail. A step names the object it makes or ends, the object it is made
on, and what it gives; `Succeeds`, `Continues` and `Fails` carry it out with the
actions of the wrapper. In `init` the exception unwinds the automatic objects and the
controller manager drops the controller; in the loop thread it ends the
process.

### The proof modules

The inductive invariants and the proofs (section 5).

## 3. Runs

| Run | What it asks | Result |
|---|---|---|
| `controller` | types and five safety invariants over every interleaving of loop and spinner; the session is implemented; WALK applies an action of its own; every cycle ends | holds; 642,606 states |
| `policy_command_in_stand` | is the policy's command sent only after WALK? | no |
| `stopped_not_damped` | does the command fall back to damping after a stop? | no |
| `node_calls` | no call lost or answered twice; one switch at a time; is every call as good as handled on its own (`ControllerCalls`)? a mode that was asked for comes into force or gives way to a later one | holds; 363,826 states |
| `node_liveness` | calls return; the controller comes up unless its load is refused; a shutdown ends the node | holds; 224,946 states |
| `start_service_unanswered` | does `/tron2_hw/start_controller` answer? | no |
| `control_cycle` | confirmed handshake, monotone reads and poses, gate; ramps come without a jump; STAND is reached | holds; 1,968,136 states |
| `velocity_command` | one message survives a start; sticks at rest stop the robot | holds; 318,000 states |
| `bring_up` | nothing is used before it is prepared or after it is destroyed; every bring-up and every shutdown ends | holds; 328 states |
| `controller_config` | exactly the consistent configurations give a sound tick; the index map | holds; 104,844 states |
| `ort_wrapper` | no C object is released twice, none is lost, whatever fails | holds; 385,271 states |
| `model_session` | `loadModel` and the inferences keep the wrapper's contract; what a failed load leaves behind | holds; 1,938 states |

What the three refuted statements mean:

- **policy_command_in_stand.** `ControllerBase.cpp:74` and `:84` read `mode_`
  separately. STAND at the first read and IDLE at the second takes neither
  branch: the cycle counts and calls `applyActions()`, so for one cycle the
  joints get the policy branch's command (the cleared actions, at full gains)
  although WALK was never requested. The next cycle damps. With a decimation of
  one the policy itself would be evaluated; that is why `PolicyNeedsWalk` has
  the condition `Decimation > 1`.
- **stopped_not_damped.** `stopping()` is not overridden and `write()` keeps
  sending what the handles hold, while `bringup_mvp.md:76` expects damping.
- **start_service_unanswered.** The handler of `start_controller` calls
  `list_controllers`, which is served by the thread the handler occupies. The
  node serves nothing any more until it is shut down. (`node_liveness` states
  what remains true: every call returns at the latest at the shutdown.)

Further disagreements seen, for which no run is kept:

- A BEST_EFFORT switch of a controller that is not loaded answers ok, so
  `startController()` may return true and log "Started controller"
  (`Tron2HW.cpp:146`) for one that does not run; `PerformSwitch` has this case.
- `calibrationState_` starts as 0 (`Tron2HW.h:84`), the value that means
  calibrated, and `hasCalibrationState_` and `requireCalibration_` are never
  tested: commands go out before any report, against the comment at
  `Tron2HW.cpp:109`.
- `max_pos_step` of `tron2_hw.yaml:19-24` is never read, and `write()` limits
  nothing (`Tron2HW.cpp:101`).
- `stop_controller`, `emergency_stop` and `reset_emergency_stop` are documented
  (`README.md:197-199`, `bringup_mvp.md:43-59`) but not advertised;
  `loop_frequency` is ignored because `RobotHWLoop.cpp:14` calls the getter
  that returns the value and drops it; `hw_control_dt` comes from the launch
  file as 0.005 while the loop runs at 500 Hz, so the stand ramp takes 0.4 s
  instead of `stand_duration`; the `command_limits`, `auto_start_controller`
  and `stop_on_diagnostic_error` parameters are not used.

### Bounds, and why they are enough

- `controller`: `Decimation = 3` (10 in the code), since the properties
  distinguish the cycle in which a tick is due, the one before and the others.
  `HistLen = 3` (10): three rows are the first number with a row that is both
  copied from and copied over. `StandSteps = 2`: first, middle and last step of
  the ramp. `MaxVx = 1`, `Sticks = {0, 2}`: one value inside the range and one
  clamped. Nothing else is bounded: messages and switches may come for ever,
  since the counter is kept modulo the decimation. The proofs remove these
  bounds.
- `node_calls`: `MaxPresses = 1`, as the SDK's thread is one and a second press
  adds no caller; the press overlaps the spawner, the start thread and one
  input of the operator (`MaxRequests = 1`): a stop, a call of
  `start_controller` or a mode message. `Shortcuts` has every combination of
  L1+X and L1+Y. The proofs remove these bounds. `node_liveness` has only the
  combination of both shortcuts, which contains the calls of either.
- `control_cycle`: `MaxMsgs = 2`, `MaxTicks = 1`: with the constructed and the
  blank slot there are four states of the robot for two slots, and a read may
  miss any of them; the handshake may be confirmed, time out, or both at once.
  `RampSteps = 2`; `ActionRange = 0`, because the properties are about ramps
  and only need that a policy's command is something else. Calibration
  reports, switches and mode messages are unbounded.
- `velocity_command`: a stick that is at rest or forward, a period of one clock
  step, one jump of the clock as large as the period, one message of another
  node in another axis, which is clamped. Messages of the sticks are
  unbounded.
- `bring_up`: `MaxTicks = 2`; everything else is finite as it is.
- `controller_config`: joint lists of two and three joints with a wheel, a
  light joint or neither, right and wrong sensor lists (missing, empty,
  reversed, shorter, longer, with an unknown and with a doubled name), gains missing or
  not, modes right, short or wrong, and each size one too small, right or one
  too large, in all combinations, for both variants; and the two shipped
  `params.yaml` at full size.
- `ort_wrapper`: three wrappers (interchangeable, hence the symmetry; the
  addresses are ordered and are not) and six addresses, so that a move has a source,
  a target and a bystander while a call in progress holds a status and an
  array. `Exercised` gives three sets of classes that are used together,
  which between them have every kind of call and every pairing of an owner with
  a part or a user: the calls of the other classes are of the same kinds.
  `model_session` uses the classes the code uses, with twenty addresses and two
  loads.

`CHECK_DEADLOCK FALSE` is set where the modelled activity really ends: in
`HwNode` and `BringUp` the process exits; in `ControllerConfig` the tick is
over or has gone wrong; in `ModelSession` the process has ended by an exception
or the controller has been loaded as often as allowed; in `OrtWrapper` a client
may have filled every address.

### Fairness, and what justifies it

- The loop thread never waits for anything (its reads of the buffer do not
  block), so it is weakly fair; so are main outside a wait, callbacks that have
  begun, the detached thread after its sleep, and the spawner.
- `spin` serves its queue in order; a switch is performed because the loop
  thread looks for it in every cycle.
- No message, button, report, request or shutdown is ever promised.
  `RestReachesPolicy` assumes in its own statement that the SDK keeps sending,
  and `StandReached` that the controller is left alone.
- Each fairness condition is weak and on a thread, not on single actions, except
  `ModeCallback` and `PerformSwitch` in HwNode - a subscription has its own
  queue, served round by round with the others, and the switch belongs to
  another thread - and the clock in `VelocityCommand`.
- `ControllerConfig`, `OrtWrapper` and `ModelSession` have safety properties
  only.

## 4. Behaviours worth knowing that the models show to be possible

- **History.** `NoForeignHistory` excepts a WALK message that is accepted while
  `updateObsHistory()` fills the history for the first time. Then the spinner
  clears rows the loop has still to fill, the loop clears `isFirstObs_` last,
  and if the spinner is held up for a whole tick, rows of the earlier walk are
  shifted back in front of the clearing. TLC finds it with four rows and a
  decimation of two when the exception is removed; with ten and ten it needs the
  spinner to be delayed by a tick of 20 ms.
- **Actions.** WALK does not clear `actions_`. Until the first tick, up to
  decimation - 1 cycles send the actions of the walk before; `IDLE` and back to
  `WALK` replays the last action of the earlier walk. `FreshWithinDecimation`
  is the tight bound.
- **Restart.** A controller that runs may be started again by a second request
  (start thread and spawner, or L1+Y): older versions of the controller manager
  run `starting()` on it, and the robot falls back to STAND. Both outcomes are
  modelled. The start thread and the spawner may each undo a stop, once.
- **A mode from before a restart.** The mode message that waits in the
  subscription is applied after the start that overtook it: WALK asked for
  before a restart leads out of STAND at once.
- **The ramp behind the gate.** `update()` advances `standPercent_` whether or
  not `write()` lets the command out. After a calibration report of trouble has
  been withdrawn, the first command may be as far as the whole ramp from the
  pose of the robot. `RampWithoutJump` excepts exactly that.
- **The slot nobody has written.** When the first read of the loop misses the
  lock, it returns the buffer's slot as constructed, whose vectors have no
  elements, and a start right then captures its pose from there.
  `ReadsConfirmedState` rules out the zeros of `init()` after a confirmed
  handshake, and no more.
- **A tick reads the command twice**, once for the gait clock and once for the
  policy's input, while main may be storing it: the gait may stand still for a
  policy input that is not zero, and a tick that is slow may read each component
  from another message, however many lie between. What must not last is stated
  by `RestReachesPolicy`: sticks at rest are seen by gait and policy.
- **The velocity of a walk.** WALK does not clear `tron2Command_`: a walk begins
  with the velocity stored last, however old it is.
- **A velocity that is queued survives a start.** `starting()` clears
  `tron2Command_`, not the subscription: a message published before the start
  is handled after it and moves the robot at the next WALK. It is one message at
  most (`OneSurvivesStart`).
- **A press before the clients exist.** The joystick is subscribed before
  `setupServices()`: a shortcut in between calls empty clients and is lost.
  `PartsArePrepared` excepts exactly the clients.
- **A message after the end.** Nothing unsubscribes the SDK's callbacks when main
  returns and the `Tron2HW` object is destroyed: a message that comes then is
  handled by a destroyed object. `ObjectOutlivesUse` excepts exactly these.
- **A failed load leaks.** Environment and sessions are made with `new` and the
  names are `char*`: when `init` fails after they were made, nobody releases
  them. `OnlyModelsOutlive` bounds the leak to the environment, two sessions and
  four names for each load that failed,
  which is tight.

## 5. Proofs

Checked by TLAPS with the backends Z3, Zenon and LS4, for every value of the
constants that satisfies the named assumptions (positive decimation, history
length and ramp; natural bounds; limits and sticks that are numbers; addresses
that are natural numbers, none of them null; configurations of the types
`getParam` delivers).

| Module | Proves of its component |
|---|---|
| `Tron2ControllerProofs` | `TypeOK`, `StartClean`, `PolicyNeedsWalk`, `IdleDamped`, `FreshWithinDecimation`, `NoForeignHistory`, and `StartExclusive`; `ImplementsSession`: the refinement, step by step; `CyclesAdvance` |
| `ControlCycleProofs` | of `RobotIO`: `TypeOK`, `ReadsConfirmedState`, `CommandsHeldBack`, `ReadsAdvance`; of `ControlCycle`: `CycleTypeOK`, `RampWithoutJump`, `PosesAdvance`; the cycle implements `RobotIO`, and so has its properties |
| `HwNodeProofs` | `TypeOK`, `EveryCallPending`, `OneSwitchAtATime`; `ImplementsCalls`: the refinement, step by step |
| `VelocityCommandProofs` | `TypeOK`, `OneSurvivesStart` |
| `BringUpProofs` | `TypeOK`, `PartsArePrepared`, `ObjectOutlivesUse` |
| `OrtWrapperProofs` | `Ownership`, `ThrowLeavesNothing` |
| `ModelSessionProofs` | `LifetimesNest`, `OnlyModelsOutlive`, `ModelStays` |
| `ControllerConfigProofs` | `ConsistentIsSound`, `IndexMapMatches` |

**Tron2Controller.** None of the invariants but the types is inductive. The
inductive invariant has eight conjuncts, proved in the order in which they need
each other:

| Conjunct | Says | Gives |
|---|---|---|
| `TypeOK`, `RowInv` | types; a copied row has a row to go to | `TypeCorrect` |
| `SwitchInv` | a switch exists only while the spinner waits for it | `StartIsExclusive` |
| `StartInv` | what each assignment of `starting()` set is still set | `StartIsClean` |
| `WalkInv` | before WALK the counter is 0 in STAND, and only the cycle that IDLE overtakes counts | `PolicyOnlyInWalk` |
| `IdleInv` | after a command in IDLE the loop is in the damping branch | `IdleStaysDamped` |
| `FreshInv` | while actions are old, `loopCount_` is not behind the cycles counted | `ActionsFreshInTime` |
| `HistInv` | which rows may be old, in every stage of the reset and of the tick | `HistoryIsOwn` |

`PolicyOnlyInWalk` shows why the strengthening is needed: the property speaks of
the policy tick, but the reason it holds is that a cycle which slips past both
tests of `mode_` finds the counter at 0, makes it 1, and a counter of 1 is no
multiple of a decimation above 1 - and that the next cycle is stopped by IDLE.

**The refinement of the session** needs one more invariant, `SessionInv`, which
says at each place of the loop what modes the cycle has seen in force: the
present one; between the two reads the one that was read first; and in the policy's
branch WALK, or both STAND and IDLE. With it, each action maps to one step of `ControllerSession` or to
none. `starting()` shows up as `Start` at its assignment of `mode_`.

**The bound on a cycle** (`CyclesAreBounded`) needs of the invariant only that a
row being shifted has one to come from (`RowInv`). It is the safety half of
`EveryCycleEnds`; the other half, that the loop thread goes on taking steps, is
its fairness and stays with TLC. No run of the project repeats the theorem:
`EveryCycleEnds` fails wherever `CyclesAdvance` would leave a cycle stuck.

**RobotIO.** The invariant relates the slots to the messages (a message being
copied is newer than both slots, news is newer than what the reader has), the
flag to the slots, and the count of late commands to the program counter of the
loop.

**ControlCycle** builds on that invariant. `PoseInv` adds that no pose is newer
than what was read and that a ramp begins at the newest pose commanded so far;
`RampInv`, that the
command in the handle is the ramp's step before `standStep`; `OutputInv`, that
unless a command was held back the robot has the command which the next one
follows. The attempt to prove `CycleTypeOK` showed that an earlier version of it
was false for policies of a larger range than the ramp, which the small
instance could not show.

**HwNode.** `EveryCallPending` becomes inductive with the types and the fact
that main's handler is at work exactly while main itself calls out. The lemmas
say what `RemoveAt`, `Tail` and `Append` do to the places of a caller in the
queue. `OneSwitchAtATime` is inductive by itself.

**The refinement of the calls** (`NodeImplementsCalls`) needs all of these and
three facts more: a caller that waits for nothing has read its answer
(`RepliesRead`), the calls main makes to itself are answered by a shutdown or
not at all (`MainRefused`), and a mode message waits only for a controller that
is loaded (`MessageFits`). Per operation of a caller (`Call`, `Return`, a move
without either) and per handler of main one lemma says which stage of whose call
it changes and that it leaves the stages of all others; `ServeImplements` and
`SwitchImplements` are the steps in which a call takes effect. That no ok comes
early rests on `OneSwitchAtATime` and `EveryCallPending` together: the pending
switch is that of the caller being served.

**VelocityCommand.** `QueueInv` counts what a start leaves: the one message in
the queue, or one that was handled.

**BringUp.** `OrderInv` says which parts each stage of main finds prepared, and
`OwnerInv` that a live thread holds a reference and that a failure comes before
the first subscription; with both, `MissedInv` is inductive.

**OrtWrapper.** `Ownership` speaks of sets; the inductive invariant says the same
address by address, with what makes each step safe: `HandInv`, who may release
what; `PartInv`, that parts belong to something solid which the call in progress
does not hold, so that unwinding takes no part of anything older with it;
`StageInv`, what a call has in its hands at each stage; `BeforeInv`, that during a
call there live what lived before and what is in its hands, and nothing is both.
At `Unwind` the last one is `ThrowLeavesNothing`. Two lemmas do the work for the
heap: what an allocation adds and what a release takes away. `CallsTyped` says of
the wrapper's calls that what lends parts is itself never a part.

**ModelSession** uses those two lemmas for a client whose steps are known. The
properties speak of C objects, but they hold because of the order of the calls,
so the inductive invariant `ClientInv` ties the two together:

| Conjunct | Says |
|---|---|
| `WrapInv` | each object of the code wraps the class it is declared with, and is under construction exactly while its call is |
| `StockInv` | every C object is in one hand, was left behind, or is part of another |
| `UseInv`, `FreeInv` | what a C object works on is held by the object the code gave it (`WorksOn`); nothing works where nothing lives |
| `LeftInv` | what failed loads left behind is complete in itself |
| `ScriptInv` | at step i of routine r there are the objects `Present(r, i)` and `Names(r, i)` names; after an exception at most these, the members among them for certain |
| `CountInv` | seven C objects for every load that failed, at most |

`ScriptFits` shows, step by step, that each of the 50 calls of the three
routines finds what it needs in `Present` and leaves what the next one expects,
and that it destroys nothing something present works on. The rest is one lemma
per kind of call about the objects (`MakeOwnerObjects` ... `UnwindObjects`), and
one per action. The attempt to prove that a routine is over only when its last
call is showed that three actions left this implicit: `NoSuchHandle`,
`EncoderDone` and `TickDone` have the guard now.

**ControllerConfig.** `ConsistentIsSound` is an equivalence about every list of
joints and sensors, of any length, every mode, gain and size. The invariant
`IInv` says what each stage of the tick has computed from the parameters; the
work is in both directions of the equivalence at the end: `WheelfootPlaces` and
`SolefootLayout` say which entry of the observation comes from where,
`ObservedMatches` and `DrivenMatches` that entries are as trained exactly under
the condition, `DoneIsSound` collects the conditions. Two kinds of facts look
as if they needed induction over data: what a loop computes (`PushBackLists`), and
that the last of several writers exists (`LastPosition`). Both follow from
`LeastNumber`, the well-foundedness of the natural numbers: a claim about a loop
that fails has a least number of passes after which it fails.

The attempt to prove the equivalence refuted an earlier version of the
conditions, in which a leg joint of WheelfootController had to have the mode
`position`: the code only compares with `velocity`, so any other word will do,
and the sound tick now says for itself that the encoder sees the whole history
and that the networks' sizes are the given ones. TLC had not met either, since
the explored neighbourhood of the shipped parameters has no such
configurations. Assumed of a configuration is only that its values have the
types `getParam` delivers and that no size is negative.

Every invariant was checked by TLC on a small instance before it was proved.

Only model-checked: the liveness properties, since arguments from fairness and
ENABLED are out of this prover's reach (`EveryCycleEnds`, `WalkReachesPolicy`,
`StandReached`, `RestReachesPolicy`, `BringUpEnds`, `ModeHeard` and those of
`node_liveness`). Every invariant and every action property of a passing run is
proved.

## 6. Not modelled

- What the networks compute, quaternions, gait phases, gains and other floating
  point.
- Real time: the period of the loop and the 1.2 s sleep (the start thread may
  wake at any time after the loop exists). The joystick's throttle has a clock
  of its own in `VelocityCommand`.
- Overflow of `loopCount_` after 49 days of walking: the counter is kept modulo
  the decimation.
- A decimation parameter of zero, and button indices beyond the joystick's
  buttons (`Tron2HW.cpp:281`): parameters that make the behaviour undefined.
- The IMU's buffer, which is `robotStateBuffer_` again without a flag or a
  handshake.
- Code no one calls: `stopController`, torque clipping of actions,
  `ContactSensorInterface`.
- ONNX Runtime behind its C API, including `onnxruntime_c_api.h`, which only
  declares it. Of the wrapper: provider lists, element-type traits, half
  precision, `CustomOpBase` beyond its calls. The client of `OrtWrapper` keeps
  three rules the wrapper does not check: a `Base<T>` is not moved onto itself
  (which would release what it keeps), an `Unowned<T>` is not sliced into a `T`,
  and nothing is released that something else still works on.
- The simulator, the teleop node, launch logic beyond the spawner, CI.

## 7. Plan

Done: all modules of section 2; the refinements; the proofs of section 5, which
cover every safety property the runs check.

Left, in this order:

1. The IMU buffer next to the state buffer, with the pair of a new state and an
   old orientation in one observation.
2. The lifetimes of `BringUp` together with those of `ModelSession`: the
   sessions in the loop thread when main has returned.
