# A formal model of hisi-rf-core

`hisi-rf-core` is the `no_std` core of a Wi-Fi/BLE/SLE radio stack: it owns no
hardware, no heap and no threads, and joins an application task (the
*controller*), a task that performs radio work (the *runner*) and a blob of
vendor code (the *backend*) through static state, bounded channels and
one-slot signals. This directory holds TLA+ models of that machinery, the TLC
instances that check them and TLAPS proofs about the parts whose correctness
should not depend on how small an instance is.

Source lines below are relative to the crate (`src/wifi.rs`, ...).

## 1. The system

### Components

| Part of the code | State it keeps | Operations | Module |
|---|---|---|---|
| `OperationTracker`, `FairWakeSelector`, `IncrementalRunnerState`, `WorkReport` (`src/incremental.rs`, `src/incremental/runner.rs`) | one operation slot with a generation-tagged identity and a lifecycle; the set of sources the operation waits for; the next source to favour | queue, mark started, resubscribe, request/mark cancellation, terminate, retire, next step | `RunnerState` |
| `CommandArbiter` (`src/incremental/command.rs`) | active command, command being started, command waiting | submit, take, bind, cancel by sequence, mark cancellation, finish | `CommandArbiter` |
| `IncrementalBackendDriver` (`src/incremental/driver.rs`) | the two above and a backend | `submit`, `request_cancel`, `drive_once`, `wait_intent` | `IncrementalDriver` |
| `WifiController` (`src/wifi.rs`) | next sequence; the one control future in progress | `initialize`, `scan`, `connect`, `disconnect`, and the drop of their futures | `WifiController` |
| `IncrementalRadioRunner` (`src/incremental/facade.rs`) | the driver, a ledger of the commands in it, diagnostics | `wait_ready`, `run_once` | `IncrementalFacade` |
| `RadioRunner` (`src/wifi.rs`) | blocking backend, last poll error | `run_once`, `run` | `BlockingRunner` |
| the radio event queue (`src/state.rs`, `src/wifi.rs`) | drop-oldest channel, four saturating counters | `publish_event`, `next_event` | `RadioEvents` |
| `EventState` (`src/control.rs`) | refuse-when-full channel, four wrapping counters | `try_publish`, `try_next_event`, `next_event`, `diagnostics` | `ProtocolEvents` |
| `ControlState` (`src/control.rs`) | command channel, completion signal, ids | `try_submit`, `try_take_completion`, `try_take_command`, `complete` | `ControlTransport` |
| `LifecycleState` (`src/control.rs`) | a phase behind a critical section, a cancellation signal, a terminal signal | `begin`, `activate`, `adopt`, `abort`, `try_take_cancel`, `finish`, `terminate`; guards: drop, `stop`, drop of a `stop` | `Lifecycle` |
| `L2CapabilityState` (`src/state.rs`) | an address stored byte by byte behind a flag | `publish_once`, `snapshot` | `L2Identity` |
| claim and split (`src/state.rs`, `src/wifi.rs`, `src/incremental/facade.rs`) | the claim flag of a static `RadioState` | `init`, `split`, `split_incremental`, and the drop of what they hand out | `RadioOwnership` |
| a protocol driver's control plane (`src/control.rs`) | a transport and the lifecycle of one resource | those of both, and `is_active` before a command touches its backend | `ControlPlane` |
| `IncrementalRunnerDiagnostics` (`src/incremental/facade.rs`) | eighteen saturating counters | `increment`, `record_ready`, `record_event` at every place of `run_once` and `wait_ready` | `RunnerDiagnostics` |
| `ble.rs`, `sle.rs`; `Ssid`, `Passphrase`, timeouts, `StationConfig` (`src/wifi.rs`), `src/wifi/security.rs`; `WorkBudget` | validated immutable values | constructors that may refuse | `BleValues`, `SleValues`, `WifiValues`, joined by `RadioValues` |
| `BackendError` (`src/wifi.rs`), `diagnostics.rs` | class, code, stage, revision and a trace of four entries | `with_stage`, `with_profile_revision`, `with_trace`, `diagnostic`, `write_json` | `ErrorDiagnostics`, driven by `RadioValues` |

### How they interact

    application ── WifiController ──commands(1)──────▶ runner ── backend
                        ▲          ──cancellations(3)─▶   │
                        └──completion(1 slot)─────────────┤
                        └──events(N, drop oldest)─────────┤
                        └──scan buffer (UnsafeCell)───────┘
    WifiDevice ── L2CapabilityState (flag, bytes) ◀───────┘

The runner is either the blocking `RadioRunner` or the `IncrementalRadioRunner`,
which contains an `IncrementalBackendDriver`, which contains a `CommandArbiter`
and an `IncrementalRunnerState`. `control.rs` is a second, protocol-neutral
set of the same ideas (command transport, event queue, lifecycle) for BLE and
SLE drivers; its three types do not call each other. What joins two of them is
a rule in a comment: `is_active` is asked for the generation a command was
meant for, immediately before the backend is touched.

Configuration values are built by the application before it calls anything and
travel unchanged through the channels; a `BackendError` travels the other way
and is turned into a `Diagnostic` when somebody reads it. Neither has a say in
the protocols, so they have modules of their own.

### What is hard

* **Dropped futures.** Every control method is a future that may be dropped at
  any await. A drop before the command entered the channel must do nothing; a
  drop after it must request a cancellation that reaches the right command.
* **Two stores for one fact.** The arbiter and the runner core both know the
  active command, and either may move while the backend refuses.
* **Signals outside of critical sections.** `LifecycleState` changes its phase
  in a critical section and signals afterwards.
* **One-slot signals and bounded channels** whose overflow is ignored on the
  argument that it cannot happen.
* **A backend that is free** to finish, fail, cancel on its own account, refuse
  a start or a cancellation, answer with an old identity, or say nothing.
* **Ownership by convention.** A `RadioState` is static and anyone may call
  `init` on it; one compare-exchange stands between the crate's `unsafe` blocks
  and a second runner.
* **Commands that outlive what they were meant for**: queued for a resource that
  is cancelled, ends, or is opened again before they are performed.
* **Wholes built from parts that are validated alone**: a database, a request
  or a diagnostic is put together by many calls, each of which sees its own
  arguments.
* **Counters** that are read and written without a common lock, and wrap or
  saturate at 2^32; identities that wrap and must skip zero.

`PROJECT.json` lists these hazards one by one, at the line where each bites,
with the properties that would catch it.

## 2. The modules

| Module | Models | Extends / uses |
|---|---|---|
| `RunnerState` | the runner core, as functions on a record with a `Can...` predicate where an operation may return `Err` | |
| `CommandArbiter` | the arbiter, in the same style | |
| `IncrementalDriver` | the driver around any backend the trait allows | extends both |
| `CommandService` | what the command plane promises a controller (abstract) | refined by `IncrementalDriver` and `BlockingRunner` |
| `WifiController` | the controller with its two channels and its completion signal | composed with a runner by the next two |
| `IncrementalFacade` | `wait_ready` and the four steps of `run_once` | extends `IncrementalDriver`, instantiates `WifiController` |
| `BlockingRunner` | the blocking runner | extends `WifiController` |
| `RunnerDiagnostics` | the counters of the incremental runner, and a `wait_ready` that sleeps, fails or is dropped | extends `IncrementalFacade` |
| `RadioEvents`, `ProtocolEvents`, `ControlTransport`, `Lifecycle` | the component of that name | |
| `ControlPlane` | a transport and a lifecycle side by side, with commands meant for a generation | extends `Lifecycle` and `ControlTransport` |
| `RadioOwnership` | `init`, `split` and the claim | extended by the next |
| `L2Identity` | the published address, with a runner for each task that owns the radio | extends `RadioOwnership` |
| `BleValues`, `SleValues`, `WifiValues`, `ErrorDiagnostics` | each constructor as the condition under which it succeeds; errors, traces and their JSON | |
| `RadioValues` | an application that composes calls of these constructors | extends the four above |
| `MCIncrementalDriver`, `MCIncrementalFacade`, `MCRadioValues` | the sets of wake sources and of constructor inputs the instances use | |
| `*Proofs` | theorems, see section 5 | |

### What a step is

* `IncrementalDriver`: the driver is a synchronous object with one owner, so a
  whole call is one step. `DriveOnce` has one disjunct per way out of
  `drive_once`: nothing to do, a start accepted or refused, a cancellation
  accepted or refused, a step the driver has no use for, waiting, and a poll
  that ends pending, terminal, failed, or with a report of another operation.
  What is `Err` in the code sets `event` to `"Error"` and keeps what had been
  changed by then.
* `IncrementalFacade`: `run_once` touches the channels three times and the
  signal once; each is a step, and so is `wait_ready`. The constant
  `Preemptive` says whether the controller may run between them (a task of
  another priority, another core) or only while the runner sleeps (one
  cooperative executor).
* `BlockingRunner`: every access to a channel or the signal is a step, the
  backend call is one (`BeginCommand`/`PerformCommand`), and the controller may
  run between any two. Blocking code implies a thread of its own, so there is
  no cooperative variant.
* `RadioEvents`, `ProtocolEvents`: every channel operation and every counter is
  a step. The variable `preemptive`, chosen at the start and never changed,
  says whether the other side may run between them; properties that hold on a
  cooperative executor only say so in their first conjunct.
* `ControlTransport`: both calls that touch shared state twice
  (`try_submit`, `complete`) are two steps, with the other side free to run in
  between.
* `Lifecycle`: a critical section is a step, a signal is a step; `Preemptive`
  as above.
* `ControlPlane`: a step of one part leaves the other alone. The question
  `is_active` and the backend call behind it are one step (`Touch`): the rule
  says "immediately before", and on a cooperative executor nothing runs between
  two calls without an await.
* `RunnerDiagnostics`: each counter update is part of the step it stands beside
  in the code. `WaitReady` of the facade is one poll here: it may be preceded by
  polls that return `Pending` (`WaitSleeps`), and the future may end with the
  platform's error (`WaitFails`) or be dropped asleep (`DropWait`).
* `RadioValues`: a constructor call is a step. It either adds the value to what
  the application holds or leaves it with nothing (`refused`), which is what an
  application that unwraps the `Option` observes.
* `RadioOwnership`: `init` is one compare-exchange, hence a step; so is `split`.
* `L2Identity`: a byte stored or loaded is a step. The flag is stored with
  Release and loaded with Acquire, so a sequence of atomic steps shows what the
  two sides can observe.

### What stands for what

* Commands are numbered in the order they enter the channel. The code also
  uses up a number when a send is dropped before it entered; nobody sees such
  a number, so the model skips it.
* A request's kind, scan results, credentials and addresses of peers are
  left out. Where the kind matters (`publish_terminal` compares the success with
  the request) both outcomes are explored.
* A `WaitSet` is a set of sources. The event and time accounting of a
  `WorkReport` is used to derive which dispositions a backend can report
  (`ReportShape`), not carried along.
* `u32` counters are counters up to a constant (`MaxGeneration`, `MaxId`,
  `CounterMax`, `Modulus`) with the code's own wrap or saturation.
* Constructor inputs are the limits of each test in the code, their neighbours
  and one value inside. Text is spelled out where an escape depends on it (the
  profile revision) and is a name elsewhere (`as_str`). Bit sets are sets.
* History variables (`outcome`, `cancelCalls`, `submitted`, `answers`,
  `published`, `lost`, `received`, `peak`, `first`, `waits`, `abandoned`, `refusals`,
  `history`, `dropped` of the controller)
  are read by properties and by the guards that bound a run, by nothing else.

## 3. What is checked

| Run | Question | Distinct states |
|---|---|---|
| `driver` | Do the arbiter and the runner core agree, is every command accounted for and answered once, is the backend asked once to cancel, is every selected step one the driver can do, is every wake served, is a stale report harmless, and does the driver implement `CommandService`? | 24 936 |
| `control_plane` | On one executor, lifecycle and transport together: is no phase left without the waiter it needs, do terminals and cancellations reach their own generation, is a command in one place, does a queued command act only on a resource whose owner holds it, does every stop return, every cancelled generation end and every command come back? | 60 319 |
| `lifecycle_stranded` | The first of these for a lifecycle with preemption: violated | |
| `facade_cooperative` | On one executor: does the request of a dropped future survive until the command is answered, does it reach the backend without the help of a wake, is every call answered? | 11 761 |
| `facade_preemptive` | With preemption: does the cancellation channel never overflow, does the ledger follow the driver, is no awaited answer overwritten, is the scan buffer left alone while the controller reads it? | 956 002 |
| `facade_lost_cancel` | The first property of `facade_cooperative` with preemption: violated | |
| `blocking` | Of the blocking runner: does the cancellation channel never overflow, does the request of a dropped future survive, is a dropped command never started, is the scan buffer left alone, is every call answered, does this runner too implement `CommandService`? | 75 962 |
| `events` | Order, survival of the newest, conservation, saturation; on one executor the exactness of the drop counter and high water mark, and a loss only to a full queue of later events | 9 314 |
| `protocol_events` | Conservation between calls and across the wrap, which makes snapshots exact on one executor; boundedly wrong snapshots with preemption | 25 985 |
| `l2_identity` | Two tasks that call `init`: does one own the radio, is a snapshot `None` or the whole first address, for good? | 1 101 |
| `runner_diagnostics` | Do the counters say what became of each command and of each wait, does a failing platform cost no more than a turn of the loop? | 220 097 |
| `values` | Is every request that constructors compose valid as a whole (non-ASCII passphrases excepted), does every database keep the contract its constructors document, does every diagnostic tell all the backend said, and is nothing valid refused? | 274 277 |

Every property of a passing run has a mutant in the modules (`\* Mutant:`): an
operator beside the one it changes that makes a plausible mistake, such as a
dropped guard, an early flag, a counter that is stored instead of incremented.
With the mutant in place of the operator, TLC finds that property violated.

### Bounds

* Driver: three commands, so that one is active, one waits and one has been
  answered before; two generations, so that identities wrap and come round
  while the driver is in use. A backend subscribes `COMMAND` and `BACKEND`; `TIMER`
  joins them through its deadline, and the fourth source, `L2_RX`, is treated by
  the code as `BACKEND` is.
* Facade, preemptive: four commands, one more than the cancellation channel
  holds, and one generation, so no report is of another operation there (the
  other two runs of the driver have such reports). Facade, cooperative (with liveness): two, which is one active and one
  that replaces it. The backend subscribes `BACKEND`; a deadline adds `TIMER`.
* Blocking: five commands, two more than the channel holds. The command
  channel has its real capacity of one and the cancellation channel its real
  capacity of three everywhere.
* Control plane: three generations and three control ids, each with the counter
  wrapping at the last, so that every number is used again. One bound is of the
  model: while a command is under way the generation it is meant for does not
  come round again (in the code that takes 2^32 lifecycles).
* Events: queues of two; eight events against counters that saturate at seven,
  sixteen calls against counters that wrap at eleven. `Modulus` must exceed
  twice the possible error of a snapshot, or a wrapped difference could not be
  told from a correct one: an assumption of the module.
* L2 identity: two tasks, three bytes out of three values. Three bytes tell
  "first", "between" and "last" apart, and the values an odd first byte, an even
  one and zero.
* Runner diagnostics: two commands, five waits, counters that saturate at five,
  so that the counters of waits reach the limit and those of commands do not.
* Values: two parts of a kind in a database, six pushed entries on a trace of
  four, and inputs at each limit (`MCRadioValues`). A constructor that does not
  look at an input gets one value of it.

`CHECK_DEADLOCK FALSE` appears where a bound lets a run stop (every event
published, every command used) or where an idle runner sleeps for a controller
that has nothing more to say.

### Fairness

* Lifecycle: the runner takes cancellations and finishes what it took, a begun
  call returns, a woken `stop` is polled. Nothing is assumed of the owner of a
  guard.
* Facade (`FairFacadeSpec`): the runner's loop goes on as long as its own wait
  intent says *run immediately*, and a woken control future is polled: what an
  executor does. `DropReachesBackend` needs no more, so a cancellation does not
  wait for a wake. `CallIsAnswered` is stated under `BackendIsLive`: a source
  the backend waits for becomes ready (weak fairness of the runner), and an
  operation polled over and over ends (strong fairness of a terminal event).
  Neither is the crate's to guarantee.
* Blocking: the runner's thread goes on and a backend call returns.
* Control plane (`PlaneSpec`): what lifecycle and transport assume alone, both
  sides of the transport go on, and the runner performs or answers the command
  it took.

No fairness is assumed of making a call or of dropping a future.

### What the violated runs show

* **`lifecycle_stranded`** (`src/control.rs:690`). `finish` and `terminate` set
  the phase to `Terminal` in a critical section and signal afterwards. If the
  waiting `stop` is dropped in between, it resets the phase to `Idle` and finds
  nothing in the slot; the signal then puts the terminal of an ended generation
  there. A `stop` of the next generation takes it, returns `Stale`, and does not
  detach when it is dropped. That generation ends in `Terminal` with nobody
  left to acknowledge it, and `begin` returns `Busy` from then on. The test at
  `src/control.rs:925` states the opposite for the schedule it exercises. It
  takes a guard that can run between the two: another priority or core.
* **`facade_lost_cancel`** (`src/incremental/facade.rs:316`). `run_once` looks at
  the command channel and then at the cancellation channel. A controller that
  sends a command and drops its future between the two has its request
  consumed while the command is still in the channel; the arbiter does not know
  the number, the request is forgotten, and the command runs to its end.
### Observed without a run

* `publish_event` counts a dropped event whether or not its `try_receive`
  discarded one (`src/state.rs:173`). If the controller empties the queue in
  between, nothing is discarded, though the counter's comment speaks of "oldest
  events discarded" (`src/wifi.rs:479`). `CooperativeCountersExact` is therefore
  stated for one executor.
* A backend report may subscribe `COMMAND`; the selector then gives a turn to the
  command plane (`RunnerStep::CommandReady`), and `drive_once` answers it with
  `InvalidTransition`. `NoMisdirectedStep` is stated for reports that do not
  subscribe it.
* `immediate_ready_completions` counts every return of an empty set, also that of
  a wait that slept and was woken by a command, and does not count a cancellation
  that was there at once: it is returned as a set of its own.
* A protocol error on the path through `request_cancel`
  (`src/incremental/facade.rs:327`) is returned without being counted; the
  driver never takes that path with a ledger that misses the command.
* The counters of ready batches are documented as the `run_once` calls that
  supplied a source (`src/incremental/facade.rs:26-33`). They are recorded in
  `run_once` and, for the same batch, already in the `wait_ready` that returned it
  (`facade.rs:471`), so a batch shows as two. The model counts as the code does;
  no property states either reading.
* `Passphrase::try_from_ascii` promises "8-63 byte printable ASCII"
  (`src/wifi.rs:149`), looks for the control characters of ASCII only
  (`src/wifi.rs:151`) and so accepts bytes from 128 on. `RequestsAreValid` says
  what the documentation says and excepts these passphrases by name
  (`IsBeyondAscii`); `AsciiRequestsFit` proves that nothing needs the exception when
  the application hands over ASCII.
* `BluetoothAddress::random` accepts a non-resolvable address of ones.
* A characteristic's `READ` and `WRITE` ("Peer may write", `src/ble.rs:546`) are not
  compared with its permissions, as those of an SSAP property are, and a
  configuration descriptor is recognised by its 16-bit UUID only, whatever its
  own permissions: a database may name operations that no peer can use. The
  constructors promise no more ("the notification/indication CCC contract",
  `src/ble.rs:634`), so `DatabasesKeepContract` claims no more.
* `run_once` is public and takes any ready set. That the controller may copy the scan
  results (`src/wifi.rs:740`) while no `run_once` borrows them mutably
  (`facade.rs:335`) holds of the loop that runs what `wait_ready` returned, which is
  the loop modelled; so does the conjunct of `WaitsAreCounted` that ties the
  completions to the `run_once` calls.
* With preemption `is_active` and the backend call are not one step; that the
  two stay together is for the protocol driver to arrange.

## 4. Properties worth a second look

* `DriverConsistent` is the driver's type and `Agreement`, which keeps every `?`
  of the driver from leaving a command stuck: the inner calls return `Ok` because
  the two stores agree.
* `WaitIntentIsExact` joins two opposite mistakes: to sleep with work at hand
  (`SleepsOnlyWhenIdle`) and to wake for nothing (`WakesAreServed`).
* `ImplementsService` maps the arbiter, the outcomes and the cancellation flags to
  one status per command. A success after the cancellation was taken on is a
  step the service does not have. The blocking runner maps to the same service
  without the state *cancelling*: it looks at cancellations before the call only.
* `CancellationsFit` (in `FacadeInvariant` and `BlockingInvariant`) is the argument
  in the comment of `OperationCancellation`: the result of `try_send` may be
  ignored because three places are enough. It is not obvious for the blocking
  runner, which leaves requests unread for the whole of a backend call; that two
  places more than the command channel has are what it takes is proved.
* `ScanBufferIsQuiet` is the argument for the `UnsafeCell`: `drive_once` borrows
  the buffer mutably each time it is called, also when it polls nothing, so the
  runner must not even be woken while the controller copies.
* `ActsOnHeldResource` says what the rule of `is_active` is for. It needs the
  lifecycle (an active generation has its guard) and the question at the right
  moment: asked when the command is taken, it is false.
* `OneOwner` and `L2Invariant` belong together: a second runner would mix two
  addresses, and nothing but the claim keeps one away.
* `WaitsAreCounted` is an equation between the histories of two futures: every
  wait that was polled returned, failed, was dropped or sleeps, and each that
  returned led to one `run_once`.
* `DatabasesKeepContract`, `RequestsAreValid` and `DiagnosticsAreLossless` are
  said without the constructors: over the whole value (a walk through a database,
  the set of one bits of an address, times in microseconds, a JSON reader), and
  in both directions, so a constructor that refuses too much is found as well.
* The `...Invariant` of a module is its type invariant in one conjunction with
  the property that makes it worth checking (a guard for each active generation,
  counters that add up, a ledger that is the driver's, a cancellation channel
  with room, a whole snapshot): the inductive invariant, or its start.
* `SnapshotErrorIsBounded` is tight on both sides: a full queue and one event.

## 5. What is proved

All theorems hold for every value of the constants under the modules' named
assumptions (`GenerationAssumption`, `DriverAssumption`, `FacadeAssumption`,
`DiagnosticsAssumption`, `BlockingAssumption`, `RadioEventsAssumption`,
`ProtocolEventsAssumption`, `LifecycleAssumption`, `TransportAssumption`,
`L2Assumption`, `TraceAssumption`, `ValuesAssumption`): limits and depths are positive numbers, backend sources are
wake sources, `Preemptive` is a Boolean, arguments have the width of their types
(bytes, `u16`, kinds of an enum), a profile revision is a sequence of code
points, the cancellation channel has at least two places more than the command channel (the code's 3
and 1), and a counter of `EventState` wraps after more than twice its queue's
depth plus one (the code's 2^32). Each inductive invariant was an invariant of
a TLC run before it was proved.

**The driver** (`IncrementalDriverProofs`). The inductive
invariant is

    DriverInv == DriverTypeOK /\ Agreement /\ Accounted /\ CancelCalls

`Agreement` makes each inner call legal, hence known in its effect; `Accounted`
needs it to know that the command answered is the active one; `CancelCalls`
strengthens "at most once" to "once only for a command that is cancelling or
answered", without which a second call could not be excluded. There is one
lemma per action, and two more (`KeepingCommandsKeepsInv`, `AnsweringKeepsInv`) for
what several have in common. From it:

* `DriverTypeCorrect`, `ArbiterAgreesWithRunner`, `CommandsAreAccounted`,
  `BackendCancelledOnce`;
* `WaitIntentCorrect`: the half about wakes rests on `SelectedIsNearest` (the
  selector returns an eligible source whenever there is one), the half about
  sleep on `Agreement`, since the wait intent reads both stores;
* `StepsAreDirected` and `StaleReportsAreHarmless`: action properties, from the
  invariant at the start of the step;
* `EverySourceGetsItsTurn` and `TurnsAreFair`: what `FairWakeSelector` is for. A
  poll takes the eligible source nearest in the scan and prefers the one behind
  it next time, so any other eligible source comes nearer (`TakenOrNearer`); it
  is at most three places away, hence taken at the fourth turn if not before.
  The pure statement says it of four turns in a row; the action property says
  that the driver's polls are such turns and that no other step moves the
  preference, so it survives starts, cancellations, errors and the end of an
  operation, where the tests of the selector do not follow it;
* `DriverImplementsService`: initial states map to initial states, and every step is a step of `CommandService` or leaves each
  status alone. `StatusMeaning` reads the mapping under `DriverInv`; then each
  action has a lemma that names the service's action it is.

**The facade** (`IncrementalFacadeProofs`). The inductive invariant stands on the
driver's:

    FacadeInv == DriverInv /\ FacadeTypeOK /\ LedgerMatchesDriver /\ Channel /\ Settled
                   /\ Progress /\ Caller /\ Requests /\ Quiet /\ Cooperative

`Channel` says that the command channel holds the numbers after `submitted`, in
order. `Settled` adds to `DriverInv` the order of the driver's two commands, and
that nobody waits for an operation that is over. A future waits for the last
command sent, and any other one that is not answered was dropped (`Caller`). The
requests in the cancellation channel ascend, and since a turn that receives a
command also takes a request, none is older than the command before the last
one received (`Requests`): they are at most two more than the channel of
commands holds. `Quiet` is the heart of the matter: from the moment an awaited
answer is fixed until the controller has copied the scan results both channels
are empty and the driver holds nothing. From the invariant:

* `FacadeIsConsistent` (`FacadeInvariant`: the ledger follows the driver, no
  request is lost to a full channel);
* `AnswerStays` (`AnswerIsKept`): that the answer is there follows from `Quiet`;
  that it is the driver's needs one more invariant, `Truthful`, which holds
  because no step takes an answer back (`StepKeepsAnswers`);
* `ScanBufferStaysQuiet` (`ScanBufferIsQuiet`): from `Quiet`, since with empty
  channels and nobody to wait for no source wakes the runner;
* `CooperativeDropsCancel` (`DropRequestsCancel`), which assumes `~Preemptive`:
  with preemption it is false, and `facade_lost_cancel` shows why. What makes it
  inductive on one executor is that a turn that finds a second command in the
  channel has one pending already, so the request it then takes is for a command
  the driver knows (`Cooperative`);
* `FacadeKeepsDriver`: every behaviour of the facade is one of `IncrementalDriver`.
  The facade drives with whatever woke it, so this needs an invariant of its
  own, `KnownSources`: an operation waits for the backend's sources, the command
  plane and the timer, and nothing else is ever found ready. And a request taken
  from the channel that finds a command is for a number the driver has seen.
  With it the theorems about the driver hold inside the facade, and
  `FacadeImplementsService` follows from `DriverImplementsService`: channels,
  dropped futures and preemption add nothing to the promise of the service.

**The counters of the incremental runner** (`RunnerDiagnosticsProofs`).
`CountingKeepsFacade` comes first: every step of the counted runner is a step of
the facade or leaves it alone, so the counters decide nothing and `FacadeInv` is
at hand. On top of it `DiagnosticsInv` adds that a wait asleep or dropped was
counted (`Waits`), that a refused command is answered and every refusal counted
(`Refusals`), and what the event counters stand between (`Counts`): the started
are no fewer than the completed and the running, and no more than the commands
that left the pending slot; the cancellations asked for are no fewer than those
delivered and no more than those the backend was called for. All of it is said
of saturating counters (`ShownNext`). From it `CountersTellTheTruth`
(`DiagnosticsInvariant`) and `WaitsAddUp` (`WaitsAreCounted`).

**The radio event queue** (`RadioStateProofs`). The inductive invariant is

    EventsInv == EventsTypeOK /\ Order /\ Newest /\ Balance /\ Uninterrupted

Both sides take from the front and one adds at the end, so the queue ascends and
lies behind all that was received or lost (`Order`), and the event being
published is in nobody's hands until it is sent (`Newest`). `Balance` is
conservation with what each side has done and not counted yet. `Uninterrupted`
holds when calls do not overlap: the queue the producer found full still is when
it discards, so the drop counter is the number of events lost, and each of those
has a full queue of later ones. From it `EventsAreAccounted`
(`EventsInvariant`), `CooperativeCountersCorrect` (`CooperativeCountersExact`),
`NewestIsKept` (`OnlyOverflowLoses`) and `EventsReceivedInOrder`
(`ReceivedInOrder`).

**The protocol event queue** (`ProtocolEventsProofs`). The counters are residues,
and no counter but the history `published` can be compared with another except
up to the modulus. All that is compared is small, so a difference is off by -1, 0
or 1 modulus (`Near`). The inductive invariant adds to `Balance` and `Calls`
(conservation and the count of calls, but for what is under way) what a snapshot
half taken knows (`Reading`): the side that reads keeps its own counter still,
and the other can move no further than the queue holds or has room for. From it
`CallsAreAccounted` (`ProtocolInvariant`) and `SnapshotErrorBound`
(`SnapshotErrorIsBounded`).

**The blocking runner** (`BlockingRunnerProofs`). The inductive invariant is

    BlockingInv == BlockingTypeOK /\ Queue /\ Progress /\ Caller /\ Requests
                     /\ DropRequestsCancel

Commands leave their channel in the order they were sent, so `Received` tells the
queued from the answered (`Queue`, `Progress`); a future waits for the last
command sent, and any other one that is not answered was dropped (`Caller`). The
requests in the channel ascend, and none is older than the command before the
current one (`Requests`): with that, and none for the command awaited, they are
at most one more than the commands queued (`RequestsFit`). The hard case is
`DiscardedIsAnswered`: a request that does not match the current command may be
discarded, because if it were for a later command the current one had been
dropped too, and its own request would be in front. From the invariant:

* `DroppedFuturesCancel` (`BlockingInvariant`), `DroppedIsNeverStarted`,
  `ScanBufferIsNotShared`;
* `BlockingImplementsService`: receiving is `Accept`, the call's begin `Start`,
  and the signal `Succeed`, `Fail` or `Withdraw`; all other steps stutter.

**The lifecycle** (`ControlPlaneProofs`). `LifecycleInv` is inductive with preemption
too (`LifecycleInvariant`, `LifecycleTypeCorrect`, `ActiveLifecycleHasGuard`). The other three assume
`~Preemptive`; their invariant `CooperativeInv` adds to the properties where a
guard in each place finds the phase (`GuardFits`) and that nobody is inside a
call while a terminal is about to be signalled (`OneCall`), which is the very
fact preemption breaks in `lifecycle_stranded`. From it:
`CooperativeNotStranded`, `CooperativeTerminalIsCurrent`,
`CooperativeCancellationIsKnown`.

**The transport** (`ControlPlaneProofs`). `TransportTypeOK /\ OnePlace` is
inductive (`TransportIsConsistent`); from it `TransportTypeCorrect`, `CommandHasOnePlace`, `CompletionsAreCurrent`.

**The control plane** (`ControlPlaneProofs`). `PlaneKeepsProtocols`: each step of
the plane is a step of the lifecycle or leaves it alone, and the same for the
transport, so what was proved of each holds beside the other
(`PlaneIsConsistent`, `PlaneNotStranded`, `PlaneSignalsAreCurrent`).
`CommandsActOnHeldResource` then needs one more fact of the lifecycle, that an
active generation has its guard; no assumption about preemption.

**Ownership and identity** (`RadioStateProofs`). `RadioHasOneOwner` is inductive.
`SnapshotsAreWhole` and `IdentityStays` rest on it: with one owner there is one
writer, what it has stored is a prefix of the first address, the flag is set
when the prefix is the whole, and a snapshot that began after that loads a prefix
of the same address.

**The values** (`RadioValuesProofs`). For each constructor a lemma says that the
condition the code tests is the one the property states in terms of its own:
the kind of an address by the set of its 48 one bits (`AddressKind`, from what the
bits say of a byte, `ByteAsBits`, and of a field across bytes, `Field`), times in
units as microseconds (`IntervalIsFit`, `TimingIsFit`), a bitmap as a set of
channels (`ChannelsAreFit`), printable text, and what a network lets a station use
(`StationIsFit`). Then

    ValuesInv == parts \in Seq(ToSet(parts)) /\ \A value \in ToSet(parts) : Typed(value)
                   /\ SameKind /\ RequestsAreValid /\ DatabasesKeepContract

is inductive: a whole is made of parts that each went through such a constructor,
which is what a constructor that looks at its own arguments only relies on.
`SameKind` is needed because a timing takes the kind of its first interval, and
a request that of its timing. From it `RequestsAreSound` (`RequestsAreValid`) and
`DatabasesAreSound` (`DatabasesKeepContract`), for every argument and databases of
any size, in both directions: nothing valid is refused. The exception that
`RequestsAreValid` makes for passphrases beyond ASCII is empty when
`PassphraseBytes` are ASCII (`AsciiRequestsFit`). `ErrorsInv` says that an
error under description holds what the backend has told, the trace being the
first entries pushed (`PushTells`); `DiagnosticsTellAll` follows
(`DiagnosticsAreComplete`, which leaves out only that texts can be read back).

That the JSON string of a revision reads back as the revision, for a text of any
length and any characters (`TextReadsBack`), is an induction over the text. The
library's induction theorem cannot be cited, because it takes a predicate; it is
stated here of a set (`InductionOverNat`), from the least element that every
non-empty set of numbers has (`LeastNumber`, by `NatLessThanWellFounded`). The
recursive functions of the writer and of the reader are first shown to exist and to
satisfy their equations. Then one character: what is written for it, literal,
short escape or `\u00XX`, is read back as it and nothing behind it is touched.
`DiagnosticsLoseNothing` (`DiagnosticsAreLossless`) joins the two.

**Model-checked only**: every liveness property (`StopReturns`, `CancelledEnds`,
`CallIsAnswered`, `DropReachesBackend`, `OutstandingReturns`), since the prover
handles neither fairness nor `ENABLED`. Every invariant, action property and
refinement that a passing run checks is proved.

## 6. What is not modelled

* The copy of the incremental runner's counters to atomics
  (`IncrementalDiagnosticsState`): stored and loaded one by one, so a snapshot
  may hold a completion without its call. No decision reads it and the code says
  nothing of it as a whole. The same goes for the counters of the blocking
  runner.
* The values that hold anything: `SecurityConfig`, `PairingState`,
  `DisconnectReason`, `WifiConfig`, `ScanConfig`, and the accessors of all others.
* The bytes of payloads and attribute values: their length is what is tested.
* Fixed texts: `as_str`, `docs_anchor`, `Display`.
* The `smoltcp` device of `WifiDevice`, which passes every call on.
* The loop around `run_once` and the protocol driver around `control.rs`, which
  are not in this repository; what they may do is in the models as an external
  actor.

## 7. Plan

Done: every component of section 1, two refinements of `CommandService` and
their proofs, the composition of the control plane, the proofs of section 5.

1. *Prove.* Nothing a run checks is left but liveness.
2. *Compose.* The facade with `RadioEvents`, if a property needs both.
