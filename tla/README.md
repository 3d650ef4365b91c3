# A verification development for h323p

`h323p` is a test utility for H.323: a command-line program (`src/src/main.cpp`)
over a small library of singletons that manage calls, wrap an H.323 stack and
log asynchronously. The protocol code itself is a set of placeholders. What is
already real is the concurrent scaffolding: five mutexes, callbacks called
with a mutex held, a worker thread and a signal handler. That is what the TLA+
modules of this directory are about.

Paths are relative to the root of the repository, where the code lives under
`src/`; file names without a path (`call_manager.cpp`) are unique in it.

## 1. Inventory

| Component | State | Operations | Hard part |
|---|---|---|---|
| `Call` (`core/call.cpp`) | state, release cause, a mutex | setup, answer, release, setState | clients and the manager use one object concurrently |
| `CallManager` (`core/call_manager.cpp`) | active and completed calls, counters, limit, cached statistics, callback, a *recursive* mutex | start, add, remove, stopAll, get | the callback runs under the mutex and may come back in |
| `H323EventHandler` (`h323/h323_event_handler.cpp`) | map of call states, callback, mutex | six methods the stack calls, sendEvent | state and event are two critical sections; the callback runs in the second |
| `H323Endpoint` (`h323/h323_endpoint.cpp`) | initialized, counter, callback, (empty) connection map, mutex | initialize, shutdown, makeCall, answer, release, gatekeeper, setEventCallback | a method that calls another locking method; owner of the event handler |
| `Endpoint` (`core/endpoint.cpp`) | the same once more, one layer up, with `Call` objects | the same | holds its mutex across every call of `H323Endpoint` |
| `Q931Manager` (`h323/q931.cpp`) | map from id to call info, callback, mutex | create, answer, reject, release | id taken outside the mutex, callback inside it |
| `Logger` (`utils/logging.cpp`) | queue, mutex, condition variable, two flags, worker, file | log, worker loop, init, shutdown | stop request without the mutex; drain before close |
| `main` (`main.cpp`) | `g_shutdown_requested` | commands, signal handler | the handler logs |
| `executeWithTimeout`, `tryExecuteWithTimeout` (`utils/timeout.hpp`) | the future, the operation's thread | run with a deadline | the operation outlives the deadline; the thread cannot be made |
| `retryWithBackoff`, `simpleRetry` (`utils/retry.hpp`) | attempt, current delay | attempt, sleep, give up | a timed-out attempt that still succeeds; counting; delays that outgrow their type |
| `CountdownTimer` (`utils/timer.cpp`) | flag, callback, thread, mutex | start, stop, reset, the countdown | a method that calls another locking method |
| `CliParser` (`cli/`) | `argv` index, config, `valid_`, `error_` | parse, validate | two passes that know different options; values that look like options; a number that is none |
| errors, `GatekeeperManager`, `RASManager`, `Q931Logger`, string helpers | little or none | tables, placeholders, formatting | - |

How they interact. The application calls `Endpoint`, which calls
`H323Endpoint`, which calls `H323EventHandler::setEventCallback`: three
non-recursive mutexes from the top down. The stack's threads call the event
handler, which calls the application back under its mutex, and the application
may call `Endpoint` again: from the bottom up. `CallManager` and `Q931Manager`
stand beside this chain and call the application under their own mutex.
Everything logs. `main` parses the command line, configures the Logger from it,
runs a command, and shuts the Logger down; a signal handler sets a flag and
logs. `retryWithBackoff` takes any function; `STAGE2.md` means it for operations
with a timeout, and so `Retry` is composed with `Timeout`.

What makes each component correct:

* `CallManager`: no call is lost, doubled or renamed; statistics are right when
  nobody is at work; what stopping completes has been released, with a cause; the
  first release decides it;
  a callback's recursion is bounded.
* event handler: the application's picture of a call agrees with the map; the
  callback is never concurrent with itself, never replaced under way, and every
  report ends; no entry outlives its connection.
* the two endpoints: no circular wait; requests return; ids do not
  collide; the callback set last is the one that is called, on both layers.
* `Q931Manager`: no call takes the place of another; the callback sees the state it
  is told.
* Logger and `main`: nothing queued before shutdown is lost, doubled or printed
  after the file is closed, by a worker that is still there; the program ends.
* `Timeout` and `Retry`: no operation is left running behind the caller or next to
  the following attempt; the answer is what the attempts earned; the delays are
  the documented back-off.
* `CliParser`: the configuration is what the line says; nothing runs that was
  not validated; every line is decided upon.

`PROJECT.json` lists all hazards with their lines, under "hazards".

## 2. Modules

    CallRegistry            abstract: calls are live, then completed, never lost
    Call                    one call object, as operators on a record
    CallManager             EXTENDS Call; refines CallRegistry
    MCCallManager           symmetry for TLC
    CallManager_proofs      theorems: conservation, refinement, first release
    CallManagerClients_proofs
                            EXTENDS CallManager_proofs: ids, statistics, nesting, stopping

    H323EventHandler        the event handler and its environment, the stack
    H323EventHandler_proofs theorems about it
    H323Endpoint            EXTENDS H323EventHandler: the middle layer
    Endpoint                EXTENDS H323Endpoint: top layer, application, composition
    Endpoint_proofs         EXTENDS Endpoint, H323EventHandler_proofs: theorems about all three

    LogStream               abstract: an ordered log that is drained before it closes
    Logger                  log(), worker and shutdown, step by step; refines LogStream
    CliParser               parse() and main's reading of its answer
    CliParser_proofs        theorems about it
    Program                 EXTENDS Logger, CliParser: main and the signal handler
    MCProgram, MCCliParser  command lines for TLC
    Program_proofs          EXTENDS Program, CliParser_proofs: the Logger implements
                            LogStream whatever uses it, and the program uses it so

    Timeout                 an operation with a deadline
    Retry                   EXTENDS Timeout: retryWithBackoff over such an operation
    Retry_proofs            theorems about it

    Q931Manager             stands alone
    Q931Manager_proofs      theorems about it
    CountdownTimer          stands alone

Variables carry the names of the members they stand for, without the trailing
underscore; actions carry the names of the methods. "map" in `PROJECT.json`
gives the lines of every definition. The definitions marked "Bug variant" are
not part of the specification: no action uses them. Each is a plausible mistake
in the definition after it, and shows that some property notices it.

**Granularity.** A method that holds one mutex from its first statement to its
return and calls nobody is one step. A method is split where other code can get
between: at a callback, at the second mutex it takes, at an access it makes
without its mutex.

**CallManager / Call.** A call object is its index in `calls`; the vectors
of `shared_ptr` are sequences of indices, `handles` are the pointers clients
have obtained. The recursive mutex is `owner` plus `dialling`, the number of
`startOutgoingCall`s inside their callback, plus `loop`, the range-for of
`stopAllCalls`: its position and the `end()` it compares with. `MayEnter` says
who gets in: everybody when the mutex is free, the owner from inside its
callback. `OnInitiated` and `OnReleased` are the methods the two callbacks
use. `Call`'s methods run under the object's own mutex and are one step,
possible at any moment for whoever has a handle - also between the two steps an
iteration of `stopAllCalls` consists of: `StopRelease` is `call->release(16)`, which
gives the call's mutex up (`call_manager.cpp:95`), `StopMove` the `push_back` and
the callback (lines 98-103). In between a client may answer the call or set its state,
so a call is not always completed in RELEASE_COMPLETE. What does remain is the cause,
and that is what `StoppedCallsHaveCause` says. It is conditional on
`ClientsEndByRelease`: a client that ends a call with `setState(RELEASE_COMPLETE)`
leaves no cause, and the loop's `release` then finds nothing to do.

**H323EventHandler.** `delivery` is where each stack thread is: before the
write to the map ("update"), before `sendEvent` ("send"), in the callback
("callback", holding `mutex`). `StackCalls` and `ConnectionDeleted` are the
H.323 stack, which is not in the repository: a connection is reported incoming
or established, cleared, released, and then its address may be used again.
The stack reports on one connection at a time. This is an assumption about the
stack: without it the last event of a connection need not be its state in the
map, as the write and the event are in two critical sections.

**H323Endpoint / Endpoint.** A method call is a record in `request` that moves
through `lockE`, `lockH`, `lockV` or `relockH`, and `return`, named for
the mutex it waits for next. `WaitsFor` reads the owner of that mutex.
`ReturnFromEndpoint` is the part of Endpoint's method after the call below.
H323Endpoint's map of connections is constantly empty, because nothing calls its
`addCall`; that is why `GetConnection` is FALSE and `answerCall` and
`releaseCall` always fail, a placeholder's behaviour which the model keeps.
`releaseAllCalls`, called from outside, finds no call to release; from inside
`shutdown` it never gets its mutex, and the request stops at `relockH` for ever,
as the code does.

**Logger / Program.** The steps are the accesses to shared state: each lock,
the push, the notification, the worker's loop condition, predicate, wait, pop,
print. A notification is remembered only if the worker waits at that moment.
`SignalArrives` stops one thread until `HandlerReturns`; the handler's `log()`
is a frame of its own, "handler". `SignalsAnywhere` says whether a signal may
hit a thread that holds the queue's mutex. `MainParse` is one step of
`CliParser`, and `LogLevel`, `LogsOf` and the file follow from the configuration
it leaves; a waiting command ends on the signal, `call` also by itself.

**LogStream** is the log without threads: entries are accepted, printed in that
order, and the log closes only when everything accepted before it was asked to
stop is out. In the refinement mapping an entry the worker has popped but not printed
is still pending (`Pending`), stopping is `stopRequested_`, closing is the end
of the join.

**CliParser.** The command line is a sequence of words and a step reads one
argument with its value. The options are tables from the option to the field of
`CommandConfig` (`Texts`, `Sizes`, `Ints`, `Switches`); `GlobalTexts` and
`GlobalFlags` are the ones `parseGlobalOptions` knows before the command. What
number a word stands for is the table `Numerals`. `std::stoul` takes what fits a
`size_t` and wraps a negative number (-1 becomes the largest), `std::stoi` takes what
fits an `int`; any other word throws, `std::invalid_argument` or `std::out_of_range`,
which ends the program (`NumberWords`, `OptionThrows`). So a word may do for
`--max-calls` and be fatal for `--trace`.
`Numerals` is a constant, and so is `OtherDashed`, the words that begin with a dash
and are no option (`OtherWordsAssumption`): both say which words there are, not
what the code does with them. `SizeMax` and `IntMax` are assumed to be no less than
the defaults of `CommandConfig`.
`ConfigAsWritten` is stated over `Roles`, a definition of what each argument *is*
that mentions neither index nor loop.

**Timeout.** `operations` has one element for each call: running, or how it
ended. `WaitTimesOut` leads to "leaving", the destructor of the future
`std::async` returned, which waits for the thread (`timeout.hpp:54`).
`LaunchFails` is `std::async` throwing, outside of the try block.

**Retry.** The loop of `retry.hpp:52`, one step for each attempt, result, sleep and
growth of the delay. `simpleRetry` is `SimpleConfig`. Doubles are exact
fractions; `ToLong` is the conversion back to milliseconds, which outside of the
range is undefined and hence either end of it.

**CountdownTimer.** Every lock, join and assignment of start, stop and reset, and the
thread that waits and calls back.

**Q931Manager.** `createOutgoingCall` is two steps, `CreateReadsSize` (no
mutex) and `CreateInserts`: a creator between them takes the size it has read for
an id, whatever others insert meanwhile. The callback runs from `UpdateCallState` to
`CallbackReturns`.

## 3. Runs

| Run | Expect | What it shows |
|---|---|---|
| `callmanager_calls` | pass | conservation, id resolution, statistics, first release, a cause for every stopped call, bounded nesting, refinement of `CallRegistry` |
| `eventhandler_ordered` | pass | events agree with states; callback serialised, not replaced, returns; no stale entries |
| `endpoint_calls` | pass | all operations of both singletons, two threads: ids, the installed callback, agreement of the layers |
| `endpoint_waits` | pass | callbacks that call back: no circular wait, every request returns |
| `program_ends` | pass | output complete and in order, refinement of `LogStream`; the worker is gone before the file closes; the program ends; queue drains |
| `q931_calls` | pass | two creating threads: an id is free when it is chosen; callback sees its state; creation ends |
| `retried_operations` | pass | no orphaned operation, earned answers, the back-off, integers within their width, the call returns |
| `command_line` | pass | the configuration is what the line says, only valid lines run, every line is decided |
| `callmanager_reentry` | violation of `NoCallLost` | a release callback that removes the call makes the loop skip the next one, and it is lost |
| `endpoint_inversion` | violation of `NoCircularWait` | replacing the callback while the old one calls `Endpoint` |
| `program_signal` | violation of `ProgramEnds` | the signal handler waits for the thread it interrupts |
| `timer_start` | violation of `StartReturns` | `CountdownTimer::start` locks its own mutex twice |

The violations are disagreements with the repository's own documents and
comments; "findings" quotes them. Three are one parameter away from a passing
run, which so says what avoids them: leave the list alone in the release callback
(`callmanager_reentry`), set the callback once and after `initialize`
(`endpoint_inversion`), block signals while the Logger's mutex is held
(`program_signal`). Nothing avoids the
self-deadlock of the timer.

### Divergences without a run

Some disagreements of code and documents show in a single step, or in a run that
would only differ in one constant from one above. The actions model all of them as
they are:

* A callback set before `initialize` is stored and never installed in the handler
  created later (`h323_endpoint.cpp:274`). `EarlyCallback = TRUE` in
  `endpoint_calls.cfg` violates `CallbackInstalled`; the passing runs set it after.
* `H323Endpoint::shutdown` calls `releaseAllCalls` with the non-recursive mutex
  held (`h323_endpoint.cpp:96`), and that method locks it again (line 259): one
  `initialize` and one `shutdown` are enough for a request to stop at `relockH` for
  ever, and for all who call the endpoint after it to wait. `STAGE2_EXPECTATIONS.md:77`
  expects `endpoint.shutdown(); assert(endpoint.isInitialized() == false);`, and
  `h323_endpoint.hpp:58` promises to "Shutdown endpoint and release all resources".
  Hence `RequestsEnd` and `NoCircularWait` are checked without `shutdown`.
* Two threads that create Q.931 calls at the same time get one id, and the second call
  overwrites the first (`q931.cpp:20, 30`), against `STAGE2_EXPECTATIONS.md:187`, which
  lists unique call ids: both do `CreateReadsSize`, then both `CreateInserts`.
  `q931_calls` contains these steps. What it shows is that no call is hit that was
  there when the creation began (`ChosenIdUnused`).
* `executeWithTimeout` returns only when the operation does, however long after the
  deadline (`timeout.hpp:54`). That is what makes `NoOrphanedOperation` true.
* `listen --help` listens: `valid_` is assigned anew after the options
  (`cli_parser.cpp:172`), while `STAGE2_EXPECTATIONS.md:420` asks that commands print
  help. `-h call x` calls: help is an option only after the command. Before the command an option other than the five global ones is
  skipped, and its value is then taken for the command. `-p` is tested for
  `--password` first, so it never means `--percentage`. `load` and `fuzz` store
  no destination.
* A delay that outgrows `long long` becomes negative on x86-64, i.e. no delay at all
  (`retry.hpp:95`); with SIZE_MAX retries the loop never gives up (line 52).
  `BackoffFollowed` speaks of the delays that fit.
* A call may be completed in CALL_ALERTING or CALL_ACTIVE: a client changes it between
  `call_manager.cpp:95` and 98, or `removeCall` does not look at its state
  (`call_manager.cpp:130`).
* `addCall` ignores `maxCalls_` (`call_manager.cpp:115`),
  `Q931Manager::answerCall` revives a released call (`q931.cpp:46`),
  `rejectCall` tells no callback (`q931.cpp:63`), `releaseCall` of both endpoints
  always returns false, and `main` logs "Goodbye!" after the Logger has stopped
  (`main.cpp:198`), so it is never printed.

### Bounds

* `MaxTotal = 3` calls, two threads, limit 1, raised to 2: two active calls and a third
  that is refused, completed, or added past the limit; a loop of `stopAllCalls`
  over three elements has a first, a middle and a last one; nesting to the limit.
* `AddedIds = {3}`: an id that startOutgoingCall does not issue within the bound.
  `IssuedIdResolves` needs that: `Endpoint` numbers its calls "call-n" too, and
  adding one of those to the manager would make ids ambiguous.
* `MaxLives = 3` lives of two connection addresses: one address is reused.
  The endpoint runs need one life at most, as nothing there depends on reuse.
* `MaxCalls` = 1 or 2 makeCalls: two are needed for ids to collide, from two
  threads and two layers.
* `MaxSignals = 1`: `signalHandler` does the same every time, and a second
  signal finds the flag set. It is delivered at every possible moment.
* `program_ends` takes eleven command lines: each outcome of the parser (run, version,
  help, error, crash), each way to set the level and the file, and all commands
  but `fuzz`, which logs and waits exactly as `load` does. `Files` lets `fopen`
  fail or not. All command lines at once are the business of `command_line`:
* `MaxArgs = 4` of 16 `Words`, 69905 lines, with one or two words of each kind: a
  command with and without a destination, a bare word, a global text and a global
  flag, sizes and integers under long and short names, an option whose value is not
  stored, a switch, numerals, help, version. Four arguments hold a command, an option
  with its value and one word more, in any order: that is enough for an option without
  its value, a value that is an option, an option given twice (before and after the
  command), and for what `--help` cuts off.
* `SizeMax = 255` and `IntMax = 127` in the parser, with the numerals -1, 0, 200 (a
  `size_t`, no `int`) and 300 (neither): one number for each way `stoul` and `stoi`
  can go.
* `MaxRetries = {0, 1, 2}`, far below `SizeMax = 15`: no retry, one, and one
  between the first and the last. `LongMax = 31` lets a delay of 10 overflow by
  the third attempt when it is tripled; `MaxDelays = {15, 31}` are a cap below and one
  at the overflow; `Backoffs` counts halves: constant, 1.5, double, triple;
  `Rands` are both ends and the middle of the jitter; `BaseDelays` has zero.
* `timer_start` needs one user: the first call blocks.
* `MaxCreated = 4` creations by two threads, which also answer, reject and release:
  enough for one thread to create two calls while the other is between its two steps.
* Threads are interchangeable in `CallManager`; `Symmetry` permutes them, and no
  property singles one out. Liveness is checked in other modules, without symmetry.

`CHECK_DEADLOCK FALSE` stands in `endpoint_calls`, where `shutdown` really stops
everybody who wants that mutex; in `timer_start`, for the same reason; and in the runs
of `Program`, `CliParser` and `Retry`, which are meant to terminate.

### Fairness

* Strong fairness of the steps that wait for a mutex: a thread blocked on a
  `std::mutex` that is released again and again gets it. The code has no
  unbounded loop that would reacquire a mutex without a wait in between; the
  Logger's worker waits up to 100 ms without its mutex in every idle round.
* Fairness of the end of a callback: callbacks terminate, and in `Endpoint` they
  make finitely many requests.
* In `Program`, all threads that can run do, the handler returns when its
  `log()` is done, and `wait_for` times out (`WorkerTimesOut`). The last one is
  essential: the notification of `shutdown` can be missed (`logging.cpp:41-42`
  does not hold the mutex), and the mutant without the timeout never ends.
* In `Retry`, the caller runs, and every operation ends some day. The second is not
  the library's to give: without it no call with a timeout returns, as the
  destructor waits.
* `CliParser` is a loop of one thread: weak fairness of its steps. In
  `CountdownTimer` every thread runs and gets a mutex that is free again and
  again; `start` does not return even so.
* No fairness of the environment: the application and the stack may stop calling
  at any moment, commands may never be given, signals may never come.

## 4. Proofs

Eight modules hold theorems; "theorems" in `PROJECT.json` lists the results, each for
every value of the constants that the named assumptions admit. Every invariant
and action property of the passing runs is among them but `RetryTypeOK`, whose width
of the delays is how the model defines the conversion, and each under the condition
named with it; what must happen eventually is not. TLC checked each property on the runs
above, and the inductive invariants on the same instances.

**CallManager_proofs**, for every set of threads, every limit, any number of
calls, and all callbacks that the assumptions admit:

* `TypeCorrect`: `Spec => []TypeOK`. One step per action; the lemmas say what
  an operator returns (`PushCallType`, `CallTypes`, `RemoveAtProperties`).
* `Conservation`: `[]CallsConserved`. It is not inductive: that both lists
  together have as many elements as there are calls, plus those a running loop has
  already copied, needs to know that the first `pos - 1` elements of the active
  list are exactly the ones also in the completed list, and that nobody changes
  the lists meanwhile. `ConservationInv == TypeOK /\ MutexInv /\ ListInv` says
  so: the mutex is held exactly when a method is between two of its steps, and
  the loop's prefix of the active list is the only overlap of the two lists.
* `Refinement`: `RefinesRegistry`. Pushing is `Register`, removing and every
  iteration of the loop is `Complete`, the final `clear()` and the rest are
  stutters; the invariant above is what makes a completed call a live one before.
* `FirstRelease`: `FirstReleaseWins`, from the types alone.

`Conservation` and `Refinement` assume `ReleasedCallbackKeepsList`: the
callback of `stopAllCalls` does not call `removeCall`. Without it they are
false (`callmanager_reentry`). The assumptions of the module are: the name of
the free mutex is no thread; limits, ids and causes are naturals, states are
states; and the release callback neither lets the list grow nor clears it, which
would be undefined behaviour in the range-for.

**CallManagerClients_proofs** builds on `ConservationInv`:

* `StatsCorrect`: `[]StatsInSync`, for all callbacks: each way into
  `completedCalls` refreshes the statistics or leaves a loop running that will.
* `StoppedCaused`: `StoppedCallsHaveCause`, under `ClientsEndByRelease` as well. Only
  `StopMove` completes a call while the loop runs, and between `StopRelease` and it
  any number of clients may change the call. `CauseInv` carries the cause across:
  a call in a final state has one, no method of `Call` takes a cause away, and the
  entry the loop has just released stays where it is, as the thread that might move
  it is the one inside the loop (`OwnerInv`).
* `NestingLimited`: `[]NestingBounded`. `NestingInv` adds that the activations are
  no more than the calls, each having pushed one, and that the limit in force is
  one that was set; with no loop running the calls are split between the lists.
* `IssuedIdsResolve`: `[]IssuedIdResolves`. `IdInv` says where an id comes from: the
  position of the call, or the caller of `addCall`. With `AddedIdsDiffer` an
  issued id then belongs to one call, and as no list holds a call twice,
  `getCall` finds it first.

All but the first assume `ReleasedCallbackKeepsList`.

**H323EventHandler_proofs**, for any number of stack threads, connections,
callbacks and lives: `Serialised`, `NotReplacedWhileRunning`, `NoneStale` and
`EventsMatch`. `HInv`
says that the mutex is held exactly by the thread in the callback, that one
thread reports on a connection and reports what the connection went through last
(the assumption about the stack, made inductive), and that the first critical
section of `onCallReleased` erases the entry. `EventsMatch` (`EventsMatchStates`)
needs `EventsInv` with it: events reach only a callback that is never taken away, so
none is dropped after the first one, and between the two critical sections of
a report the map still holds what the first one wrote.

**Endpoint_proofs**, about the three classes together, for any number of
application and stack threads, callbacks, calls and lives:

* `RefinesHandler`: `Spec => HandlerSpec`. Below two layers that lock mutexes of
  their own, with callbacks that come back in at the top, the event handler
  takes no step that it could not take by itself. So all theorems of
  `H323EventHandler_proofs` hold of the composition.
* `EndpointTypes` (`EndpointTypeOK`), `NoneOverwritten` (`NoCallOverwritten`) and
  `CallbacksAgreed` (`CallbacksAgree`), from `EInv == RequestsOK /\ LayersOK /\ CallsBounded`.
  `RequestsOK` says of each request that its place fits its class and method, that
  what `Endpoint` checked before it called `H323Endpoint` is still true, that a number
  brought back by `makeCall` is new to `Endpoint`, and which mutexes the thread
  holds; `LayersOK`, that `Endpoint` knows no more calls than `H323Endpoint` and is
  initialized after it; `CallsBounded`, that every `makeCall` under way still finds
  a number below the bound.
* `Installed` (`CallbackInstalled`), if `EarlyCallback = FALSE`. `InstallInv`: while
  the callback of `H323Endpoint` is not yet the handler's, a thread is on its
  way to install it with H323Endpoint's mutex held. A callback set before
  `initialize` is not installed at all, see the divergences above.
* `NoDeadlockSetOnce` (`NoCircularWait`), if `ResetCallback = FALSE` and nobody calls
  `shutdown`. The mutexes are taken in both directions, so no order of them proves
  this. `SetOnce` does: the one `setEventCallback` that holds the upper two and
  waits for the handler's finds no callback in the handler, hence nobody in a
  callback (`CalledIsThere`), hence nobody with the handler's mutex. Everybody
  else who waits with a mutex held waits downwards, or upwards out of a callback,
  and then no thread waits for the handler from above. Both conditions are necessary:
  `endpoint_inversion` replaces a callback, and `shutdown` waits for itself.

**Q931Manager_proofs**, for any number of creators and calls: `Q931TypeCorrect`,
`CallbackConsistent` (`CallbackSeesItsState`) and `ChosenUnused` (`ChosenIdUnused`).
That ids stay within their bound needs `CreationsCounted`: the calls in the map and
the creations under way are no more than the creations begun. `ChosenUnused` needs
`IdsInOrder`: the ids in use are those below the size of the map, and a size that was
read is at most the size when its reader inserts, so an insertion hits an id in use or
takes the first free one, and leaves no gap.

**Program_proofs**: `LogImplemented` (`ImplementsLog`), `WorkerGone`, `Drained`,
`InOrder` (`OutputInOrder`) and `ProgramTypes` (`ProgramTypeOK`). `LInv` holds of the
Logger whatever calls it: a worker that has left was asked to and has printed what
was due; it is joined after it has left, and the file is closed after that; what is
due was accepted. Its steps print the head of what is pending or accept one
entry more. `InOrder` follows entry by entry: what is printed, in the worker's
hand and in the queue is one sequence (`Everything`), which only a push changes, at
its end. The second half of the module shows that `main`, the worker and the
signal handler use the Logger in no other way (`LoggerNext`), for all command
lines and with signals delivered *anywhere*: the deadlock of `program_signal`
costs liveness only. `ProgramTypes` adds `CliInv` of the parser and `MainInv`, by
which `main` is past parsing only with a command to run.

**CliParser_proofs**, for every set of command lines of any length, all words and
numerals, and all widths of `size_t` and `int`: `CliTypes`, `AsWritten`
(`ConfigAsWritten`) and `OnlyValidRuns` (`RunsOnlyValid`). `Roles`, on which `ConfigAsWritten` rests, is a recursive function
of the line; that each word has the role its definition says is shown by the least
place where it would not. `CliInv` says where the reading has got to: the word at
`index` is no value, nothing before it has ended the reading, and whether the command
is behind it (`Ready`); the configuration holds what the words *before* it say (`Told`),
for each field the last value given. A step extends the places before `index` by
one option and its value, or by one word, and so changes one field's last place.
When the reading is over those places are all there are (`Finished`), or a
value among them is no number its option can take (`CrashEarned`).

**Retry_proofs**: `NoneOrphaned`, `AnswerEarned` and `BackoffExact` (`BackoffFollowed`), for every configuration and integer width. `IInv` ties the loop to the call with a
timeout: the loop is in `func()` exactly while that call is under way; a value
comes from an operation that ended well; the operations are the failed attempts,
and one more while one is under way. `BackoffExact` compares the loop with `Plain`, a
recursive function that multiplies without a width; that it has the values its
equations say, and that they are natural numbers, is again shown by the least number
where they would not be. `GrowthExact` is inductive: the current delay is
`Plain` of the number of sleeps, as long as *that* fits a `long long`. If what it
grows to fits, what it was did; and what fits is truncated without loss and
stays within a quarter of itself when jittered.

Assumptions of the modules: names of things are not names of threads or
connections; sizes and bounds are naturals; limits, ids and causes are naturals,
states are states; and the release callback neither lets the list grow nor clears it,
which would be undefined behaviour in the range-for.

Only model-checked:

* everything that must happen eventually (`DeliveryEnds`, `RequestsEnd`,
  `ProgramEnds`, `QueueDrains`, `CreateEnds`, `RetryEnds`, `ParseEnds`): liveness
  under fairness is out of the prover's reach, and so is `StartReturns`, which the code
  violates;
* what the theorems leave out by their conditions: `ReleasedCallbackKeepsList`,
  `ClientsEndByRelease`, `AddedIdsDiffer`, `EarlyCallback = FALSE`, `ResetCallback = FALSE` and
  no `shutdown`. Without them the properties are false, and TLC finds the
  counterexamples.

## 5. What is not modelled

Whole components:

* `h323_errors.cpp`: tables from a code to a text, a flag and an advice, without
  state. `utils.cpp` and `q931_logger.cpp`: string and file helpers, formatting.
  A model would repeat the tables line by line.
* `GatekeeperManager` and `RASManager`: placeholders that nothing calls. The
  second answers NOT_IMPLEMENTED; the first sets one flag under its own mutex,
  in one step per method.
* H323Plus and PTLib are not in the repository; the order of their calls into the
  event handler is the environment of that module.
* Build files.

Within modelled components: the text of log lines and events, addresses and time
points (no guard reads them); `setRepeatCount`, `setCycleMode`,
`setCallDurationRange` and `setEndPoint` (stored, never read); `setLevel` (no
caller); the getters that read without a mutex; replacing the callback of
`CallManager` from inside itself; callbacks of `Q931Manager` that call it again
(they would block for ever); `ElapsedTimer` (one time point).

Time is left out: a deadline, a countdown or a timed wait may end at any moment.

## 6. What could come next

* Once `CountdownTimer::start` returns, its callback under the mutex is the next
  hazard; `CallbackBegins` is ready for it.
* When the stack's connections are added to `H323Endpoint`'s map, `GetConnection`
  becomes a real lookup, and `releaseCall` runs into `removeCall`'s lock
  (`h323_endpoint.cpp:250`).
