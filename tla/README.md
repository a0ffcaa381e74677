# TLA+ models of gosupervisor

gosupervisor starts programs, watches them, restarts them and stops them. Most of
what can go wrong in it is concurrency: a `Process` is a struct behind a mutex, but
`Start`, `Stop` and `Restart` release that mutex several times while they fork, wait
or run hooks, and they are called by web and socket requests, by the signal handler,
by the monitor loop and by restart goroutines, all at once. These models say what each
part does, step by step, check it with TLC, and prove with TLAPS every safety
property that the passing runs check.

Contents: [inventory](#the-system) · [modules](#modules) · [runs](#runs) ·
[fairness](#fairness) · [proofs](#proofs) · [behaviours found](#behaviours-found) ·
[what is not modelled](#what-is-not-modelled) · [plan](#plan)

## The system

| Component | State | Operations | Hard because |
|---|---|---|---|
| Process (`internal/process/process.go`) | `State`, `Cmd`, `waitCh`, `monitorDone`, start and health contexts, retries, exit code | `Start`, `Stop`, `Restart`, `monitor`, `runHealthCheck` | every operation is several critical sections; a timeout races the exit; stale pointers to channels and contexts of earlier attempts |
| Monitor loop (`monitor.go`) | none of its own | tick, give up, schedule a restart (own goroutine), reset retries, restart unhealthy processes | acts on a state read earlier; counts retries that others reset |
| Process manager (`process.go`, `cmd/gosupervisor/main.go`) | the map of processes, `pm.mu`, the state file | `AddProcess`, `RemoveProcess`, `StartAll`, `StopAll`, groups, `SaveState`; SIGTERM and SIGHUP | the signal handler runs beside `main` and the requests; pointers outlive a reload; nested use of `pm.mu`; crash while saving |
| Start order (`process.go`) | the graph | `topologicalSort`, `topologicalSortForGroup`, `sortByPriority` | cycles, unknown names, an unstable map order |
| Event log (`ringbuffer.go`, `event.go`, `internal/web/sse_broker.go`) | circular array; a channel per client | `Push`, `Snapshot`, `RecordEvent`, broadcast | wrap-around arithmetic; stalled clients; push and broadcast are two steps |
| Event listeners (`internal/eventlistener`) | bounded queue, child, protocol loop | `Start`, `Stop`, `Reload`, `EmitEvent`, READY/RESULT | overflow while an event is being answered; stop against a blocked loop; reload against shutdown |
| FastCGI sockets (`internal/fcgi/socket.go`) | reference count, listener, map entry | `Listen`, `Attach`, `Detach` by `Start`, `Stop` and the loop | the count is kept by three callers that may each skip or repeat their half |
| Logger (`internal/logger`) and the log stream (`internal/web/web.go`) | a writer with a byte counter per stream, the file, its backups; the follower's open file and inode | hand a writer to a child, count, rotate, compress, clean up, reopen, `Close`; follow | the file is replaced under children that write to it and clients that read it; every step of a rotation can fail or be the last before a crash; the counter is not the size |
| Rate limiter (`internal/web/ratelimit.go`) | a token bucket per address | `Allow`, cleanup, `Stop` | forgetting a client gives it a new bucket; refusals move the clock of the bucket |
| Configuration (`internal/config`) | none after loading | `ValidateConfig`, `findDependencyCycle`, `ExpandProgramConfig` | validation sees programs, the sort sees processes; the search meets names in the map's order |
| Web server, Unix socket server, `gosupervisorctl` | sessions | requests | they are the concurrent callers of all of the above |
| Metrics | counters | | not modelled |

How they interact: requests, the handler of SIGTERM and SIGHUP and the monitor loop
look a process up in the manager's map under `pm.mu` and then call its methods without
that lock. `Start` launches `monitor()` and the health checker of the attempt, and
`monitor()` closes the channels that `Stop` (`waitCh`) and the next `Start`
(`monitorDone`) wait for. `Start`, `Stop`, `monitor()` and the loop record events,
which go to the ring buffer, to the connected clients and to the event listeners.
Processes with a socket share a `SocketManager` in a map that `pm.mu` guards too.
`Start` asks the logger for the writers of its child; `os/exec` copies the child's
output to them in goroutines of its own, and the logger replaces the file behind a
writer when it has grown too large. Every HTTP request passes the rate limiter first.

What makes them correct, in one line each: a process that is reported stopped has no
child, and one that is reported running has one; every call returns; a stop is graceful
and final; a program that keeps failing is given up and one that failed once is not
left in limbo; a reload leaves the configured programs running, each once; SIGTERM
stops everything and ends; dependencies start first; the log keeps the newest events
and streaming loses none; a listener gets each event once, in order; a socket lives as
long as its users; the log files hold the newest output without a gap; a client gets a
burst and the refill and no more; a cycle of dependencies is reported, and what is not
reported is started in order.

## Modules

A definition whose name has an underscore (`Push_NoWrap`) is a faulty variant of the
definition it precedes. It is not used by any specification; substituting it for the
original must violate a property, which shows that the property can fail.

**Process** models one `*Process`. One action is one critical section of `p.mu`, or
one slow step between two of them: `StartEnter` (cancel the previous context, pick up
`monitorDone`), `StartReserve` (wait for it, re-check the state, open an attempt),
`StartSpawn` (fork, or fail), `StartPublish`, `StartLaunch`, `StartHealthCheck`;
`StopEnter`, `StopSignal`, `StopGrace`, `StopRecheck`, `StopKill`, `StopKillWait`,
`StopDone`; `RestartEnter`, `RestartStart`; and the goroutine `monitor()` (`Monitor...`)
and the health checker (`Health...`). Everything one Start creates (context, `Cmd`,
child, `waitCh`, `monitorDone`) carries the number of its attempt, so that a goroutine
that holds on to an old one can be told from one that holds the current one. `monitor()`
reads `p.Cmd` and `p.monitorDone` without the lock: the model lets it read whatever
is there at that moment. `ContextKill` is the SIGKILL that `exec.CommandContext` sends.
`Call` is any caller of the API.

**Supervisor** adds the monitor loop and its restart goroutines to Process. The loop
and each restart goroutine are threads that call the same `Start` and `Restart`. The code
starts a goroutine for every exit it finds; how many are alive at once is the size of
`Restarters`, arbitrary in the theorems. Clock readings (uptime above `startsecs`, the
restart-rate window) are nondeterministic.

**Manager** models the supervisor as a whole: `main` up to its return, the signal
handler with `sigChan`, reload, the map, the requests, the state file. A process is an
object; a goroutine that looked one up keeps the pointer. `Start` and `Stop` are two or
three steps here; their inner interleavings are Process's subject. `pm.mu` is explicit
because `RangeProcesses` holds it during calls that take it again. `StartAll`, `StopAll`
and the reload visit what `topologicalSort` leaves them (`Sorted`): with a cycle and a
name that is only depended on, the length that the sort compares can come out right
although a program is left out and the other name is in its place. What a reload then does
with that name is in `ReloadNext`: it is added although the configuration may not have it,
which is a nil dereference, or is added a second time. The re-check of a restart goroutine
is merged with its wake-up, there is one at a time, and the loop's own detach of a socket
is left to FcgiSocket.

**Config** runs `findDependencyCycle` as the walk it is, one edge at a time with its
stack and colours and in any order of the names, and says what else validation reports of
dependencies and which processes a program becomes. Names of programs are numbers; the
name of a process is a pair, `<<3, 0>>` for program 3 itself (and for what `DependsOn`
means by it), `<<3, 1>>`, `<<3, 2>>`, ... when its template has a `process_num`.

**Dependencies** extends it: a configuration is validated, expanded, and sorted by one
of the two sorts, one turn of the loop at a time.

**Logger** models the log file of a process. A write has the three steps of
`countingWriter.Write` (the write under `writerMu`, the addition, the subtraction), so
two children of one process, which share the writer, interleave in them. A rotation
holds `l.mutex` over six steps (close, rename, copy to the `.gz`, remove the source, clean
up, open), each of which may fail or be the last before a crash of the supervisor; writers
and readers go on meanwhile. Two children overlap because a Start that a Stop has
overtaken kills its child without waiting for it. The follower is `handleProcessLogsStream` with its
separate look at the inode.

**RateLimiter** is the token bucket with a clock. Tokens are integers (a request costs
`Cost` units, a tick refills `Rate`), which leaves out the rounding of `float64` and
nothing else. `Observe` opens a window of observation at any time; it is not code.

**RingBuffer** is the circular array with its readers, **Recent** what it promises (the
newest `Capacity` values, oldest first), and `KeepsHistory` the refinement. **EventLog**
adds `RecordEvent` and the broker with its clients.

**EventListener** is one listener with its generations across reloads, and the two
goroutines that operate the manager of listeners.

**FcgiSocket** is the socket that the processes with one `fcgiBaseName` share. `Starters`
are the goroutines inside Start, of which a Stop that resets STARTING lets two be at the
same process. `Listen`, the modes, the dup of the listener and the fork can each fail.

**MCProcess** adds the symmetry of callers, **MCManager** three programs with dependencies
and the configurations that have them; the other modules are checked as they are.
**SupervisorProofs**, **ManagerProofs**, **DependenciesProofs** (which covers Config too),
**EventLogProofs** (which covers RingBuffer too), **EventListenerProofs**,
**FcgiSocketProofs**, **LoggerProofs** and **RateLimiterProofs** hold the theorems, each
about the modules of its name.
Every module has a type invariant `TypeOK` (but Dependencies); the runs of Process check
theirs, the others hold on the same instances and are left out of the runs.

## Runs

| Run | Module | Distinct states | Shows |
|---|---|---|---|
| Serial | MCProcess | 145 117 | One caller at a time, with exits, failed forks and failed user lookups at every point: `StateTellsTruth` between calls, `GracefulStop`, `CallsReturn` unless a hook or a pipe hangs. A killed child may linger (`KillTimely = FALSE`). |
| Concurrent | MCProcess | 330 900 | Two callers, four calls: `WaitChClosedOnce`, `ExitConfirmed`, `MonitorOwnsChild`, `NoEscape`, `StopConfirmsDeath`. |
| CrashLoop | Supervisor | 3 697 022 | A program that fails at each of four starts, the loop, two restart goroutines that may be pending for one exit, and an operator: `RetryBound`, `NoLimbo`. |
| Health | Supervisor | 1 912 061 | Restarts for health beside an operator: `OneChecker`, `NewestRuns`. |
| Events | EventLog | 406 709 | The buffer wraps while two goroutines record and two clients come, go and stall: `KeepsHistory`, `LimitedIsSuffix`, `NoGap`, `StreamedIsLogged`. |
| Listener | EventListener | 30 850 | Overflow, retries, a reload and the shutdown: `NoRedelivery`, `DeliveredInOrder`, `NoneLostQuietly`, `OneChild`, `StopIsFinal`, `StopReturns`. |
| Sort | Dependencies | 1 256 155 | Every graph of three programs and an unknown name, one program with two processes, all processes or any group: `CycleReported`, `DependenciesFirst`, `ValidatedIsSorted`, `EveryoneVisited`. |
| Fcgi | FcgiSocket | 534 948 | Starts, also two of one process, Stops, exits, failures and ticks in every order: `NoDeadEntry`; `OrderlyLife`. |
| Manager | MCManager | 418 214 | Start-up, a reload, a request (`restart`, `restart-all`, `status`), a crash and a shutdown, with a cycle and an unknown name: `Reachable`, `ReloadApplies`, `QuietShutdown`, `StateFileWhole`, `ShutdownEnds`. |
| Logger | Logger | 1 837 419 | Two children that overlap, a file that rotates after two lines, one backup, one failed call (rename, copy, removal, open, close) or crash anywhere, a follower: `LogIsSuffix`, `SizeBound`, `FollowsInOrder`. |
| RateLimit | RateLimiter | 1 041 774 | Requests, refills and cleanups of two clients in every order: `RateBound`, `RetryAfter`. |
| StopRevived | Supervisor | violation | `RestarterRespectsStop` fails. |

### Bounds, and why they are enough

* Process: an attempt is reached by two overlapping operations; four attempts and four
  calls let a Stop be overtaken by a Restart and meet a third Start. In Serial three
  calls in a row see every state a call can leave behind. In Health the bound on attempts
  stops the loop inside its own Start (deadlock is not checked there, and no liveness).
* CrashLoop: `RetryBound` allows `StartRetries` = 1, two calls and the second restart
  goroutine, so the count may reach four, and with four attempts it does: one less is
  violated. `StartSecs` is 0, so that no run is stable and nothing resets the count. Each
  of the three faults is an exit or a failed fork; a Start that finds its context cancelled
  fails without one. Stable runs are in the run Health; the theorem has them, all exit
  codes and any number of goroutines.
* Events: capacity 3 and five events wrap the array with room on both sides; a channel
  of one is full at once. Capacity and limit are arbitrary in the proofs.
* Listener: a queue of two, four events and one reload let the queue overflow while an
  event is being answered, and a reload meet the shutdown.
* Sort: three programs have chains, forks, joins, cycles with and without a tail, and
  self loops; a program of two processes makes four. All priorities are equal, which
  leaves every order of a batch open, so each order that some priorities demand is among
  those checked.
* Logger: files of two lines and one backup: seven lines fill and rotate three files, and
  let the counter drift as far as two copiers can make it (`SizeBound` is tight: one less
  is violated). The follower leaves before the sixth line, which is after two rotations.
* RateLimit: a burst of two requests, one refilled per second of two ticks, a cleanup every
  four ticks; ten ticks let a client spend, be forgotten and come back. The theorems have
  no bounds.
* Fcgi: two processes, two goroutines that start them, three managers, four calls, two
  faults: a socket can be closed and replaced while another Start holds the old manager.
* Manager: `a`, which depends on itself and on `b`, and `c`, which depends on nothing.
  Configurations with `a` alone, `a` and `b`, `c` alone; they change, disappear and appear
  between the one load and the one reload. Three objects: the first, its replacement, and
  one more. One client, one request or crash or failed step beside the reload. `v2` is
  not started by itself, `v3` has a socket. `SigBuffer` is 1, which drops a signal that
  finds another waiting.

### Restrictions of the passing runs

These are the conditions under which a property was checked. Each has a counterexample
configuration that lifts it (see below).

* `GracefulStop` and `StateTellsTruth` hold for one caller at a time.
* `ExitConfirmed`, `MonitorOwnsChild`, `NoEscape` and `StopConfirmsDeath` hold for one
  caller, and for two if a `monitor()` that runs reaps a killed child within the five
  seconds that Stop waits for it (`KillTimely`). The timeout before `go p.monitor()`, where
  Start is still in its webhook, is in every run.
* `StopConfirmsDeath` says that a Stop that goes on leaves its child dead or killed; a killed
  child may still be dying, since the wait after the SIGKILL ends whatever happens.
* `CallsReturn` excepts a Start that waits for ever for a hook, or for a `cmd.Wait` whose
  pipe somebody else holds.
* `OneChecker` demands a checker only of a process whose `Cmd` is set. A Stop that was
  overtaken by a Restart clears the `Cmd` and cancels the checker of the new attempt.
* `QuietShutdown` is about a shutdown that nobody disturbs: the states were true when
  SIGTERM came, and no request, restart goroutine or loop acts on a process afterwards.
* `ReloadApplies` and `QuietShutdown` except the programs that depend on a cycle
  (`Looped`), which a sort may leave out. `Reachable` and `QuietShutdown` except, only
  where there are cycles, the programs that others depend on (`Extras`), which a reload may
  add twice.
* The run Manager sends signals after `main` has added the processes, has requests that
  restart and look (the reload and the shutdown start and stop), and has an `fsync` that
  works (`SyncFails = FALSE`). `ShutdownEnds` is about a SIGTERM that `sigChan` has taken, and
  excepts a Start that waits for a hook for ever (`HookHangs`) and a reader of `pm.mu` that
  waits for itself (see 3).
* `ValidatedIsSorted` excepts dependencies on a program with numbered processes, and
  `EveryoneVisited` names that have no process.
* `LogIsSuffix` is checked for one process per path. It allows a file and its copy side by
  side, which a crash or a failed removal leaves behind, and excepts a compression that
  fails half-way, once its copy exists (`"torn"`). `SizeBound` is about a
  file whose stream is open, and one process per path too.
* RateLimiter assumes that an idle bucket is full before it is forgotten
  (`Burst <= Rate * Interval`): the code refills for five minutes what `burst = 2 * rps`
  holds two seconds of.
* `OrderlyLife` is about sockets as long as nothing fails and calls follow one another.

## Fairness

Safety needs none. Liveness uses weak fairness of goroutines that are inside an
operation: the Go scheduler runs every runnable goroutine, locks are granted, timers fire,
webhooks have timeouts and a number of retries. The kernel delivers SIGKILL and a killed
child exits, hence fairness of `ContextKill` and of the exit of a killed child.

Hooks have no timeout: `runHook` (`process.go:962`) is a `cmd.Run()`. So the steps that wait
for one are not fair: in Process the fork that follows the pre-start hook (`StartSpawn`)
and the end of the monitor goroutine that follows the post-stop hook (`MonitorEnd`); in
Manager the reservation and the fork of a Start (`EndingStep` leaves them out). Neither is
`MonitorWait`: `cmd.Wait` without a `WaitDelay` waits for a grandchild that holds the child's
pipe. A Start can therefore wait for ever, for its own hook or for the monitor of
the attempt before, and `CallsReturn` and `ShutdownEnds` say so; a Stop cannot, since both
of its waits have timeouts. `HooksEnd` adds that every hook ends; only reference
configurations use it, so that their counterexamples are about locks and signals.

Nothing is assumed of callers (they need not call) and of children (they need not exit, or
read, or answer). In EventListener a pipe whose other end is gone eventually reports it, and
`cmd.Wait` closes the supervisor's end; that is what releases a blocked read or write.

## Proofs

All proofs are for every value of the constants that satisfies the modules'
assumptions: any number of callers, attempts, faults, programs, clients, reloads and
restart goroutines, any configuration, any capacity. The bounds of the models (`MaxCalls`
and its like) are constants as well, so nothing depends on their values.

| Module | Theorem | States | Condition |
|---|---|---|---|
| SupervisorProofs | `TypeCorrect` | `TypeOK` of Process and Supervisor | |
| | `WaitChOnce` | `WaitChClosedOnce` | |
| | `ChildrenStayInHand` | `NoEscape` | `FewCallers(Operators)` |
| | `ExitIsConfirmed` | `ExitConfirmed` | `FewCallers(Operators)` |
| | `MonitorsOwnTheirChild` | `MonitorOwnsChild` | `FewCallers(Operators)` |
| | `StopLeavesNoneAlive` | `StopConfirmsDeath` | `FewCallers(Operators)` |
| | `RestartsStayInHand` | these four, of `Spec` | `FewCallers(Callers)` |
| | `NewestIsLeftRunning` | `NewestRuns` | `FewCallers(Callers)` |
| | `StateIsTrue` | `StateTellsTruth` | `Alone(Operators)` |
| | `StopsGracefully` | `GracefulStop` | `Alone(Operators)` |
| | `OneHealthChecker` | `OneChecker` | |
| | `RetriesBounded` | `RetryBound`, for any number of restart goroutines | `RetryConfig` |
| | `NeverInLimbo` | `NoLimbo` | |
| ManagerProofs | `ManagerTypeCorrect` | `TypeOK` | |
| | `ChildrenReachable` | `Reachable` | `~EarlySignals` |
| | `ReloadsApply` | `ReloadApplies` | `~EarlySignals` |
| | `ShutdownStopsAll` | `QuietShutdown` | `~EarlySignals` |
| | `StateFileSafe` | `StateFileWhole` | `~SyncFails` |
| DependenciesProofs | `CyclesAreReported` | `CycleReported` | |
| | `SortRespectsDependencies` | `DependenciesFirst` | |
| | `ValidatedConfigurationsSort` | `ValidatedIsSorted` | |
| | `EveryProcessOnce` | `EveryoneVisited` | |
| EventLogProofs | `RingTypeCorrect` | `TypeOK` of RingBuffer | |
| | `RingKeepsHistory` | `KeepsHistory`, the refinement of Recent | |
| | `RingLimitedIsSuffix` | `LimitedIsSuffix` | |
| | `NoEventBetween` | `NoGap` | |
| | `StreamFollowsLog` | `StreamedIsLogged` | |
| EventListenerProofs | `ListenerTypeCorrect` | `TypeOK` | |
| | `NeverRedelivered` | `NoRedelivery` | |
| | `DeliveryInOrder` | `DeliveredInOrder` | |
| | `NothingLostQuietly` | `NoneLostQuietly` | |
| | `OneChildAtATime` | `OneChild` | |
| | `StopLeavesNothing` | `StopIsFinal` | `~EarlyExit` |
| FcgiSocketProofs | `NoDeadManager` | `NoDeadEntry` | |
| | `OrderlySocketLife` | `OrderlyLife` | |
| LoggerProofs | `LoggerTypeCorrect` | `TypeOK` | |
| | `ClientSeesLinesInOrder` | `FollowsInOrder` | |
| | `LogKeepsNewest` | `LogIsSuffix` | one process, `"torn" \notin Faults` |
| | `LogFileBounded` | `SizeBound` | one process |
| RateLimiterProofs | `RateBounded` | `RateBound` | |
| | `RetryAfterHonest` | `RetryAfter` | |

The conditions of SupervisorProofs are about who calls. `FewCallers(C)`: at most two of the
goroutines `C` call the API, and only one unless `KillTimely` (so that for one caller nothing
is assumed of how long a killed child takes). `Callers` are the operators, the
restart goroutines if `AutoRestart`, and the loop if it restarts unhealthy processes.
`Alone(C)`: at most one. `RetryConfig`: finitely many restart goroutines, at least one, and no
restarts for health, which are not counted as calls. The theorems about `Operators` are about
`ProcessSpec`, in which the loop and its goroutines do nothing.

Each condition is needed. Three callers refute `NoEscape` (`ThreeCallers.cfg`), and
`ExitConfirmed` and `MonitorOwnsChild` likewise: two Starts are past their first look at the
state when a Restart's Stop resets STARTING; one Start publishes its child under the attempt of
the other, which fails and writes EXITED, and a third Start clears `Cmd`. Concurrent.cfg with
`KillTimely = FALSE` refutes `NoEscape`, `ExitConfirmed`, `MonitorOwnsChild` and
`StopConfirmsDeath`: a Stop that gave up on its dying child lets a Start in while the old
monitor goroutine is at work, and that takes the channels of one attempt for those of the
other. A second caller refutes `GracefulStop` (`GracefulRace.cfg`) and, for
`StateTellsTruth`, leaves a child running behind EXITED (`FailedStart.cfg`). `RetryBound`
counts the restart goroutines because several can be pending for one exit: each puts
EXITED back before its Start waits for a monitor goroutine that is in its hook, and the loop
schedules another. Two processes on a path refute `LogIsSuffix` (`LogShared.cfg`) and
`SizeBound`, and a torn compression `LogIsSuffix` (`LogTorn.cfg`). With `EarlySignals` a SIGHUP
meets `main` while it adds processes, and an object that runs is replaced
(`EarlyReload.cfg`). With `SyncFails` the file may be renamed before its data are on the
disk. With `EarlyExit` a server failed to start and `main` returns while a reload starts
a listener.

* **SupervisorProofs.** `TypeCorrect` needs `WaitsForCmd` in addition: a monitor goroutine
  that waits has a `Cmd`, which is what keeps its exit status within the children there
  are. One lemma per action, with lemmas for what the helpers (`Return`, `Goto`,
  `Killed`, `With`) do to the types. `WaitChClosedOnce` is not inductive: publishing a
  channel must not bring back a closed one. `ChannelInv` adds that an attempt in the
  hands of its Start is in nobody else's, is not the published channel and is not
  closed, and that nothing refers to an attempt that is not open yet. Three actions
  touch these (reserve, publish, and monitor's record); all others are within
  `ChannelFrame`.

  The theorems for two callers rest on one invariant, `OverlapInv(C)`. Only the callers `C` are
  inside the API (`Bystanders`). `CoreInv` follows an attempt through its life: nothing refers
  to one that is not open yet (`OpenedInv`); in the hands of its Start it is published nowhere
  and captured by nobody (`FreshInv`); a monitor goroutine with work left is that of the
  published attempt, and waits for its own child (`MonitorInv`); `Cmd` is the child of the
  published attempt (`CmdInv`); a Stop has captured the child and the channel of one attempt,
  or a dead child (`StopInv`); every live attempt but the newest has its context cancelled
  (`CondemnedInv`); and a child that is not condemned is in the hands of its Start or is `Cmd`
  (`ReachInv`). What remains is where the other caller can be: beside a Start that waits for the
  monitor, an attempt that is not condemned is announced by STARTING (`ReservedInv`), and while
  the published attempt is not over at most one caller has failed to see it, whom the state
  turns away (`BehindInv`). For one caller `SoloInv` adds that nothing is overtaken: an
  attempt in the hands of its Start is not condemned, and a child with a stop signal is the
  business of the Stop that sent it.

  `CheckerInv` says that a checker that acts is the one the struct points at. It needs no
  condition on the callers, since Start cancels the checker it finds there and enters its own
  in one critical section. `RetryInv` adds to `StartRetries` what is still to come: a caller
  or a restart goroutine that may yet open an attempt (`Pending`) counts as one. The sum never
  exceeds the bound, because a call pays for itself when it is made and the loop schedules a restart
  only below the limit, with a goroutine that was idle. `NoLimbo` is inductive: whoever
  writes STARTING or STOPPING becomes its owner, and an owner leaves only by a step that
  writes another state, or finds that somebody else has. This needs no condition on the
  callers.
* **ManagerProofs.** `Control` says where each goroutine can be and what it holds there;
  it is an invariant of its own and carries the types. `SortedNames` is about `Sorted`: what it
  leaves out depends on a cycle (`Looped`), and what it adds is a dependency of something in a
  graph with a cycle (`Extras`). It is a fact about cardinalities: if nothing was left out,
  equal lengths mean that nothing was added. On these rest three arguments.
  `Kept`: an object that was made is in the map under its name, or its context is
  cancelled; a reload keeps it so since it cancels before it deletes and deletes before
  it adds (`Replacing`), unless the name is one of `Extras`. `Settles`: a name
  outside `Looped` is as the configuration has it unless it is still in `diff`, is being
  worked on, or `main` has yet to add it (`Booting`). `Quiet`:
  as long as a shutdown is undisturbed, every goroutine but the handler is at a place
  where it touches no process, and a child that is not cancelled is yet to be visited
  by StopAll or is being stopped (`Visits`). The many actions that touch none of this fall
  into four classes (`Aside`, `AddsOne`, `Onward`, `ReloadSteps`), each with one lemma.
  `StateFileSafe` has an invariant of two lines about the temporary file.
* **DependenciesProofs.** The search (`DfsInv`): gray programs are those of the stack, each
  of which depends on the next (`Path`); a dependency that was looked at is explored or
  is the next of the stack (`Explored`); and no set of explored programs waits for
  itself (`NoBlackCycle`). The last is kept when a program is explored because none of
  the explored ones depends on it. A dependency that is gray closes the cycle that the
  rest of the stack is; at the end every program is explored, so there is none. The
  sort (`Sorting`): the in-degree of a node is the number of its dependencies not yet
  visited, the queue and the order have no repetitions and nothing in common, what is
  in the queue has all its dependencies visited, and what is in neither has not. When
  the queue is empty the nodes not visited therefore wait for each other
  (`StuckIsCyclic`), and projected to programs they are a cycle that the search has
  reported: this is where the two algorithms are shown to agree. The
  argument needs no induction over the graph.
* **EventLogProofs.** The ring buffer: the write position stays inside the array; every step
  of the array is a step of Recent; a limited snapshot is the end of the full one. The
  argument is arithmetic: the only moduli taken are of numbers below twice the capacity
  (`WrapOnce`), and a push moves each remaining value one slot towards the front (`Slot`). An
  auxiliary fact is that until the array is full the position is the number of values. The
  event log builds on it: the buffer holds the newest numbers in order (`Logged`), and nobody
  broadcasts or sees an event that was not pushed (`PushedFirst`). `NoGap` is inductive
  together with these.
* **EventListenerProofs.** For the delivery: a queue is in the order of the events, holds
  nothing older than the event sent last and nothing that was answered (`QueueOrder`),
  the events of a later generation are newer than those of an earlier one
  (`GenerationOrder`), and without an overflow the event sent is still the first of the
  queue (`Quietly`; with one it is not, see ListenerOverflow). For the children: which
  goroutine stops which generation (`WhoStops`), and what the state of a listener says of
  its child and its loop (`StateTells`).
* **FcgiSocketProofs.** `NoDeadEntry` is inductive once a closed manager is not in the map
  and numbers of managers are not used again (`Numbering`): whoever closes a manager or its
  listener takes the entry out in the same critical section, or finds that the entry is
  not its own any more. `OrderlyLife` needs the count: in orderly use one call is under way, the
  socket in the map has as many references as processes hold it (`Counted`), and it
  listens, or its creator is about to (`Listening`). It is a fact about cardinalities,
  hence the assumption that there are finitely many processes (`numprocs` is a number).
* **LoggerProofs.** `Typing` adds to the types what each step of a rotation finds: a file to
  close, a file to rename, a backup to compress. `FollowsInOrder` needs that every file, removed
  ones included, holds its lines in order and none newer than the last one accepted
  (`FilesInOrder`): a write appends the newest line, so the file the client has open only
  grows beyond what it has seen. For `LogIsSuffix` the log is taken as a set of lines
  (`LogOK`): backups have different dates and are not empty (`Dated`), lines are in the order of
  the files (`InOrder`), a line that is held is followed by all newer ones (`Newest`), and all
  are held or there are enough backups (`Enough`). Two backups may have one date, a file and its
  whole copy. One lemma per operation on the files: append, rename, add the copy of the
  latest backup (`LogCopy`), remove the source (`LogRemove`), remove the oldest. `WorkInv` carries
  what a rotation has done so far from one of its steps to the next; a crash leaves the files
  and drops it. It needs `PathInv`: an open writer is
  on the log file, and a file is rotated only if it holds a line, or else empty backups would
  displace others. `SizeBound` is an account of the counter, which several copiers change in
  two steps each: `CounterInv` bounds it from below and above by the copiers that have written
  and not yet added (`Adds`), and those about to take the limit off (`Subs`), and bounds the
  size of the file by the counter and `Starts` times the limit (`Drift`). The cardinalities of
  `Adds` and `Subs` change by one per step.
* **RateLimiterProofs.** For every rate, burst and interval of `RateAssumption`. `RateBound`
  says nothing of what is left in a bucket; `Budget` adds it up: what a client has used
  in the window and what its bucket holds are within a burst and the refill up to the
  bucket's own clock; a client whose bucket is older than the window has used nothing;
  one that was forgotten has used no more than the refill alone, for it was idle for
  an interval, in which the bucket would have filled up. The products of variables are
  dealt with in lemmas on monotonicity (`Rate` times a longer time).

### Only model-checked

* All liveness (`CallsReturn`, `StopReturns`, `ShutdownEnds`):
  fairness and `ENABLED` are outside what the prover handles.
* `NewestRuns` in the run Health has three callers (an operator, the loop and a restart
  goroutine); the theorem covers two, since its invariant contains `NoEscape`, which three
  callers violate.

Every invariant and every action property of the passing runs is stated by a theorem.

Facts that need induction over data (what a recursive definition computes for every
input) are out of the prover's reach; none of the modules uses recursion.

## Behaviours found

Those that contradict a comment, a test or the repository's README.md are quoted with it
in `PROJECT.json`. The first is a run. The configurations named with the others are not among the
runs: they are kept beside them as references, and TLC ends each with its counterexample.
The hazards in `PROJECT.json` that rest on one of them say so.

1. **StopRevived.** The restart goroutine re-checks the state, releases `p.mu` and calls
   `Start`, which accepts STOPPED. A Stop in between is overruled.
2. **Shutdown.** (`Shutdown.cfg`) The signal handler runs before `main` has started the processes. SIGTERM
   during `StartAll` lets `StopAll` finish first; `main` then starts the rest and returns.
3. **RestartAll.** (`RestartAll.cfg`) `restart-all` restarts inside `RangeProcesses`. `Stop` and `Start` of a
   process with a socket ask for the write lock its own goroutine reads. Related:
   `Snapshot` reads `pm.mu` inside `RangeProcesses`; a writer that arrives between the two
   read locks stops both (`StatusDeadlock.cfg`). `SaveState` does the same, so that SIGTERM
   may hang: it is one of the exceptions of `ShutdownEnds`.
4. **A write during a rotation** finds the file closed: the copier ends and the child dies
   of SIGPIPE (`LogWindow.cfg`). If the new file cannot be opened, the stream stays closed
   for every later Start too (`LogDead.cfg`).
5. **A follower of a log** loses what was written around a rotation (`FollowGap.cfg`) and
   can be left with a removed file (`FollowStale.cfg`).
6. **Dependencies on a program with `numprocs`** pass validation and make the sort give up,
   so that nothing is started in order (`SortNumbered.cfg`); with the default
   `process_name` only one of the N processes exists (`SortPlain.cfg`).
7. **A hook that does not end** (`process.go:962`) keeps its Start, or with it the next Start,
   waiting for ever, and with it the request, the reload or `main` that called it. A Stop
   goes through. `CallsReturn` and `ShutdownEnds` have exactly this exception (`Hangs`,
   `HookHangs`), and fail without it.
8. **Restart goroutines pile up.** While `monitor()` is in a slow post-stop hook, the loop
   starts a goroutine for the same exit again and again, since each puts EXITED back before
   its Start waits. All of them may start the process in turn; `RetryBound` has a term for
   them.
9. **A cycle that a missing name hides** makes the sort leave a program out. `StartAll` does
   not start it, `StopAll` passes it over, so that it survives the supervisor (the
   exceptions of `QuietShutdown`), and a reload that modifies it leaves it as it was (those
   of `ReloadApplies`). The name in its place is visited: if the reload has no configuration
   for it, `AddProcess(nil)` panics; if it is also an added program, it is added and started
   twice, and the first copy runs on with nobody to stop it (those of `Reachable`).
10. **FastCGI.** The Start that fails to listen or to set the mode deletes the entry by name,
    also when a Stop and another Start have replaced it meanwhile: the open listener of the
    other is lost to the map, and every later `Listen` finds the address taken. And a Stop can
    close a socket between its creator's `Listen` and `Attach`, which the comment at
    `process.go:306` means to prevent (Fcgi.cfg violates `CreatorAttaches`).

The following configurations are kept for reference; each is expected to end with a
counterexample (`tlc -config X.cfg Module`):

| Configuration | Module | Property | Behaviour |
|---|---|---|---|
| GracefulRace | MCProcess | GracefulStop | A Start that is refused during a Stop has already cancelled the child's context: SIGKILL inside the grace period. |
| ThreeCallers | MCProcess | NoEscape | Three callers lose a child: it runs, `Cmd` does not name it, and no Start holds it. |
| FailedStart | MCProcess | StoppedIsDead | A Start whose fork failed writes EXITED over another Start's RUNNING; the next Stop finds nothing to do. |
| GroupKill | MCProcess | KillTargetsOwnPid | The child is reaped between the last look at `waitCh` and the kill of its group. |
| FalseFatal | Supervisor | FatalIsDead | A restart goroutine whose Start failed marks a process FATAL that somebody else has started. |
| HealthRestart | Supervisor | HealthRestartJustified | The loop restarts a process before its first health check, since `Healthy` starts as FALSE. |
| ListenerReload | EventListener | NoneLost | The events in the old queue are discarded (`manager.go:87` says none are lost). |
| ListenerOverflow | EventListener | AckRemovesSent | The event that waits for its answer is dropped by an overflow; the OK removes the next one, unsent. |
| SortNumbered | Dependencies | DependenciesHonoured | See 6. |
| SortPlain | Dependencies | AllInstances | See 6. |
| SortPriority | Dependencies | LowestPriorityFirst | Priorities are compared within a batch only. |
| FcgiExit | FcgiSocket | SocketWhileRunning | A Start whose dup of the listener fails leaves EXITED without a reference; without autorestart the loop detaches all the same, at each tick, and closes the socket of the other process. |
| FcgiLeak | FcgiSocket | ClosedWhenAllStopped | The creator's own dup fails: the socket is open, nobody has a reference, and no detach will be the last one. |
| LogWindow | Logger | WritesSucceed | See 4. |
| LogDead | Logger | StreamOpen | See 4. |
| LogTorn | Logger | LogIsSuffix | A torn `.gz` beside the whole file: `cleanupBackups` removes the file and keeps the torn one. |
| LogShared | Logger | LogIsSuffix | Two processes log to one path: one rotates the file the other writes to. |
| FollowGap | Logger | FollowsAll | See 5. |
| FollowStale | Logger | FollowsPath | See 5. |
| Shutdown | MCManager | NothingLeftRunning | See 2. |
| RestartAll | MCManager | RequestsReturn | See 3. |
| EarlyReload | MCManager | Reachable | SIGHUP while `main` adds processes: an object that runs is replaced. |
| SignalLost | MCManager | AlwaysEnds | A SIGTERM that finds `sigChan` full is dropped. |
| StatusDeadlock | MCManager | RequestsReturn | See 3. |

Four more need only a change of a configuration above: Concurrent.cfg with
`KillTimely = FALSE` violates `StopConfirmsDeath` (see [proofs](#proofs)); Listener.cfg with
`EarlyExit = TRUE` violates `StopIsFinal` (`main` returns early while a reload starts a
listener); Sort.cfg violates `NobodySkipped` (see 9); and Fcgi.cfg violates
`CreatorAttaches` (see 10).

Three things need no model: `norestartcodes` is ignored when `restartcodes` is set; the
state file is written on SIGTERM only; and a reload makes the restart counters of the
metrics count the restarts of untouched processes again (`metrics.go:269`).

## What is not modelled

* Parsing of configuration files, includes and variables; web pages, authentication,
  metrics, `gosupervisorctl`: input, output and text, without state the other parts depend
  on. In the configuration, priorities beyond their order and the fcgi sections beyond
  what validation says of them.
* Reading `/proc`, cgroups, rlimits and users: host I/O. Their failures are failed starts.
* The contents of hooks, webhooks and health checks: they are delays and outcomes, and the
  delay of a hook may have no end.
* Programs of different names with one `fcgiBaseName`: to FcgiSocket they are processes of one
  program, with one address.
* `Process.Signal`: to the model, a signal that ends the child is an exit at any time,
  which `ChildExit` has. The resource sampler (`monitorResources`) and `RestoreState`'s
  counters, which are for display, but for `StartRetries`.
* The system log of the logger, and `RotateLogs`, `rotateLog`, `CloseProcessLog` and
  `cleanupOldLogs`, which nothing calls.
* The rounding of `float64` in the rate limiter, and the sliding window of
  `restartRateExceeded`, which is nondeterministic in Supervisor.

## Plan

Done: the core (Process, Supervisor), the manager, validation and ordering, event log,
listeners, sockets, logger and follower, rate limiter; a theorem for each safety property.

1. Abstract specification of a process (idle, running, stopping; who may move it) and
   Process as its implementation for one caller.
2. Model: the sliding window of `restartRateExceeded` with its pruning, `RestoreState` with
   the counters it brings back, the metrics' counters across a reload.
