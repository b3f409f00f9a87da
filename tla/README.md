# Verification of the mxc daemons

This directory holds TLA+ models of `microsoft/mxc`, the TLC instances that
check them and the TLAPS proofs about them. Paths below are relative to
`src/mxc-sdk/src/` of the repository.

1. [The system](#1-the-system)
2. [Plan](#2-plan)
3. [The model](#3-the-model)
4. [What the runs check](#4-what-the-runs-check)
5. [Where the code and its documents disagree](#5-where-the-code-and-its-documents-disagree)
6. [What is proved](#6-what-is-proved)
7. [What is not modelled](#7-what-is-not-modelled)

## 1. The system

mxc runs commands in sandboxes behind one interface. A request is parsed
(`core/mxc_common/config_parser.rs`), matched to a backend
(`core/mxc_engine`), and run once or through the phases *provision, start, exec,
stop, deprovision* (`core/mxc_common/state_aware_dispatch.rs`). Most backends
build a sandbox, run one process in it and take it down again in sequence. Two
of them keep state between phases in a daemon of their own: WSLc, with containers
in sessions of a virtual machine each, and Windows Sandbox, with the one VM a host
can run. These two daemons, their clients and what they share on a host are where
the system is concurrent, and are what is modelled here.

### Inventory

| Part | Sources | State and operations | What is hard |
|---|---|---|---|
| Session manager | `bin/wslc_daemon/session_manager.rs` | One worker thread owns sessions, pending sessions, containers, parked provisions and runs; it serves commands from one queue and starts a thread per boot, release, pull and run | Threads hold raw SDK handles; reports race deadlines; work parks behind boots, pulls and runs; slots must outlive whatever has them mounted; teardown with budgets; panics |
| Store slots | `backends/wslc/common/store_slots.rs` | Set of leased slots; lease the lowest free, drop, forget | Leases dropped by several threads, or forgotten on error paths |
| Container and image steps | `backends/wslc/common/{container_steps,image}.rs` | SDK calls of a boot, a release, a pull, a run; in-flight counters | Boots whose store probe fails; machines that do not stop; reports queued before a counter is released |
| Control server | `bin/wslc_daemon/control_server.rs` | Accept loop, client and exec permits, cancellation lane; one request per connection | A client accepted while the pipe is recreated; a lost shutdown signal; replies lost after an id was minted; slots taken by parked requests |
| Daemon process, watchdog | `bin/wslc_daemon/main.rs` | Publishes its record, polls the container count, drains, removes the record, shuts down | The last idle sample against a new connection; order of teardown |
| Discovery, client | `backends/wslc/common/{daemon_client,daemon_record}.rs` | Record file, transition lock, spawn, liveness by pid and creation time | Two spawners, a crash, a stale record, a record removed by another daemon |
| WSLc execs | `bin/wslc_daemon/{control_server,session_manager,stdin_writer}.rs`, `backends/wslc/common/{container_steps,state_aware}.rs` | Registry of live execs, permits, bounded queues, stdin relay and writer, run thread, cancellation by id and token | Completion against the last output; a producer that never stops; a cancel for a run that has ended, or has not begun |
| Exec streams of the SDK | `backends/wslc/common/stream_buffer.rs`, `core/mxc_common/{exec_stream,sandbox_process,interruptible_reader}.rs` | Reader threads and buffers of a running process | Cancellation and exit ordering |
| State-aware engine | `core/mxc_common/state_aware_*.rs`, `core/mxc_engine` | Phase rules over all backends | A phase repeated or out of order |
| Windows Sandbox VM | `bin/windows_sandbox_daemon/main.rs`, `backends/windows_sandbox/lifecycle/{control_plane,vm,teardown,one_shot,state_aware}.rs` | One VM per host, two named mutexes, daemon record, run markers, sandbox records, termination by proof | Phases, daemons, runs and the user at once; a crash between launch and proof; a VM that is not the one it was |
| Windows Sandbox execs | `bin/windows_sandbox_daemon/control_server.rs`, `backends/windows_sandbox/lifecycle/{bridge,ipc_exec}.rs`, `bin/windows_sandbox_guest` | One guest connection in a slot, relayed by one exec at a time and made anew after it | A late Exit, a frozen guest, a frame cut short, a read dropped half-way |
| Other backends | `backends/{bubblewrap,lxc,process_container,seatbelt,isolation_session,hyperlight,nanvix,nvx}` | Launch and tear down one sandbox | Mostly sequential operating-system calls |
| Parsing, policy, contracts | `core/mxc_common`, `core/mxc_contract`, `policy` | Pure functions | Size of the data, not control |
| Telemetry, learning mode, FFI, tools, SDKs | `core/mxc_telemetry`, `core/learning_mode_*`, `src/ffi`, `src/tools`, `sdk` | State files, trace decoding, bindings | Handle tables and shared files |

`PROJECT.json` lists each part with its status, and the hazards at the lines
where they bite.

## 2. Plan

*Done.*

1. The slot pool as an abstract specification (`StoreSlots`); the session manager
   in layers (`WslcState` to `WslcWorker`); types, slots, the refinement of the pool,
   and the lifetimes of handles, runs and the SDK proved.
2. `WslcDiscovery`: record, transition lock, spawn, give-up, crash and teardown; its
   invariants proved.
3. `WslcDaemon`: accept loop, permits, minted ids, idle watchdog and drain; its
   invariants proved.
4. `WslcExec` (connections, permits, registry and capacity of execs) and `WslcRun`
   (the streams and the run thread of one exec); their safety properties proved.
5. `WsbHost` in layers (`WsbState` to `WsbHost`): phases, daemons, one-shot runs and
   the user around the one VM; that owners are kept apart is proved.
6. `WsbRelay` and `WsbExec`: the execs of a Windows Sandbox, host and guest; that the
   connection is clean and results are a client's own is proved.

*Next, in this order.* `ProofKept` and `ForeignSpared` as theorems, which need an
invariant on what every proof names; `OneOwnerPerReply` as a theorem; the capture of the one-shot runners
(`stream_buffer.rs`, `execute_on_guest`); the phase rules of the state-aware
dispatcher; the exec streams of the SDK.

## 3. The model

### Modules

| Module | Models |
|---|---|
| `StoreSlots` | What the slot pool promises: a slot has one owner, a dropped lease returns it, a forgotten one holds it for good |
| `WslcState` | The worker's maps, the threads, the queued reports, and the machines and handles that really exist; `Worker::new` |
| `WslcSessions` | `begin_session`, `lease_and_boot`, `finish_session`, `release_session`, `start_deferred_boots`, the two reapers, and the boot and release threads |
| `WslcProvision` | `ensure_session`, `begin_provision`, `finish_provision`, the pull thread and its deadline |
| `WslcContainers` | `dispatch`, start, stop, deprovision, `begin_exec`, `finish_exec`, `quarantine`, the run thread |
| `WslcTeardown` | `Worker::shutdown` with its phases, and `abandon_if_borrowed` after a panic |
| `WslcWorker` | The whole, its properties and the fairness its liveness needs |
| `WslcDiscovery` | `DaemonClient::connect`, `TransitionLock`, the record, and the start, teardown and crash of the daemon process |
| `WslcDaemon` | `control_server::run`, `spawn_client_handler`, `handle_client`, `deliver_minted_reply`, `release_undelivered_sandbox`, `idle_watchdog` and the end of `run` in `main.rs` |
| `WslcExec` | `spawn_client_handler` with its permits, `handle_exec`, `deliver_exec`, the registry (`register_exec`, `cancel_exec`, `take_exec_stdin`), the worker's side of an exec, and `exec_piped` of the client |
| `WslcRunState`, `WslcRunThread`, `WslcRunOutput`, `WslcRunStdin`, `WslcRun` | One admitted exec: `exec_in_container` and `run_exec`; the sink, the queue and `write_exec_result`; `relay_stdin` and `StdinWriter` |
| `WsbState` | The host, its VM and the WindowsSandbox* processes; mutex, records and markers; `terminate_processes` |
| `WsbOwner` | What a daemon and a one-shot run do alike: take the mutex, `classify_startup` and `reconcile_existing_vm`, `launch_managed_vm` |
| `WsbTeardown` | `serve`, the crash watchdog, STOP, the end of `main`, `OneShotTeardown`, crashes, Ctrl-C |
| `WsbPhases` | `provision`, `start`, `stop`, `deprovision`, `cleanup_stale_daemon_orphan` |
| `WsbHost` | The whole, its properties and fairness |
| `WsbRelay`, `WsbExec` | `handle_exec` and `stream_exec_on_guest`; `run_exec_stream`; the agent's command loop and `execute_script` |
| `MC*` | Instances, symmetry and the casts of a run, for TLC |
| `HostSlots_proofs` | Theorems on `StoreSlots` and `WsbHost` |
| `WslcSlots_proofs`, `WslcHandles_proofs`, `WslcSdk_proofs` | Theorems on the worker, each module building on the one before it |
| `WslcDaemon_proofs`, `WslcExec_proofs`, `WslcRun_proofs` | Theorems on the modules they are named after |
| `Clients_proofs` | Theorems on `WslcDiscovery` and `WsbExec` |

From `WslcState` to `WslcWorker` each module extends the one before it, as the
code is one `impl Worker` over one struct, and likewise from `WsbState` to `WsbHost`.
`WslcDiscovery`, `WslcDaemon`, `WslcExec`, `WslcRun` and `WsbExec` stand on their own. Each
keeps of the others what it can see of them: to a phase process a daemon is a process
that publishes and removes a record; to the tasks of the daemon the worker is what it
answers. The variables of the worker are grouped (`entryVars`, `slotVars`, `threadVars`,
...) so that an action's frame reads as what it leaves alone.

### State of the worker

A session is one id with one entry: `sess` says whether it is in
`pending_sessions` (`waiting` without a store slot, `booting`, or `abandoned` by
its clients) or in `sessions` (`ready`, and `drained` during shutdown). `lease`
is the lease that the entry or the release thread owns; `vm` is the slot the
session's boot thread or machine may have open; `stray` collects slots that a
machine without an owner may have open. `lease` and `vm` are kept apart because
the properties are about their difference: the code's bookkeeping against what
is mounted.

Once `shutdown` has leaked an entry, `lease` and `vm` still record what that
entry held, since the slot stays leased and the machine stays up.

A thread is one variable per id: what it is doing, and then `sent` between
queueing its report and releasing its in-flight counter, which are two steps in
the code and two actions here. Reports are variables of their own (`bootMsg`,
`relMsg`, `pullMsg`, `execMsg`). The queue is FIFO in the code. The model lets
reports and requests of different senders be handled in any order, which allows
all the orders in which they can have been queued and some more.

`waiting` is the set of clients whose oneshot is open; where the sender is, is
in `reply`, `parked`, `prov`, `exec` and the loops' remainders.

### Steps of the worker

A handler is one action, except for its loops. The loops that call back into
other handlers (replaying parked provisions, releasing parked work, reaping,
deferred boots) take a step per round, with the worker's position in `pc`, so
that threads run between rounds as they do in the code; no other command is
served meanwhile. `shutdown` is one handler with seven waits, and `pc` goes
through a phase for each.

Host failures are choices: the SDK does not load, a thread does not start, a
machine does not come up or does not stop, a pull fails, a run cannot be
confirmed to have ended. Time is three actions, one for each deadline the worker
compares with its clock, and the pull's deadline thread; boot deadlines elapse in
the order of the requests. A handler reads the clock once, so time stands still
inside one.

A panic (`Unwind`) may strike while the worker serves, between two rounds of a
loop. A panic in the middle of one straight-line handler, or inside `shutdown`,
is not modelled.

### Discovery

A daemon is its process id with its creation time, which is how `daemon_alive`
tells it from a later process; an id is taken again once nothing names it. `proc`
follows `main.rs`: `starting` until the record is published, `serving`, `closing`
once the server task has ended, `removing` with the lock or after the wait for it
has timed out, `releasing` once the record is gone. The lock is freed by its
holder's end (an abandoned mutex). `OtherBuild` holds the clients of an install
with another protocol version: they find a live daemon that is not theirs and
fail. `used` marks daemons that some client comes back to.

`faults` counts two things the properties except: a client that gives up on, or
dies beside, a daemon that is still starting, and a record whose removal fails. The
safety properties hold where neither has happened; `orphaned_daemon` shows what
the first leads to.

### Daemon

The daemon's tasks share one thread (a current-thread runtime), so a task is
interrupted only where it awaits. An action therefore goes from one await to the
next: `Accept` ends where `create_secured_instance_retry` awaits and `Recreated`
starts there; `Wake`, `Counted` and `Sample` are the watchdog's sleep, its question
to the worker, and all that follows without an await. `accepted` is the client that
is held in between, counted in `activity` and not yet in `active_clients`.

`fresh` is `generation != last_activity`. `notified` is the permit of
`notify_one`. `known` are ids whose reply was written to the pipe; a client that
dies after that owns an id it cannot use, as in the code. `retired` containers do
not count.

`Wake` has one guard about time: an accepted client that the last sample saw has a
task by the next. Recreating a pipe takes at most five attempts and four waits of
50 to 400 ms, three quarters of a second, while two polls are at least one second
apart (`duration_from_env` takes whole positive seconds). The check of `draining`
after a connect is in `StopAccepting`; on one thread the biased select sees the
permit first, so that branch is never taken alone.

### Execs of WSLc

`WslcExec` sees execs from their connections. Each exec may have four: its own, that
of its terminator, that on which its client's own threads cancel it, and that of its
stdin. A connection is served under a general permit or, when it turns out to be a
cancellation or stdin, under one of the lane. `refs` are the holders of a
registration, `places` the holders of an exec's permit: task, run, quarantine. The
run itself is one step long here, and in `WslcRun` it is everything.

`WslcRun` is one exec from admission to its terminal frame. `SinkChecks` and
`SinkSends` are apart because two callback threads pass the check of the overflow
latch before either sends. `notice` holds the frames the handler has yet to write.
On the side of stdin there are three actors, the relay task, the writer thread and
the run thread that stops it (`frozen`, `stopped`), and `stdin` records not only that
the process's stdin was closed but why, which is what `NoCutShortInput` is about.

### The VM of Windows Sandbox

A VM shows as two host processes, which appear one after the other, each named by PID
and creation time as in `VmProcId`. `vmBy` records who launched the VM that runs and
is read by properties only: the code never knows. An owner is a daemon or a one-shot
run; `pc` follows `main` or `run_one_shot`, with a step for each point where another
process can come in between: a wait, a look at the processes, a write to disk, a
termination. `WindowsSandbox.exe` is a process of its own (`child`) and outlives an
owner that dies.

All phases take the transition mutex for their whole length, so one variable holds
the phase that is at work; a phase that finds no record of its sandbox is refused and
left out. Failures of the system (a probe, a write, a termination, a crash) draw on
one budget, `FaultLimit`.

`Unproven` says when an owner takes any VM for its own: between the spawn of
`WindowsSandbox.exe` and its proof, and for a daemon until it refreshes the proof at
ready. A sandbox that the user opens just then may be terminated with the owner's, and
`ForeignSpared` excepts it; `capture_launch_proof` cannot tell the two apart.

### Execs of Windows Sandbox

`holder` is the exec that has `GuestSlot` locked. `loop` holds the locals of
`stream_exec_on_guest`, and each branch of its `select!` is an action. A branch that
completes drops the futures of the others: `part`, the header that `read_frame_async`
has consumed, is therefore reset by every other branch. Output is counted in chunks;
stdin is a sequence of headers and payloads, as `run_exec_stream` writes them. A write
of stdin that blocks takes the whole loop with it (`stuck`). `DrainAborted` and
`PostExitDrain` are the two time limits of the drain, in the guest and on the host.

### Bounds

| Bound | Meaning | Why it is enough |
|---|---|---|
| `Session`, `Client`, `Sandbox`, `Token` | Ids in use at once | An id is reused once nothing refers to it, so behaviours are of any length. Two sessions are what exclusion, deferral, the implicit session and a boot that lands during another session's teardown need; three clients are an exec and two works parked behind it, in order |
| `SlotCount` | Slots of the pool | The pool has no limit. Every run has at least as many slots as sessions and strays together, so that a free slot always exists |
| `MaxStray` | Machines left behind without an owner | Each costs a slot for good; one is enough to make a slot unavailable for ever |
| `MaxReleases` | `MAX_CONCURRENT_RELEASES` | 4 in the code; small so that the limit is reached, except in `polls` |
| `Daemon` | Daemon processes at once | Three: one that ends, one that was left starting and one that is spawned |
| `MaxFaults` | Faults of discovery in a run | One is enough to leave a daemon behind |
| `MaxClients`, `MaxLane` | `MAX_CONCURRENT_CLIENTS`, `CANCEL_LANE_SLOTS` | 24 and 16 in the code; one each, with three clients, so that both run out |
| `MaxAttempts` | `UNDELIVERED_RELEASE_ATTEMPTS` | 3 in the code; two are one that is repeated and one that is the last |
| `IdlePolls` | `IDLE_TIMEOUT / IDLE_POLL` | 20 in the code; two is the least that is safe, see section 6 |
| `Clients`, `Lane`, `Execs` | Permits of `WslcExec` | 24, 16 and 8 in the code; one, two and one keep the ratio of two lane permits to an exec |
| `OutCapacity`, `WireCapacity`, `InCapacity`, `MaxIn` | Queues of `WslcRun`, chunks of stdin | Small, so that every queue is full at some point |
| `VmLimit`, `OpLimit`, `FaultLimit` | VMs, phases and faults in a behaviour | Two VMs are an orphan and what comes after it. `MCHostSlots` divides the bounds over six casts, named there: who takes part, and what may happen to them. One cast with everything has more states than TLC can look at |
| `VM_WATCHDOG_GONE_CONFIRMATIONS` | The constant | 3 in the code; two are one that is not enough and one that is |
| `MaxOut`, `MaxFrames`, `MAX_CONCURRENT_PREAUTH` | Output, stdin and permits of `WsbExec` | Two of each kind of data, so that a second can follow a first; one permit of 32 |

`pulls` starts from the beginning with one session, or from the state (stated in
`MCWslcPulls`, and one that the worker comes to) in which it was told to stop while a run
of one session is in progress and another session boots.

In `exec_streams` a Windows Sandbox has one output stream, since the loop treats both
alike, and either one exec with stdin or two without. In `exec_streams` and `exec_ends`
a WSLc exec with stdin writes no output (`Silent`, `Quiet`), and `exec_lane` looks at
stdin connections and other clients beside the execs that have stdin (`Apart`): each
bound is stated in its MC module.

`returned` has no bound of its own: it is finite because a report must be
handled to raise it.

`CHECK_DEADLOCK FALSE` is set where the system may stop: the worker after a shutdown
or a panic, an exec that is over, a host whose bounds are used up. `discovery` and
`daemon` are checked for deadlock; a daemon that has exited stutters explicitly
(`Exited`).

## 4. What the runs check

| Run | Instance | Properties | States |
|---|---|---|---|
| `host_slots` | 2 daemons, 2 runs, 2 sandboxes, 2 VMs in six casts; or 3 owners of 4 slots | `ForeignSpared`, `PeerSpared`, `ProofKept`, `StopObeyed`, `DeadVmReleased`, `PhaseEnds`; `Exclusive` | 186 k |
| `sessions` | 2 sessions, 2 clients, 1 stray | `TypeOK`, `SlotExclusive`, `SlotsAccounted`, `ReplayFindsSession`, `PoolImplemented` | 1.2 M |
| `pulls` | 1 session, 3 clients, a container, 2 pulls; or a daemon that stops with a run and a boot in progress | `BorrowedHandlesLive`, `SdkOutlivesBorrowers`, `OneOwnerPerReply`, `OneRunPerContainer`, `ExecResultKept` | 556 k |
| `deadlines` | one of each, 1 stray | `ProvisionsAnswered`, `ShutdownEnds` | 45 k |
| `polls` | 2 sessions, 1 client | `DeferredBootsEnd`, `IdleSessionsReleased` | 56 k |
| `discovery` | 2 clients, 1 of another build, 3 daemons, 1 fault | `OneDaemon`, `TeardownUnseen`, `ConnectEnds` | 293 k |
| `daemon` | 3 clients, 1 sandbox, 1 + 1 permits | `DrainedIdle`, `NoOrphan`, `DaemonEnds`, `IdleDaemonExits` | 256 k |
| `exec_lane` | 2 execs with one id, 1 other client, 1 + 2 permits | `CancelledByItsOwn`, `RunsBounded`, `KillHasRoom`, `KillWorks`, `AbandonedRunEnds` | 92 k |
| `exec_streams` | one WSLc exec; or one or two execs of a Windows Sandbox | `WholeOutput`, `NoCutShortInput`; `ReadyIsClean`, `OwnResult` | 1.8 M |
| `exec_ends` | one WSLc exec | `InterruptedRunEnds`, `ClientAnswered`, `StdinReleased` | 101 k |

`host_slots` and `exec_streams` each look at two systems that do not interact: the
first choice of a behaviour is which one it is about.

*Stores.* `SlotExclusive`: no two machines have one store open, and whatever may
have a store open holds its slot. `SlotsAccounted`: every held slot is a stray
machine's or belongs to something that will still finish, in particular to a boot
that was given up on and has yet to report. `PoolImplemented`: the worker, its
threads and a panic use the pool only as `StoreSlots` allows.

*Handles.* `BorrowedHandlesLive`: what a container, a provision, an exec or a pull uses
is installed, which is what `finish_provision` relies on when it indexes the map without
looking, and a thread's raw handle outlives it, through shutdown and panics.
`SdkOutlivesBorrowers` says the same of the library itself.

*Clients.* `OneOwnerPerReply`: a waiting client's sender is in exactly one place,
an answered client's in none. `ReplayFindsSession`: a provision that parked
behind a boot finds its session. `ProvisionsAnswered`: it is answered even if the
boot or the pull never ends.

*Runs of the worker.* `OneRunPerContainer`, also beside one that could not be confirmed
dead, and `ExecResultKept`: an exec is answered with its own report, through shutdown too.

*Progress.* `DeferredBootsEnd`, `IdleSessionsReleased`, `ShutdownEnds`.

*Discovery.* `OneDaemon`: as long as every spawned daemon was waited for, at most
one runs and the record names it, although a teardown may go on without the lock.
`TeardownUnseen`: no record names a daemon that releases its session. `ConnectEnds`:
no client waits for ever, also behind a holder of the lock that died.

*Daemon.* `DrainedIdle`: when the watchdog drains, there is no live container, no
request in flight and no accepted client, although it read the three signals at
different moments. `NoOrphan`: a counted container has an id that was delivered or
a task that delivers or undoes it. `DaemonEnds`: a draining daemon exits wherever
the accept loop was when it was told. `IdleDaemonExits`: a daemon nobody talks to
exits, also if an undelivered sandbox cannot be deleted.

*Execs of WSLc.* `CancelledByItsOwn`: a cancellation reaches its own run and no
other, although ids are used again. `RunsBounded`: no more processes than
permits, whether or not their clients are there or their ends were confirmed.
`KillHasRoom` and `KillWorks`: a kill gets through with all general permits taken, and
takes effect also when it came before the admission. `AbandonedRunEnds`.
`WholeOutput`, `NoCutShortInput`: what a client is given of the output
has no gap, is complete unless it is told, and its input is never ended early under a
process that may still run. `InterruptedRunEnds`, `ClientAnswered`, `StdinReleased`:
with a process that may never end and a client that may never read or send.

*VM.* `ForeignSpared`: mxc terminates a sandbox of the user only when told to, or when
it came up during a launch. `PeerSpared`: nobody terminates the VM of an owner that
holds the slot. `ProofKept`: a proof on disk stays while what it names runs, so that an
orphan can be reclaimed. `StopObeyed`, `DeadVmReleased`, `PhaseEnds`: a daemon obeys
STOP wherever it is, does not hold a dead VM, also when another runs by then, and every
phase comes to an end.

*Execs of Windows Sandbox.* `ReadyIsClean`: the connection goes back into the slot only
with a guest at its command loop and nothing of the last exec on its way. `OwnResult`:
an exit code is that of the client's own script, although ids are not compared, and it
follows only whole frames, and all of the output unless a drain was given up or a lost
guest reset the stream before the host's first read of it (section 5): such a stream is
missing as a whole, never cut.

Every property of these runs has a mutant in `PROJECT.json`: a plausible bug in
a modelled function under which TLC finds the property violated.

### Fairness

No fairness is assumed of the host beyond what each property names.

- The worker comes back to its queue and the watchdog polls for as long as the
  daemon lives: weak fairness of the loops, strong fairness of `Poll` and of the
  handling of each report. Strong, because a report waits in a FIFO queue while
  other commands are served, and is handled in its turn.
- Deadlines elapse. `ProvisionsAnswered` assumes no progress of boot or pull
  threads; `DeferredBootsEnd` and `IdleSessionsReleased` none of releases.
- `IdleSessionsReleased` assumes that the host does not refuse the reaper a thread
  for ever; it is false otherwise. It is checked with `MaxReleases = 2`, one per
  session, so that the limit is not reached. With a limit of 1 and a client that
  keeps booting and releasing another session, every poll can find the limit
  reached, so the reaper's `break` starves the idle session.
- `ShutdownEnds` assumes only that `shutdown` goes on: each wait ends by its
  budget.
- `ConnectEnds` assumes that a client's waits end, by what they wait for or by
  their time-outs, and that a daemon which starts publishes or dies.
- `DaemonEnds` and `IdleDaemonExits` assume that the accept loop, the watchdog and
  the tasks go on, that the worker answers the watchdog or is gone, and that its
  shutdown ends (`ShutdownEnds`). Nothing is assumed of the worker's answers to
  requests or of clients.

- `InterruptedRunEnds`, `ClientAnswered` and `StdinReleased` assume that the run
  thread, the handler, the relay and the writer go on, that a time-out comes, and that
  a client which is reading reads. Nothing is assumed of the process.
- `KillWorks` and `AbandonedRunEnds` assume that tasks, the worker and the client's
  exec thread go on and that a cancelled run is retired (`InterruptedRunEnds`).
- `StopObeyed`, `DeadVmReleased` and `PhaseEnds` assume that the processes go on, that
  `WindowsSandbox.exe` exits one way or the other, and that a phase's waits end.
  Nothing is assumed of the guest, of the user or of a VM's processes.

For the execs of a Windows Sandbox no liveness is claimed: see the blocked write in
section 5.

`polls` uses `ServingSpec`, without shutdown and panics, which would only satisfy
its properties trivially; the other runs include them.

## 5. Where the code and its documents disagree

Two runs end in a counterexample; `PROJECT.json` quotes the sentences.

- `exec_stdin`: `read_frame_async` is awaited in a branch of `select!` and is dropped
  when another branch completes, with the bytes it has read. `run_exec_stream` sends
  header and payload by two writes, so that a chunk of output between the two is
  enough: the payload is then read as a header, and stdin is lost, replaced or ended.
- `orphaned_daemon`: a client stops waiting at `READY_TIMEOUT`, or dies, and the
  lock is free while the daemon it spawned has no record yet. The next client
  spawns another. Both publish; the sandboxes of whichever is overwritten are in a
  daemon that no client is led to, and keep it alive.

The models follow the code in what else was met:

- `release_session_entry` forgets which session is the implicit one before it knows
  whether the release starts, and does not restore it when it puts the session back.
  The next provision that names no session boots a second one beside it. The first is
  reaped in the end.
- The reply to a release request is moved into the closure of the release thread. When
  the thread does not start, the client sees "worker gone" while the worker serves on.
- A WSLc run whose exit callback did not come in time, while its process had ended, is
  reported with an exit code and whatever output had come by then. `WholeOutput` is
  therefore about confirmed runs.
- `classify_data_read` takes a reset for the end of a stream when nothing was read from
  it yet, "RST racing ahead of FIN on the zero-output path" (`bridge.rs:846`). It cannot
  tell that path from one on which the guest wrote, sent Exit and vanished, and the reset
  discarded what was not read: the client is then given the exit code and no output.
  `ReadOutputEof` has this, and `OwnResult` excepts exactly this case; "so we never
  silently truncate output" (`bridge.rs:865`) holds of streams that a byte was read from.
- The write of stdin to a Windows Sandbox guest has no time limit and runs inside a
  branch of the loop. While a script does not read, neither its output nor the host
  watchdog is looked at, and the slot stays locked.
- `stop`, `deprovision` and `reap_non_started_orphan` remove the daemon record once the
  daemon is gone, also when the daemon kept it because its VM could not be confirmed
  gone. The next start then finds a VM it cannot prove and refuses. `ProofKept` leaves
  this step out.
- A sandbox whose VM was closed stays recorded as Started. `stop` and `deprovision`
  refuse it while the daemon of another sandbox is alive.
- A guest waits for its stdin relay before it reports Exit, and the host closes stdin
  on Exit. A client that leaves stdin open makes every script take the drain limit.

`MAX_CONCURRENT_RELEASES` ("How many session releases may be terminating at
once") is consulted by the idle reaper only; releases that clients ask for, and
those of boots that land after they were given up on, may exceed it. The model
follows the code.

`bin/wslc_daemon/main.rs:241` says of the count that "it cannot observe zero while a
provision that will make it non-zero is in flight". It can: `live_container_count`
leaves out a provision parked behind its session's boot. Only `active_clients`,
read after the count, sees that one, which is why the idle time-out has to be more
than one poll (section 6).

## 6. What is proved

For every value of the constants, from the named assumptions of each module:

- worker: `SlotCount \in Nat`, `MaxReleases \in Nat \ {0}`, and `None` is no id and no
  number;
- discovery: names are distinct and `MaxFaults \in Nat`;
- daemon: `Client` and `Sandbox` are finite, the limits natural numbers, `IdlePolls > 1`;
- execs of WSLc: `Exec` and `Other` are finite and apart, and there are at least two lane
  permits to a place (`LaneAssumption`, as `CANCEL_LANE_SLOTS` is defined); the name of a
  stream is not the name of another frame, and `MaxIn \in Nat`;
- Windows Sandbox: names are distinct, and `MaxFrames \in Nat`.

| Theorem | Statement |
|---|---|
| `HostSlots_proofs!PoolExclusive` | `Spec => []Exclusive` |
| `HostSlots_proofs!ForgottenHeldForever` | `Spec => ForgottenStaysHeld` |
| `HostSlots_proofs!NoPeerStruck` | `WsbSpec => PeerSpared` |
| `WslcSlots_proofs!TypeCorrect` | `Spec => []TypeOK` |
| `WslcSlots_proofs!SlotsExclusive` | `Spec => []SlotExclusive` |
| `WslcSlots_proofs!SlotsAreAccounted` | `Spec => []SlotsAccounted` |
| `WslcSlots_proofs!ImplementsPool` | `Spec => PoolImplemented` |
| `WslcHandles_proofs!RunsAreExclusive` | `Spec => []OneRunPerContainer` |
| `WslcHandles_proofs!ResultsAreKept` | `Spec => ExecResultKept` |
| `WslcHandles_proofs!HandlesOutliveBorrowers` | `Spec => []BorrowedHandlesLive` |
| `WslcSdk_proofs!SdkIsLastToGo` | `Spec => []SdkOutlivesBorrowers` |
| `WslcSdk_proofs!ReplaysFindTheirSession` | `Spec => []ReplayFindsSession` |
| `WslcDaemon_proofs!DrainsOnlyWhenIdle` | `Spec => []DrainedIdle` |
| `WslcDaemon_proofs!NothingOrphaned` | `Spec => []NoOrphan` |
| `WslcExec_proofs!OnlyItsOwnCancels` | `Spec => []CancelledByItsOwn` |
| `WslcExec_proofs!PlacesBoundRuns` | `Spec => []RunsBounded` |
| `WslcExec_proofs!RoomToKill` | `Spec => KillHasRoom` |
| `WslcRun_proofs!OutputIsWhole` | `Spec => []WholeOutput` |
| `WslcRun_proofs!InputIsWhole` | `Spec => []NoCutShortInput` |
| `Clients_proofs!AtMostOneDaemon` | `Spec => []OneDaemon` |
| `Clients_proofs!TeardownIsUnseen` | `Spec => []TeardownUnseen` |
| `Clients_proofs!SlotIsClean` | `ExecSpec => []ReadyIsClean` |
| `Clients_proofs!ResultsAreOwn` | `ExecSpec => OwnResult` |

*Types.* `TypeOK` is not inductive: a replay takes the head of a sequence, which
must not be empty. `TInv` adds `LoopBusy`: a loop that `pc` is in has a head to
take. The proof splits `TypeOK` into groups of variables, one lemma per group of
actions (`RequestsStep`, `ReportsStep`, `RoundsStep`, `ThreadsStep`, `TimeStep`,
`EndingStep`), so that a leaf deals only with the groups an action changes.

*Slots.* `SlotExclusive` is not inductive either: that a returned slot is open in
no machine depends on who may return it, and when. `SlotInv` is `TypeOK` with

- `PoolInv`: leases are distinct and held, a machine's slot is the one its session
  leases, strays are held and leased by nobody, and held slots are all of these;
- `BootInv`: which entries, threads, reports and teardown phases a lease can go
  with. A session that is waiting or absent has no lease, a booting one has a
  thread or a report to come, one whose machine is down has stopped or failed.

`BootInv` is what makes every drop of a lease safe: each finds the machine
down. `ImplementsPool` follows from `SlotInv` and `PoolStep`, which classifies
every step as a lease of the lowest free slot, a return, a forget or none.

*Handles.* The worker's other invariants come in layers, each of which may use those
before it. `RunInv`: as long as reports are collected, an exec has an entry exactly when
it has a run or a report, never both, in the session of its container; and a container's
handle exists while it has a run. `LiveInv`: what counts as owned has a machine behind
it. `HoldInv`: a session that something holds is ready while the worker serves, and
through the teardown as long as a pull uses it. `SdkInv`: once the SDK is gone nothing is
left that would call it, which needs to know that no boot is pending once the boots
have been waited for. `ReplayInv`: a provision is parked only behind a session that has
yet to boot and that `ensure_session` would find for it again, and no replay is under
way outside its loop.

*Discovery.* `OneDaemon` says nothing of who may publish next. `DInv` adds `LockInv`
(who looks for a daemon holds the lock, and only they have spawned one) and
`RecordInv` (a starting daemon has its spawner still looking and no published
daemon beside it). Two starting daemons would then have two holders of the lock.

*Daemon.* `DrainedIdle` has to follow from samples taken at different moments. The
count is read before the tasks, so a single sample proves nothing: a provision may
mint its container after the count and end before the tasks are read. `LoopInv`
shows why two are enough. After an idle sample and until `activity` advances there
is no task and no accepted client, so a zero read in the next poll is still a zero
when the tasks are read. `IdlePolls > 1` is therefore an assumption, not a
convenience: the defaults give 20, but the environment overrides allow a time-out
of one poll, for which the invariant does not hold. `MintedInv` says that a minted
reply names a sandbox and that a worker that is gone has none.

*VM.* `PeerSpared` is an action property and needs to know, at each termination, who
has the mutex. `LockInv` says that whoever is past its acquisition has it: an owner at
any step up to its exit, and a phase while it terminates an orphan. One lemma for each
way of moving (`LockGoesOn`, `LockElsewhere`, `LockLeft`, `LockAbandoned`, `LockPhase`)
covers the forty actions in `LockStep`. `StrikeHolds` then shows that whoever
terminates holds the mutex, unless it is a run that Ctrl-C ends while it holds it; so
the owner of the VM, if it is another, does not. Killing a spawned daemon
(`HaltKill`) ends its process and no VM.

*Execs of WSLc.* `CancelledByItsOwn` becomes inductive with `ConnInv`: a terminator or
a cancellation is connected only if its own client wanted it or failed. `RunsBounded`
follows from `PlaceInv` (whatever may run keeps a place, and no more places are given
out than there are) by counting; `KillHasRoom` maps the connections in a full lane into
pairs of an admitted exec and a kind, of which there are fewer than permits.

*Streams of WSLc.* `ProcInv` says that what the run thread has concluded of its process
is so. For output, `OutInv` follows a chunk through sink, queue and wire: nothing of a
confirmed run is lost but by an overflow (`LossInv`), and after an overflow the notice
of truncation is ahead of the verdict wherever the two are (`EndInv`). For input,
`Chain` says that what the writer, the queue, the relay and the wire hold is, in this
order, the continuation of what the process was given; so what the writer takes for
the end of input comes after all of it.

*Execs of Windows Sandbox.* `GuestInv` says where the guest can be with the exec that
holds its connection (`Stage`): which messages are on their way, and whether Exit has
been read. All of them are the holder's, which is why not comparing ids does no harm.
`Result` says what the host has of an exec: every frame it wrote if the client was not
given up, and a stream that is done was read to its end, or lost with the guest and
unread.

Only model-checked: liveness (beyond this prover); `ForeignSpared` and `ProofKept`, whose
invariants relate what every proof names to every VM there was; `OneOwnerPerReply`,
which counts over sequences. `StdinInOrder` and `UsedIsRecorded` do not hold (section 5).

## 7. What is not modelled

In the session manager: sizing, names, images and mounts; a client that
disconnects while it waits (its sender's `send` fails and nothing else changes,
except for an exec that has not started, which is one of `BeginExec`'s refusals);
commands refused during teardown; a panic on a boot or release thread; and the
branch of `finish_session` for a boot without a slot, which no step of the model
reaches.

In discovery, the files' encoding and permissions, and a request beyond whether it
reaches the daemon it was given.

In `WslcDaemon`, execs, which are only the time their task takes there; the release of an undelivered session id, which ends in the worker's
empty-session grace (`IdleSessionsReleased`) and does not count for the watchdog;
the limit on execs, which is one of the answers a task gives at once; and a task
that panics.

In the execs of WSLc, the composition of `WslcRun` with `WslcExec`: each keeps of the
other what it can see of it, a run that ends or a cancellation that arrives. Two
processes of one exec and the sizes of frames are left out.

In Windows Sandbox, the authentication lines and nonces, the access control of the
state directories, records and markers that cannot be read, the generated .wsb file,
the garbage collection of scratch directories and the cool-down after a teardown; PING;
the capture of the one-shot runner (`execute_on_guest`). The VM and its execs are apart:
to `WsbExec` a VM that dies is a guest that is lost, to `WsbHost` an exec is nothing.

The backends that build a sandbox, run one process and take it down (Bubblewrap, LXC,
Seatbelt, process container, Hyperlight, Nanvix, NVX) keep little state that
outlives a call and mostly call the operating system in sequence; parsing, policy and contracts are pure functions
of large documents, for which small instances show little. They make up most of the
repository's lines.

The other parts of the repository are in the inventory and in `PROJECT.json`
with the reason each is left out.
