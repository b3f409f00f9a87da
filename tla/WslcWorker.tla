----------------------------- MODULE WslcWorker -----------------------------
(***************************************************************************)
(* The session manager of the WSLc daemon as a whole: the worker thread's  *)
(* command loop, the threads it starts, the clients and the passage of     *)
(* time, interleaved; and what makes it correct.                           *)
(***************************************************************************)
EXTENDS WslcTeardown

\* Requests of the clients and of the watchdog.
Requests ==
  \/ \E c \in Client :
       \/ ProvisionSession(c)
       \/ \E s \in Session : DeprovisionSession(c, s)
       \/ \E names \in Session \cup {None} : Provision(c, names)
       \/ \E b \in Sandbox : BeginExec(c, b)
  \/ \E w \in Work : Lifecycle(w)
  \/ \E b \in Sandbox : Retire(b)
  \/ Poll

\* Reports of the threads, taken off the queue.
Reports ==
  \/ \E s \in Session :
       \/ SessionBooted(s) \/ SessionBootFailed(s) \/ SessionBootedAbandoned(s)
       \/ SessionReleased(s)
  \/ \E t \in Token : PullFinished(t) \/ PullExpired(t)
  \/ \E b \in Sandbox : ExecFinished(b)

\* The rounds of the loops inside a handler.
Rounds ==
  \/ ReplayParked
  \/ RedoParked
  \/ \E s \in Session : DeferredBoot(s) \/ ReapIdleSession(s)
  \/ DeferredBootsDone
  \/ ReapDone

\* Boot, release, pull and run threads.
Threads ==
  \/ \E s \in Session :
       \/ \E outcome \in {"up", "failed", "stuck"} : BootFinishes(s, outcome)
       \/ BootThreadExits(s)
       \/ ReleaseStops(s) \/ ReleaseReturnsSlot(s) \/ ReleaseFails(s)
       \/ ReleaseReports(s) \/ ReleaseThreadExits(s)
  \/ \E t \in Token :
       \/ \E outcome \in {"ok", "failed"} : PullFinishes(t, outcome)
       \/ PullThreadExits(t)
  \/ \E b \in Sandbox :
       \/ \E report \in {"finished", "unconfirmed"} : RunFinishes(b, report)
       \/ RunThreadExits(b)

Time ==
  \/ \E s \in Session :
       BootDeadlineElapses(s) \/ ReleaseWaitElapses(s) \/ GraceElapses(s)
  \/ \E t \in Token : PullDeadlineElapses(t)

Ending ==
  \/ Shutdown
  \/ ExecsDrained \/ ExecDrainTimesOut
  \/ \E b \in Sandbox : CollectExec(b)
  \/ \E s \in Session : CollectBoot(s)
  \/ CollectDone
  \/ BootsDrained \/ BootDrainTimesOut
  \/ \E s \in Session : CollectLateBoot(s)
  \/ LateBootsDone
  \/ \E s \in Session : SessionDrained(s)
  \/ SessionsDrained
  \/ \E s \in Session : ReleaseDuringShutdown(s)
  \/ AllReleasesStarted
  \/ UnloadSdk
  \/ Unwind

Next == Requests \/ Reports \/ Rounds \/ Threads \/ Time \/ Ending

Spec == Init /\ [][Next]_vars

-----------------------------------------------------------------------------
(* Types.                                                                  *)

EntryState == {"absent", "waiting", "booting", "abandoned", "ready", "drained"}

\* Every variable holds values of its shape; a record of the bookkeeping is
\* either the empty one or complete.
TypeOK ==
  /\ sess \in [Session -> EntryState]
  /\ reply \in [Session -> Client \cup {None}]
  /\ parked \in [Session -> Seq(Request)]
  /\ earlier \in [Session -> SUBSET Session]
  /\ age \in [Session -> {"young", "old"}]
  /\ empty \in [Session -> {"no", "recent", "past"}]
  /\ default \in Session \cup {None}
  /\ began \in [Session -> {"none", "recent", "stuck"}]
  /\ returned \in Nat
  /\ held \subseteq Slot /\ stray \subseteq Slot /\ warm \subseteq Slot
  /\ lease \in [Session -> Slot \cup {None}]
  /\ vm \in [Session -> Slot \cup {None}]
  /\ boot \in [Session -> {"idle", "running", "sent"}]
  /\ bootMsg \in [Session -> {"none", "up", "failed", "stuck"}]
  /\ rel \in [Session -> {"idle", "stopping", "stopped", "returned", "kept", "sent"}]
  /\ relMsg \in [Session -> {"none", "returned", "kept"}]
  /\ prov \in [Token -> PendingProvision \cup {NoProv}]
  /\ pull \in [Token -> PullThread \cup {NoPull}]
  /\ pullMsg \in [Token -> {"none", "ok", "failed"}]
  /\ deadline \in [Token -> {"off", "armed", "fired"}]
  /\ cont \in [Sandbox -> ContainerEntry \cup {NoCont}]
  /\ handles \subseteq Sandbox
  /\ exec \in [Sandbox -> InFlightExec \cup {NoExec}]
  /\ run \in [Sandbox -> {"idle", "running"}]
  /\ lingering \subseteq Sandbox
  /\ execMsg \in [Sandbox -> {"none", "finished", "unconfirmed"}]
  /\ pc \in Serving \cup Teardown \cup {"stopped", "gone"}
  /\ expired \subseteq Session
  /\ replay \in Seq(Request) /\ redo \in Seq(Work)
  /\ abandon \in BOOLEAN
  /\ sdk \in {"none", "loaded", "leaked"}
  /\ waiting \subseteq Client /\ dropped \subseteq Client

-----------------------------------------------------------------------------
(* Store slots.                                                            *)

\* Two machines never have the same store open, and a slot that any machine
\* may have open (one being booted, one running, one that could not be
\* stopped) is held in the pool, so lease_with cannot hand it out again.
SlotExclusive ==
  /\ \A s1, s2 \in Session : s1 # s2 /\ vm[s1] # None => vm[s1] # vm[s2]
  /\ \A s \in Session : vm[s] # None => vm[s] \in held \ stray
  /\ stray \subseteq held

\* The pool as the worker and its threads use it.
Pool == INSTANCE StoreSlots WITH Owner <- Session, leased <- held, owner <- lease

\* Whatever the worker, its threads and a panic do to slots is a use of the
\* pool: nothing is leased over a lease that is still kept, and nothing leaves
\* the leased set but by the drop of a lease.
PoolImplemented == Pool!Spec

\* No slot leaks: a held slot is one a stray machine has open, or it is leased
\* to an entry or a release thread that something will still finish -- an
\* abandoned boot (reap_stuck_boots) included, whose thread is still to report.
SlotsAccounted ==
  /\ held = stray \cup (Range(lease) \ {None})
  /\ pc \in Serving => \A s \in Session : lease[s] # None =>
       \/ sess[s] \in {"booting", "abandoned"} /\ (boot[s] = "running" \/ bootMsg[s] # "none")
       \/ sess[s] = "ready"
       \/ rel[s] \in {"stopping", "stopped"}

-----------------------------------------------------------------------------
(* Handles.                                                                *)

\* A session that a container, a parked provision, an exec or a pull uses is
\* installed and is not being released while the daemon serves: the pull
\* thread's raw handle stays valid, and finish_provision finds the entry it
\* indexes.
\* And a pull or run thread never outlives the virtual machine or the container
\* whose raw handle it was given, teardown and panics included.
BorrowedHandlesLive ==
  /\ pc \in Serving => \A s \in Session : SessionHold(s) => sess[s] = "ready"
  /\ \A t \in Token : pull[t].at = "running" =>
       /\ vm[pull[t].session] # None
       /\ rel[pull[t].session] = "idle"
  /\ \A b \in Sandbox : run[b] = "running" => b \in handles

\* The SDK is never unloaded under a thread that calls into it, or while a
\* queued report still owns a session handle whose drop would.
SdkOutlivesBorrowers ==
  sdk = "none" =>
    /\ \A s \in Session :
         boot[s] # "running" /\ bootMsg[s] # "up" /\ rel[s] \in {"idle", "sent"}
    /\ \A t \in Token : pull[t].at # "running"
    /\ \A b \in Sandbox : run[b] # "running"

-----------------------------------------------------------------------------
(* Clients.                                                                *)

\* Everything that holds the sender of a client's reply.
Senders ==
  {<<reply[s], "reply", s, 0>> : s \in Session}
  \cup UNION {{<<parked[s][i].client, "parked", s, i>> : i \in DOMAIN parked[s]} : s \in Session}
  \cup {<<prov[t].client, "prov", t, 0>> : t \in Token}
  \cup {<<exec[b].client, "exec", b, 0>> : b \in Sandbox}
  \cup UNION {{<<exec[b].parked[i].client, "work", b, i>> : i \in DOMAIN exec[b].parked} : b \in Sandbox}
  \cup {<<replay[i].client, "replay", None, i>> : i \in DOMAIN replay}
  \cup {<<redo[i].client, "redo", None, i>> : i \in DOMAIN redo}

\* Every client that waits for an answer has its sender in exactly one place
\* from which it will be answered, and nothing keeps the sender of a client
\* that was answered: no path loses a reply or answers one twice.
OneOwnerPerReply ==
  \A c \in Client :
    Cardinality({x \in Senders : x[1] = c}) = IF c \in waiting THEN 1 ELSE 0

\* A provision replayed after the boot it parked behind finds its session
\* installed: it neither fails as unknown nor boots a second implicit session.
ReplayFindsSession ==
  \A i \in DOMAIN replay : IsReady(EnsureSession(replay[i].names))

-----------------------------------------------------------------------------
(* Execs.                                                                  *)

\* At most one run per container; its entry, the container's entry and its
\* report agree, so a report is never applied to another run's entry. And a
\* container whose run may still be going inside it is never given another one,
\* whatever is started or stopped in between (Worker::quarantine).
OneRunPerContainer ==
  /\ \A b \in Sandbox : cont[b].quarantined => exec[b] = NoExec /\ run[b] = "idle"
  /\ pc \in Serving \cup {"drainExecs", "collect"} =>
     \A b \in Sandbox :
       /\ exec[b] # NoExec <=> (run[b] = "running" \/ execMsg[b] # "none")
       /\ ~(run[b] = "running" /\ execMsg[b] # "none")
       /\ exec[b] # NoExec => cont[b].session = exec[b].session

\* Unless teardown ran out of its budget or the worker is unwound, an exec's
\* client is answered with its own run's report: retire_exec, and the drain in
\* Worker::shutdown that collects the reports.
ExecResultKept ==
  [][\A b \in Sandbox :
       exec[b] # NoExec /\ exec'[b] = NoExec /\ pc \notin {"drainExecs"} /\ pc' # "gone"
       => execMsg[b] # "none" /\ execMsg'[b] = "none"]_vars

-----------------------------------------------------------------------------
(* Liveness.                                                               *)

\* The worker always comes back to the one FIFO channel its commands arrive on,
\* and the watchdog polls for as long as the daemon lives: a poll or a report
\* that stays queued is handled, and the loops inside a handler run on.
WorkerFairness == WF_vars(Rounds) /\ SF_vars(Poll)

\* The reports of boots and pulls are handled in their turn.
ReportFairness ==
  /\ \A s \in Session : SF_vars(SessionBooted(s)) /\ SF_vars(SessionBootFailed(s))
  /\ \A t \in Token : SF_vars(PullFinished(t)) /\ SF_vars(PullExpired(t))

\* Every deadline elapses.
DeadlineFairness ==
  /\ \A s \in Session : SF_vars(BootDeadlineElapses(s))
  /\ \A t \in Token : WF_vars(PullDeadlineElapses(t))

\* The grace and the wait for a release elapse, and a host that refuses a
\* thread to the reaper does not refuse one for ever. No release has to end.
PollFairness ==
  \A s \in Session :
    /\ SF_vars(ReleaseWaitElapses(s)) /\ SF_vars(GraceElapses(s))
    /\ SF_vars(ReapIdleSession(s) /\ sess'[s] = "absent")

\* Worker::shutdown goes on through its phases; each wait ends by its budget.
TeardownFairness == WF_vars(Ending /\ pc \in Teardown)

\* The daemon for as long as it serves.
ServingSpec == Init /\ [][Requests \/ Reports \/ Rounds \/ Threads \/ Time]_vars

PollSpec     == ServingSpec /\ WorkerFairness /\ PollFairness
DeadlineSpec == /\ Spec /\ WorkerFairness /\ ReportFairness /\ DeadlineFairness
                /\ TeardownFairness

\* The client waits for a session to boot, or for its image to be pulled.
AwaitsBootOrPull(c) ==
  \/ \E s \in PendingSessions : reply[s] = c \/ c \in ParkedClients(s)
  \/ \E i \in DOMAIN replay : replay[i].client = c
  \/ \E t \in Token : prov[t].client = c

\* A client waiting for a boot or a pull is answered even if that boot or pull
\* never ends: reap_stuck_boots and the pull's deadline see to it.
ProvisionsAnswered ==
  \A c \in Client : AwaitsBootOrPull(c) ~> ~AwaitsBootOrPull(c)

\* A boot that waits for a releasing slot does not wait for ever, even if no
\* release ever ends: RELEASE_WAIT and the poll's start_deferred_boots.
DeferredBootsEnd ==
  \A s \in Session : sess[s] = "waiting" ~> sess[s] # "waiting"

\* A session that stays installed while nothing uses it is released in the end
\* (reap_idle_sessions), if fewer releases than the limit can hang.
IdleSessionsReleased ==
  \A s \in Session : ~<>[](sess[s] = "ready" /\ ~SessionHold(s))

\* Once asked to, the daemon stops, whatever its threads do.
ShutdownEnds == pc \in Teardown ~> pc = "stopped"
=============================================================================
