---------------------------- MODULE WslcSessions ----------------------------
(***************************************************************************)
(* Sessions of the WSLc daemon: minting and booting one on a thread of its *)
(* own, the store slot it leases, boots that wait for a releasing slot,    *)
(* the release of a session on a thread of its own, and the two reapers    *)
(* that ride on the watchdog's poll.                                       *)
(***************************************************************************)
EXTENDS WslcState

\* Bound: how many virtual machines may be left running with nobody owning them.
StrayBudget ==
  Cardinality(stray) + Cardinality({s \in Session : bootMsg[s] = "stuck"}) < MaxStray

\* The client's oneshot is answered; or it is kept by whatever holds its sender.
Answered(c) == waiting' = waiting \ {c} /\ dropped' = dropped \ {c}
Kept(c)     == waiting' = waiting \cup {c} /\ dropped' = dropped \ {c}

\* Dropping a lease returns its slot to the pool; forgetting it does not, and
\* whatever has the slot mounted is then owned by nobody.
DropLease(s) ==
  /\ held' = held \ {lease[s]}
  /\ lease' = [lease EXCEPT ![s] = None]
  /\ UNCHANGED <<vm, stray, warm>>

ForgetLease(s) ==
  /\ stray' = stray \cup ({lease[s]} \ {None})
  /\ lease' = [lease EXCEPT ![s] = None]
  /\ vm' = [vm EXCEPT ![s] = None]
  /\ UNCHANGED <<held, warm>>

-----------------------------------------------------------------------------
(* Booting a session.                                                      *)

\* Mutant: the count of returned slots is not saturated at zero.
LeaseAndBoot_Underflows(s) ==
  /\ \E k \in Slot \ held :
       /\ \A j \in Slot \ held : k <= j
       /\ held' = held \cup {k}
       /\ lease' = [lease EXCEPT ![s] = k]
       /\ vm' = [vm EXCEPT ![s] = k]
       /\ warm' = warm \cup {k}
  /\ boot' = [boot EXCEPT ![s] = "running"]
  /\ returned' = returned - 1
  /\ sdk' = "loaded"
  /\ UNCHANGED <<stray, bootMsg, rel, relMsg>>

\* Mutant: any free slot is leased, cold ones included.
LeaseAndBoot_AnyFree(s) ==
  /\ \E k \in Slot \ held :
       /\ held' = held \cup {k}
       /\ lease' = [lease EXCEPT ![s] = k]
       /\ vm' = [vm EXCEPT ![s] = k]
       /\ warm' = warm \cup {k}
  /\ boot' = [boot EXCEPT ![s] = "running"]
  /\ returned' = IF returned = 0 THEN 0 ELSE returned - 1
  /\ sdk' = "loaded"
  /\ UNCHANGED <<stray, bootMsg, rel, relMsg>>

\* Worker::lease_and_boot: load the SDK, lease the lowest free slot and start
\* the boot thread, which may open the store from here on.
LeaseAndBoot(s) ==
  /\ \E k \in Slot \ held :
       /\ \A j \in Slot \ held : k <= j
       /\ held' = held \cup {k}
       /\ lease' = [lease EXCEPT ![s] = k]
       /\ vm' = [vm EXCEPT ![s] = k]
       /\ warm' = warm \cup {k}
  /\ boot' = [boot EXCEPT ![s] = "running"]
  /\ returned' = IF returned = 0 THEN 0 ELSE returned - 1
  /\ sdk' = "loaded"
  /\ UNCHANGED <<stray, bootMsg, rel, relMsg>>

\* The SDK does not load, the slot directory cannot be created, or no thread
\* starts; a lease taken on the way is dropped again.
LeaseAndBootFails ==
  /\ sdk' \in {sdk, "loaded"}
  /\ UNCHANGED <<slotVars, threadVars, returned>>

\* Worker::begin_session: a boot waits for a releasing slot or starts at once.
BeginSession(s) ==
  /\ FreshSession(s)
  /\ \/ /\ ShouldWaitForARelease
        /\ sess' = [sess EXCEPT ![s] = "waiting"]
        /\ UNCHANGED <<slotVars, threadVars, returned, sdk>>
     \/ /\ ~ShouldWaitForARelease
        /\ LeaseAndBoot(s)
        /\ sess' = [sess EXCEPT ![s] = "booting"]
  /\ earlier' = [earlier EXCEPT ![s] = PendingSessions]
  /\ age' = [age EXCEPT ![s] = "young"]
  /\ UNCHANGED <<empty, began>>

\* WorkerCommand::ProvisionSession, with attach_session_reply.
ProvisionSession(c) ==
  /\ pc = "serve" /\ c \notin waiting
  /\ \/ \E s \in Session :
          /\ BeginSession(s)
          /\ reply' = [reply EXCEPT ![s] = c]
          /\ Kept(c)
          /\ UNCHANGED <<parked, default>>
     \/ /\ ~ShouldWaitForARelease
        /\ LeaseAndBootFails
        /\ Answered(c)
        /\ UNCHANGED <<entryVars, began>>
  /\ UNCHANGED <<provVars, contVars, execVars, loopVars>>

\* The boot thread's work: the machine came up; or it did not and nothing is
\* left of it; or its store probe failed and it could not be stopped either.
BootFinishes(s, outcome) ==
  /\ boot[s] = "running"
  /\ outcome = "stuck" => StrayBudget
  /\ boot' = [boot EXCEPT ![s] = "sent"]
  /\ bootMsg' = [bootMsg EXCEPT ![s] = outcome]
  /\ vm' = IF outcome = "failed" THEN [vm EXCEPT ![s] = None] ELSE vm
  /\ UNCHANGED <<held, lease, stray, warm, rel, relMsg>>
  /\ UNCHANGED <<entryVars, warmVars, provVars, contVars, execVars, loopVars,
                 sdk, clientVars>>

\* The report is queued before the in-flight count is released.
BootThreadExits(s) ==
  /\ boot[s] = "sent"
  /\ boot' = [boot EXCEPT ![s] = "idle"]
  /\ UNCHANGED <<bootMsg, rel, relMsg>>
  /\ UNCHANGED <<entryVars, warmVars, slotVars, provVars, contVars, execVars,
                 loopVars, sdk, clientVars>>
-----------------------------------------------------------------------------
(* The end of a boot.                                                      *)

ParkedClients(s) == {parked[s][i].client : i \in DOMAIN parked[s]}

\* The pending entry of s leaves the map.
RemovePending(s, entry) ==
  /\ sess' = [sess EXCEPT ![s] = entry]
  /\ reply' = [reply EXCEPT ![s] = None]
  /\ parked' = [parked EXCEPT ![s] = <<>>]
  /\ earlier' = [x \in Session |-> IF x = s THEN {} ELSE earlier[x] \ {s}]
  /\ age' = [age EXCEPT ![s] = "young"]

\* Mutant: the clients parked behind a failed boot are not answered.
FailSession_ForgetsParked(s) ==
  /\ RemovePending(s, "absent")
  /\ default' = IF default = s THEN None ELSE default
  /\ waiting' = waiting \ {reply[s]}
  /\ UNCHANGED <<empty, dropped>>

\* Worker::finish_session for a boot that produced nothing: its id is retired
\* and everybody waiting for it is answered.
FailSession(s) ==
  /\ RemovePending(s, "absent")
  /\ default' = IF default = s THEN None ELSE default
  /\ waiting' = waiting \ ({reply[s]} \cup ParkedClients(s))
  /\ UNCHANGED <<empty, dropped>>

\* Mutant: the slot of a machine that did not stop is returned all the same.
SessionBootFailed_DropsHeldStore(s) ==
  /\ pc = "serve" /\ bootMsg[s] \in {"failed", "stuck"}
  /\ bootMsg' = [bootMsg EXCEPT ![s] = "none"]
  /\ held' = held \ {lease[s]} /\ lease' = [lease EXCEPT ![s] = None]
  /\ vm' = [vm EXCEPT ![s] = None]
  /\ stray' = IF bootMsg[s] = "stuck" THEN stray \cup {lease[s]} ELSE stray
  /\ FailSession(s)
  /\ UNCHANGED <<warm, boot, rel, relMsg>>
  /\ UNCHANGED <<warmVars, provVars, contVars, execVars, loopVars, sdk>>

\* WorkerCommand::SessionBooted with a failure: the slot goes back unless a
\* machine may still have it open.
SessionBootFailed(s) ==
  /\ pc = "serve" /\ bootMsg[s] \in {"failed", "stuck"}
  /\ bootMsg' = [bootMsg EXCEPT ![s] = "none"]
  /\ IF bootMsg[s] = "stuck" THEN ForgetLease(s) ELSE DropLease(s)
  /\ FailSession(s)
  /\ UNCHANGED <<boot, rel, relMsg>>
  /\ UNCHANGED <<warmVars, provVars, contVars, execVars, loopVars, sdk>>

\* WorkerCommand::SessionBooted for a boot its clients were let go of: the
\* machine is released, or left running with its slot held.
SessionBootedAbandoned(s) ==
  /\ pc = "serve" /\ bootMsg[s] = "up" /\ sess[s] = "abandoned"
  /\ bootMsg' = [bootMsg EXCEPT ![s] = "none"]
  /\ RemovePending(s, "absent")
  /\ \/ rel' = [rel EXCEPT ![s] = "stopping"] /\ UNCHANGED slotVars
     \/ StrayBudget /\ ForgetLease(s) /\ UNCHANGED rel
  /\ UNCHANGED <<boot, relMsg, empty, default>>
  /\ UNCHANGED <<warmVars, provVars, contVars, execVars, loopVars, sdk, clientVars>>

\* WorkerCommand::SessionBooted: the session is installed and answered, then
\* the provisions parked behind it are replayed one by one.
SessionBooted(s) ==
  /\ pc = "serve" /\ bootMsg[s] = "up" /\ sess[s] = "booting"
  /\ bootMsg' = [bootMsg EXCEPT ![s] = "none"]
  /\ RemovePending(s, "ready")
  /\ empty' = [empty EXCEPT ![s] = "no"]
  /\ waiting' = waiting \ {reply[s]}
  /\ replay' = parked[s]
  /\ pc' = IF parked[s] = <<>> THEN "serve" ELSE "replay"
  /\ UNCHANGED <<boot, rel, relMsg, default, dropped, expired, redo, abandon>>
  /\ UNCHANGED <<warmVars, slotVars, provVars, contVars, execVars, sdk>>
-----------------------------------------------------------------------------
(* Releasing a session.                                                    *)

\* Worker::release_session_entry when the release thread starts: the entry,
\* the machine and the lease move to the thread.
ReleaseSessionEntry(s, client) ==
  /\ sess' = [sess EXCEPT ![s] = "absent"]
  /\ default' = IF default = s THEN None ELSE default
  /\ empty' = [empty EXCEPT ![s] = "no"]
  /\ rel' = [rel EXCEPT ![s] = "stopping"]
  /\ reply' = [reply EXCEPT ![s] = client]
  /\ began' = [began EXCEPT ![s] = "recent"]
  /\ UNCHANGED <<parked, earlier, age, returned, boot, bootMsg, relMsg>>

\* ... and when none starts: the session is put back, the implicit session's
\* id is not.
ReleaseSessionEntryFails(s) ==
  /\ default' = IF default = s THEN None ELSE default
  /\ UNCHANGED <<sess, reply, parked, earlier, age, empty, warmVars, threadVars>>

\* WorkerCommand::DeprovisionSession. An unknown session, the implicit one and
\* one that is still used are refused, which changes nothing. When no release
\* thread starts, the client's sender is dropped with the thread's closure.
DeprovisionSession(c, s) ==
  /\ pc = "serve" /\ c \notin waiting
  /\ sess[s] = "ready" /\ default # s /\ ~SessionHold(s)
  /\ \/ ReleaseSessionEntry(s, c) /\ Kept(c)
     \/ /\ ReleaseSessionEntryFails(s)
        /\ dropped' = dropped \cup {c} /\ UNCHANGED waiting
  /\ UNCHANGED <<slotVars, provVars, contVars, execVars, loopVars, sdk>>

\* The release thread: the machine stops ...
ReleaseStops(s) ==
  /\ rel[s] = "stopping"
  /\ rel' = [rel EXCEPT ![s] = "stopped"]
  /\ vm' = [vm EXCEPT ![s] = None]
  /\ UNCHANGED <<held, lease, stray, warm, boot, bootMsg, relMsg>>
  /\ UNCHANGED <<entryVars, warmVars, provVars, contVars, execVars, loopVars,
                 sdk, clientVars>>

\* ... and then its slot returns to the pool.
ReleaseReturnsSlot(s) ==
  /\ rel[s] = "stopped"
  /\ rel' = [rel EXCEPT ![s] = "returned"]
  /\ DropLease(s)
  /\ UNCHANGED <<boot, bootMsg, relMsg>>
  /\ UNCHANGED <<entryVars, warmVars, provVars, contVars, execVars, loopVars,
                 sdk, clientVars>>

\* The apartment cannot be entered or the machine does not stop: its slot is
\* never handed out again.
ReleaseFails(s) ==
  /\ rel[s] = "stopping" /\ StrayBudget
  /\ rel' = [rel EXCEPT ![s] = "kept"]
  /\ ForgetLease(s)
  /\ UNCHANGED <<boot, bootMsg, relMsg>>
  /\ UNCHANGED <<entryVars, warmVars, provVars, contVars, execVars, loopVars,
                 sdk, clientVars>>

\* The client is answered and the report queued, then the count is released. A
\* release that shutdown started queues none; nobody would read it.
ReleaseReports(s) ==
  /\ rel[s] \in {"returned", "kept"}
  /\ relMsg' = [relMsg EXCEPT ![s] = rel[s]]
  /\ rel' = [rel EXCEPT ![s] = "sent"]
  /\ waiting' = waiting \ {reply[s]}
  /\ reply' = [reply EXCEPT ![s] = None]
  /\ UNCHANGED <<boot, bootMsg, sess, parked, earlier, age, empty, default, dropped>>
  /\ UNCHANGED <<warmVars, slotVars, provVars, contVars, execVars, loopVars, sdk>>

ReleaseThreadExits(s) ==
  /\ rel[s] = "sent"
  /\ rel' = [rel EXCEPT ![s] = "idle"]
  /\ UNCHANGED <<boot, bootMsg, relMsg>>
  /\ UNCHANGED <<entryVars, warmVars, slotVars, provVars, contVars, execVars,
                 loopVars, sdk, clientVars>>
-----------------------------------------------------------------------------
(* Boots that wait for a releasing slot to come back.                      *)

\* WorkerCommand::SessionReleased: Worker::finish_release.
SessionReleased(s) ==
  /\ pc = "serve" /\ relMsg[s] # "none"
  /\ relMsg' = [relMsg EXCEPT ![s] = "none"]
  /\ began' = [began EXCEPT ![s] = "none"]
  /\ returned' = IF relMsg[s] = "returned" THEN returned + 1 ELSE returned
  /\ pc' = "defer"
  /\ UNCHANGED <<boot, bootMsg, rel, expired, replay, redo, abandon>>
  /\ UNCHANGED <<entryVars, slotVars, provVars, contVars, execVars, sdk, clientVars>>

\* The next boot of start_deferred_boots, in the order they were asked for.
NextDeferred(s) ==
  /\ sess[s] = "waiting"
  /\ \A x \in earlier[s] : sess[x] # "waiting"

\* One round of the loop in Worker::start_deferred_boots_at.
DeferredBoot(s) ==
  /\ pc = "defer" /\ ~ShouldWaitForARelease /\ NextDeferred(s)
  /\ \/ /\ LeaseAndBoot(s)
        /\ sess' = [sess EXCEPT ![s] = "booting"]
        /\ UNCHANGED <<reply, parked, earlier, age, empty, default, clientVars>>
     \/ LeaseAndBootFails /\ FailSession(s)
  /\ UNCHANGED <<began, provVars, contVars, execVars, loopVars>>

DeferredBootsDone ==
  /\ pc = "defer"
  /\ ShouldWaitForARelease \/ \A s \in Session : sess[s] # "waiting"
  /\ pc' = "serve"
  /\ UNCHANGED <<expired, replay, redo, abandon>>
  /\ UNCHANGED <<entryVars, warmVars, slotVars, threadVars, provVars, contVars,
                 execVars, sdk, clientVars>>

-----------------------------------------------------------------------------
(* The watchdog's poll, WorkerCommand::ContainerCount.                     *)

\* Mutant: only boots that wait for a slot are given a deadline.
StuckBoots_OnlyDeferred == {s \in Session : sess[s] = "waiting" /\ age[s] = "old"}

\* Boots past their deadline whose clients are still waiting.
StuckBoots == {s \in Session : sess[s] \in {"waiting", "booting"} /\ age[s] = "old"}

\* Mutant: a stuck boot leaves the map although its thread is still to report.
ReapStuckBoots_DropsEntry ==
  /\ sess' = [s \in Session |->
               IF s \notin StuckBoots THEN sess[s]
               ELSE "absent"]
  /\ reply' = [s \in Session |-> IF s \in StuckBoots THEN None ELSE reply[s]]
  /\ parked' = [s \in Session |-> IF s \in StuckBoots THEN <<>> ELSE parked[s]]
  /\ earlier' = [s \in Session |-> IF s \in StuckBoots THEN {} ELSE earlier[s] \ StuckBoots]
  /\ age' = [s \in Session |-> IF s \in StuckBoots THEN "young" ELSE age[s]]
  /\ default' = IF default \in StuckBoots THEN None ELSE default
  /\ waiting' = waiting \ UNION {{reply[s]} \cup ParkedClients(s) : s \in StuckBoots}
  /\ UNCHANGED dropped

\* Worker::reap_stuck_boots_at: the clients are let go. A boot without a slot
\* has no thread that will report and leaves the map; one with a slot stays.
ReapStuckBoots ==
  /\ sess' = [s \in Session |->
               IF s \notin StuckBoots THEN sess[s]
               ELSE IF lease[s] = None THEN "absent" ELSE "abandoned"]
  /\ reply' = [s \in Session |-> IF s \in StuckBoots THEN None ELSE reply[s]]
  /\ parked' = [s \in Session |-> IF s \in StuckBoots THEN <<>> ELSE parked[s]]
  /\ earlier' = [s \in Session |-> IF s \in StuckBoots THEN {} ELSE earlier[s] \ StuckBoots]
  /\ age' = [s \in Session |-> IF s \in StuckBoots THEN "young" ELSE age[s]]
  /\ default' = IF default \in StuckBoots THEN None ELSE default
  /\ waiting' = waiting \ UNION {{reply[s]} \cup ParkedClients(s) : s \in StuckBoots}
  /\ UNCHANGED dropped

\* Mutant: the grace of a session that never held anything does not start.
Poll_NeverStartsGrace ==
  /\ pc = "serve"
  /\ ReapStuckBoots
  /\ empty' = [s \in Session |->
                IF sess[s] # "ready" \/ SessionHold(s) THEN "no"
                ELSE empty[s]]
  /\ expired' = {s \in Session : sess[s] = "ready" /\ ~SessionHold(s) /\ empty[s] = "past"}
  /\ pc' = "reap"
  /\ UNCHANGED <<replay, redo, abandon>>
  /\ UNCHANGED <<warmVars, slotVars, threadVars, provVars, contVars, execVars, sdk>>

\* Worker::reap_idle_sessions_at, the scan: which sessions hold nothing, since
\* when, and which of them have done so for the whole grace.
Poll ==
  /\ pc = "serve"
  /\ ReapStuckBoots
  /\ empty' = [s \in Session |->
                IF sess[s] # "ready" \/ SessionHold(s) THEN "no"
                ELSE IF empty[s] = "no" THEN "recent" ELSE empty[s]]
  /\ expired' = {s \in Session : sess[s] = "ready" /\ ~SessionHold(s) /\ empty[s] = "past"}
  /\ pc' = "reap"
  /\ UNCHANGED <<replay, redo, abandon>>
  /\ UNCHANGED <<warmVars, slotVars, threadVars, provVars, contVars, execVars, sdk>>

\* One round of its loop over the expired sessions.
ReapIdleSession(s) ==
  /\ pc = "reap" /\ s \in expired
  /\ Cardinality(ReleasesInFlight) < MaxReleases
  /\ expired' = expired \ {s}
  /\ ReleaseSessionEntry(s, None) \/ ReleaseSessionEntryFails(s)
  /\ UNCHANGED <<pc, replay, redo, abandon>>
  /\ UNCHANGED <<slotVars, provVars, contVars, execVars, sdk, clientVars>>

\* The loop ends or breaks; the poll goes on to the deferred boots.
ReapDone ==
  /\ pc = "reap"
  /\ expired = {} \/ Cardinality(ReleasesInFlight) >= MaxReleases
  /\ expired' = {} /\ pc' = "defer"
  /\ UNCHANGED <<replay, redo, abandon>>
  /\ UNCHANGED <<entryVars, warmVars, slotVars, threadVars, provVars, contVars,
                 execVars, sdk, clientVars>>

-----------------------------------------------------------------------------
(* Time. A handler reads the clock once, so it stands still inside one.    *)

\* MXC_WSLC_DAEMON_SESSION_BOOT_SECS since the session was asked for.
BootDeadlineElapses(s) ==
  /\ pc = "serve" /\ sess[s] \in {"waiting", "booting"} /\ age[s] = "young"
  /\ \A x \in earlier[s] : sess[x] \in {"waiting", "booting"} => age[x] = "old"
  /\ age' = [age EXCEPT ![s] = "old"]
  /\ UNCHANGED <<sess, reply, parked, earlier, empty, default>>
  /\ UNCHANGED <<warmVars, slotVars, threadVars, provVars, contVars, execVars,
                 loopVars, sdk, clientVars>>

\* RELEASE_WAIT since the release began.
ReleaseWaitElapses(s) ==
  /\ pc = "serve" /\ began[s] = "recent"
  /\ began' = [began EXCEPT ![s] = "stuck"]
  /\ UNCHANGED returned
  /\ UNCHANGED <<entryVars, slotVars, threadVars, provVars, contVars, execVars,
                 loopVars, sdk, clientVars>>

\* The empty-session grace since the session was first seen holding nothing.
GraceElapses(s) ==
  /\ pc = "serve" /\ empty[s] = "recent"
  /\ empty' = [empty EXCEPT ![s] = "past"]
  /\ UNCHANGED <<sess, reply, parked, earlier, age, default>>
  /\ UNCHANGED <<warmVars, slotVars, threadVars, provVars, contVars, execVars,
                 loopVars, sdk, clientVars>>
=============================================================================
