---------------------------- MODULE WslcTeardown ----------------------------
(***************************************************************************)
(* The end of the worker: Worker::shutdown and the phases it goes through, *)
(* each waiting for one kind of off-worker thread until its budget runs    *)
(* out, and the path a panic of the worker takes instead.                  *)
(***************************************************************************)
EXTENDS WslcContainers

\* Whatever the worker owns for an execution is answered or refused.
ExecClients(b) == {exec[b].client} \cup {exec[b].parked[i].client : i \in DOMAIN exec[b].parked}

\* WorkerCommand::Shutdown, the beginning of Worker::shutdown: nothing parked
\* behind a pull or a boot will happen any more.
Shutdown ==
  /\ pc = "serve"
  /\ pc' = "drainExecs"
  /\ prov' = [t \in Token |-> NoProv]
  /\ deadline' = [t \in Token |-> IF deadline[t] = "armed" THEN "off" ELSE deadline[t]]
  /\ reply' = [s \in Session |-> IF s \in PendingSessions THEN None ELSE reply[s]]
  /\ parked' = [s \in Session |-> <<>>]
  /\ waiting' = waiting \ ( {prov[t].client : t \in Token}
                           \cup {reply[s] : s \in PendingSessions}
                           \cup UNION {ParkedClients(s) : s \in PendingSessions} )
  /\ UNCHANGED <<sess, earlier, age, empty, default, pull, pullMsg, dropped,
                 expired, replay, redo, abandon>>
  /\ UNCHANGED <<warmVars, slotVars, threadVars, contVars, execVars, sdk>>

\* wait_for_in_flight on the execs: every run has queued its report ...
ExecsDrained ==
  /\ pc = "drainExecs" /\ ExecsInFlight = {}
  /\ pc' = "collect"
  /\ UNCHANGED <<expired, replay, redo, abandon>>
  /\ UNCHANGED <<entryVars, warmVars, slotVars, threadVars, provVars, contVars,
                 execVars, sdk, clientVars>>

\* ... or the budget is spent: everything is leaked under the runs, and the
\* worker stops. Leases are forgotten with their owners.
ExecDrainTimesOut ==
  /\ pc = "drainExecs" /\ ExecsInFlight # {}
  /\ waiting' = waiting \ UNION {ExecClients(b) : b \in Sandbox}
  /\ exec' = [b \in Sandbox |-> NoExec]
  /\ cont' = [b \in Sandbox |-> NoCont]
  /\ sess' = [s \in Session |-> "absent"]
  /\ sdk' = IF sdk = "none" THEN "none" ELSE "leaked"
  /\ pc' = "stopped"
  /\ UNCHANGED <<handles, run, lingering, execMsg, reply, parked, earlier, age,
                 empty, default, dropped, expired, replay, redo, abandon>>
  /\ UNCHANGED <<warmVars, slotVars, threadVars, provVars>>

\* Draining the queue while runs are still unaccounted for: a report ...
CollectExec(b) ==
  /\ pc = "collect" /\ exec[b] # NoExec
  /\ RetireExec(b)
  /\ waiting' = waiting \ ExecClients(b)
  /\ UNCHANGED <<dropped, entryVars, warmVars, slotVars, threadVars, provVars,
                 loopVars, sdk>>

\* Worker::release_booted_during_shutdown, with the report taken off the queue.
ReleaseBootedDuringShutdown(s) ==
  /\ bootMsg[s] # "none"
  /\ bootMsg' = [bootMsg EXCEPT ![s] = "none"]
  /\ RemovePending(s, "absent")
  /\ \/ /\ bootMsg[s] = "up"
        /\ rel' = [rel EXCEPT ![s] = "stopping"]
        /\ UNCHANGED <<slotVars, abandon>>
     \/ /\ bootMsg[s] = "up" /\ StrayBudget
        /\ ForgetLease(s)
        /\ abandon' = TRUE
        /\ UNCHANGED rel
     \/ /\ bootMsg[s] = "failed" /\ DropLease(s) /\ UNCHANGED <<rel, abandon>>
     \/ /\ bootMsg[s] = "stuck" /\ ForgetLease(s) /\ UNCHANGED <<rel, abandon>>
  /\ UNCHANGED <<boot, relMsg, empty, default, pc, expired, replay, redo>>
  /\ UNCHANGED <<warmVars, provVars, contVars, execVars, sdk, clientVars>>

\* ... or a boot that landed meanwhile.
CollectBoot(s) ==
  /\ pc = "collect" /\ \E b \in Sandbox : exec[b] # NoExec
  /\ ReleaseBootedDuringShutdown(s)

\* Mutant: the reports of the drained runs are left in the queue.
CollectDone_SkipsReports ==
  /\ pc = "collect"
  /\ waiting' = waiting \ UNION {ExecClients(b) : b \in Sandbox}
  /\ exec' = [b \in Sandbox |-> NoExec]
  /\ cont' = [b \in Sandbox |-> NoCont]
  /\ handles' = {}
  /\ pc' = "drainBoots"
  /\ UNCHANGED <<run, lingering, execMsg, dropped, expired, replay, redo, abandon>>
  /\ UNCHANGED <<entryVars, warmVars, slotVars, threadVars, provVars, sdk>>

\* No run is left, or the queue is empty: the remaining execs are answered with
\* the shutdown, and containers are stopped, deleted and dropped.
CollectDone ==
  /\ pc = "collect"
  /\ \/ \A b \in Sandbox : exec[b] = NoExec
     \/ /\ \A b \in Sandbox : execMsg[b] = "none"
        /\ \A s \in Session : bootMsg[s] = "none"
  /\ waiting' = waiting \ UNION {ExecClients(b) : b \in Sandbox}
  /\ exec' = [b \in Sandbox |-> NoExec]
  /\ cont' = [b \in Sandbox |-> NoCont]
  /\ handles' = {}
  /\ pc' = "drainBoots"
  /\ UNCHANGED <<run, lingering, execMsg, dropped, expired, replay, redo, abandon>>
  /\ UNCHANGED <<entryVars, warmVars, slotVars, threadVars, provVars, sdk>>

-----------------------------------------------------------------------------
(* Worker::release_sessions_for_shutdown                                   *)

BootsDrained ==
  /\ pc = "drainBoots" /\ SessionsInFlight = {}
  /\ pc' = "collectBoots"
  /\ UNCHANGED <<expired, replay, redo, abandon>>
  /\ UNCHANGED <<entryVars, warmVars, slotVars, threadVars, provVars, contVars,
                 execVars, sdk, clientVars>>

\* A boot still running is about to open the store its lease points at.
BootDrainTimesOut ==
  /\ pc = "drainBoots" /\ SessionsInFlight # {}
  /\ sess' = [s \in Session |-> IF s \in PendingSessions THEN "absent" ELSE sess[s]]
  /\ abandon' = TRUE
  /\ pc' = "drainPulls"
  /\ UNCHANGED <<reply, parked, earlier, age, empty, default, expired, replay, redo>>
  /\ UNCHANGED <<warmVars, slotVars, threadVars, provVars, contVars, execVars,
                 sdk, clientVars>>

CollectLateBoot(s) ==
  /\ pc = "collectBoots"
  /\ ReleaseBootedDuringShutdown(s)

\* Whatever never queued a report has no machine: its entry is cleared.
LateBootsDone ==
  /\ pc = "collectBoots" /\ \A s \in PendingSessions : bootMsg[s] = "none"
  /\ sess' = [s \in Session |-> IF s \in PendingSessions THEN "absent" ELSE sess[s]]
  /\ held' = held \ {lease[s] : s \in PendingSessions}
  /\ lease' = [s \in Session |-> IF s \in PendingSessions THEN None ELSE lease[s]]
  /\ pc' = "drainPulls"
  /\ UNCHANGED <<reply, parked, earlier, age, empty, default, vm, stray, warm,
                 expired, replay, redo, abandon>>
  /\ UNCHANGED <<warmVars, threadVars, provVars, contVars, execVars, sdk, clientVars>>

\* Mutant: the pulls of a session are not waited for.
SessionDrained_IgnoresPulls(s) ==
  /\ pc = "drainPulls" /\ sess[s] = "ready"
  /\ sess' = [sess EXCEPT ![s] = "drained"]
  /\ UNCHANGED abandon
  /\ UNCHANGED <<reply, parked, earlier, age, empty, default, pc, expired, replay, redo>>
  /\ UNCHANGED <<warmVars, slotVars, threadVars, provVars, contVars, execVars,
                 sdk, clientVars>>

\* Each session's pulls are waited for; one whose pulls have not ended when the
\* budget is spent is leaked, its slot with it.
SessionDrained(s) ==
  /\ pc = "drainPulls" /\ sess[s] = "ready"
  /\ \/ /\ PullsInFlight(s) = {}
        /\ sess' = [sess EXCEPT ![s] = "drained"]
        /\ UNCHANGED abandon
     \/ /\ PullsInFlight(s) # {}
        /\ sess' = [sess EXCEPT ![s] = "absent"]
        /\ abandon' = TRUE
  /\ UNCHANGED <<reply, parked, earlier, age, empty, default, pc, expired, replay, redo>>
  /\ UNCHANGED <<warmVars, slotVars, threadVars, provVars, contVars, execVars,
                 sdk, clientVars>>

SessionsDrained ==
  /\ pc = "drainPulls" /\ \A s \in Session : sess[s] # "ready"
  /\ pc' = "releaseAll"
  /\ UNCHANGED <<expired, replay, redo, abandon>>
  /\ UNCHANGED <<entryVars, warmVars, slotVars, threadVars, provVars, contVars,
                 execVars, sdk, clientVars>>

\* Worker::release_during_shutdown
ReleaseDuringShutdown(s) ==
  /\ pc = "releaseAll" /\ sess[s] = "drained"
  /\ sess' = [sess EXCEPT ![s] = "absent"]
  /\ \/ /\ rel' = [rel EXCEPT ![s] = "stopping"]
        /\ UNCHANGED <<slotVars, abandon>>
     \/ /\ StrayBudget /\ ForgetLease(s)
        /\ abandon' = TRUE
        /\ UNCHANGED rel
  /\ UNCHANGED <<reply, parked, earlier, age, empty, default, boot, bootMsg,
                 relMsg, pc, expired, replay, redo>>
  /\ UNCHANGED <<warmVars, provVars, contVars, execVars, sdk, clientVars>>

AllReleasesStarted ==
  /\ pc = "releaseAll" /\ \A s \in Session : sess[s] # "drained"
  /\ pc' = "drainReleases"
  /\ UNCHANGED <<expired, replay, redo, abandon>>
  /\ UNCHANGED <<entryVars, warmVars, slotVars, threadVars, provVars, contVars,
                 execVars, sdk, clientVars>>

\* Mutant: the budget for the releases is not enforced.
UnloadSdk_WaitsForReleases ==
  /\ pc = "drainReleases" /\ ReleasesInFlight = {}
  /\ sdk' = IF sdk = "none" THEN "none"
            ELSE IF abandon \/ ReleasesInFlight # {} THEN "leaked" ELSE "none"
  /\ pc' = "stopped"
  /\ UNCHANGED <<expired, replay, redo, abandon>>
  /\ UNCHANGED <<entryVars, warmVars, slotVars, threadVars, provVars, contVars,
                 execVars, clientVars>>

\* The SDK is unloaded only if nothing was abandoned and every release ended
\* within its own budget; otherwise it is leaked.
UnloadSdk ==
  /\ pc = "drainReleases"
  /\ sdk' = IF sdk = "none" THEN "none"
            ELSE IF abandon \/ ReleasesInFlight # {} THEN "leaked" ELSE "none"
  /\ pc' = "stopped"
  /\ UNCHANGED <<expired, replay, redo, abandon>>
  /\ UNCHANGED <<entryVars, warmVars, slotVars, threadVars, provVars, contVars,
                 execVars, clientVars>>

-----------------------------------------------------------------------------
(* The worker panics and is unwound: Worker::abandon_if_borrowed.          *)

\* Mutant: a boot's report that is still in the queue is overlooked.
Borrowed_IgnoresReports ==
  \/ ExecsInFlight # {} \/ SessionsInFlight # {} \/ ReleasesInFlight # {}
  \/ \E t \in Token : pull[t].at = "running"

\* Whether an off-worker thread may still use a handle, or a queued report
\* may still hold one.
Borrowed ==
  \/ ExecsInFlight # {} \/ SessionsInFlight # {} \/ ReleasesInFlight # {}
  \/ \E t \in Token : pull[t].at = "running"
  \/ PendingSessions # {}

\* Senders the worker holds drop, so their clients see that it is gone; those
\* a release thread holds are still answered.
SendersOfReleases == {reply[s] : s \in ReleasesInFlight}

Unwind ==
  /\ pc \in Serving
  /\ pc' = "gone"
  /\ IF Borrowed
     THEN /\ sdk' = IF sdk = "none" THEN "none" ELSE "leaked"
          /\ UNCHANGED <<slotVars, handles>>
     ELSE /\ sdk' = "none"
          /\ held' = held \ {lease[s] : s \in Session}
          /\ lease' = [s \in Session |-> None]
          /\ vm' = [s \in Session |-> None]
          /\ UNCHANGED <<stray, warm>>
          /\ handles' = {}
  /\ sess' = [s \in Session |-> "absent"]
  /\ reply' = [s \in Session |-> IF s \in ReleasesInFlight THEN reply[s] ELSE None]
  /\ parked' = [s \in Session |-> <<>>]
  /\ prov' = [t \in Token |-> NoProv]
  /\ deadline' = [t \in Token |-> IF deadline[t] = "armed" THEN "off" ELSE deadline[t]]
  /\ exec' = [b \in Sandbox |-> NoExec]
  /\ cont' = [b \in Sandbox |-> NoCont]
  /\ replay' = <<>> /\ redo' = <<>> /\ expired' = {}
  /\ waiting' = waiting \cap SendersOfReleases
  /\ UNCHANGED <<earlier, age, empty, default, warmVars, threadVars, pull, pullMsg,
                 run, lingering, execMsg, abandon, dropped>>
=============================================================================
