---------------------------- MODULE WslcDiscovery ----------------------------
(* How phase processes find, spawn and lose the WSLc daemon: the discovery   *)
(* record on disk, the transition lock, DaemonClient::connect, and the start *)
(* and end of the daemon process (bin/wslc_daemon/main.rs). A daemon is its  *)
(* process id together with its creation time, so that an id is taken again  *)
(* only once nothing names it.                                               *)
EXTENDS Naturals, FiniteSets

CONSTANTS Client,       \* phase processes
          OtherBuild,   \* those of an install with another protocol version
          Daemon,       \* daemon processes
          MaxFaults,    \* bound: daemons left starting, and records left behind
          None

ASSUME OtherBuildAssumption == OtherBuild \subseteq Client
ASSUME MaxFaultsAssumption == MaxFaults \in Nat
ASSUME NamesAssumption == None \notin Client \cup Daemon /\ Client \cap Daemon = {}

VARIABLES
  record,   \* daemon.json: the daemon it names, or None
  lock,     \* the holder of the transition mutex
  at,       \* where a client is: "out", "waiting", "looking", "given"
  child,    \* the daemon a looking client has spawned
  given,    \* the daemon of the DaemonClient it was given
  proc,     \* a daemon process: "none", "starting", "serving", "closing",
            \* "removing", "releasing"
  other,    \* daemons of the other build
  used,     \* daemons holding a sandbox that some client comes back for
  faults    \* how often MaxFaults was drawn on

clientVars == <<at, child, given>>
daemonVars == <<proc, other, used>>
vars == <<record, lock, clientVars, daemonVars, faults>>

TypeOK ==
  /\ record \in Daemon \cup {None}
  /\ lock \in Client \cup Daemon \cup {None}
  /\ at \in [Client -> {"out", "waiting", "looking", "given"}]
  /\ child \in [Client -> Daemon \cup {None}]
  /\ given \in [Client -> Daemon \cup {None}]
  /\ proc \in [Daemon -> {"none", "starting", "serving", "closing", "removing", "releasing"}]
  /\ other \subseteq Daemon /\ used \subseteq Daemon
  /\ faults \in 0 .. MaxFaults

Init ==
  /\ record = None /\ lock = None
  /\ at = [c \in Client |-> "out"]
  /\ child = [c \in Client |-> None] /\ given = [c \in Client |-> None]
  /\ proc = [d \in Daemon |-> "none"]
  /\ other = {} /\ used = {} /\ faults = 0

-----------------------------------------------------------------------------
(* Clients.                                                                *)

\* live_daemon: the record counts only while its process runs (daemon_alive).
LiveDaemon == IF record # None /\ proc[record] # "none" THEN record ELSE None

\* DaemonRecord::protocol_compatible
Compatible(c, d) == c \in OtherBuild <=> d \in other

\* ready_daemon. The daemon publishes its record once, with ready set.
ReadyDaemon(c) == LiveDaemon # None /\ Compatible(c, LiveDaemon)

\* TransitionLock::drop, or its holder's end (WAIT_ABANDONED for the next).
Unlocked(p) == IF lock = p THEN None ELSE lock

\* The client leaves with what `d` says it was given.
Leaves(c, where, d) ==
  /\ at' = [at EXCEPT ![c] = where]
  /\ given' = [given EXCEPT ![c] = d]
  /\ child' = [child EXCEPT ![c] = None]
  /\ lock' = Unlocked(c)

\* A daemon that is still starting is left with nobody who waits for it.
LeavesChildStarting(c) == child[c] # None /\ proc[child[c]] = "starting"
CountFault(happened) ==
  /\ happened => faults < MaxFaults
  /\ faults' = IF happened THEN faults + 1 ELSE faults

\* DaemonClient::connect, the fast path.
ConnectFast(c) ==
  /\ at[c] = "out" /\ ReadyDaemon(c)
  /\ Leaves(c, "given", LiveDaemon)
  /\ UNCHANGED <<record, daemonVars, faults>>

\* DaemonClient::connect: there is no ready daemon, so it asks for the lock.
ConnectSlow(c) ==
  /\ at[c] = "out" /\ ~ReadyDaemon(c)
  /\ at' = [at EXCEPT ![c] = "waiting"]
  /\ UNCHANGED <<record, lock, child, given, daemonVars, faults>>

\* Mutant: the lock is not waited for.
Acquire_Unlocked(c) ==
  /\ at[c] = "waiting"
  /\ lock' = c
  /\ at' = [at EXCEPT ![c] = "looking"]
  /\ UNCHANGED <<record, child, given, daemonVars, faults>>

\* TransitionLock::acquire returns the lock.
Acquire(c) ==
  /\ at[c] = "waiting" /\ lock = None
  /\ lock' = c
  /\ at' = [at EXCEPT ![c] = "looking"]
  /\ UNCHANGED <<record, child, given, daemonVars, faults>>

\* TransitionLock::acquire times out (SPAWN_LOCK_TIMEOUT).
AcquireTimesOut(c) ==
  /\ at[c] = "waiting" /\ lock # None
  /\ Leaves(c, "out", None)
  /\ UNCHANGED <<record, daemonVars, faults>>

\* One look of connect's loop at a live daemon: it is taken, or refused if it
\* speaks another protocol.
LookFinds(c) ==
  /\ at[c] = "looking" /\ LiveDaemon # None
  /\ IF Compatible(c, LiveDaemon) THEN Leaves(c, "given", LiveDaemon)
                                  ELSE Leaves(c, "out", None)
  /\ UNCHANGED <<record, daemonVars, faults>>

\* One look that finds none: a daemon is spawned, once.
LookSpawns(c) ==
  /\ at[c] = "looking" /\ LiveDaemon = None /\ child[c] = None
  /\ \E d \in Daemon :
       /\ proc[d] = "none" /\ record # d
       /\ \A x \in Client : d \notin {given[x], child[x]}
       /\ proc' = [proc EXCEPT ![d] = "starting"]
       /\ child' = [child EXCEPT ![c] = d]
       /\ other' = IF c \in OtherBuild THEN other \cup {d} ELSE other \ {d}
  /\ UNCHANGED <<record, lock, at, given, used, faults>>

\* spawn_daemon fails.
SpawnFails(c) ==
  /\ at[c] = "looking" /\ LiveDaemon = None /\ child[c] = None
  /\ Leaves(c, "out", None)
  /\ UNCHANGED <<record, daemonVars, faults>>

\* Mutant: only a daemon that still runs is given up on.
GiveUp_OnTheLiving(c) ==
  /\ at[c] = "looking" /\ LeavesChildStarting(c) /\ LiveDaemon = None
  /\ CountFault(TRUE)
  /\ Leaves(c, "out", None)
  /\ UNCHANGED <<record, daemonVars>>

\* connect's loop reaches READY_TIMEOUT.
GiveUp(c) ==
  /\ at[c] = "looking" /\ child[c] # None /\ LiveDaemon = None
  /\ CountFault(LeavesChildStarting(c))
  /\ Leaves(c, "out", None)
  /\ UNCHANGED <<record, daemonVars>>

\* The phase process is killed, and the mutex it held is abandoned, or the
\* record cannot be read and connect returns the error.
ClientDies(c) ==
  /\ at[c] # "out"
  /\ CountFault(LeavesChildStarting(c))
  /\ Leaves(c, "out", None)
  /\ UNCHANGED <<record, daemonVars>>

\* The phase's request: it leaves a sandbox behind, or deletes the last one.
\* It fails when the daemon no longer listens.
Request(c) ==
  /\ at[c] = "given"
  /\ \/ proc[given[c]] = "serving" /\ used' = used \cup {given[c]}
     \/ proc[given[c]] = "serving" /\ used' = used \ {given[c]}
     \/ proc[given[c]] # "serving" /\ UNCHANGED used
  /\ Leaves(c, "out", None)
  /\ UNCHANGED <<record, proc, other, faults>>

-----------------------------------------------------------------------------
(* The daemon process (run in main.rs).                                    *)

\* The process ends, whatever it was doing.
ProcessGone(d) ==
  /\ proc' = [proc EXCEPT ![d] = "none"]
  /\ used' = used \ {d}
  /\ lock' = Unlocked(d)

\* The pipe is bound and the record written, over any that is there.
Publish(d) ==
  /\ proc[d] = "starting"
  /\ proc' = [proc EXCEPT ![d] = "serving"]
  /\ record' = d
  /\ UNCHANGED <<lock, clientVars, other, used, faults>>

\* control_server::run returns: the daemon was idle, its worker is gone or it
\* can no longer listen.
Close(d) ==
  /\ proc[d] = "serving"
  /\ proc' = [proc EXCEPT ![d] = "closing"]
  /\ UNCHANGED <<record, lock, clientVars, other, used, faults>>

\* The lock for the teardown is acquired, or SHUTDOWN_LOCK_TIMEOUT passes and
\* the teardown goes on without it.
LockTeardown(d) ==
  /\ proc[d] = "closing"
  /\ lock' = IF lock = None THEN d ELSE lock
  /\ proc' = [proc EXCEPT ![d] = "removing"]
  /\ UNCHANGED <<record, clientVars, other, used, faults>>

\* Mutant: the session is released before the record is removed.
RemoveRecord_Late(d) ==
  /\ proc[d] = "removing"
  /\ proc' = [proc EXCEPT ![d] = "releasing"]
  /\ UNCHANGED <<record, lock, clientVars, other, used, faults>>

\* remove_daemon_record, whatever the record names; that it failed is ignored.
RemoveRecord(d) ==
  /\ proc[d] = "removing"
  /\ proc' = [proc EXCEPT ![d] = "releasing"]
  /\ \/ record' = None /\ UNCHANGED faults
     \/ record # None /\ CountFault(TRUE) /\ UNCHANGED record
  /\ UNCHANGED <<lock, clientVars, other, used>>

\* session.shutdown has returned; the lock is dropped and the process exits.
Exit(d) ==
  /\ proc[d] = "releasing"
  /\ ProcessGone(d)
  /\ UNCHANGED <<record, clientVars, other, faults>>

\* The daemon fails to start, or dies.
Crash(d) ==
  /\ proc[d] # "none"
  /\ ProcessGone(d)
  /\ UNCHANGED <<record, clientVars, other, faults>>

Connect(c) ==
  ConnectSlow(c) \/ Acquire(c) \/ AcquireTimesOut(c) \/ LookFinds(c) \/ LookSpawns(c)
  \/ SpawnFails(c) \/ GiveUp(c)
Teardown(d) == LockTeardown(d) \/ RemoveRecord(d) \/ Exit(d)

Next ==
  \/ \E c \in Client : ConnectFast(c) \/ Connect(c) \/ ClientDies(c) \/ Request(c)
  \/ \E d \in Daemon : Publish(d) \/ Close(d) \/ Teardown(d) \/ Crash(d)

Spec == Init /\ [][Next]_vars

\* Every wait of a client is bounded, the mutex is granted or the wait for it
\* times out, and a daemon that starts publishes its record or dies.
Fairness ==
  /\ \A c \in Client :
       /\ WF_vars(Acquire(c) \/ AcquireTimesOut(c))
       /\ WF_vars(LookFinds(c) \/ LookSpawns(c) \/ SpawnFails(c) \/ GiveUp(c))
  /\ \A d \in Daemon : WF_vars(Publish(d)) /\ WF_vars(Teardown(d))
LiveSpec == Spec /\ Fairness

-----------------------------------------------------------------------------
(* Properties.                                                             *)

\* The daemons that a client may be given, now or once they have published.
Running == {d \in Daemon : proc[d] \in {"starting", "serving", "closing", "removing"}}

\* As long as every daemon was waited for until it had published, the lock
\* lets no two run at once, not even when one ends without the lock, and the
\* one that serves is the one the record names.
OneDaemon ==
  faults = 0 =>
    /\ \A d1, d2 \in Running : d1 = d2
    /\ \A d \in Daemon : proc[d] \in {"serving", "closing", "removing"} => record = d

\* No client finds the record of a daemon whose session is being released
\* (the order of the teardown in main.rs), unless the removal failed.
TeardownUnseen ==
  faults = 0 => \A d \in Daemon : proc[d] = "releasing" => record # d

\* A client that waits for the lock or for its daemon comes to an end, also
\* after the holder of the lock has died.
ConnectEnds ==
  \A c \in Client : at[c] \in {"waiting", "looking"} ~> at[c] \in {"out", "given"}

\* A daemon that serves sandboxes is the one the record leads their clients to.
UsedIsRecorded ==
  \A d \in Daemon : proc[d] = "serving" /\ d \in used => record = d
=============================================================================
