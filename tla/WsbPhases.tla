------------------------------ MODULE WsbPhases ------------------------------
(***************************************************************************)
(* The phases of a state-aware sandbox: each is a process of its own that  *)
(* runs while it holds the transition mutex, so there is one at a time.    *)
(* A phase that returns an error leaves everything as its last step did.   *)
(***************************************************************************)
EXTENDS WsbTeardown

EndPhase == phase' = NoPhase

\* A phase takes the transition mutex for a sandbox that has a record; without one
\* it is refused and changes nothing.  (Daemon bounds the daemons ever spawned.)
Begin(op, s) ==
  /\ phase = NoPhase /\ ops < OpLimit /\ Recorded(s)
  /\ op = "start" => \E d \in Daemon : pc[d] = "unborn"
  /\ ops' = ops + 1
  /\ phase' = [NoPhase EXCEPT !.at = "begin", !.op = op, !.sandbox = s]
  /\ UNCHANGED <<hostVars, vmLock, diskVars, ownerVars, faults>>

\* provision needs no mutex: its id is fresh.
Provision(s) ==
  /\ record[s] = "absent"
  /\ record' = [record EXCEPT ![s] = "Provisioned"]
  /\ UNCHANGED <<hostVars, vmLock, daemonRecord, marker, ownerVars, phase, ops, faults>>

-----------------------------------------------------------------------------
(* start *)

\* Refused with a live daemon; otherwise a daemon is spawned.
StartSandbox ==
  /\ phase.at = "begin" /\ phase.op = "start"
  /\ IF LiveDaemon
     THEN EndPhase /\ UNCHANGED <<pc, serves>>
     ELSE \E d \in Daemon :
            /\ pc[d] = "unborn"
            /\ Goto(d, "spawned")
            /\ serves' = [serves EXCEPT ![d] = phase.sandbox]
            /\ phase' = [phase EXCEPT !.at = "await", !.daemon = d]
  /\ UNCHANGED <<hostVars, vmLock, diskVars, ownership, killSet, stop, streak, ops, faults>>

\* The daemon is ready: the sandbox is recorded as Started, or else the daemon is
\* taken down again.
AwaitReady ==
  /\ phase.at = "await" /\ LiveDaemon
  /\ daemonRecord.by = phase.daemon /\ daemonRecord.ready
  /\ \E ok \in BOOLEAN :
       /\ Succeeds(ok)
       /\ IF ok THEN /\ record' = [record EXCEPT ![phase.sandbox] = "Started"]
                     /\ EndPhase
                ELSE /\ phase' = [phase EXCEPT !.at = "halt"]
                     /\ UNCHANGED record
  /\ UNCHANGED <<hostVars, vmLock, daemonRecord, marker, ownerVars, ops>>

\* The daemon is gone before it was ready, or it cannot be polled.
AwaitFails ==
  /\ phase.at = "await"
  /\ Succeeds(pc[phase.daemon] = "dead")
  /\ EndPhase
  /\ UNCHANGED <<hostVars, vmLock, diskVars, ownerVars, ops>>

\* It takes too long.
AwaitTimeout ==
  /\ phase.at = "await" /\ Alive(phase.daemon) /\ Fault
  /\ phase' = [phase EXCEPT !.at = "halt"]
  /\ UNCHANGED <<hostVars, vmLock, diskVars, ownerVars, ops>>

\* While serve runs the control server takes a STOP, until the first it has taken.
Serving(d) ==
  pc[d] \in {"launch", "inflight", "prove", "rendezvous", "ready", "hold"} /\ d \notin stop

\* stop_spawned_daemon_best_effort: a daemon that has its record out is asked to
\* stop and waited for; in the end its process is killed.
Halt ==
  /\ phase.at = "halt" /\ daemonRecord.by = phase.daemon
  /\ stop' = IF Serving(phase.daemon) THEN stop \cup {phase.daemon} ELSE stop
  /\ phase' = [phase EXCEPT !.at = "halting"]
  /\ UNCHANGED <<hostVars, vmLock, diskVars, pc, ownership, killSet, serves, streak, ops,
                 faults>>

HaltKill ==
  /\ \/ phase.at = "halt" /\ daemonRecord.by # phase.daemon /\ UNCHANGED faults
     \/ phase.at = "halting" /\ Succeeds(pc[phase.daemon] = "dead")
  /\ Die(phase.daemon)
  /\ EndPhase
  /\ UNCHANGED <<hostVars, diskVars, serves, ops>>

-----------------------------------------------------------------------------
(* stop and deprovision *)

\* The phase has done what it came for: stop records a sandbox that was started as
\* Stopped, deprovision removes its directory.
Settled(s) ==
  CASE phase.op = "deprovision" -> "gone"
    [] phase.op = "stop" /\ record[s] = "Started" -> "Stopped"
    [] OTHER -> record[s]

Finish ==
  \E ok \in BOOLEAN :
    /\ Succeeds(ok)
    /\ record' = IF ok THEN [record EXCEPT ![phase.sandbox] = Settled(phase.sandbox)]
                 ELSE record
    /\ EndPhase

\* stop of a stopped sandbox is refused at once.
Stopping ==
  /\ phase.at = "begin" /\ phase.op # "start"
  /\ phase.op = "stop" => record[phase.sandbox] # "Stopped"

\* A stopped sandbox is not stopped again; a sandbox recorded as Started while the
\* daemon of another is alive is refused as contradictory.
StopRefused ==
  /\ phase.at = "begin" /\ phase.op # "start"
  /\ \/ ~ Stopping
     \/ /\ record[phase.sandbox] = "Started"
        /\ LiveDaemon /\ daemonRecord.sandbox # phase.sandbox
  /\ EndPhase
  /\ UNCHANGED <<hostVars, vmLock, diskVars, ownerVars, ops, faults>>

\* A sandbox that is not Started has nothing to reap unless the record names it.
NothingToReap ==
  /\ Stopping /\ record[phase.sandbox] # "Started"
  /\ daemonRecord.sandbox # phase.sandbox
  /\ Finish
  /\ UNCHANGED <<hostVars, vmLock, daemonRecord, marker, ownerVars, ops>>

\* Mutant: the control server answers the STOP and does not signal it.
SendStop_Unsignalled ==
  /\ Stopping /\ LiveDaemon /\ daemonRecord.sandbox = phase.sandbox
  /\ phase' = IF Serving(daemonRecord.by)
              THEN [phase EXCEPT !.at = "stopping", !.daemon = daemonRecord.by]
              ELSE NoPhase
  /\ UNCHANGED <<hostVars, vmLock, diskVars, ownerVars, ops, faults>>

\* The daemon of this sandbox is alive: the control server takes the STOP, whose
\* answer may be lost, or the connection fails.
SendStop ==
  /\ Stopping /\ LiveDaemon /\ daemonRecord.sandbox = phase.sandbox
  /\ LET d == daemonRecord.by
     IN IF Serving(d)
        THEN \E ok \in BOOLEAN :
               /\ Succeeds(ok)
               /\ stop' = stop \cup {d}
               /\ phase' = IF ok THEN [phase EXCEPT !.at = "stopping", !.daemon = d]
                           ELSE NoPhase
        ELSE EndPhase /\ UNCHANGED <<stop, faults>>
  /\ UNCHANGED <<hostVars, vmLock, diskVars, pc, ownership, killSet, serves, streak, ops>>

\* wait_daemon_gone: the daemon is gone, or the phase gives up.
DaemonGone ==
  /\ phase.at = "stopping"
  /\ Succeeds(pc[phase.daemon] = "dead")
  /\ phase' = IF pc[phase.daemon] = "dead" THEN [phase EXCEPT !.at = "forget"] ELSE NoPhase
  /\ UNCHANGED <<hostVars, vmLock, diskVars, ownerVars, ops>>

\* remove_daemon_record
ForgetDaemon ==
  /\ phase.at = "forget"
  /\ daemonRecord' = NoRecord
  /\ Finish
  /\ UNCHANGED <<hostVars, vmLock, marker, ownerVars, ops>>

-----------------------------------------------------------------------------
(* cleanup_stale_daemon_orphan: the daemon of the sandbox is dead *)

Stale ==
  /\ Stopping /\ ~ LiveDaemon
  /\ record[phase.sandbox] = "Started" \/ daemonRecord.sandbox = phase.sandbox

\* The record is of another sandbox, the probe fails, or the VM is not proven ours.
CleanupRefused ==
  /\ Stale
  /\ \/ Fault
     \/ /\ \/ daemonRecord.sandbox \notin {NoOne, phase.sandbox}
           \/ live # {} /\ daemonRecord.proof \cap live = {}
        /\ UNCHANGED faults
  /\ EndPhase
  /\ UNCHANGED <<hostVars, vmLock, diskVars, ownerVars, ops>>

\* No VM runs, or the proof of the record finds it.
CleanupBegins ==
  /\ Stale /\ daemonRecord.sandbox \in {NoOne, phase.sandbox}
  /\ \/ live = {} /\ daemonRecord' = NoRecord /\ Finish
     \/ /\ daemonRecord.proof \cap live # {}
        /\ phase' = [phase EXCEPT !.at = "cleanup", !.proof = daemonRecord.proof]
        /\ UNCHANGED <<daemonRecord, record, faults>>
  /\ UNCHANGED <<hostVars, vmLock, marker, ownerVars, ops>>

\* With the VM mutex the plan is made from a fresh look; without it the phase fails.
CleanupLocks ==
  /\ phase.at = "cleanup"
  /\ \/ /\ vmLock = NoOne
        /\ vmLock' = Phase
        /\ \E ok \in BOOLEAN :
             /\ Succeeds(ok)
             /\ killSet' = [killSet EXCEPT ![Phase] =
                             plan_kill_set(Owned(phase.proof), IF ok THEN live ELSE {})]
        /\ phase' = [phase EXCEPT !.at = "cleaning", !.proof = {}]
     \/ vmLock # NoOne /\ EndPhase /\ UNCHANGED <<vmLock, killSet, faults>>
  /\ UNCHANGED <<hostVars, diskVars, pc, ownership, serves, stop, streak, ops>>

CleanupKills ==
  /\ phase.at = "cleaning"
  /\ Terminate(killSet[Phase])
  /\ killSet' = [killSet EXCEPT ![Phase] = {}]
  /\ phase' = [phase EXCEPT !.at = "cleaned"]
  /\ UNCHANGED <<vmLock, diskVars, pc, ownership, serves, stop, streak, ops>>

CleanupEnds ==
  /\ phase.at = "cleaned"
  /\ \/ live = {} /\ daemonRecord' = NoRecord /\ Finish
     \/ Succeeds(live # {}) /\ EndPhase /\ UNCHANGED <<daemonRecord, record>>
  /\ vmLock' = NoOne
  /\ UNCHANGED <<hostVars, marker, ownerVars, ops>>

\* A phase process is killed.
PhaseCrash ==
  /\ phase # NoPhase /\ Fault
  /\ EndPhase
  /\ vmLock' = IF vmLock = Phase THEN NoOne ELSE vmLock
  /\ killSet' = [killSet EXCEPT ![Phase] = {}]
  /\ UNCHANGED <<hostVars, diskVars, pc, ownership, serves, stop, streak, ops>>
=============================================================================
