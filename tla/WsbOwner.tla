------------------------------ MODULE WsbOwner ------------------------------
(***************************************************************************)
(* The processes that own the VM: the daemon of a state-aware sandbox and  *)
(* the one-shot runner.  Each takes the host VM mutex, settles what to do  *)
(* about a VM that already runs, puts its record or marker on disk, goes   *)
(* through the shared launch sequence and tears its VM down.               *)
(***************************************************************************)
EXTENDS WsbState

\* In these steps an owner holds the VM mutex.
Holding == {"check", "reclaim", "reclaimPoll", "publish", "launch", "inflight",
            "prove", "rendezvous", "ready", "run", "hold", "down", "kill",
            "killPoll", "exiting"}

Goto(o, step) == pc' = [pc EXCEPT ![o] = step]

\* The process of a daemon ends with its main; a runner only returns, and its
\* process ends when the program that called it does.
Leave(o) ==
  /\ Goto(o, IF o \in Daemon THEN "dead" ELSE "done")
  /\ ownership' = [ownership EXCEPT ![o] = Unlaunched]
  /\ vmLock' = NoOne

\* Mutant: the snapshot is taken whether or not it shows an owned process.
plan_kill_set_Widens(own, snapshot) ==
  CASE own.state = "Owned" -> own.proof \cup snapshot
    [] own.state = "LaunchSucceededNoProof" /\ snapshot # {} -> snapshot
    [] OTHER -> NoOne

\* plan_kill_set, whose None is NoOne here.
plan_kill_set(own, snapshot) ==
  CASE own.state = "Owned" ->
         IF own.proof \cap snapshot # {} THEN own.proof \cup snapshot ELSE own.proof
    [] own.state = "LaunchSucceededNoProof" /\ snapshot # {} -> snapshot
    [] OTHER -> NoOne

-----------------------------------------------------------------------------
(* The VM mutex *)

\* The daemon finds no record of its sandbox, or goes on to the mutex.
ReadSandbox(d) ==
  /\ d \in Daemon /\ pc[d] = "spawned"
  /\ Goto(d, IF Recorded(serves[d]) THEN "lock" ELSE "dead")
  /\ UNCHANGED <<hostVars, vmLock, diskVars, ownership, killSet, serves, stop,
                 streak, phase, ops, faults>>

\* A one-shot run begins.
Run(r) ==
  /\ r \in Runner /\ pc[r] = "unborn"
  /\ Goto(r, "lock")
  /\ UNCHANGED <<hostVars, vmLock, diskVars, ownership, killSet, serves, stop,
                 streak, phase, ops, faults>>

\* Mutant: a timed-out wait is taken for an acquired mutex.
AcquireVm_TimedOut(o) ==
  /\ pc[o] = "lock"
  /\ vmLock' = o
  /\ Goto(o, "check")
  /\ UNCHANGED <<hostVars, diskVars, ownership, killSet, serves, stop, streak,
                 phase, ops, faults>>

\* HostVmLock: a mutex abandoned by a dead holder is acquired all the same.
AcquireVm(o) ==
  /\ pc[o] = "lock" /\ vmLock = NoOne
  /\ vmLock' = o
  /\ Goto(o, "check")
  /\ UNCHANGED <<hostVars, diskVars, ownership, killSet, serves, stop, streak,
                 phase, ops, faults>>

\* The wait for it runs out.
VmBusy(o) ==
  /\ pc[o] = "lock" /\ vmLock # NoOne
  /\ Goto(o, IF o \in Daemon THEN "dead" ELSE "done")
  /\ UNCHANGED <<hostVars, vmLock, diskVars, ownership, killSet, serves, stop,
                 streak, phase, ops, faults>>

-----------------------------------------------------------------------------
(* What to do about a VM that already runs *)

\* The runs whose marker is on disk, and those of them whose process is gone.
Marked == {r \in Runner : marker[r] # NoOne}
DeadMarked == {r \in Marked : ~ Alive(r)}

Cleared(runs) == [r \in Runner |-> IF r \in runs THEN NoOne ELSE marker[r]]

\* What is on disk for an owner to know a VM of mxc by: a daemon goes by the record
\* of the daemon before it, a runner by the markers that name a process of the VM.
PriorProof(o) ==
  IF o \in Daemon THEN daemonRecord.proof
  ELSE UNION {marker[r] : r \in {q \in Marked : marker[q] \cap live # {}}}

\* Another owner is at work: a daemon, or a run whose VM is up.
OtherAtWork(o) ==
  IF o \in Daemon THEN LiveDaemon ELSE live # {} /\ \E r \in Marked : Alive(r)

\* classify_startup of the daemon and classify_reconcile of the runner, when the
\* owner must leave the slot alone: it cannot tell, or cannot prove the VM its own.
Yield(o) ==
  /\ pc[o] = "check"
  /\ \/ Fault
     \/ /\ \/ OtherAtWork(o)
           \/ live # {} /\ PriorProof(o) \cap live = {} /\ o \notin Forcing
        /\ UNCHANGED faults
  /\ Leave(o)
  /\ UNCHANGED <<hostVars, diskVars, killSet, serves, stop, streak, phase, ops>>

\* When no VM runs; a runner clears the markers of dead runs.
Proceed(o) ==
  /\ pc[o] = "check" /\ ~ OtherAtWork(o) /\ live = {}
  /\ Goto(o, "publish")
  /\ marker' = IF o \in Runner THEN Cleared(DeadMarked) ELSE marker
  /\ UNCHANGED <<hostVars, vmLock, daemonRecord, record, ownership, killSet, serves,
                 stop, streak, phase, ops, faults>>

\* When the VM is proven an orphan of mxc, or the owner is told to take any.
TakeOver(o) ==
  /\ pc[o] = "check" /\ ~ OtherAtWork(o) /\ live # {}
  /\ LET proof == IF PriorProof(o) \cap live # {} THEN PriorProof(o) ELSE live
     IN /\ PriorProof(o) \cap live # {} \/ o \in Forcing
        /\ killSet' = [killSet EXCEPT ![o] = plan_kill_set(Owned(proof), live)]
  /\ Goto(o, "reclaim")
  /\ UNCHANGED <<hostVars, vmLock, diskVars, ownership, serves, stop, streak, phase,
                 ops, faults>>

\* The plan is carried out.
Reclaim(o) ==
  /\ pc[o] = "reclaim"
  /\ Terminate(killSet[o])
  /\ killSet' = [killSet EXCEPT ![o] = {}]
  /\ Goto(o, "reclaimPoll")
  /\ UNCHANGED <<vmLock, diskVars, ownership, serves,
                 stop, streak, phase, ops>>

\* Only a VM that is confirmed gone lets the owner go on.
Reclaimed(o) ==
  /\ pc[o] = "reclaimPoll"
  /\ \/ /\ live = {}
        /\ Goto(o, "publish")
        /\ marker' = IF o \in Runner THEN Cleared(DeadMarked) ELSE marker
        /\ UNCHANGED <<vmLock, ownership, faults>>
     \/ /\ Succeeds(live # {})
        /\ Leave(o)
        /\ UNCHANGED marker
  /\ UNCHANGED <<hostVars, daemonRecord, record, killSet, serves, stop,
                 streak, phase, ops>>

-----------------------------------------------------------------------------
(* The launch sequence, launch_managed_vm *)

\* The daemon writes its starting record, the runner its marker and arms the guard.
\* If a write fails the owner gives up; the marker may be on disk by then.
Publish(o) ==
  /\ pc[o] = "publish"
  /\ \E ok \in BOOLEAN :
       /\ Succeeds(ok)
       /\ IF ok THEN Goto(o, "launch") /\ UNCHANGED <<vmLock, ownership>> ELSE Leave(o)
       /\ IF o \in Daemon
          THEN /\ daemonRecord' = IF ~ ok THEN daemonRecord
                    ELSE [NoRecord EXCEPT !.by = o, !.sandbox = serves[o]]
               /\ UNCHANGED marker
          ELSE /\ marker' \in {[marker EXCEPT ![o] = {}]} \cup (IF ok THEN {} ELSE {marker})
               /\ UNCHANGED daemonRecord
  /\ UNCHANGED <<hostVars, record, killSet, serves, stop, streak, phase, ops>>

\* WindowsSandbox.exe is spawned; what comes before it may fail.
Launch(o) ==
  /\ pc[o] = "launch"
  /\ \E ok \in BOOLEAN :
       /\ Succeeds(ok)
       /\ IF ok THEN /\ Goto(o, "inflight")
                     /\ ownership' = [ownership EXCEPT ![o].state = "LaunchInFlight"]
                     /\ child' = [child EXCEPT ![o] = "running"]
                ELSE Goto(o, "down") /\ UNCHANGED <<ownership, child>>
  /\ UNCHANGED <<born, vmBy, midLaunch, live, coming, vmLock, diskVars,
                 killSet, serves, stop, streak, phase, ops>>

\* Its exit status is seen.
Launched(o) ==
  /\ pc[o] = "inflight" /\ child[o] \in {"ok", "failed"}
  /\ IF child[o] = "ok"
     THEN /\ Goto(o, "prove")
          /\ ownership' = [ownership EXCEPT ![o].state = "LaunchSucceededNoProof"]
     ELSE Goto(o, "down") /\ UNCHANGED ownership
  /\ child' = [child EXCEPT ![o] = "none"]
  /\ UNCHANGED <<born, vmBy, midLaunch, live, coming, vmLock, diskVars, killSet, serves,
                 stop, streak, phase, ops, faults>>

\* The record or the marker of an owner is rewritten with its first proof.
WriteProof(o, proof) ==
  IF o \in Daemon
  THEN /\ daemonRecord' = [by |-> o, sandbox |-> serves[o], ready |-> FALSE, proof |-> proof]
       /\ UNCHANGED marker
  ELSE marker' = [marker EXCEPT ![o] = proof] /\ UNCHANGED daemonRecord

\* capture_launch_proof and persist_proof; if the proof cannot be written the
\* launch is given up, if no process shows up it goes on without.
Prove(o) ==
  /\ pc[o] = "prove"
  /\ \/ /\ live # {}
        /\ ownership' = [ownership EXCEPT ![o] = Owned(live)]
        /\ \E ok \in BOOLEAN :
             /\ Succeeds(ok)
             /\ IF ok THEN WriteProof(o, live) /\ Goto(o, "rendezvous")
                      ELSE UNCHANGED <<daemonRecord, marker>> /\ Goto(o, "down")
     \/ /\ Succeeds(live = {})
        /\ Goto(o, "rendezvous")
        /\ UNCHANGED <<ownership, daemonRecord, marker>>
  /\ UNCHANGED <<hostVars, vmLock, record, killSet, serves, stop, streak, phase, ops>>

\* The guest of the owner's VM answers, or it does not in time.
Rendezvous(o) ==
  /\ pc[o] = "rendezvous"
  /\ \/ vmBy = o /\ Goto(o, IF o \in Daemon THEN "ready" ELSE "run")
     \/ Goto(o, "down")
  /\ UNCHANGED <<hostVars, vmLock, diskVars, ownership, killSet, serves, stop, streak,
                 phase, ops, faults>>

\* The run of a one-shot ends, one way or another.
RunEnds(r) ==
  /\ r \in Runner /\ pc[r] = "run"
  /\ Goto(r, "down")
  /\ UNCHANGED <<hostVars, vmLock, diskVars, ownership, killSet, serves, stop, streak,
                 phase, ops, faults>>
=============================================================================
