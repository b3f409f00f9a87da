----------------------------- MODULE WsbTeardown -----------------------------
(***************************************************************************)
(* How the daemon holds its VM (serve, with the crash watchdog), and how   *)
(* daemon and runner tear theirs down, die or are interrupted.             *)
(***************************************************************************)
EXTENDS WsbOwner

CONSTANT VM_WATCHDOG_GONE_CONFIRMATIONS

\* The guest is connected: the proof is refreshed if the VM shows any process, and
\* the record says ready.
Ready(d) ==
  /\ d \in Daemon /\ pc[d] = "ready"
  /\ \E seen, written \in BOOLEAN :
       LET found == IF seen THEN live ELSE {}
       IN /\ Succeeds(seen /\ written)
          /\ ownership' = IF found = {} THEN ownership
                          ELSE [ownership EXCEPT ![d] = Owned(found)]
          /\ daemonRecord' = IF ~ written THEN daemonRecord
                             ELSE [by |-> d, sandbox |-> serves[d], ready |-> TRUE,
                                   proof |-> ownership'[d].proof]
          /\ Goto(d, IF written THEN "hold" ELSE "down")
  /\ UNCHANGED <<hostVars, vmLock, marker, record, killSet, serves, stop, streak, phase, ops>>

\* Mutant: any sandbox process of the host counts for the VM.
Gone_AnyVm(owned) == live = {}

\* advance_watchdog_streak
Gone(owned) == IF owned = {} THEN live = {} ELSE owned \cap live = {}

\* One poll of vm_crash_watchdog; a failed probe starts the count again.
Watch(d) ==
  /\ d \in Daemon /\ pc[d] = "hold"
  /\ \E ok \in BOOLEAN :
       LET n == IF ok /\ Gone(ownership[d].proof) THEN streak[d] + 1 ELSE 0
       IN /\ Succeeds(ok)
          /\ n # streak[d]
          /\ IF n >= VM_WATCHDOG_GONE_CONFIRMATIONS
             THEN Goto(d, "down") /\ streak' = [streak EXCEPT ![d] = 0]
             ELSE streak' = [streak EXCEPT ![d] = n] /\ UNCHANGED pc
  /\ UNCHANGED <<hostVars, vmLock, diskVars, ownership, killSet, serves, stop, phase, ops>>

\* Mutant: STOP is heard during the boot only.
StopServing_Boot(d) ==
  /\ d \in stop /\ pc[d] \in {"launch", "inflight", "prove", "rendezvous"}
  /\ Goto(d, "down")
  /\ UNCHANGED <<hostVars, vmLock, diskVars, ownership, killSet, serves, stop, streak,
                 phase, ops, faults>>

\* STOP ends serve: during the boot at one of its awaits, later at once.
StopServing(d) ==
  /\ d \in stop /\ pc[d] \in {"launch", "inflight", "prove", "rendezvous", "hold"}
  /\ Goto(d, "down")
  /\ streak' = [streak EXCEPT ![d] = 0]
  /\ UNCHANGED <<hostVars, vmLock, diskVars, ownership, killSet, serves, stop, phase, ops,
                 faults>>

-----------------------------------------------------------------------------
(* The end of main and OneShotTeardown::full *)

\* The record of the daemon or the marker of the runner is removed.
Clear(o) ==
  IF o \in Daemon THEN daemonRecord' = NoRecord /\ UNCHANGED marker
                  ELSE marker' = Cleared({o}) /\ UNCHANGED daemonRecord

\* The owner looks at what runs and plans from what it owns.  Without a plan a
\* daemon clears its record; a runner whose launch is in flight keeps its marker.
Down(o) ==
  /\ pc[o] = "down"
  /\ \E ok \in BOOLEAN :
       LET plan == plan_kill_set(ownership[o], IF ok THEN live ELSE {})
       IN /\ Succeeds(ok)
          /\ IF plan = NoOne
             THEN /\ Goto(o, "exiting")
                  /\ IF o \in Runner /\ ownership[o].state = "LaunchInFlight"
                     THEN UNCHANGED <<daemonRecord, marker>> ELSE Clear(o)
                  /\ UNCHANGED killSet
             ELSE /\ killSet' = [killSet EXCEPT ![o] = plan]
                  /\ Goto(o, "kill")
                  /\ UNCHANGED <<daemonRecord, marker>>
  /\ UNCHANGED <<hostVars, vmLock, record, ownership, serves, stop, streak, phase, ops>>

Kill(o) ==
  /\ pc[o] = "kill"
  /\ Terminate(killSet[o])
  /\ killSet' = [killSet EXCEPT ![o] = {}]
  /\ Goto(o, "killPoll")
  /\ UNCHANGED <<vmLock, diskVars, ownership, serves, stop,
                 streak, phase, ops>>

\* Mutant: record and marker go once the plan was carried out.
KillConfirmed_Unconfirmed(o) ==
  /\ pc[o] = "killPoll"
  /\ Clear(o)
  /\ Goto(o, "exiting")
  /\ UNCHANGED <<hostVars, vmLock, record, ownership, killSet, serves, stop, streak,
                 phase, ops, faults>>

\* Record or marker go only once the VM is confirmed gone; if it still runs at the
\* deadline, or the probe fails, they stay for the next owner to reclaim by.
KillConfirmed(o) ==
  /\ pc[o] = "killPoll"
  /\ \/ live = {} /\ Clear(o) /\ UNCHANGED faults
     \/ Succeeds(live # {}) /\ UNCHANGED <<daemonRecord, marker>>
  /\ Goto(o, "exiting")
  /\ UNCHANGED <<hostVars, vmLock, record, ownership, killSet, serves, stop, streak,
                 phase, ops>>

\* The mutex is released; a daemon is gone with that, a runner has returned.
Exit(o) ==
  /\ pc[o] = "exiting"
  /\ Leave(o)
  /\ stop' = stop \ {o}
  /\ UNCHANGED <<hostVars, diskVars, killSet, serves, streak, phase, ops, faults>>

\* The process of a runner ends.
Quit(r) ==
  /\ r \in Runner /\ pc[r] = "done"
  /\ Goto(r, "dead")
  /\ UNCHANGED <<hostVars, vmLock, diskVars, ownership, killSet, serves, stop, streak,
                 phase, ops, faults>>

\* An owner dies where it stands; the system abandons its mutex.
Die(o) ==
  /\ Goto(o, "dead")
  /\ ownership' = [ownership EXCEPT ![o] = Unlaunched]
  /\ killSet' = [killSet EXCEPT ![o] = {}]
  /\ streak' = [streak EXCEPT ![o] = 0]
  /\ stop' = stop \ {o}
  /\ vmLock' = IF vmLock = o THEN NoOne ELSE vmLock

Crash(o) ==
  /\ Alive(o) /\ Fault
  /\ Die(o)
  /\ UNCHANGED <<hostVars, diskVars, serves, phase, ops>>

\* Ctrl-C at a runner: wsb_ctrl_handler takes the parked teardown, terminates by
\* its plan without waiting, and the process ends with the marker left on disk.
Armed == {"launch", "inflight", "prove", "rendezvous", "run"}
CtrlC(r) ==
  /\ r \in Runner /\ pc[r] \in Armed
  /\ \E snapshot \in {live, {}} :
       LET plan == plan_kill_set(ownership[r], snapshot)
       IN Terminate(IF plan = NoOne THEN {} ELSE plan)
  /\ Die(r)
  /\ UNCHANGED <<diskVars, serves, phase, ops>>
=============================================================================
