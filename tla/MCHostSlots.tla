----------------------------- MODULE MCHostSlots -----------------------------
(* What a host has few of, for TLC: the one VM of Windows Sandbox (WsbHost)  *)
(* and the slots of the WSLc store pool (StoreSlots), looked at one by one.  *)
EXTENDS WsbHost, StoreSlots

CONSTANTS d1, d2, r1, r2, s1, s2

VARIABLE part   \* what this behaviour is about

everything == <<part, vars, wsbVars>>

\* Who takes part, which sandboxes there are, and how many VMs, phases and faults.
Cast(who, sandboxes, vms, phases, faulty) ==
  /\ {o \in VmOwner : pc[o] = "unborn"} = who
  /\ record = sandboxes
  /\ born = VmLimit - vms /\ ops = OpLimit - phases /\ faults = FaultLimit - faulty

Only(state) == [s \in Sandbox |-> IF s = s1 THEN state ELSE "gone"]

WsbCast ==
  \/ Cast({d1, d2}, Only("Provisioned"), 2, 2, 1)   \* a daemon reclaims from one before
  \/ Cast({d1, d2}, Only("absent"), 2, 3, 0)        \* start, stop, start again
  \/ Cast({d1}, Only("Provisioned"), 1, 3, 2)       \* a cleanup that fails
  \/ Cast({d1}, [s \in Sandbox |-> IF s = s1 THEN "Started" ELSE "Provisioned"], 2, 2, 0)
  \/ Cast({d1, r2}, Only("Provisioned"), 1, 2, 1)   \* daemon, phases and a run
  \/ Cast({r1, r2}, Only("gone"), 2, 0, 1)          \* two runs

MCInit ==
  /\ part \in {"pool", "vm"}
  /\ Init
  /\ WsbInit /\ IF part = "vm" THEN WsbCast ELSE Cast({}, Only("gone"), 0, 0, 0)

MCNext ==
  /\ UNCHANGED part
  /\ \/ part = "pool" /\ Next /\ UNCHANGED wsbVars
     \/ part = "vm" /\ WsbNext /\ UNCHANGED vars

MCSpec == MCInit /\ [][MCNext]_everything /\ WsbFairness
=============================================================================
