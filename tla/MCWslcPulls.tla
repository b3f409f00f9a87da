----------------------------- MODULE MCWslcPulls -----------------------------
(* WslcWorker for TLC with a container, in two casts: clients and pulls in one *)
(* session from the start, or a daemon that was told to stop while a container *)
(* of s1 has a run in progress and s2 boots.                                   *)
EXTENDS WslcWorker, TLC

CONSTANTS s1, s2

Symmetry == Permutations(Client) \cup Permutations(Token)

\* The values of s1 and s2.
Both(x, y) == [s \in Session |-> IF s = s1 THEN x ELSE y]

\* A state the worker comes to by Shutdown, with a run that c asked for.
Stopping(c) ==
  /\ sess = Both("ready", "booting") /\ reply = Both(None, None)
  /\ parked = Both(<<>>, <<>>) /\ earlier = Both({}, {}) /\ age = Both("young", "young")
  /\ empty = Both("no", "no") /\ default = None
  /\ began = Both("none", "none") /\ returned = 0
  /\ held = {0, 1} /\ lease = Both(0, 1) /\ vm = Both(0, 1) /\ stray = {} /\ warm = {0, 1}
  /\ boot = Both("idle", "running") /\ bootMsg = Both("none", "none")
  /\ rel = Both("idle", "idle") /\ relMsg = Both("none", "none")
  /\ prov = [t \in Token |-> NoProv] /\ pull = [t \in Token |-> NoPull]
  /\ pullMsg = [t \in Token |-> "none"] /\ deadline = [t \in Token |-> "off"]
  /\ cont = [b \in Sandbox |-> [NoCont EXCEPT !.session = s1, !.started = TRUE]]
  /\ handles = Sandbox
  /\ exec = [b \in Sandbox |-> [client |-> c, session |-> s1, parked |-> <<>>]]
  /\ run = [b \in Sandbox |-> "running"] /\ lingering = {}
  /\ execMsg = [b \in Sandbox |-> "none"]
  /\ pc = "drainExecs" /\ expired = {} /\ replay = <<>> /\ redo = <<>>
  /\ abandon = FALSE /\ sdk = "loaded"
  /\ waiting = {c} /\ dropped = {}

MCInit == Init \/ \E c \in Client : Stopping(c)

MCNext ==
  \/ Requests /\ sess'[s2] = "absent"
  \/ Reports \/ Rounds \/ Threads \/ Time \/ Ending

MCSpec == MCInit /\ [][MCNext]_vars
=============================================================================
