----------------------------- MODULE WslcState ------------------------------
(***************************************************************************)
(* The state of the WSLc daemon's session manager: the maps that the       *)
(* single worker thread owns, the threads it starts (one per session boot, *)
(* session release, image pull and exec), the reports these threads queue  *)
(* for the worker, and the virtual machines and SDK handles that really    *)
(* exist behind the bookkeeping.                                           *)
(*                                                                         *)
(* An id (session ref, pull token, sandbox id) is minted fresh by the code *)
(* (a UUID or a counter); here it is any member of its constant set that   *)
(* nothing refers to any more, so that behaviours of every length have     *)
(* finitely many states.                                                   *)
(***************************************************************************)
EXTENDS Naturals, Sequences, FiniteSets, Functions

CONSTANTS Session,      \* session refs
          Client,       \* pipe handlers, each with at most one request open
          Sandbox,      \* sandbox ids
          Token,        \* pull tokens
          SlotCount,    \* store slots 0..SlotCount-1 (the pool has no limit)
          MaxStray,     \* bound: virtual machines that may be left behind
          MaxReleases,  \* MAX_CONCURRENT_RELEASES
          None

ASSUME SlotCountAssumption == SlotCount \in Nat
ASSUME MaxReleasesAssumption == MaxReleases \in Nat \ {0}
ASSUME NoneAssumption == None \notin Session \cup Client \cup Sandbox \cup Nat

Slot == 0 .. SlotCount - 1

VARIABLES
  \* ---- Worker: sessions ----
  sess,       \* a session's entry: in pending_sessions or in sessions
  reply,      \* client whose sender travels with the pending session or release
  parked,     \* PendingSession.parked: provisions waiting for the boot
  earlier,    \* pending sessions requested before this one (PendingSession.requested)
  age,        \* whether `requested` is past the boot deadline
  empty,      \* SessionEntry.empty_since, and whether the grace has elapsed
  default,    \* default_session
  began,      \* release_began, and whether RELEASE_WAIT has elapsed
  returned,   \* returned_slots_unleased
  \* ---- the store slot pool and what is mounted from it ----
  held,       \* StoreSlotPool.leased
  lease,      \* the StoreSlotLease owned by a session's entry or release thread
  vm,         \* the slot a session's boot thread or virtual machine may have open
  stray,      \* slots that a virtual machine nobody owns may have open
  warm,       \* slots some session has used, so that their stores have images
  \* ---- boot and release threads ----
  boot, bootMsg, rel, relMsg,
  \* ---- provisions and pulls ----
  prov, pull, pullMsg, deadline,
  \* ---- containers and execs ----
  cont, handles, exec, run, lingering, execMsg,
  \* ---- the worker's own control ----
  pc, expired, replay, redo, abandon, sdk,
  \* ---- clients ----
  waiting,    \* clients whose oneshot has not been answered
  dropped     \* history: clients whose sender was dropped unanswered

entryVars  == <<sess, reply, parked, earlier, age, empty, default>>
warmVars   == <<began, returned>>
slotVars   == <<held, lease, vm, stray, warm>>
threadVars == <<boot, bootMsg, rel, relMsg>>
provVars   == <<prov, pull, pullMsg, deadline>>
contVars   == <<cont, handles>>
execVars   == <<exec, run, lingering, execMsg>>
loopVars   == <<pc, expired, replay, redo, abandon>>
clientVars == <<waiting, dropped>>

vars == <<entryVars, warmVars, slotVars, threadVars, provVars, contVars,
          execVars, loopVars, sdk, clientVars>>

-----------------------------------------------------------------------------
(* The shapes of the bookkeeping.                                          *)

\* A provision parked behind a boot: who asked, and the session it named.
Request == [client : Client, names : Session \cup {None}]

\* Lifecycle work addressed to one container; an exec never parks.
Work == [op : {"start", "stop", "deprovision"}, client : Client,
         sandbox : Sandbox]

NoProv == [client |-> None, session |-> None]
PendingProvision == [client : Client, session : Session]

NoPull == [session |-> None, at |-> "idle"]
PullThread == [session : Session, at : {"running", "sent"}]

NoCont == [session |-> None, started |-> FALSE, quarantined |-> FALSE,
           retired |-> FALSE]
ContainerEntry == [session : Session, started : BOOLEAN,
                   quarantined : BOOLEAN, retired : BOOLEAN]

NoExec == [client |-> None, session |-> None, parked |-> <<>>]
InFlightExec == [client : Client, session : Session, parked : Seq(Work)]

\* Where the worker is: serving the queue, inside a handler's loop, in one of
\* the phases of shutdown, or gone.
Serving  == {"serve", "reap", "defer", "replay", "redo"}
Teardown == {"drainExecs", "collect", "drainBoots", "collectBoots",
             "drainPulls", "releaseAll", "drainReleases"}

-----------------------------------------------------------------------------
(* What the worker reads.                                                  *)

\* pending_sessions: waiting (no store), booting, abandoned; sessions: ready.
PendingSessions == {s \in Session : sess[s] \in {"waiting", "booting", "abandoned"}}

SessionsInFlight == {s \in Session : boot[s] # "idle"}
ReleasesInFlight == {s \in Session : rel[s] # "idle"}
PullsInFlight(s) == {t \in Token : pull[t].session = s}
ExecsInFlight    == {b \in Sandbox : run[b] # "idle"} \cup lingering

\* Worker::session_hold > 0: a container, a parked provision, an exec or a
\* pull still uses the session.
SessionHold(s) ==
  \/ \E b \in Sandbox : cont[b].session = s
  \/ \E t \in Token : prov[t].session = s
  \/ \E b \in Sandbox : exec[b].session = s
  \/ PullsInFlight(s) # {}

IsBooting(s) == s # None /\ sess[s] \in {"waiting", "booting"}
IsReady(s)   == s # None /\ sess[s] = "ready"

\* Mutant: a release that is stuck is waited for like any other.
ShouldWaitForARelease_NoLimit ==
  /\ returned = 0
  /\ \E s \in Session : began[s] # "none"

\* Worker::should_wait_for_a_release
ShouldWaitForARelease ==
  /\ returned = 0
  /\ \E s \in Session : began[s] = "recent"

-----------------------------------------------------------------------------
(* Ids nothing refers to, free to be minted.                               *)

FreshSession(s) ==
  /\ sess[s] = "absent" /\ s # default
  /\ boot[s] = "idle" /\ bootMsg[s] = "none"
  /\ rel[s] = "idle" /\ relMsg[s] = "none"
  /\ ~SessionHold(s)

FreshToken(t) ==
  prov[t] = NoProv /\ pull[t] = NoPull /\ pullMsg[t] = "none" /\ deadline[t] = "off"

FreshSandbox(b) ==
  /\ cont[b] = NoCont /\ b \notin handles
  /\ exec[b] = NoExec /\ run[b] = "idle" /\ execMsg[b] = "none"
  /\ b \notin lingering

-----------------------------------------------------------------------------
(* Worker::new                                                             *)

Init ==
  /\ sess = [s \in Session |-> "absent"]
  /\ reply = [s \in Session |-> None]
  /\ parked = [s \in Session |-> <<>>]
  /\ earlier = [s \in Session |-> {}]
  /\ age = [s \in Session |-> "young"]
  /\ empty = [s \in Session |-> "no"]
  /\ default = None
  /\ began = [s \in Session |-> "none"]
  /\ returned = 0
  /\ held = {} /\ stray = {} /\ warm = {}
  /\ lease = [s \in Session |-> None]
  /\ vm = [s \in Session |-> None]
  /\ boot = [s \in Session |-> "idle"] /\ bootMsg = [s \in Session |-> "none"]
  /\ rel = [s \in Session |-> "idle"] /\ relMsg = [s \in Session |-> "none"]
  /\ prov = [t \in Token |-> NoProv] /\ pull = [t \in Token |-> NoPull]
  /\ pullMsg = [t \in Token |-> "none"] /\ deadline = [t \in Token |-> "off"]
  /\ cont = [b \in Sandbox |-> NoCont] /\ handles = {}
  /\ exec = [b \in Sandbox |-> NoExec] /\ run = [b \in Sandbox |-> "idle"]
  /\ lingering = {} /\ execMsg = [b \in Sandbox |-> "none"]
  /\ pc = "serve" /\ expired = {} /\ replay = <<>> /\ redo = <<>>
  /\ abandon = FALSE /\ sdk = "none"
  /\ waiting = {} /\ dropped = {}
=============================================================================
