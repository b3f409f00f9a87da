--------------------------- MODULE Clients_proofs ----------------------------
(***************************************************************************)
(* What the clients of the two daemons are promised, for any number of     *)
(* them: of WSLc, that the record leads to the one daemon there is, and    *)
(* never to one that is being torn down (DInv); of Windows Sandbox, that   *)
(* an exec gets a clean connection to the guest and the result of its own  *)
(* script (RelayInv).  The two have nothing in common but this module.     *)
(***************************************************************************)
EXTENDS WslcDiscovery, WsbExec, TLAPS

-----------------------------------------------------------------------------
(* Discovery of the WSLc daemon.                                           *)

\* Most leaves are set reasoning for Zenon; the others name SMT.
USE Zenon

Published == {"serving", "closing", "removing"}

\* Who looks for a daemon holds the lock, and only they may have spawned one;
\* who was given a client was given a daemon.
LockInv ==
  \A c \in Client :
    /\ at[c] = "looking" => lock = c
    /\ child[c] # None => at[c] = "looking"
    /\ at[c] = "given" => given[c] # None

\* As long as no fault has happened: a daemon that starts has its spawner still
\* looking and no published daemon beside it, and a published one is recorded.
RecordInv ==
  faults = 0 => \A d \in Daemon :
    /\ proc[d] = "starting" =>
         /\ record # d
         /\ \E c \in Client : child[c] = d
         /\ \A e \in Daemon : proc[e] \notin Published
    /\ proc[d] \in Published => record = d
    /\ proc[d] = "releasing" => record # d

DInv == TypeOK /\ LockInv /\ RecordInv

\* The invariant gives both properties.
LEMMA DInvImplies == DInv => OneDaemon /\ TeardownUnseen
<1> SUFFICES ASSUME DInv PROVE OneDaemon /\ TeardownUnseen
  OBVIOUS
<1>1. TeardownUnseen
  BY DEF DInv, RecordInv, TeardownUnseen
<1>2. ASSUME faults = 0, NEW d1 \in Running, NEW d2 \in Running PROVE d1 = d2
  <2>1. CASE proc[d1] = "starting" /\ proc[d2] = "starting"
    <3>1. PICK c1 \in Client : child[c1] = d1
      BY <1>2, <2>1 DEF DInv, RecordInv, Running
    <3>2. PICK c2 \in Client : child[c2] = d2
      BY SMT, <1>2, <2>1 DEF DInv, RecordInv, Running
    <3>3. lock = c1 /\ lock = c2
      BY SMT, <3>1, <3>2, NamesAssumption DEF DInv, LockInv, Running
    <3> QED BY <3>1, <3>2, <3>3
  <2>2. CASE proc[d1] \in Published /\ proc[d2] \in Published
    BY <1>2, <2>2 DEF DInv, RecordInv, Running
  <2>3. CASE proc[d1] = "starting" /\ proc[d2] \in Published
    BY <1>2, <2>3 DEF DInv, RecordInv, Running
  <2>4. CASE proc[d1] \in Published /\ proc[d2] = "starting"
    BY <1>2, <2>4 DEF DInv, RecordInv, Running
  <2> QED BY <2>1, <2>2, <2>3, <2>4 DEF Running, Published
<1>3. ASSUME faults = 0, NEW d \in Daemon, proc[d] \in Published PROVE record = d
  BY <1>3 DEF DInv, RecordInv
<1> QED BY <1>1, <1>2, <1>3 DEF OneDaemon, Published

\* While a client waits for the daemon it spawned, and nothing has gone wrong,
\* there is no live daemon to find.
LEMMA NothingLiveBesideChild ==
  ASSUME DInv, faults = 0, NEW c \in Client, child[c] # None, proc[child[c]] = "starting"
  PROVE  LiveDaemon = None
<1>1. child[c] \in Daemon
  BY SMT DEF DInv, TypeOK
<1>2. \A e \in Daemon : proc[e] \notin Published
  BY <1>1 DEF DInv, RecordInv
<1>3. ASSUME record # None PROVE proc[record] = "none"
  <2>1. record \in Daemon
    BY <1>3 DEF DInv, TypeOK
  <2>2. proc[record] # "starting" /\ proc[record] # "releasing"
    BY <2>1 DEF DInv, RecordInv
  <2> QED BY <1>2, <2>1, <2>2 DEF DInv, TypeOK, Published
<1> QED BY <1>3 DEF LiveDaemon

\* A client that leaves without leaving a starting daemon behind.
LEMMA LeavesKeeps ==
  ASSUME DInv, NEW c \in Client, NEW where \in {"out", "given"}, NEW d \in Daemon \cup {None},
         Leaves(c, where, d), where = "given" => d # None, faults' \in 0 .. MaxFaults, faults \in Nat,
         faults' = 0 => faults = 0 /\ ~LeavesChildStarting(c),
         UNCHANGED <<record, proc, other>>, used' \subseteq Daemon
  PROVE  DInv'
<1>1. TypeOK'
  BY DEF DInv, TypeOK, Leaves, Unlocked
<1>2. LockInv'
  <2> SUFFICES ASSUME NEW x \in Client
               PROVE  /\ at'[x] = "looking" => lock' = x
                      /\ child'[x] # None => at'[x] = "looking"
                      /\ at'[x] = "given" => given'[x] # None
    BY DEF LockInv
  <2>1. CASE x = c
    BY <2>1 DEF DInv, TypeOK, Leaves
  <2>2. CASE x # c
    BY <2>2 DEF DInv, TypeOK, LockInv, Leaves, Unlocked
  <2> QED BY <2>1, <2>2
<1>3. RecordInv'
  <2> SUFFICES ASSUME faults' = 0, NEW e \in Daemon, proc[e] = "starting"
               PROVE  \E x \in Client : child'[x] = e
    BY DEF DInv, RecordInv
  <2>1. PICK x \in Client : child[x] = e
    BY DEF DInv, RecordInv
  <2>2. x # c
    BY <2>1, NamesAssumption DEF LeavesChildStarting
  <2> QED BY <2>1, <2>2 DEF DInv, TypeOK, Leaves
<1> QED BY <1>1, <1>2, <1>3 DEF DInv

\* The steps of a client keep the invariant.
LEMMA ClientStep ==
  ASSUME DInv, NEW c \in Client,
         ConnectFast(c) \/ Connect(c) \/ ClientDies(c) \/ Request(c)
  PROVE  DInv'
<1> USE DEF clientVars, daemonVars
<1>0. faults \in 0 .. MaxFaults /\ faults \in Nat /\ LiveDaemon \in Daemon \cup {None}
      /\ used \subseteq Daemon /\ given[c] \in Daemon \cup {None}
  BY SMT, MaxFaultsAssumption DEF DInv, TypeOK, LiveDaemon
<1>1. ASSUME at[c] # "looking" PROVE ~LeavesChildStarting(c)
  BY <1>1 DEF DInv, LockInv, LeavesChildStarting
<1>2. CASE ConnectFast(c)
  BY <1>0, <1>1, <1>2, LeavesKeeps DEF ConnectFast, ReadyDaemon
<1>3. CASE ConnectSlow(c)
  <2>1. TypeOK' BY <1>3 DEF DInv, TypeOK, ConnectSlow
  <2>2. LockInv' BY SMT, <1>3 DEF DInv, TypeOK, LockInv, ConnectSlow
  <2>3. RecordInv' BY <1>3 DEF DInv, RecordInv, ConnectSlow
  <2> QED BY <2>1, <2>2, <2>3 DEF DInv
<1>4. CASE Acquire(c)
  <2>1. TypeOK' BY <1>4 DEF DInv, TypeOK, Acquire
  <2>2. LockInv' BY <1>4, NamesAssumption DEF DInv, TypeOK, LockInv, Acquire
  <2>3. RecordInv' BY <1>4 DEF DInv, RecordInv, Acquire
  <2> QED BY SMT, <2>1, <2>2, <2>3 DEF DInv
<1>5. CASE AcquireTimesOut(c)
  BY <1>0, <1>1, <1>5, LeavesKeeps DEF AcquireTimesOut
<1>6. CASE LookFinds(c)
  <2>1. faults = 0 => ~LeavesChildStarting(c)
    BY <1>6, NothingLiveBesideChild DEF LookFinds, LeavesChildStarting
  <2> QED BY <1>0, <1>6, <2>1, LeavesKeeps DEF LookFinds
<1>7. CASE LookSpawns(c)
  <2>1. PICK d \in Daemon :
          /\ proc[d] = "none" /\ record # d
          /\ proc' = [proc EXCEPT ![d] = "starting"]
          /\ child' = [child EXCEPT ![c] = d]
    BY <1>7 DEF LookSpawns
  <2>2. TypeOK' BY <1>7, <2>1 DEF DInv, TypeOK, LookSpawns
  <2>3. LockInv' BY <1>7, <2>1 DEF DInv, TypeOK, LockInv, LookSpawns
  <2>4. RecordInv'
    <3> SUFFICES ASSUME faults = 0 PROVE RecordInv'
      BY <1>7 DEF RecordInv, LookSpawns
    <3>1. \A e \in Daemon : proc[e] \notin Published
      BY <1>7, NamesAssumption DEF LookSpawns, LiveDaemon, DInv, RecordInv, Published
    <3>2. \A e \in Daemon : proc[e] # "starting"
      <4> SUFFICES ASSUME NEW e \in Daemon, proc[e] = "starting" PROVE FALSE
        OBVIOUS
      <4>1. PICK x \in Client : child[x] = e
        BY DEF DInv, RecordInv
      <4>2. lock = x /\ lock = c
        BY <1>7, <4>1, NamesAssumption DEF DInv, LockInv, LookSpawns
      <4> QED BY <1>7, <4>1, <4>2, NamesAssumption DEF LookSpawns
    <3>3. child'[c] = d /\ record' = record
      BY <1>7, <2>1 DEF DInv, TypeOK, LookSpawns
    <3>4. \A e \in Daemon : proc'[e] = IF e = d THEN "starting" ELSE proc[e]
      BY <2>1 DEF DInv, TypeOK
    <3> QED BY SMT, <2>1, <3>1, <3>2, <3>3, <3>4 DEF DInv, RecordInv, Published
  <2> QED BY <2>2, <2>3, <2>4 DEF DInv
<1>8. CASE SpawnFails(c)
  BY <1>0, <1>8, LeavesKeeps DEF SpawnFails, LeavesChildStarting
<1>9. CASE GiveUp(c)
  <2>1. faults' \in 0 .. MaxFaults /\ (faults' = 0 => faults = 0 /\ ~LeavesChildStarting(c))
    BY SMT, <1>0, <1>9, MaxFaultsAssumption DEF GiveUp, CountFault
  <2> QED BY <1>0, <1>9, <2>1, LeavesKeeps DEF GiveUp
<1>10. CASE ClientDies(c)
  <2>1. faults' \in 0 .. MaxFaults /\ (faults' = 0 => faults = 0 /\ ~LeavesChildStarting(c))
    BY SMT, <1>0, <1>10, MaxFaultsAssumption DEF ClientDies, CountFault
  <2> QED BY <1>0, <1>10, <2>1, LeavesKeeps DEF ClientDies
<1>11. CASE Request(c)
  <2>1. used' \subseteq Daemon
    <3>0. given[c] \in Daemon
      BY <1>0, <1>11 DEF DInv, LockInv, Request
    <3>1. CASE used' = used \cup {given[c]}
      BY <1>0, <3>0, <3>1
    <3>2. CASE used' = used \ {given[c]} \/ UNCHANGED used
      BY <1>0, <3>2
    <3> QED BY <1>11, <3>1, <3>2 DEF Request
  <2> QED BY <1>0, <1>1, <1>11, <2>1, LeavesKeeps DEF Request
<1> QED BY <1>2, <1>3, <1>4, <1>5, <1>6, <1>7, <1>8, <1>9, <1>10, <1>11 DEF Connect

\* The steps of a daemon keep the invariant.
LEMMA DaemonStep ==
  ASSUME DInv, NEW d \in Daemon, Publish(d) \/ Close(d) \/ Teardown(d) \/ Crash(d)
  PROVE  DInv'
<1> USE DEF clientVars, daemonVars
<1>0. faults \in 0 .. MaxFaults /\ faults \in Nat
  BY SMT, MaxFaultsAssumption DEF DInv, TypeOK
<1>1. CASE Publish(d)
  <2>1. TypeOK' BY <1>1 DEF DInv, TypeOK, Publish
  <2>2. LockInv' BY <1>1 DEF DInv, LockInv, Publish
  <2>3. RecordInv'
    <3> SUFFICES ASSUME faults = 0 PROVE RecordInv'
      BY <1>1 DEF RecordInv, Publish
    <3>1. \A e \in Daemon : proc[e] \notin Published
      BY <1>1 DEF DInv, RecordInv, Publish
    <3>2. ASSUME NEW e \in Daemon, proc[e] = "starting" PROVE e = d
      BY <1>1, <3>2, DInvImplies DEF OneDaemon, Running, Publish
    <3>3. \A e \in Daemon : proc'[e] = IF e = d THEN "serving" ELSE proc[e]
      BY <1>1 DEF DInv, TypeOK, Publish
    <3>4. record' = d
      BY <1>1 DEF Publish
    <3>5. ASSUME NEW e \in Daemon PROVE proc'[e] # "starting" /\ (proc'[e] \in Published => e = d)
      BY <3>1, <3>2, <3>3
    <3>6. ASSUME NEW e \in Daemon, proc'[e] = "releasing" PROVE e # d
      BY <3>3, <3>6
    <3> QED BY <3>4, <3>5, <3>6 DEF RecordInv
  <2> QED BY <2>1, <2>2, <2>3 DEF DInv
<1>2. CASE Close(d)
  <2>1. TypeOK' BY <1>2 DEF DInv, TypeOK, Close
  <2>2. LockInv' BY <1>2 DEF DInv, LockInv, Close
  <2>3. RecordInv' BY <1>2 DEF DInv, TypeOK, RecordInv, Published, Close
  <2> QED BY <2>1, <2>2, <2>3 DEF DInv
<1>3. CASE LockTeardown(d)
  <2>1. TypeOK' BY <1>3 DEF DInv, TypeOK, LockTeardown
  <2>2. LockInv' BY <1>3, NamesAssumption DEF DInv, LockInv, LockTeardown
  <2>3. RecordInv' BY <1>3 DEF DInv, TypeOK, RecordInv, Published, LockTeardown
  <2> QED BY <2>1, <2>2, <2>3 DEF DInv
<1>4. CASE RemoveRecord(d)
  <2>1. TypeOK' BY SMT, <1>0, <1>4, MaxFaultsAssumption DEF DInv, TypeOK, RemoveRecord, CountFault
  <2>2. LockInv' BY <1>4 DEF DInv, LockInv, RemoveRecord
  <2>3. RecordInv'
    <3> SUFFICES ASSUME faults' = 0 PROVE RecordInv'
      BY DEF RecordInv
    <3>1. faults = 0 /\ record' = None
      BY SMT, <1>0, <1>4 DEF RemoveRecord, CountFault
    <3>2. record = d
      BY <1>4, <3>1 DEF DInv, RecordInv, Published, RemoveRecord
    <3>3. \A e \in Daemon : proc'[e] = IF e = d THEN "releasing" ELSE proc[e]
      BY <1>4 DEF DInv, TypeOK, RemoveRecord
    <3>4. \A e \in Daemon : proc'[e] \notin Published
      BY <3>1, <3>2, <3>3 DEF DInv, RecordInv, Published
    <3>5. child' = child
      BY <1>4 DEF RemoveRecord
    <3> QED BY <3>1, <3>3, <3>4, <3>5, NamesAssumption DEF DInv, RecordInv
  <2> QED BY <2>1, <2>2, <2>3 DEF DInv
<1>5. CASE Exit(d) \/ Crash(d)
  <2>0. ProcessGone(d) /\ UNCHANGED <<record, at, child, given, other, faults>>
    BY <1>5 DEF Exit, Crash
  <2>1. TypeOK' BY <2>0 DEF DInv, TypeOK, ProcessGone, Unlocked
  <2>2. LockInv' BY <2>0, NamesAssumption DEF DInv, LockInv, ProcessGone, Unlocked
  <2>3. RecordInv' BY SMT, <2>0 DEF DInv, TypeOK, RecordInv, Published, ProcessGone
  <2> QED BY SMT, <2>1, <2>2, <2>3 DEF DInv
<1> QED BY <1>1, <1>2, <1>3, <1>4, <1>5 DEF Teardown

LEMMA DInvInvariant == Spec => []DInv
<1>1. Init => DInv
  BY SMT, MaxFaultsAssumption, NamesAssumption
     DEF Init, DInv, TypeOK, LockInv, RecordInv, Published
<1>2. DInv /\ [Next]_vars => DInv'
  <2> SUFFICES ASSUME DInv, [Next]_vars PROVE DInv'
    OBVIOUS
  <2>1. ASSUME NEW c \in Client, ConnectFast(c) \/ Connect(c) \/ ClientDies(c) \/ Request(c)
        PROVE  DInv'
    BY <2>1, ClientStep
  <2>2. ASSUME NEW d \in Daemon, Publish(d) \/ Close(d) \/ Teardown(d) \/ Crash(d)
        PROVE  DInv'
    BY <2>2, DaemonStep
  <2>3. CASE UNCHANGED vars
    BY <2>3 DEF vars, clientVars, daemonVars, DInv, TypeOK, LockInv, RecordInv
  <2> QED BY <2>1, <2>2, <2>3 DEF Next
<1> QED BY <1>1, <1>2, PTL DEF Spec

\* Whatever the number of clients and daemons: as long as nobody stopped waiting
\* for a daemon that was still starting and no record was left behind, at most
\* one daemon runs and the record names it (DaemonClient::connect under the
\* transition lock), although the teardown may go on without the lock.
THEOREM AtMostOneDaemon == Spec => []OneDaemon
<1>1. DInv => OneDaemon
  BY DInvImplies
<1> QED BY <1>1, DInvInvariant, PTL

\* Whatever the number of clients and daemons, the record never names a daemon
\* whose session is being released (the order of run's teardown), unless its
\* removal failed.
THEOREM TeardownIsUnseen == Spec => []TeardownUnseen
<1>1. DInv => TeardownUnseen
  BY DInvImplies
<1> QED BY <1>1, DInvInvariant, PTL

-----------------------------------------------------------------------------
(* Execs of Windows Sandbox.                                               *)

USE DEF execVars

LEMMA NoneIn == \A S : <<>> \in Seq(S)
BY SMT

Token == Nat \X {"header", "payload", "eof"}
Message == [kind : {"Exit", "StreamsReady"}, exec : Exec \cup {NoExec}]
Loop == [finite : BOOLEAN, alive : BOOLEAN, exit : Exec \cup {NoExec}, done : SUBSET GuestStream,
         drained : BOOLEAN, taken : [GuestStream -> Nat], part : Nat, inDone : BOOLEAN,
         inOpen : BOOLEAN]
Peer == [frames : [GuestStream -> Nat], torn : BOOLEAN,
         answer : {"none", "closed", "refused", "watchdog", "exit"}, sent : Nat, inq : Seq(Token)]
Pipe == [sent : [GuestStream -> Nat], eof : SUBSET GuestStream, given : Seq(Nat)]

RelayTypes ==
  /\ holder \in Exec \cup {NoExec} /\ asked \in Exec \cup {NoExec}
  /\ task \in [Exec -> {"none", "asking", "relay", "stuck", "reconnect", "released", "over"}]
  /\ loop \in [Exec -> Loop] /\ peer \in [Exec -> Peer] /\ pipe \in [Exec -> Pipe]
  /\ guest \in [at : {"idle", "run", "drain", "exit", "ready", "accept", "gone"},
                exec : Exec \cup {NoExec}, lost : BOOLEAN]
  /\ control \in Seq(Message)

ExitOf(e) == [kind |-> "Exit", exec |-> e]
ReadyOf(e) == [kind |-> "StreamsReady", exec |-> e]
InRelay == {"relay", "stuck", "reconnect"}

\* Where the guest is with the exec that holds its connection.
Stage(h) ==
  \/ /\ guest.at = "idle" /\ asked = h /\ control = <<>> /\ loop[h].exit = NoExec
  \/ /\ guest.at \in {"run", "drain", "exit"} /\ guest.exec = h /\ asked = NoExec
     /\ control = <<>> /\ loop[h].exit = NoExec
  \/ /\ guest.at = "ready" /\ guest.exec = h /\ asked = NoExec
     /\ \/ control = <<ExitOf(h)>> /\ loop[h].exit = NoExec
        \/ control = <<>> /\ loop[h].exit = h
  \/ /\ guest.at = "accept" /\ guest.exec = h /\ asked = NoExec
     /\ \/ control = <<ExitOf(h), ReadyOf(h)>> /\ loop[h].exit = NoExec
        \/ control = <<ReadyOf(h)>> /\ loop[h].exit = h

\* The connection to the guest, between execs and in one.
GuestInv ==
  /\ guest.lost <=> guest.at = "gone"
  /\ \A e \in Exec : task[e] \in InRelay <=> holder = e
  /\ holder = NoExec => asked = NoExec /\ control = <<>> /\ (~guest.lost => guest.at = "idle")
  /\ holder # NoExec =>
       /\ ~guest.lost => Stage(holder)
       /\ \A i \in DOMAIN control : control[i].exec = holder

\* What the host has of an exec.
Result(e) ==
  /\ task[e] \in {"none", "asking", "over"} => loop[e] = NoRelay
  /\ task[e] = "reconnect" => loop[e].exit # NoExec
  /\ task[e] \in {"reconnect", "released"} /\ loop[e].exit # NoExec => loop[e].done = GuestStream
  /\ loop[e].exit \in {NoExec, e}
  /\ loop[e].alive => ~peer[e].torn /\ peer[e].frames = loop[e].taken
  /\ loop[e].drained => \A s \in loop[e].done :
       \/ s \in pipe[e].eof /\ loop[e].taken[s] = pipe[e].sent[s]
       \/ guest.lost /\ loop[e].taken[s] = 0

RelayInv == RelayTypes /\ GuestInv /\ \A e \in Exec : Result(e)

LEMMA SetAt ==
  ASSUME NEW S, NEW T, NEW f \in [S -> T], NEW x \in S, NEW v \in T
  PROVE  /\ [f EXCEPT ![x] = v] \in [S -> T] /\ [f EXCEPT ![x] = v][x] = v
         /\ \A y \in S \ {x} : [f EXCEPT ![x] = v][y] = f[y]
OBVIOUS

LEMMA Blank ==
  /\ NoRelay \in Loop /\ NoPipe \in Pipe
  /\ \A answer \in {"none", "closed", "refused", "watchdog", "exit"} :
       [NoClient EXCEPT !.answer = answer] \in Peer
<1>1. NoChunks \in [GuestStream -> Nat] BY DEF NoChunks
<1>2. <<>> \in Seq(Token) /\ <<>> \in Seq(Nat) BY NoneIn
<1>3. NoRelay \in Loop BY <1>1 DEF NoRelay, Loop
<1>4. NoPipe \in Pipe BY <1>1, <1>2 DEF NoPipe, Pipe
<1>5. NoClient \in Peer BY <1>1, <1>2 DEF NoClient, Peer
<1> QED BY <1>3, <1>4, <1>5 DEF Peer

\* A task that ends leaves nothing behind but its answer.
LEMMA EndsFacts ==
  ASSUME RelayTypes, NEW e \in Exec, NEW answer \in {"closed", "refused", "watchdog", "exit"},
         Ends(e, answer)
  PROVE  /\ task' \in [Exec -> {"none", "asking", "relay", "stuck", "reconnect", "released", "over"}]
         /\ loop' \in [Exec -> Loop] /\ peer' \in [Exec -> Peer] /\ pipe' \in [Exec -> Pipe]
         /\ task'[e] = "over" /\ loop'[e] = NoRelay /\ pipe'[e] = NoPipe
         /\ peer'[e] = [NoClient EXCEPT !.answer = answer]
         /\ \A x \in Exec \ {e} : /\ task'[x] = task[x] /\ loop'[x] = loop[x]
                                  /\ pipe'[x] = pipe[x] /\ peer'[x] = peer[x]
<1>1. [NoClient EXCEPT !.answer = answer] \in Peer BY Blank
<1>2. DOMAIN task = Exec /\ DOMAIN loop = Exec /\ DOMAIN pipe = Exec /\ DOMAIN peer = Exec
  BY DEF RelayTypes
<1> QED BY <1>1, <1>2, Blank DEF Ends, Goes, RelayTypes

LEMMA TokenFacts == ASSUME NEW n \in Nat PROVE NthToken(n) \in Token
BY SMT DEF NthToken, Token

LEMMA SendTypes == ASSUME RelayTypes, NEW e \in Exec, ClientSends(e)
  PROVE  /\ peer' \in [Exec -> Peer]
         /\ \A x \in Exec : /\ peer'[x].frames = peer[x].frames /\ peer'[x].torn = peer[x].torn
                            /\ peer'[x].answer = peer[x].answer
<1>1. PICK token :
        /\ peer' = [peer EXCEPT ![e].inq = Append(@, token),
                    ![e].sent = IF token = Eof THEN 2 * MaxFrames + 1 ELSE peer[e].sent + 1]
        /\ \/ peer[e].sent + 1 <= 2 * MaxFrames /\ token = NthToken(peer[e].sent + 1)
           \/ token = Eof
  BY DEF ClientSends
<1>2. peer \in [Exec -> Peer] /\ peer[e] \in Peer /\ peer[e].sent \in Nat /\ peer[e].inq \in Seq(Token)
  BY DEF RelayTypes, Peer
<1>3. token \in Token
  <2>1. Eof \in Token BY DEF Eof, Token
  <2> QED BY SMT, <1>1, <1>2, <2>1, TokenFacts
<1>4. Append(peer[e].inq, token) \in Seq(Token) BY SMT, <1>2, <1>3
<1>5. (IF token = Eof THEN 2 * MaxFrames + 1 ELSE peer[e].sent + 1) \in Nat BY SMT, <1>2, FramesAssumption
<1> QED BY <1>1, <1>2, <1>4, <1>5 DEF Peer

LEMMA GuestKept ==
  ASSUME RelayTypes, GuestInv, UNCHANGED <<holder, guest, asked, control>>,
         \A x \in Exec : /\ task'[x] \in InRelay <=> task[x] \in InRelay
                         /\ task[x] \in InRelay => loop'[x].exit = loop[x].exit
  PROVE  GuestInv'
<1>1. holder # NoExec => holder \in Exec /\ task[holder] \in InRelay
  BY DEF RelayTypes, GuestInv
<1>2. ASSUME holder # NoExec, Stage(holder) PROVE Stage(holder)'
  BY <1>1, <1>2 DEF Stage
<1> QED BY <1>1, <1>2 DEF GuestInv

LEMMA ResultKept ==
  ASSUME NEW x \in Exec, Result(x), task'[x] = task[x], loop'[x] = loop[x],
         peer'[x].frames = peer[x].frames, peer'[x].torn = peer[x].torn,
         pipe'[x].sent = pipe[x].sent, pipe[x].eof \subseteq pipe'[x].eof, guest.lost => guest'.lost
  PROVE  Result(x)'
BY SMT DEF Result

\* The end of a task, for the execs it leaves and for the guest.
LEMMA EndsKeep ==
  ASSUME RelayInv, NEW e \in Exec, NEW answer \in {"closed", "refused", "watchdog", "exit"},
         Ends(e, answer), guest.lost => guest'.lost
  PROVE  \A x \in Exec : Result(x)'
<1>1. /\ task'[e] = "over" /\ loop'[e] = NoRelay
      /\ peer'[e] = [NoClient EXCEPT !.answer = answer]
      /\ \A x \in Exec \ {e} : /\ task'[x] = task[x] /\ loop'[x] = loop[x]
                               /\ pipe'[x] = pipe[x] /\ peer'[x] = peer[x]
  BY SMT, EndsFacts DEF RelayInv
<1>2. Result(e)'
  <2>1. ~peer'[e].torn /\ peer'[e].frames = NoChunks BY SMT, <1>1 DEF NoClient
  <2> QED BY SMT, <1>1, <2>1 DEF Result, NoRelay
<1>3. ASSUME NEW x \in Exec, x # e PROVE Result(x)' BY SMT, <1>1, <1>3, ResultKept DEF RelayInv
<1> QED BY <1>2, <1>3

LEMMA RefusedKeeps ==
  ASSUME RelayInv, NEW e \in Exec, NEW answer \in {"closed", "refused", "watchdog", "exit"},
         Ends(e, answer), task[e] \notin InRelay, UNCHANGED <<holder, guest, asked, control>>
  PROVE  RelayInv'
<1>1. RelayTypes' BY SMT, EndsFacts DEF RelayInv, RelayTypes
<1>2. \A x \in Exec : Result(x)' BY EndsKeep
<1>3. /\ task'[e] = "over"
      /\ \A x \in Exec \ {e} : task'[x] = task[x] /\ loop'[x] = loop[x]
  BY SMT, EndsFacts DEF RelayInv
<1>4. GuestInv' BY <1>3, GuestKept DEF RelayInv, InRelay
<1> QED BY <1>1, <1>2, <1>4 DEF RelayInv

\* The connection is dropped by the exec that holds it.
LEMMA AbandonKeeps ==
  ASSUME RelayInv, NEW e \in Exec, task[e] \in InRelay, task'[e] \notin InRelay,
         \A x \in Exec \ {e} : task'[x] = task[x], Abandon
  PROVE  /\ GuestInv' /\ guest'.lost
         /\ holder' = NoExec /\ asked' = NoExec /\ control' = <<>>
         /\ guest' \in [at : {"idle", "run", "drain", "exit", "ready", "accept", "gone"},
                        exec : Exec \cup {NoExec}, lost : BOOLEAN]
<1>1. holder = e BY DEF RelayInv, GuestInv
<1>2. \A x \in Exec : task'[x] \notin InRelay BY <1>1 DEF RelayInv, GuestInv
<1>3. /\ guest' = NoGuest /\ holder' = NoExec /\ asked' = NoExec /\ control' = <<>> BY DEF Abandon
<1>4. GuestInv' BY <1>2, <1>3, ExecAssumption DEF GuestInv, NoGuest
<1> QED BY <1>3, <1>4 DEF NoGuest

LEMMA AskKeeps ==
  ASSUME RelayInv, NEW e \in Exec, ExecConnects(e) \/ ExecRefused(e) \/ WriteExit(e) PROVE RelayInv'
<1>1. task[e] \in {"none", "asking", "released"} /\ UNCHANGED <<guestSlot, holder, guest, asked, control>>
  BY DEF ExecConnects, ExecRefused, WriteExit
<1>2. CASE \E answer \in {"closed", "refused", "watchdog", "exit"} : Ends(e, answer)
  BY <1>1, <1>2, RefusedKeeps DEF InRelay
<1>3. CASE task[e] = "none" /\ Goes(e, "asking") /\ UNCHANGED <<loop, peer, pipe>>
  <2>1. /\ task'[e] = "asking" /\ \A x \in Exec \ {e} : task'[x] = task[x]
        /\ task' \in [Exec -> {"none", "asking", "relay", "stuck", "reconnect", "released", "over"}]
    BY <1>3 DEF Goes, RelayInv, RelayTypes
  <2>2. RelayTypes' BY <1>1, <1>3, <2>1 DEF RelayInv, RelayTypes
  <2>3. GuestInv' BY <1>1, <1>3, <2>1, GuestKept DEF RelayInv, InRelay
  <2>4. \A x \in Exec \ {e} : Result(x)' BY <1>1, <1>3, <2>1, ResultKept DEF RelayInv
  <2>5. Result(e)' BY SMT, <1>1, <1>3, <2>1 DEF RelayInv, Result
  <2> QED BY <2>2, <2>3, <2>4, <2>5 DEF RelayInv
<1> QED BY <1>2, <1>3 DEF ExecConnects, ExecRefused, WriteExit

LEMMA AdmitKeeps == ASSUME RelayInv, NEW e \in Exec, ExecAdmitted(e) PROVE RelayInv'
<1>1. task[e] = "asking" /\ holder = NoExec /\ UNCHANGED <<guest, control>> BY DEF ExecAdmitted
<1>2. CASE Ends(e, "closed") /\ UNCHANGED <<holder, asked>> BY <1>1, <1>2, RefusedKeeps DEF InRelay
<1>3. CASE /\ Goes(e, "relay") /\ holder' = e /\ asked' = e
           /\ \E limited \in BOOLEAN : loop' = [loop EXCEPT ![e].finite = limited]
           /\ UNCHANGED <<peer, pipe>>
  <2>1. /\ task'[e] = "relay" /\ \A x \in Exec \ {e} : task'[x] = task[x]
        /\ task' \in [Exec -> {"none", "asking", "relay", "stuck", "reconnect", "released", "over"}]
    BY <1>3 DEF Goes, RelayInv, RelayTypes
  <2>2. loop[e] = NoRelay BY <1>1 DEF RelayInv, Result
  <2>3. /\ loop' \in [Exec -> Loop] /\ \A x \in Exec \ {e} : loop'[x] = loop[x]
        /\ loop'[e].exit = loop[e].exit /\ loop'[e].done = loop[e].done /\ loop'[e].taken = loop[e].taken
        /\ loop'[e].alive = loop[e].alive
    <3>1. PICK limited \in BOOLEAN : loop' = [loop EXCEPT ![e].finite = limited] BY <1>3
    <3>2. loop \in [Exec -> Loop] /\ loop[e] \in Loop BY DEF RelayInv, RelayTypes
    <3>3. [loop[e] EXCEPT !.finite = limited] \in Loop BY <3>2 DEF Loop
    <3>4. loop' = [loop EXCEPT ![e] = [loop[e] EXCEPT !.finite = limited]] BY <3>1, <3>2
    <3>5. loop' \in [Exec -> Loop] /\ \A x \in Exec \ {e} : loop'[x] = loop[x] BY <3>2, <3>3, <3>4
    <3> QED BY <3>2, <3>4, <3>5 DEF Loop
  <2>4. loop[e].exit = NoExec /\ loop[e].done = {} BY SMT, <2>2 DEF NoRelay
  <2>5. RelayTypes' BY <1>1, <1>3, <2>1, <2>3 DEF RelayInv, RelayTypes
  <2>6. \A x \in Exec \ {e} : Result(x)' BY <1>1, <1>3, <2>1, <2>3, ResultKept DEF RelayInv
  <2>7. Result(e)' BY <1>1, <1>3, <2>1, <2>3, <2>4 DEF RelayInv, Result
  <2>8. asked = NoExec /\ control = <<>> /\ (~guest.lost => guest.at = "idle")
    BY <1>1 DEF RelayInv, GuestInv
  <2>9. \A x \in Exec : task'[x] \in InRelay <=> holder' = x
    BY SMT, <1>1, <1>3, <2>1, ExecAssumption DEF RelayInv, GuestInv, InRelay
  <2>10. Stage(e)' \/ guest.lost BY <1>1, <1>3, <2>3, <2>4, <2>8 DEF Stage
  <2>11. GuestInv' BY SMT, <1>1, <1>3, <2>8, <2>9, <2>10, ExecAssumption DEF RelayInv, GuestInv
  <2> QED BY <2>5, <2>6, <2>7, <2>11 DEF RelayInv
<1> QED BY <1>2, <1>3 DEF ExecAdmitted

-----------------------------------------------------------------------------
(* The select loop and the end of an exec.                                 *)

\* A step of the loop of one exec, that leaves the guest's side alone.
LEMMA LoopKeeps ==
  ASSUME RelayInv, NEW e \in Exec, NEW l \in Loop, loop' = [loop EXCEPT ![e] = l],
         task[e] \in InRelay, l.exit = loop[e].exit,
         UNCHANGED <<holder, task, guest, asked, control, pipe>>,
         peer' \in [Exec -> Peer], \A x \in Exec \ {e} : peer'[x] = peer[x],
         l.alive => loop[e].alive /\ ~peer'[e].torn /\ peer'[e].frames = l.taken,
         l.done = loop[e].done \/ task[e] # "reconnect",
         l.drained => /\ loop[e].drained
                      /\ \A s \in l.done : \/ s \in pipe[e].eof /\ l.taken[s] = pipe[e].sent[s]
                                           \/ guest.lost /\ l.taken[s] = 0
  PROVE  RelayInv'
<1>1. loop \in [Exec -> Loop] BY DEF RelayInv, RelayTypes
<1>2. loop' \in [Exec -> Loop] /\ loop'[e] = l /\ \A x \in Exec \ {e} : loop'[x] = loop[x]
  BY SMT, <1>1, SetAt
<1>3. RelayTypes' BY SMT, <1>2 DEF RelayInv, RelayTypes
<1>4. GuestInv' BY <1>2, GuestKept DEF RelayInv
<1>5. \A x \in Exec \ {e} : Result(x)' BY <1>2, ResultKept DEF RelayInv
<1>6. Result(e)' BY SMT, <1>2 DEF RelayInv, Result, InRelay
<1> QED BY <1>3, <1>4, <1>5, <1>6 DEF RelayInv

LEMMA ReadOutputKeeps ==
  ASSUME RelayInv, NEW e \in Exec, NEW s \in GuestStream, ReadOutput(e, s) PROVE RelayInv'
<1>1. /\ task[e] = "relay" /\ s \notin loop[e].done
      /\ UNCHANGED <<holder, task, guest, asked, control, pipe>>
  BY DEF ReadOutput, Looping
<1>2. PICK ok \in BOOLEAN :
        /\ loop' = [loop EXCEPT ![e].taken[s] = @ + 1, ![e].part = 0, ![e].alive = @ /\ ok]
        /\ peer' = IF ~ loop[e].alive THEN peer
                   ELSE IF ok THEN [peer EXCEPT ![e].frames[s] = @ + 1]
                   ELSE [peer EXCEPT ![e].torn = TRUE]
  BY DEF ReadOutput
<1>3. /\ loop \in [Exec -> Loop] /\ loop[e] \in Loop /\ peer \in [Exec -> Peer] /\ peer[e] \in Peer
      /\ loop[e].taken \in [GuestStream -> Nat]
  BY DEF RelayInv, RelayTypes, Loop
<1>4. PICK alive : alive = (loop[e].alive /\ ok) BY Zenon
<1>5. alive \in BOOLEAN BY <1>4
<1> DEFINE taken1 == [loop[e].taken EXCEPT ![s] = loop[e].taken[s] + 1]
           l == [loop[e] EXCEPT !.taken = taken1, !.part = 0, !.alive = alive]
<1>6. loop' = [loop EXCEPT ![e] = l] BY <1>2, <1>3, <1>4 DEF Loop
<1>7. taken1 \in [GuestStream -> Nat] /\ \A x \in loop[e].done : taken1[x] = loop[e].taken[x]
  <2>1. loop[e].done \subseteq GuestStream BY <1>3 DEF Loop
  <2> QED BY SMT, <1>1, <1>3, <2>1
<1>8. /\ l \in Loop /\ l.exit = loop[e].exit /\ l.done = loop[e].done /\ l.drained = loop[e].drained
      /\ l.taken = taken1 /\ l.alive = alive
  <2> HIDE DEF taken1
  <2> QED BY <1>3, <1>5, <1>7 DEF Loop
<1>9. /\ peer' \in [Exec -> Peer] /\ \A x \in Exec \ {e} : peer'[x] = peer[x]
      /\ alive => loop[e].alive /\ ~peer'[e].torn /\ peer'[e].frames = taken1
  <2>1. CASE ~loop[e].alive
    <3>1. ~alive /\ peer' = peer BY <1>2, <1>4, <2>1
    <3> QED BY <1>3, <3>1
  <2>2. CASE loop[e].alive /\ ok
    <3>1. peer' = [peer EXCEPT ![e].frames[s] = @ + 1] BY <1>2, <2>2
    <3>2. ~peer[e].torn /\ peer[e].frames = loop[e].taken BY <2>2 DEF RelayInv, Result
    <3>3. peer' = [peer EXCEPT ![e] = [peer[e] EXCEPT !.frames = taken1]]
      BY <1>3, <3>1, <3>2 DEF Peer
    <3>4. /\ [peer[e] EXCEPT !.frames = taken1] \in Peer
          /\ [peer[e] EXCEPT !.frames = taken1].frames = taken1
          /\ [peer[e] EXCEPT !.frames = taken1].torn = peer[e].torn
      <4> HIDE DEF taken1
      <4> QED BY <1>3, <1>7 DEF Peer
    <3> QED BY SMT, <1>3, <2>2, <3>2, <3>3, <3>4, SetAt
  <2>3. CASE loop[e].alive /\ ~ok
    <3>1. ~alive /\ peer' = [peer EXCEPT ![e].torn = TRUE] BY <1>2, <1>4, <2>3
    <3>2. peer' = [peer EXCEPT ![e] = [peer[e] EXCEPT !.torn = TRUE]] BY <1>3, <3>1 DEF Peer
    <3>3. [peer[e] EXCEPT !.torn = TRUE] \in Peer BY <1>3 DEF Peer
    <3> QED BY SMT, <1>3, <3>1, <3>2, <3>3, SetAt
  <2> QED BY <2>1, <2>2, <2>3
<1>10. loop[e].drained => \A x \in loop[e].done :
         (x \in pipe[e].eof /\ taken1[x] = pipe[e].sent[x]) \/ (guest.lost /\ taken1[x] = 0)
  BY SMT, <1>7 DEF RelayInv, Result
<1>11. task[e] \in InRelay BY <1>1 DEF InRelay
<1> HIDE DEF l, taken1
<1> QED BY <1>1, <1>6, <1>8, <1>9, <1>10, <1>11, LoopKeeps

LEMMA SelectKeeps ==
  ASSUME RelayInv, NEW e \in Exec,
         (\E s \in GuestStream : ReadOutputEof(e, s)) \/ PostExitDrain(e)
  PROVE  RelayInv'
<1>1. /\ task[e] = "relay" /\ UNCHANGED <<holder, task, guest, asked, control, pipe, peer>>
  BY DEF ReadOutputEof, PostExitDrain, Looping
<1>2. /\ loop \in [Exec -> Loop] /\ loop[e] \in Loop /\ peer \in [Exec -> Peer] /\ Result(e)
      /\ task[e] \in InRelay
  BY <1>1 DEF RelayInv, RelayTypes, InRelay
<1>3. ASSUME NEW s \in GuestStream, ReadOutputEof(e, s) PROVE RelayInv'
  <2> DEFINE l == [loop[e] EXCEPT !.done = loop[e].done \cup {s}, !.part = 0]
  <2>1. \/ s \in pipe[e].eof /\ loop[e].taken[s] = pipe[e].sent[s]
        \/ guest.lost /\ loop[e].taken[s] = 0
    BY <1>3 DEF ReadOutputEof
  <2>2. loop' = [loop EXCEPT ![e] = l] BY <1>2, <1>3 DEF ReadOutputEof, Loop
  <2>3. loop[e].done \cup {s} \in SUBSET GuestStream BY SMT, <1>2 DEF Loop
  <2>4. /\ l \in Loop /\ l.exit = loop[e].exit /\ l.done = loop[e].done \cup {s}
        /\ l.drained = loop[e].drained /\ l.taken = loop[e].taken /\ l.alive = loop[e].alive
    BY <1>2, <2>3 DEF Loop
  <2> HIDE DEF l
  <2>5. l.drained => \A x \in l.done : \/ x \in pipe[e].eof /\ l.taken[x] = pipe[e].sent[x]
                                       \/ guest.lost /\ l.taken[x] = 0
    BY <1>2, <2>1, <2>4 DEF Result
  <2>6. l.alive => loop[e].alive /\ ~peer'[e].torn /\ peer'[e].frames = l.taken
    BY <1>1, <1>2, <2>4 DEF Result
  <2> QED BY <1>1, <1>2, <2>2, <2>4, <2>5, <2>6, LoopKeeps
<1>4. ASSUME PostExitDrain(e) PROVE RelayInv'
  <2> DEFINE l == [loop[e] EXCEPT !.done = GuestStream, !.drained = FALSE, !.part = 0]
  <2>1. loop' = [loop EXCEPT ![e] = l] BY <1>2, <1>4 DEF PostExitDrain, Loop
  <2>2. /\ l \in Loop /\ l.exit = loop[e].exit /\ ~l.drained
        /\ l.taken = loop[e].taken /\ l.alive = loop[e].alive
    BY <1>2 DEF Loop
  <2> HIDE DEF l
  <2> QED BY <1>1, <1>2, <2>1, <2>2, LoopKeeps DEF Result
<1> QED BY <1>3, <1>4

\* Exit is the first message of an exec, and its own.
LEMMA ControlKeeps == ASSUME RelayInv, NEW e \in Exec, ReadControl(e) PROVE RelayInv'
<1>1. /\ task[e] = "relay" /\ loop[e].exit = NoExec /\ control # <<>> /\ control' = Tail(control)
      /\ UNCHANGED <<holder, task, peer, guest, asked, pipe>>
  BY DEF ReadControl, Looping
<1>2. holder = e BY <1>1 DEF RelayInv, GuestInv, InRelay
<1>3. /\ loop \in [Exec -> Loop] /\ loop[e] \in Loop /\ control \in Seq(Message) /\ Result(e)
  BY DEF RelayInv, RelayTypes
<1>4. /\ Head(control) \in Message /\ control' \in Seq(Message)
      /\ Head(control).exec = e /\ \A i \in DOMAIN control' : control'[i].exec = e
  <2>1. \A i \in DOMAIN control : control[i].exec = e
    BY <1>2, ExecAssumption DEF RelayInv, GuestInv
  <2> QED BY SMT, <1>1, <1>3, <2>1
<1>5. PICK l \in Loop :
        /\ loop' = [loop EXCEPT ![e] = l] /\ l.alive = loop[e].alive /\ l.taken = loop[e].taken
        /\ l.done = loop[e].done /\ l.drained = loop[e].drained
        /\ l.exit = IF Head(control).kind = "Exit" THEN e ELSE NoExec
  <2>1. CASE Head(control).kind = "Exit"
    <3> DEFINE l == [loop[e] EXCEPT !.exit = e, !.part = 0, !.inOpen = FALSE, !.inDone = TRUE]
    <3>1. loop' = [loop EXCEPT ![e] = l] BY <1>3, <1>4, <2>1 DEF ReadControl, Loop
    <3>2. /\ l \in Loop /\ l.exit = e /\ l.done = loop[e].done
          /\ l.drained = loop[e].drained /\ l.taken = loop[e].taken /\ l.alive = loop[e].alive
      BY <1>3 DEF Loop
    <3> HIDE DEF l
    <3> QED BY <2>1, <3>1, <3>2
  <2>2. CASE Head(control).kind # "Exit"
    <3> DEFINE l == [loop[e] EXCEPT !.part = 0]
    <3>1. loop' = [loop EXCEPT ![e] = l] BY <1>3, <2>2 DEF ReadControl, Loop
    <3>2. /\ l \in Loop /\ l.exit = loop[e].exit /\ l.done = loop[e].done
          /\ l.drained = loop[e].drained /\ l.taken = loop[e].taken /\ l.alive = loop[e].alive
      BY <1>3 DEF Loop
    <3> HIDE DEF l
    <3> QED BY <1>1, <2>2, <3>1, <3>2
  <2> QED BY <2>1, <2>2
<1>6. loop' \in [Exec -> Loop] /\ loop'[e] = l /\ \A x \in Exec \ {e} : loop'[x] = loop[x]
  BY <1>3, <1>5, SetAt
<1>7. RelayTypes' BY <1>1, <1>4, <1>6 DEF RelayInv, RelayTypes
<1>8. \A x \in Exec \ {e} : Result(x)' BY <1>1, <1>6, ResultKept DEF RelayInv
<1>9. Result(e)' BY SMT, <1>1, <1>3, <1>5, <1>6 DEF Result
<1>10. ASSUME ~guest.lost PROVE Stage(e)'
  <2>1. Stage(e) BY <1>2, <1>10, ExecAssumption DEF RelayInv, GuestInv
  <2>2. guest.at \in {"ready", "accept"} /\ guest.exec = e /\ asked = NoExec
    BY <1>1, <2>1 DEF Stage
  <2>3. CASE guest.at = "ready" /\ control = <<ExitOf(e)>>
    <3>1. Head(control).kind = "Exit" /\ control' = <<>> BY SMT, <1>1, <2>3 DEF ExitOf
    <3> QED BY <1>1, <1>5, <1>6, <2>2, <2>3, <3>1 DEF Stage
  <2>4. CASE guest.at = "accept" /\ control = <<ExitOf(e), ReadyOf(e)>>
    <3>1. Head(control).kind = "Exit" /\ control' = <<ReadyOf(e)>> BY SMT, <1>1, <2>4 DEF ExitOf
    <3> QED BY <1>1, <1>5, <1>6, <2>2, <2>4, <3>1 DEF Stage
  <2> QED BY <1>1, <2>1, <2>2, <2>3, <2>4, ExecAssumption DEF Stage
<1>11. GuestInv' BY <1>1, <1>2, <1>4, <1>10, ExecAssumption DEF RelayInv, GuestInv
<1> QED BY <1>7, <1>8, <1>9, <1>11 DEF RelayInv

LEMMA DropKeeps ==
  ASSUME RelayInv, NEW e \in Exec, Watchdog(e) \/ RelayFails(e) \/ ReconnectFails(e) PROVE RelayInv'
<1>1. task[e] \in InRelay /\ Abandon
  BY DEF Watchdog, RelayFails, ReconnectFails, Looping, InRelay
<1>2. /\ loop \in [Exec -> Loop] /\ loop[e] \in Loop /\ Result(e)
      /\ task \in [Exec -> {"none", "asking", "relay", "stuck", "reconnect", "released", "over"}]
  BY DEF RelayInv, RelayTypes
<1>3. CASE RelayFails(e)
  <2>1. Ends(e, "closed") BY <1>3 DEF RelayFails
  <2>2. task'[e] = "over" /\ \A x \in Exec \ {e} : task'[x] = task[x] BY <2>1, EndsFacts DEF RelayInv
  <2>3. /\ GuestInv' /\ guest'.lost /\ holder' = NoExec /\ asked' = NoExec /\ control' = <<>>
        /\ guest' \in [at : {"idle", "run", "drain", "exit", "ready", "accept", "gone"},
                       exec : Exec \cup {NoExec}, lost : BOOLEAN]
    BY <1>1, <2>2, AbandonKeeps DEF InRelay
  <2>4. RelayTypes' BY <2>1, <2>3, EndsFacts, NoneIn DEF RelayInv, RelayTypes
  <2>5. \A x \in Exec : Result(x)' BY <2>1, <2>3, EndsKeep
  <2> QED BY <2>3, <2>4, <2>5 DEF RelayInv
<1>4. CASE Watchdog(e) \/ ReconnectFails(e)
  <2>1. Goes(e, "released") /\ UNCHANGED <<peer, pipe>> BY <1>4 DEF Watchdog, ReconnectFails
  <2>2. /\ task'[e] = "released" /\ \A x \in Exec \ {e} : task'[x] = task[x]
        /\ task' \in [Exec -> {"none", "asking", "relay", "stuck", "reconnect", "released", "over"}]
    BY <1>2, <2>1 DEF Goes
  <2>3. /\ GuestInv' /\ guest'.lost /\ holder' = NoExec /\ asked' = NoExec /\ control' = <<>>
        /\ guest' \in [at : {"idle", "run", "drain", "exit", "ready", "accept", "gone"},
                       exec : Exec \cup {NoExec}, lost : BOOLEAN]
    BY <1>1, <2>2, AbandonKeeps DEF InRelay
  <2>4. /\ loop' \in [Exec -> Loop] /\ \A x \in Exec \ {e} : loop'[x] = loop[x]
        /\ loop'[e].alive = loop[e].alive /\ loop'[e].taken = loop[e].taken
        /\ loop'[e].done = loop[e].done /\ loop'[e].drained = loop[e].drained
        /\ loop'[e].exit = NoExec \/ (loop'[e].exit = loop[e].exit /\ task[e] = "reconnect")
    <3>1. CASE Watchdog(e)
      <4>1. loop' = [loop EXCEPT ![e] = [loop[e] EXCEPT !.exit = NoExec]]
        BY <1>2, <3>1 DEF Watchdog, Loop
      <4>2. [loop[e] EXCEPT !.exit = NoExec] \in Loop BY <1>2 DEF Loop
      <4>3. /\ loop' \in [Exec -> Loop] /\ loop'[e] = [loop[e] EXCEPT !.exit = NoExec]
            /\ \A x \in Exec \ {e} : loop'[x] = loop[x]
        BY SMT, <1>2, <4>1, <4>2, SetAt
      <4>4. /\ loop'[e].alive = loop[e].alive /\ loop'[e].taken = loop[e].taken
            /\ loop'[e].done = loop[e].done /\ loop'[e].drained = loop[e].drained
            /\ loop'[e].exit = NoExec
        BY <1>2, <4>3 DEF Loop
      <4> QED BY <4>3, <4>4
    <3>2. CASE ReconnectFails(e) BY <1>2, <3>2 DEF ReconnectFails
    <3> QED BY <1>4, <3>1, <3>2
  <2>5. RelayTypes' BY <2>1, <2>2, <2>3, <2>4, NoneIn DEF RelayInv, RelayTypes
  <2>6. \A x \in Exec \ {e} : Result(x)' BY <2>1, <2>2, <2>3, <2>4, ResultKept DEF RelayInv
  <2>7. Result(e)' BY SMT, <1>2, <2>1, <2>2, <2>3, <2>4 DEF Result
  <2> QED BY <2>3, <2>5, <2>6, <2>7 DEF RelayInv
<1> QED BY <1>3, <1>4

LEMMA ReconnectKeeps == ASSUME RelayInv, NEW e \in Exec, RelayEnds(e) \/ Reconnects(e) PROVE RelayInv'
<1>0. /\ task \in [Exec -> {"none", "asking", "relay", "stuck", "reconnect", "released", "over"}]
      /\ Result(e) /\ UNCHANGED <<loop, peer, asked, pipe>>
  BY DEF RelayInv, RelayTypes, RelayEnds, Reconnects
<1>1. CASE RelayEnds(e)
  <2>1. /\ task[e] = "relay" /\ task'[e] = "reconnect" /\ \A x \in Exec \ {e} : task'[x] = task[x]
        /\ task' \in [Exec -> {"none", "asking", "relay", "stuck", "reconnect", "released", "over"}]
        /\ loop[e].done = GuestStream /\ loop[e].exit # NoExec
        /\ UNCHANGED <<holder, guest, control>>
    BY <1>0, <1>1 DEF RelayEnds, Goes, Looping
  <2>2. RelayTypes' BY <1>0, <2>1 DEF RelayInv, RelayTypes
  <2>3. GuestInv' BY <1>0, <2>1, GuestKept DEF RelayInv, InRelay
  <2>4. \A x \in Exec \ {e} : Result(x)' BY <1>0, <2>1, ResultKept DEF RelayInv
  <2>5. Result(e)' BY <1>0, <2>1 DEF Result
  <2> QED BY <2>2, <2>3, <2>4, <2>5 DEF RelayInv
<1>2. CASE Reconnects(e)
  <2>1. task[e] = "reconnect" /\ control # <<>> /\ control' = Tail(control) BY <1>2 DEF Reconnects
  <2>2. holder = e BY <2>1 DEF RelayInv, GuestInv, InRelay
  <2>3. loop[e].exit = e BY <1>0, <2>1 DEF Result
  <2>4. /\ control \in Seq(Message) /\ \A i \in DOMAIN control : control[i].exec = e
        /\ ~guest.lost => Stage(e)
    BY <2>2, ExecAssumption DEF RelayInv, RelayTypes, GuestInv
  <2>5. control' \in Seq(Message) /\ \A i \in DOMAIN control' : control'[i].exec = e
    BY SMT, <2>1, <2>4
  <2>6. ASSUME ~guest.lost PROVE /\ Head(control).kind = "StreamsReady" /\ control' = <<>>
                                 /\ asked = NoExec
    <3>1. control = <<ReadyOf(e)>> /\ asked = NoExec
      BY <2>1, <2>3, <2>4, <2>6, ExecAssumption DEF Stage
    <3> QED BY SMT, <2>1, <3>1 DEF ReadyOf
  <2>7. CASE guest.lost
    <3>1. UNCHANGED <<guest, holder, task>> BY <1>2, <2>7 DEF Reconnects
    <3>2. RelayTypes' BY <1>0, <2>5, <3>1 DEF RelayInv, RelayTypes
    <3>3. GuestInv' BY <1>0, <2>2, <2>5, <2>7, <3>1, ExecAssumption DEF RelayInv, GuestInv
    <3>4. \A x \in Exec : Result(x)' BY <1>0, <3>1, ResultKept DEF RelayInv
    <3> QED BY <3>2, <3>3, <3>4 DEF RelayInv
  <2>8. CASE ~guest.lost
    <3>1. /\ guest' = [guest EXCEPT !.at = "idle", !.exec = NoExec] /\ holder' = NoExec
          /\ Goes(e, "released")
      BY <1>2, <2>6, <2>8 DEF Reconnects
    <3>2. /\ task'[e] = "released" /\ \A x \in Exec \ {e} : task'[x] = task[x]
          /\ task' \in [Exec -> {"none", "asking", "relay", "stuck", "reconnect", "released", "over"}]
      BY <1>0, <3>1 DEF Goes
    <3>3. /\ guest' \in [at : {"idle", "run", "drain", "exit", "ready", "accept", "gone"},
                         exec : Exec \cup {NoExec}, lost : BOOLEAN]
          /\ guest'.at = "idle" /\ guest'.lost = guest.lost
      BY <3>1 DEF RelayInv, RelayTypes
    <3>4. RelayTypes' BY <1>0, <2>5, <3>1, <3>2, <3>3 DEF RelayInv, RelayTypes
    <3>5. \A x \in Exec : task'[x] \notin InRelay
      BY <2>2, <3>2 DEF RelayInv, GuestInv, InRelay
    <3>6. GuestInv' BY <1>0, <2>6, <2>8, <3>1, <3>3, <3>5, ExecAssumption DEF GuestInv
    <3>7. \A x \in Exec \ {e} : Result(x)' BY <1>0, <2>8, <3>2, ResultKept DEF RelayInv
    <3>8. Result(e)' BY <1>0, <2>1, <2>8, <3>2 DEF Result
    <3> QED BY <3>4, <3>6, <3>7, <3>8 DEF RelayInv
  <2> QED BY <2>7, <2>8
<1> QED BY <1>1, <1>2

\* What the relay of stdin does is no business of the results.
LEMMA StdinKeeps ==
  ASSUME RelayInv, NEW e \in Exec, task[e] \in {"relay", "stuck"}, task'[e] \in {"relay", "stuck"},
         task' \in [Exec -> {"none", "asking", "relay", "stuck", "reconnect", "released", "over"}],
         loop' \in [Exec -> Loop], peer' \in [Exec -> Peer], pipe' \in [Exec -> Pipe],
         \A x \in Exec \ {e} : task'[x] = task[x] /\ loop'[x] = loop[x],
         loop'[e].exit = loop[e].exit, loop'[e].done = loop[e].done, loop'[e].alive = loop[e].alive,
         loop'[e].drained = loop[e].drained, loop'[e].taken = loop[e].taken,
         \A x \in Exec : /\ peer'[x].frames = peer[x].frames /\ peer'[x].torn = peer[x].torn
                         /\ pipe'[x].sent = pipe[x].sent /\ pipe'[x].eof = pipe[x].eof,
         UNCHANGED <<holder, guest, asked, control>>
  PROVE  RelayInv'
<1>1. RelayTypes' BY SMT DEF RelayInv, RelayTypes
<1>2. GuestInv'
  <2>1. \A x \in Exec : /\ task'[x] \in InRelay <=> task[x] \in InRelay
                        /\ loop'[x].exit = loop[x].exit
    BY DEF InRelay
  <2> QED BY <2>1, GuestKept DEF RelayInv
<1>3. \A x \in Exec \ {e} : Result(x)' BY ResultKept DEF RelayInv
<1>4. Result(e)' BY SMT DEF RelayInv, Result
<1> QED BY <1>1, <1>2, <1>3, <1>4 DEF RelayInv

LEMMA ConsumedFacts ==
  ASSUME RelayTypes, NEW e \in Exec, NEW n \in Nat, Consumed(e, n)
  PROVE  /\ peer' \in [Exec -> Peer]
         /\ \A x \in Exec : /\ peer'[x].frames = peer[x].frames /\ peer'[x].torn = peer[x].torn
                            /\ peer'[x].answer = peer[x].answer
<1>1. peer \in [Exec -> Peer] /\ peer[e] \in Peer /\ peer[e].inq \in Seq(Token)
  BY DEF RelayTypes, Peer
<1> DEFINE q == SubSeq(peer[e].inq, n + 1, Len(peer[e].inq))
<1>2. q \in Seq(Token) BY SMT, <1>1
<1>3. peer' = [peer EXCEPT ![e] = [peer[e] EXCEPT !.inq = q]] BY <1>1 DEF Consumed, Peer
<1> HIDE DEF q
<1>4. [peer[e] EXCEPT !.inq = q] \in Peer BY <1>1, <1>2 DEF Peer
<1>5. /\ peer' \in [Exec -> Peer] /\ peer'[e] = [peer[e] EXCEPT !.inq = q]
      /\ \A x \in Exec \ {e} : peer'[x] = peer[x]
  BY SMT, <1>1, <1>3, <1>4, SetAt
<1>6. /\ peer'[e].frames = peer[e].frames /\ peer'[e].torn = peer[e].torn
      /\ peer'[e].answer = peer[e].answer
  BY <1>1, <1>5 DEF Peer
<1> QED BY <1>5, <1>6

LEMMA GivenFacts ==
  ASSUME RelayTypes, NEW e \in Exec, NEW k \in Nat, pipe' = [pipe EXCEPT ![e].given = Append(@, k)]
  PROVE  /\ pipe' \in [Exec -> Pipe]
         /\ \A x \in Exec : pipe'[x].sent = pipe[x].sent /\ pipe'[x].eof = pipe[x].eof
<1>1. pipe \in [Exec -> Pipe] /\ pipe[e] \in Pipe /\ pipe[e].given \in Seq(Nat)
  BY DEF RelayTypes, Pipe
<1>2. Append(pipe[e].given, k) \in Seq(Nat) BY SMT, <1>1
<1>3. [pipe[e] EXCEPT !.given = Append(pipe[e].given, k)] \in Pipe BY <1>1, <1>2 DEF Pipe
<1>4. pipe' = [pipe EXCEPT ![e] = [pipe[e] EXCEPT !.given = Append(pipe[e].given, k)]]
  BY <1>1 DEF Pipe
<1>5. /\ pipe' \in [Exec -> Pipe] /\ pipe'[e] = [pipe[e] EXCEPT !.given = Append(pipe[e].given, k)]
      /\ \A x \in Exec \ {e} : pipe'[x] = pipe[x]
  BY SMT, <1>1, <1>3, <1>4, SetAt
<1>6. pipe'[e].sent = pipe[e].sent /\ pipe'[e].eof = pipe[e].eof BY <1>1, <1>5 DEF Pipe
<1> QED BY <1>5, <1>6

\* The locals of the relay of stdin.
LEMMA StdinLocals ==
  ASSUME RelayTypes, NEW e \in Exec, NEW k \in Nat,
         \/ loop' = [loop EXCEPT ![e].part = k]
         \/ loop' = [loop EXCEPT ![e].part = k, ![e].inOpen = FALSE]
         \/ loop' = [loop EXCEPT ![e].inDone = TRUE, ![e].inOpen = FALSE]
         \/ UNCHANGED loop
  PROVE  /\ loop' \in [Exec -> Loop] /\ \A x \in Exec \ {e} : loop'[x] = loop[x]
         /\ loop'[e].exit = loop[e].exit /\ loop'[e].done = loop[e].done
         /\ loop'[e].alive = loop[e].alive /\ loop'[e].drained = loop[e].drained
         /\ loop'[e].taken = loop[e].taken
<1>1. loop \in [Exec -> Loop] /\ loop[e] \in Loop BY DEF RelayTypes
<1>2. ASSUME NEW l \in Loop, loop' = [loop EXCEPT ![e] = l], l.exit = loop[e].exit,
             l.done = loop[e].done, l.alive = loop[e].alive, l.drained = loop[e].drained,
             l.taken = loop[e].taken
      PROVE  /\ loop' \in [Exec -> Loop] /\ \A x \in Exec \ {e} : loop'[x] = loop[x]
             /\ loop'[e].exit = loop[e].exit /\ loop'[e].done = loop[e].done
             /\ loop'[e].alive = loop[e].alive /\ loop'[e].drained = loop[e].drained
             /\ loop'[e].taken = loop[e].taken
  BY <1>1, <1>2, SetAt
<1>3. CASE loop' = [loop EXCEPT ![e].part = k]
  <2> DEFINE l == [loop[e] EXCEPT !.part = k]
  <2>1. loop' = [loop EXCEPT ![e] = l] BY <1>1, <1>3 DEF Loop
  <2>2. /\ l \in Loop /\ l.exit = loop[e].exit /\ l.done = loop[e].done /\ l.alive = loop[e].alive
        /\ l.drained = loop[e].drained /\ l.taken = loop[e].taken
    BY <1>1 DEF Loop
  <2> HIDE DEF l
  <2> QED BY <1>2, <2>1, <2>2
<1>4. CASE loop' = [loop EXCEPT ![e].part = k, ![e].inOpen = FALSE]
  <2> DEFINE l == [loop[e] EXCEPT !.part = k, !.inOpen = FALSE]
  <2>1. loop' = [loop EXCEPT ![e] = l] BY <1>1, <1>4 DEF Loop
  <2>2. /\ l \in Loop /\ l.exit = loop[e].exit /\ l.done = loop[e].done /\ l.alive = loop[e].alive
        /\ l.drained = loop[e].drained /\ l.taken = loop[e].taken
    BY <1>1 DEF Loop
  <2> HIDE DEF l
  <2> QED BY <1>2, <2>1, <2>2
<1>5. CASE loop' = [loop EXCEPT ![e].inDone = TRUE, ![e].inOpen = FALSE]
  <2> DEFINE l == [loop[e] EXCEPT !.inDone = TRUE, !.inOpen = FALSE]
  <2>1. loop' = [loop EXCEPT ![e] = l] BY <1>1, <1>5 DEF Loop
  <2>2. /\ l \in Loop /\ l.exit = loop[e].exit /\ l.done = loop[e].done /\ l.alive = loop[e].alive
        /\ l.drained = loop[e].drained /\ l.taken = loop[e].taken
    BY <1>1 DEF Loop
  <2> HIDE DEF l
  <2> QED BY <1>2, <2>1, <2>2
<1> QED BY <1>1, <1>3, <1>4, <1>5

LEMMA ReadStdinKeeps ==
  ASSUME RelayInv, NEW e \in Exec,
         ReadStdinFrame(e) \/ ReadHeader(e) \/ ReadGarbage(e) \/ ReadStdinEof(e) \/ Unblocked(e)
  PROVE  RelayInv'
<1>1. /\ RelayTypes /\ peer[e].inq \in Seq(Token) /\ loop[e].part \in Nat
      /\ peer \in [Exec -> Peer] /\ pipe \in [Exec -> Pipe]
      /\ task \in [Exec -> {"none", "asking", "relay", "stuck", "reconnect", "released", "over"}]
  BY DEF RelayInv, RelayTypes, Peer, Loop
<1>2. task[e] \in {"relay", "stuck"} /\ UNCHANGED <<holder, guest, asked, control>>
  BY DEF ReadStdinFrame, ReadHeader, ReadGarbage, ReadStdinEof, Unblocked, Reading, Looping
<1>3. peer[e].inq # <<>> => Head(peer[e].inq)[1] \in Nat /\ peer[e].inq[1][1] \in Nat
  <2>1. peer[e].inq # <<>> => Head(peer[e].inq) \in Token /\ peer[e].inq[1] \in Token BY SMT, <1>1
  <2> QED BY <2>1 DEF Token
<1>4. /\ task'[e] \in {"relay", "stuck"} /\ \A x \in Exec \ {e} : task'[x] = task[x]
      /\ task' \in [Exec -> {"none", "asking", "relay", "stuck", "reconnect", "released", "over"}]
  <2>1. UNCHANGED task \/ Goes(e, "stuck") \/ Goes(e, "relay")
    BY DEF ReadStdinFrame, WriteStdin, ReadHeader, ReadGarbage, ReadStdinEof, Unblocked
  <2> QED BY <1>1, <1>2, <2>1 DEF Goes
<1>5. /\ peer' \in [Exec -> Peer]
      /\ \A x \in Exec : peer'[x].frames = peer[x].frames /\ peer'[x].torn = peer[x].torn
  <2>1. UNCHANGED peer \/ \E n \in Nat : Consumed(e, n)
    <3>1. DOMAIN peer[e].inq \subseteq Nat BY SMT, <1>1
    <3> QED BY <3>1 DEF ReadStdinFrame, ReadHeader, ReadGarbage, ReadStdinEof, Unblocked
  <2> QED BY <1>1, <2>1, ConsumedFacts
<1>6. /\ pipe' \in [Exec -> Pipe]
      /\ \A x \in Exec : pipe'[x].sent = pipe[x].sent /\ pipe'[x].eof = pipe[x].eof
  <2>1. UNCHANGED pipe \/ \E k \in Nat : pipe' = [pipe EXCEPT ![e].given = Append(@, k)]
    BY <1>1, <1>3 DEF ReadStdinFrame, WriteStdin, WholeFrame, NextIs, ReadHeader, ReadGarbage,
       ReadStdinEof, Unblocked
  <2> QED BY <1>1, <2>1, GivenFacts
<1>7. \E k \in Nat : \/ loop' = [loop EXCEPT ![e].part = k]
                     \/ loop' = [loop EXCEPT ![e].part = k, ![e].inOpen = FALSE]
                     \/ loop' = [loop EXCEPT ![e].inDone = TRUE, ![e].inOpen = FALSE]
                     \/ UNCHANGED loop
  BY <1>1, <1>3 DEF ReadStdinFrame, WriteStdin, WholeFrame, NextIs, ReadHeader, ReadGarbage,
     ReadStdinEof, Unblocked
<1>8. /\ loop' \in [Exec -> Loop] /\ \A x \in Exec \ {e} : loop'[x] = loop[x]
      /\ loop'[e].exit = loop[e].exit /\ loop'[e].done = loop[e].done
      /\ loop'[e].alive = loop[e].alive /\ loop'[e].drained = loop[e].drained
      /\ loop'[e].taken = loop[e].taken
  BY <1>1, <1>7, StdinLocals
<1> QED BY SMT, <1>2, <1>4, <1>5, <1>6, <1>8, StdinKeeps

LEMMA SendsKeep == ASSUME RelayInv, NEW e \in Exec, ClientSends(e) PROVE RelayInv'
<1>1. UNCHANGED <<holder, task, loop, guest, asked, control, pipe>> BY DEF ClientSends
<1>2. /\ peer' \in [Exec -> Peer]
      /\ \A x \in Exec : peer'[x].frames = peer[x].frames /\ peer'[x].torn = peer[x].torn
  BY SendTypes DEF RelayInv
<1>3. RelayTypes' BY <1>1, <1>2 DEF RelayInv, RelayTypes
<1>4. GuestInv' BY <1>1, GuestKept DEF RelayInv
<1>5. \A x \in Exec : Result(x)' BY <1>1, <1>2, ResultKept DEF RelayInv
<1> QED BY <1>3, <1>4, <1>5 DEF RelayInv

\* Outside its command loop the agent serves the exec that holds the connection.
LEMMA AgentServes ==
  ASSUME RelayInv, guest.at \in {"run", "drain", "exit", "ready", "accept"}
  PROVE  ~guest.lost /\ holder \in Exec /\ guest.exec = holder /\ asked = NoExec /\ Stage(holder)
<1>1. ~guest.lost BY DEF RelayInv, GuestInv
<1>2. holder # NoExec /\ holder \in Exec /\ Stage(holder)
  BY <1>1 DEF RelayInv, RelayTypes, GuestInv
<1> QED BY <1>1, <1>2 DEF Stage

\* A step of the agent keeps the invariant when it keeps the guest's part of it.
LEMMA AgentKeeps ==
  ASSUME RelayInv, UNCHANGED <<holder, task, loop, peer>>, asked' \in Exec \cup {NoExec},
         guest' \in [at : {"idle", "run", "drain", "exit", "ready", "accept", "gone"},
                     exec : Exec \cup {NoExec}, lost : BOOLEAN],
         guest'.lost <=> guest'.at = "gone", guest.lost => guest'.lost,
         control' \in Seq(Message), \A i \in DOMAIN control' : control'[i].exec = holder,
         holder = NoExec => asked' = NoExec /\ control' = <<>> /\ guest'.lost,
         holder # NoExec /\ ~guest'.lost => Stage(holder)',
         pipe' \in [Exec -> Pipe],
         \A x \in Exec : /\ pipe[x].eof \subseteq pipe'[x].eof
                         /\ \A s \in loop[x].done : loop[x].drained => pipe'[x].sent[s] = pipe[x].sent[s]
  PROVE  RelayInv'
<1>1. RelayTypes' BY DEF RelayInv, RelayTypes
<1>2. GuestInv' BY DEF RelayInv, GuestInv
<1>3. \A x \in Exec : Result(x)' BY SMT DEF RelayInv, Result
<1> QED BY <1>1, <1>2, <1>3 DEF RelayInv

LEMMA EofFacts ==
  ASSUME RelayTypes, NEW h \in Exec, NEW ends \in SUBSET GuestStream, pipe[h].eof \subseteq ends,
         pipe' = [pipe EXCEPT ![h].eof = ends]
  PROVE  /\ pipe' \in [Exec -> Pipe]
         /\ \A x \in Exec : pipe'[x].sent = pipe[x].sent /\ pipe[x].eof \subseteq pipe'[x].eof
<1>1. pipe \in [Exec -> Pipe] /\ pipe[h] \in Pipe BY DEF RelayTypes
<1>2. [pipe[h] EXCEPT !.eof = ends] \in Pipe BY <1>1 DEF Pipe
<1>3. pipe' = [pipe EXCEPT ![h] = [pipe[h] EXCEPT !.eof = ends]] BY <1>1 DEF Pipe
<1>4. /\ pipe' \in [Exec -> Pipe] /\ pipe'[h] = [pipe[h] EXCEPT !.eof = ends]
      /\ \A x \in Exec \ {h} : pipe'[x] = pipe[x]
  BY SMT, <1>1, <1>2, <1>3, SetAt
<1>5. pipe'[h].sent = pipe[h].sent /\ pipe'[h].eof = ends BY <1>1, <1>4 DEF Pipe
<1> QED BY <1>4, <1>5

LEMMA AppendTwo == ASSUME NEW S, NEW a \in S, NEW b \in S PROVE Append(<<a>>, b) = <<a, b>>
<1> DEFINE p == Append(<<a>>, b)
           q == <<a, b>>
<1>1. <<a>> \in Seq(S) /\ Len(<<a>>) = 1 /\ q \in Seq(S) /\ Len(q) = 2 BY SMT
<1>2. p \in Seq(S) /\ Len(p) = 2 BY SMT, <1>1
<1>3. p[1] = q[1] /\ p[2] = q[2] BY SMT
<1>4. DOMAIN p = 1 .. 2 /\ DOMAIN q = 1 .. 2 BY SMT, <1>1, <1>2
<1>5. p = [i \in 1 .. 2 |-> p[i]] /\ q = [i \in 1 .. 2 |-> q[i]] BY SMT, <1>1, <1>2, <1>4
<1>6. \A i \in 1 .. 2 : p[i] = q[i] BY SMT, <1>3
<1> QED BY <1>5, <1>6

LEMMA AgentStep == ASSUME RelayInv, Agent PROVE RelayInv'
<1>0. /\ RelayTypes /\ GuestInv /\ control \in Seq(Message)
      /\ UNCHANGED <<holder, task, loop, peer>>
      /\ guest \in [at : {"idle", "run", "drain", "exit", "ready", "accept", "gone"},
                    exec : Exec \cup {NoExec}, lost : BOOLEAN]
      /\ pipe \in [Exec -> Pipe] /\ asked \in Exec \cup {NoExec}
  BY DEF RelayInv, RelayTypes, Agent, TakeExec, ScriptEnds, Drained, DrainAborted, ReportExit,
     ReportStreamsReady, GuestLost, ScriptWrites, StreamEnds
<1>1. \A i \in DOMAIN control : control[i].exec = holder BY SMT, <1>0 DEF GuestInv
<1>2. CASE TakeExec
  <2>1. guest.at = "idle" /\ asked # NoExec /\ asked' = NoExec /\ UNCHANGED <<control, pipe>>
    BY <1>2 DEF TakeExec
  <2>2. ~guest.lost /\ holder # NoExec /\ holder \in Exec /\ Stage(holder)
    BY <1>0, <2>1 DEF GuestInv, RelayTypes
  <2>3. asked = holder /\ control = <<>> /\ loop[holder].exit = NoExec BY <2>1, <2>2 DEF Stage
  <2>4. guest' = [guest EXCEPT !.at = "run", !.exec = holder] BY <1>2, <2>3 DEF TakeExec
  <2>5. /\ guest' \in [at : {"idle", "run", "drain", "exit", "ready", "accept", "gone"},
                       exec : Exec \cup {NoExec}, lost : BOOLEAN]
        /\ guest'.at = "run" /\ guest'.exec = holder /\ guest'.lost = guest.lost
    BY <1>0, <2>2, <2>4
  <2>6. Stage(holder)' BY <1>0, <2>1, <2>3, <2>5 DEF Stage
  <2> QED BY <1>0, <1>1, <2>1, <2>2, <2>5, <2>6, AgentKeeps
<1>3. CASE GuestLost
  <2>1. guest' = [guest EXCEPT !.lost = TRUE, !.at = "gone"] /\ UNCHANGED <<asked, control, pipe>>
    BY <1>3 DEF GuestLost
  <2>2. /\ guest' \in [at : {"idle", "run", "drain", "exit", "ready", "accept", "gone"},
                       exec : Exec \cup {NoExec}, lost : BOOLEAN]
        /\ guest'.at = "gone" /\ guest'.lost
    BY <1>0, <2>1
  <2>3. holder = NoExec => asked = NoExec /\ control = <<>> BY <1>0 DEF GuestInv
  <2> QED BY <1>0, <1>1, <2>1, <2>2, <2>3, AgentKeeps
<1>4. CASE ScriptEnds \/ Drained \/ DrainAborted
  <2>1. guest.at \in {"run", "drain"} /\ UNCHANGED <<asked, control>>
    BY <1>4 DEF ScriptEnds, Drained, DrainAborted
  <2>2. ~guest.lost /\ holder \in Exec /\ guest.exec = holder /\ asked = NoExec /\ Stage(holder)
    BY <2>1, AgentServes
  <2>3. control = <<>> /\ loop[holder].exit = NoExec BY <2>1, <2>2 DEF Stage
  <2>4. PICK step \in {"drain", "exit"} : guest' = [guest EXCEPT !.at = step]
    BY <1>4 DEF ScriptEnds, Drained, DrainAborted, GuestGoes
  <2>5. /\ guest' \in [at : {"idle", "run", "drain", "exit", "ready", "accept", "gone"},
                       exec : Exec \cup {NoExec}, lost : BOOLEAN]
        /\ guest'.at \in {"drain", "exit"} /\ guest'.exec = holder /\ guest'.lost = guest.lost
    BY <1>0, <2>2, <2>4
  <2>6. Stage(holder)' BY <1>0, <2>1, <2>2, <2>3, <2>5 DEF Stage
  <2>7. /\ pipe' \in [Exec -> Pipe]
        /\ \A x \in Exec : pipe'[x].sent = pipe[x].sent /\ pipe[x].eof \subseteq pipe'[x].eof
    <3>1. pipe[holder].eof \subseteq GuestStream BY <1>0, <2>2 DEF Pipe
    <3>2. UNCHANGED pipe \/ pipe' = [pipe EXCEPT ![holder].eof = GuestStream]
      BY <1>4, <2>2 DEF ScriptEnds, Drained, DrainAborted
    <3> QED BY <1>0, <2>2, <3>1, <3>2, EofFacts
  <2> QED BY <1>0, <1>1, <2>1, <2>2, <2>5, <2>6, <2>7, ExecAssumption, AgentKeeps
<1>5. CASE ReportExit \/ ReportStreamsReady
  <2>1. guest.at \in {"exit", "ready"} /\ UNCHANGED <<asked, pipe>>
    BY <1>5 DEF ReportExit, ReportStreamsReady
  <2>2. ~guest.lost /\ holder \in Exec /\ guest.exec = holder /\ asked = NoExec /\ Stage(holder)
    BY <2>1, AgentServes
  <2>3. PICK step \in {"ready", "accept"}, kind \in {"Exit", "StreamsReady"} :
          /\ guest' = [guest EXCEPT !.at = step]
          /\ control' = Append(control, [kind |-> kind, exec |-> holder])
          /\ \/ step = "ready" /\ kind = "Exit" /\ guest.at = "exit"
             \/ step = "accept" /\ kind = "StreamsReady" /\ guest.at = "ready"
    BY <1>5, <2>2 DEF ReportExit, ReportStreamsReady, GuestSends, GuestGoes
  <2>4. /\ guest' \in [at : {"idle", "run", "drain", "exit", "ready", "accept", "gone"},
                       exec : Exec \cup {NoExec}, lost : BOOLEAN]
        /\ guest'.at = step /\ guest'.exec = holder /\ guest'.lost = guest.lost
    BY <1>0, <2>2, <2>3
  <2>5. [kind |-> kind, exec |-> holder] \in Message BY <2>2 DEF Message
  <2>6. control' \in Seq(Message) /\ \A i \in DOMAIN control' : control'[i].exec = holder
    BY SMT, <1>0, <1>1, <2>3, <2>5
  <2>7. Stage(holder)'
    <3>1. CASE kind = "Exit"
      <4>1. control = <<>> /\ loop[holder].exit = NoExec BY <2>2, <2>3, <3>1 DEF Stage
      <4>2. control' = <<ExitOf(holder)>> BY SMT, <2>3, <3>1, <4>1 DEF ExitOf
      <4> QED BY <1>0, <2>1, <2>2, <2>3, <2>4, <3>1, <4>1, <4>2 DEF Stage
    <3>2. CASE kind = "StreamsReady" /\ control = <<>>
      <4>1. loop[holder].exit = holder BY <2>2, <2>3, <3>2 DEF Stage
      <4>2. control' = <<ReadyOf(holder)>> BY SMT, <2>3, <3>2 DEF ReadyOf
      <4> QED BY <1>0, <2>1, <2>2, <2>3, <2>4, <3>2, <4>1, <4>2 DEF Stage
    <3>3. CASE kind = "StreamsReady" /\ control # <<>>
      <4>1. loop[holder].exit = NoExec /\ control = <<ExitOf(holder)>> BY <2>2, <2>3, <3>3 DEF Stage
      <4>2. control' = <<ExitOf(holder), ReadyOf(holder)>>
        <5>1. ExitOf(holder) \in Message /\ ReadyOf(holder) \in Message
          BY <2>2 DEF Message, ExitOf, ReadyOf
        <5>2. control' = Append(<<ExitOf(holder)>>, ReadyOf(holder))
          BY <2>3, <3>3, <4>1 DEF ReadyOf
        <5> QED BY <5>1, <5>2, AppendTwo
      <4> QED BY <1>0, <2>1, <2>2, <2>3, <2>4, <3>3, <4>1, <4>2 DEF Stage
    <3> QED BY <3>1, <3>2, <3>3
  <2> QED BY <1>0, <2>1, <2>2, <2>3, <2>4, <2>6, <2>7, ExecAssumption, AgentKeeps
<1>6. ASSUME NEW s \in GuestStream, ScriptWrites(s) PROVE RelayInv'
  <2>1. guest.at = "run" /\ s \notin pipe[guest.exec].eof /\ UNCHANGED <<guest, asked, control>>
    BY <1>6 DEF ScriptWrites
  <2>2. ~guest.lost /\ holder \in Exec /\ guest.exec = holder /\ asked = NoExec /\ Stage(holder)
    BY <2>1, AgentServes
  <2>3. pipe[holder] \in Pipe /\ pipe[holder].sent \in [GuestStream -> Nat] BY <1>0, <2>2 DEF Pipe
  <2> DEFINE more == [pipe[holder].sent EXCEPT ![s] = pipe[holder].sent[s] + 1]
  <2>4. more \in [GuestStream -> Nat] /\ \A x \in GuestStream \ {s} : more[x] = pipe[holder].sent[x]
    BY SMT, <2>3
  <2>5. pipe' = [pipe EXCEPT ![holder] = [pipe[holder] EXCEPT !.sent = more]]
    BY <1>0, <1>6, <2>2, <2>3 DEF ScriptWrites, Pipe
  <2> HIDE DEF more
  <2>6. /\ [pipe[holder] EXCEPT !.sent = more] \in Pipe
        /\ [pipe[holder] EXCEPT !.sent = more].sent = more
        /\ [pipe[holder] EXCEPT !.sent = more].eof = pipe[holder].eof
    BY <2>3, <2>4 DEF Pipe
  <2>7. /\ pipe' \in [Exec -> Pipe] /\ pipe'[holder].sent = more /\ pipe'[holder].eof = pipe[holder].eof
        /\ \A x \in Exec \ {holder} : pipe'[x] = pipe[x]
    BY SMT, <1>0, <2>2, <2>5, <2>6, SetAt
  <2>8. loop[holder].drained => s \notin loop[holder].done
    BY SMT, <2>1, <2>2 DEF RelayInv, Result
  <2>9. loop[holder].done \subseteq GuestStream BY <2>2 DEF RelayInv, RelayTypes, Loop
  <2>10. Stage(holder)' BY <1>0, <2>1, <2>2 DEF Stage
  <2>11. \A x \in Exec : /\ pipe[x].eof \subseteq pipe'[x].eof
                         /\ \A z \in loop[x].done : loop[x].drained => pipe'[x].sent[z] = pipe[x].sent[z]
    BY SMT, <2>4, <2>7, <2>8, <2>9
  <2> QED BY <1>0, <1>1, <2>1, <2>2, <2>7, <2>10, <2>11, ExecAssumption, AgentKeeps DEF GuestInv
<1>7. ASSUME NEW s \in GuestStream, StreamEnds(s) PROVE RelayInv'
  <2>1. /\ guest.at \in {"run", "drain", "exit", "ready", "accept"}
        /\ UNCHANGED <<guest, asked, control>>
    BY <1>7 DEF StreamEnds
  <2>2. ~guest.lost /\ holder \in Exec /\ guest.exec = holder /\ asked = NoExec /\ Stage(holder)
    BY <2>1, AgentServes
  <2>3. /\ pipe' \in [Exec -> Pipe]
        /\ \A x \in Exec : pipe'[x].sent = pipe[x].sent /\ pipe[x].eof \subseteq pipe'[x].eof
    <3>1. pipe[holder].eof \cup {s} \in SUBSET GuestStream BY <1>0, <2>2 DEF Pipe
    <3>2. pipe' = [pipe EXCEPT ![holder].eof = pipe[holder].eof \cup {s}]
      BY <1>0, <1>7, <2>2 DEF StreamEnds
    <3> QED BY <1>0, <2>2, <3>1, <3>2, EofFacts
  <2>4. Stage(holder)' BY <1>0, <2>1, <2>2 DEF Stage
  <2> QED BY <1>0, <1>1, <2>1, <2>2, <2>3, <2>4, ExecAssumption, AgentKeeps DEF GuestInv
<1> QED BY <1>2, <1>3, <1>4, <1>5, <1>6, <1>7 DEF Agent

LEMMA RelayStep == ASSUME RelayInv, [ExecNext]_execVars PROVE RelayInv'
<1>1. CASE GuestReady \/ UNCHANGED execVars
  <2>1. UNCHANGED <<holder, task, loop, peer, guest, asked, control, pipe>> BY <1>1 DEF GuestReady
  <2>2. RelayTypes' BY <2>1 DEF RelayInv, RelayTypes
  <2>3. GuestInv' BY <2>1, GuestKept DEF RelayInv
  <2>4. \A x \in Exec : Result(x)' BY <2>1, ResultKept DEF RelayInv
  <2> QED BY <2>2, <2>3, <2>4 DEF RelayInv
<1>2. ASSUME NEW e \in Exec, Host(e) PROVE RelayInv'
  BY <1>2, AskKeeps, AdmitKeeps, ReadOutputKeeps, SelectKeeps, ControlKeeps, DropKeeps,
     ReconnectKeeps, ReadStdinKeeps DEF Host
<1>3. ASSUME NEW e \in Exec, ExecConnects(e) \/ ClientSends(e) \/ Unblocked(e) PROVE RelayInv'
  BY <1>3, AskKeeps, SendsKeep, ReadStdinKeeps
<1> QED BY <1>1, <1>2, <1>3, AgentStep DEF ExecNext

LEMMA RelayInvHolds == ExecSpec => []RelayInv
<1>1. ExecInit => RelayInv
  <2> SUFFICES ASSUME ExecInit PROVE RelayInv OBVIOUS
  <2>1. NoClient \in Peer /\ [NoClient EXCEPT !.sent = 2 * MaxFrames + 1] \in Peer
    <3>1. NoChunks \in [GuestStream -> Nat] BY DEF NoChunks
    <3>2. <<>> \in Seq(Token) BY SMT, NoneIn
    <3>3. 2 * MaxFrames + 1 \in Nat BY SMT, FramesAssumption
    <3>4. NoClient \in Peer BY <3>1, <3>2 DEF NoClient, Peer
    <3> QED BY <3>3, <3>4 DEF Peer
  <2>2. peer \in [Exec -> Peer] BY <2>1 DEF ExecInit
  <2>3. control \in Seq(Message) BY SMT, NoneIn DEF ExecInit
  <2>4. RelayTypes BY SMT, <2>2, <2>3, Blank DEF ExecInit, RelayTypes
  <2>5. GuestInv BY SMT, ExecAssumption DEF ExecInit, GuestInv, InRelay
  <2>6. ASSUME NEW e \in Exec PROVE Result(e)
    <3>1. ~peer[e].torn /\ peer[e].frames = NoChunks
      <4>1. peer[e] \in {NoClient, [NoClient EXCEPT !.sent = 2 * MaxFrames + 1]} BY SMT DEF ExecInit
      <4> QED BY SMT, <4>1 DEF NoClient
    <3> QED BY <3>1 DEF ExecInit, Result, NoRelay
  <2> QED BY <2>4, <2>5, <2>6 DEF RelayInv
<1> QED BY <1>1, RelayStep, PTL DEF ExecSpec

\* Whatever execs came before, and however they ended, the connection in the slot is one
\* with an agent at its command loop and nothing on its way: handle_exec gives it back
\* only after the streams of its exec are made anew, or not at all.
THEOREM SlotIsClean == ExecSpec => []ReadyIsClean
<1>1. RelayInv => ReadyIsClean BY DEF RelayInv, GuestInv, ReadyIsClean
<1> QED BY <1>1, RelayInvHolds, PTL

\* An exit code is given in one place only, and only to a client not given up.
LEMMA ExitIsWritten ==
  ASSUME RelayInv, [ExecNext]_execVars, NEW e \in Exec, GivenExit(e)
  PROVE  task[e] = "released" /\ loop[e].alive /\ loop[e].exit # NoExec
<1>1. peer[e].answer = "none" /\ peer'[e].answer = "exit" /\ RelayTypes BY DEF GivenExit, RelayInv
<1>2. ASSUME NEW x \in Exec, NEW answer \in {"closed", "refused", "watchdog", "exit"}, Ends(x, answer)
      PROVE  x = e /\ answer = "exit"
  <2>1. x = e BY SMT, <1>1, <1>2, EndsFacts
  <2>2. peer'[e] = [NoClient EXCEPT !.answer = answer] BY <1>1, <1>2, <2>1, EndsFacts
  <2>3. peer'[e].answer = answer BY SMT, <2>2 DEF NoClient
  <2> QED BY <1>1, <2>1, <2>3
<1>3. ASSUME NEW x \in Exec, WriteExit(x)
      PROVE  task[e] = "released" /\ loop[e].alive /\ loop[e].exit # NoExec
  <2>1. ~Ends(x, "closed") BY <1>2
  <2>2. /\ task[x] = "released" /\ loop[x].alive
        /\ Ends(x, IF loop[x].exit = NoExec THEN "watchdog" ELSE "exit")
    BY <1>3, <2>1 DEF WriteExit
  <2>3. CASE loop[x].exit = NoExec
    <3>1. Ends(x, "watchdog") BY <2>2, <2>3
    <3> QED BY <1>2, <3>1
  <2>4. CASE loop[x].exit # NoExec
    <3>1. Ends(x, "exit") BY <2>2, <2>4
    <3> QED BY <1>2, <2>2, <2>4, <3>1
  <2> QED BY <2>3, <2>4
<1>4. ~UNCHANGED peer BY <1>1
<1>5. ASSUME NEW x \in Exec PROVE ~ClientSends(x)
  BY <1>1, SendTypes
<1>6. ASSUME NEW x \in Exec, NEW n \in Nat PROVE ~Consumed(x, n)
  BY <1>1, ConsumedFacts
<1>7. ASSUME NEW x \in Exec, NEW s \in GuestStream PROVE ~ReadOutput(x, s)
  <2>1. peer \in [Exec -> Peer] /\ peer[x] \in Peer /\ peer[e] \in Peer BY <1>1 DEF RelayTypes
  <2>2. SUFFICES ASSUME \/ peer' = [peer EXCEPT ![x].frames[s] = @ + 1]
                        \/ peer' = [peer EXCEPT ![x].torn = TRUE]
                 PROVE  peer'[e].answer = peer[e].answer
    BY <1>1, <1>4 DEF ReadOutput
  <2>3. CASE peer' = [peer EXCEPT ![x].frames[s] = @ + 1]
    <3>1. peer' = [peer EXCEPT ![x] = [peer[x] EXCEPT !.frames = [peer[x].frames EXCEPT ![s] = @ + 1]]]
      BY <2>1, <2>3 DEF Peer
    <3>2. [peer[x] EXCEPT !.frames = [peer[x].frames EXCEPT ![s] = @ + 1]].answer = peer[x].answer
      BY <2>1 DEF Peer
    <3> QED BY <2>1, <3>1, <3>2
  <2>4. CASE peer' = [peer EXCEPT ![x].torn = TRUE] BY <2>1, <2>4 DEF Peer
  <2> QED BY <2>2, <2>3, <2>4
<1>8. ASSUME NEW x \in Exec PROVE ~(ReadStdinFrame(x) \/ ReadHeader(x) \/ ReadGarbage(x))
  <2>1. DOMAIN peer[x].inq \subseteq Nat BY SMT, <1>1 DEF RelayTypes, Peer
  <2> QED BY <1>6, <2>1 DEF ReadStdinFrame, ReadHeader, ReadGarbage
<1>9. ASSUME NEW x \in Exec
      PROVE  ~(ExecConnects(x) \/ ExecRefused(x) \/ ExecAdmitted(x) \/ RelayFails(x))
  BY SMT, <1>2, <1>4 DEF ExecConnects, ExecRefused, ExecAdmitted, RelayFails
<1>10. ASSUME NEW x \in Exec
       PROVE  /\ ~(ReadControl(x) \/ PostExitDrain(x) \/ Watchdog(x) \/ ReadStdinEof(x))
              /\ ~(Unblocked(x) \/ RelayEnds(x) \/ Reconnects(x) \/ ReconnectFails(x))
              /\ \A s \in GuestStream : ~ReadOutputEof(x, s)
  BY <1>4 DEF ReadControl, PostExitDrain, Watchdog, ReadStdinEof, Unblocked, RelayEnds, Reconnects,
     ReconnectFails, ReadOutputEof
<1>11. ~GuestReady /\ ~Agent
  BY <1>4 DEF GuestReady, Agent, TakeExec, ScriptEnds, Drained, DrainAborted, ReportExit,
     ReportStreamsReady, GuestLost, ScriptWrites, StreamEnds
<1> QED BY <1>3, <1>4, <1>5, <1>7, <1>8, <1>9, <1>10, <1>11 DEF ExecNext, Host

\* The exit code a client is given is the one of its own script, and the client has the
\* output by then that OwnResult says, although the host never compares the id in the
\* Exit message: the agent reports the exec that holds the connection
\* (stream_exec_on_guest, classify_data_read, handle_exec).
THEOREM ResultsAreOwn == ExecSpec => OwnResult
<1>1. ASSUME RelayInv, [ExecNext]_execVars, NEW e \in Exec, GivenExit(e)
      PROVE  /\ loop[e].exit = e
             /\ ~ peer[e].torn /\ peer[e].frames = loop[e].taken
             /\ loop[e].drained =>
                  \A s \in GuestStream :
                    loop[e].taken[s] = pipe[e].sent[s] \/ (guest.lost /\ loop[e].taken[s] = 0)
  <2>1. task[e] = "released" /\ loop[e].alive /\ loop[e].exit # NoExec BY <1>1, ExitIsWritten
  <2>2. Result(e) BY <1>1 DEF RelayInv
  <2> QED BY <2>1, <2>2 DEF Result
<1>2. RelayInv /\ [ExecNext]_execVars =>
        [\A e \in Exec : GivenExit(e) =>
           /\ loop[e].exit = e
           /\ ~ peer[e].torn /\ peer[e].frames = loop[e].taken
           /\ loop[e].drained =>
                \A s \in GuestStream :
                  loop[e].taken[s] = pipe[e].sent[s] \/ (guest.lost /\ loop[e].taken[s] = 0)]_execVars
  BY <1>1
<1> QED BY <1>2, RelayInvHolds, PTL DEF ExecSpec, OwnResult
=============================================================================
