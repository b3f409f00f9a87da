--------------------------- MODULE WslcExec_proofs ---------------------------
(***************************************************************************)
(* The execs of the WSLc daemon, for any number of execs, ids, clients and *)
(* permits: a run is cancelled only by its own client, no more processes   *)
(* than MAX_CONCURRENT_EXECS may run, and the terminator of an admitted    *)
(* exec finds room in the lane.                                            *)
(***************************************************************************)
EXTENDS WslcExec, FiniteSetTheorems, TLAPS

LinkState == {"none", "accepted", "admit", "stream", "relay", "hold", "parked", "refused", "closed"}

LEMMA ExecConn ==
  ASSUME NEW e \in Exec, NEW k \in Kind
  PROVE  <<e, k>> \in Conn /\ <<e, k>> \notin Other /\ <<e, k>>[1] = e
BY OtherAssumption DEF Conn

LEMMA Counts ==
  /\ IsFiniteSet(Conn) /\ \A p : Using(p) \in Nat
  /\ Admitted \subseteq Exec /\ IsFiniteSet(Admitted) /\ Cardinality(Admitted) \in Nat
<1>1. IsFiniteSet(Kind)
  <2>1. Kind = {"exec"} \cup {"kill"} \cup {"cancel"} \cup {"stdin"} BY DEF Kind
  <2>2. IsFiniteSet({"exec"} \cup {"kill"}) BY FS_Singleton, FS_AddElement
  <2>3. IsFiniteSet({"exec"} \cup {"kill"} \cup {"cancel"}) BY <2>2, FS_AddElement
  <2> QED BY <2>1, <2>3, FS_AddElement
<1>2. IsFiniteSet(Conn) BY <1>1, FiniteAssumption, FS_Product, FS_Union DEF Conn
<1>3. ASSUME NEW p PROVE Using(p) \in Nat
  <2>1. {c \in Conn : permit[c] = p} \in SUBSET Conn OBVIOUS
  <2> QED BY <1>2, <2>1, FS_Subset, FS_CardinalityType DEF Using
<1>4. Admitted \in SUBSET Exec BY DEF Admitted
<1>5. IsFiniteSet(Admitted) BY <1>4, FiniteAssumption, FS_Subset
<1> QED BY <1>2, <1>3, <1>4, <1>5, FS_CardinalityType

\* The connection and the permit of a task that ends.
LEMMA EndsTypes ==
  ASSUME link \in [Conn -> LinkState], permit \in [Conn -> {"none", "general", "lane"}],
         NEW c \in Conn, Ends(c)
  PROVE  /\ link' \in [Conn -> LinkState] /\ permit' \in [Conn -> {"none", "general", "lane"}]
         /\ \A d \in Conn : d # c => link'[d] = link[d] /\ permit'[d] = permit[d]
         /\ link'[c] = "closed" /\ permit'[c] = "none"
BY DEF Ends, LinkState

\* The connection and the permit of one that is accepted or refused.
LEMMA ConnectsTypes ==
  ASSUME link \in [Conn -> LinkState], permit \in [Conn -> {"none", "general", "lane"}],
         NEW c \in Conn, Connects(c)
  PROVE  /\ link' \in [Conn -> LinkState] /\ permit' \in [Conn -> {"none", "general", "lane"}]
         /\ \A d \in Conn : d # c => link'[d] = link[d] /\ permit'[d] = permit[d]
         /\ link'[c] \in {"accepted", "refused"}
         /\ link'[c] = "refused" <=> permit'[c] = "none"
         /\ link'[c] = "refused" => Using("lane") >= Lane
<1> DEFINE p == IF Using("general") < Clients THEN "general"
                ELSE IF Using("lane") < Lane THEN "lane" ELSE "none"
<1>1. /\ p \in {"none", "general", "lane"}
      /\ permit' = [permit EXCEPT ![c] = p]
      /\ link' = [link EXCEPT ![c] = IF p = "none" THEN "refused" ELSE "accepted"]
  BY DEF Connects
<1>2. p = "none" => Using("lane") >= Lane BY Counts, LaneAssumption
<1> HIDE DEF p
<1> QED BY <1>1, <1>2 DEF LinkState
-----------------------------------------------------------------------------
(* Connections. A terminator's connection is opened only by a terminator    *)
(* that was called; the one on which an exec's own threads cancel it, only  *)
(* to repeat that or because the pump has failed.                           *)

ClientTypes ==
  /\ idOf \in [Exec -> ExecId]
  /\ caller \in [Exec -> {"starting", "admitted", "replaying", "reading", "answered", "failed", "gone"}]
  /\ wanted \in [Exec -> BOOLEAN] /\ failed \in [Exec -> BOOLEAN]

ConnInv ==
  /\ link \in [Conn -> LinkState] /\ permit \in [Conn -> {"none", "general", "lane"}]
  /\ \A c \in Conn : link[c] = "none" => permit[c] = "none"
  /\ \A e \in Exec : link[<<e, "kill">>] # "none" => wanted[e]
  /\ \A e \in Exec : link[<<e, "cancel">>] # "none" => wanted[e] \/ failed[e]

FlagInv == flag \in [Exec -> BOOLEAN] /\ CancelledByItsOwn

OwnInv == ClientTypes /\ ConnInv /\ FlagInv

\* A task that runs ends, or goes on to another step.
LEMMA TaskStep ==
  ASSUME ConnInv, UNCHANGED <<wanted, failed>>, NEW c \in Conn,
         link[c] # "none" \/ c \in Exec \X {"exec"},
         \/ Ends(c)
         \/ \E step \in LinkState \ {"none"} : link' = [link EXCEPT ![c] = step] /\ UNCHANGED permit
  PROVE  ConnInv'
<1>1. CASE Ends(c)
  BY <1>1, EndsTypes DEF ConnInv, Conn, Kind
<1>2. ASSUME NEW step \in LinkState \ {"none"}, link' = [link EXCEPT ![c] = step], UNCHANGED permit
      PROVE  ConnInv'
  <2>1. /\ link' \in [Conn -> LinkState] /\ link'[c] # "none"
        /\ \A d \in Conn : d # c => link'[d] = link[d]
    BY <1>2 DEF ConnInv
  <2> QED BY <1>2, <2>1 DEF ConnInv, Conn, Kind
<1> QED BY <1>1, <1>2

\* A client connects, for a reason when the connection is one to cancel.
LEMMA ConnectStep ==
  ASSUME ConnInv, NEW c \in Conn, Connects(c),
         \A e \in Exec : /\ wanted[e] => wanted'[e]
                         /\ failed[e] => failed'[e]
                         /\ c = <<e, "kill">> => wanted'[e]
                         /\ c = <<e, "cancel">> => wanted'[e] \/ failed'[e]
  PROVE  ConnInv'
<1>1. /\ link' \in [Conn -> LinkState] /\ permit' \in [Conn -> {"none", "general", "lane"}]
      /\ \A d \in Conn : d # c => link'[d] = link[d] /\ permit'[d] = permit[d]
      /\ link'[c] # "none"
  BY ConnectsTypes DEF ConnInv
<1>2. \A d \in Conn : link'[d] = "none" => permit'[d] = "none"
  BY <1>1 DEF ConnInv
<1>3. ASSUME NEW e \in Exec PROVE /\ link'[<<e, "kill">>] # "none" => wanted'[e]
                                  /\ link'[<<e, "cancel">>] # "none" => wanted'[e] \/ failed'[e]
  <2>1. <<e, "kill">> \in Conn /\ <<e, "cancel">> \in Conn BY ExecConn DEF Kind
  <2> QED BY <1>1, <2>1 DEF ConnInv
<1> QED BY <1>1, <1>2, <1>3 DEF ConnInv

\* cancel_exec by one who may.
LEMMA CancelledStep ==
  ASSUME FlagInv, NEW e \in Exec, NEW entries, Cancelled(e, entries), UNCHANGED <<wanted, failed, caller>>,
         wanted[e] \/ failed[e] \/ caller[e] = "gone"
  PROVE  FlagInv'
BY DEF FlagInv, CancelledByItsOwn, Cancelled

\* Any other step: no flag is set, and nobody takes back a reason to set one.
LEMMA FlagKept ==
  ASSUME FlagInv, UNCHANGED flag,
         \A e \in Exec : /\ wanted[e] => wanted'[e]
                         /\ failed[e] => failed'[e]
                         /\ caller[e] = "gone" => caller'[e] = "gone"
  PROVE  FlagInv'
BY DEF FlagInv, CancelledByItsOwn

LEMMA OwnStep == ASSUME OwnInv, [Next]_vars PROVE OwnInv'
<1> USE DEF OwnInv
<1>0. CASE UNCHANGED vars
  BY <1>0 DEF vars, ClientTypes, ConnInv, FlagInv, CancelledByItsOwn
<1>1. ASSUME NEW c \in Conn, Busy(c) PROVE OwnInv'
  <2>1. ClientTypes' BY <1>1 DEF Busy, ClientTypes
  <2>2. ConnInv' BY <1>1, TaskStep DEF Busy
  <2>3. FlagInv' BY <1>1, FlagKept DEF Busy, daemonVars
  <2> QED BY <2>1, <2>2, <2>3
<1>2. ASSUME NEW c \in Conn, CancelExec(c) PROVE OwnInv'
  <2>1. ClientTypes' BY <1>2 DEF CancelExec, clientVars, ClientTypes
  <2>2. ConnInv' BY <1>2, TaskStep DEF CancelExec, clientVars
  <2>3. PICK e \in Exec : c \in {<<e, "kill">>, <<e, "cancel">>} /\ Cancelled(e, active)
    BY <1>2 DEF CancelExec
  <2>4. wanted[e] \/ failed[e] BY <1>2, <2>3 DEF CancelExec, ConnInv
  <2>5. FlagInv' BY <1>2, <2>3, <2>4, CancelledStep DEF CancelExec, clientVars
  <2> QED BY <2>1, <2>2, <2>5
<1>3. ASSUME NEW c \in Conn, RequestLost(c) \/ \E o \in Other : c = o /\ FrameTimeout(o) PROVE OwnInv'
  <2>1. ClientTypes' BY <1>3 DEF RequestLost, FrameTimeout, clientVars, ClientTypes
  <2>2. ConnInv' BY <1>3, TaskStep DEF RequestLost, FrameTimeout, clientVars
  <2>3. FlagInv' BY <1>3, FlagKept DEF RequestLost, FrameTimeout, daemonVars, clientVars
  <2> QED BY <2>1, <2>2, <2>3
<1>4. ASSUME NEW e \in Exec, HandleExec(e) \/ RefuseExec(e) \/ BeginExec(e) PROVE OwnInv'
  <2>0. <<e, "exec">> \in Conn BY ExecConn DEF Kind
  <2>1. ClientTypes' BY <1>4 DEF HandleExec, RefuseExec, BeginExec, ClientTypes
  <2>2. ConnInv'
    BY <1>4, <2>0, TaskStep DEF HandleExec, RefuseExec, BeginExec, LinkState
  <2>3. FlagInv'
    BY <1>4, FlagKept DEF HandleExec, RefuseExec, BeginExec, ClientTypes
  <2> QED BY <2>1, <2>2, <2>3
<1>5. ASSUME NEW e \in Exec, DeliverExec(e) \/ AbortExec(e) PROVE OwnInv'
  <2>0. <<e, "exec">> \in Conn BY ExecConn DEF Kind
  <2>1. ClientTypes' BY <1>5 DEF DeliverExec, AbortExec, clientVars, ClientTypes
  <2>2. ConnInv' BY <1>5, <2>0, TaskStep DEF DeliverExec, AbortExec, clientVars
  <2>3. CASE DeliverExec(e)
    BY <2>1, <2>2, <2>3, FlagKept DEF DeliverExec, clientVars
  <2>4. CASE AbortExec(e)
    BY <2>1, <2>2, <2>4, CancelledStep DEF AbortExec, clientVars
  <2> QED BY <1>5, <2>3, <2>4
<1>6. ASSUME NEW e \in Exec, ExecStdin(e) \/ RelayEnds(e) \/ RelayBreaks(e) PROVE OwnInv'
  <2>0. <<e, "stdin">> \in Conn BY ExecConn DEF Kind
  <2>1. ClientTypes' BY <1>6 DEF ExecStdin, RelayEnds, RelayBreaks, clientVars, ClientTypes
  <2>2. ConnInv'
    BY <1>6, <2>0, TaskStep DEF ExecStdin, RelayEnds, RelayBreaks, clientVars, LinkState
  <2>3. CASE ExecStdin(e) \/ RelayEnds(e)
    BY <2>1, <2>2, <2>3, FlagKept DEF ExecStdin, RelayEnds, clientVars, daemonVars
  <2>4. CASE RelayBreaks(e)
    BY <2>1, <2>2, <2>4, CancelledStep DEF RelayBreaks, clientVars
  <2> QED BY <1>6, <2>3, <2>4
<1>7. ASSUME NEW e \in Exec, RetireExec(e) \/ DeleteQuarantined(e) PROVE OwnInv'
  BY <1>7 DEF RetireExec, DeleteQuarantined, clientVars, ClientTypes, ConnInv, FlagInv,
              CancelledByItsOwn
<1>8. ASSUME NEW e \in Exec, AdmitFails(e) \/ Replayed(e) \/ ReadOutcome(e) \/ ClientDies(e)
                             \/ Terminate(e)
      PROVE  OwnInv'
  <2>1. ClientTypes'
    BY <1>8 DEF AdmitFails, Replayed, ReadOutcome, ClientDies, Terminate, ClientTypes
  <2>2. \A f \in Exec : /\ wanted[f] => wanted'[f]
                        /\ failed[f] => failed'[f]
                        /\ caller[f] = "gone" => caller'[f] = "gone"
    BY <1>8 DEF AdmitFails, Replayed, ReadOutcome, ClientDies, Terminate, ClientTypes
  <2>3. ConnInv'
    BY <1>8, <2>2 DEF AdmitFails, Replayed, ReadOutcome, ClientDies, Terminate, ConnInv
  <2>4. FlagInv'
    BY <1>8, <2>2, FlagKept
       DEF AdmitFails, Replayed, ReadOutcome, ClientDies, Terminate, daemonVars
  <2> QED BY <2>1, <2>3, <2>4
<1>9. ASSUME NEW e \in Exec, AdmitExec(e) \/ AttachStdin(e) \/ SendKill(e) \/ PumpFails(e)
                             \/ Relay(e)
      PROVE  OwnInv'
  <2>0. \A k \in Kind : <<e, k>> \in Conn BY ExecConn
  <2>1. ClientTypes'
    BY <1>9 DEF AdmitExec, AttachStdin, SendKill, PumpFails, Relay, clientVars, ClientTypes
  <2>2. \A f \in Exec : /\ wanted[f] => wanted'[f]
                        /\ failed[f] => failed'[f]
                        /\ caller[f] = "gone" => caller'[f] = "gone"
    BY <1>9 DEF AdmitExec, AttachStdin, SendKill, PumpFails, Relay, clientVars, ClientTypes
  <2>3. ConnInv'
    <3>1. CASE AdmitExec(e)
      BY <3>1, <2>0, <2>2, ConnectStep DEF AdmitExec, Kind
    <3>2. CASE AttachStdin(e)
      BY <3>2, <2>0, <2>2, ConnectStep DEF AttachStdin, Kind
    <3>3. CASE SendKill(e)
      BY <3>3, <2>0, <2>2, ConnectStep DEF SendKill, Kind, clientVars
    <3>4. CASE PumpFails(e)
      BY <3>4, <2>0, <2>2, ConnectStep DEF PumpFails, Kind, ClientTypes
    <3>5. CASE Relay(e)
      <4>1. CASE wanted[e]
        BY <3>5, <4>1, <2>0, <2>2, ConnectStep DEF Relay, Kind
      <4>2. CASE ~wanted[e]
        BY <3>5, <4>2 DEF Relay, ConnInv
      <4> QED BY <4>1, <4>2
    <3> QED BY <1>9, <3>1, <3>2, <3>3, <3>4, <3>5
  <2>4. FlagInv'
    BY <1>9, <2>2, FlagKept DEF AdmitExec, AttachStdin, SendKill, PumpFails, Relay, daemonVars
  <2> QED BY <2>1, <2>3, <2>4
<1>10. ASSUME NEW o \in Other, OtherConnects(o) PROVE OwnInv'
  <2>1. o \in Conn /\ \A e \in Exec, k \in Kind : o # <<e, k>> BY ExecConn DEF Conn
  <2>2. ConnInv' BY <1>10, <2>1, ConnectStep DEF OtherConnects, clientVars, Kind
  <2> QED BY <1>10, <2>2, FlagKept DEF OtherConnects, clientVars, daemonVars, ClientTypes
<1>11. ASSUME NEW o \in Other, Lifecycle(o) \/ Unparks(o) PROVE OwnInv'
  <2>1. o \in Conn BY DEF Conn
  <2>2. ConnInv' BY <1>11, <2>1, TaskStep DEF Lifecycle, Unparks, clientVars, LinkState
  <2> QED BY <1>11, <2>2, FlagKept DEF Lifecycle, Unparks, clientVars, ClientTypes
<1> QED
  <2>1. Other \subseteq Conn BY DEF Conn
  <2> QED BY <2>1, <1>0, <1>1, <1>2, <1>3, <1>4, <1>5, <1>6, <1>7, <1>8, <1>9, <1>10, <1>11
             DEF Next, Task, ExecTask, ExecThread, Worker

LEMMA OwnInvHolds == Spec => []OwnInv
<1>1. Init => OwnInv
  <2> SUFFICES ASSUME Init PROVE OwnInv OBVIOUS
  <2>1. ClientTypes /\ FlagInv BY DEF Init, ClientTypes, FlagInv, CancelledByItsOwn
  <2>2. \A c \in Conn : link[c] = "none" /\ permit[c] = "none" BY DEF Init
  <2>3. \A e \in Exec : <<e, "kill">> \in Conn /\ <<e, "cancel">> \in Conn BY ExecConn DEF Kind
  <2>4. ConnInv BY <2>2, <2>3 DEF Init, ConnInv, LinkState
  <2> QED BY <2>1, <2>4 DEF OwnInv
<1> QED BY <1>1, OwnStep, PTL DEF Spec

\* A run is cancelled only by its own client, however late, repeated or reused the
\* requests that name its id (cancel_exec compares the run token).
THEOREM OnlyItsOwnCancels == Spec => []CancelledByItsOwn
  BY OwnInvHolds, PTL DEF OwnInv, FlagInv
-----------------------------------------------------------------------------
(* Places. A run in progress, and a container quarantined for one that was  *)
(* not confirmed to have ended, hold the exec's place.                      *)

PlaceInv ==
  /\ run \in [Exec -> {"none"} \cup InProgress \cup Done]
  /\ places \in [Exec -> SUBSET {"task", "run", "quarantine"}]
  /\ \A e \in Exec : /\ run[e] \in InProgress => "run" \in places[e]
                     /\ run[e] = "stuck" => "quarantine" \in places[e]
  /\ Cardinality(Admitted) <= Execs

\* A step that admits nobody keeps the bound.
LEMMA FewerAdmitted ==
  ASSUME Cardinality(Admitted) <= Execs, \A e \in Exec : places'[e] # {} => places[e] # {}
  PROVE  Cardinality(Admitted') <= Execs
<1>1. Admitted' \in SUBSET Admitted BY DEF Admitted
<1>2. IsFiniteSet(Admitted') /\ Cardinality(Admitted') <= Cardinality(Admitted)
  BY <1>1, Counts, FS_Subset
<1>3. Cardinality(Admitted') \in Nat BY <1>2, FS_CardinalityType
<1> QED BY <1>2, <1>3, Counts, LaneAssumption

LEMMA PlaceStep == ASSUME PlaceInv, [Next]_vars PROVE PlaceInv'
<1> USE DEF InProgress, Done
<1>1. ASSUME UNCHANGED <<run, places>> PROVE PlaceInv'
  BY <1>1 DEF PlaceInv, Admitted
<1>2. ASSUME NEW e \in Exec, HandleExec(e) PROVE PlaceInv'
  <2>1. CASE UNCHANGED <<run, places>> BY <1>1, <2>1
  <2>2. CASE ~UNCHANGED <<run, places>>
    <3>1. /\ Cardinality(Admitted) < Execs
          /\ run' = [run EXCEPT ![e] = "queued"]
          /\ places' = [places EXCEPT ![e] = {"task", "run"}]
      BY <1>2, <2>2 DEF HandleExec
    <3>2. Admitted' = Admitted \cup {e} BY <3>1 DEF Admitted, PlaceInv
    <3>3. Cardinality(Admitted') <= Execs
      <4>1. IsFiniteSet(Admitted) /\ Cardinality(Admitted) \in Nat BY Counts
      <4>2. Cardinality(Admitted \cup {e}) =
              IF e \in Admitted THEN Cardinality(Admitted) ELSE Cardinality(Admitted) + 1
        BY <4>1, FS_AddElement, Zenon
      <4> QED BY <3>1, <3>2, <4>1, <4>2, LaneAssumption
    <3> QED BY <3>1, <3>3 DEF PlaceInv
  <2> QED BY <2>1, <2>2
<1>3. ASSUME NEW e \in Exec, DeliverExec(e) \/ AbortExec(e) PROVE PlaceInv'
  <2>1. places' = [places EXCEPT ![e] = @ \ {"task"}] /\ UNCHANGED run
    BY <1>3 DEF DeliverExec, AbortExec
  <2>2. Cardinality(Admitted') <= Execs BY <2>1, FewerAdmitted DEF PlaceInv
  <2> QED BY <2>1, <2>2 DEF PlaceInv
<1>4. ASSUME NEW e \in Exec, RefuseExec(e) \/ BeginExec(e) PROVE PlaceInv'
  <2>1. /\ run[e] = "queued"
        /\ \/ /\ run' = [run EXCEPT ![e] = "over"]
              /\ \/ places' = [places EXCEPT ![e] = {}]
                 \/ places' = [places EXCEPT ![e] = @ \ {"run"}]
           \/ run' = [run EXCEPT ![e] = "running"] /\ UNCHANGED places
    BY <1>4 DEF RefuseExec, BeginExec
  <2>2. Cardinality(Admitted') <= Execs BY <2>1, FewerAdmitted DEF PlaceInv
  <2> QED BY <2>1, <2>2 DEF PlaceInv
<1>5. ASSUME NEW e \in Exec, RetireExec(e) PROVE PlaceInv'
  <2>1. /\ run[e] = "running"
        /\ \/ run' = [run EXCEPT ![e] = "over"] /\ places' = [places EXCEPT ![e] = @ \ {"run"}]
           \/ /\ run' = [run EXCEPT ![e] = "stuck"]
              /\ places' = [places EXCEPT ![e] = (@ \ {"run"}) \cup {"quarantine"}]
    BY <1>5 DEF RetireExec
  <2>2. Cardinality(Admitted') <= Execs BY <2>1, FewerAdmitted DEF PlaceInv
  <2> QED BY <2>1, <2>2 DEF PlaceInv
<1>6. ASSUME NEW e \in Exec, DeleteQuarantined(e) PROVE PlaceInv'
  <2>1. /\ run' = [run EXCEPT ![e] = "over"]
        /\ places' = [places EXCEPT ![e] = @ \ {"quarantine"}]
    BY <1>6 DEF DeleteQuarantined
  <2>2. Cardinality(Admitted') <= Execs BY <2>1, FewerAdmitted DEF PlaceInv
  <2> QED BY <2>1, <2>2 DEF PlaceInv
<1>7. ASSUME NEW c \in Conn, Task(c) PROVE PlaceInv'
  BY <1>1, <1>7 DEF Task, Busy, CancelExec, RequestLost, daemonVars
<1>8. ASSUME NEW e \in Exec, ExecStdin(e) \/ RelayEnds(e) \/ RelayBreaks(e) PROVE PlaceInv'
  BY <1>1, <1>8 DEF ExecStdin, RelayEnds, RelayBreaks, daemonVars
<1>9. ASSUME NEW e \in Exec, \/ ExecThread(e) \/ AttachStdin(e) \/ PumpFails(e)
                             \/ Terminate(e) \/ SendKill(e) \/ ClientDies(e)
      PROVE  PlaceInv'
  BY <1>1, <1>9 DEF ExecThread, AdmitExec, AdmitFails, Relay, Replayed, ReadOutcome, AttachStdin,
                    PumpFails, Terminate, SendKill, ClientDies, daemonVars
<1>10. ASSUME NEW o \in Other, OtherConnects(o) \/ Lifecycle(o) \/ FrameTimeout(o) \/ Unparks(o)
       PROVE  PlaceInv'
  BY <1>1, <1>10 DEF OtherConnects, Lifecycle, FrameTimeout, Unparks, daemonVars
<1>11. CASE UNCHANGED vars BY <1>1, <1>11 DEF vars
<1> QED BY <1>2, <1>3, <1>4, <1>5, <1>6, <1>7, <1>8, <1>9, <1>10, <1>11 DEF Next, ExecTask, Worker

LEMMA PlaceInvHolds == Spec => []PlaceInv
<1>1. Init => PlaceInv
  <2> SUFFICES ASSUME Init PROVE PlaceInv OBVIOUS
  <2>1. Admitted = {} BY DEF Init, Admitted
  <2>2. Cardinality(Admitted) <= Execs BY <2>1, FS_EmptySet, LaneAssumption
  <2> QED BY <2>2 DEF Init, PlaceInv, InProgress
<1> QED BY <1>1, PlaceStep, PTL DEF Spec

\* No more processes than MAX_CONCURRENT_EXECS may be running, the ones whose end
\* could not be confirmed and the ones whose client is gone included (a place is
\* given back with the last holder of the ExecSlotGuard).
THEOREM PlacesBoundRuns == Spec => []RunsBounded
<1>1. PlaceInv => RunsBounded
  <2> SUFFICES ASSUME PlaceInv PROVE RunsBounded OBVIOUS
  <2> DEFINE R == {e \in Exec : run[e] \in {"running", "stuck"}}
  <2>1. R \in SUBSET Admitted BY DEF PlaceInv, Admitted, InProgress
  <2>2. IsFiniteSet(R) /\ Cardinality(R) <= Cardinality(Admitted) BY <2>1, Counts, FS_Subset
  <2>3. Cardinality(R) \in Nat BY <2>2, FS_CardinalityType
  <2>4. Cardinality(R) <= Execs BY <2>2, <2>3, Counts, LaneAssumption DEF PlaceInv
  <2> QED BY <2>4 DEF RunsBounded
<1> QED BY <1>1, PlaceInvHolds, PTL
-----------------------------------------------------------------------------
(* The lane has room for a terminator and a stdin connection of each exec   *)
(* that is admitted.                                                        *)

\* The lane is full, with nothing in it but terminators and stdin connections of
\* admitted execs: every terminator of these is there.
LEMMA LaneFull ==
  ASSUME Cardinality(Admitted) <= Execs, Using("lane") >= Lane,
         \A c \in Conn : permit[c] = "lane" => ~Intruder(c), NEW e \in Admitted
  PROVE  permit[<<e, "kill">>] = "lane"
<1> DEFINE L == {c \in Conn : permit[c] = "lane"}
           Fits == Admitted \X {"kill", "stdin"}
<1>1. L \in SUBSET Fits
  <2> SUFFICES ASSUME NEW c \in L PROVE c \in Fits OBVIOUS
  <2>1. c \in Exec \X Kind /\ ~Intruder(c) BY DEF Conn, Intruder
  <2>2. PICK f \in Exec, k \in Kind : c = <<f, k>> BY <2>1
  <2>3. places[f] # {} /\ k \notin {"exec", "cancel"} BY <2>1, <2>2 DEF Intruder
  <2> QED BY <2>2, <2>3 DEF Kind, Admitted
<1>2. IsFiniteSet({"kill", "stdin"}) /\ Cardinality({"kill", "stdin"}) = 2
  <2>1. {"kill", "stdin"} = {"kill"} \cup {"stdin"} /\ "stdin" \notin {"kill"} OBVIOUS
  <2>2. IsFiniteSet({"kill"}) /\ Cardinality({"kill"}) = 1 BY FS_Singleton
  <2>3. /\ IsFiniteSet({"kill"} \cup {"stdin"})
        /\ Cardinality({"kill"} \cup {"stdin"}) = Cardinality({"kill"}) + 1
    BY <2>1, <2>2, FS_AddElement, Zenon
  <2> QED BY <2>1, <2>2, <2>3
<1>3. IsFiniteSet(Fits) /\ Cardinality(Fits) = Cardinality(Admitted) * 2
  BY <1>2, Counts, FS_Product
<1>4. Cardinality(L) <= Cardinality(Fits) /\ (Cardinality(Fits) = Cardinality(L) => Fits = L)
  BY <1>1, <1>3, FS_Subset
<1>5. Cardinality(L) = Using("lane") BY DEF Using
<1>6. Cardinality(Fits) = Cardinality(L)
  <2> HIDE DEF L, Fits
  <2> QED BY <1>3, <1>4, <1>5, Counts, LaneAssumption
<1>7. <<e, "kill">> \in Fits OBVIOUS
<1> QED BY <1>4, <1>6, <1>7

\* A connection is refused only by its own step, and only when the lane is full.
LEMMA RefusedWhenFull ==
  ASSUME OwnInv, Next, NEW c \in Conn, link[c] = "none", link'[c] = "refused"
  PROVE  Using("lane") >= Lane
<1>1. ASSUME NEW d \in Conn, Connects(d) PROVE Using("lane") >= Lane
  BY <1>1, ConnectsTypes DEF OwnInv, ConnInv
<1>2. ASSUME NEW d \in Conn, Ends(d) PROVE FALSE
  BY <1>2, EndsTypes DEF OwnInv, ConnInv
<1>3. link' # link OBVIOUS
<1>4. ASSUME NEW d \in Conn, NEW step \in LinkState \ {"refused"}, link' = [link EXCEPT ![d] = step]
      PROVE  FALSE
  BY <1>4 DEF OwnInv, ConnInv
<1>5. \A e \in Exec, k \in Kind : <<e, k>> \in Conn BY ExecConn
<1>6. Other \subseteq Conn BY DEF Conn
<1>7. ASSUME NEW d \in Conn, Task(d) PROVE FALSE
  BY <1>2, <1>7 DEF Task, Busy, CancelExec, RequestLost
<1>8. ASSUME NEW e \in Exec, ExecTask(e) \/ Worker(e) PROVE FALSE
  <2>1. <<e, "exec">> \in Conn /\ <<e, "stdin">> \in Conn BY <1>5 DEF Kind
  <2>2. {"admit", "relay", "stream"} \subseteq LinkState \ {"refused"} BY DEF LinkState
  <2>3. ~HandleExec(e) BY <1>2, <1>4, <2>1, <2>2 DEF HandleExec
  <2>4. ~DeliverExec(e) /\ ~AbortExec(e) BY <1>2, <2>1 DEF DeliverExec, AbortExec
  <2>5. ~ExecStdin(e) BY <1>2, <1>4, <2>1, <2>2 DEF ExecStdin
  <2>6. ~RefuseExec(e) BY <1>2, <2>1 DEF RefuseExec
  <2>7. ~BeginExec(e) BY <1>4, <2>1, <2>2 DEF BeginExec
  <2> QED BY <1>8, <2>3, <2>4, <2>5, <2>6, <2>7 DEF ExecTask, Worker
<1>9. ASSUME NEW e \in Exec, RelayEnds(e) \/ RelayBreaks(e) PROVE FALSE
  BY <1>2, <1>4, <1>5, <1>9 DEF RelayEnds, RelayBreaks, Kind, LinkState
<1>10. ASSUME NEW e \in Exec, \/ AdmitFails(e) \/ Replayed(e) \/ ReadOutcome(e) \/ RetireExec(e)
                              \/ DeleteQuarantined(e) \/ Terminate(e) \/ ClientDies(e)
       PROVE  FALSE
  BY <1>3, <1>10 DEF AdmitFails, Replayed, ReadOutcome, RetireExec, DeleteQuarantined, Terminate,
       ClientDies
<1>11. ASSUME NEW e \in Exec, \/ AdmitExec(e) \/ AttachStdin(e) \/ SendKill(e) \/ PumpFails(e)
                              \/ Relay(e)
       PROVE  Using("lane") >= Lane
  BY <1>1, <1>3, <1>5, <1>11 DEF AdmitExec, AttachStdin, SendKill, PumpFails, Relay, Kind
<1>12. ASSUME NEW o \in Other, OtherConnects(o) PROVE Using("lane") >= Lane
  BY <1>1, <1>6, <1>12 DEF OtherConnects
<1>13. ASSUME NEW o \in Other, Lifecycle(o) \/ FrameTimeout(o) \/ Unparks(o) PROVE FALSE
  BY <1>2, <1>4, <1>6, <1>13 DEF Lifecycle, FrameTimeout, Unparks, LinkState
<1> QED BY <1>7, <1>8, <1>9, <1>10, <1>11, <1>12, <1>13 DEF Next, ExecThread

\* The terminator of an admitted exec is refused only when something else than one
\* terminator and one stdin connection per admitted exec is in the lane
\* (CANCEL_LANE_SLOTS, which is 2 * MAX_CONCURRENT_EXECS).
THEOREM RoomToKill == Spec => KillHasRoom
<1>1. OwnInv /\ PlaceInv /\ [Next]_vars =>
        [\A e \in Exec :
           link[<<e, "kill">>] = "none" /\ link'[<<e, "kill">>] = "refused" /\ places[e] # {} =>
             \E c \in Conn : permit[c] = "lane" /\ Intruder(c)]_vars
  <2> SUFFICES ASSUME OwnInv, PlaceInv, Next, NEW e \in Exec,
                      link[<<e, "kill">>] = "none", link'[<<e, "kill">>] = "refused", places[e] # {},
                      \A c \in Conn : permit[c] = "lane" => ~Intruder(c)
               PROVE  FALSE
    OBVIOUS
  <2>1. <<e, "kill">> \in Conn BY ExecConn DEF Kind
  <2>2. Using("lane") >= Lane BY <2>1, RefusedWhenFull
  <2>3. permit[<<e, "kill">>] = "lane" BY <2>2, LaneFull DEF PlaceInv, Admitted
  <2> QED BY <2>1, <2>3 DEF OwnInv, ConnInv
<1> QED BY <1>1, OwnInvHolds, PlaceInvHolds, PTL DEF Spec, KillHasRoom
=============================================================================
