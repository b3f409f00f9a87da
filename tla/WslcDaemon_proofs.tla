--------------------------- MODULE WslcDaemon_proofs ---------------------------
(* The idle watchdog drains only an idle daemon, and no container is counted *)
(* that nobody can release, for any number of clients, permits and sandboxes *)
(* and any idle timeout of more than one poll.                               *)
EXTENDS WslcDaemon, FiniteSetTheorems, TLAPS

\* Most leaves are set reasoning for Zenon; the others name SMT.
USE Zenon

\* A streak of at least one idle poll that no connection has broken since.
Streak == watchdog # "ended" /\ idleFor > 0 /\ ~fresh

\* The accept loop and the watchdog. That a streak of one is not enough is
\* seen in the last two conjuncts: what was read as zero can be relied on only
\* if no task was there when it was read.
LoopInv ==
  /\ accepted # None => task[accepted] = "accepted"
  /\ watchdog # "ended" => idleFor < IdlePolls
  /\ watchdog \in {"asked", "counted"} /\ ~fresh => accepted = None
  /\ Streak => Active = {} /\ accepted = None
  /\ Streak /\ watchdog = "counted" /\ zero => Live = {}

\* A minted reply has an id, and a worker that is gone has no containers.
MintedInv ==
  /\ \A c \in Client : task[c] = "minted" => id[c] \in Sandbox
  /\ worker = "gone" => Live = {}

WInv == TypeOK /\ LoopInv /\ MintedInv /\ DrainedIdle /\ NoOrphan

Carrying == {"minted", "undoing", "retiring"}

USE DEF taskVars, workerVars, watchVars

\* What a step of a task leaves to the loop and to the watchdog.
LEMMA TaskStepKeepsLoop ==
  ASSUME WInv, NEW c \in Client, task[c] \in Serving, TaskOnly, worker' = worker,
         \A x \in Client : x # c => task'[x] = task[x]
  PROVE  LoopInv' /\ DrainedIdle'
<1>1. c \in Active
  BY DEF Active
<1>2. ~Streak /\ ~Streak' /\ ~(draining /\ worker = "up")
  BY <1>1 DEF WInv, LoopInv, DrainedIdle, Streak, TaskOnly
<1>3. accepted # None => accepted \in Client /\ accepted # c
  BY DEF WInv, LoopInv, TypeOK, Serving
<1>4. accepted' # None => task'[accepted'] = "accepted"
  BY <1>3 DEF WInv, LoopInv, TaskOnly
<1>5. LoopInv'
  BY <1>2, <1>4 DEF WInv, LoopInv, TaskOnly
<1>6. DrainedIdle'
  BY <1>2 DEF DrainedIdle, TaskOnly
<1> QED BY SMT, <1>5, <1>6

\* A container that somebody answers for is still answered for if only the
\* tasks of `cs` have changed and none of them carried it.
LEMMA CarriersStay ==
  ASSUME WInv, NEW cs \in SUBSET Client, known' = known, cont' = cont,
         server' # "ended" => server # "ended",
         \A c \in cs : task[c] \notin Carrying,
         \A c \in Client \ cs : task'[c] = task[c] /\ id'[c] = id[c]
  PROVE  NoOrphan'
<1> SUFFICES ASSUME server' # "ended", NEW b \in Live', b \notin known
             PROVE  \E c \in Client : id'[c] = b /\ task'[c] \in Carrying
  BY SMT DEF NoOrphan, Carrying
<1>1. PICK c \in Client : id[c] = b /\ task[c] \in Carrying
  BY DEF WInv, NoOrphan, Live, Carrying
<1> QED BY <1>1

\* The same for a single task.
LEMMA CarrierStays ==
  ASSUME WInv, NEW c \in Client, known' = known, cont' = cont, server' = server,
         task[c] \notin Carrying,
         \A x \in Client : x # c => task'[x] = task[x] /\ id'[x] = id[x]
  PROVE  NoOrphan'
<1>1. /\ {c} \in SUBSET Client
      /\ \A x \in {c} : task[x] \notin Carrying
      /\ \A x \in Client \ {c} : task'[x] = task[x] /\ id'[x] = id[x]
  OBVIOUS
<1> QED BY <1>1, CarriersStay

\* What Close does to a set of connections.
LEMMA CloseTypes ==
  ASSUME WInv, NEW cs \in SUBSET Client, Close(cs)
  PROVE  /\ task' \in [Client -> {"none", "queued", "accepted"} \cup Serving]
         /\ slot' \in [Client -> {"none", "general", "lane"}]
         /\ want' \in [Client -> {"other", "provision", "deprovision"}]
         /\ id' \in [Client -> Sandbox \cup {None}]
         /\ tries' \in [Client -> 0 .. MaxAttempts]
         /\ gone' \subseteq Client
         /\ \A c \in cs : task'[c] = "none"
         /\ \A c \in Client \ cs : task'[c] = task[c] /\ id'[c] = id[c]
<1>1. task' \in [Client -> {"none", "queued", "accepted"} \cup Serving]
  BY DEF WInv, TypeOK, Close
<1>2. slot' \in [Client -> {"none", "general", "lane"}]
  BY DEF WInv, TypeOK, Close
<1>3. want' \in [Client -> {"other", "provision", "deprovision"}]
  BY DEF WInv, TypeOK, Close
<1>4. id' \in [Client -> Sandbox \cup {None}] /\ gone' \subseteq Client
  BY DEF WInv, TypeOK, Close
<1>5. tries' \in [Client -> 0 .. MaxAttempts]
  BY SMT, BoundsAssumption DEF WInv, TypeOK, Close
<1>6. /\ \A c \in cs : task'[c] = "none"
      /\ \A c \in Client \ cs : task'[c] = task[c] /\ id'[c] = id[c]
  BY DEF Close
<1> QED BY <1>1, <1>2, <1>3, <1>4, <1>5, <1>6

\* A task that ends.
LEMMA EndingTask ==
  ASSUME WInv, NEW c \in Client, task[c] \in Serving, Close({c}), TaskOnly, worker' = worker,
         cont' \in [Sandbox -> {"absent", "live", "retired"}], known' \subseteq Sandbox,
         worker = "gone" => cont' = cont
  PROVE  TypeOK' /\ LoopInv' /\ MintedInv' /\ DrainedIdle'
<1>1. {c} \in SUBSET Client
  OBVIOUS
<1>2. TypeOK'
  BY SMT, <1>1, CloseTypes DEF WInv, TypeOK, TaskOnly
<1>3. \A x \in Client : x # c => task'[x] = task[x] /\ id'[x] = id[x]
  BY SMT, <1>1, CloseTypes
<1>4. task'[c] = "none"
  BY <1>1, CloseTypes
<1>5. MintedInv'
  BY <1>3, <1>4 DEF WInv, MintedInv, Live
<1> QED BY <1>2, <1>3, <1>5, TaskStepKeepsLoop

LEMMA RequestsStep ==
  ASSUME WInv, NEW c \in Client, Requests(c)
  PROVE  WInv'
<1>0. known \subseteq Sandbox
  BY DEF WInv, TypeOK
<1>1. CASE FirstFrameFails(c)
  <2>1. task[c] = "reading" /\ Close({c}) /\ UNCHANGED workerVars /\ TaskOnly
    BY <1>1 DEF FirstFrameFails
  <2>2. NoOrphan'
    <3>1. {c} \in SUBSET Client /\ server' = server
      BY <2>1 DEF TaskOnly
    <3> QED BY <2>1, <3>1, CloseTypes, CarriersStay DEF Carrying
  <2>3. TypeOK' /\ LoopInv' /\ MintedInv' /\ DrainedIdle'
    BY <2>1, EndingTask DEF Serving, WInv, TypeOK
  <2> QED BY <2>2, <2>3 DEF WInv
<1>2. CASE AnswerAtOnce(c)
  <2>1. TypeOK' BY SMT, <1>2 DEF AnswerAtOnce, TaskOnly, WInv, TypeOK, Serving
  <2>2. LoopInv' /\ DrainedIdle'
    BY SMT, <1>2, TaskStepKeepsLoop DEF AnswerAtOnce, WInv, TypeOK, Serving
  <2>3. NoOrphan'
    BY <1>2, CarrierStays DEF AnswerAtOnce, TaskOnly, WInv, TypeOK, Carrying
  <2>4. MintedInv' BY SMT, <1>2 DEF AnswerAtOnce, WInv, TypeOK, MintedInv, Live
  <2> QED BY <2>1, <2>2, <2>3, <2>4 DEF WInv
<1>3. ASSUME NEW w \in {"other", "provision", "deprovision"}, NEW b \in Sandbox \cup {None},
             AskWorker(c, w, b)
      PROVE  WInv'
  <2>0. PICK t \in {"asked", "answered"} : task' = [task EXCEPT ![c] = t]
    BY <1>3 DEF AskWorker
  <2>1. TypeOK' BY SMT, <1>3, <2>0 DEF AskWorker, TaskOnly, WInv, TypeOK, Serving
  <2>2. LoopInv' /\ DrainedIdle'
    BY <1>3, <2>0, TaskStepKeepsLoop DEF AskWorker, WInv, TypeOK, Serving
  <2>3. NoOrphan'
    BY <1>3, <2>0, CarrierStays DEF AskWorker, TaskOnly, WInv, TypeOK, Carrying
  <2>4. MintedInv' BY SMT, <1>3, <2>0 DEF AskWorker, WInv, TypeOK, MintedInv, Live
  <2> QED BY <2>1, <2>2, <2>3, <2>4 DEF WInv
<1> QED BY <1>0, <1>1, <1>2, <1>3 DEF Requests

LEMMA HandlerStep ==
  ASSUME WInv, NEW c \in Client, Handler(c)
  PROVE  WInv'
<1>0. /\ cont \in [Sandbox -> {"absent", "live", "retired"}] /\ known \subseteq Sandbox
      /\ {c} \in SUBSET Client
  BY DEF WInv, TypeOK
<1>1. CASE WriteReply(c)
  <2>1. task[c] = "answered" /\ Close({c}) /\ UNCHANGED workerVars /\ TaskOnly
    BY <1>1 DEF WriteReply
  <2>2. NoOrphan'
    <3>1. server' = server
      BY <2>1 DEF TaskOnly
    <3> QED BY <1>0, <2>1, <3>1, CloseTypes, CarriersStay DEF Carrying
  <2>3. TypeOK' /\ LoopInv' /\ MintedInv' /\ DrainedIdle'
    BY <1>0, <2>1, EndingTask DEF Serving
  <2> QED BY SMT, <2>2, <2>3 DEF WInv
<1>2. CASE DeliverMintedReply(c) /\ c \notin gone
  <2>1. /\ task[c] = "minted" /\ Close({c}) /\ TaskOnly /\ UNCHANGED <<cont, worker>>
        /\ known' = IF cont[id[c]] = "live" THEN known \cup {id[c]} ELSE known
    BY <1>2 DEF DeliverMintedReply
  <2>2. id[c] \in Sandbox
    BY <2>1 DEF WInv, MintedInv
  <2>3. TypeOK' /\ LoopInv' /\ MintedInv' /\ DrainedIdle'
    BY <1>0, <2>1, <2>2, EndingTask DEF Serving
  <2>4. NoOrphan'
    <3> SUFFICES ASSUME server # "ended", NEW b \in Live, b \notin known'
                 PROVE  \E x \in Client : id'[x] = b /\ task'[x] \in Carrying
      BY <2>1 DEF NoOrphan, Carrying, Live, TaskOnly
    <3>1. b # id[c] /\ b \notin known
      BY <2>1, <2>2 DEF Live
    <3>2. PICK x \in Client : id[x] = b /\ task[x] \in Carrying
      BY <3>1 DEF WInv, NoOrphan, Carrying
    <3> QED BY SMT, <1>0, <2>1, <3>1, <3>2, CloseTypes
  <2> QED BY <2>3, <2>4 DEF WInv
<1>3. CASE DeliverMintedReply(c) /\ c \in gone
  <2>1. /\ task[c] = "minted" /\ TaskOnly /\ task' = [task EXCEPT ![c] = "undoing"]
        /\ tries' = [tries EXCEPT ![c] = 1]
        /\ UNCHANGED <<slot, want, id, gone, known, cont, worker>>
    BY <1>3 DEF DeliverMintedReply
  <2>2. TypeOK'
    BY SMT, <2>1, BoundsAssumption DEF TaskOnly, WInv, TypeOK, Serving
  <2>3. LoopInv' /\ DrainedIdle'
    BY <2>1, TaskStepKeepsLoop DEF WInv, TypeOK, Serving
  <2>4. MintedInv' BY <2>1 DEF WInv, TypeOK, MintedInv, Live
  <2>5. NoOrphan' BY SMT, <2>1 DEF TaskOnly, WInv, TypeOK, NoOrphan, Live
  <2> QED BY <2>2, <2>3, <2>4, <2>5 DEF WInv
<1>4. CASE UndoSucceeds(c) \/ RetireUndelivered(c)
  <2>1. /\ task[c] \in {"undoing", "retiring"} /\ Close({c}) /\ TaskOnly /\ UNCHANGED <<known, worker>>
        /\ \/ worker = "up" /\ \E v \in {"absent", "retired"} : cont' = [cont EXCEPT ![id[c]] = v]
           \/ worker = "gone" /\ cont' = cont
    BY <1>4 DEF UndoSucceeds, RetireUndelivered, WInv, TypeOK
  <2>2. cont' \in [Sandbox -> {"absent", "live", "retired"}]
    BY <1>0, <2>1
  <2>3. TypeOK' /\ LoopInv' /\ MintedInv' /\ DrainedIdle'
    BY <1>0, <2>1, <2>2, EndingTask DEF Serving
  <2>4. NoOrphan'
    <3> SUFFICES ASSUME server # "ended", NEW b \in Live', b \notin known
                 PROVE  \E x \in Client : id'[x] = b /\ task'[x] \in Carrying
      BY <2>1 DEF NoOrphan, Carrying, TaskOnly
    <3>1. b \in Live /\ b # id[c]
      BY <1>0, <2>1 DEF Live, WInv, MintedInv
    <3>2. PICK x \in Client : id[x] = b /\ task[x] \in Carrying
      BY <3>1 DEF WInv, NoOrphan, Carrying
    <3> QED BY SMT, <1>0, <2>1, <3>1, <3>2, CloseTypes
  <2> QED BY <2>3, <2>4 DEF WInv
<1>5. CASE UndoFails(c)
  <2>0. task' = task \/ task' = [task EXCEPT ![c] = "retiring"]
    BY <1>5 DEF UndoFails
  <2>1. /\ task[c] = "undoing" /\ TaskOnly
        /\ UNCHANGED <<slot, want, id, gone, known, cont, worker>>
    BY <1>5 DEF UndoFails, WInv, TypeOK
  <2>2. tries' \in [Client -> 0 .. MaxAttempts]
    BY SMT, <1>5, BoundsAssumption DEF UndoFails, WInv, TypeOK
  <2>3. TypeOK'
    BY SMT, <2>0, <2>1, <2>2 DEF TaskOnly, WInv, TypeOK, Serving
  <2>4. LoopInv' /\ DrainedIdle'
    BY <2>0, <2>1, TaskStepKeepsLoop DEF WInv, TypeOK, Serving
  <2>5. MintedInv' BY SMT, <2>0, <2>1 DEF WInv, TypeOK, MintedInv, Live
  <2>6. NoOrphan' BY SMT, <2>0, <2>1 DEF TaskOnly, WInv, TypeOK, NoOrphan, Live
  <2> QED BY <2>3, <2>4, <2>5, <2>6 DEF WInv
<1> QED BY <1>1, <1>2, <1>3, <1>4, <1>5 DEF Handler

LEMMA WorkerStep ==
  ASSUME WInv, NEW c \in Client, Worker(c)
  PROVE  WInv'
<1>1. CASE WorkerPulls(c)
  <2>1. TypeOK' BY SMT, <1>1 DEF WorkerPulls, TaskOnly, WInv, TypeOK, Serving
  <2>2. LoopInv' /\ DrainedIdle'
    BY <1>1, TaskStepKeepsLoop DEF WorkerPulls, WInv, TypeOK, Serving
  <2>3. NoOrphan'
    BY <1>1, CarrierStays DEF WorkerPulls, TaskOnly, WInv, TypeOK, Carrying
  <2>4. MintedInv' BY <1>1 DEF WorkerPulls, WInv, TypeOK, MintedInv, Live
  <2> QED BY <2>1, <2>2, <2>3, <2>4 DEF WInv
<1>2. CASE WorkerAnswers(c)
  <2>1. TypeOK' BY SMT, <1>2 DEF WorkerAnswers, Answered, TaskOnly, WInv, TypeOK, Serving
  <2>2. LoopInv' /\ DrainedIdle'
    BY <1>2, TaskStepKeepsLoop DEF WorkerAnswers, Answered, WInv, TypeOK, Serving
  <2>3. NoOrphan'
    BY <1>2, CarrierStays DEF WorkerAnswers, Answered, TaskOnly, WInv, TypeOK, Carrying
  <2>4. MintedInv' BY <1>2 DEF WorkerAnswers, Answered, WInv, TypeOK, MintedInv, Live
  <2> QED BY SMT, <2>1, <2>2, <2>3, <2>4 DEF WInv
<1>3. CASE WorkerDeprovisions(c)
  <2>0. /\ task[c] = "asked" /\ TaskOnly /\ worker = "up" /\ worker' = worker
        /\ cont' = [cont EXCEPT ![id[c]] = "absent"] /\ known' = known \ {id[c]}
        /\ task' = [task EXCEPT ![c] = "answered"] /\ UNCHANGED <<slot, want, id, tries, gone>>
    BY <1>3 DEF WorkerDeprovisions, Answered
  <2>1. TypeOK'
    <3>1. task' \in [Client -> {"none", "queued", "accepted"} \cup Serving]
      BY <2>0 DEF WInv, TypeOK, Serving
    <3>2. cont' \in [Sandbox -> {"absent", "live", "retired"}] /\ known' \subseteq Sandbox
      BY <2>0 DEF WInv, TypeOK
    <3>3. TypeOK BY DEF WInv
    <3>4. /\ server' \in {"listening", "recreating", "draining", "ended"}
          /\ accepted' \in Client \cup {None} /\ watchdog' \in {"sleep", "asked", "counted", "ended"}
          /\ zero' \in BOOLEAN /\ fresh' \in BOOLEAN /\ idleFor' \in 0 .. IdlePolls
          /\ draining' \in BOOLEAN /\ notified' \in BOOLEAN /\ exited' \in BOOLEAN
      BY <2>0, <3>3 DEF TaskOnly, watchVars, TypeOK
    <3>5. UNCHANGED <<slot, want, id, tries, gone, worker>> BY <2>0
    <3> QED BY <3>1, <3>2, <3>3, <3>4, <3>5 DEF TypeOK
  <2>2. LoopInv' /\ DrainedIdle'
    BY <2>0, TaskStepKeepsLoop DEF WInv, TypeOK, Serving
  <2>3. NoOrphan'
    <3> SUFFICES ASSUME server # "ended", NEW b \in Live', b \notin known'
                 PROVE  \E x \in Client : id'[x] = b /\ task'[x] \in Carrying
      BY SMT, <2>0 DEF NoOrphan, Carrying, TaskOnly
    <3>1. b \in Live /\ b # id[c]
      BY <2>0 DEF Live, WInv, TypeOK
    <3>2. PICK x \in Client : id[x] = b /\ task[x] \in Carrying
      BY <2>0, <3>1 DEF WInv, NoOrphan, Carrying
    <3> QED BY <2>0, <3>1, <3>2 DEF WInv, TypeOK
  <2>4. MintedInv' BY <2>0 DEF WInv, TypeOK, MintedInv
  <2> QED BY <2>1, <2>2, <2>3, <2>4 DEF WInv
<1>4. ASSUME NEW b \in Sandbox, WorkerMints(c, b) PROVE WInv'
  <2>0. /\ task[c] \in {"asked", "pulling"} /\ TaskOnly /\ worker = "up" /\ worker' = worker
        /\ cont' = [cont EXCEPT ![b] = "live"] /\ known' = known
        /\ id' = [id EXCEPT ![c] = b]
        /\ task' = [task EXCEPT ![c] = "minted"] /\ UNCHANGED <<slot, want, tries, gone>>
    BY <1>4 DEF WorkerMints
  <2>1. TypeOK' BY SMT, <2>0 DEF TaskOnly, WInv, TypeOK, Serving
  <2>2. LoopInv' /\ DrainedIdle'
    BY <2>0, TaskStepKeepsLoop DEF WInv, TypeOK, Serving
  <2>3. NoOrphan'
    <3> SUFFICES ASSUME server # "ended", NEW e \in Live', e \notin known
                 PROVE  \E x \in Client : id'[x] = e /\ task'[x] \in Carrying
      BY SMT, <2>0 DEF NoOrphan, Carrying, TaskOnly
    <3>1. CASE e = b
      BY <2>0, <3>1 DEF WInv, TypeOK, Carrying
    <3>2. CASE e # b
      <4>1. e \in Live
        BY <2>0, <3>2 DEF Live, WInv, TypeOK
      <4>2. PICK x \in Client : id[x] = e /\ task[x] \in Carrying
        BY <4>1 DEF WInv, NoOrphan, Carrying
      <4>3. x # c
        BY <2>0, <4>2 DEF Carrying
      <4> QED BY <2>0, <4>2, <4>3 DEF WInv, TypeOK
    <3> QED BY <3>1, <3>2
  <2>4. MintedInv' BY <2>0 DEF WInv, TypeOK, MintedInv
  <2> QED BY <2>1, <2>2, <2>3, <2>4 DEF WInv
<1> QED BY <1>1, <1>2, <1>3, <1>4 DEF Worker

LEMMA PanicStep ==
  ASSUME WInv, WorkerPanics
  PROVE  WInv'
<1>1. TypeOK' BY SMT DEF WorkerPanics, TaskOnly, WInv, TypeOK, Serving
<1>2. Live' = {} BY DEF WorkerPanics, Live
<1>3. Active' = Active BY DEF WorkerPanics, Active, WInv, TypeOK, Serving
<1>4. LoopInv'
  BY <1>2, <1>3 DEF WorkerPanics, TaskOnly, WInv, TypeOK, LoopInv, Streak
<1>5. MintedInv' BY <1>2 DEF WorkerPanics, WInv, TypeOK, MintedInv
<1>6. DrainedIdle' BY DEF WorkerPanics, DrainedIdle
<1>7. NoOrphan' BY <1>2 DEF NoOrphan
<1> QED BY <1>1, <1>4, <1>5, <1>6, <1>7 DEF WInv

\* The clients' own steps, and the accept loop's.
LEMMA AcceptStep ==
  ASSUME WInv, NEW c \in Client, Open(c) \/ Leave(c) \/ Accept(c) \/ ConnectError(c)
  PROVE  WInv'
<1>0. {c} \in SUBSET Client
  OBVIOUS
<1>1. CASE Open(c)
  <2>1. TypeOK' BY SMT, <1>1 DEF Open, WInv, TypeOK
  <2>2. Active' = Active BY <1>1 DEF Open, Active, WInv, TypeOK, Serving
  <2>3. LoopInv' BY <1>1, <2>2 DEF Open, WInv, TypeOK, LoopInv, Streak, Live
  <2>4. MintedInv' BY <1>1 DEF Open, WInv, TypeOK, MintedInv, Live
  <2>5. DrainedIdle' BY <1>1, <2>2 DEF Open, WInv, DrainedIdle, Live
  <2>6. NoOrphan' BY <1>1, CarrierStays DEF Open, WInv, TypeOK, Carrying
  <2> QED BY <2>1, <2>3, <2>4, <2>5, <2>6 DEF WInv
<1>2. CASE Leave(c)
  <2>1. TypeOK' BY SMT, <1>2 DEF Leave, WInv, TypeOK
  <2>2. Active' = Active /\ Live' = Live BY <1>2 DEF Leave, Active, Live
  <2>3. LoopInv' BY <1>2, <2>2 DEF Leave, WInv, LoopInv, Streak
  <2>4. MintedInv' BY <1>2, <2>2 DEF Leave, WInv, MintedInv
  <2>5. DrainedIdle' BY <1>2, <2>2 DEF Leave, WInv, DrainedIdle
  <2>6. NoOrphan' BY <1>2, <2>2 DEF Leave, WInv, NoOrphan
  <2> QED BY <2>1, <2>3, <2>4, <2>5, <2>6 DEF WInv
<1>3. CASE Accept(c)
  <2>1. TypeOK' BY <1>3 DEF Accept, WInv, TypeOK
  <2>2. LoopInv' BY <1>3 DEF Accept, WInv, TypeOK, LoopInv, Streak
  <2>3. MintedInv' BY <1>3 DEF Accept, WInv, TypeOK, MintedInv, Live
  <2>4. DrainedIdle' BY <1>3 DEF Accept, DrainedIdle
  <2>5. NoOrphan'
    <3>1. /\ task[c] \notin Carrying /\ known' = known /\ cont' = cont /\ server # "ended"
          /\ \A x \in Client \ {c} : task'[x] = task[x] /\ id'[x] = id[x]
      BY <1>3 DEF Accept, WInv, TypeOK, Carrying
    <3> QED BY <1>0, <3>1, CarriersStay
  <2> QED BY SMT, <2>1, <2>2, <2>3, <2>4, <2>5 DEF WInv
<1>4. CASE ConnectError(c)
  <2>0. /\ task[c] = "queued" /\ Close({c}) /\ server # "ended" /\ server' = "recreating"
        /\ UNCHANGED <<accepted, cont, known, worker, watchdog, zero, fresh, idleFor, draining,
                       notified, exited>>
    BY <1>4 DEF ConnectError
  <2>1. TypeOK' BY SMT, <1>0, <2>0, CloseTypes DEF WInv, TypeOK
  <2>2. Active' = Active
    <3>1. task'[c] = "none" /\ \A x \in Client \ {c} : task'[x] = task[x]
      BY <1>0, <2>0, CloseTypes
    <3>2. \A x \in Client : task'[x] \in Serving <=> task[x] \in Serving
      BY <2>0, <3>1 DEF Serving
    <3> QED BY <3>2 DEF Active
  <2>3. LoopInv'
    <3>1. accepted # None => task'[accepted] = "accepted"
      BY SMT, <1>0, <2>0, CloseTypes DEF WInv, TypeOK, LoopInv
    <3> QED BY <2>0, <2>2, <3>1 DEF WInv, LoopInv, Streak, Live
  <2>4. MintedInv' BY SMT, <1>0, <2>0, CloseTypes DEF WInv, MintedInv, Live
  <2>5. DrainedIdle' BY <2>0, <2>2 DEF WInv, DrainedIdle, Live
  <2>6. NoOrphan' BY <1>0, <2>0, CloseTypes, CarriersStay DEF Carrying
  <2> QED BY <2>1, <2>3, <2>4, <2>5, <2>6 DEF WInv
<1> QED BY <1>1, <1>2, <1>3, <1>4

\* Some connections that carry nothing and are not the accepted one are closed.
LEMMA CloseMany ==
  ASSUME WInv, NEW cs \in SUBSET Client, Close(cs), server' \in {"draining", "ended"},
         \A c \in cs : task[c] # "accepted",
         server' = "draining" => server # "ended" /\ \A c \in cs : task[c] \notin Carrying,
         notified' \in BOOLEAN,
         UNCHANGED <<accepted, workerVars, watchVars, draining, exited>>
  PROVE  WInv'
<1>1. TypeOK' BY SMT, CloseTypes DEF WInv, TypeOK
<1>2. Active' \subseteq Active /\ Live' = Live
  BY CloseTypes DEF Active, Live, Serving
<1>3. LoopInv'
  <2>1. accepted # None => task'[accepted] = "accepted"
    BY SMT, CloseTypes DEF WInv, TypeOK, LoopInv
  <2> QED BY <1>2, <2>1 DEF WInv, LoopInv, Streak
<1>4. MintedInv' BY <1>2, CloseTypes DEF WInv, MintedInv
<1>5. DrainedIdle' BY <1>2 DEF WInv, DrainedIdle
<1>6. NoOrphan'
  <2>1. CASE server' = "draining"
    BY <2>1, CloseTypes, CarriersStay
  <2>2. CASE server' = "ended"
    BY <2>2 DEF NoOrphan
  <2> QED BY <2>1, <2>2
<1> QED BY <1>1, <1>3, <1>4, <1>5, <1>6 DEF WInv

LEMMA ServerStep ==
  ASSUME WInv, Server
  PROVE  WInv'
<1>1. CASE Recreated
  <2>0. /\ server = "recreating" /\ server' \in {"listening", "draining"} /\ accepted' = None
        /\ UNCHANGED <<cont, known, worker, watchdog, zero, fresh, idleFor, draining, notified, exited>>
    BY <1>1 DEF Recreated
  <2>1. CASE accepted = None
    <3>0. UNCHANGED <<task, slot, want, id, tries, gone>>
      BY <1>1, <2>1 DEF Recreated
    <3>1. TypeOK' BY SMT, <2>0, <3>0 DEF WInv, TypeOK
    <3>2. LoopInv' BY <2>0, <2>1, <3>0 DEF WInv, LoopInv, Streak, Active, Live
    <3>3. MintedInv' BY <2>0, <3>0 DEF WInv, MintedInv, Live
    <3>4. DrainedIdle' BY <2>0, <2>1, <3>0 DEF WInv, DrainedIdle, Active, Live
    <3>5. NoOrphan' BY <2>0, <3>0 DEF WInv, NoOrphan, Live
    <3> QED BY <3>1, <3>2, <3>3, <3>4, <3>5 DEF WInv
  <2>2. CASE accepted # None
    <3> DEFINE c == accepted
    <3>0. /\ c \in Client /\ {c} \in SUBSET Client /\ task[c] = "accepted"
          /\ SpawnClientHandler(c)
      BY <1>1, <2>2 DEF Recreated, WInv, TypeOK, LoopInv
    <3>1. ~Streak /\ ~(draining /\ worker = "up")
      BY <2>2 DEF WInv, LoopInv, DrainedIdle
    <3>2. \/ Close({c})
          \/ \E s \in {"general", "lane"} :
               /\ task' = [task EXCEPT ![c] = "reading"]
               /\ slot' = [slot EXCEPT ![c] = s]
               /\ UNCHANGED <<want, id, tries, gone>>
      BY <3>0 DEF SpawnClientHandler
    <3>3. /\ task' \in [Client -> {"none", "queued", "accepted"} \cup Serving]
          /\ slot' \in [Client -> {"none", "general", "lane"}]
          /\ want' \in [Client -> {"other", "provision", "deprovision"}]
          /\ id' \in [Client -> Sandbox \cup {None}] /\ tries' \in [Client -> 0 .. MaxAttempts]
          /\ gone' \subseteq Client
          /\ \A x \in Client \ {c} : task'[x] = task[x] /\ id'[x] = id[x]
          /\ task'[c] \in {"none", "reading"}
      <4> HIDE DEF c
      <4>1. CASE Close({c})
        BY <3>0, <4>1, CloseTypes
      <4>2. CASE \E s \in {"general", "lane"} :
                   /\ task' = [task EXCEPT ![c] = "reading"]
                   /\ slot' = [slot EXCEPT ![c] = s]
                   /\ UNCHANGED <<want, id, tries, gone>>
        BY SMT, <3>0, <4>2 DEF WInv, TypeOK, Serving
      <4> QED BY <3>2, <4>1, <4>2
    <3>4. TypeOK' BY SMT, <2>0, <3>3 DEF WInv, TypeOK
    <3>5. LoopInv' BY <2>0, <3>1 DEF WInv, LoopInv, Streak
    <3>6. MintedInv' BY <2>0, <3>3 DEF WInv, MintedInv, Live
    <3>7. DrainedIdle' BY <2>0, <3>1 DEF DrainedIdle
    <3>8. NoOrphan' BY <2>0, <3>0, <3>3, CarriersStay DEF Carrying
    <3> QED BY <3>4, <3>5, <3>6, <3>7, <3>8 DEF WInv
  <2> QED BY <2>1, <2>2
<1>2. CASE StopAccepting
  <2> DEFINE queued == {c \in Client : task[c] = "queued"}
  <2>1. /\ queued \in SUBSET Client /\ Close(queued) /\ server' = "draining" /\ server # "ended"
        /\ notified' = FALSE /\ UNCHANGED <<accepted, workerVars, watchVars, draining, exited>>
        /\ \A c \in queued : task[c] # "accepted" /\ task[c] \notin Carrying
    BY <1>2 DEF StopAccepting, Carrying
  <2> HIDE DEF queued
  <2> QED BY <2>1, CloseMany
<1>3. CASE Drained
  <2>1. TypeOK' BY SMT, <1>3 DEF Drained, WInv, TypeOK
  <2>2. LoopInv' BY <1>3 DEF Drained, WInv, LoopInv, Streak, Active, Live
  <2>3. MintedInv' BY <1>3 DEF Drained, WInv, MintedInv, Live
  <2>4. DrainedIdle' BY <1>3 DEF Drained, WInv, DrainedIdle, Active, Live
  <2>5. NoOrphan' BY <1>3 DEF Drained, NoOrphan
  <2> QED BY <2>1, <2>2, <2>3, <2>4, <2>5 DEF WInv
<1>4. CASE DrainTimesOut
  <2>1. /\ Active \in SUBSET Client /\ Close(Active) /\ server' = "ended" /\ notified' = notified
        /\ UNCHANGED <<accepted, workerVars, watchVars, draining, exited>>
        /\ \A c \in Active : task[c] # "accepted"
    BY <1>4 DEF DrainTimesOut, Active, Serving
  <2>2. notified' \in BOOLEAN BY <2>1 DEF WInv, TypeOK
  <2> QED BY <2>1, <2>2, CloseMany
<1> QED BY <1>1, <1>2, <1>3, <1>4 DEF Server

LEMMA CountOfNone ==
  ASSUME WInv, LiveContainerCount = 0
  PROVE  Live = {}
<1>1. Live \subseteq Sandbox /\ {c \in Client : task[c] = "pulling"} \subseteq Client
  BY DEF Live
<1>2. IsFiniteSet(Live) /\ IsFiniteSet({c \in Client : task[c] = "pulling"})
  BY <1>1, FiniteAssumption, FS_Subset
<1>3. Cardinality(Live) \in Nat /\ Cardinality({c \in Client : task[c] = "pulling"}) \in Nat
  BY <1>2, FS_CardinalityType
<1>4. Cardinality(Live) = 0
  BY SMT, <1>3 DEF LiveContainerCount
<1> QED BY <1>2, <1>4, FS_EmptySet

LEMMA WatchdogStep ==
  ASSUME WInv, Watchdog \/ Exit
  PROVE  WInv'
<1>1. CASE Wake
  <2>1. Active' = Active /\ Live' = Live BY <1>1 DEF Wake, Watching, Active, Live
  <2>2. TypeOK' BY <1>1 DEF Wake, Watching, WInv, TypeOK
  <2>3. LoopInv' BY <1>1, <2>1 DEF Wake, Watching, WInv, LoopInv, Streak
  <2>4. MintedInv' /\ DrainedIdle' /\ NoOrphan'
    BY <1>1, <2>1 DEF Wake, Watching, WInv, MintedInv, DrainedIdle, NoOrphan
  <2> QED BY <2>2, <2>3, <2>4 DEF WInv
<1>2. CASE Counted
  <2>1. Active' = Active /\ Live' = Live BY <1>2 DEF Counted, Watching, Active, Live
  <2>2. TypeOK' BY <1>2 DEF Counted, Watching, WInv, TypeOK
  <2>3. zero' => Live = {}
    BY <1>2, CountOfNone DEF Counted
  <2>4. LoopInv' BY <1>2, <2>1, <2>3 DEF Counted, Watching, WInv, LoopInv, Streak
  <2>5. MintedInv' /\ DrainedIdle' /\ NoOrphan'
    BY <1>2, <2>1 DEF Counted, Watching, WInv, MintedInv, DrainedIdle, NoOrphan
  <2> QED BY <2>2, <2>4, <2>5 DEF WInv
<1>3. CASE NotCounted
  <2>1. Live' = Live BY <1>3 DEF NotCounted, Watching, Live
  <2>2. TypeOK' BY <1>3 DEF NotCounted, Signal, Watching, WInv, TypeOK
  <2>3. LoopInv' BY <1>3 DEF NotCounted, Watching, WInv, LoopInv, Streak
  <2>4. DrainedIdle' BY <1>3 DEF NotCounted, Watching, DrainedIdle
  <2>5. MintedInv' /\ NoOrphan'
    BY <1>3, <2>1 DEF NotCounted, Watching, WInv, MintedInv, NoOrphan
  <2> QED BY <2>2, <2>3, <2>4, <2>5 DEF WInv
<1>4. CASE Sample
  <2>1. Active' = Active /\ Live' = Live BY <1>4 DEF Sample, Watching, Active, Live
  <2>2. /\ watchdog = "counted" /\ fresh' = FALSE /\ idleFor' = IF Idle THEN idleFor + 1 ELSE 0
        /\ idleFor \in Nat /\ idleFor < IdlePolls
        /\ UNCHANGED <<accepted, task, worker>>
    BY SMT, <1>4, IdlePollsAssumption DEF Sample, Watching, WInv, TypeOK, LoopInv
  <2>3. TypeOK'
    <3>1. idleFor' \in 0 .. IdlePolls
      BY SMT, <2>2, IdlePollsAssumption
    <3>2. /\ watchdog' \in {"sleep", "ended"} /\ fresh' \in BOOLEAN
          /\ draining' \in BOOLEAN /\ notified' \in BOOLEAN
      BY <1>4 DEF Sample, Signal, WInv, TypeOK
    <3> QED BY <1>4, <3>1, <3>2 DEF Sample, Watching, WInv, TypeOK
  <2>4. Idle => Active = {} /\ accepted = None
    BY <2>2 DEF Idle, WInv, LoopInv
  <2>5. LoopInv'
    <3>1. accepted' # None => task'[accepted'] = "accepted"
      BY <2>2 DEF WInv, LoopInv
    <3>2. watchdog' # "ended" => idleFor' < IdlePolls /\ watchdog' = "sleep"
      <4>1. idleFor' < IdlePolls \/ watchdog' = "ended"
        BY SMT, <1>4, <2>2, IdlePollsAssumption DEF Sample
      <4> QED BY <1>4, <4>1 DEF Sample
    <3>3. Streak' => Active' = {} /\ accepted' = None
      BY SMT, <2>1, <2>2, <2>4 DEF Streak
    <3>4. watchdog' \notin {"asked", "counted"}
      BY <1>4 DEF Sample
    <3> QED BY <3>1, <3>2, <3>3, <3>4 DEF LoopInv
  <2>6. DrainedIdle'
    <3>1. CASE idleFor' >= IdlePolls
      <4>1. Idle /\ idleFor > 0
        BY SMT, <2>2, <3>1, IdlePollsAssumption
      <4>2. Streak /\ zero
        BY <2>2, <4>1 DEF Streak, Idle
      <4>3. Live = {}
        BY <2>2, <4>2 DEF WInv, LoopInv
      <4> QED BY <2>1, <2>2, <2>4, <4>1, <4>3 DEF DrainedIdle
    <3>2. CASE ~(idleFor' >= IdlePolls)
      BY <1>4, <2>1, <2>2, <3>2 DEF Sample, WInv, DrainedIdle
    <3> QED BY <3>1, <3>2
  <2>7. MintedInv' /\ NoOrphan'
    BY <1>4, <2>1 DEF Sample, Watching, WInv, MintedInv, NoOrphan
  <2> QED BY SMT, <2>3, <2>5, <2>6, <2>7 DEF WInv
<1>5. CASE Exit
  <2>1. Active' = Active /\ Live' = {} BY <1>5 DEF Exit, Active, Live
  <2>2. TypeOK' BY <1>5 DEF Exit, WInv, TypeOK
  <2>3. LoopInv' BY <1>5 DEF Exit, WInv, LoopInv, Streak
  <2>4. MintedInv' /\ NoOrphan' BY <1>5, <2>1 DEF Exit, WInv, MintedInv, NoOrphan
  <2>5. DrainedIdle' BY <1>5, <2>1 DEF Exit, WInv, DrainedIdle
  <2> QED BY <2>2, <2>3, <2>4, <2>5 DEF WInv
<1> QED BY <1>1, <1>2, <1>3, <1>4, <1>5 DEF Watchdog

LEMMA WInvInvariant == Spec => []WInv
<1>1. Init => WInv
  <2> SUFFICES ASSUME Init PROVE WInv
    OBVIOUS
  <2>1. TypeOK
    <3>1. 0 \in 0 .. MaxAttempts /\ 0 \in 0 .. IdlePolls
      BY SMT, BoundsAssumption, IdlePollsAssumption
    <3>2. TRUE \in BOOLEAN /\ FALSE \in BOOLEAN
      OBVIOUS
    <3> QED BY <3>1, <3>2 DEF Init, TypeOK
  <2>2. LoopInv /\ MintedInv /\ DrainedIdle
    BY SMT, IdlePollsAssumption DEF Init, LoopInv, MintedInv, DrainedIdle, Streak
  <2>3. NoOrphan BY DEF Init, NoOrphan, Live
  <2> QED BY <2>1, <2>2, <2>3 DEF WInv
<1>2. WInv /\ [Next]_vars => WInv'
  <2> SUFFICES ASSUME WInv, [Next]_vars PROVE WInv'
    OBVIOUS
  <2>1. ASSUME NEW c \in Client, Open(c) \/ Leave(c) \/ Accept(c) \/ ConnectError(c) PROVE WInv'
    BY <2>1, AcceptStep
  <2>2. ASSUME NEW c \in Client, Requests(c) \/ Handler(c) \/ Worker(c) PROVE WInv'
    BY <2>2, RequestsStep, HandlerStep, WorkerStep
  <2>3. CASE Server
    BY <2>3, ServerStep
  <2>4. CASE Watchdog \/ Exit
    BY <2>4, WatchdogStep
  <2>5. CASE WorkerPanics
    BY <2>5, PanicStep
  <2>6. CASE UNCHANGED vars
    <3>1. TypeOK' BY SMT, <2>6 DEF vars, WInv, TypeOK
    <3>2. LoopInv' BY <2>6 DEF vars, WInv, LoopInv, Streak, Active, Live
    <3>3. MintedInv' /\ NoOrphan' BY <2>6 DEF vars, WInv, MintedInv, NoOrphan, Live
    <3>4. DrainedIdle' BY <2>6 DEF vars, WInv, DrainedIdle, Active, Live
    <3> QED BY <3>1, <3>2, <3>3, <3>4 DEF WInv
  <2> QED BY <2>1, <2>2, <2>3, <2>4, <2>5, <2>6 DEF Next, Exited
<1> QED BY <1>1, <1>2, PTL DEF Spec

\* For any number of clients, permits and sandboxes, and any idle timeout of
\* two polls or more, the watchdog drains only a daemon without live
\* containers, requests in flight or an accepted client (idle_watchdog).
THEOREM DrainsOnlyWhenIdle == Spec => []DrainedIdle
<1>1. WInv => DrainedIdle
  BY DEF WInv
<1> QED BY <1>1, WInvInvariant, PTL

\* For any number of them, a container that is counted has an id that was
\* delivered, or a task that delivers or undoes it (deliver_minted_reply,
\* release_undelivered_sandbox).
THEOREM NothingOrphaned == Spec => []NoOrphan
<1>1. WInv => NoOrphan
  BY DEF WInv
<1> QED BY <1>1, WInvInvariant, PTL
=============================================================================
