--------------------------- MODULE WslcRun_proofs ----------------------------
(***************************************************************************)
(* The streams of a WSLc exec, for any number of streams and chunks and    *)
(* any capacity of the queues: what the run thread knows of its process is *)
(* so (ProcInv), output is delivered whole or marked as truncated (OutInv),*)
(* and stdin is not cut short under a process that may still run (FeedInv).*)
(***************************************************************************)
EXTENDS WslcRun, TLAPS

\* Most leaves are set reasoning for Zenon; the others name SMT.
USE Zenon

\* Tuples of variables, and the operators that leave one alone, are unfolded throughout.
USE DEF procVars, runVars, sinkVars, pipeVars, relayVars, writerVars, gateVars, inVars, fixed,
        vars, NoStream, NoOther, NoRun

-----------------------------------------------------------------------------
(* The process and its run thread.                                         *)

\* What the run thread has learnt of its process is so.
ProcInv ==
  /\ callback => proc = "ended"
  /\ confirmed => callback
  /\ pc = "create" => proc = "none" /\ ~stopped
  /\ pc \in {"create", "attach"} => writer = "none"
  /\ exitWait = "Signalled" => proc = "ended"
  /\ pc = "stop" => proc # "alive"
  /\ stopped => proc # "alive"
  /\ pc \in {"stop", "return", "over"} => report \in {Unconfirmed} \cup Terminal
  /\ held => pc = "over"

LEMMA ProcQuiet ==
  ASSUME ProcInv, UNCHANGED <<procVars, runVars, held, stopped>>, writer = "none" => writer' = "none"
  PROVE  ProcInv'
BY SMT DEF ProcInv

LEMMA RunProc == ASSUME ProcInv, RunThread PROVE ProcInv'
<1>1. ASSUME NEW ok \in BOOLEAN, CreateProcess(ok) PROVE ProcInv'
  BY <1>1 DEF ProcInv, CreateProcess, Returns, Terminal
<1>2. ASSUME NEW ok \in BOOLEAN, AttachStdin(ok) PROVE ProcInv'
  BY <1>2 DEF ProcInv, AttachStdin
<1>3. ASSUME NEW ok \in BOOLEAN, GetExitEvent(ok) PROVE ProcInv'
  BY <1>3 DEF ProcInv, GetExitEvent
<1>4. ASSUME NEW ok \in BOOLEAN, GetExitCode(ok) PROVE ProcInv'
  <2>1. ClassifyCompletion \in {Unconfirmed} \cup Terminal
    BY SMT DEF ClassifyCompletion, Interrupted, Terminal
  <2>2. ClassifyCompletion # Unconfirmed => proc = "ended"
    BY DEF ProcInv, ClassifyCompletion, NaturalExitConfirmed
  <2>3. NaturalExitConfirmed => proc = "ended" BY DEF ProcInv, NaturalExitConfirmed
  <2> QED BY SMT, <1>4, <2>1, <2>2, <2>3 DEF ProcInv, GetExitCode, Returns, Terminal
<1>5. ASSUME NEW i \in Interrupted, WaitInterrupted(i) PROVE ProcInv'
  BY <1>5 DEF ProcInv, WaitInterrupted, Interrupted
<1>6. ASSUME NEW inTime \in BOOLEAN, Confirm(inTime) PROVE ProcInv'
  BY <1>6 DEF ProcInv, Confirm
<1>7. CASE KillWait BY <1>7 DEF ProcInv, KillWait, Returns, Terminal
<1>8. CASE WaitOn \/ Interrupt BY SMT, <1>8 DEF ProcInv, WaitOn, Interrupt
<1>9. CASE WaitSlice BY <1>9 DEF ProcInv, WaitSlice
<1>10. CASE DropStdin BY <1>10 DEF ProcInv, DropStdin, StopWriter
<1>11. CASE RunReturns BY <1>11 DEF ProcInv, RunReturns, Terminal
<1>12. ASSUME NEW deleted \in BOOLEAN, Retire(deleted) PROVE ProcInv'
  BY <1>12 DEF ProcInv, Retire, StopWriter
<1> QED
  BY <1>1, <1>2, <1>3, <1>4, <1>5, <1>6, <1>7, <1>8, <1>9, <1>10, <1>11, <1>12 DEF RunThread

LEMMA ProcStep == ASSUME ProcInv, [Next]_vars PROVE ProcInv'
<1>1. CASE RunThread BY <1>1, RunProc
<1>2. CASE Handler \/ ReadFrame \/ RequestCancel \/ ClientLeaves
  BY <1>2, ProcQuiet DEF Handler, StreamChunk, RunDone, DrainChunk, SendersGone, ChooseTerminal,
     WriteTerminal, AbortExec, ReadFrame, RequestCancel, ClientLeaves
<1>3. CASE Relay \/ Attach \/ SendStdin \/ BreakStdin
  BY <1>3, ProcQuiet DEF Relay, TakeExecStdin, RelayReads, RelaySends, RelayBreaks, RelayRunOver,
     Attach, SendStdin, BreakStdin
<1>4. CASE Writer
  BY <1>4, ProcQuiet DEF Writer, WriterReceives, WriterGate, WriterWrites, WriterStops
<1>5. CASE \E s \in Stream : SinkChecks(s) \/ SinkSends(s)
  BY <1>5, ProcQuiet DEF SinkChecks, SinkSends
<1>6. CASE UNCHANGED vars BY <1>6, ProcQuiet
<1>7. CASE DeleteQuarantined BY <1>7 DEF ProcInv, DeleteQuarantined, StopWriter
<1>8. CASE LoseRun BY <1>8, ProcQuiet DEF LoseRun
<1>9. CASE ProcessEnds BY <1>9 DEF ProcInv, ProcessEnds
<1>10. CASE ExitCallback BY <1>10 DEF ProcInv, ExitCallback
<1> QED BY <1>1, <1>2, <1>3, <1>4, <1>5, <1>6, <1>7, <1>8, <1>9, <1>10 DEF Next

LEMMA ProcInvHolds == Spec => []ProcInv
<1>1. Init => ProcInv BY DEF Init, ProcInv
<1> QED BY <1>1, ProcStep, PTL DEF Spec

-----------------------------------------------------------------------------
(* Output of an exec of the WSLc daemon.                                   *)

\* A chunk with nothing dropped before it.
Clean == Stream \X {FALSE}
EndFrame == {<<t>> : t \in Terminal}

\* The terminal that the worker's report calls for.
Verdict == IF done = "lost" THEN "Error" ELSE done

OutTypes ==
  /\ lost \subseteq Stream /\ inSink \subseteq Stream
  /\ queue \in Seq(Clean)
  /\ wire \in Seq(Clean \cup EndFrame \cup {Truncated})
  /\ done \in {"pending", "lost"} \cup Terminal

\* What happens to the sink until its process's last callback.
SinkInv ==
  /\ \A s \in lost : closed \/ (overflowed /\ s \notin inSink)
  /\ callback => inSink = {}

\* The connection's task and the run.
TaskInv ==
  /\ handler \in {"stream", "drain", "await", "finish", "over", "aborted"}
  /\ closed => done # "pending" \/ handler = "aborted"
  /\ done \in {"pending", "lost"} \/ pc = "over"
  /\ handler \in {"drain", "finish", "over"} => done # "pending"
  /\ handler = "await" => pc = "over"
  /\ handler = "drain" => closed
  /\ client # "gone" => handler # "aborted"

\* A run that was confirmed, and whose client still listens.
Sound == confirmed /\ done # "lost" /\ handler # "aborted"

\* Nothing of such a run is lost but by an overflow, and nothing is left in the queue.
LossInv ==
  /\ ~closed /\ lost # {} => overflowed
  /\ Sound /\ lost # {} => overflowed
  /\ Sound /\ handler \in {"await", "finish", "over"} => queue = <<>>

\* The frames on their way after the run is done.
EndInv ==
  /\ handler \in {"stream", "drain", "await"} =>
       notice = <<>> /\ client \notin Terminal /\ \A i \in DOMAIN wire : wire[i] \notin EndFrame
  /\ handler = "finish" =>
       /\ notice \in {<<Truncated, <<Verdict>>>>, <<<<Verdict>>>>}
       /\ client \notin Terminal /\ \A i \in DOMAIN wire : wire[i] \notin EndFrame
  /\ handler = "over" =>
       /\ client \in Terminal => client = Verdict
       /\ \A i \in DOMAIN wire : wire[i] \in EndFrame => wire[i] = <<Verdict>>
  /\ Sound /\ overflowed /\ ~truncated /\ handler \in {"finish", "over"} =>
       /\ client \notin Terminal
       /\ \/ handler = "finish" /\ notice = <<Truncated, <<Verdict>>>>
          \/ \E i \in DOMAIN wire :
               wire[i] = Truncated /\ \A j \in 1 .. i - 1 : wire[j] \notin EndFrame

OutInv == OutTypes /\ SinkInv /\ TaskInv /\ LossInv /\ EndInv /\ ~gapped

LEMMA TailFacts ==
  ASSUME NEW S, NEW q \in Seq(S), q # <<>>
  PROVE  /\ Head(q) \in S /\ Head(q) = q[1] /\ 1 \in DOMAIN q
         /\ Tail(q) \in Seq(S) /\ DOMAIN q = 1 .. Len(q) /\ DOMAIN Tail(q) = 1 .. Len(q) - 1
         /\ \A i \in 1 .. Len(q) - 1 : Tail(q)[i] = q[i + 1] /\ i + 1 \in DOMAIN q
BY SMT

LEMMA AppendFacts ==
  ASSUME NEW S, NEW q \in Seq(S), NEW x \in S
  PROVE  /\ Append(q, x) \in Seq(S)
         /\ DOMAIN q = 1 .. Len(q) /\ DOMAIN Append(q, x) = 1 .. Len(q) + 1
         /\ \A i \in DOMAIN q : Append(q, x)[i] = q[i]
         /\ Append(q, x)[Len(q) + 1] = x
BY SMT

LEMMA NoneIn == \A S : <<>> \in Seq(S)
BY SMT

LEMMA PairFacts == ASSUME NEW S, NEW T, NEW p \in S \X T PROVE p[1] \in S /\ p[2] \in T
OBVIOUS

LEMMA OutQuiet ==
  ASSUME OutInv, UNCHANGED <<sinkVars, pipeVars, done, confirmed, callback>>,
         pc = "over" => pc' = "over"
  PROVE  OutInv'
<1>1. OutTypes' /\ SinkInv' /\ ~gapped' BY DEF OutInv, OutTypes, SinkInv
<1>2. TaskInv' BY DEF OutInv, TaskInv
<1>3. LossInv' BY DEF OutInv, LossInv, Sound
<1>4. EndInv' BY DEF OutInv, EndInv, Sound, Verdict
<1> QED BY <1>1, <1>2, <1>3, <1>4 DEF OutInv

\* Whatever the run thread does, from the creation of the process to its retirement.
LEMMA RunOut == ASSUME ProcInv, OutInv, RunThread PROVE OutInv'
<1>1. ASSUME NEW ok \in BOOLEAN,
             CreateProcess(ok) \/ AttachStdin(ok) \/ GetExitEvent(ok) \/ GetExitCode(ok)
      PROVE  OutInv'
  BY <1>1, OutQuiet DEF CreateProcess, AttachStdin, GetExitEvent, GetExitCode, Returns
<1>2. ASSUME NEW i \in Interrupted, WaitInterrupted(i) PROVE OutInv'
  BY <1>2, OutQuiet DEF WaitInterrupted
<1>3. CASE KillWait \/ WaitOn \/ WaitSlice \/ Interrupt \/ DropStdin \/ RunReturns
  BY <1>3, OutQuiet DEF KillWait, WaitOn, WaitSlice, Interrupt, DropStdin, RunReturns, Returns
<1>4. ASSUME NEW inTime \in BOOLEAN, Confirm(inTime) PROVE OutInv'
  <2>1. /\ pc # "over" /\ (confirmed' => callback) /\ UNCHANGED <<sinkVars, pipeVars, done, callback>>
    BY <1>4 DEF Confirm
  <2>2. done \in {"pending", "lost"} BY <2>1 DEF OutInv, TaskInv
  <2>3. OutTypes' /\ SinkInv' /\ ~gapped' BY <2>1 DEF OutInv, OutTypes, SinkInv
  <2>4. TaskInv' BY <2>1, <2>2 DEF OutInv, TaskInv
  <2>5. LossInv' BY <2>1, <2>2 DEF OutInv, LossInv, TaskInv, Sound
  <2>6. EndInv' BY <2>1, <2>2 DEF OutInv, EndInv, TaskInv, Sound, Verdict
  <2> QED BY <2>3, <2>4, <2>5, <2>6 DEF OutInv
<1>5. ASSUME NEW deleted \in BOOLEAN, Retire(deleted) PROVE OutInv'
  <2>1. /\ pc = "over" /\ pc' = pc /\ done = "pending"
        /\ done' \in Terminal
        /\ UNCHANGED <<sinkVars, pipeVars, callback, confirmed>>
    BY <1>5 DEF Retire, InFlight, ProcInv, Terminal
  <2>2. handler \in {"drain", "finish", "over"} => FALSE BY <2>1 DEF OutInv, TaskInv
  <2>3. OutTypes' /\ SinkInv' /\ ~gapped' BY <2>1 DEF OutInv, OutTypes, SinkInv
  <2>4. TaskInv' BY <2>1, <2>2 DEF OutInv, TaskInv, Terminal
  <2>5. LossInv' BY <2>1, <2>2 DEF OutInv, LossInv, TaskInv, Sound
  <2>6. EndInv' BY <2>1, <2>2 DEF OutInv, EndInv, TaskInv, Sound, Verdict
  <2> QED BY <2>3, <2>4, <2>5, <2>6 DEF OutInv
<1> QED BY <1>1, <1>2, <1>3, <1>4, <1>5 DEF RunThread

LEMMA SinkOut == ASSUME ProcInv, OutInv, NEW s \in Stream, SinkChecks(s) \/ SinkSends(s) PROVE OutInv'
<1>1. CASE SinkChecks(s)
  <2>1. /\ ~callback /\ ~confirmed /\ UNCHANGED <<pc, callback, confirmed, done, queue, overflowed, pipeVars>>
        /\ \/ overflowed /\ lost' = lost \cup {s} /\ inSink' = inSink /\ s \notin inSink
           \/ ~overflowed /\ inSink' = inSink \cup {s} /\ lost' = lost
    BY <1>1 DEF SinkChecks, ProcInv
  <2>2. OutTypes' /\ ~gapped' BY <2>1 DEF OutInv, OutTypes
  <2>3. SinkInv' BY <2>1 DEF OutInv, SinkInv
  <2>4. TaskInv' BY <2>1 DEF OutInv, TaskInv
  <2>5. LossInv' BY <2>1 DEF OutInv, LossInv, Sound
  <2>6. EndInv' BY <2>1 DEF OutInv, EndInv, Sound, Verdict
  <2> QED BY <2>2, <2>3, <2>4, <2>5, <2>6 DEF OutInv
<1>2. CASE SinkSends(s)
  <2>1. /\ s \in inSink /\ inSink' = inSink \ {s}
        /\ UNCHANGED <<pc, callback, confirmed, done, pipeVars>>
    BY <1>2 DEF SinkSends
  <2>2. ~callback /\ ~confirmed BY <2>1 DEF OutInv, SinkInv, ProcInv
  <2>3. TaskInv' /\ ~gapped' BY <2>1 DEF OutInv, TaskInv
  <2>4. EndInv' BY <2>1, <2>2 DEF OutInv, EndInv, Sound, Verdict
  <2>5. CASE ~closed /\ Len(queue) < OutCapacity
    <3>1. queue' = Append(queue, <<s, s \in lost>>) /\ lost' = lost /\ overflowed' = overflowed
      BY <1>2, <2>5 DEF SinkSends
    <3>2. s \notin lost BY <2>1, <2>5 DEF OutInv, SinkInv
    <3>3. <<s, s \in lost>> \in Clean
      <4>1. (s \in lost) = FALSE BY SMT, <3>2
      <4> QED BY <4>1 DEF Clean
    <3>4. OutTypes' BY <2>1, <3>1, <3>3, AppendFacts DEF OutInv, OutTypes
    <3>5. SinkInv' BY <2>1, <2>2, <3>1 DEF OutInv, SinkInv
    <3>6. LossInv' BY <2>1, <2>2, <3>1 DEF OutInv, LossInv, Sound
    <3> QED BY <2>3, <2>4, <3>4, <3>5, <3>6 DEF OutInv
  <2>6. CASE ~(~closed /\ Len(queue) < OutCapacity)
    <3>1. lost' = lost \cup {s} /\ queue' = queue /\ overflowed' = (overflowed \/ ~closed)
      BY <1>2, <2>6 DEF SinkSends
    <3>2. (overflowed \/ ~closed) => overflowed' BY <3>1
    <3>3. OutTypes' BY <2>1, <3>1 DEF OutInv, OutTypes
    <3>4. SinkInv' BY <2>1, <2>2, <3>1, <3>2 DEF OutInv, SinkInv
    <3>5. LossInv' BY <2>1, <2>2, <3>1, <3>2 DEF OutInv, LossInv, Sound
    <3> QED BY <2>3, <2>4, <3>3, <3>4, <3>5 DEF OutInv
  <2> QED BY <2>5, <2>6
<1> QED BY <1>1, <1>2

\* A frame that is no terminal goes out before the run is done with.
LEMMA ChunkOut == ASSUME OutInv, StreamChunk \/ DrainChunk PROVE OutInv'
<1>1. /\ handler \in {"stream", "drain"} /\ handler' = handler
      /\ queue # <<>> /\ wire' = Append(wire, Head(queue)) /\ queue' = Tail(queue)
      /\ UNCHANGED <<pc, callback, confirmed, done, lost, inSink, overflowed, closed, notice, client,
                     gapped, truncated>>
  BY DEF StreamChunk, DrainChunk, WriteChunk, WriteFrame
<1>2. Head(queue) \in Clean /\ queue' \in Seq(Clean) BY <1>1, TailFacts DEF OutInv, OutTypes
<1>3. Head(queue) \notin EndFrame
  BY SMT, <1>2, StreamAssumption DEF Clean, EndFrame
<1>4. /\ wire' \in Seq(Clean \cup EndFrame \cup {Truncated})
      /\ \A i \in DOMAIN wire' : wire'[i] \in EndFrame => i \in DOMAIN wire /\ wire'[i] = wire[i]
  BY SMT, <1>1, <1>2, <1>3, AppendFacts DEF OutInv, OutTypes
<1>5. OutTypes' /\ ~gapped' BY <1>1, <1>2, <1>4 DEF OutInv, OutTypes
<1>6. SinkInv' /\ TaskInv' BY <1>1 DEF OutInv, SinkInv, TaskInv
<1>7. LossInv' BY <1>1 DEF OutInv, LossInv, Sound
<1>8. EndInv' BY <1>1, <1>4 DEF OutInv, EndInv
<1> QED BY <1>5, <1>6, <1>7, <1>8 DEF OutInv

\* The connection's task comes to its terminal frames.
LEMMA TurnOut == ASSUME ProcInv, OutInv, RunDone \/ SendersGone \/ ChooseTerminal PROVE OutInv'
<1>1. CASE RunDone
  <2>1. /\ handler = "stream" /\ done # "pending" /\ handler' = "drain" /\ closed' = TRUE
        /\ UNCHANGED <<pc, callback, confirmed, done, sinkVars, notice, wire, client, gapped, truncated>>
    BY <1>1 DEF RunDone
  <2>2. OutTypes' /\ ~gapped' /\ SinkInv' BY <2>1 DEF OutInv, OutTypes, SinkInv
  <2>3. TaskInv' BY <2>1 DEF OutInv, TaskInv
  <2>4. LossInv' BY <2>1 DEF OutInv, LossInv, Sound, TaskInv
  <2>5. EndInv' BY <2>1 DEF OutInv, EndInv
  <2> QED BY <2>2, <2>3, <2>4, <2>5 DEF OutInv
<1>2. CASE SendersGone
  <2>1. /\ handler = "stream" /\ done = "pending" /\ queue = <<>> /\ pc = "over" /\ handler' = "await"
        /\ UNCHANGED <<pc, callback, confirmed, done, sinkVars, closed, notice, wire, client, gapped,
                       truncated>>
    BY <1>2 DEF SendersGone, SinkAlive
  <2>2. OutTypes' /\ ~gapped' /\ SinkInv' BY <2>1 DEF OutInv, OutTypes, SinkInv
  <2>3. TaskInv' BY <2>1 DEF OutInv, TaskInv
  <2>4. LossInv' BY <2>1 DEF OutInv, LossInv, Sound
  <2>5. EndInv' BY <2>1 DEF OutInv, EndInv
  <2> QED BY <2>2, <2>3, <2>4, <2>5 DEF OutInv
<1>3. CASE ChooseTerminal
  <2>1. /\ (handler = "drain" /\ queue = <<>>) \/ handler = "await"
        /\ done # "pending" /\ handler' = "finish" /\ notice' = TerminalFrames
        /\ UNCHANGED <<pc, callback, confirmed, done, sinkVars, closed, wire, client, gapped,
                       truncated>>
    BY <1>3 DEF ChooseTerminal, OutInv, TaskInv
  <2>2. OutTypes' /\ ~gapped' /\ SinkInv' BY <2>1 DEF OutInv, OutTypes, SinkInv
  <2>3. TaskInv' BY <2>1 DEF OutInv, TaskInv
  <2>4. LossInv' BY <2>1 DEF OutInv, LossInv, Sound
  <2>5. notice' = IF overflowed THEN <<Truncated, <<Verdict>>>> ELSE <<<<Verdict>>>>
    BY <2>1 DEF TerminalFrames, Verdict
  <2>6. EndInv' BY <2>1, <2>5 DEF OutInv, EndInv, Verdict
  <2> QED BY <2>2, <2>3, <2>4, <2>6 DEF OutInv
<1> QED BY <1>1, <1>2, <1>3

LEMMA TerminalOut == ASSUME OutInv, WriteTerminal PROVE OutInv'
<1>1. /\ handler = "finish" /\ wire' = Append(wire, Head(notice)) /\ notice' = Tail(notice)
      /\ handler' = IF Len(notice) = 1 THEN "over" ELSE "finish"
      /\ UNCHANGED <<pc, callback, confirmed, done, sinkVars, closed, client, gapped, truncated>>
  BY DEF WriteTerminal, WriteFrame
<1>2. notice \in {<<Truncated, <<Verdict>>>>, <<<<Verdict>>>>} BY <1>1 DEF OutInv, EndInv
<1>3. <<Verdict>> \in EndFrame
  BY <1>1 DEF OutInv, OutTypes, TaskInv, EndFrame, Verdict, Terminal
<1>4. Truncated \notin EndFrame BY DEF Truncated, EndFrame, Terminal
<1>5. SinkInv' /\ TaskInv' /\ ~gapped' BY <1>1 DEF OutInv, SinkInv, TaskInv
<1>6. LossInv' BY <1>1 DEF OutInv, LossInv, Sound
<1>7. wire \in Seq(Clean \cup EndFrame \cup {Truncated}) BY DEF OutInv, OutTypes
<1>8. CASE notice = <<Truncated, <<Verdict>>>>
  <2>1. /\ wire' = Append(wire, Truncated) /\ notice' = <<<<Verdict>>>> /\ handler' = "finish"
    BY SMT, <1>1, <1>8
  <2>2. /\ wire' \in Seq(Clean \cup EndFrame \cup {Truncated})
        /\ \A i \in DOMAIN wire' : (i \in DOMAIN wire /\ wire'[i] = wire[i]) \/ wire'[i] = Truncated
        /\ Len(wire) + 1 \in DOMAIN wire' /\ wire'[Len(wire) + 1] = Truncated
        /\ \A j \in 1 .. Len(wire) : j \in DOMAIN wire /\ wire'[j] = wire[j]
    BY SMT, <1>7, <2>1, AppendFacts
  <2>3. OutTypes' BY <1>1, <2>2 DEF OutInv, OutTypes
  <2>4. \A i \in DOMAIN wire : wire[i] \notin EndFrame BY <1>1 DEF OutInv, EndInv
  <2>5. \A i \in DOMAIN wire' : wire'[i] \notin EndFrame BY <1>4, <2>2, <2>4
  <2>6. \E i \in DOMAIN wire' : wire'[i] = Truncated /\ \A j \in 1 .. i - 1 : wire'[j] \notin EndFrame
    BY SMT, <1>7, <2>2, <2>4
  <2>7. EndInv' BY <1>1, <2>1, <2>5, <2>6 DEF OutInv, EndInv, Verdict
  <2> QED BY <1>5, <1>6, <2>3, <2>7 DEF OutInv
<1>9. CASE notice = <<<<Verdict>>>>
  <2>1. /\ wire' = Append(wire, <<Verdict>>) /\ notice' = <<>> /\ handler' = "over"
    BY SMT, <1>1, <1>9
  <2>2. /\ wire' \in Seq(Clean \cup EndFrame \cup {Truncated})
        /\ \A i \in DOMAIN wire' : (i \in DOMAIN wire /\ wire'[i] = wire[i]) \/ wire'[i] = <<Verdict>>
        /\ \A i \in DOMAIN wire : i \in DOMAIN wire' /\ wire'[i] = wire[i]
    BY SMT, <1>3, <1>7, <2>1, AppendFacts
  <2>3. OutTypes' BY <1>1, <2>2 DEF OutInv, OutTypes
  <2>4. /\ client \notin Terminal /\ \A i \in DOMAIN wire : wire[i] \notin EndFrame
    BY <1>1 DEF OutInv, EndInv
  <2>5. Verdict' = Verdict BY <1>1 DEF Verdict
  <2>6. \A i \in DOMAIN wire' : wire'[i] \in EndFrame => wire'[i] = <<Verdict>>
    BY <2>2, <2>4
  <2>7. Sound' /\ overflowed' /\ ~truncated' =>
          \E i \in DOMAIN wire' : wire'[i] = Truncated /\ \A j \in 1 .. i - 1 : wire'[j] \notin EndFrame
    <3> SUFFICES ASSUME Sound', overflowed', ~truncated'
                 PROVE  \E i \in DOMAIN wire' :
                          wire'[i] = Truncated /\ \A j \in 1 .. i - 1 : wire'[j] \notin EndFrame
      OBVIOUS
    <3>1. notice # <<Truncated, <<Verdict>>>> BY <1>9
    <3>2. PICK i \in DOMAIN wire : wire[i] = Truncated /\ \A j \in 1 .. i - 1 : wire[j] \notin EndFrame
      BY <1>1, <3>1 DEF OutInv, EndInv, Sound
    <3>3. \A j \in 1 .. i - 1 : j \in DOMAIN wire BY SMT, <1>7
    <3> QED BY <2>2, <3>2, <3>3
  <2>8. EndInv' BY <1>1, <2>1, <2>4, <2>5, <2>6, <2>7 DEF EndInv
  <2> QED BY <1>5, <1>6, <2>3, <2>8 DEF OutInv
<1> QED BY <1>2, <1>8, <1>9

LEMMA AbortOut == ASSUME OutInv, AbortExec \/ ClientLeaves PROVE OutInv'
<1>1. CASE AbortExec
  <2>1. /\ client = "gone" /\ handler' = "aborted" /\ closed' = TRUE /\ queue' = <<>> /\ wire' = <<>>
        /\ UNCHANGED <<pc, callback, confirmed, done, lost, inSink, overflowed, client, gapped, truncated>>
    BY <1>1 DEF AbortExec
  <2>2. OutTypes' /\ ~gapped' BY SMT, <2>1 DEF OutInv, OutTypes
  <2>3. SinkInv' /\ TaskInv' BY <2>1 DEF OutInv, SinkInv, TaskInv
  <2>4. LossInv' /\ EndInv' BY <2>1 DEF LossInv, EndInv, Sound
  <2> QED BY <2>2, <2>3, <2>4 DEF OutInv
<1>2. CASE ClientLeaves
  <2>1. /\ client = "reading" /\ client' = "gone"
        /\ UNCHANGED <<pc, callback, confirmed, done, sinkVars, closed, handler, notice, wire, gapped,
                       truncated>>
    BY <1>2 DEF ClientLeaves
  <2>2. OutTypes' /\ ~gapped' /\ SinkInv' BY <2>1 DEF OutInv, OutTypes, SinkInv
  <2>3. TaskInv' BY <2>1 DEF OutInv, TaskInv
  <2>4. LossInv' BY <2>1 DEF OutInv, LossInv, Sound
  <2>5. EndInv' BY <2>1 DEF OutInv, EndInv, Sound, Verdict, Terminal
  <2> QED BY <2>2, <2>3, <2>4, <2>5 DEF OutInv
<1> QED BY <1>1, <1>2

LEMMA ReadOut == ASSUME OutInv, ReadFrame PROVE OutInv'
<1> DEFINE f == Head(wire)
<1>1. /\ client = "reading" /\ wire # <<>> /\ wire' = Tail(wire)
      /\ UNCHANGED <<pc, callback, confirmed, done, sinkVars, closed, handler, notice>>
  BY DEF ReadFrame
<1>2. /\ f \in Clean \cup EndFrame \cup {Truncated} /\ f = wire[1] /\ 1 \in DOMAIN wire
      /\ wire' \in Seq(Clean \cup EndFrame \cup {Truncated})
      /\ DOMAIN wire = 1 .. Len(wire) /\ DOMAIN wire' = 1 .. Len(wire) - 1 /\ Len(wire) \in Nat
      /\ \A i \in DOMAIN wire' : wire'[i] = wire[i + 1] /\ i + 1 \in DOMAIN wire
  BY SMT, <1>1, TailFacts DEF OutInv, OutTypes
<1>3. OutTypes' /\ SinkInv' BY <1>1, <1>2 DEF OutInv, OutTypes, SinkInv
<1>4. LossInv' BY <1>1 DEF OutInv, LossInv, Sound
<1>5. handler # "aborted" BY <1>1 DEF OutInv, TaskInv
<1>6. TaskInv' BY <1>1, <1>5 DEF OutInv, TaskInv
<1>7. ASSUME f \in EndFrame PROVE handler = "over" /\ f = <<Verdict>>
  BY <1>2, <1>5, <1>7 DEF OutInv, EndInv, TaskInv
<1>8. CASE f = Truncated /\ truncated' = TRUE /\ UNCHANGED <<client, gapped>>
  <2>1. EndInv' BY <1>1, <1>2, <1>8 DEF OutInv, EndInv, Verdict, Terminal
  <2> QED BY <1>3, <1>4, <1>6, <1>8, <2>1 DEF OutInv
<1>9. CASE f[1] \in Terminal /\ client' = f[1] /\ UNCHANGED <<gapped, truncated>>
  <2>1. f \in EndFrame
    <3>1. f \notin Clean
      <4>1. f \in Clean => f[1] \in Stream BY DEF Clean
      <4> QED BY <1>9, <4>1, StreamAssumption
    <3>2. f # Truncated BY SMT, <1>9 DEF Truncated, Terminal
    <3> QED BY <1>2, <3>1, <3>2
  <2>2. handler = "over" /\ client' = Verdict BY SMT, <1>7, <1>9, <2>1
  <2>3. ~(Sound /\ overflowed /\ ~truncated)
    <3> SUFFICES ASSUME Sound, overflowed, ~truncated PROVE FALSE OBVIOUS
    <3>1. PICK i \in DOMAIN wire : wire[i] = Truncated /\ \A j \in 1 .. i - 1 : wire[j] \notin EndFrame
      BY <2>2 DEF OutInv, EndInv
    <3>2. f # Truncated BY SMT, <1>9 DEF Truncated, Terminal
    <3>3. 1 \in 1 .. i - 1 BY SMT, <1>2, <3>1, <3>2
    <3> QED BY <1>2, <2>1, <3>1, <3>3
  <2>4. EndInv' BY <1>1, <1>2, <1>9, <2>2, <2>3 DEF OutInv, EndInv, Verdict, Sound
  <2> QED BY <1>3, <1>4, <1>6, <1>9, <2>4 DEF OutInv
<1>10. CASE f[1] \in Stream /\ gapped' = (gapped \/ f[2]) /\ UNCHANGED <<client, truncated>>
  <2>1. f \in Clean BY SMT, <1>2, <1>10, StreamAssumption DEF EndFrame, Truncated
  <2>2. ~f[2] /\ f # Truncated
    <3>1. f[2] \in {FALSE} BY <2>1, PairFacts DEF Clean
    <3>2. Truncated[1] \notin Stream BY StreamAssumption DEF Truncated
    <3> QED BY <1>10, <3>1, <3>2
  <2>3. ~gapped' BY <1>10, <2>2 DEF OutInv
  <2>4. Sound /\ overflowed /\ ~truncated /\ handler \in {"finish", "over"} =>
          \/ handler = "finish" /\ notice = <<Truncated, <<Verdict>>>>
          \/ \E i \in DOMAIN wire' : wire'[i] = Truncated /\ \A j \in 1 .. i - 1 : wire'[j] \notin EndFrame
    <3> SUFFICES ASSUME NEW i \in DOMAIN wire, wire[i] = Truncated,
                        \A j \in 1 .. i - 1 : wire[j] \notin EndFrame
                 PROVE  \E k \in DOMAIN wire' :
                          wire'[k] = Truncated /\ \A j \in 1 .. k - 1 : wire'[j] \notin EndFrame
      BY DEF OutInv, EndInv
    <3>1. i \in 2 .. Len(wire) BY SMT, <1>2, <2>2
    <3>2. i - 1 \in DOMAIN wire' /\ wire'[i - 1] = Truncated BY SMT, <1>2, <3>1
    <3>3. \A j \in 1 .. (i - 1) - 1 : wire'[j] = wire[j + 1] /\ j + 1 \in 1 .. i - 1 BY SMT, <1>2, <3>1
    <3> QED BY <3>2, <3>3
  <2>5. EndInv' BY SMT, <1>1, <1>2, <1>10, <2>4 DEF OutInv, EndInv, Verdict, Sound, Terminal
  <2> QED BY <1>3, <1>4, <1>6, <2>3, <2>5 DEF OutInv
<1> QED BY <1>8, <1>9, <1>10 DEF ReadFrame

LEMMA OutStep == ASSUME ProcInv, OutInv, [Next]_vars PROVE OutInv'
<1>1. CASE RunThread BY <1>1, RunOut
<1>2. CASE Handler
  BY <1>2, ChunkOut, TurnOut, TerminalOut, AbortOut DEF Handler
<1>3. CASE ReadFrame \/ ClientLeaves BY <1>3, ReadOut, AbortOut
<1>4. CASE Relay \/ Attach \/ SendStdin \/ BreakStdin \/ RequestCancel
  BY <1>4, OutQuiet DEF Relay, TakeExecStdin, RelayReads, RelaySends, RelayBreaks, RelayRunOver,
     Attach, SendStdin, BreakStdin, RequestCancel
<1>5. CASE Writer
  BY <1>5, OutQuiet DEF Writer, WriterReceives, WriterGate, WriterWrites, WriterStops
<1>6. CASE UNCHANGED vars BY <1>6, OutQuiet
<1>7. CASE DeleteQuarantined \/ ProcessEnds BY <1>7, OutQuiet DEF DeleteQuarantined, ProcessEnds
<1>8. CASE LoseRun
  <2>1. /\ done = "pending" /\ done' = "lost"
        /\ UNCHANGED <<pc, callback, confirmed, sinkVars, pipeVars>>
    BY <1>8 DEF LoseRun, InFlight
  <2>2. OutTypes' /\ ~gapped' /\ SinkInv' BY <2>1 DEF OutInv, OutTypes, SinkInv
  <2>3. TaskInv' BY <2>1 DEF OutInv, TaskInv
  <2>4. LossInv' BY <2>1 DEF OutInv, LossInv, Sound
  <2>5. EndInv' BY <2>1 DEF OutInv, EndInv, Sound, TaskInv
  <2> QED BY <2>2, <2>3, <2>4, <2>5 DEF OutInv
<1>9. CASE ExitCallback
  <2>1. inSink = {} /\ UNCHANGED <<pc, confirmed, done, sinkVars, pipeVars>>
    BY <1>9 DEF ExitCallback
  <2>2. OutTypes' /\ ~gapped' /\ SinkInv' BY <2>1 DEF OutInv, OutTypes, SinkInv
  <2>3. TaskInv' BY <2>1 DEF OutInv, TaskInv
  <2>4. LossInv' BY <2>1 DEF OutInv, LossInv, Sound
  <2>5. EndInv' BY <2>1 DEF OutInv, EndInv, Sound, Verdict
  <2> QED BY <2>2, <2>3, <2>4, <2>5 DEF OutInv
<1> QED
  BY <1>1, <1>2, <1>3, <1>4, <1>5, <1>6, <1>7, <1>8, <1>9, SinkOut DEF Next

LEMMA OutInvHolds == Spec => []OutInv
<1>1. Init => OutInv
  <2> SUFFICES ASSUME Init PROVE OutInv OBVIOUS
  <2>1. OutTypes /\ SinkInv /\ TaskInv /\ ~gapped BY SMT DEF Init, OutTypes, SinkInv, TaskInv
  <2>2. LossInv /\ EndInv BY SMT DEF Init, LossInv, EndInv, Terminal, Sound
  <2> QED BY <2>1, <2>2 DEF OutInv
<1> QED BY <1>1, OutStep, ProcInvHolds, PTL DEF Spec

\* Live output is a prefix without a gap although two callback threads race on
\* the overflow latch (enqueue_output), and a client that is told the exit code
\* of a confirmed run, and of no truncation, has all of it (write_exec_result).
THEOREM OutputIsWhole == Spec => []WholeOutput
<1>1. OutInv => WholeOutput
  BY DEF OutInv, TaskInv, LossInv, EndInv, WholeOutput, Sound, Verdict, Terminal
<1> QED BY <1>1, OutInvHolds, PTL

-----------------------------------------------------------------------------
(* Stdin of an exec of the WSLc daemon.                                    *)

\* The client's input, counted from 1: its chunks, then end-of-file.
Nth(n) == IF n <= MaxIn THEN n ELSE EOF

FeedTypes ==
  /\ chunks \in Seq(0 .. MaxIn) /\ inWire \in Seq(0 .. MaxIn)
  /\ fed \in 0 .. MaxIn /\ sent \in Nat /\ taken \in 0 .. MaxIn /\ chunk \in 0 .. MaxIn
  /\ stdin \in {"open", "complete", "reader_gone", "stopped", "unattached"}

\* How stdin came to be closed, and where the input begins.
ShutInv ==
  /\ stdin = "stopped" => stopped
  /\ stdin = "complete" => fed = MaxIn /\ writer = "ended"
  /\ writer = "write" => chunk # EOF
  /\ relay = "none" => inWire = <<>> /\ conn \in {"none", "asked", "broken"}

\* Chunks up to the one in hand, up to the last in the channel, and up to the
\* last that the relay has read.
InHand == fed + IF writer \in {"gate", "write"} THEN 1 ELSE 0
Queued == InHand + Len(chunks)
Relayed == Queued + IF relay = "send" THEN 1 ELSE 0

\* The writer goes on with what the channel holds.
Feeding == ~stopped /\ (writer \in {"recv", "gate", "write"} \/ pc \in {"create", "attach"})

\* What is on its way continues what the process was given.
Chain ==
  /\ writer \in {"gate", "write"} => chunk = Nth(InHand)
  /\ \A i \in DOMAIN chunks : chunks[i] = Nth(InHand + i)
  /\ relay = "send" => taken = Nth(Relayed)
  /\ relay \in {"none", "read", "send"} =>
       /\ \A i \in DOMAIN inWire : inWire[i] = Nth(Relayed + i)
       /\ sent = Relayed + Len(inWire)

FeedInv == FeedTypes /\ ShutInv /\ (Feeding => Chain)

LEMMA FeedQuiet ==
  ASSUME FeedInv, pc' \in {"create", "attach"} => pc \in {"create", "attach"},
         UNCHANGED <<inWire, chunks, sent, fed, taken, chunk, stdin, stopped, writer, relay, conn>>
  PROVE  FeedInv'
<1>1. FeedTypes' /\ ShutInv' BY DEF FeedInv, FeedTypes, ShutInv
<1>2. Feeding' => Feeding BY DEF Feeding
<1>3. Chain => Chain' BY SMT DEF Chain, InHand, Queued, Relayed
<1> QED BY <1>1, <1>2, <1>3 DEF FeedInv

LEMMA StopFeed ==
  ASSUME FeedInv, StopWriter,
         UNCHANGED <<pc, inWire, sent, fed, taken, chunk, stdin, writer, relay, conn>>
           \/ (pc = "stop" /\ pc' = "return"
               /\ UNCHANGED <<inWire, sent, fed, taken, chunk, stdin, writer, relay, conn>>)
  PROVE  FeedInv'
<1>1. CASE writer \in {"none", "ended"} BY <1>1, FeedQuiet DEF StopWriter
<1>2. CASE writer \notin {"none", "ended"}
  <2>1. stopped' = TRUE /\ (chunks' = chunks \/ chunks' = Append(chunks, EOF))
    BY <1>2 DEF StopWriter
  <2>2. EOF \in 0 .. MaxIn BY SMT, StdinAssumption DEF EOF
  <2>3. chunks' \in Seq(0 .. MaxIn)
    <3>1. chunks \in Seq(0 .. MaxIn) BY DEF FeedInv, FeedTypes
    <3>2. Append(chunks, EOF) \in Seq(0 .. MaxIn) BY <2>2, <3>1, AppendFacts
    <3> QED BY <2>1, <3>1, <3>2
  <2>4. FeedTypes' BY <2>3 DEF FeedInv, FeedTypes
  <2>5. ShutInv' BY <2>1 DEF FeedInv, ShutInv
  <2>6. ~Feeding' BY <2>1 DEF Feeding
  <2> QED BY <2>4, <2>5, <2>6 DEF FeedInv
<1> QED BY <1>1, <1>2

LEMMA RunFeed == ASSUME ProcInv, FeedInv, RunThread PROVE FeedInv'
<1>1. ASSUME NEW ok \in BOOLEAN, CreateProcess(ok) \/ GetExitEvent(ok) \/ GetExitCode(ok)
      PROVE  FeedInv'
  BY <1>1, FeedQuiet DEF CreateProcess, GetExitEvent, GetExitCode, Returns
<1>2. ASSUME NEW ok \in BOOLEAN, AttachStdin(ok) PROVE FeedInv'
  <2>1. /\ pc = "attach" /\ writer = "none" /\ pc' \in {"event", "kill"}
        /\ UNCHANGED <<inWire, sent, fed, taken, chunk, stopped, relay, conn>>
    BY <1>2 DEF AttachStdin, ProcInv
  <2>2. CASE writer' = "recv" /\ UNCHANGED <<stdin, chunks>>
    <3>1. FeedTypes' /\ ShutInv' BY <2>1, <2>2 DEF FeedInv, FeedTypes, ShutInv
    <3>2. Feeding' => Feeding BY <2>1 DEF Feeding
    <3>3. Chain => Chain' BY <2>1, <2>2 DEF Chain, InHand, Queued, Relayed
    <3> QED BY <3>1, <3>2, <3>3 DEF FeedInv
  <2>3. CASE writer' = writer /\ stdin' \in {"open", "unattached"} /\ chunks' = <<>>
    <3>1. FeedTypes' /\ ShutInv' BY SMT, <2>1, <2>3 DEF FeedInv, FeedTypes, ShutInv
    <3>2. ~Feeding' BY <2>1, <2>3 DEF Feeding
    <3> QED BY <3>1, <3>2 DEF FeedInv
  <2> QED BY <1>2, <2>2, <2>3 DEF AttachStdin
<1>3. CASE (\E i \in Interrupted : WaitInterrupted(i)) \/ \E inTime \in BOOLEAN : Confirm(inTime)
  BY <1>3, FeedQuiet DEF WaitInterrupted, Confirm
<1>4. CASE KillWait \/ WaitOn \/ WaitSlice \/ Interrupt \/ RunReturns
  BY <1>4, FeedQuiet DEF KillWait, WaitOn, WaitSlice, Interrupt, RunReturns, Returns
<1>5. CASE DropStdin BY <1>5, StopFeed DEF DropStdin
<1>6. ASSUME NEW deleted \in BOOLEAN, Retire(deleted) PROVE FeedInv'
  BY <1>6, StopFeed, FeedQuiet DEF Retire
<1> QED BY <1>1, <1>2, <1>3, <1>4, <1>5, <1>6 DEF RunThread

LEMMA EndFeed ==
  ASSUME FeedInv, EndRelay, UNCHANGED <<pc, chunks, sent, fed, chunk, stdin, stopped, writer>>
  PROVE  FeedInv'
<1>1. FeedTypes' /\ ShutInv' BY SMT, StdinAssumption DEF FeedInv, FeedTypes, ShutInv, EndRelay, EOF
<1>2. Feeding' => Feeding BY DEF Feeding
<1>3. Chain => Chain' BY DEF Chain, InHand, EndRelay
<1> QED BY <1>1, <1>2, <1>3 DEF FeedInv

LEMMA RelayFeed == ASSUME FeedInv, Relay PROVE FeedInv'
<1>1. ASSUME NEW written \in BOOLEAN, TakeExecStdin(written) PROVE FeedInv'
  <2>1. relay = "none" /\ UNCHANGED <<pc, chunks, sent, fed, chunk, stdin, stopped, writer>>
    BY <1>1 DEF TakeExecStdin
  <2>2. CASE EndRelay BY <2>1, <2>2, EndFeed
  <2>3. CASE relay' = "read" /\ UNCHANGED <<inWire, taken>>
    <3>1. FeedTypes' /\ ShutInv' BY <2>1, <2>3 DEF FeedInv, FeedTypes, ShutInv
    <3>2. Feeding' => Feeding BY <2>1 DEF Feeding
    <3>3. Chain => Chain' BY <2>1, <2>3 DEF Chain, InHand, Queued, Relayed
    <3> QED BY <3>1, <3>2, <3>3 DEF FeedInv
  <2> QED BY <1>1, <2>2, <2>3 DEF TakeExecStdin
<1>2. CASE RelayReads
  <2>1. /\ relay \in {"read", "discard"} /\ inWire # <<>>
        /\ UNCHANGED <<pc, chunks, sent, fed, chunk, stdin, stopped, writer>>
    BY <1>2 DEF RelayReads
  <2>2. CASE EndRelay BY <2>1, <2>2, EndFeed
  <2>3. CASE ~EndRelay
    <3>1. /\ inWire' = Tail(inWire) /\ taken' = (IF relay = "read" THEN Head(inWire) ELSE EOF)
          /\ relay' = (IF relay = "read" THEN "send" ELSE "discard")
      BY <1>2, <2>3 DEF RelayReads
    <3>2. inWire \in Seq(0 .. MaxIn) BY DEF FeedInv, FeedTypes
    <3>3. /\ Head(inWire) \in 0 .. MaxIn /\ Head(inWire) = inWire[1] /\ 1 \in DOMAIN inWire
          /\ inWire' \in Seq(0 .. MaxIn) /\ DOMAIN inWire = 1 .. Len(inWire)
          /\ DOMAIN inWire' = 1 .. Len(inWire) - 1
          /\ \A i \in 1 .. Len(inWire) - 1 : inWire'[i] = inWire[i + 1] /\ i + 1 \in DOMAIN inWire
      BY <2>1, <3>1, <3>2, TailFacts
    <3>4. FeedTypes'
      BY SMT, <2>1, <3>1, <3>3, StdinAssumption DEF FeedInv, FeedTypes, EOF
    <3>5. ShutInv' BY <2>1, <3>1 DEF FeedInv, ShutInv
    <3>6. ASSUME Feeding' PROVE Chain'
      <4>1. Chain BY <2>1, <3>6 DEF Feeding, FeedInv
      <4>2. InHand' = InHand /\ Queued' = Queued BY <2>1 DEF InHand, Queued
      <4>3. CASE relay = "discard" BY <2>1, <3>1, <4>1, <4>2, <4>3 DEF Chain
      <4>4. CASE relay = "read"
        <5>1. Relayed' = Relayed + 1 /\ Relayed \in Nat
          BY SMT, <2>1, <3>1, <4>2, <4>4 DEF Relayed, Queued, InHand, FeedInv, FeedTypes
        <5>2. taken' = Nth(Relayed') BY <3>1, <3>3, <4>1, <4>4, <5>1 DEF Chain
        <5>3. \A i \in DOMAIN inWire' : inWire'[i] = Nth(Relayed' + i)
          <6> SUFFICES ASSUME NEW i \in DOMAIN inWire' PROVE inWire'[i] = Nth(Relayed' + i) OBVIOUS
          <6>1. inWire'[i] = Nth(Relayed + (i + 1)) BY <3>3, <4>1, <4>4 DEF Chain
          <6>2. Relayed + (i + 1) = Relayed' + i BY SMT, <3>2, <3>3, <5>1
          <6> QED BY <6>1, <6>2
        <5>4. sent' = Relayed' + Len(inWire')
          <6>1. Len(inWire') = Len(inWire) - 1 /\ Len(inWire) \in Nat BY SMT, <2>1, <3>1, <3>2
          <6>2. sent = Relayed + Len(inWire) BY <4>1, <4>4 DEF Chain
          <6> QED BY SMT, <2>1, <5>1, <6>1, <6>2
        <5> QED BY <2>1, <4>1, <4>2, <5>2, <5>3, <5>4 DEF Chain
      <4> QED BY <2>1, <4>3, <4>4
    <3> QED BY <3>4, <3>5, <3>6 DEF FeedInv
  <2> QED BY <2>2, <2>3
<1>3. CASE RelaySends
  <2>1. /\ relay = "send" /\ UNCHANGED <<pc, sent, fed, chunk, stdin, stopped, writer>>
        /\ chunks' = IF Receiving THEN Append(chunks, taken) ELSE chunks
    BY <1>3 DEF RelaySends
  <2>2. \/ relay' = "ended" /\ inWire' = <<>> /\ taken' = EOF
        \/ relay' = (IF Receiving THEN "read" ELSE "discard") /\ taken' = EOF /\ inWire' = inWire
    BY <1>3 DEF RelaySends, EndRelay
  <2>3. chunks \in Seq(0 .. MaxIn) /\ taken \in 0 .. MaxIn /\ inWire \in Seq(0 .. MaxIn)
    BY DEF FeedInv, FeedTypes
  <2>4. /\ Append(chunks, taken) \in Seq(0 .. MaxIn) /\ DOMAIN chunks = 1 .. Len(chunks)
        /\ DOMAIN Append(chunks, taken) = 1 .. Len(chunks) + 1
        /\ \A i \in DOMAIN chunks : Append(chunks, taken)[i] = chunks[i]
        /\ Append(chunks, taken)[Len(chunks) + 1] = taken
    BY SMT, <2>3
  <2>5. chunks' \in Seq(0 .. MaxIn) BY <2>1, <2>3, <2>4
  <2>6. FeedTypes'
    <3>1. inWire' \in Seq(0 .. MaxIn) BY <2>2, <2>3, NoneIn
    <3>2. taken' \in 0 .. MaxIn BY SMT, <2>2, StdinAssumption DEF EOF
    <3> QED BY <2>1, <2>5, <3>1, <3>2 DEF FeedInv, FeedTypes
  <2>7. ShutInv' BY SMT, <2>1, <2>2 DEF FeedInv, ShutInv
  <2>8. ASSUME Feeding' PROVE Chain'
    <3>1. Chain /\ Receiving BY SMT, <2>1, <2>8 DEF Feeding, FeedInv, Receiving
    <3>2. chunks' = Append(chunks, taken) BY SMT, <2>1, <3>1
    <3>3. InHand' = InHand /\ InHand \in Nat BY SMT, <2>1 DEF InHand, FeedInv, FeedTypes
    <3>4. Len(chunks) \in Nat /\ Len(chunks') = Len(chunks) + 1 BY SMT, <2>3, <3>2
    <3>5. Relayed = InHand + Len(chunks) + 1 BY SMT, <2>1 DEF Relayed, Queued
    <3>6. taken = Nth(InHand + (Len(chunks) + 1)) BY SMT, <2>1, <3>1, <3>3, <3>4, <3>5 DEF Chain
    <3>7. \A i \in DOMAIN chunks' : chunks'[i] = Nth(InHand + i)
      BY SMT, <2>4, <3>1, <3>2, <3>4, <3>6 DEF Chain
    <3>8. relay' = "read" => Relayed' = Relayed BY SMT, <3>3, <3>4, <3>5 DEF Relayed, Queued
    <3>9. relay' \in {"read", "ended"} /\ (relay' = "read" => inWire' = inWire) BY SMT, <2>2, <3>1
    <3> QED BY SMT, <2>1, <3>1, <3>3, <3>7, <3>8, <3>9 DEF Chain
  <2> QED BY SMT, <2>6, <2>7, <2>8 DEF FeedInv
<1>4. CASE RelayBreaks
  <2>1. /\ relay' = "hold" /\ UNCHANGED <<pc, inWire, chunks, sent, fed, taken, chunk, stdin, stopped,
                                          writer>>
    BY SMT, <1>4 DEF RelayBreaks
  <2>2. FeedTypes' /\ ShutInv' BY SMT, <2>1 DEF FeedInv, FeedTypes, ShutInv
  <2>3. Feeding' => Feeding BY SMT, <2>1 DEF Feeding
  <2>4. Chain => Chain' BY SMT, <2>1 DEF Chain, InHand
  <2> QED BY SMT, <2>2, <2>3, <2>4 DEF FeedInv
<1>5. CASE RelayRunOver BY SMT, <1>5, EndFeed DEF RelayRunOver
<1> QED BY <1>1, <1>2, <1>3, <1>4, <1>5 DEF Relay

LEMMA ClientFeed == ASSUME FeedInv, Attach \/ SendStdin \/ BreakStdin PROVE FeedInv'
<1>1. CASE Attach \/ BreakStdin
  <2>1. /\ conn' \in {"asked", "broken"}
        /\ UNCHANGED <<pc, inWire, chunks, sent, fed, taken, chunk, stdin, stopped, writer, relay>>
    BY SMT, <1>1 DEF Attach, BreakStdin
  <2>2. FeedTypes' /\ ShutInv' BY SMT, <2>1 DEF FeedInv, FeedTypes, ShutInv
  <2>3. Feeding' => Feeding BY SMT, <2>1 DEF Feeding
  <2>4. Chain => Chain' BY SMT, <2>1 DEF Chain, InHand, Queued, Relayed
  <2> QED BY SMT, <2>2, <2>3, <2>4 DEF FeedInv
<1>2. CASE SendStdin
  <2>1. /\ conn = "open" /\ sent' = sent + 1
        /\ inWire' = Append(inWire, IF sent < MaxIn THEN sent + 1 ELSE EOF)
        /\ UNCHANGED <<pc, chunks, fed, taken, chunk, stdin, stopped, writer, relay>>
    BY SMT, <1>2 DEF SendStdin
  <2>2. sent \in Nat /\ inWire \in Seq(0 .. MaxIn) BY SMT DEF FeedInv, FeedTypes
  <2>3. (IF sent < MaxIn THEN sent + 1 ELSE EOF) = Nth(sent + 1) /\ Nth(sent + 1) \in 0 .. MaxIn
    BY SMT, <2>2, StdinAssumption DEF Nth, EOF
  <2>4. inWire' = Append(inWire, Nth(sent + 1)) BY SMT, <2>1, <2>3
  <2>5. /\ inWire' \in Seq(0 .. MaxIn) /\ DOMAIN inWire = 1 .. Len(inWire)
        /\ DOMAIN inWire' = 1 .. Len(inWire) + 1 /\ Len(inWire') = Len(inWire) + 1
        /\ \A i \in DOMAIN inWire : inWire'[i] = inWire[i]
        /\ inWire'[Len(inWire) + 1] = Nth(sent + 1) /\ Len(inWire) \in Nat
    BY SMT, <2>2, <2>3, <2>4
  <2>6. FeedTypes' BY SMT, <2>1, <2>2, <2>5 DEF FeedInv, FeedTypes
  <2>7. ShutInv' BY SMT, <2>1 DEF FeedInv, ShutInv
  <2>8. ASSUME Feeding' PROVE Chain'
    <3>1. Chain BY SMT, <2>1, <2>8 DEF Feeding, FeedInv
    <3>2. UNCHANGED <<InHand, Queued, Relayed>> BY SMT, <2>1 DEF InHand, Queued, Relayed
    <3>3. InHand \in Nat /\ Relayed \in Nat
      <4>1. fed \in Nat /\ Len(chunks) \in Nat BY SMT DEF FeedInv, FeedTypes
      <4>2. InHand \in Nat BY SMT, <4>1 DEF InHand
      <4>3. Queued \in Nat BY SMT, <4>1, <4>2 DEF Queued
      <4> QED BY SMT, <4>2, <4>3 DEF Relayed
    <3>4. ASSUME relay \in {"none", "read", "send"}
          PROVE  /\ \A i \in DOMAIN inWire' : inWire'[i] = Nth(Relayed + i)
                 /\ sent' = Relayed + Len(inWire')
      <4>1. /\ \A i \in DOMAIN inWire : inWire[i] = Nth(Relayed + i)
            /\ sent = Relayed + Len(inWire)
        BY SMT, <3>1, <3>4 DEF Chain
      <4>2. sent + 1 = Relayed + (Len(inWire) + 1) BY SMT, <2>5, <3>3, <4>1
      <4> QED BY SMT, <2>1, <2>5, <4>1, <4>2
    <3> QED BY SMT, <2>1, <3>1, <3>2, <3>4 DEF Chain
  <2> QED BY SMT, <2>6, <2>7, <2>8 DEF FeedInv
<1> QED BY SMT, <1>1, <1>2

\* The writer gives up on the rest: nothing is fed any more.
LEMMA WriterLeaves ==
  ASSUME ProcInv, FeedInv, writer # "none", writer' \in {"park", "ended"},
         UNCHANGED <<pc, inWire, sent, taken, stopped, relay, conn>>,
         chunks' \in {chunks, <<>>}, chunk' = EOF, fed' \in 0 .. MaxIn, fed' = fed \/ writer # "ended",
         \/ stdin' = stdin /\ (stdin = "complete" => writer' = "ended" /\ fed' = fed)
         \/ stdin' = "reader_gone"
         \/ stdin' = "stopped" /\ stopped
         \/ stdin' = "complete" /\ writer' = "ended" /\ fed' = MaxIn
  PROVE  FeedInv'
<1>1. chunks' \in Seq(0 .. MaxIn) BY NoneIn DEF FeedInv, FeedTypes
<1>2. FeedTypes' BY SMT, <1>1, StdinAssumption DEF FeedInv, FeedTypes, EOF
<1>3. ShutInv' BY SMT DEF FeedInv, ShutInv
<1>4. ~Feeding' BY SMT DEF Feeding, ProcInv
<1> QED BY SMT, <1>2, <1>3, <1>4 DEF FeedInv

LEMMA WriterFeed == ASSUME ProcInv, FeedInv, Writer PROVE FeedInv'
<1>0. stdin = "complete" => writer = "ended" BY SMT DEF FeedInv, ShutInv
<1>00. fed \in 0 .. MaxIn /\ chunk \in 0 .. MaxIn BY SMT DEF FeedInv, FeedTypes
<1>1. CASE WriterReceives
  <2>1. /\ writer = "recv" /\ UNCHANGED <<pc, inWire, sent, fed, taken, stdin, stopped, relay, conn>>
    BY SMT, <1>1 DEF WriterReceives
  <2>2. CASE writer' = "park" /\ UNCHANGED <<chunk, chunks>>
    <3>1. FeedTypes' /\ ShutInv' BY SMT, <2>1, <2>2 DEF FeedInv, FeedTypes, ShutInv
    <3>2. ~Feeding' BY SMT, <2>1, <2>2 DEF Feeding, ProcInv
    <3> QED BY SMT, <3>1, <3>2 DEF FeedInv
  <2>3. CASE chunks # <<>> /\ chunk' = Head(chunks) /\ chunks' = Tail(chunks) /\ writer' = "gate"
    <3>1. chunks \in Seq(0 .. MaxIn) BY SMT DEF FeedInv, FeedTypes
    <3>2. /\ Head(chunks) \in 0 .. MaxIn /\ Head(chunks) = chunks[1] /\ 1 \in DOMAIN chunks
          /\ chunks' \in Seq(0 .. MaxIn) /\ DOMAIN chunks = 1 .. Len(chunks)
          /\ DOMAIN chunks' = 1 .. Len(chunks) - 1
          /\ \A i \in 1 .. Len(chunks) - 1 : chunks'[i] = chunks[i + 1] /\ i + 1 \in DOMAIN chunks
      BY <2>3, <3>1, TailFacts
    <3>3. Len(chunks') = Len(chunks) - 1 /\ Len(chunks) \in Nat BY SMT, <2>3, <3>1
    <3>4. FeedTypes' BY SMT, <2>1, <2>3, <3>2 DEF FeedInv, FeedTypes
    <3>5. ShutInv' BY SMT, <2>1, <2>3 DEF FeedInv, ShutInv
    <3>6. ASSUME Feeding' PROVE Chain'
      <4>1. Chain BY SMT, <2>1, <3>6 DEF Feeding, FeedInv
      <4>2. InHand' = InHand + 1 /\ InHand \in Nat BY SMT, <1>00, <2>1, <2>3 DEF InHand
      <4>3. Queued' = Queued BY SMT, <3>3, <4>2 DEF Queued
      <4>4. Relayed' = Relayed BY SMT, <2>1, <4>3 DEF Relayed
      <4>5. chunk' = Nth(InHand') BY SMT, <2>3, <3>2, <4>1, <4>2 DEF Chain
      <4>6. \A i \in DOMAIN chunks' : chunks'[i] = Nth(InHand' + i)
        <5> SUFFICES ASSUME NEW i \in DOMAIN chunks' PROVE chunks'[i] = Nth(InHand' + i) OBVIOUS
        <5>1. chunks'[i] = Nth(InHand + (i + 1)) BY SMT, <3>2, <4>1 DEF Chain
        <5>2. InHand + (i + 1) = InHand' + i BY SMT, <3>2, <3>3, <4>2
        <5> QED BY SMT, <5>1, <5>2
      <4> QED BY SMT, <2>1, <4>1, <4>4, <4>5, <4>6 DEF Chain
    <3> QED BY SMT, <3>4, <3>5, <3>6 DEF FeedInv
  <2> QED BY SMT, <1>1, <2>2, <2>3 DEF WriterReceives
<1>2. CASE WriterGate
  <2>1. writer = "gate" /\ UNCHANGED <<pc, inWire, sent, fed, taken, stopped, relay, conn>>
    BY SMT, <1>2 DEF WriterGate
  <2>2. CASE stopped /\ EndWriter("stopped") BY SMT, <1>0, <1>00, <2>1, <2>2, WriterLeaves DEF EndWriter
  <2>3. CASE writer' = "park" /\ chunk' = EOF /\ UNCHANGED <<stdin, chunks>>
    BY SMT, <1>0, <1>00, <2>1, <2>3, WriterLeaves
  <2>4. CASE ~stopped /\ chunk = EOF /\ EndWriter("complete")
    <3>1. Feeding /\ InHand = fed + 1 BY SMT, <2>1, <2>4 DEF Feeding, InHand
    <3>2. Nth(fed + 1) = EOF BY SMT, <2>1, <2>4, <3>1 DEF FeedInv, Chain
    <3>3. fed = MaxIn BY SMT, <1>00, <3>2, StdinAssumption DEF Nth, EOF
    <3> QED BY SMT, <1>00, <2>1, <2>4, <3>3, WriterLeaves DEF EndWriter
  <2>5. CASE ~stopped /\ chunk # EOF /\ writer' = "write" /\ UNCHANGED <<stdin, chunks, chunk>>
    <3>1. FeedTypes' /\ ShutInv' BY SMT, <2>1, <2>5 DEF FeedInv, FeedTypes, ShutInv
    <3>2. Feeding' => Feeding BY SMT, <2>1 DEF Feeding
    <3>3. Chain => Chain' BY SMT, <2>1, <2>5 DEF Chain, InHand, Queued, Relayed
    <3> QED BY SMT, <3>1, <3>2, <3>3 DEF FeedInv
  <2> QED BY SMT, <1>2, <2>2, <2>3, <2>4, <2>5 DEF WriterGate
<1>3. ASSUME NEW how \in {"taken", "reader_gone", "failed"}, WriterWrites(how) PROVE FeedInv'
  <2>1. /\ writer = "write" /\ UNCHANGED <<pc, inWire, sent, taken, stopped, relay, conn>>
        /\ fed' \in {chunk, fed}
    BY SMT, <1>3 DEF WriterWrites
  <2>2. CASE stopped /\ EndWriter("stopped") BY SMT, <1>0, <1>00, <2>1, <2>2, WriterLeaves DEF EndWriter
  <2>3. CASE EndWriter("reader_gone") BY SMT, <1>0, <1>00, <2>1, <2>3, WriterLeaves DEF EndWriter
  <2>4. CASE writer' = "park" /\ chunk' = EOF /\ UNCHANGED <<stdin, chunks>>
    BY SMT, <1>0, <1>00, <2>1, <2>4, WriterLeaves
  <2>5. CASE ~stopped /\ how = "taken" /\ writer' = "recv" /\ chunk' = EOF /\ UNCHANGED <<stdin, chunks>>
    <3>1. fed' = chunk /\ chunk # EOF BY SMT, <1>3, <2>1, <2>5 DEF WriterWrites, FeedInv, ShutInv
    <3>2. Feeding /\ InHand = fed + 1 BY SMT, <2>1, <2>5 DEF Feeding, InHand
    <3>3. Chain /\ chunk = Nth(fed + 1) BY SMT, <2>1, <3>2 DEF FeedInv, Chain
    <3>4. chunk = fed + 1 BY SMT, <3>1, <3>3 DEF Nth
    <3>40. fed' = fed + 1 BY <3>1, <3>4
    <3>5. FeedTypes' BY SMT, <1>00, <2>1, <2>5, <3>1, StdinAssumption DEF FeedInv, FeedTypes, EOF
    <3>6. ShutInv' BY SMT, <1>0, <2>1, <2>5 DEF FeedInv, ShutInv
    <3>7. InHand' = InHand BY SMT, <2>5, <3>2, <3>40 DEF InHand
    <3>8. Queued' = Queued BY SMT, <2>5, <3>7 DEF Queued
    <3>9. Relayed' = Relayed BY SMT, <2>1, <3>8 DEF Relayed
    <3>10. Chain' BY SMT, <2>1, <2>5, <3>3, <3>7, <3>9 DEF Chain
    <3> QED BY SMT, <3>5, <3>6, <3>10 DEF FeedInv
  <2> QED BY SMT, <1>3, <2>2, <2>3, <2>4, <2>5 DEF WriterWrites
<1>4. CASE WriterStops
  BY SMT, <1>0, <1>00, <1>4, WriterLeaves DEF WriterStops, EndWriter
<1> QED BY SMT, <1>1, <1>2, <1>3, <1>4 DEF Writer

LEMMA FeedStep == ASSUME ProcInv, FeedInv, [Next]_vars PROVE FeedInv'
<1>1. CASE RunThread BY SMT, <1>1, RunFeed
<1>2. CASE Handler \/ ReadFrame \/ RequestCancel \/ ClientLeaves
  BY <1>2, FeedQuiet DEF Handler, StreamChunk, RunDone, DrainChunk, SendersGone, ChooseTerminal,
     WriteTerminal, AbortExec, ReadFrame, RequestCancel, ClientLeaves
<1>3. CASE \E s \in Stream : SinkChecks(s) \/ SinkSends(s)
  BY <1>3, FeedQuiet DEF SinkChecks, SinkSends
<1>4. CASE UNCHANGED vars BY <1>4, FeedQuiet DEF vars
<1>5. CASE DeleteQuarantined BY SMT, <1>5, StopFeed DEF DeleteQuarantined
<1>6. CASE LoseRun \/ ProcessEnds \/ ExitCallback
  <2>1. CASE LoseRun BY <1>6, <2>1, FeedQuiet DEF LoseRun
  <2>2. CASE ProcessEnds BY <1>6, <2>2, FeedQuiet DEF ProcessEnds
  <2>3. CASE ExitCallback BY <1>6, <2>3, FeedQuiet DEF ExitCallback
  <2> QED BY <1>6, <2>1, <2>2, <2>3
<1> QED BY <1>1, <1>2, <1>3, <1>4, <1>5, <1>6, RelayFeed, WriterFeed, ClientFeed DEF Next

LEMMA FeedInvHolds == Spec => []FeedInv
<1>1. Init => FeedInv
  <2> SUFFICES ASSUME Init PROVE FeedInv OBVIOUS
  <2>1. FeedTypes /\ ShutInv BY SMT, StdinAssumption DEF Init, FeedTypes, ShutInv, EOF
  <2>2. Chain BY SMT DEF Init, Chain, Relayed, Queued, InHand
  <2> QED BY SMT, <2>1, <2>2 DEF FeedInv
<1> QED BY <1>1, FeedStep, ProcInvHolds, PTL DEF Spec

\* A broken connection, a failed write, a cancellation, a timeout or a quarantine
\* never shows to a process that may still run as an end of its input: stdin is
\* closed under it only after all the client sent, or when it stopped reading, or
\* when it was never attached (relay_stdin, StdinWriter, exec_in_container).
THEOREM InputIsWhole == Spec => []NoCutShortInput
<1>1. ProcInv /\ FeedInv => NoCutShortInput
  BY SMT DEF ProcInv, FeedInv, FeedTypes, ShutInv, NoCutShortInput
<1> QED BY <1>1, ProcInvHolds, FeedInvHolds, PTL

=============================================================================
