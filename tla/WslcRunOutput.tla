--------------------------- MODULE WslcRunOutput ---------------------------
(* Live output of an exec: the SDK's callback threads that enqueue it       *)
(* (enqueue_output), the connection's task that writes it out and ends with *)
(* one terminal frame (deliver_exec, write_exec_result), and the client     *)
(* that reads it (AdmittedExec::read_to_completion).                        *)
EXTENDS WslcRunState

NoRun == <<fixed, procVars, runVars, done, held, inVars>>

\* An output callback whose check of the latch is passed. A latched overflow
\* drops the chunk at once. The process's streams have a thread each.
SinkChecks(s) ==
  /\ proc # "none" /\ ~callback /\ s \notin inSink
  /\ IF overflowed
     THEN lost' = lost \cup {s} /\ UNCHANGED inSink
     ELSE inSink' = inSink \cup {s} /\ UNCHANGED lost
  /\ UNCHANGED <<NoRun, cancelled, queue, overflowed, pipeVars>>

\* try_send never blocks: a full queue latches the overflow, a closed one does
\* not.
SinkSends(s) ==
  /\ s \in inSink
  /\ inSink' = inSink \ {s}
  /\ IF ~closed /\ Len(queue) < OutCapacity
     THEN queue' = Append(queue, <<s, s \in lost>>) /\ UNCHANGED <<lost, overflowed>>
     ELSE lost' = lost \cup {s} /\ overflowed' = (overflowed \/ ~closed) /\ UNCHANGED queue
  /\ UNCHANGED <<NoRun, cancelled, pipeVars>>

\* write_frame: the connection takes no more than it holds.
WriteFrame(f) == Len(wire) < WireCapacity /\ wire' = Append(wire, f)

WriteChunk ==
  /\ queue # <<>>
  /\ WriteFrame(Head(queue)) /\ queue' = Tail(queue)

\* terminal_frames, exit_terminal
TerminalFrames ==
  LET terminal == <<IF done = "lost" THEN "Error" ELSE done>>
  IN  IF overflowed THEN <<Truncated, terminal>> ELSE <<terminal>>

\* The select is biased: output is streamed only while the run is not done.
StreamChunk ==
  /\ handler = "stream" /\ done = "pending" /\ client # "gone"
  /\ WriteChunk
  /\ UNCHANGED <<NoRun, cancelled, lost, inSink, overflowed, closed, handler, notice, client,
                 gapped, truncated>>

\* Mutant: the queue stays open to a process that was not confirmed dead.
RunDone_LeavesOpen ==
  /\ handler = "stream" /\ done # "pending" /\ client # "gone"
  /\ handler' = "drain"
  /\ UNCHANGED <<NoRun, cancelled, sinkVars, closed, notice, wire, client, gapped, truncated>>

\* The run is done: the queue is closed to whatever still produces.
RunDone ==
  /\ handler = "stream" /\ done # "pending" /\ client # "gone"
  /\ handler' = "drain" /\ closed' = TRUE
  /\ UNCHANGED <<NoRun, cancelled, sinkVars, notice, wire, client, gapped, truncated>>

DrainChunk ==
  /\ handler = "drain" /\ client # "gone"
  /\ WriteChunk
  /\ UNCHANGED <<NoRun, cancelled, lost, inSink, overflowed, closed, handler, notice, client,
                 gapped, truncated>>

\* Every sender is gone before the run was reported: only the outcome is awaited.
SendersGone ==
  /\ handler = "stream" /\ done = "pending" /\ queue = <<>> /\ ~SinkAlive /\ client # "gone"
  /\ handler' = "await"
  /\ UNCHANGED <<NoRun, cancelled, sinkVars, closed, notice, wire, client, gapped, truncated>>

\* Mutant: what is still queued when the run completes is not drained.
ChooseTerminal_NoDrain ==
  /\ \/ handler = "drain"
     \/ handler = "await" /\ done # "pending"
  /\ client # "gone"
  /\ handler' = "finish" /\ notice' = TerminalFrames
  /\ UNCHANGED <<NoRun, cancelled, sinkVars, closed, wire, client, gapped, truncated>>

ChooseTerminal ==
  /\ \/ handler = "drain" /\ queue = <<>>
     \/ handler = "await" /\ done # "pending"
  /\ client # "gone"
  /\ handler' = "finish" /\ notice' = TerminalFrames
  /\ UNCHANGED <<NoRun, cancelled, sinkVars, closed, wire, client, gapped, truncated>>

WriteTerminal ==
  /\ handler = "finish" /\ client # "gone"
  /\ WriteFrame(Head(notice)) /\ notice' = Tail(notice)
  /\ handler' = IF Len(notice) = 1 THEN "over" ELSE "finish"
  /\ UNCHANGED <<NoRun, cancelled, sinkVars, closed, client, gapped, truncated>>

\* client_gone, or a frame that cannot be written: the stream is dropped, and
\* with it its part of the registration, before the run is cancelled.
AbortExec ==
  /\ client = "gone" /\ handler \notin {"over", "aborted"}
  /\ handler' = "aborted" /\ closed' = TRUE /\ queue' = <<>> /\ notice' = <<>> /\ wire' = <<>>
  /\ cancelled' = (cancelled \/ InFlight)
  /\ UNCHANGED <<NoRun, lost, inSink, overflowed, client, gapped, truncated>>

-----------------------------------------------------------------------------
(* The client.                                                             *)

ReadFrame ==
  /\ client = "reading" /\ wire # <<>>
  /\ wire' = Tail(wire)
  /\ LET f == Head(wire) IN
     \/ /\ f = Truncated /\ truncated' = TRUE
        /\ UNCHANGED <<client, gapped>>
     \/ /\ f[1] \in Terminal /\ client' = f[1]
        /\ UNCHANGED <<gapped, truncated>>
     \/ /\ f[1] \in Stream
        /\ gapped' = (gapped \/ f[2])
        /\ UNCHANGED <<client, truncated>>
  /\ UNCHANGED <<NoRun, cancelled, sinkVars, closed, handler, notice>>

\* The caller kills the exec, over a connection of its own.
RequestCancel ==
  /\ client = "reading" /\ ~cancelled
  /\ CancelExec
  /\ UNCHANGED <<NoRun, sinkVars, pipeVars>>

ClientLeaves ==
  /\ client = "reading"
  /\ client' = "gone"
  /\ UNCHANGED <<NoRun, cancelled, sinkVars, closed, handler, notice, wire, gapped, truncated>>

Handler ==
  StreamChunk \/ RunDone \/ DrainChunk \/ SendersGone \/ ChooseTerminal \/ WriteTerminal \/ AbortExec
=============================================================================
