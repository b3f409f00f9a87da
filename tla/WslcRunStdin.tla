---------------------------- MODULE WslcRunStdin ----------------------------
(* Stdin of an exec: the client that copies its input to a connection of    *)
(* its own (copy_stdin), the task of that connection (take_exec_stdin,      *)
(* relay_stdin), and the thread that writes the chunks to the process       *)
(* (stdin_writer.rs).                                                       *)
EXTENDS WslcRunState

NoOther == <<fixed, procVars, runVars, done, held, sinkVars, pipeVars>>

\* The channel's receiver is the run's until the writer thread owns it.
Receiving == writer \in {"recv", "gate", "write", "park"} \/ pc \in {"create", "attach"}

-----------------------------------------------------------------------------
(* The client.                                                             *)

\* There is input, or end-of-file, to send.
Attach ==
  /\ forwards /\ client = "reading" /\ conn = "none"
  /\ conn' = "asked"
  /\ UNCHANGED <<NoOther, cancelled, sent, inWire, slot, relay, taken, senders, writerVars, gateVars,
                 chunks>>

\* The next chunk, then end-of-file, after which the client closes its end.
SendStdin ==
  /\ conn = "open" /\ sent <= MaxIn /\ Len(inWire) < WireCapacity
  /\ sent' = sent + 1
  /\ inWire' = Append(inWire, IF sent < MaxIn THEN sent + 1 ELSE EOF)
  /\ conn' = IF sent < MaxIn THEN "open" ELSE "closed"
  /\ UNCHANGED <<NoOther, cancelled, slot, relay, taken, senders, writerVars, gateVars, chunks>>

\* Reading the input fails, or the client ends, before end-of-file is sent.
BreakStdin ==
  /\ conn \in {"asked", "open"}
  /\ conn' = "broken"
  /\ UNCHANGED <<NoOther, cancelled, sent, inWire, slot, relay, taken, senders, writerVars, gateVars,
                 chunks>>

-----------------------------------------------------------------------------
(* The connection's task.                                                  *)

\* The task ends, and the connection and the channel's sender with it.
EndRelay ==
  /\ relay' = "ended" /\ senders' = FALSE /\ conn' = "closed" /\ inWire' = <<>> /\ taken' = EOF

\* take_exec_stdin: the relay is claimed once, by an exec that is still
\* running; otherwise the client is told that the run is over. When the answer
\* cannot be written the exec is cancelled and the relay dropped at once.
TakeExecStdin(written) ==
  /\ relay = "none" /\ conn \in {"asked", "broken"}
  /\ ~written => conn = "broken"
  /\ slot' = IF Registered THEN "Claimed" ELSE slot
  /\ LET claimed == Registered /\ slot = "Waiting" /\ pc # "over" IN
     /\ cancelled' = (cancelled \/ (claimed /\ ~written))
     /\ IF claimed /\ written
        THEN /\ relay' = "read" /\ conn' = IF conn = "broken" THEN conn ELSE "open"
             /\ UNCHANGED <<senders, inWire, taken>>
        ELSE EndRelay
  /\ UNCHANGED <<NoOther, sent, writerVars, gateVars, chunks>>

\* Input that the process will never read is discarded, not refused.
RelayReads ==
  /\ relay \in {"read", "discard"} /\ inWire # <<>>
  /\ IF relay = "discard" /\ Head(inWire) = EOF
     THEN EndRelay
     ELSE /\ inWire' = Tail(inWire)
          /\ taken' = IF relay = "read" THEN Head(inWire) ELSE EOF
          /\ relay' = IF relay = "read" THEN "send" ELSE "discard"
          /\ UNCHANGED <<conn, senders>>
  /\ UNCHANGED <<NoOther, cancelled, sent, slot, writerVars, gateVars, chunks>>

RelaySends ==
  /\ relay = "send"
  /\ Receiving => Len(chunks) < InCapacity
  /\ chunks' = IF Receiving THEN Append(chunks, taken) ELSE chunks
  /\ IF taken = EOF
     THEN EndRelay
     ELSE /\ relay' = IF Receiving THEN "read" ELSE "discard"
          /\ taken' = EOF /\ UNCHANGED <<conn, inWire, senders>>
  /\ UNCHANGED <<NoOther, cancelled, sent, slot, writerVars, gateVars>>

\* The connection ends without end-of-file, or carries anything but stdin: the
\* exec is cancelled, and the channel kept open until its run is over.
RelayBreaks ==
  /\ relay \in {"read", "discard"} /\ conn = "broken" /\ inWire = <<>>
  /\ relay' = "hold"
  /\ CancelExec
  /\ UNCHANGED <<NoOther, sent, conn, inWire, slot, taken, senders, writerVars, gateVars, chunks>>

\* Mutant: only a relay that is waiting for the run looks at its end.
RelayRunOver_WhenHolding ==
  /\ relay = "hold" /\ pc = "over"
  /\ EndRelay
  /\ UNCHANGED <<NoOther, cancelled, sent, slot, writerVars, gateVars, chunks>>

\* run_over resolves.
RelayRunOver ==
  /\ relay \in {"read", "send", "discard", "hold"} /\ pc = "over"
  /\ EndRelay
  /\ UNCHANGED <<NoOther, cancelled, sent, slot, writerVars, gateVars, chunks>>

Relay ==
  \/ \E written \in BOOLEAN : TakeExecStdin(written)
  \/ RelayReads \/ RelaySends \/ RelayBreaks \/ RelayRunOver

-----------------------------------------------------------------------------
(* The writer thread.                                                      *)

\* The thread ends: stdin is closed, and the receiver dropped.
EndWriter(how) == writer' = "ended" /\ stdin' = how /\ chunks' = <<>> /\ chunk' = EOF

\* Mutant: a channel whose sender is gone is taken for end-of-file.
WriterReceives_ClosedIsEof ==
  /\ writer = "recv"
  /\ \/ /\ chunks # <<>>
        /\ chunk' = Head(chunks) /\ chunks' = Tail(chunks) /\ writer' = "gate"
        /\ UNCHANGED stdin
     \/ chunks = <<>> /\ ~Sending /\ EndWriter("complete")
  /\ UNCHANGED <<NoOther, cancelled, relayVars, failure, fed, gateVars>>

\* Input that ends without end-of-file is cut short: stdin stays open.
WriterReceives ==
  /\ writer = "recv"
  /\ \/ /\ chunks # <<>>
        /\ chunk' = Head(chunks) /\ chunks' = Tail(chunks) /\ writer' = "gate"
     \/ /\ chunks = <<>> /\ ~Sending
        /\ writer' = "park" /\ UNCHANGED <<chunk, chunks>>
  /\ UNCHANGED <<NoOther, cancelled, relayVars, failure, stdin, fed, gateVars>>

\* Under the gate's lock: an exec that was interrupted gets no more input, not
\* even end-of-file.
WriterGate ==
  /\ writer = "gate"
  /\ \/ stopped /\ EndWriter("stopped")
     \/ /\ ~stopped /\ (frozen \/ cancelled)
        /\ writer' = "park" /\ chunk' = EOF /\ UNCHANGED <<stdin, chunks>>
     \/ ~stopped /\ ~frozen /\ ~cancelled /\ chunk = EOF /\ EndWriter("complete")
     \/ /\ ~stopped /\ ~frozen /\ ~cancelled /\ chunk # EOF
        /\ writer' = "write" /\ UNCHANGED <<stdin, chunks, chunk>>
  /\ UNCHANGED <<NoOther, cancelled, relayVars, failure, fed, gateVars>>

\* The write returns: the process took the chunk, or no longer reads, or the
\* write failed or was cancelled by the stop.
WriterWrites(how) ==
  /\ writer = "write"
  /\ how = "taken" => proc = "alive"
  /\ fed' = IF how = "taken" THEN chunk ELSE fed
  /\ \/ stopped /\ EndWriter("stopped") /\ UNCHANGED <<failure, cancelled>>
     \/ /\ ~stopped /\ how = "taken"
        /\ writer' = "recv" /\ chunk' = EOF /\ UNCHANGED <<failure, cancelled, stdin, chunks>>
     \/ /\ ~stopped /\ how = "reader_gone"
        /\ EndWriter("reader_gone") /\ UNCHANGED <<failure, cancelled>>
     \/ /\ ~stopped /\ how = "failed"
        /\ writer' = "park" /\ chunk' = EOF /\ failure' = TRUE /\ cancelled' = TRUE
        /\ UNCHANGED <<stdin, chunks>>
  /\ UNCHANGED <<NoOther, relayVars, gateVars>>

\* wait_until_stopped
WriterStops ==
  /\ writer = "park" /\ stopped
  /\ EndWriter("stopped")
  /\ UNCHANGED <<NoOther, cancelled, relayVars, failure, fed, gateVars>>

Writer ==
  \/ WriterReceives \/ WriterGate \/ WriterStops
  \/ \E how \in {"taken", "reader_gone", "failed"} : WriterWrites(how)
=============================================================================
