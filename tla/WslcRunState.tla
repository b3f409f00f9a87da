--------------------------- MODULE WslcRunState ---------------------------
(* The state of one admitted exec of the WSLc daemon: the process in the    *)
(* container and the run thread that waits for it (container_steps.rs,      *)
(* session_manager.rs), the queue that carries its output to the client's   *)
(* connection (control_server.rs), and, when the exec asked for one, the    *)
(* stdin channel with its relay task and writer thread (stdin_writer.rs).   *)
EXTENDS Naturals, Sequences

CONSTANTS Stream,       \* "out" and "err"
          OutCapacity,  \* LIVE_OUTPUT_CHANNEL_CAPACITY
          WireCapacity, \* frames a connection holds unread
          MaxIn,        \* stdin chunks the client has to send
          InCapacity    \* STDIN_CHANNEL_CAPACITY

VARIABLES
  forwards,   \* the exec asked for stdin
  timed,      \* the exec has a timeout
  \* ---- the process, as the SDK reports it ----
  proc,       \* "none", "alive", "ended"
  callback,   \* exit_callback has run: IoContext::exited
  \* ---- the run thread ----
  pc,         \* where exec_in_container and run_exec are
  hasEvent,   \* the exit event is not null
  exitWait,   \* ExitWait, "none" before it is known
  confirmed,  \* the exit callback came in time
  report,     \* ExecReport, or ProcessCompletion until run_exec has returned
  cancelled,  \* the cancellation flag of the registration
  done,       \* what the worker sent on `done`: "pending", "lost", or an outcome
  held,       \* the container is quarantined, and the process's stdin kept with it
  \* ---- live output ----
  lost,       \* the streams of which a chunk was dropped
  inSink,     \* the streams whose callback is past the overflow check
  queue, closed, overflowed,
  handler,    \* the exec's connection task
  notice,     \* the frames it has yet to write: Truncated, then the terminal
  wire,       \* frames written and unread
  client,     \* "reading", or the outcome it was given, or "gone"
  gapped,     \* the client was given a chunk although an earlier one was dropped
  truncated,  \* the client was told that output was dropped
  \* ---- stdin ----
  sent,       \* chunks the client has sent, MaxIn + 1 once end-of-file is too
  conn,       \* its exec_stdin connection: "none", "asked", "open", "broken", "closed"
  inWire,     \* chunks on that connection
  slot,       \* StdinSlot
  relay,      \* the connection's task
  taken,      \* the frame it is forwarding
  chunks,     \* the channel
  senders,    \* the relay's end of the channel exists
  writer,     \* the writer thread
  chunk,      \* the chunk it is writing
  frozen, stopped,  \* its gate
  failure,    \* stdin_failure
  stdin,      \* the process's stdin: "open", or how it came to be closed
  fed         \* chunks the process was given

procVars == <<proc, callback>>
runVars == <<pc, hasEvent, exitWait, confirmed, report>>
sinkVars == <<lost, inSink, queue, overflowed>>
pipeVars == <<closed, handler, notice, wire, client, gapped, truncated>>
relayVars == <<sent, conn, inWire, slot, relay, taken, senders>>
writerVars == <<writer, chunk, failure, stdin, fed>>
gateVars == <<frozen, stopped>>
inVars == <<relayVars, writerVars, gateVars, chunks>>
fixed == <<forwards, timed>>
vars == <<fixed, procVars, runVars, cancelled, done, held, sinkVars, pipeVars, inVars>>

Terminal == {"Exited", "TimedOut", "Cancelled", "Error"}
Interrupted == {"TimedOut", "Cancelled"}
EOF == 0   \* the empty chunk

\* A chunk is its stream, and whether one before it was dropped; the other
\* frames are their kind.
Chunk == Stream \X BOOLEAN
Truncated == <<"Truncated">>
Frame == Chunk \cup {<<t>> : t \in Terminal} \cup {Truncated}

ASSUME StreamAssumption == Stream \cap (Terminal \cup {"Truncated"}) = {}
ASSUME StdinAssumption == MaxIn \in Nat

\* The process was not confirmed dead, so that its container is quarantined.
Unconfirmed == "Unconfirmed"

TypeOK ==
  /\ forwards \in BOOLEAN /\ timed \in BOOLEAN
  /\ proc \in {"none", "alive", "ended"} /\ callback \in BOOLEAN
  /\ pc \in {"create", "attach", "kill", "event", "wait", "slice", "interrupt", "confirm",
             "again", "code", "stop", "return", "over"}
  /\ hasEvent \in BOOLEAN /\ confirmed \in BOOLEAN /\ cancelled \in BOOLEAN
  /\ exitWait \in {"none", "Signalled", "NoEvent", "Failed"} \cup Interrupted
  /\ report \in {"none", Unconfirmed} \cup Terminal
  /\ done \in {"pending", "lost"} \cup Terminal
  /\ held \in BOOLEAN
  /\ lost \subseteq Stream /\ inSink \subseteq Stream
  /\ queue \in Seq(Chunk) /\ Len(queue) <= OutCapacity
  /\ closed \in BOOLEAN /\ overflowed \in BOOLEAN
  /\ handler \in {"stream", "drain", "await", "finish", "over", "aborted"}
  /\ notice \in Seq(Frame) /\ wire \in Seq(Frame) /\ Len(wire) <= WireCapacity
  /\ client \in {"reading", "gone"} \cup Terminal
  /\ gapped \in BOOLEAN /\ truncated \in BOOLEAN
  /\ sent \in 0 .. MaxIn + 1 /\ conn \in {"none", "asked", "open", "broken", "closed"}
  /\ Len(inWire) <= WireCapacity
  /\ slot \in {"NotRequested", "Waiting", "Claimed"}
  /\ relay \in {"none", "read", "send", "hold", "discard", "ended"}
  /\ taken \in EOF .. MaxIn /\ chunk \in EOF .. MaxIn
  /\ chunks \in Seq(EOF .. MaxIn) /\ Len(chunks) <= InCapacity
  /\ senders \in BOOLEAN /\ frozen \in BOOLEAN /\ stopped \in BOOLEAN /\ failure \in BOOLEAN
  /\ writer \in {"none", "recv", "gate", "write", "park", "ended"}
  /\ stdin \in {"open", "complete", "reader_gone", "stopped", "unattached"}
  /\ fed \in 0 .. MaxIn

\* An exec that the worker has just admitted and handed to its thread.
Init ==
  /\ forwards \in BOOLEAN /\ timed \in BOOLEAN
  /\ proc = "none" /\ callback = FALSE
  /\ pc = "create" /\ hasEvent = TRUE /\ exitWait = "none" /\ confirmed = FALSE
  /\ report = "none" /\ cancelled = FALSE /\ done = "pending" /\ held = FALSE
  /\ lost = {} /\ inSink = {} /\ queue = <<>>
  /\ closed = FALSE /\ overflowed = FALSE
  /\ handler = "stream" /\ notice = <<>> /\ wire = <<>>
  /\ client = "reading" /\ gapped = FALSE /\ truncated = FALSE
  /\ sent = 0 /\ conn = "none" /\ inWire = <<>>
  /\ slot = IF forwards THEN "Waiting" ELSE "NotRequested"
  /\ relay = "none" /\ taken = EOF /\ chunks = <<>> /\ senders = forwards
  /\ writer = "none" /\ chunk = EOF /\ frozen = FALSE /\ stopped = FALSE /\ failure = FALSE
  /\ stdin = "open" /\ fed = 0

\* InFlightExec, and with it the registration, until the worker retires the run.
InFlight == done = "pending"
\* ExecRegistration is shared by the in-flight entry and the connection's task.
Registered == InFlight \/ handler \notin {"over", "aborted"}
\* The sink's sender: the process's callbacks hold it until the exit callback,
\* the run thread until it returns.
SinkAlive == pc # "over" \/ (proc # "none" /\ ~callback)

\* The channel's sender is the relay's; unclaimed, the registration keeps it.
Sending == senders /\ (slot = "Waiting" => Registered)

\* SessionHandle::cancel_exec by a request that names this exec.
CancelExec == cancelled' = (cancelled \/ Registered)
=============================================================================
