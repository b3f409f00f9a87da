------------------------------- MODULE WsbExec -------------------------------
(***************************************************************************)
(* The other side of the relay (stdin), its end, the agent in the guest,   *)
(* and what execs of one sandbox are owed.                                 *)
(***************************************************************************)
EXTENDS WsbRelay, Functions

(* run_exec_stream sends header and payload of a frame by two writes.  Its end of the *)
(* connection is closed at the end of its input, or at any time when it dies.          *)

NthToken(n) == <<(n + 1) \div 2, IF n % 2 = 1 THEN "header" ELSE "payload">>
Eof == <<0, "eof">>

ClientSends(e) ==
  /\ task[e] \in {"asking", "relay", "stuck"} /\ peer[e].sent <= 2 * MaxFrames
  /\ LET n == peer[e].sent + 1
     IN \E token \in (IF n <= 2 * MaxFrames THEN {NthToken(n)} ELSE {}) \cup {Eof} :
          peer' = [peer EXCEPT ![e].inq = Append(@, token),
                               ![e].sent = IF token = Eof THEN 2 * MaxFrames + 1 ELSE n]
  /\ UNCHANGED <<guestSlot, holder, task, loop, guest, asked, control, pipe>>

-----------------------------------------------------------------------------
(* The stdin branch of stream_exec_on_guest *)

Reading(e) == Looping(e) /\ ~ loop[e].inDone
NextIs(q, kind) == q # <<>> /\ Head(q)[2] = kind
WholeFrame(q) == NextIs(q, "header") /\ NextIs(Tail(q), "payload")

Consumed(e, n) == peer' = [peer EXCEPT ![e].inq = SubSeq(@, n + 1, Len(@))]

\* A payload is written to the guest: it goes through, it fails and the guest's
\* stdin is closed, or the write blocks, and the whole loop with it.
WriteStdin(e, k) ==
  \/ /\ pipe' = IF loop[e].inOpen THEN [pipe EXCEPT ![e].given = Append(@, k)] ELSE pipe
     /\ loop' = [loop EXCEPT ![e].part = 0]
     /\ UNCHANGED task
  \/ /\ loop[e].inOpen
     /\ loop' = [loop EXCEPT ![e].part = 0, ![e].inOpen = FALSE]
     /\ UNCHANGED <<pipe, task>>
  \/ /\ loop[e].inOpen
     /\ loop' = [loop EXCEPT ![e].part = k]
     /\ Goes(e, "stuck")
     /\ UNCHANGED pipe

\* read_frame_async finds a whole frame, or the rest of the one it has begun.
ReadStdinFrame(e) ==
  /\ Reading(e)
  /\ LET q == peer[e].inq
     IN \/ loop[e].part = 0 /\ WholeFrame(q) /\ Consumed(e, 2) /\ WriteStdin(e, q[1][1])
        \/ loop[e].part # 0 /\ NextIs(q, "payload") /\ Consumed(e, 1) /\ WriteStdin(e, loop[e].part)
  /\ UNCHANGED <<guestSlot, holder, guest, asked, control>>

\* It finds the header alone and waits for the rest.
ReadHeader(e) ==
  /\ Reading(e) /\ loop[e].part = 0
  /\ NextIs(peer[e].inq, "header") /\ ~ WholeFrame(peer[e].inq)
  /\ loop' = [loop EXCEPT ![e].part = Head(peer[e].inq)[1]]
  /\ Consumed(e, 1)
  /\ UNCHANGED <<guestSlot, holder, task, guest, asked, control, pipe>>

\* It takes a payload for a header, and what follows for its payload: the kind is
\* unknown and the frame ignored, it is taken for stdin, or it is an error, which ends
\* the guest's stdin.
ReadGarbage(e) ==
  /\ Reading(e) /\ loop[e].part = 0
  /\ NextIs(peer[e].inq, "payload")
  /\ \E n \in {n \in DOMAIN peer[e].inq : Eof \notin Range(SubSeq(peer[e].inq, 1, n))} :
       Consumed(e, n)
  /\ \/ UNCHANGED <<loop, pipe>>
     \/ loop[e].inOpen /\ pipe' = [pipe EXCEPT ![e].given = Append(@, 0)] /\ UNCHANGED loop
     \/ loop' = [loop EXCEPT ![e].inDone = TRUE, ![e].inOpen = FALSE] /\ UNCHANGED pipe
  /\ UNCHANGED <<guestSlot, holder, task, guest, asked, control>>

ReadStdinEof(e) ==
  /\ Reading(e) /\ NextIs(peer[e].inq, "eof")
  /\ loop' = [loop EXCEPT ![e].inDone = TRUE, ![e].inOpen = FALSE]
  /\ UNCHANGED <<guestSlot, holder, task, peer, guest, asked, control, pipe>>

\* A blocked write ends when the script reads, or its end of the stream is closed.
Unblocked(e) ==
  /\ task[e] = "stuck"
  /\ Goes(e, "relay")
  /\ \/ /\ pipe' = [pipe EXCEPT ![e].given = Append(@, loop[e].part)]
        /\ loop' = [loop EXCEPT ![e].part = 0]
     \/ loop' = [loop EXCEPT ![e].part = 0, ![e].inOpen = FALSE] /\ UNCHANGED pipe
  /\ UNCHANGED <<guestSlot, holder, peer, guest, asked, control>>

-----------------------------------------------------------------------------
(* The end of handle_exec *)

\* The loop is over.
RelayEnds(e) ==
  /\ task[e] = "relay" /\ ~ Looping(e)
  /\ Goes(e, "reconnect")
  /\ UNCHANGED <<guestSlot, holder, loop, peer, guest, asked, control, pipe>>

\* reconnect_data_streams: skips messages until StreamsReady, then connects the
\* three streams, which the guest is accepting.
Reconnects(e) ==
  /\ task[e] = "reconnect" /\ control # <<>>
  /\ control' = Tail(control)
  /\ IF Head(control).kind = "StreamsReady" /\ ~ guest.lost
     THEN /\ guest' = [guest EXCEPT !.at = "idle", !.exec = NoExec]
          /\ guestSlot' = "Ready" /\ holder' = NoExec /\ Goes(e, "released")
     ELSE UNCHANGED <<guest, guestSlot, holder, task>>
  /\ UNCHANGED <<loop, peer, asked, pipe>>

\* It takes too long, or a connection fails.
ReconnectFails(e) ==
  /\ task[e] = "reconnect"
  /\ Abandon /\ Goes(e, "released")
  /\ UNCHANGED <<loop, peer, pipe>>

\* The exit frame is written to a client not given up, by way of the released slot.
WriteExit(e) ==
  /\ task[e] = "released"
  /\ \/ Ends(e, "closed")
     \/ loop[e].alive /\ Ends(e, IF loop[e].exit = NoExec THEN "watchdog" ELSE "exit")
  /\ UNCHANGED <<guestSlot, holder, guest, asked, control>>

-----------------------------------------------------------------------------
(* The agent in the guest: run_command_loop and execute_script *)

GuestGoes(at) == guest' = [guest EXCEPT !.at = at]

TakeExec ==
  /\ guest.at = "idle" /\ asked # NoExec
  /\ guest' = [guest EXCEPT !.at = "run", !.exec = asked]
  /\ asked' = NoExec
  /\ UNCHANGED <<guestSlot, holder, task, loop, peer, control, pipe>>

\* The script writes; its streams end when it has closed them or is gone.
ScriptWrites(s) ==
  /\ guest.at = "run" /\ s \notin pipe[guest.exec].eof
  /\ pipe[guest.exec].sent[s] < MaxOut
  /\ pipe' = [pipe EXCEPT ![guest.exec].sent[s] = @ + 1]
  /\ UNCHANGED <<guestSlot, holder, task, loop, peer, guest, asked, control>>

StreamEnds(s) ==
  /\ guest.at \in {"run", "drain", "exit", "ready", "accept"} /\ s \notin pipe[guest.exec].eof
  /\ pipe' = [pipe EXCEPT ![guest.exec].eof = @ \cup {s}]
  /\ UNCHANGED <<guestSlot, holder, task, loop, peer, guest, asked, control>>

\* The script exits and its streams are drained; one that is timed out, or could not
\* be started, is reported at once.
ScriptEnds ==
  /\ guest.at = "run"
  /\ GuestGoes("drain") \/ GuestGoes("exit")
  /\ UNCHANGED <<guestSlot, holder, task, loop, peer, asked, control, pipe>>

\* All three relays of the guest have ended: the one of stdin does when the host has
\* closed it, which the host also does on Exit, still to come.
Drained ==
  /\ guest.at = "drain"
  /\ pipe[guest.exec].eof = GuestStream /\ ~ loop[guest.exec].inOpen
  /\ GuestGoes("exit")
  /\ UNCHANGED <<guestSlot, holder, task, loop, peer, asked, control, pipe>>

\* After BRIDGE_DRAIN_GRACE they are aborted.
DrainAborted ==
  /\ guest.at = "drain"
  /\ pipe' = [pipe EXCEPT ![guest.exec].eof = GuestStream]
  /\ GuestGoes("exit")
  /\ UNCHANGED <<guestSlot, holder, task, loop, peer, asked, control>>

GuestSends(kind) == control' = Append(control, [kind |-> kind, exec |-> guest.exec])

ReportExit ==
  /\ guest.at = "exit" /\ GuestSends("Exit") /\ GuestGoes("ready")
  /\ UNCHANGED <<guestSlot, holder, task, loop, peer, asked, pipe>>

ReportStreamsReady ==
  /\ guest.at = "ready" /\ GuestSends("StreamsReady") /\ GuestGoes("accept")
  /\ UNCHANGED <<guestSlot, holder, task, loop, peer, asked, pipe>>

\* The VM dies or the agent does.
GuestLost ==
  /\ ~ guest.lost
  /\ guest' = [guest EXCEPT !.lost = TRUE, !.at = "gone"]
  /\ UNCHANGED <<guestSlot, holder, task, loop, peer, asked, control, pipe>>

-----------------------------------------------------------------------------

Host(e) ==
  \/ ExecRefused(e) \/ ExecAdmitted(e)
  \/ \E s \in GuestStream : ReadOutput(e, s) \/ ReadOutputEof(e, s)
  \/ ReadControl(e) \/ PostExitDrain(e) \/ Watchdog(e) \/ RelayFails(e)
  \/ ReadStdinFrame(e) \/ ReadHeader(e) \/ ReadGarbage(e) \/ ReadStdinEof(e)
  \/ RelayEnds(e) \/ Reconnects(e) \/ ReconnectFails(e) \/ WriteExit(e)

Agent ==
  \/ TakeExec \/ ScriptEnds \/ Drained \/ DrainAborted \/ ReportExit
  \/ ReportStreamsReady \/ GuestLost
  \/ \E s \in GuestStream : ScriptWrites(s) \/ StreamEnds(s)

ExecNext ==
  \/ GuestReady \/ Agent
  \/ \E e \in Exec : ExecConnects(e) \/ ClientSends(e) \/ Unblocked(e) \/ Host(e)

ExecSpec == ExecInit /\ [][ExecNext]_execVars

-----------------------------------------------------------------------------

\* The slot is Ready only with a guest that is at its command loop, with nothing of
\* an earlier exec on its way in either direction.
ReadyIsClean ==
  guestSlot = "Ready" /\ holder = NoExec /\ ~ guest.lost =>
    guest.at = "idle" /\ asked = NoExec /\ control = <<>>

\* A step that gives a client the exit code of a script.
GivenExit(e) == peer[e].answer = "none" /\ peer'[e].answer = "exit"

\* The exit code a client is given is the one of its own script, although the host
\* does not look at the id in the Exit message, and the client has the output by then:
\* every frame the host read, none cut short, and, unless the drain was given up, all
\* the script wrote to a stream, or nothing of a stream that a lost guest reset before
\* the host's first read of it (stream_exec_on_guest, classify_data_read, handle_exec).
OwnResult ==
  [][\A e \in Exec : GivenExit(e) =>
       /\ loop[e].exit = e
       /\ ~ peer[e].torn /\ peer[e].frames = loop[e].taken
       /\ loop[e].drained =>
            \A s \in GuestStream :
              loop[e].taken[s] = pipe[e].sent[s] \/ (guest.lost /\ loop[e].taken[s] = 0)]_execVars

\* What stream_exec_on_guest has given a script as stdin is, at any time, the beginning
\* of what its client sent.
StdinInOrder ==
  ~ guest.lost =>
    \A e \in Exec : \A i \in DOMAIN pipe[e].given : pipe[e].given[i] = i
=============================================================================
