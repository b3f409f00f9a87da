------------------------------ MODULE WsbRelay ------------------------------
(***************************************************************************)
(* Execs of a started Windows Sandbox.  The daemon holds one connection to *)
(* the agent in the guest: a control channel and the streams of one script.*)
(* The exec that has locked the slot of that connection relays the streams *)
(* to its client, and the streams are made anew before the slot is given   *)
(* back.  Output is counted in chunks; stdin is a sequence of frames, each *)
(* a header and a payload that may come apart.                             *)
(***************************************************************************)
EXTENDS Naturals, Sequences, FiniteSets

CONSTANTS Exec, GuestStream, NoExec,
          MaxOut,                  \* bound: chunks of output per stream
          MaxFrames,               \* bound: frames of stdin per exec
          MAX_CONCURRENT_PREAUTH

ASSUME ExecAssumption == NoExec \notin Exec
ASSUME FramesAssumption == MaxFrames \in Nat

VARIABLES
  guestSlot,   \* GuestSlot: Booting, Ready, Unusable
  holder,      \* the exec that has the slot locked
  task,        \* where handle_client and handle_exec are for each exec
  loop,        \* locals of stream_exec_on_guest
  peer,        \* what has come over each client's connection, both ways
  guest,       \* where the agent is, and with which exec
  asked,       \* Exec message on its way to the guest
  control,     \* messages on their way to the host
  pipe         \* what the streams of each exec carry

execVars == <<guestSlot, holder, task, loop, peer, guest, asked, control, pipe>>

NoChunks == [s \in GuestStream |-> 0]
NoRelay == [finite |-> FALSE, alive |-> TRUE, exit |-> NoExec, done |-> {}, drained |-> TRUE,
            taken |-> NoChunks, part |-> 0, inDone |-> FALSE, inOpen |-> TRUE]
NoClient == [frames |-> NoChunks, torn |-> FALSE, answer |-> "none", sent |-> 0, inq |-> <<>>]
NoPipe == [sent |-> NoChunks, eof |-> {}, given |-> <<>>]
NoGuest == [at |-> "gone", exec |-> NoExec, lost |-> TRUE]

\* An exec may not come at all, and a client leave its stdin open and send nothing.
ExecInit ==
  /\ guestSlot = "Booting" /\ holder = NoExec
  /\ task \in [Exec -> {"none", "over"}]
  /\ loop = [e \in Exec |-> NoRelay]
  /\ peer \in [Exec -> {NoClient, [NoClient EXCEPT !.sent = 2 * MaxFrames + 1]}]
  /\ guest = [at |-> "idle", exec |-> NoExec, lost |-> FALSE]
  /\ asked = NoExec /\ control = <<>>
  /\ pipe = [e \in Exec |-> NoPipe]

-----------------------------------------------------------------------------
(* handle_client, and handle_exec up to its admission *)

\* The sandbox has booted: serve puts its connection into the slot.
GuestReady ==
  /\ guestSlot = "Booting"
  /\ guestSlot' = "Ready"
  /\ UNCHANGED <<holder, task, loop, peer, guest, asked, control, pipe>>

Goes(e, step) == task' = [task EXCEPT ![e] = step]

\* The task ends, and with it the connection of its client and the streams it had.
Ends(e, answer) ==
  /\ Goes(e, "over")
  /\ pipe' = [pipe EXCEPT ![e] = NoPipe]
  /\ loop' = [loop EXCEPT ![e] = NoRelay]
  /\ peer' = [peer EXCEPT ![e] = [NoClient EXCEPT !.answer = answer]]

Preauth == {e \in Exec : task[e] = "asking"}

\* A connection is accepted with a permit, or dropped when it gets none in time.
ExecConnects(e) ==
  /\ task[e] = "none"
  /\ IF Cardinality(Preauth) < MAX_CONCURRENT_PREAUTH
     THEN Goes(e, "asking") /\ UNCHANGED <<loop, peer, pipe>>
     ELSE Ends(e, "closed")
  /\ UNCHANGED <<guestSlot, holder, guest, asked, control>>

\* The request does not come in time or is not understood, or the slot is locked
\* (try_lock), Booting or Unusable (classify_admission).
ExecRefused(e) ==
  /\ task[e] = "asking"
  /\ \/ Ends(e, "closed")
     \/ (holder # NoExec \/ guestSlot # "Ready") /\ Ends(e, "refused")
  /\ UNCHANGED <<guestSlot, holder, guest, asked, control>>

\* The slot is locked and its connection taken.  If the OK cannot be written the
\* guest is untouched and the slot restored; if the Exec message cannot be sent the
\* slot is unusable.
ExecAdmitted(e) ==
  /\ task[e] = "asking" /\ holder = NoExec /\ guestSlot = "Ready"
  /\ \/ /\ Goes(e, "relay")
        /\ holder' = e /\ asked' = e
        /\ \E limited \in BOOLEAN : loop' = [loop EXCEPT ![e].finite = limited]
        /\ UNCHANGED <<guestSlot, peer, pipe>>
     \/ /\ Ends(e, "closed")
        /\ guestSlot' \in {"Ready"} \cup (IF guest.lost THEN {"Unusable"} ELSE {})
        /\ UNCHANGED <<holder, asked>>
  /\ UNCHANGED <<guest, control>>

-----------------------------------------------------------------------------
(* stream_exec_on_guest: the branches of its select loop.  A branch that completes *)
(* drops the others, and with read_frame_async what that has read of a frame.      *)

Looping(e) == task[e] = "relay" /\ ~ (loop[e].done = GuestStream /\ loop[e].exit # NoExec)

\* Output goes to the client; a write that fails or takes too long leaves part of a
\* frame behind, and the client is given up.
ReadOutput(e, s) ==
  /\ Looping(e) /\ s \notin loop[e].done /\ loop[e].taken[s] < pipe[e].sent[s]
  /\ \E ok \in BOOLEAN :
       /\ loop' = [loop EXCEPT ![e].taken[s] = @ + 1, ![e].part = 0,
                               ![e].alive = @ /\ ok]
       /\ peer' = IF ~ loop[e].alive THEN peer
                  ELSE IF ok THEN [peer EXCEPT ![e].frames[s] = @ + 1]
                  ELSE [peer EXCEPT ![e].torn = TRUE]
  /\ UNCHANGED <<guestSlot, holder, task, guest, asked, control, pipe>>

\* Mutant: any reset counts as the end of a stream.
ReadOutputEof_AnyReset(e, s) ==
  /\ Looping(e) /\ s \notin loop[e].done
  /\ guest.lost \/ (s \in pipe[e].eof /\ loop[e].taken[s] = pipe[e].sent[s])
  /\ loop' = [loop EXCEPT ![e].done = @ \cup {s}, ![e].part = 0]
  /\ UNCHANGED <<guestSlot, holder, task, peer, guest, asked, control, pipe>>

\* A stream ends, or it is reset before the host has read any of it, which counts as
\* its end (classify_data_read), although the reset may have discarded what was sent.
ReadOutputEof(e, s) ==
  /\ Looping(e) /\ s \notin loop[e].done
  /\ \/ s \in pipe[e].eof /\ loop[e].taken[s] = pipe[e].sent[s]
     \/ guest.lost /\ loop[e].taken[s] = 0
  /\ loop' = [loop EXCEPT ![e].done = @ \cup {s}, ![e].part = 0]
  /\ UNCHANGED <<guestSlot, holder, task, peer, guest, asked, control, pipe>>

\* Exit closes the guest's stdin; other messages are skipped.
ReadControl(e) ==
  /\ Looping(e) /\ loop[e].exit = NoExec /\ control # <<>>
  /\ loop' = IF Head(control).kind = "Exit"
             THEN [loop EXCEPT ![e].exit = Head(control).exec, ![e].part = 0,
                               ![e].inOpen = FALSE, ![e].inDone = TRUE]
             ELSE [loop EXCEPT ![e].part = 0]
  /\ control' = Tail(control)
  /\ UNCHANGED <<guestSlot, holder, task, peer, guest, asked, pipe>>

\* After Exit the streams are not waited for longer than POST_EXIT_DRAIN_SECS.
PostExitDrain(e) ==
  /\ Looping(e) /\ loop[e].exit # NoExec
  /\ loop' = [loop EXCEPT ![e].done = GuestStream, ![e].drained = FALSE, ![e].part = 0]
  /\ UNCHANGED <<guestSlot, holder, task, peer, guest, asked, control, pipe>>

\* The slot is set and unlocked.  A connection not put back is dropped, and the agent
\* has no host any more.
Abandon ==
  /\ guestSlot' = "Unusable" /\ holder' = NoExec
  /\ guest' = NoGuest /\ asked' = NoExec /\ control' = <<>>

\* Mutant: the connection is put back as after any other exec.
Watchdog_Ready(e) ==
  /\ Looping(e) /\ loop[e].finite
  /\ guestSlot' = "Ready" /\ holder' = NoExec
  /\ loop' = [loop EXCEPT ![e].exit = NoExec]
  /\ Goes(e, "released")
  /\ UNCHANGED <<peer, guest, asked, control, pipe>>

\* The host watchdog: the guest is not trusted any more.
Watchdog(e) ==
  /\ Looping(e) /\ loop[e].finite
  /\ Abandon
  /\ loop' = [loop EXCEPT ![e].exit = NoExec]
  /\ Goes(e, "released")
  /\ UNCHANGED <<peer, pipe>>

\* What the loop still reads fails: the control channel is closed, a stream is reset
\* after some data, or there is an error of another kind, before any data too.
RelayFails(e) ==
  /\ Looping(e) /\ guest.lost
  /\ Abandon
  /\ Ends(e, "closed")
=============================================================================
