-------------------------- MODULE SessionTransport --------------------------
(***************************************************************************)
(* openClaudeSession: the daemon talks to a child process over its stdin   *)
(* and stdout.  Three goroutines run per session, readLoop, writeLoop and  *)
(* waitLoop; any goroutine may Send, Receive and Close.  The child writes  *)
(* frames, reads messages and exits as it likes.                           *)
(***************************************************************************)
EXTENDS Naturals, Sequences, SequencesExt

CONSTANTS
    Senders, Closers,     \* goroutines that call Send and Close
    MaxFrames, MaxSends,  \* bounds: frames of the child, messages to it
    SendSize, RecvSize    \* capacities of sendCh and recvCh

ASSUME TransportAssumption ==
    /\ MaxFrames \in Nat /\ MaxSends \in Nat
    /\ SendSize \in Nat \ {0} /\ RecvSize \in Nat \ {0}

\* A frame parseFrame accepts, one it refuses, one longer than readMaxFrameBytes.
FrameKind == {"good", "malformed", "oversize"}

VARIABLES
    child,          \* "running", or how it ended: "clean", "failed", "killed"
    written,        \* history: the kinds of the frames the child wrote
    stdoutPipe,     \* those not yet handled, by number
    stdinOpen,
    sending,        \* senders past the first select of Send
    sendCh,         \* the number of messages not yet written, the one in hand included
    recvCh,
    sentMsgs,       \* how many messages Send accepted
    receivedMsgs,   \* history: frames Receive returned
    closedCh, exitCh, closeErr, killedByClose,
    reader,         \* readLoop: "read", "hand" (the head of stdoutPipe) or "ended"
    writer,         \* writeLoop: "select", "write"  or "ended"
    waiter,         \* waitLoop: "wait", "reaped", "stored", "once" or "ended"
    closePc,        \* each closer: "idle", "grace", "reap", "do", "load" or what Close returned
    panicked        \* the daemon died

transportVars == <<child, written, stdoutPipe, stdinOpen, sending, sendCh, recvCh,
                   sentMsgs, receivedMsgs, closedCh, exitCh, closeErr, killedByClose,
                   reader, writer, waiter, closePc, panicked>>
readVars == <<written, stdoutPipe, recvCh, receivedMsgs, reader>>
writeVars == <<sending, sendCh, sentMsgs, writer>>
errVars == <<closeErr, panicked>>

\* newOpenClaudeSession, once the child has started.
TransportInit ==
    /\ child = "running" /\ written = <<>> /\ stdoutPipe = <<>> /\ stdinOpen = TRUE
    /\ sending = {} /\ sendCh = 0 /\ recvCh = <<>>
    /\ sentMsgs = 0 /\ receivedMsgs = <<>>
    /\ closedCh = FALSE /\ exitCh = FALSE /\ closeErr = "none" /\ killedByClose = FALSE
    /\ reader = "read" /\ writer = "select" /\ waiter = "wait"
    /\ closePc = [c \in Closers |-> "idle"] /\ panicked = FALSE

-----------------------------------------------------------------------------
(* The child                                                               *)

ChildWrites(kind) ==
    /\ child = "running" /\ Len(written) < MaxFrames
    /\ written' = Append(written, kind) /\ stdoutPipe' = Append(stdoutPipe, Len(written'))
    /\ UNCHANGED <<child, stdinOpen, recvCh, receivedMsgs, reader, writeVars, closedCh, exitCh,
                   errVars, killedByClose, waiter, closePc>>

ChildExits(how) ==
    /\ child = "running" /\ child' = how
    /\ UNCHANGED <<stdinOpen, readVars, writeVars, closedCh, exitCh, errVars, killedByClose,
                   waiter, closePc>>

-----------------------------------------------------------------------------
(* Send and Receive                                                        *)

\* The first select of Send: the session is not closed.
SendStart(s) ==
    /\ s \notin sending /\ ~closedCh /\ sentMsgs < MaxSends
    /\ sending' = sending \cup {s}
    /\ UNCHANGED <<child, stdinOpen, readVars, sendCh, sentMsgs, writer, closedCh,
                   exitCh, errVars, killedByClose, waiter, closePc>>

\* The second: the message enters the channel even if the session was closed since, or
\* the call gives up because it is closed or its context is over.
SendSelect(s) ==
    /\ s \in sending /\ sending' = sending \ {s}
    /\ \/ /\ sendCh < (IF writer = "write" THEN SendSize + 1 ELSE SendSize)
          /\ sentMsgs < MaxSends /\ sentMsgs' = sentMsgs + 1
          /\ sendCh' = sendCh + 1
       \/ UNCHANGED <<sendCh, sentMsgs>>
    /\ UNCHANGED <<child, stdinOpen, readVars, writer, closedCh, exitCh, errVars,
                   killedByClose, waiter, closePc>>

\* A Receive that returns a frame, before or after Close.
ReceiveFrame ==
    /\ recvCh # <<>>
    /\ receivedMsgs' = Append(receivedMsgs, Head(recvCh)) /\ recvCh' = Tail(recvCh)
    /\ UNCHANGED <<child, stdinOpen, written, stdoutPipe, reader, writeVars, closedCh, exitCh,
                   errVars, killedByClose, waiter, closePc>>

-----------------------------------------------------------------------------
(* The three loops                                                         *)

\* Mutant: a plain field that keeps the latest error.
StoreErrLatest(type) == closeErr' = type /\ UNCHANGED panicked

\* closeErr is an atomic.Value: it panics at an error whose concrete type is not that
\* of the first, "plain" without a cause or "wrapped" by %w.
StoreErr(type) ==
    IF closeErr \in {"none", type}
    THEN closeErr' = type /\ UNCHANGED panicked
    ELSE panicked' = TRUE /\ UNCHANGED closeErr

\* Mutant: an oversize frame is skipped as a malformed one is.
ReadFrameOrSkip ==
    /\ reader = "read" /\ stdoutPipe # <<>>
    /\ IF written[Head(stdoutPipe)] = "good"
       THEN reader' = "hand" /\ UNCHANGED <<stdoutPipe, errVars>>
       ELSE /\ stdoutPipe' = Tail(stdoutPipe) /\ UNCHANGED reader
            /\ IF written[Head(stdoutPipe)] = "oversize" THEN StoreErr("plain") ELSE UNCHANGED errVars
    /\ UNCHANGED <<child, stdinOpen, written, recvCh, receivedMsgs, writeVars, closedCh, exitCh,
                   killedByClose, waiter, closePc>>

ReadFrame ==
    /\ reader = "read" /\ stdoutPipe # <<>>
    /\ LET kind == written[Head(stdoutPipe)] IN
       \/ kind = "good" /\ reader' = "hand" /\ UNCHANGED <<stdoutPipe, errVars>>
       \/ kind = "malformed" /\ stdoutPipe' = Tail(stdoutPipe) /\ UNCHANGED <<reader, errVars>>
       \/ kind = "oversize" /\ reader' = "ended" /\ StoreErr("plain") /\ UNCHANGED stdoutPipe
    /\ UNCHANGED <<child, stdinOpen, written, recvCh, receivedMsgs, writeVars, closedCh, exitCh,
                   killedByClose, waiter, closePc>>

HandFrame ==
    /\ reader = "hand" /\ stdoutPipe' = Tail(stdoutPipe)
    /\ \/ Len(recvCh) < RecvSize /\ recvCh' = Append(recvCh, Head(stdoutPipe)) /\ reader' = "read"
       \/ closedCh /\ reader' = "ended" /\ UNCHANGED recvCh
    /\ UNCHANGED <<child, stdinOpen, written, receivedMsgs, writeVars, closedCh, exitCh, errVars,
                   killedByClose, waiter, closePc>>

\* The end of the stream, or Wait closed the pipe: no error is kept.
ReadEnds ==
    /\ reader = "read" /\ stdoutPipe = <<>> /\ child # "running" /\ reader' = "ended"
    /\ UNCHANGED <<child, stdinOpen, written, stdoutPipe, recvCh, receivedMsgs, writeVars, closedCh,
                   exitCh, errVars, killedByClose, waiter, closePc>>

\* The select of writeLoop, and encodeFrame, which may refuse the payload.
WriterSelect ==
    /\ writer = "select"
    /\ \/ closedCh /\ writer' = "ended" /\ UNCHANGED <<sendCh, errVars>>
       \/ sendCh > 0 /\ writer' = "write" /\ UNCHANGED <<sendCh, errVars>>
       \/ sendCh > 0 /\ writer' = "ended" /\ sendCh' = sendCh - 1 /\ StoreErr("wrapped")
    /\ UNCHANGED <<child, stdinOpen, readVars, sending, sentMsgs, closedCh, exitCh,
                   killedByClose, waiter, closePc>>

\* The pipe takes the message when the child makes room for it; the write fails once
\* our end or the child's is closed.
WriterWrite ==
    /\ writer = "write" /\ sendCh' = sendCh - 1
    /\ \/ stdinOpen /\ child = "running" /\ writer' = "select"
          /\ UNCHANGED errVars
       \/ ~(stdinOpen /\ child = "running") /\ writer' = "ended"
          /\ StoreErr("wrapped")
    /\ UNCHANGED <<child, stdinOpen, readVars, sending, sentMsgs, closedCh, exitCh,
                   killedByClose, waiter, closePc>>

\* cmd.Wait: the child is reaped and our ends of the pipes are closed, under a reader
\* that keeps only what it has buffered.
WaitReaps ==
    /\ waiter = "wait" /\ child # "running" /\ waiter' = "reaped" /\ stdinOpen' = FALSE
    /\ \E k \in (IF reader = "hand" THEN 1 ELSE 0)..Len(stdoutPipe) :
           stdoutPipe' = SubSeq(stdoutPipe, 1, k)
    /\ UNCHANGED <<child, written, recvCh, receivedMsgs, reader, writeVars, closedCh, exitCh,
                   errVars, killedByClose, closePc>>

WaitStores ==
    /\ waiter = "reaped" /\ waiter' = "stored"
    /\ IF child # "clean" /\ ~killedByClose THEN StoreErr("wrapped") ELSE UNCHANGED errVars
    /\ UNCHANGED <<child, stdinOpen, readVars, writeVars, closedCh, exitCh, killedByClose, closePc>>

\* Mutant: the exit signal before the error of the exit is stored.
WaitSignalsEarly ==
    /\ waiter \in {"reaped", "stored"} /\ ~exitCh /\ exitCh' = TRUE
    /\ waiter' = IF waiter = "stored" THEN "once" ELSE waiter
    /\ UNCHANGED <<child, stdinOpen, readVars, writeVars, closedCh, errVars, killedByClose, closePc>>

\* Mutant: closeOnce before the exit signal, which a Close inside it waits for.
WaitSignalsLate ==
    /\ waiter = "stored" /\ \A c \in Closers : closePc[c] \notin {"grace", "reap"}
    /\ exitCh' = TRUE /\ waiter' = "once"
    /\ UNCHANGED <<child, stdinOpen, readVars, writeVars, closedCh, errVars, killedByClose, closePc>>

WaitSignals ==
    /\ waiter = "stored" /\ exitCh' = TRUE /\ waiter' = "once"
    /\ UNCHANGED <<child, stdinOpen, readVars, writeVars, closedCh, errVars, killedByClose, closePc>>

\* closeOnce: its function runs when closed is still open, and whoever comes second
\* waits for the Close that runs it.
OnceRuns == \E c \in Closers : closePc[c] \in {"grace", "reap"}

WaitOnce ==
    /\ waiter = "once" /\ ~OnceRuns /\ waiter' = "ended"
    /\ closedCh' = TRUE /\ stdinOpen' = FALSE
    /\ UNCHANGED <<child, readVars, writeVars, exitCh, errVars, killedByClose, closePc>>

-----------------------------------------------------------------------------
(* Close                                                                   *)

CloseStart(c) ==
    /\ closePc[c] = "idle" /\ closedCh' = TRUE /\ stdinOpen' = FALSE
    /\ closePc' = [closePc EXCEPT ![c] = IF closedCh THEN "do" ELSE "grace"]
    /\ UNCHANGED <<child, readVars, writeVars, exitCh, errVars, killedByClose, waiter>>

\* The grace period is over: killGroup, which leaves a child that has exited as it is.
CloseKills(c) ==
    /\ closePc[c] = "grace" /\ closePc' = [closePc EXCEPT ![c] = "reap"]
    /\ killedByClose' = TRUE
    /\ child' = IF child = "running" THEN "killed" ELSE child
    /\ UNCHANGED <<stdinOpen, readVars, writeVars, closedCh, exitCh, errVars, waiter>>

\* Mutant: Close does not wait for the child it has killed.
CloseGoes(c) ==
    /\ closePc[c] = "reap" \/ (closePc[c] = "grace" /\ exitCh)
    /\ closePc' = [closePc EXCEPT ![c] = "load"]
    /\ UNCHANGED <<child, stdinOpen, readVars, writeVars, closedCh, exitCh, errVars,
                   killedByClose, waiter>>

CloseSeesExit(c) ==
    /\ closePc[c] \in {"grace", "reap"} /\ exitCh
    /\ closePc' = [closePc EXCEPT ![c] = "load"]
    /\ UNCHANGED <<child, stdinOpen, readVars, writeVars, closedCh, exitCh, errVars,
                   killedByClose, waiter>>

\* What Close returns: the error stored so far.
CloseLoads(c) ==
    /\ closePc[c] = "load" \/ (closePc[c] = "do" /\ ~OnceRuns)
    /\ closePc' = [closePc EXCEPT ![c] = closeErr]
    /\ UNCHANGED <<child, stdinOpen, readVars, writeVars, closedCh, exitCh, errVars,
                   killedByClose, waiter>>

-----------------------------------------------------------------------------
ReaderStep == ReadFrame \/ HandFrame \/ ReadEnds
WriterStep == WriterSelect \/ WriterWrite
WaiterStep == WaitReaps \/ WaitStores \/ WaitSignals \/ WaitOnce

CloseStep(c) == CloseKills(c) \/ CloseSeesExit(c) \/ CloseLoads(c)

TransportNext ==
    /\ ~panicked
    /\ \/ \E k \in FrameKind : ChildWrites(k)
       \/ \E how \in {"clean", "failed"} : ChildExits(how)
       \/ \E s \in Senders : SendStart(s) \/ SendSelect(s)
       \/ ReceiveFrame
       \/ \E c \in Closers : CloseStart(c) \/ CloseStep(c)
       \/ ReaderStep \/ WriterStep \/ WaiterStep

TransportSpec == TransportInit /\ [][TransportNext]_transportVars

-----------------------------------------------------------------------------
(* Properties                                                              *)

CloseResult == {"none", "plain", "wrapped"}
Returned(c) == closePc[c] \in CloseResult

TransportTypeOK ==
    /\ child \in {"running", "clean", "failed", "killed"}
    /\ written \in Seq(FrameKind) /\ Len(recvCh) <= RecvSize /\ sendCh <= SendSize + 1
    /\ closeErr \in CloseResult
    /\ reader = "hand" => stdoutPipe # <<>>
    /\ writer = "write" => sendCh > 0
    /\ closePc \in [Closers -> {"idle", "grace", "reap", "do", "load"} \cup CloseResult]

\* The good frames of the child before the first oversize one, by number.
GoodFrames ==
    {i \in 1..Len(written) : written[i] = "good" /\ \A j \in 1..i : written[j] # "oversize"}

\* The frames that left the reader, the first one first.
Delivered == receivedMsgs \o recvCh

\* Frames are received in order, once and without a gap before the last, whatever is
\* malformed, full, closed or killed on the way, and what follows an oversize frame is
\* never taken for a frame; a Close that returns leaves no child behind, has not missed
\* the error of a child that failed by itself, and an error it returned stays the kind
\* of error a later Close returns; the one panic of the error value needs an oversize
\* frame (subprocess/openclaude_session.go:114-256, doc.go:57-59).  Two sentences of the
\* documentation are not met and not claimed: "subsequent calls return the same error
\* captured by the first call" (doc.go:60-61, session.go:98-99), for the writer may fail
\* after a first Close has returned none, and "Send/Receive after Close return
\* ErrSessionClosed" (doc.go:61-62, session.go:97-98), for Receive still returns a frame
\* that was buffered and a Send past its first check may still be accepted.
TransportSound ==
    /\ \A i \in DOMAIN Delivered :
           /\ Delivered[i] \in GoodFrames
           /\ \A j \in 1..(i - 1) : Delivered[j] < Delivered[i]
           /\ \A f \in GoodFrames : f < Delivered[i] => \E j \in 1..(i - 1) : Delivered[j] = f
    /\ \A c \in Closers : Returned(c) =>
           /\ child # "running" /\ exitCh
           /\ closePc[c] = "none" /\ child = "failed" => killedByClose
           /\ closePc[c] \in {"none", closeErr}
    /\ panicked => "oversize" \in Range(written)

Closing(c) == closePc[c] \in {"grace", "do"}
LoopsEnded == reader = "ended" /\ writer = "ended" /\ waiter = "ended"

\* Close returns, whoever else closes and however the child behaves, and so do the
\* loops: none waits for a signal that another gives later (openclaude_session.go:150-256).
CloseReturns ==
    /\ \A c \in Closers : Closing(c) ~> (Returned(c) \/ panicked)
    /\ closedCh ~> (LoopsEnded \/ panicked)

=============================================================================
