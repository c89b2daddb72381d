----------------------------- MODULE RemoteExec -----------------------------
(***************************************************************************)
(* sshexec.Run: one command on a remote host.  Two goroutines copy its     *)
(* streams to the sink, up to a limit each, and show what they read to the *)
(* detector of interactive prompts; Run waits for the command's end, the   *)
(* watchdog and the detector in one select, and records the outcome.       *)
(***************************************************************************)
EXTENDS Naturals, Sequences, FiniteSets, FiniteSetsExt

CONSTANTS
    DetectorWindow,   \* bytes the detector looks at
    MaxStdout, MaxStderr,
    MaxSent           \* bound: bytes the command writes to each stream

ASSUME ExecAssumption ==
    /\ DetectorWindow \in Nat \ {0} /\ MaxStdout \in Nat \ {0} /\ MaxStderr \in Nat \ {0}
    /\ MaxSent \in Nat

StreamLabel == {"stdout", "stderr"}
StreamCap(s) == IF s = "stdout" THEN MaxStdout ELSE MaxStderr

\* What one Read returns: some bytes, the last of which may complete a prompt.
Chunk == [size : 1..2, prompt : BOOLEAN]

VARIABLES
    exec,        \* Run: "new", "started", "select", "grace", "look", "killed", "join" or "returned"
    exit,        \* what Run knows of the command: "none", "exit" (a status) or "lost"
    execRows,    \* audit rows emitted, in order
    execResult,  \* ExecResult and whether an error goes with it
    remote,      \* the command: "runs" or "exited"
    wire,        \* chunks on their way, per stream
    sentBytes,
    copied,      \* copyStream, per stream: bytes read, bytes given to the sink, truncated, at its end
    seen,        \* d.off
    triggered,   \* d.triggered
    detected,    \* a reason is in the detector's channel
    lateLook,    \* history: the detector's channel was looked at before the streams ended
    unwritten    \* history: a row other than "started" was not written, an error Run drops

execVars == <<exec, exit, execRows, execResult, remote, wire, sentBytes, copied, seen, triggered,
              detected, lateLook, unwritten>>

ExecInit ==
    /\ exec = "new" /\ exit = "none" /\ execRows = <<>>
    /\ execResult = [reason |-> "normal", blocked |-> FALSE, err |-> FALSE]
    /\ remote = "runs" /\ wire = [s \in StreamLabel |-> <<>>]
    /\ sentBytes = [s \in StreamLabel |-> 0]
    /\ copied = [s \in StreamLabel |-> [bytes |-> 0, sink |-> 0, truncated |-> FALSE, eof |-> FALSE]]
    /\ seen = 0 /\ triggered = FALSE /\ detected = FALSE /\ lateLook = FALSE
    /\ unwritten = FALSE

\* EmitDenied, EmitInteractiveBlocked and EmitCompleted may fail, and Run drops the error.
EmitRow(row) ==
    \/ execRows' = Append(execRows, row) /\ UNCHANGED unwritten
    \/ execRows' = execRows /\ unwritten' = TRUE
RunOver(res) == exec' = "returned" /\ execResult' = res

\* Validation, the allow list or the working directory refuse the command.
ExecDenied ==
    /\ exec = "new" /\ EmitRow("denied") /\ RunOver([execResult EXCEPT !.err = TRUE])
    /\ UNCHANGED <<exit, remote, wire, sentBytes, copied, seen, triggered, detected, lateLook>>

\* EmitStarted fails, and nothing is run; the row may be there, if only the answer was lost.
ExecUnrecorded ==
    /\ exec = "new" /\ RunOver([execResult EXCEPT !.err = TRUE])
    /\ execRows' \in {execRows, Append(execRows, "started")}
    /\ UNCHANGED <<exit, remote, wire, sentBytes, copied, seen, triggered, detected, lateLook,
                   unwritten>>

ExecStarted ==
    /\ exec = "new" /\ execRows' = Append(execRows, "started") /\ exec' = "started"
    /\ UNCHANGED <<exit, execResult, remote, wire, sentBytes, copied, seen, triggered, detected,
                   lateLook, unwritten>>

\* The host is dialled and a session opened, or not, which is recorded as a denial; a
\* pipe or the start of the command may still fail, which is not recorded.
ExecConnect ==
    /\ exec = "started"
    /\ \/ EmitRow("denied") /\ RunOver([execResult EXCEPT !.err = TRUE])
       \/ UNCHANGED <<execRows, unwritten>> /\ RunOver([execResult EXCEPT !.err = TRUE])
       \/ UNCHANGED <<execRows, execResult, unwritten>> /\ exec' = "select"
    /\ UNCHANGED <<exit, remote, wire, sentBytes, copied, seen, triggered, detected, lateLook>>

Open == exec \notin {"new", "started", "returned"}

\* The command writes to a stream.
RemoteWrites(s) ==
    /\ Open /\ remote = "runs"
    /\ \E c \in Chunk : /\ sentBytes[s] + c.size <= MaxSent
                        /\ wire' = [wire EXCEPT ![s] = Append(@, c)]
                        /\ sentBytes' = [sentBytes EXCEPT ![s] = @ + c.size]
    /\ UNCHANGED <<exec, exit, execRows, execResult, remote, copied, seen, triggered, detected,
                   lateLook, unwritten>>

\* It ends with a status, or the connection is lost; either ends its streams.
RemoteEnds ==
    /\ Open /\ remote = "runs"
    /\ remote' = "exited" /\ exit' \in {"exit", "lost"}
    /\ UNCHANGED <<exec, execRows, execResult, wire, sentBytes, copied, seen, triggered,
                   detected, lateLook, unwritten>>

\* Feed: the part of a chunk that is still in the window; the first prompt is latched.
Feed(c) ==
    IF triggered \/ seen >= DetectorWindow THEN UNCHANGED <<seen, triggered, detected>>
    ELSE LET n == Min({c.size, DetectorWindow - seen})
             hit == c.prompt /\ n = c.size
         IN seen' = seen + n /\ triggered' = hit /\ detected' = hit

\* Mutant: a chunk that reaches the limit exactly counts as truncated.
KeptEager(k, size, limit) ==
    LET room == Max({0, limit - k.bytes})
    IN [k EXCEPT !.bytes = @ + size, !.sink = @ + Min({size, room}),
                 !.truncated = @ \/ size >= room]

\* What a chunk does to the copy of a stream.
Kept(k, size, limit) ==
    LET room == Max({0, limit - k.bytes})
    IN [k EXCEPT !.bytes = @ + size, !.sink = @ + Min({size, room}),
                 !.truncated = @ \/ room = 0 \/ size > room]

CopyStream(s) ==
    /\ Open /\ ~copied[s].eof
    /\ \/ /\ wire[s] # <<>>
          /\ Feed(Head(wire[s]))
          /\ wire' = [wire EXCEPT ![s] = Tail(@)]
          /\ copied' = [copied EXCEPT ![s] = Kept(@, Head(wire[s]).size, StreamCap(s))]
       \/ /\ wire[s] = <<>> /\ remote # "runs"
          /\ copied' = [copied EXCEPT ![s].eof = TRUE]
          /\ UNCHANGED <<wire, seen, triggered, detected>>
    /\ UNCHANGED <<exec, exit, execRows, execResult, remote, sentBytes, lateLook, unwritten>>

StreamsDone == \A s \in StreamLabel : copied[s].eof
Blocked == [execResult EXCEPT !.blocked = TRUE, !.reason = "interactive_blocked", !.err = TRUE]

\* The select of Run: Wait has returned ...
SelectDone ==
    /\ exec = "select" /\ remote = "exited" /\ exec' = "grace"
    /\ UNCHANGED <<exit, execRows, execResult, remote, wire, sentBytes, copied, seen, triggered,
                   detected, lateLook, unwritten>>

\* ... or the time is over, or the caller's context ...
SelectWatchdog ==
    /\ exec = "select" /\ exec' = "killed"
    /\ execResult' = [execResult EXCEPT !.reason = "timeout", !.err = TRUE]
    /\ lateLook' = TRUE
    /\ UNCHANGED <<exit, execRows, remote, wire, sentBytes, copied, seen, triggered, detected,
                   unwritten>>

\* ... or a prompt was detected.
SelectTriggered ==
    /\ exec = "select" /\ detected
    /\ detected' = FALSE /\ exec' = "killed" /\ execResult' = Blocked /\ EmitRow("blocked")
    /\ UNCHANGED <<exit, remote, wire, sentBytes, copied, seen, triggered, lateLook>>

\* Mutant: Run looks at the detector as soon as Wait has returned.
LookAtOnce ==
    /\ exec = "grace" /\ exec' = "join"
    /\ IF detected THEN detected' = FALSE /\ execResult' = Blocked /\ EmitRow("blocked")
                   ELSE UNCHANGED <<detected, execResult, execRows, unwritten>>
    /\ UNCHANGED <<exit, remote, wire, sentBytes, copied, seen, triggered, lateLook>>

\* The end of the streams is awaited, but not for longer than 200 ms ...
Grace ==
    /\ exec = "grace" /\ exec' = "look" /\ lateLook' = ~StreamsDone
    /\ UNCHANGED <<exit, execRows, execResult, remote, wire, sentBytes, copied, seen, triggered,
                   detected, unwritten>>

\* ... before the detector is looked at once more.
Look ==
    /\ exec = "look" /\ exec' = "join"
    /\ IF detected THEN detected' = FALSE /\ execResult' = Blocked /\ EmitRow("blocked")
                   ELSE UNCHANGED <<detected, execResult, execRows, unwritten>>
    /\ UNCHANGED <<exit, remote, wire, sentBytes, copied, seen, triggered, lateLook>>

\* After a kill Run waits for Wait, which needs the end of the channel from the remote.
KilledEnds ==
    /\ exec = "killed" /\ remote = "exited" /\ exec' = "join"
    /\ UNCHANGED <<exit, execRows, execResult, remote, wire, sentBytes, copied, seen, triggered,
                   detected, lateLook, unwritten>>

\* Mutant: a command that was blocked is recorded as completed too.
FinishRecorded ==
    /\ exec = "join" /\ StreamsDone
    /\ LET res == IF exit = "lost" /\ ~execResult.blocked
                  THEN [execResult EXCEPT !.reason = IF @ = "normal" THEN "transport" ELSE @,
                                          !.err = TRUE]
                  ELSE execResult
       IN RunOver(res)
    /\ EmitRow("completed")
    /\ UNCHANGED <<exit, remote, wire, sentBytes, copied, seen, triggered, detected, lateLook>>

\* Both copies have ended; the outcome is recorded unless a prompt was.
Finish ==
    /\ exec = "join" /\ StreamsDone
    /\ LET res == IF exit = "lost" /\ ~execResult.blocked
                  THEN [execResult EXCEPT !.reason = IF @ = "normal" THEN "transport" ELSE @,
                                          !.err = TRUE]
                  ELSE execResult
       IN RunOver(res)
    /\ IF execResult.blocked THEN UNCHANGED <<execRows, unwritten>> ELSE EmitRow("completed")
    /\ UNCHANGED <<exit, remote, wire, sentBytes, copied, seen, triggered, detected, lateLook>>

ExecRun == ExecDenied \/ ExecUnrecorded \/ ExecStarted \/ ExecConnect \/ SelectDone
              \/ SelectTriggered \/ Grace \/ Look \/ KilledEnds \/ Finish

ExecNext ==
    \/ ExecRun \/ SelectWatchdog \/ RemoteEnds
    \/ \E s \in StreamLabel : RemoteWrites(s) \/ CopyStream(s)

ExecSpec == ExecInit /\ [][ExecNext]_execVars

-----------------------------------------------------------------------------
(* Properties                                                              *)

\* The counts of bytes, the rows and the place of Run.
ExecTypeOK ==
    /\ exec \in {"new", "started", "select", "grace", "look", "killed", "join", "returned"}
    /\ exit \in {"none", "exit", "lost"} /\ remote \in {"runs", "exited"}
    /\ execRows \in Seq({"denied", "started", "blocked", "completed"})
    /\ execResult \in [reason : {"normal", "timeout", "transport", "interactive_blocked"},
                       blocked : BOOLEAN, err : BOOLEAN]
    /\ wire \in [StreamLabel -> Seq(Chunk)] /\ seen \in 0..DetectorWindow
    /\ copied \in [StreamLabel -> [bytes : 0..MaxSent, sink : Nat, truncated : BOOLEAN,
                                   eof : BOOLEAN]]

\* The rows of a command that ran, the last of them as far as it was written.
Closed(row) == IF unwritten THEN <<"started">> ELSE <<"started", row>>

\* A command that ran to its end has one row that says how it ended, "blocked" if and only
\* if the result says so, and never two; it has none only if the emitter failed to write
\* that row, which Run does not report (exec.go:268, 285, 303).  Every byte it wrote was
\* read and the sink has the first of them up to the limit, marked truncated only if some
\* are missing; a prompt that was detected is never reported as a normal end, unless it was
\* read after the time or the grace was over; and no error means that the command's own
\* status is reported (exec.go:228-313, interactive.go:43-76).
ExecSound ==
    exec = "returned" /\ StreamsDone =>
        /\ execRows = Closed(IF execResult.blocked THEN "blocked" ELSE "completed")
        /\ \A s \in StreamLabel :
              LET k == copied[s]
              IN /\ k.bytes = sentBytes[s] /\ k.sink = Min({k.bytes, StreamCap(s)})
                 /\ k.truncated <=> k.bytes > StreamCap(s)
        /\ triggered => execResult.blocked \/ lateLook
        /\ ~execResult.err <=> execResult.reason = "normal" /\ exit = "exit"

\* Run returns once the command has ended, however it ended and whatever was detected
\* (exec.go:252-314).
ExecReturns == Open /\ remote = "exited" ~> exec = "returned"

=============================================================================
