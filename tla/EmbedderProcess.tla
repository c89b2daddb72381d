-------------------------- MODULE EmbedderProcess --------------------------
(***************************************************************************)
(* JinaCodeEmbeddings: a child process that answers every line on its      *)
(* standard input with one line of vectors.  A mutex lets one request at a *)
(* time write its line and wait, but the line is read by a goroutine of    *)
(* the request's own, on a Scanner that all of them share.  A request      *)
(* whose context ends gives up the mutex and leaves its goroutine reading. *)
(***************************************************************************)
EXTENDS Naturals, Sequences, SequencesExt, FiniteSets

CONSTANTS
    EmbedCalls,    \* calls of EmbedBinary256d, EmbedFP32_1536d, EmbedBoth and EmbedBatch
    Chunks,        \* the requests each makes, one after the other: more than 1 for a batch
    Shape,         \* what each asks for: a subset of {"bin", "fp32"}
    PipeLines      \* lines that a pipe to or from the child holds

ASSUME EmbedAssumption ==
    /\ Chunks \in [EmbedCalls -> Nat \ {0}] /\ Shape \in [EmbedCalls -> SUBSET {"bin", "fp32"}]
    /\ PipeLines \in Nat \ {0}

Text == UNION {{c} \X (1..Chunks[c]) : c \in EmbedCalls}
Line == [text : Text, failed : BOOLEAN]

VARIABLES
    embed,        \* of each call: where it is, the chunk it asks for and the vectors it has
    embedOver,    \* calls whose context has ended
    mutex,        \* the call or {"close"} that holds e.mu, or {}
    embedClosed,  \* e.closed
    requestsPipe, answersPipe,
    scanner,      \* lines read from the pipe and not yet returned by Scan
    reading,       \* goroutines of request, by the text they were started for
    embedChild,   \* "up" or "dead"
    closing,      \* Close: "off", "lock", "waits" or "returned"
    abandoned     \* history: a request left its goroutine behind

embedVars == <<embed, embedOver, mutex, embedClosed, requestsPipe, answersPipe, scanner, reading,
               embedChild, closing, abandoned>>

NoReader == [at |-> "none", overlap |-> FALSE, out |-> <<>>]

EmbedInit ==
    /\ embed = [c \in EmbedCalls |-> [at |-> "new", chunk |-> 1, got |-> <<>>]]
    /\ embedOver = {} /\ mutex = {} /\ embedClosed = FALSE
    /\ requestsPipe = <<>> /\ answersPipe = <<>> /\ scanner = <<>>
    /\ reading = [t \in Text |-> NoReader]
    /\ embedChild = "up" /\ closing = "off" /\ abandoned = FALSE

EmbedGoto(c, where) == embed' = [embed EXCEPT ![c].at = where]
Asks(c) == <<c, embed[c].chunk>>

\* A call begins, and each chunk of a batch begins, by looking at the context.
EmbedStart(c) ==
    /\ embed[c].at = "new"
    /\ EmbedGoto(c, IF c \in embedOver THEN "failed" ELSE "lock")
    /\ UNCHANGED <<embedOver, mutex, embedClosed, requestsPipe, answersPipe, scanner, reading,
                   embedChild, closing, abandoned>>

\* Mutant: the mutex is not held while the answer is awaited.
EmbedLockShared(c) ==
    /\ embed[c].at = "lock"
    /\ EmbedGoto(c, IF embedClosed THEN "failed" ELSE "write")
    /\ UNCHANGED <<embedOver, mutex, embedClosed, requestsPipe, answersPipe, scanner, reading,
                   embedChild, closing, abandoned>>

\* Neither the wait for the mutex nor the write below looks at the context.
EmbedLock(c) ==
    /\ embed[c].at = "lock" /\ mutex = {}
    /\ IF embedClosed THEN EmbedGoto(c, "failed") /\ UNCHANGED mutex
                      ELSE EmbedGoto(c, "write") /\ mutex' = {c}
    /\ UNCHANGED <<embedOver, embedClosed, requestsPipe, answersPipe, scanner, reading, embedChild,
                   closing, abandoned>>

\* The line goes to the child, and a goroutine is started to read its answer.
EmbedWrite(c) ==
    /\ embed[c].at = "write"
    /\ \/ /\ embedChild = "up" /\ Len(requestsPipe) < PipeLines
          /\ requestsPipe' = Append(requestsPipe, Asks(c))
          /\ reading' = [reading EXCEPT ![Asks(c)].at = "scan"]
          /\ EmbedGoto(c, "wait") /\ UNCHANGED mutex
       \/ /\ embedChild = "dead"
          /\ EmbedGoto(c, "failed") /\ mutex' = mutex \ {c} /\ UNCHANGED <<requestsPipe, reading>>
    /\ UNCHANGED <<embedOver, embedClosed, answersPipe, scanner, embedChild, closing, abandoned>>

\* The vectors of a line: none if it tells of an error or, being of another shape, fails
\* the caller's checks of lengths.
Vectors(c, out) ==
    IF out # <<>> /\ ~out[1].failed /\ Shape[c] \subseteq Shape[out[1].text[1]]
    THEN <<out[1].text>> ELSE <<>>

\* The goroutine's result: a batch goes on with its next chunk.
EmbedReceive(c) ==
    /\ embed[c].at = "wait" /\ reading[Asks(c)].at = "sent"
    /\ LET v == Vectors(c, reading[Asks(c)].out)
           e == embed[c]
       IN embed' = [embed EXCEPT ![c] =
                      IF v = <<>> THEN [e EXCEPT !.at = "failed"]
                      ELSE IF e.chunk < Chunks[c]
                      THEN [at |-> "new", chunk |-> e.chunk + 1, got |-> e.got \o v]
                      ELSE [e EXCEPT !.at = "returned", !.got = e.got \o v]]
    /\ mutex' = mutex \ {c}
    /\ reading' = [reading EXCEPT ![Asks(c)] = NoReader]
    /\ UNCHANGED <<embedOver, embedClosed, requestsPipe, answersPipe, scanner, embedChild, closing,
                   abandoned>>

\* ctx.Done: the select may choose it although the result is there.
EmbedGivesUp(c) ==
    /\ embed[c].at = "wait" /\ c \in embedOver
    /\ EmbedGoto(c, "failed") /\ mutex' = mutex \ {c}
    /\ abandoned' = TRUE
    /\ UNCHANGED <<embedOver, embedClosed, requestsPipe, answersPipe, scanner, reading, embedChild,
                   closing>>

EmbedStep(c) ==
    EmbedStart(c) \/ EmbedLock(c) \/ EmbedWrite(c) \/ EmbedReceive(c) \/ EmbedGivesUp(c)

\* The caller goes away.
EmbedCancel(c) ==
    /\ c \notin embedOver /\ embed[c].at \notin {"returned", "failed"}
    /\ embedOver' = embedOver \cup {c}
    /\ UNCHANGED <<embed, mutex, embedClosed, requestsPipe, answersPipe, scanner, reading,
                   embedChild, closing, abandoned>>

Sends(t, out) == reading' = [reading EXCEPT ![t] = [at |-> "sent", overlap |-> FALSE, out |-> out]]
InRead == {t \in Text : reading[t].at = "read"}

\* Scan: a line that an earlier Read brought along is returned without another.
ReaderScan(t) ==
    /\ reading[t].at = "scan"
    /\ IF scanner # <<>>
       THEN Sends(t, <<Head(scanner)>>) /\ scanner' = Tail(scanner)
       ELSE /\ reading' = [u \in Text |->
                 IF u = t THEN [reading[t] EXCEPT !.at = "read", !.overlap = InRead # {}]
                 ELSE IF u \in InRead THEN [reading[u] EXCEPT !.overlap = TRUE]
                 ELSE reading[u]]
            /\ UNCHANGED scanner
    /\ UNCHANGED <<embed, embedOver, mutex, embedClosed, requestsPipe, answersPipe, embedChild,
                   closing, abandoned>>

\* Read brings one line or several; the first is the token.  Two Scans at a time race on
\* the Scanner's buffer, and what they decode may be no answer at all.
ReaderRead(t) ==
    /\ reading[t].at = "read"
    /\ \/ \E n \in 1..Len(answersPipe) :
            /\ answersPipe' = SubSeq(answersPipe, n + 1, Len(answersPipe))
            /\ \/ Sends(t, <<Head(answersPipe)>>) /\ scanner' = scanner \o SubSeq(answersPipe, 2, n)
               \/ reading[t].overlap /\ Sends(t, <<>>) /\ UNCHANGED scanner
       \/ /\ answersPipe = <<>> /\ embedChild = "dead"
          /\ Sends(t, <<>>) /\ UNCHANGED <<answersPipe, scanner>>
    /\ UNCHANGED <<embed, embedOver, mutex, embedClosed, requestsPipe, embedChild, closing,
                   abandoned>>

\* The child answers its requests in order, some with an error.
ChildAnswers ==
    /\ embedChild = "up" /\ requestsPipe # <<>> /\ Len(answersPipe) < PipeLines
    /\ \E f \in BOOLEAN :
          answersPipe' = Append(answersPipe, [text |-> Head(requestsPipe), failed |-> f])
    /\ requestsPipe' = Tail(requestsPipe)
    /\ UNCHANGED <<embed, embedOver, mutex, embedClosed, scanner, reading, embedChild, closing,
                   abandoned>>

ChildDies ==
    /\ embedChild = "up" /\ embedChild' = "dead" /\ requestsPipe' = <<>>
    /\ UNCHANGED <<embed, embedOver, mutex, embedClosed, answersPipe, scanner, reading, closing,
                   abandoned>>

EmbedClose ==
    /\ closing = "off" /\ closing' = "lock"
    /\ UNCHANGED <<embed, embedOver, mutex, embedClosed, requestsPipe, answersPipe, scanner, reading,
                   embedChild, abandoned>>

\* Close has the mutex: it closes the child's input and interrupts it.
CloseLocks ==
    /\ closing = "lock" /\ mutex = {}
    /\ mutex' = {"close"} /\ embedClosed' = TRUE /\ closing' = "waits"
    /\ UNCHANGED <<embed, embedOver, requestsPipe, answersPipe, scanner, reading, embedChild,
                   abandoned>>

\* The child ends, or is killed after five seconds; Wait closes its output.
CloseReaps ==
    /\ closing = "waits" /\ closing' = "returned" /\ mutex' = {}
    /\ embedChild' = "dead" /\ requestsPipe' = <<>> /\ answersPipe' = <<>>
    /\ UNCHANGED <<embed, embedOver, embedClosed, scanner, reading, abandoned>>

EmbedNext ==
    \/ \E c \in EmbedCalls : EmbedStep(c) \/ EmbedCancel(c)
    \/ \E t \in Text : ReaderScan(t) \/ ReaderRead(t)
    \/ ChildAnswers \/ ChildDies \/ EmbedClose \/ CloseLocks \/ CloseReaps

EmbedSpec == EmbedInit /\ [][EmbedNext]_embedVars

-----------------------------------------------------------------------------
(* Properties                                                              *)

\* At most one call or Close holds the mutex and the pipes are within their capacity.
EmbedTypeOK ==
    /\ embed \in [EmbedCalls -> [at : {"new", "lock", "write", "wait", "returned", "failed"},
                                 chunk : Nat, got : Seq(Text)]]
    /\ Cardinality(mutex) <= 1 /\ mutex \subseteq EmbedCalls \cup {"close"}
    /\ requestsPipe \in Seq(Text) /\ Len(requestsPipe) <= PipeLines
    /\ answersPipe \in Seq(Line) /\ Len(answersPipe) <= PipeLines
    /\ closing \in {"off", "lock", "waits", "returned"}

GotItsOwn(c) == \A n \in DOMAIN embed[c].got : embed[c].got[n] = <<c, n>>

\* Calls may be made concurrently: each gets the vectors of its own texts (embedder.go:18-23).
\* It does not hold once a request was given up.
OwnAnswer == \A c \in EmbedCalls : GotItsOwn(c)

\* As long as no request was given up, every vector is that of the text it was asked
\* for, whatever the child refuses and whenever it dies (embedder.go:325-365).
EmbedSound == ~abandoned => OwnAnswer

Embedding(c) == embed[c].at = "lock"
Embedded(c) == embed[c].at \in {"returned", "failed"} \/ abandoned

\* A call returns, its child alive or dead, unless a request was given up before it
\* (embedder.go:325-378).
EmbedReturns == \A c \in EmbedCalls : Embedding(c) ~> Embedded(c)

=============================================================================
