----------------------------- MODULE RemoteIngest -----------------------------
(***************************************************************************)
(* ingest --remote (cli.py _ingest_remote and what it calls).              *)
(*                                                                         *)
(* A client extracts rule-like spans from a source and sends them to the   *)
(* sift_candidates tool of a server in batches.  Calls fail and time out:  *)
(* the client retries, splits a batch in halves, skips, and notes the      *)
(* spans that are done in a file of the project, so that a later run of    *)
(* the same source resumes.  There is one such file for all sources, and   *)
(* nothing keeps two clients from running at once.                         *)
(***************************************************************************)
EXTENDS Integers, FiniteSets, Sequences

CONSTANTS
    Clients,     \* processes
    Hashes,      \* of spans
    SpansOf,     \* per source, its spans in order; equal ones are repeated
    NoSource,
    BatchSize,   \* --remote-batch
    Attempts,    \* _REMOTE_ATTEMPTS
    MaxStarts,   \* bound: runs of all clients
    MaxFaults    \* bound: clients killed and writes of the state file that fail

Sources == DOMAIN SpansOf

ASSUME SourceAssumption ==
    SpansOf \in [Sources -> Seq(Hashes)] /\ NoSource \notin Sources
ASSUME RemoteBoundAssumption ==
    /\ BatchSize \in Nat \ {0} /\ Attempts \in Nat \ {0}
    /\ {MaxStarts, MaxFaults} \subseteq Nat

VARIABLES
    file,       \* ingest-state.json: a source and its done spans; NoSource if
                \* it is missing or torn
    \* Per client.
    pc,
    source,
    stack,      \* batches still to send; the last one is in hand
    attempt,    \* calls of the batch in hand
    done,       \* spans with an answer, in memory
    failed,     \* some spans were given up
    \* History.
    outcome,    \* per source, how the last run of it ended
    printed,    \* per source and span, how often an answer was printed
    disturbed,  \* per source: another client ran at the same time or wrote
                \* the file, or a write of the file failed
    started, kills, faults

memory == <<stack, attempt, done, failed>>
history == <<outcome, printed, disturbed>>
counters == <<started, kills, faults>>
remoteVars == <<file, pc, source, memory, history, counters>>

Progress(src, spans) == [source |-> src, done |-> spans]
NoProgress == Progress(NoSource, {})

RemoteInit ==
    /\ file = NoProgress
    /\ pc = [c \in Clients |-> "idle"]
    /\ source = [c \in Clients |-> NoSource]
    /\ stack = [c \in Clients |-> << >>]
    /\ attempt = [c \in Clients |-> 1]
    /\ done = [c \in Clients |-> {}]
    /\ failed = [c \in Clients |-> FALSE]
    /\ outcome = [x \in Sources |-> "none"]
    /\ printed = [x \in Sources |-> [s \in Hashes |-> 0]]
    /\ disturbed = [x \in Sources |-> FALSE]
    /\ started = 0 /\ kills = 0 /\ faults = 0

----------------------------------------------------------------------------

SetOf(seq) == {seq[i] : i \in DOMAIN seq}
Least(m, n) == IF m < n THEN m ELSE n

Goto(c, step) == pc' = [pc EXCEPT ![c] = step]
At(c, step) == pc[c] = step
Batch(c) == stack[c][Len(stack[c])]
Rest(c) == SubSeq(stack[c], 1, Len(stack[c]) - 1)

\* The pending spans in batches, the first of them last, to be sent first.
Chunks(pending) ==
    LET n == (Len(pending) + BatchSize - 1) \div BatchSize
    IN  [k \in 1..n |-> SubSeq(pending, (n - k) * BatchSize + 1,
                               Least((n - k + 1) * BatchSize, Len(pending)))]

\* _load_ingest_state: the progress of another source does not count.
Loaded(x) == IF file.source = x THEN file.done ELSE {}

\* The member of a set of positions that has k - 1 before it.
Nth(positions, k) ==
    CHOOSE i \in positions : Cardinality({j \in positions : j <= i}) = k

Left(x) == {i \in DOMAIN SpansOf[x] : SpansOf[x][i] \notin Loaded(x)}
Pending(x) == [k \in 1..Cardinality(Left(x)) |-> SpansOf[x][Nth(Left(x), k)]]

\* The process ends; what it had in memory is gone.
Exit(c, result) ==
    /\ Goto(c, "idle")
    /\ outcome' = [outcome EXCEPT ![source[c]] = result]
    /\ source' = [source EXCEPT ![c] = NoSource]
    /\ stack' = [stack EXCEPT ![c] = << >>]
    /\ attempt' = [attempt EXCEPT ![c] = 1]
    /\ done' = [done EXCEPT ![c] = {}]
    /\ failed' = [failed EXCEPT ![c] = FALSE]

Running == {c \in Clients : pc[c] # "idle"}

\* A source that has been ingested is not ingested again.
StartRun(c, x) ==
    /\ At(c, "idle") /\ outcome[x] # "ok" /\ started < MaxStarts
    /\ started' = started + 1
    /\ Goto(c, "call")
    /\ source' = [source EXCEPT ![c] = x]
    /\ stack' = [stack EXCEPT ![c] = Chunks(Pending(x))]
    /\ done' = [done EXCEPT ![c] = Loaded(x)]
    /\ disturbed' = [y \in Sources |->
           \/ disturbed[y]
           \/ Running # {} /\ (y = x \/ \E d \in Running : source[d] = y)]
    /\ UNCHANGED <<file, attempt, failed, outcome, printed, kills, faults>>

Calling(c) == At(c, "call") /\ stack[c] # << >>

\* Any text is an answer: sift_candidates refuses a batch that is too long in
\* words, and nobody looks at the isError of the tool's result.
Answered(c) ==
    /\ Calling(c)
    /\ done' = [done EXCEPT ![c] = @ \cup SetOf(Batch(c))]
    /\ attempt' = [attempt EXCEPT ![c] = 1]
    /\ Goto(c, "save")
    /\ UNCHANGED <<file, source, stack, failed, history, counters>>

\* Mutant: a batch that is given up is noted as done.
GiveUpAsDone(c) ==
    /\ done' = [done EXCEPT ![c] = @ \cup SetOf(Batch(c))]
    /\ failed' = [failed EXCEPT ![c] = TRUE]
    /\ stack' = [stack EXCEPT ![c] = Rest(c)]
    /\ attempt' = [attempt EXCEPT ![c] = 1]

\* A batch, or a single span, is skipped.
GiveUp(c) ==
    /\ failed' = [failed EXCEPT ![c] = TRUE]
    /\ stack' = [stack EXCEPT ![c] = Rest(c)]
    /\ attempt' = [attempt EXCEPT ![c] = 1]
    /\ UNCHANGED done

\* Mutant: the attempts start again at one.
TransientForever(c) ==
    /\ Calling(c)
    /\ attempt' = [attempt EXCEPT ![c] = (@ % Attempts) + 1]
    /\ UNCHANGED <<file, pc, source, stack, done, failed, history, counters>>

\* A transport error or a 5xx: once more, or given up after the last attempt.
Transient(c) ==
    /\ Calling(c)
    /\ IF attempt[c] < Attempts
       THEN /\ attempt' = [attempt EXCEPT ![c] = @ + 1]
            /\ UNCHANGED <<stack, done, failed>>
       ELSE GiveUp(c)
    /\ UNCHANGED <<file, pc, source, history, counters>>

\* Any other error of the call.
Fails(c) ==
    /\ Calling(c)
    /\ GiveUp(c)
    /\ UNCHANGED <<file, pc, source, history, counters>>

Halves(b) ==
    LET mid == Len(b) \div 2
    IN  <<SubSeq(b, mid + 1, Len(b)), SubSeq(b, 1, mid)>>

TimesOut(c) ==
    /\ Calling(c)
    /\ IF Len(Batch(c)) > 1
       THEN /\ stack' = [stack EXCEPT ![c] = Rest(c) \o Halves(Batch(c))]
            /\ attempt' = [attempt EXCEPT ![c] = 1]
            /\ UNCHANGED <<done, failed>>
       ELSE GiveUp(c)
    /\ UNCHANGED <<file, pc, source, history, counters>>

\* A 4xx: the progress is saved once more and the run is over.
AuthFails(c) ==
    /\ Calling(c)
    /\ Goto(c, "lastsave")
    /\ stack' = [stack EXCEPT ![c] = << >>]
    /\ attempt' = [attempt EXCEPT ![c] = 1]
    /\ failed' = [failed EXCEPT ![c] = TRUE]
    /\ UNCHANGED <<file, source, done, history, counters>>

\* _save_ingest_state swallows its errors.
SaveFails(c) ==
    /\ kills + faults < MaxFaults /\ faults' = faults + 1
    /\ disturbed' = [disturbed EXCEPT ![source[c]] = TRUE]

\* The progress in the file is gone, whosever it is.
Removes(c) ==
    /\ file' = NoProgress
    /\ disturbed' = [x \in Sources |->
           disturbed[x] \/ (file.source = x /\ x # source[c])]

\* write_text truncates the file and then writes it.
Truncate(c) ==
    /\ pc[c] \in {"save", "lastsave"}
    /\ Goto(c, IF At(c, "save") THEN "write" ELSE "lastwrite")
    /\ Removes(c)
    /\ UNCHANGED <<source, memory, outcome, printed, counters>>

CannotOpen(c) ==
    /\ \/ At(c, "save") /\ Goto(c, "print") /\ UNCHANGED <<source, memory, outcome>>
       \/ At(c, "lastsave") /\ Exit(c, "failed")
    /\ SaveFails(c)
    /\ UNCHANGED <<file, printed, started, kills>>

\* Mutant: only the batch in hand is saved.
SavesBatch(c) == Progress(source[c], SetOf(Batch(c)))

Saved(c) == Progress(source[c], done[c])

Write(c) ==
    /\ At(c, "write")
    /\ Goto(c, "print")
    /\ \/ file' = Saved(c) /\ UNCHANGED <<disturbed, faults>>
       \/ SaveFails(c) /\ UNCHANGED file
    /\ UNCHANGED <<source, memory, outcome, printed, started, kills>>

\* sys.exit(1), with the progress written or, if that failed, none.
LastWrite(c) ==
    /\ At(c, "lastwrite")
    /\ Exit(c, "failed")
    /\ \/ file' = Progress(source[c], done[c]) /\ UNCHANGED <<disturbed, faults>>
       \/ SaveFails(c) /\ UNCHANGED file
    /\ UNCHANGED <<printed, started, kills>>

PrintAnswer(c) ==
    /\ At(c, "print")
    /\ Goto(c, "call")
    /\ printed' = [printed EXCEPT ![source[c]] =
           [s \in Hashes |-> IF s \in SetOf(Batch(c)) THEN @[s] + 1 ELSE @[s]]]
    /\ stack' = [stack EXCEPT ![c] = Rest(c)]
    /\ UNCHANGED <<file, source, attempt, done, failed, outcome, disturbed, counters>>

\* With spans given up: exit 1, and the file stays for a later run.  Otherwise
\* the file is removed, whosever it is.
Finish(c) ==
    /\ At(c, "call") /\ stack[c] = << >>
    /\ IF failed[c]
       THEN Exit(c, "failed") /\ UNCHANGED <<file, disturbed>>
       ELSE Exit(c, "ok") /\ Removes(c)
    /\ UNCHANGED <<printed, counters>>

Killed(c) ==
    /\ ~At(c, "idle") /\ kills + faults < MaxFaults
    /\ kills' = kills + 1
    /\ Exit(c, "killed")
    /\ UNCHANGED <<file, printed, disturbed, started, faults>>

ClientStep(c) ==
    \/ Answered(c) \/ Transient(c) \/ Fails(c) \/ TimesOut(c) \/ AuthFails(c)
    \/ Truncate(c) \/ CannotOpen(c) \/ Write(c) \/ LastWrite(c)
    \/ PrintAnswer(c) \/ Finish(c)

RemoteNext == \E c \in Clients :
    (\E x \in Sources : StartRun(c, x)) \/ ClientStep(c) \/ Killed(c)

RemoteSpec == RemoteInit /\ [][RemoteNext]_remoteVars

\* A process that runs is scheduled, and a call to the server ends in an
\* answer, an error or the timeout of _sift_remote_call.
FairRemoteSpec == RemoteSpec /\ \A c \in Clients : WF_remoteVars(ClientStep(c))

----------------------------------------------------------------------------
(* Properties.                                                             *)

\* When the processes are gone and the last run of a source ended well, every
\* span of it has had its answer printed, however the calls of all runs failed,
\* timed out and were split and whatever other clients did to the state file.
\* A client that was killed while it printed may have taken the answer of its
\* batch along: the batch is saved as done before it is printed.
SpansAreAnswered ==
    \A x \in Sources :
        Running = {} /\ outcome[x] = "ok" =>
            Cardinality({s \in SetOf(SpansOf[x]) : printed[x][s] = 0})
                <= BatchSize * kills

\* "re-run --remote to resume": no span is answered again by a later run, even
\* if it stands in the source twice, unless a client was killed while it saved,
\* the file could not be written, or another client came in between.
ResumeRepeatsNothing ==
    \A x \in Sources : ~disturbed[x] =>
        \A s \in SetOf(SpansOf[x]) :
            printed[x][s] <= (1 + kills)
                * Cardinality({i \in DOMAIN SpansOf[x] : SpansOf[x][i] = s})

\* A run ends, even if every call times out or fails.
EveryRunEnds ==
    \A c \in Clients : pc[c] # "idle" ~> pc[c] = "idle"
=============================================================================
