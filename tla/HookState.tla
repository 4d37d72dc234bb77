----------------------------- MODULE HookState -----------------------------
(***************************************************************************)
(* The Claude Code hooks (hooks/*.py) and the state file they share.       *)
(* Every hook invocation is a process of its own.  It reads the whole      *)
(* file, changes the entry of its agent in memory, writes the whole to one *)
(* temporary name and renames that over the file; no lock is taken.        *)
(* Invocations overlap when an agent calls tools in parallel and when      *)
(* subagents work beside the main agent.                                   *)
(*                                                                         *)
(* Time matters only for residency (covered after the last compaction), so *)
(* the clock counts the compaction stamps taken; entries are younger than  *)
(* the time-to-live limits (a day, 30 days).                               *)
(***************************************************************************)
EXTENDS Integers, FiniteSets

CONSTANTS
    Agents,       \* state keys: session_id, session_id:agent_id
    Main,         \* the main agent, the one that is compacted
    Hooks,        \* hook processes that may run at once
    Topics,       \* edited files, command heads, search queries
    NoTopic,
    Warn, Block,  \* WARN_THRESHOLD, BLOCK_THRESHOLD
    MaxEvents,    \* bound: hook invocations
    NoEntry, Torn

ASSUME ThresholdAssumption ==
    Warn \in Nat \ {0} /\ Block \in Nat \ {0}
ASSUME HookBoundAssumption ==
    MaxEvents \in Nat /\ Hooks # {} /\ IsFiniteSet(Hooks)
ASSUME HookValueAssumption == Main \in Agents /\ NoTopic \notin Topics

\* A process holds at most one inode open, and the file itself is one.
Inodes == 0..Cardinality(Hooks)
NoInode == -1
Never == -1
Time == 0..MaxEvents

Entry == [builtin_calls : Nat, mutator_calls : Nat,
          warn_emitted : BOOLEAN, gap_emitted : BOOLEAN,
          fixation_locus : Topics \cup {NoTopic}, fixation_run : Nat,
          edited_files : [Topics -> Nat],
          covered_topics : [Topics -> Time \cup {Never}],
          last_compaction_at : Time,
          injected_topics : SUBSET Topics,
          failure_lookups : SUBSET Topics]
State == [Agents -> Entry \cup {NoEntry}]
ASSUME EntryAssumption == NoEntry \notin Entry /\ Torn \notin State

Tools == {"edit", "bash", "deploy", "search", "look"}
Event == [kind : {"tool"}, agent : Agents, tool : Tools, topic : Topics]
         \cup [kind : {"prompt", "failure"}, agent : Agents, topic : Topics]
         \cup [kind : {"compact"}, agent : {Main}]
NoEvent == [kind |-> "compact", agent |-> Main]

VARIABLES
    name,      \* the inode the state file's name stands for
    tmp,       \* the inode of its .tmp name, or NoInode
    content,   \* per inode: what reading it yields
    pc,        \* per hook process: its next step
    event,     \* per hook process: the event it handles
    after,     \* per hook process: its step after the file is written
    memory,    \* per hook process: the state it has read and changed
    fd,        \* per hook process: the inode it has open for writing
    now,       \* per hook process: the time it has taken
    clock, events,
    \* History: what really happened.
    edits,     \* per agent and topic: its edits in the session
    streak,    \* per agent: its counted calls since it last looked
    full,      \* per agent: full notices shown since it last looked
    retrieved, \* per agent and topic: when it was last looked up
    compacted, \* per agent: its last compaction
    overlap    \* two hooks have been between reading and renaming at once

fileVars == <<name, tmp, content>>
procVars == <<pc, after, event, memory, fd, now>>
history == <<edits, streak, full, retrieved, compacted, overlap>>
vars == <<fileVars, procVars, clock, events, history>>

PC == {"gone", "read", "cover", "claim", "open", "write", "rename"}

TypeOK ==
    /\ name \in Inodes
    /\ tmp \in Inodes \cup {NoInode}
    /\ content \in [Inodes -> State \cup {Torn}]
    /\ pc \in [Hooks -> PC]
    /\ after \in [Hooks -> {"gone", "cover", "claim"}]
    /\ event \in [Hooks -> Event]
    /\ memory \in [Hooks -> State]
    /\ fd \in [Hooks -> Inodes \cup {NoInode}]
    /\ now \in [Hooks -> Time]
    /\ clock \in Time /\ events \in 0..MaxEvents
    /\ edits \in [Agents -> [Topics -> Nat]]
    /\ streak \in [Agents -> Nat]
    /\ full \in [Agents -> [{"warn", "gap"} -> Nat]]
    /\ retrieved \in [Agents -> [Topics -> Time \cup {Never}]]
    /\ compacted \in [Agents -> Time]
    /\ overlap \in BOOLEAN

NewEntry == [builtin_calls |-> 0, mutator_calls |-> 0,
             warn_emitted |-> FALSE, gap_emitted |-> FALSE,
             fixation_locus |-> NoTopic, fixation_run |-> 0,
             edited_files |-> [t \in Topics |-> 0],
             covered_topics |-> [t \in Topics |-> Never],
             last_compaction_at |-> 0,
             injected_topics |-> {}, failure_lookups |-> {}]
EmptyState == [a \in Agents |-> NoEntry]

Init ==
    /\ name = 0 /\ tmp = NoInode
    /\ content = [i \in Inodes |-> EmptyState]
    /\ pc = [h \in Hooks |-> "gone"]
    /\ after = [h \in Hooks |-> "gone"]
    /\ event = [h \in Hooks |-> NoEvent]
    /\ memory = [h \in Hooks |-> EmptyState]
    /\ fd = [h \in Hooks |-> NoInode]
    /\ now = [h \in Hooks |-> 0]
    /\ clock = 0 /\ events = 0
    /\ edits = [a \in Agents |-> [t \in Topics |-> 0]]
    /\ streak = [a \in Agents |-> 0]
    /\ full = [a \in Agents |-> [n \in {"warn", "gap"} |-> 0]]
    /\ retrieved = [a \in Agents |-> [t \in Topics |-> Never]]
    /\ compacted = [a \in Agents |-> 0]
    /\ overlap = FALSE

----------------------------------------------------------------------------
(* What an event does to its agent's entry (all of it in memory).          *)

Looks(e) == e.tool \in {"search", "look"}
Mutates(e) == e.tool = "edit"
Consequential(e) == e.tool \in {"edit", "deploy"}

\* Mutant: a look-first read leaves the once-per-crossing marks.
ResetKeepsMarks(s) ==
    [s EXCEPT !.builtin_calls = 0, !.mutator_calls = 0,
              !.fixation_locus = NoTopic, !.fixation_run = 0]

\* A look-first read clears the streak and its once-per-crossing marks.
Reset(s) ==
    [s EXCEPT !.builtin_calls = 0, !.mutator_calls = 0,
              !.fixation_locus = NoTopic, !.fixation_run = 0,
              !.warn_emitted = FALSE, !.gap_emitted = FALSE]

Counted(s, e) ==
    [s EXCEPT !.builtin_calls = @ + 1,
              !.mutator_calls = IF Mutates(e) THEN @ + 1 ELSE @]

AtGap(s, e) == Mutates(e) /\ s.mutator_calls >= Block
AtWarning(s, e) == ~Looks(e) /\ ~AtGap(s, e) /\ s.builtin_calls >= Warn

\* The notice for a counted call, in full once per streak.
Notice(s, e) ==
    CASE AtGap(s, e) -> IF s.gap_emitted THEN "short gap" ELSE "gap"
      [] AtWarning(s, e) /\ ~s.warn_emitted -> "warn"
      [] AtWarning(s, e) /\ s.warn_emitted /\ s.builtin_calls > Warn
         /\ (s.builtin_calls - Warn) % Warn = 0 -> "reminder"
      [] OTHER -> "none"

Decide(s, e) ==
    IF Looks(e) THEN Reset(s)
    ELSE LET c == Counted(s, e) IN
         [c EXCEPT !.gap_emitted = @ \/ Notice(c, e) = "gap",
                   !.warn_emitted = @ \/ Notice(c, e) = "warn"]

RecordTopic(s, topic, t) == [s EXCEPT !.covered_topics[topic] = t]

\* Mutant: coverage of before the compaction counts.
CoveredAnyTime(s, topic) == s.covered_topics[topic] # Never

\* is_covered(require_resident=True)
IsCovered(s, topic) ==
    /\ s.covered_topics[topic] # Never
    /\ s.covered_topics[topic] >= s.last_compaction_at

\* The agent's own search covers its topic.
Observe(s, e, t) ==
    IF e.tool = "search" THEN RecordTopic(s, e.topic, t) ELSE s

\* A consequential call whose topic is not resident: the hook looks it up.
GateLooks(s, e) == Consequential(e) /\ ~IsCovered(s, e.topic)
Gate(s, e, t) == IF GateLooks(s, e) THEN RecordTopic(s, e.topic, t) ELSE s

FixationCheck(s, e) ==
    IF ~Mutates(e) THEN s
    ELSE [s EXCEPT !.fixation_locus = e.topic,
                   !.fixation_run = IF s.fixation_locus = e.topic
                                    THEN @ + 1 ELSE 1]

AccumulateMetrics(s, e) ==
    IF Mutates(e) THEN [s EXCEPT !.edited_files[e.topic] = @ + 1] ELSE s

PreToolUse(s, e, t) ==
    AccumulateMetrics(
        FixationCheck(Gate(Observe(Decide(s, e), e, t), e, t), e), e)

----------------------------------------------------------------------------
(* The state file.                                                         *)

\* Mutant: a subagent's calls are counted under its session's key.
SessionKey(e) == Main

AgentKey(e) == e.agent

\* Mutant: the entry is made anew instead of looked up (setdefault).
FreshEntry(state, key) == NewEntry

EntryOf(state, key) == IF state[key] = NoEntry THEN NewEntry ELSE state[key]

\* A missing, torn or garbled file reads as no state at all.
ReadState == IF content[name] = Torn THEN EmptyState ELSE content[name]

InCycle(h) == pc[h] \in {"open", "write", "rename"}
Overlaps(h) == overlap' = (overlap \/ \E g \in Hooks \ {h} : InCycle(g))

\* The hook keeps the state with its agent's entry replaced and will write it.
Keep(h, s, next) ==
    /\ memory' = [memory EXCEPT ![h] = [ReadState EXCEPT ![AgentKey(event[h])] = s]]
    /\ pc' = [pc EXCEPT ![h] = "open"]
    /\ after' = [after EXCEPT ![h] = next]
    /\ Overlaps(h)
    /\ UNCHANGED <<fileVars, event, fd, events>>

\* A process has been started for an event.
Fire(h, e) ==
    /\ pc[h] = "gone"
    /\ events < MaxEvents
    /\ events' = events + 1
    /\ event' = [event EXCEPT ![h] = e]
    /\ pc' = [pc EXCEPT ![h] = IF e.kind = "prompt" THEN "cover" ELSE "read"]
    /\ now' = [now EXCEPT ![h] = clock]
    /\ UNCHANGED <<fileVars, after, memory, fd, clock, history>>

\* PreToolUse: main() reads the file and decides; the call itself goes ahead.
ToolHook(h) ==
    LET e == event[h]
        s == EntryOf(ReadState, AgentKey(e))
        d == Decide(s, e)
        notice == IF Looks(e) THEN "none" ELSE Notice(Counted(s, e), e)
    IN
    /\ pc[h] = "read" /\ e.kind = "tool"
    /\ Keep(h, PreToolUse(s, e, clock), "gone")
    /\ edits' = [edits EXCEPT ![e.agent][e.topic] =
                    IF Mutates(e) THEN @ + 1 ELSE @]
    /\ streak' = [streak EXCEPT ![e.agent] = IF Looks(e) THEN 0 ELSE @ + 1]
    /\ full' = [full EXCEPT ![e.agent] =
                   [n \in {"warn", "gap"} |->
                       IF Looks(e) THEN 0
                       ELSE IF n = notice THEN @[n] + 1 ELSE @[n]]]
    /\ retrieved' = IF e.tool = "search" \/ GateLooks(d, e)
                    THEN [retrieved EXCEPT ![e.agent][e.topic] = clock]
                    ELSE retrieved
    /\ UNCHANGED <<now, clock, compacted>>

\* PreCompact, and SessionStart after a compaction: stamp the boundary.
CompactHook(h) ==
    LET e == event[h]
        s == EntryOf(ReadState, AgentKey(e))
    IN
    /\ pc[h] = "read" /\ e.kind = "compact"
    /\ clock' = clock + 1
    /\ Keep(h, [s EXCEPT !.last_compaction_at = clock'], "gone")
    /\ compacted' = [compacted EXCEPT ![e.agent] = clock']
    /\ UNCHANGED <<now, edits, streak, full, retrieved>>

\* PostToolUseFailure: a failure seen before is not looked up again. The
\* mark is written in a cycle of its own, before the search.
FailureHook(h) ==
    LET e == event[h]
        s == EntryOf(ReadState, AgentKey(e))
    IN
    /\ pc[h] = "read" /\ e.kind = "failure"
    /\ \E next \in IF e.topic \in s.failure_lookups THEN {"gone"}
                   ELSE {"gone", "cover"} :
          Keep(h, [s EXCEPT !.failure_lookups = @ \cup {e.topic}], next)
    /\ UNCHANGED <<now, clock, edits, streak, full, retrieved, compacted>>

\* _record_coverage of UserPromptSubmit and PostToolUseFailure, after their
\* search; the latter stamps the time at which it was started.  A prompt's
\* material, when there is any, is then claimed.
CoverHook(h) ==
    LET e == event[h]
        s == EntryOf(ReadState, AgentKey(e))
        t == IF e.kind = "failure" THEN now[h] ELSE clock
    IN
    /\ pc[h] = "cover"
    /\ \E next \in IF e.kind = "failure" THEN {"gone"} ELSE {"gone", "claim"} :
          Keep(h, RecordTopic(s, e.topic, t), next)
    /\ retrieved' = [retrieved EXCEPT ![e.agent][e.topic] = t]
    /\ UNCHANGED <<now, clock, edits, streak, full, compacted>>

\* _claim_injection: a topic's material is injected once per session; the
\* file is written only when it is.
ClaimHook(h) ==
    LET e == event[h]
        s == EntryOf(ReadState, AgentKey(e))
    IN
    /\ pc[h] = "claim"
    /\ IF e.topic \in s.injected_topics
       THEN /\ pc' = [pc EXCEPT ![h] = "gone"]
            /\ UNCHANGED <<fileVars, after, event, memory, fd, events, overlap>>
       ELSE Keep(h, [s EXCEPT !.injected_topics = @ \cup {e.topic}], "gone")
    /\ UNCHANGED <<now, clock, edits, streak, full, retrieved, compacted>>

\* A hook process that has ended holds nothing.
Forget(h) ==
    /\ event' = [event EXCEPT ![h] = IF pc'[h] = "gone" THEN NoEvent ELSE @]
    /\ now' = [now EXCEPT ![h] = IF pc'[h] = "gone" THEN 0 ELSE @]
    /\ after' = [after EXCEPT ![h] = "gone"]
    /\ memory' = [memory EXCEPT ![h] = EmptyState]

\* tmp.write_text: open() truncates what the .tmp name stands for.
OpenTmp(h) ==
    LET free == Inodes \ ({name} \cup {fd[g] : g \in Hooks})
        inode == IF tmp # NoInode THEN tmp ELSE CHOOSE i \in free : TRUE
    IN
    /\ pc[h] = "open"
    /\ tmp' = inode
    /\ content' = [content EXCEPT ![inode] = Torn]
    /\ fd' = [fd EXCEPT ![h] = inode]
    /\ pc' = [pc EXCEPT ![h] = "write"]
    /\ UNCHANGED <<name, after, event, memory, now, clock, events, history>>

\* Two processes that have one inode open both write from its start: the
\* longer of the two texts leaves a tail.
WriteTmp(h) ==
    /\ pc[h] = "write"
    /\ \E text \in IF content[fd[h]] = Torn THEN {memory[h]}
                   ELSE {memory[h], Torn} :
          content' = [content EXCEPT ![fd[h]] = text]
    /\ pc' = [pc EXCEPT ![h] = "rename"]
    /\ UNCHANGED <<name, tmp, after, event, memory, fd, now, clock, events,
                   history>>

\* Mutant: the old file is removed and the new one moved in its place.
RemoveAndReplace(h) ==
    /\ pc[h] = "rename"
    /\ name' = tmp /\ tmp' = NoInode
    /\ fd' = [fd EXCEPT ![h] = NoInode]
    /\ pc' = [pc EXCEPT ![h] = after[h]]
    /\ Forget(h)
    /\ UNCHANGED <<content, clock, events, history>>

\* os.replace; without the .tmp name it raises an OSError nobody reports.
Replace(h) ==
    /\ pc[h] = "rename"
    /\ IF tmp # NoInode
       THEN name' = tmp /\ tmp' = NoInode
       ELSE UNCHANGED <<name, tmp>>
    /\ fd' = [fd EXCEPT ![h] = NoInode]
    /\ content' = [i \in Inodes |->
                      IF i \in {name', tmp'} \cup {fd'[g] : g \in Hooks}
                      THEN content[i] ELSE Torn]
    /\ pc' = [pc EXCEPT ![h] = after[h]]
    /\ Forget(h)
    /\ UNCHANGED <<clock, events, history>>

Step(h) ==
    \/ ToolHook(h) \/ CompactHook(h) \/ FailureHook(h)
    \/ CoverHook(h) \/ ClaimHook(h)
    \/ OpenTmp(h) \/ WriteTmp(h) \/ Replace(h)

Next == \E h \in Hooks : Step(h) \/ \E e \in Event : Fire(h, e)

Spec == Init /\ [][Next]_vars

----------------------------------------------------------------------------
(* Properties.                                                             *)

Entries(a) ==
    {EntryOf(memory[h], a) : h \in Hooks}
        \cup {EntryOf(content[i], a) : i \in {j \in Inodes : content[j] # Torn}}

\* However hooks overlap, whatever updates are lost and whatever the file's
\* text becomes, no agent is ever charged with an edit it did not make: its
\* edit counters, per file and in a row, stay within its own edits (issue
\* #144: a subagent must not inherit its parent's streak).
NeverChargedForOthers ==
    \A a \in Agents : \A s \in Entries(a) :
        /\ s.fixation_run > 0 => s.fixation_run <= edits[a][s.fixation_locus]
        /\ \A t \in Topics : s.edited_files[t] <= edits[a][t]

\* As long as no two hooks have been between reading and renaming at once,
\* the file at rest is whole and holds, for every agent, exactly the calls
\* since it last looked, its edits, what it has looked up and when, and its
\* last compaction.
ExactWithoutOverlap ==
    ~overlap /\ (\A h \in Hooks : ~InCycle(h)) =>
        /\ content[name] # Torn
        /\ \A a \in Agents : LET s == EntryOf(content[name], a) IN
            /\ s.builtin_calls = streak[a]
            /\ s.edited_files = edits[a]
            /\ s.covered_topics = retrieved[a]
            /\ s.last_compaction_at = compacted[a]

\* Without overlap a streak is met with each full notice at most once, and a
\* streak as long as the threshold has been met with one: the marks of one
\* streak never silence the next (issue #144).
OneFullNoticePerStreak ==
    ~overlap => \A a \in Agents :
        /\ full[a]["warn"] <= 1 /\ full[a]["gap"] <= 1
        /\ streak[a] >= Warn => full[a]["warn"] + full[a]["gap"] >= 1

\* The coverage gate: once a consequential call goes ahead, its topic has been
\* looked up for that very agent, by itself or by a hook; and, unless hooks
\* have overlapped, since that agent's last compaction (issue #159).
ConsequentialOnlyAfterLookup ==
    [][\A h \in Hooks :
          LET e == event[h] IN
          pc[h] = "read" /\ pc'[h] = "open" /\ e.kind = "tool" /\ Consequential(e) =>
              /\ retrieved'[e.agent][e.topic] # Never
              /\ ~overlap' => retrieved'[e.agent][e.topic] >= compacted[e.agent]]_vars
============================================================================
