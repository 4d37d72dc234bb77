------------------------- MODULE EnforcementProofs -------------------------
(***************************************************************************)
(* Proofs about what refuses and nudges a client: SessionTracker, in the   *)
(* server, for every choice of the thresholds and every number of calls,   *)
(* and HookState, in the hook processes, for any agents, hooks, topics and *)
(* thresholds.                                                             *)
(***************************************************************************)
EXTENDS SessionTracker, HookState, FiniteSetTheorems, FunctionTheorems, TLAPS

----------------------------------------------------------------------------
(* SessionTracker.                                                         *)

\* Every pending nudge was shown: what makes suppressing its repeats safe.
PendingWasShown == pending \subseteq shown

\* A nudge the client was refused for is pending until a call resolves it, but
\* for the mandatory stop, which only exempt tools resolve; one that a refused
\* call resolved is neither pending nor counted.
ToldIsPending == told \notin {"none", "mandatory_stop"} => told \in pending
ObeyedIsClear ==
    /\ "mandatory_stop" \notin obeyed
    /\ \A n \in obeyed : n \notin pending /\ ignored[n] = 0

SessionInv ==
    /\ SessionTypeOK
    /\ PendingWasShown
    /\ EscalationWasShown
    /\ StoresWaitForCheckpoint
    /\ ToldIsPending
    /\ ObeyedIsClear
    /\ ObedienceGetsThrough

\* SessionInit is also the state that reset_all leaves.
LEMMA Fresh == SessionInit => SessionTypeOK
<1> SUFFICES ASSUME SessionInit PROVE SessionTypeOK
  OBVIOUS
<1>1. MaxTurns \in Nat
  BY NudgeAssumption
<1>2. turn \in 0..MaxTurns
  BY <1>1 DEF SessionInit
<1>3. /\ lastStore \in 0..turn /\ lastCheckpoint \in 0..turn
      /\ queried \in 0..turn /\ callsSince \in 0..turn
  BY DEF SessionInit
<1>4. ignored \in [Nudges -> 0..turn]
  BY DEF SessionInit
<1>5. /\ pending \subseteq Nudges /\ shown \subseteq pending
      /\ told \in Nudges \cup {"none"} /\ obeyed \subseteq Nudges /\ read \in BOOLEAN
  BY DEF SessionInit
<1> QED
  BY <1>2, <1>3, <1>4, <1>5 DEF SessionTypeOK

LEMMA CountersStep ==
  ASSUME SessionTypeOK, NEW tool \in SessionTools, NEW focused \in BOOLEAN,
         RecordCall(tool, focused)
  PROVE  /\ turn' = turn + 1 /\ turn' \in 0..MaxTurns
         /\ queried' \in 0..turn' /\ callsSince' \in 0..turn'
         /\ ignored' \in [Nudges -> 0..turn'] /\ read' \in BOOLEAN
         /\ ignored' = Ignored(tool)
  BY NudgeAssumption DEF SessionTypeOK, RecordCall, Ignored

LEMMA RefusedTypes ==
  ASSUME SessionTypeOK, NEW tool \in SessionTools, NEW focused \in BOOLEAN,
         Refused(tool, focused)
  PROVE  SessionTypeOK'
<1>1. RecordCall(tool, focused)
  BY DEF Refused
<1>2. told' \in Nudges
  BY DEF Refused, Refusals, Escalated, Nudges
<1>3. obeyed' \subseteq Nudges
  BY DEF Refused, SessionTypeOK
<1>4. pending' \subseteq Nudges /\ shown' \subseteq pending'
  BY DEF Refused, NoNudge, StillPending, Resolved, SessionTypeOK
<1>5. lastStore' \in 0..turn' /\ lastCheckpoint' \in 0..turn'
  BY <1>1, CountersStep DEF Refused, SessionTypeOK
<1> QED
  BY <1>1, <1>2, <1>3, <1>4, <1>5, CountersStep DEF SessionTypeOK

LEMMA RunsTypes ==
  ASSUME SessionTypeOK, NEW tool \in SessionTools, NEW focused \in BOOLEAN,
         Runs(tool, focused)
  PROVE  SessionTypeOK'
<1>1. RecordCall(tool, focused) /\ told' = "none" /\ obeyed' = {}
  BY DEF Runs
<1>2. pending' \subseteq Nudges /\ shown' \subseteq pending'
  <2>1. CASE GetNudge(tool, focused)
    BY <2>1 DEF GetNudge, StillPending, Resolved, Triggered, SessionTypeOK
  <2>2. CASE NoNudge(tool)
    BY <2>2 DEF NoNudge, StillPending, Resolved, SessionTypeOK
  <2> QED
    BY <2>1, <2>2 DEF Runs
<1>3. lastStore' \in 0..turn' /\ lastCheckpoint' \in 0..turn'
  BY <1>1, CountersStep DEF Runs, ReadShift, SessionTypeOK
<1> QED
  BY <1>1, <1>2, <1>3, CountersStep DEF SessionTypeOK

LEMMA TypeStep == SessionTypeOK /\ [SessionNext]_sessionVars => SessionTypeOK'
<1> SUFFICES ASSUME SessionTypeOK, [SessionNext]_sessionVars PROVE SessionTypeOK'
  OBVIOUS
<1>1. CASE Handoff
  <2>1. SessionInit'
    BY <1>1 DEF Handoff, SessionInit
  <2> QED
    BY <2>1, Fresh, PTL
<1>2. CASE UNCHANGED sessionVars
  BY <1>2 DEF sessionVars, counters, nudging, SessionTypeOK
<1> QED
  BY <1>1, <1>2, RefusedTypes, RunsTypes DEF SessionNext

\* A nudge becomes pending only with its message; one that stays pending keeps
\* it.
LEMMA PendingStep ==
  SessionTypeOK /\ PendingWasShown /\ [SessionNext]_sessionVars => PendingWasShown'
<1> SUFFICES ASSUME SessionTypeOK, PendingWasShown, [SessionNext]_sessionVars PROVE PendingWasShown'
  OBVIOUS
<1>1. CASE Handoff
  BY <1>1 DEF Handoff, PendingWasShown
<1>2. ASSUME NEW tool \in SessionTools, NEW focused \in BOOLEAN,
             Refused(tool, focused) \/ Runs(tool, focused)
      PROVE  PendingWasShown'
  <2>1. CASE GetNudge(tool, focused)
    BY <2>1 DEF GetNudge, PendingWasShown, StillPending
  <2>2. CASE NoNudge(tool)
    BY <2>2 DEF NoNudge, PendingWasShown, StillPending
  <2> QED
    BY <1>2, <2>1, <2>2 DEF Refused, Runs
<1>3. CASE UNCHANGED sessionVars
  BY <1>3 DEF sessionVars, nudging, PendingWasShown
<1> QED
  BY <1>1, <1>2, <1>3 DEF SessionNext

\* A call adds an ignore only to a nudge that stays pending, and a nudge that
\* stays pending stays shown.
LEMMA ShownStep ==
  SessionTypeOK /\ PendingWasShown /\ EscalationWasShown /\ [SessionNext]_sessionVars
      => EscalationWasShown'
<1> SUFFICES ASSUME SessionTypeOK, PendingWasShown, EscalationWasShown, [SessionNext]_sessionVars,
                    NEW n \in Nudges, ignored'[n] > 0
             PROVE  n \in shown'
  BY DEF EscalationWasShown
<1>1. CASE Handoff
  BY <1>1 DEF Handoff
<1>2. ASSUME NEW tool \in SessionTools, NEW focused \in BOOLEAN,
             Refused(tool, focused) \/ Runs(tool, focused)
      PROVE  n \in shown'
  <2>1. ignored' = Ignored(tool)
    BY <1>2 DEF Refused, Runs, RecordCall
  <2>2. shown \ Resolved(tool) \subseteq shown'
    BY <1>2 DEF Refused, Runs, NoNudge, GetNudge
  <2>3. n \notin Resolved(tool) /\ (ignored[n] > 0 \/ n \in StillPending(tool))
    BY <2>1 DEF Ignored, SessionTypeOK
  <2>4. n \in shown
    BY <2>3 DEF EscalationWasShown, StillPending, PendingWasShown
  <2> QED
    BY <2>2, <2>3, <2>4
<1>3. CASE UNCHANGED sessionVars
  BY <1>3 DEF sessionVars, nudging, EscalationWasShown
<1> QED
  BY <1>1, <1>2, <1>3 DEF SessionNext

\* A storing tool runs only within the grace; every other call moves the store
\* mark no further than the checkpoint mark.
LEMMA StoresStep ==
  SessionTypeOK /\ StoresWaitForCheckpoint /\ [SessionNext]_sessionVars => StoresWaitForCheckpoint'
<1> SUFFICES ASSUME SessionTypeOK, StoresWaitForCheckpoint, [SessionNext]_sessionVars, Blocking
             PROVE  lastStore' - lastCheckpoint' <= MandatoryTurns + Grace
  BY DEF StoresWaitForCheckpoint
<1> lastStore - lastCheckpoint <= MandatoryTurns + Grace
  BY DEF StoresWaitForCheckpoint
<1> MandatoryTurns \in Nat /\ Grace \in Nat
  BY NudgeAssumption
<1>1. CASE Handoff
  BY <1>1 DEF Handoff
<1>2. ASSUME NEW tool \in SessionTools, NEW focused \in BOOLEAN, Refused(tool, focused)
      PROVE  lastStore' - lastCheckpoint' <= MandatoryTurns + Grace
  BY <1>2 DEF Refused
<1>3. ASSUME NEW tool \in SessionTools, NEW focused \in BOOLEAN, Runs(tool, focused)
      PROVE  lastStore' - lastCheckpoint' <= MandatoryTurns + Grace
  <2>1. turn' = turn + 1
    BY <1>3 DEF Runs, RecordCall
  <2>2. CASE tool \in Storers
    <3>1. ~PastGrace(tool)
      BY <1>3, <2>2 DEF Runs, Refusals, Exempt, Readers, Storers
    <3>2. lastStore' = turn + 1 /\ lastCheckpoint' = lastCheckpoint
      BY <1>3, <2>1, <2>2 DEF Runs, ReadShift, Readers, Storers, SessionTypeOK
    <3> QED
      BY <3>1, <3>2 DEF PastGrace, SessionTypeOK
  <2>3. CASE tool \notin Storers
    BY <1>3, <2>1, <2>3 DEF Runs, ReadShift, Readers, SessionTypeOK
  <2> QED
    BY <2>2, <2>3
<1>4. CASE UNCHANGED sessionVars
  BY <1>4 DEF sessionVars, counters
<1> QED
  BY <1>1, <1>2, <1>3, <1>4 DEF SessionNext

\* What a refusal may name is past its threshold after the call's own ignores,
\* so it is still pending.
LEMMA RefusalIsPending ==
  ASSUME SessionTypeOK, PendingWasShown, EscalationWasShown,
         NEW tool \in SessionTools, NEW n \in Refusals(tool)
  PROVE  /\ tool \notin Exempt
         /\ n = "mandatory_stop" \/ (n \in StillPending(tool) /\ Ignored(tool)[n] > 0)
<1>1. tool \notin Exempt /\ (n = "mandatory_stop" \/ n \in Escalated(tool))
  BY DEF Refusals
<1>2. Escalation \in Nat /\ Escalation > 0
  BY NudgeAssumption
<1>3. ASSUME n \in Escalated(tool)
      PROVE  n \in StillPending(tool) /\ Ignored(tool)[n] > 0
  <2>1. n \in Nudges /\ Ignored(tool)[n] >= Escalation
    BY <1>3 DEF Escalated
  <2>2. ignored[n] \in Nat
    BY <2>1 DEF SessionTypeOK
  <2>3. Ignored(tool)[n] > 0
    BY <1>2, <2>1, <2>2 DEF Ignored
  <2>4. n \notin Resolved(tool) /\ (ignored[n] > 0 \/ n \in StillPending(tool))
    BY <2>1, <2>2, <2>3 DEF Ignored
  <2> QED
    BY <2>1, <2>3, <2>4 DEF EscalationWasShown, StillPending, SessionTypeOK
<1> QED
  BY <1>1, <1>3

\* Doing as told clears the nudge the refusal named, and a refused call shows
\* no nudge that could bring it back.
LEMMA ObeyedStep ==
  ASSUME SessionTypeOK, PendingWasShown, EscalationWasShown, ToldIsPending,
         ObeyedIsClear, SessionNext
  PROVE  ToldIsPending' /\ ObeyedIsClear' /\ ObedienceGetsThrough'
<1> USE DEF ToldIsPending, ObeyedIsClear, ObedienceGetsThrough
<1>1. CASE Handoff
  BY <1>1 DEF Handoff
<1>2. ASSUME NEW tool \in SessionTools, NEW focused \in BOOLEAN, Refused(tool, focused)
      PROVE  ToldIsPending' /\ ObeyedIsClear' /\ ObedienceGetsThrough'
  <2>1. /\ tool \notin Exempt
        /\ told' = "mandatory_stop"
             \/ (told' \in StillPending(tool) /\ Ignored(tool)[told'] > 0)
    <3>1. PICK n \in Refusals(tool) : told' = n
      BY <1>2 DEF Refused
    <3> QED
      BY <3>1, RefusalIsPending
  <2>2. pending' = StillPending(tool) /\ ignored' = Ignored(tool)
    BY <1>2 DEF Refused, RecordCall, NoNudge
  <2>3. ASSUME NEW n \in obeyed'
        PROVE  n \notin StillPending(tool) /\ Ignored(tool)[n] = 0
               /\ n # "mandatory_stop"
    <3>1. CASE n \in obeyed
      BY <3>1 DEF Ignored, StillPending, SessionTypeOK
    <3>2. CASE n = told /\ told # "none" /\ tool \in Resolves(told)
      <4>1. told \in Nudges
        BY <3>2 DEF SessionTypeOK
      <4>2. told # "mandatory_stop"
        BY <2>1, <3>2 DEF Resolves, Exempt
      <4>3. n \in Resolved(tool)
        BY <3>2, <4>2 DEF Resolved
      <4> QED
        BY <3>2, <4>1, <4>2, <4>3 DEF Ignored, StillPending
    <3> QED
      BY <1>2, <2>3, <3>1, <3>2 DEF Refused
  <2> QED
    BY <2>1, <2>2, <2>3 DEF Refused
<1>3. ASSUME NEW tool \in SessionTools, NEW focused \in BOOLEAN, Runs(tool, focused)
      PROVE  ToldIsPending' /\ ObeyedIsClear' /\ ObedienceGetsThrough'
  BY <1>3 DEF Runs
<1> QED
  BY <1>1, <1>2, <1>3 DEF SessionNext

\* The inductive invariant of the tracker holds for every choice of its
\* thresholds.
THEOREM TrackerInvariant == SessionSpec => []SessionInv
<1>1. SessionInit => SessionInv
  <2>1. SessionInit => EscalationWasShown /\ ToldIsPending /\ ObeyedIsClear
                /\ ObedienceGetsThrough
    BY DEF SessionInit, EscalationWasShown, ToldIsPending, ObeyedIsClear,
           ObedienceGetsThrough
  <2>2. SessionInit => StoresWaitForCheckpoint
    BY NudgeAssumption DEF SessionInit, StoresWaitForCheckpoint
  <2> QED
    BY <2>1, <2>2, Fresh DEF SessionInv, SessionInit, PendingWasShown
<1>2. SessionInv /\ [SessionNext]_sessionVars => SessionInv'
  <2> SUFFICES ASSUME SessionInv, [SessionNext]_sessionVars PROVE SessionInv'
    OBVIOUS
  <2>1. ToldIsPending' /\ ObeyedIsClear' /\ ObedienceGetsThrough'
    <3>1. CASE UNCHANGED sessionVars
      BY <3>1 DEF SessionInv, sessionVars, nudging, ToldIsPending, ObeyedIsClear,
                  ObedienceGetsThrough
    <3>2. CASE SessionNext
      BY <3>2, ObeyedStep DEF SessionInv
    <3> QED
      BY <3>1, <3>2
  <2> QED
    BY <2>1, TypeStep, PendingStep, ShownStep, StoresStep DEF SessionInv
<1> QED
  BY <1>1, <1>2, PTL DEF SessionSpec

\* Escalation (tracker.py record_call) blocks only for a nudge the client was
\* shown, although get_nudge suppresses the repeats of a pending one.
THEOREM NobodyBlockedUnshown == SessionSpec => []EscalationWasShown
  BY TrackerInvariant, PTL DEF SessionInv

\* Escalated blocks (tracker.py record_call) cannot hold a client that calls
\* what each of them names.
THEOREM ObedienceSuffices == SessionSpec => []ObedienceGetsThrough
  BY TrackerInvariant, PTL DEF SessionInv

\* Mandatory-stop blocking (tracker.py is_blocked) leaves no store beyond the
\* grace, whatever reads and failures shift the watermarks.
THEOREM StoresAreCheckpointed == SessionSpec => []StoresWaitForCheckpoint
  BY TrackerInvariant, PTL DEF SessionInv

\* After a read-only call the escalation counts are those before it, but that
\* the read may have shown a nudge, which is then one ignore from the next
\* call's; and the distance to the last checkpoint is the same.
LEMMA ReadStep ==
  ASSUME Escalation > 1, SessionInv, [SessionNext]_sessionVars, read', turn' # turn,
         NEW other \in SessionTools
  PROVE  told' = "none" /\ Refusals(other)' \subseteq Refusals(other)
<1>1. PICK tool \in SessionTools, focused \in BOOLEAN :
          Refused(tool, focused) \/ Runs(tool, focused)
  BY DEF SessionNext, Handoff, sessionVars, counters
<1>2. RecordCall(tool, focused) /\ tool \in Readers
  BY <1>1 DEF Refused, Runs, RecordCall
<1>3. Runs(tool, focused) /\ told' = "none"
  BY <1>1, <1>2 DEF Refused, Runs, Refusals
<1>4. tool = "list_rules" /\ Resolved(tool) = {}
  BY <1>2 DEF Readers, Resolved, Resolves, SessionInv, SessionTypeOK, Nudges
<1>5. ignored' = ignored
  <2>1. ignored' = Ignored(tool) /\ ignored \in [Nudges -> 0..turn]
    BY <1>2 DEF RecordCall, SessionInv, SessionTypeOK
  <2> QED
    BY <1>2, <1>4, <2>1 DEF Ignored
<1>6. PastGrace(other)' = PastGrace(other)
  <2>1. turn' = turn + 1 /\ lastCheckpoint' = lastCheckpoint + 1
    BY <1>2, <1>3, <1>4 DEF RecordCall, Runs, ReadShift
  <2> QED
    BY <2>1 DEF PastGrace, SessionInv, SessionTypeOK
<1>7. Escalated(other)' \subseteq Escalated(other)
  <2> SUFFICES ASSUME NEW n \in Nudges, n \in Escalated(other)'
               PROVE  n \in Escalated(other)
    BY DEF Escalated
  <2>1. Ignored(other)'[n] >= Escalation /\ ~IsAdvisory(n)
    BY DEF Escalated, IsAdvisory
  <2>2. ignored[n] \in Nat /\ Escalation \in Nat
    BY NudgeAssumption DEF SessionInv, SessionTypeOK
  <2>3. other \notin Resolves(n) \/ n \notin pending'
    BY <1>5, <2>1, <2>2 DEF Ignored, Resolved
  <2>4. n \in pending
    <3>1. ignored[n] > 0
      BY <1>5, <2>1, <2>2 DEF Ignored
    <3> QED
      BY <3>1 DEF SessionInv, EscalationWasShown, SessionTypeOK
  <2>5. n \in pending'
    BY <1>3, <1>4, <2>4 DEF Runs, GetNudge, NoNudge, StillPending
  <2>6. Ignored(other)[n] = Ignored(other)'[n]
    BY <1>5, <2>3, <2>4, <2>5 DEF Ignored, Resolved, StillPending
  <2> QED
    BY <2>1, <2>6 DEF Escalated
<1> QED
  BY <1>3, <1>6, <1>7 DEF Refusals

\* The read-only early return of record_call (tracker.py): unless one ignore
\* is enough to block (Escalation > 1), a read is never refused and blocks no
\* later call.
THEOREM ReadsAreFree ==
  ASSUME Escalation > 1
  PROVE  SessionSpec => ReadsBlockNothing
<1>1. SessionInv /\ [SessionNext]_sessionVars
        => [read' /\ turn' # turn =>
              /\ told' = "none"
              /\ \A tool \in SessionTools : Refusals(tool)' \subseteq Refusals(tool)]_sessionVars
  <2> SUFFICES ASSUME SessionInv, [SessionNext]_sessionVars, read', turn' # turn
               PROVE  /\ told' = "none"
                      /\ \A tool \in SessionTools : Refusals(tool)' \subseteq Refusals(tool)
    OBVIOUS
  <2>1. "search" \in SessionTools
    BY DEF SessionTools
  <2> QED
    BY <2>1, ReadStep
<1> QED
  BY <1>1, TrackerInvariant, PTL DEF SessionSpec, ReadsBlockNothing
----------------------------------------------------------------------------
(* HookState.                                                              *)

\* A hook has a file open for writing exactly while it writes and renames.
FdWhileWriting ==
    \A h \in Hooks :
        IF pc[h] \in {"write", "rename"} THEN fd[h] \in Inodes ELSE fd[h] = NoInode

\* An entry charges its agent with no more than the edits ed, one number per
\* topic.
Clean(s, ed) ==
    /\ s.fixation_run > 0 =>
           s.fixation_locus \in Topics /\ s.fixation_run <= ed[s.fixation_locus]
    /\ \A t \in Topics : s.edited_files[t] <= ed[t]
Uncharged(state, all) == \A a \in Agents : Clean(EntryOf(state, a), all[a])

\* Whatever a hook holds and whatever can be read is uncharged.
NobodyCharged ==
    /\ \A h \in Hooks : Uncharged(memory[h], edits)
    /\ \A i \in Inodes : content[i] # Torn => Uncharged(content[i], edits)

\* A hook that has searched has a topic, and a compaction has nothing to do
\* after its file is written.
CoverEvents ==
    \A h \in Hooks :
        /\ pc[h] \in {"cover", "claim"} => event[h].kind # "compact"
        /\ after[h] \in {"cover", "claim"} => event[h].kind # "compact"
        /\ pc[h] \notin {"open", "write", "rename"} => after[h] = "gone"

\* Every compaction is an event of its own: the clock stays within its bound.
Compacting == {h \in Hooks : pc[h] = "read" /\ event[h].kind = "compact"}
ClockBehind == clock + Cardinality(Compacting) <= events

IInv ==
    /\ TypeOK /\ FdWhileWriting /\ CoverEvents /\ ClockBehind
    /\ NobodyCharged

ToolEvent == [kind : {"tool"}, agent : Agents, tool : Tools, topic : Topics]

----------------------------------------------------------------------------
(* Values.                                                                 *)

LEMMA Numbers == Cardinality(Hooks) \in Nat /\ 0 \in Inodes /\ NoInode \notin Inodes
BY HookBoundAssumption, FS_CardinalityType DEF Inodes, NoInode

LEMMA NewEntryType == NewEntry \in Entry
BY HookBoundAssumption DEF NewEntry, Entry, Time, Never

LEMMA EmptyStateType == EmptyState \in State /\ EmptyState # Torn
BY EntryAssumption DEF EmptyState, State

LEMMA EntryOfType ==
  ASSUME NEW st \in State, NEW a \in Agents
  PROVE  EntryOf(st, a) \in Entry
BY NewEntryType, EntryAssumption DEF EntryOf, State

LEMMA ReadStateType == ASSUME TypeOK PROVE ReadState \in State /\ ReadState # Torn
BY EmptyStateType, EntryAssumption DEF ReadState, TypeOK

\* Two entries that charge their agent with the same edits.
SameCharge(d, s) ==
    /\ d.edited_files = s.edited_files
    /\ d.fixation_run = s.fixation_run /\ d.fixation_locus = s.fixation_locus

\* Changing one field of an entry.
LEMMA FieldTypes ==
  ASSUME NEW s \in Entry
  PROVE  /\ \A n \in Nat : LET d == [s EXCEPT !.builtin_calls = n] IN
             /\ d \in Entry /\ SameCharge(d, s)
         /\ \A n \in Nat : LET d == [s EXCEPT !.mutator_calls = n] IN
             /\ d \in Entry /\ SameCharge(d, s)
         /\ \A b \in BOOLEAN : LET d == [s EXCEPT !.warn_emitted = b] IN
             /\ d \in Entry /\ SameCharge(d, s)
         /\ \A b \in BOOLEAN : LET d == [s EXCEPT !.gap_emitted = b] IN
             /\ d \in Entry /\ SameCharge(d, s)
         /\ \A l \in Topics \cup {NoTopic} : LET d == [s EXCEPT !.fixation_locus = l] IN
             /\ d \in Entry /\ d.edited_files = s.edited_files
             /\ d.fixation_run = s.fixation_run /\ d.fixation_locus = l
         /\ \A n \in Nat : LET d == [s EXCEPT !.fixation_run = n] IN
             /\ d \in Entry /\ d.edited_files = s.edited_files
             /\ d.fixation_run = n /\ d.fixation_locus = s.fixation_locus
<1>1. \A n \in Nat : LET d == [s EXCEPT !.builtin_calls = n] IN
          /\ d \in Entry /\ SameCharge(d, s)
  BY DEF Entry, SameCharge
<1>2. \A n \in Nat : LET d == [s EXCEPT !.mutator_calls = n] IN
          /\ d \in Entry /\ SameCharge(d, s)
  BY DEF Entry, SameCharge
<1>3. \A b \in BOOLEAN : LET d == [s EXCEPT !.warn_emitted = b] IN
          /\ d \in Entry /\ SameCharge(d, s)
  BY DEF Entry, SameCharge
<1>4. \A b \in BOOLEAN : LET d == [s EXCEPT !.gap_emitted = b] IN
          /\ d \in Entry /\ SameCharge(d, s)
  BY DEF Entry, SameCharge
<1>5. \A l \in Topics \cup {NoTopic} : LET d == [s EXCEPT !.fixation_locus = l] IN
          /\ d \in Entry /\ d.edited_files = s.edited_files
          /\ d.fixation_run = s.fixation_run /\ d.fixation_locus = l
  BY DEF Entry, SameCharge
<1>6. \A n \in Nat : LET d == [s EXCEPT !.fixation_run = n] IN
          /\ d \in Entry /\ d.edited_files = s.edited_files
          /\ d.fixation_run = n /\ d.fixation_locus = s.fixation_locus
  BY DEF Entry, SameCharge
<1> QED
  BY <1>1, <1>2, <1>3, <1>4, <1>5, <1>6

\* A call that looks clears the fixation run; any other leaves it to
\* FixationCheck.  Neither touches the edits per file.
LEMMA ResetType ==
  ASSUME NEW s \in Entry
  PROVE  LET d == Reset(s) IN
         /\ d \in Entry
         /\ d.edited_files = s.edited_files /\ d.fixation_run = 0
<1> DEFINE d1 == [s EXCEPT !.builtin_calls = 0]
           d2 == [d1 EXCEPT !.mutator_calls = 0]
           d3 == [d2 EXCEPT !.fixation_locus = NoTopic]
           d4 == [d3 EXCEPT !.fixation_run = 0]
           d5 == [d4 EXCEPT !.warn_emitted = FALSE]
           d6 == [d5 EXCEPT !.gap_emitted = FALSE]
<1>1. d1 \in Entry /\ SameCharge(d1, s)
  BY FieldTypes
<1>2. d2 \in Entry /\ SameCharge(d2, d1)
  <2> HIDE DEF d1
  <2> QED  BY <1>1, FieldTypes
<1>3. d3 \in Entry /\ d3.edited_files = d2.edited_files
  <2> HIDE DEF d1, d2
  <2> QED  BY <1>2, FieldTypes
<1>4. d4 \in Entry /\ d4.edited_files = d3.edited_files /\ d4.fixation_run = 0
  <2> HIDE DEF d1, d2, d3
  <2> QED  BY <1>3, FieldTypes
<1>5. d5 \in Entry /\ SameCharge(d5, d4)
  <2> HIDE DEF d1, d2, d3, d4
  <2> QED  BY <1>4, FieldTypes
<1>6. d6 \in Entry /\ SameCharge(d6, d5)
  <2> HIDE DEF d1, d2, d3, d4, d5
  <2> QED  BY <1>5, FieldTypes
<1>7. d6 = Reset(s)
  BY DEF Reset
<1> HIDE DEF d1, d2, d3, d4, d5, d6
<1> QED
  BY <1>1, <1>2, <1>3, <1>4, <1>5, <1>6, <1>7 DEF SameCharge

LEMMA CountedType ==
  ASSUME NEW s \in Entry, NEW e \in ToolEvent
  PROVE  Counted(s, e) \in Entry /\ SameCharge(Counted(s, e), s)
<1> DEFINE n == IF Mutates(e) THEN s.mutator_calls + 1 ELSE s.mutator_calls
           d1 == [s EXCEPT !.builtin_calls = s.builtin_calls + 1]
           d2 == [d1 EXCEPT !.mutator_calls = n]
<1>1. s.builtin_calls + 1 \in Nat /\ n \in Nat
  BY DEF Entry
<1>2. d1 \in Entry /\ SameCharge(d1, s)
  BY <1>1, FieldTypes
<1>3. d2 \in Entry /\ SameCharge(d2, d1)
  <2> HIDE DEF d1, n
  <2> QED  BY <1>1, <1>2, FieldTypes
<1>4. d2 = Counted(s, e)
  BY DEF Counted, Entry
<1> HIDE DEF d1, d2, n
<1> QED
  BY <1>2, <1>3, <1>4 DEF SameCharge

LEMMA DecideType ==
  ASSUME NEW s \in Entry, NEW e \in ToolEvent
  PROVE  LET d == Decide(s, e) IN
         /\ d \in Entry
         /\ d.edited_files = s.edited_files
         /\ \/ d.fixation_run = 0
            \/ /\ d.fixation_run = s.fixation_run
               /\ d.fixation_locus = s.fixation_locus
<1>1. CASE Looks(e)
  BY <1>1, ResetType DEF Decide
<1>2. CASE ~Looks(e)
  <2> DEFINE c == Counted(s, e)
             gap == c.gap_emitted \/ Notice(c, e) = "gap"
             warn == c.warn_emitted \/ Notice(c, e) = "warn"
             d1 == [c EXCEPT !.gap_emitted = gap]
             d2 == [d1 EXCEPT !.warn_emitted = warn]
  <2>1. c \in Entry /\ SameCharge(c, s)
    BY CountedType
  <2>2. gap \in BOOLEAN /\ warn \in BOOLEAN
    OBVIOUS
  <2>3. d1 \in Entry /\ SameCharge(d1, c)
    <3> HIDE DEF c, gap
    <3> QED  BY <2>1, <2>2, FieldTypes
  <2>4. d2 \in Entry /\ SameCharge(d2, d1)
    <3> HIDE DEF c, gap, warn, d1
    <3> QED  BY <2>2, <2>3, FieldTypes
  <2>5. d2 = Decide(s, e)
    <3>1. Decide(s, e) =
            [c EXCEPT !.gap_emitted = c.gap_emitted \/ Notice(c, e) = "gap",
                      !.warn_emitted = c.warn_emitted \/ Notice(c, e) = "warn"]
      BY <1>2, Zenon DEF Decide
    <3> QED  BY <3>1, Zenon
  <2> HIDE DEF c, gap, warn, d1, d2
  <2> QED
    BY <2>1, <2>3, <2>4, <2>5 DEF SameCharge
<1> QED
  BY <1>1, <1>2

LEMMA RecordType ==
  ASSUME NEW s \in Entry, NEW topic \in Topics, NEW t \in Time
  PROVE  LET d == RecordTopic(s, topic, t) IN
         /\ d \in Entry
         /\ d.edited_files = s.edited_files
         /\ d.fixation_run = s.fixation_run /\ d.fixation_locus = s.fixation_locus
BY DEF RecordTopic, Entry

LEMMA FixationType ==
  ASSUME NEW s \in Entry, NEW e \in ToolEvent
  PROVE  LET d == FixationCheck(s, e) IN
         /\ d \in Entry
         /\ d.edited_files = s.edited_files
         /\ Mutates(e) =>
              /\ d.fixation_locus = e.topic
              /\ d.fixation_run = IF s.fixation_locus = e.topic
                                  THEN s.fixation_run + 1 ELSE 1
         /\ ~Mutates(e) => d = s
<1>1. CASE Mutates(e)
  <2>1. FixationCheck(s, e) =
          [s EXCEPT !.fixation_locus = e.topic,
                    !.fixation_run = IF s.fixation_locus = e.topic
                                     THEN s.fixation_run + 1 ELSE 1]
    BY <1>1 DEF FixationCheck, Entry
  <2>2. e.topic \in Topics
    BY DEF ToolEvent
  <2> DEFINE n == IF s.fixation_locus = e.topic THEN s.fixation_run + 1 ELSE 1
             d1 == [s EXCEPT !.fixation_locus = e.topic]
             d2 == [d1 EXCEPT !.fixation_run = n]
  <2>3. n \in Nat
    BY DEF Entry
  <2>4. d1 \in Entry /\ d1.edited_files = s.edited_files /\ d1.fixation_locus = e.topic
    BY <2>2, FieldTypes
  <2>5. /\ d2 \in Entry /\ d2.edited_files = d1.edited_files
        /\ d2.fixation_run = n /\ d2.fixation_locus = d1.fixation_locus
    <3> HIDE DEF d1, n
    <3> QED  BY <2>3, <2>4, FieldTypes
  <2>6. d2 = FixationCheck(s, e)
    BY <2>1, Zenon
  <2> HIDE DEF d1, d2
  <2> QED
    BY <1>1, <2>4, <2>5, <2>6
<1>2. CASE ~Mutates(e)
  BY <1>2 DEF FixationCheck
<1> QED
  BY <1>1, <1>2

LEMMA MetricsType ==
  ASSUME NEW s \in Entry, NEW e \in ToolEvent
  PROVE  LET d == AccumulateMetrics(s, e) IN
         /\ d \in Entry
         /\ d.fixation_run = s.fixation_run /\ d.fixation_locus = s.fixation_locus
         /\ \A t \in Topics : d.edited_files[t] =
               IF Mutates(e) /\ t = e.topic THEN s.edited_files[t] + 1
               ELSE s.edited_files[t]
BY DEF AccumulateMetrics, Entry, ToolEvent

\* The whole of what a tool event does to an entry, as far as edits go.
LEMMA PreToolUseType ==
  ASSUME NEW s \in Entry, NEW e \in ToolEvent, NEW t \in Time
  PROVE  LET d == PreToolUse(s, e, t) IN
         /\ d \in Entry
         /\ \A x \in Topics : d.edited_files[x] =
               IF Mutates(e) /\ x = e.topic THEN s.edited_files[x] + 1
               ELSE s.edited_files[x]
         /\ \/ d.fixation_run = 0
            \/ ~Mutates(e) /\ d.fixation_run = s.fixation_run
               /\ d.fixation_locus = s.fixation_locus
            \/ Mutates(e) /\ d.fixation_locus = e.topic /\ d.fixation_run = 1
            \/ Mutates(e) /\ d.fixation_locus = e.topic
               /\ s.fixation_locus = e.topic /\ d.fixation_run = s.fixation_run + 1
<1> DEFINE d1 == Decide(s, e)
           d2 == Observe(d1, e, t)
           d3 == Gate(d2, e, t)
           d4 == FixationCheck(d3, e)
           d5 == AccumulateMetrics(d4, e)
<1>0. e.topic \in Topics
  BY DEF ToolEvent
<1>1. /\ d1 \in Entry
      /\ d1.edited_files = s.edited_files
      /\ \/ d1.fixation_run = 0
         \/ /\ d1.fixation_run = s.fixation_run
            /\ d1.fixation_locus = s.fixation_locus
  BY DecideType
<1>2. /\ d2 \in Entry /\ d2.edited_files = d1.edited_files
      /\ d2.fixation_run = d1.fixation_run /\ d2.fixation_locus = d1.fixation_locus
  <2> HIDE DEF d1
  <2> QED  BY <1>0, <1>1, RecordType DEF Observe
<1>3. /\ d3 \in Entry /\ d3.edited_files = d2.edited_files
      /\ d3.fixation_run = d2.fixation_run /\ d3.fixation_locus = d2.fixation_locus
  <2> HIDE DEF d1, d2
  <2> QED  BY <1>0, <1>2, RecordType DEF Gate
<1>4. /\ d4 \in Entry /\ d4.edited_files = d3.edited_files
      /\ Mutates(e) =>
           /\ d4.fixation_locus = e.topic
           /\ d4.fixation_run = IF d3.fixation_locus = e.topic
                                THEN d3.fixation_run + 1 ELSE 1
      /\ ~Mutates(e) => d4 = d3
  <2> HIDE DEF d1, d2, d3
  <2> QED  BY <1>3, FixationType
<1>5. /\ d5 \in Entry
      /\ d5.fixation_run = d4.fixation_run /\ d5.fixation_locus = d4.fixation_locus
      /\ \A x \in Topics : d5.edited_files[x] =
            IF Mutates(e) /\ x = e.topic THEN d4.edited_files[x] + 1
            ELSE d4.edited_files[x]
  <2> HIDE DEF d1, d2, d3, d4
  <2> QED  BY <1>4, MetricsType
<1>6. d5 = PreToolUse(s, e, t)
  BY DEF PreToolUse
<1>7. \/ d5.fixation_run = 0
      \/ ~Mutates(e) /\ d5.fixation_run = s.fixation_run
         /\ d5.fixation_locus = s.fixation_locus
      \/ Mutates(e) /\ d5.fixation_locus = e.topic /\ d5.fixation_run = 1
      \/ Mutates(e) /\ d5.fixation_locus = e.topic
         /\ s.fixation_locus = e.topic /\ d5.fixation_run = s.fixation_run + 1
  <2> HIDE DEF d1, d2, d3, d4, d5
  <2> QED  BY <1>1, <1>2, <1>3, <1>4, <1>5
<1>8. \A x \in Topics : d5.edited_files[x] =
         IF Mutates(e) /\ x = e.topic THEN s.edited_files[x] + 1
         ELSE s.edited_files[x]
  <2> HIDE DEF d1, d2, d3, d4, d5
  <2> QED  BY <1>1, <1>2, <1>3, <1>4, <1>5
<1> HIDE DEF d1, d2, d3, d4, d5
<1> QED
  BY <1>5, <1>6, <1>7, <1>8

----------------------------------------------------------------------------
(* Steps.                                                                  *)

LEMMA EventTypes ==
  ASSUME NEW e \in Event
  PROVE  /\ e.agent \in Agents
         /\ e.kind = "tool" => e \in ToolEvent
         /\ e.kind # "compact" => e.topic \in Topics
         /\ e.kind = "compact" => e.agent = Main
BY HookValueAssumption DEF Event, ToolEvent

LEMMA NoEventType == NoEvent \in Event
BY DEF NoEvent, Event

\* A hook that keeps a new entry keeps the types.
LEMMA KeepTypes ==
  ASSUME TypeOK, FdWhileWriting, NEW h \in Hooks, NEW s \in Entry,
         NEW next \in {"gone", "cover", "claim"},
         pc[h] \in {"read", "cover", "claim"}, Keep(h, s, next)
  PROVE  /\ name' \in Inodes
         /\ tmp' \in Inodes \cup {NoInode}
         /\ content' \in [Inodes -> State \cup {Torn}]
         /\ pc' \in [Hooks -> PC]
         /\ after' \in [Hooks -> {"gone", "cover", "claim"}]
         /\ event' \in [Hooks -> Event]
         /\ memory' \in [Hooks -> State]
         /\ fd' \in [Hooks -> Inodes \cup {NoInode}]
         /\ events' \in 0..MaxEvents
         /\ overlap' \in BOOLEAN
         /\ FdWhileWriting'
<1>1. AgentKey(event[h]) \in Agents
  BY EventTypes DEF TypeOK, AgentKey
<1>2. [ReadState EXCEPT ![AgentKey(event[h])] = s] \in State
  BY <1>1, ReadStateType DEF State
<1>3. memory' \in [Hooks -> State]
  BY <1>2 DEF Keep, TypeOK
<1>4. pc' \in [Hooks -> PC] /\ after' \in [Hooks -> {"gone", "cover", "claim"}]
  BY DEF Keep, TypeOK, PC
<1>5. FdWhileWriting'
  BY DEF Keep, FdWhileWriting, TypeOK
<1>6. overlap' \in BOOLEAN
  BY DEF Keep, Overlaps
<1> QED
  BY <1>3, <1>4, <1>5, <1>6 DEF Keep, TypeOK, fileVars

LEMMA OtherFieldTypes ==
  ASSUME NEW s \in Entry
  PROVE  /\ \A t \in Time : LET d == [s EXCEPT !.last_compaction_at = t] IN
             d \in Entry /\ SameCharge(d, s)
         /\ \A x \in Topics :
             LET d == [s EXCEPT !.failure_lookups = s.failure_lookups \cup {x}] IN
             d \in Entry /\ SameCharge(d, s)
         /\ \A x \in Topics :
             LET d == [s EXCEPT !.injected_topics = s.injected_topics \cup {x}] IN
             d \in Entry /\ SameCharge(d, s)
<1>1. \A t \in Time : LET d == [s EXCEPT !.last_compaction_at = t] IN
          d \in Entry /\ SameCharge(d, s)
  BY DEF Entry, SameCharge
<1>2. \A x \in Topics :
          LET d == [s EXCEPT !.failure_lookups = s.failure_lookups \cup {x}] IN
          d \in Entry /\ SameCharge(d, s)
  BY DEF Entry, SameCharge
<1>3. \A x \in Topics :
          LET d == [s EXCEPT !.injected_topics = s.injected_topics \cup {x}] IN
          d \in Entry /\ SameCharge(d, s)
  BY DEF Entry, SameCharge
<1> QED
  BY <1>1, <1>2, <1>3

\* No edit is ever forgotten.
EditsGrow == \A a \in Agents, t \in Topics : edits[a][t] <= edits'[a][t]

LEMMA CleanStays ==
  ASSUME NEW e1 \in [Topics -> Nat], NEW e2 \in [Topics -> Nat],
         \A t \in Topics : e1[t] <= e2[t], NEW s \in Entry, Clean(s, e1)
  PROVE  Clean(s, e2)
<1>1. /\ s.fixation_run \in Nat /\ \A t \in Topics : s.edited_files[t] \in Nat
  BY DEF Entry
<1>2. \A t \in Topics : e1[t] \in Nat /\ e2[t] \in Nat
  OBVIOUS
<1> QED
  BY <1>1, <1>2 DEF Clean

LEMMA UnchargedStays ==
  ASSUME TypeOK, edits' \in [Agents -> [Topics -> Nat]], EditsGrow,
         NEW st \in State, Uncharged(st, edits)
  PROVE  Uncharged(st, edits')
<1> SUFFICES ASSUME NEW a \in Agents PROVE Clean(EntryOf(st, a), edits'[a])
  BY DEF Uncharged
<1>1. /\ edits[a] \in [Topics -> Nat] /\ edits'[a] \in [Topics -> Nat]
      /\ \A t \in Topics : edits[a][t] <= edits'[a][t]
  BY DEF TypeOK, EditsGrow
<1>2. EntryOf(st, a) \in Entry /\ Clean(EntryOf(st, a), edits[a])
  BY EntryOfType DEF Uncharged
<1> QED
  BY <1>1, <1>2, CleanStays

LEMMA EmptyUncharged == ASSUME TypeOK PROVE Uncharged(EmptyState, edits)
<1> SUFFICES ASSUME NEW a \in Agents PROVE Clean(NewEntry, edits[a])
  BY DEF Uncharged, EntryOf, EmptyState
<1>1. \A t \in Topics : edits[a][t] \in Nat
  BY DEF TypeOK
<1>2. NewEntry.fixation_run = 0 /\ \A t \in Topics : NewEntry.edited_files[t] = 0
  BY DEF NewEntry
<1> QED
  BY <1>1, <1>2 DEF Clean

LEMMA ReadUncharged ==
  ASSUME TypeOK, NobodyCharged PROVE Uncharged(ReadState, edits)
BY EmptyUncharged DEF TypeOK, NobodyCharged, ReadState

LEMMA ReplaceEntry ==
  ASSUME NEW st \in State, NEW key \in Agents, NEW s \in Entry, NEW all,
         Uncharged(st, all), Clean(s, all[key])
  PROVE  LET new == [st EXCEPT ![key] = s]
         IN  new \in State /\ Uncharged(new, all)
<1> DEFINE new == [st EXCEPT ![key] = s]
<1>1. new \in State
  BY DEF State
<1>2. ASSUME NEW a \in Agents PROVE Clean(EntryOf(new, a), all[a])
  <2>1. CASE a = key
    BY <2>1, EntryAssumption DEF EntryOf, State
  <2>2. CASE a # key
    <3>1. new[a] = st[a]
      BY <2>2 DEF State
    <3>2. EntryOf(new, a) = EntryOf(st, a)
      BY <3>1 DEF EntryOf
    <3> QED
      BY <3>2 DEF Uncharged
  <2> QED
    BY <2>1, <2>2
<1> QED
  BY <1>1, <1>2 DEF Uncharged

\* A hook that keeps a clean entry charges nobody.
LEMMA KeepCharges ==
  ASSUME TypeOK, edits' \in [Agents -> [Topics -> Nat]], NobodyCharged, EditsGrow,
         NEW h \in Hooks, NEW s \in Entry, NEW next, Keep(h, s, next),
         Clean(s, edits'[event[h].agent])
  PROVE  NobodyCharged'
<1>1. event[h].agent \in Agents /\ ReadState \in State
  BY EventTypes, ReadStateType DEF TypeOK
<1>2. Uncharged(ReadState, edits')
  BY <1>1, ReadUncharged, UnchargedStays
<1>3. Uncharged([ReadState EXCEPT ![event[h].agent] = s], edits')
  BY <1>1, <1>2, ReplaceEntry
<1>4. \A g \in Hooks : Uncharged(memory'[g], edits')
  <2> SUFFICES ASSUME NEW g \in Hooks PROVE Uncharged(memory'[g], edits')
    OBVIOUS
  <2>1. CASE g = h
    BY <1>3, <2>1 DEF Keep, AgentKey, TypeOK
  <2>2. CASE g # h
    <3>1. memory'[g] = memory[g] /\ memory[g] \in State
      BY <2>2 DEF Keep, TypeOK
    <3> QED
      BY <3>1, UnchargedStays DEF NobodyCharged
  <2> QED
    BY <2>1, <2>2
<1>5. \A i \in Inodes : content'[i] # Torn => Uncharged(content'[i], edits')
  <2> SUFFICES ASSUME NEW i \in Inodes, content'[i] # Torn
               PROVE  Uncharged(content'[i], edits')
    OBVIOUS
  <2>1. content'[i] = content[i]
    BY DEF Keep, fileVars
  <2>2. content[i] \in State
    BY <2>1 DEF TypeOK
  <2> QED
    BY <2>1, <2>2, UnchargedStays DEF NobodyCharged
<1> QED
  BY <1>4, <1>5 DEF NobodyCharged

----------------------------------------------------------------------------
(* The actions.                                                            *)

\* The entry a hook has read.
Own(h) == EntryOf(ReadState, AgentKey(event[h]))

LEMMA OwnEntry ==
  ASSUME TypeOK, NobodyCharged, NEW h \in Hooks
  PROVE  Own(h) \in Entry /\ Clean(Own(h), edits[event[h].agent])
BY EventTypes, ReadStateType, EntryOfType, ReadUncharged
   DEF Own, AgentKey, TypeOK, Uncharged

\* What each kind of hook keeps.
Keeps(h, s, next) ==
    /\ s \in Entry /\ Clean(s, edits'[event[h].agent])
    /\ next \in {"gone", "cover", "claim"} /\ Keep(h, s, next)

LEMMA SameChargeClean ==
  ASSUME NEW d, NEW s, NEW ed, SameCharge(d, s), Clean(s, ed)
  PROVE  Clean(d, ed)
BY DEF SameCharge, Clean

LEMMA ToolHookKeeps ==
  ASSUME IInv, NEW h \in Hooks, ToolHook(h)
  PROVE  /\ edits' \in [Agents -> [Topics -> Nat]] /\ EditsGrow
         /\ \E s, next : Keeps(h, s, next)
<1> DEFINE e == event[h]
           s == Own(h)
           d == PreToolUse(s, e, clock)
<1>1. e \in ToolEvent /\ e.agent \in Agents /\ e.topic \in Topics
  BY EventTypes DEF IInv, TypeOK, ToolHook
<1>2. s \in Entry /\ Clean(s, edits[e.agent]) /\ clock \in Time
  BY OwnEntry DEF IInv, TypeOK
<1>3. edits' = [edits EXCEPT ![e.agent][e.topic] = IF Mutates(e) THEN @ + 1 ELSE @]
  BY DEF ToolHook
<1>4. edits \in [Agents -> [Topics -> Nat]]
  BY DEF IInv, TypeOK
<1>5. edits' \in [Agents -> [Topics -> Nat]]
  <2>1. CASE Mutates(e)
    BY <1>1, <1>3, <1>4, <2>1
  <2>2. CASE ~Mutates(e)
    BY <1>1, <1>3, <1>4, <2>2
  <2> QED
    BY <2>1, <2>2
<1>6. \A a \in Agents, t \in Topics : edits'[a][t] =
        IF a = e.agent /\ t = e.topic /\ Mutates(e) THEN edits[a][t] + 1
        ELSE edits[a][t]
  <2> HIDE DEF e
  <2> QED  BY <1>1, <1>3, <1>4
<1>7. EditsGrow
  <2> SUFFICES ASSUME NEW a \in Agents, NEW t \in Topics
               PROVE  edits[a][t] <= edits'[a][t]
    BY DEF EditsGrow
  <2>1. edits[a][t] \in Nat
    BY <1>4
  <2> HIDE DEF e
  <2> QED  BY <1>6, <2>1
<1>8. d \in Entry /\ Clean(d, edits'[e.agent])
  <2> HIDE DEF e, s
  <2>1. /\ d \in Entry
        /\ \A x \in Topics : d.edited_files[x] =
              IF Mutates(e) /\ x = e.topic THEN s.edited_files[x] + 1
              ELSE s.edited_files[x]
        /\ \/ d.fixation_run = 0
           \/ ~Mutates(e) /\ d.fixation_run = s.fixation_run
              /\ d.fixation_locus = s.fixation_locus
           \/ Mutates(e) /\ d.fixation_locus = e.topic /\ d.fixation_run = 1
           \/ Mutates(e) /\ d.fixation_locus = e.topic
              /\ s.fixation_locus = e.topic /\ d.fixation_run = s.fixation_run + 1
    BY <1>1, <1>2, PreToolUseType
  <2>2. s.fixation_run \in Nat /\ \A x \in Topics : s.edited_files[x] \in Nat
    BY <1>2 DEF Entry
  <2>3. \A x \in Topics : edits[e.agent][x] \in Nat
    BY <1>1, <1>4
  <2> HIDE DEF d
  <2>4. \A x \in Topics : d.edited_files[x] <= edits'[e.agent][x]
    BY <1>1, <1>2, <1>6, <2>1, <2>2, <2>3 DEF Clean
  <2>5. d.fixation_run > 0 =>
          d.fixation_locus \in Topics /\ d.fixation_run <= edits'[e.agent][d.fixation_locus]
    BY <1>1, <1>2, <1>6, <2>1, <2>2, <2>3 DEF Clean
  <2> QED
    BY <2>1, <2>4, <2>5 DEF Clean
<1>9. Keep(h, d, "gone")
  BY DEF ToolHook, Own
<1> HIDE DEF d, s
<1> QED
  BY <1>5, <1>7, <1>8, <1>9 DEF Keeps

LEMMA QuietHookKeeps ==
  ASSUME IInv, NEW h \in Hooks,
         \/ CompactHook(h) \/ FailureHook(h) \/ CoverHook(h)
         \/ ClaimHook(h) /\ event[h].topic \notin Own(h).injected_topics
  PROVE  /\ edits' = edits
         /\ \E s, next : Keeps(h, s, next)
<1> DEFINE s == Own(h)
<1>1. s \in Entry /\ Clean(s, edits[event[h].agent])
  BY OwnEntry DEF IInv
<1>2. clock \in Time /\ now[h] \in Time /\ event[h] \in Event
  BY DEF IInv, TypeOK
<1>3. edits' = edits
  BY DEF CompactHook, FailureHook, CoverHook, ClaimHook
<1>4. CASE CompactHook(h)
  <2> DEFINE d == [s EXCEPT !.last_compaction_at = clock']
  <2>1. clock' \in Time
    <3>1. h \in Compacting
      BY <1>4 DEF CompactHook, Compacting
    <3>2. IsFiniteSet(Compacting) /\ Cardinality(Compacting) \in Nat
      BY HookBoundAssumption, FS_Subset, FS_CardinalityType DEF Compacting
    <3>3. Cardinality(Compacting) # 0
      BY <3>1, <3>2, FS_EmptySet
    <3>4. /\ clock \in 0..MaxEvents /\ events \in 0..MaxEvents
          /\ clock + Cardinality(Compacting) <= events
      BY DEF IInv, ClockBehind, TypeOK, Time
    <3>5. clock' = clock + 1
      BY <1>4 DEF CompactHook
    <3> QED
      BY <3>2, <3>3, <3>4, <3>5, HookBoundAssumption DEF Time
  <2>2. d \in Entry /\ SameCharge(d, s)
    <3> HIDE DEF s
    <3> QED  BY <1>1, <2>1, OtherFieldTypes
  <2>3. Keep(h, d, "gone")
    BY <1>4 DEF CompactHook, Own
  <2> HIDE DEF d, s
  <2> QED
    BY <1>1, <1>3, <2>2, <2>3, SameChargeClean DEF Keeps
<1>5. CASE FailureHook(h)
  <2> DEFINE d == [s EXCEPT !.failure_lookups = s.failure_lookups \cup {event[h].topic}]
  <2>1. event[h].topic \in Topics
    BY <1>2, <1>5, EventTypes DEF FailureHook
  <2>2. d \in Entry /\ SameCharge(d, s)
    <3> HIDE DEF s
    <3> QED  BY <1>1, <2>1, OtherFieldTypes
  <2>3. PICK next \in {"gone", "cover"} : Keep(h, d, next)
    BY <1>5 DEF FailureHook, Own
  <2> HIDE DEF d, s
  <2> QED
    BY <1>1, <1>3, <2>2, <2>3, SameChargeClean DEF Keeps
<1>6. CASE CoverHook(h)
  <2> DEFINE t == IF event[h].kind = "failure" THEN now[h] ELSE clock
             d == RecordTopic(s, event[h].topic, t)
  <2>1. t \in Time
    BY <1>2
  <2>2. PICK next \in {"gone", "claim"} : Keep(h, d, next)
    BY <1>6 DEF CoverHook, Own
  <2>3. event[h].topic \in Topics
    BY <1>2, <1>6, EventTypes DEF CoverHook, IInv, CoverEvents
  <2>4. d \in Entry /\ SameCharge(d, s)
    <3> HIDE DEF s, t
    <3> QED  BY <1>1, <2>1, <2>3, RecordType DEF SameCharge
  <2> HIDE DEF d, s
  <2> QED
    BY <1>1, <1>3, <2>2, <2>4, SameChargeClean DEF Keeps
<1>7. CASE ClaimHook(h) /\ event[h].topic \notin Own(h).injected_topics
  <2> DEFINE d == [s EXCEPT !.injected_topics = s.injected_topics \cup {event[h].topic}]
  <2>1. event[h].topic \in Topics
    BY <1>2, <1>7, EventTypes DEF ClaimHook, IInv, CoverEvents
  <2>2. d \in Entry /\ SameCharge(d, s)
    <3> HIDE DEF s
    <3> QED  BY <1>1, <2>1, OtherFieldTypes
  <2>3. Keep(h, d, "gone")
    BY <1>7 DEF ClaimHook, Own
  <2> HIDE DEF d, s
  <2> QED
    BY <1>1, <1>3, <2>2, <2>3, SameChargeClean DEF Keeps
<1> QED
  BY <1>4, <1>5, <1>6, <1>7

LEMMA CompactingFinite ==
  /\ IsFiniteSet(Compacting) /\ Cardinality(Compacting) \in Nat
  /\ IsFiniteSet(Compacting') /\ Cardinality(Compacting') \in Nat
<1>1. Compacting \subseteq Hooks /\ Compacting' \subseteq Hooks
  BY DEF Compacting
<1> QED
  BY <1>1, HookBoundAssumption, FS_Subset, FS_CardinalityType

\* A step that starts no compaction and takes no event leaves the clock behind.
LEMMA ClockStays ==
  ASSUME TypeOK, ClockBehind, clock' = clock, events' = events,
         Compacting' \subseteq Compacting
  PROVE  ClockBehind'
<1>1. Cardinality(Compacting') <= Cardinality(Compacting)
  BY CompactingFinite, FS_Subset
<1>2. clock \in Nat /\ events \in Nat
  BY HookBoundAssumption DEF TypeOK, Time
<1> QED
  BY <1>1, <1>2, CompactingFinite DEF ClockBehind

\* After a hook that keeps its entry, what is not the memory.
LEMMA KeepRest ==
  ASSUME IInv, NEW h \in Hooks, NEW s, NEW next, Keeps(h, s, next),
         pc[h] \in {"read", "cover", "claim"},
         next \in {"cover", "claim"} => event[h].kind # "compact"
  PROVE  CoverEvents'
BY DEF Keeps, Keep, CoverEvents, IInv, TypeOK

LEMMA FireStep ==
  ASSUME IInv, NEW h \in Hooks, NEW e \in Event, Fire(h, e)
  PROVE  IInv'
<1>1. TypeOK'
  <2>1. events' \in 0..MaxEvents
    BY HookBoundAssumption DEF IInv, TypeOK, Fire
  <2>2. pc' \in [Hooks -> PC] /\ event' \in [Hooks -> Event] /\ now' \in [Hooks -> Time]
    <3>1. /\ pc' = [pc EXCEPT ![h] = IF e.kind = "prompt" THEN "cover" ELSE "read"]
          /\ event' = [event EXCEPT ![h] = e] /\ now' = [now EXCEPT ![h] = clock]
      BY DEF Fire
    <3>2. /\ pc \in [Hooks -> PC] /\ event \in [Hooks -> Event]
          /\ now \in [Hooks -> Time] /\ clock \in Time
      BY DEF IInv, TypeOK
    <3> QED
      BY <3>1, <3>2 DEF PC
  <2> QED
    BY <2>1, <2>2 DEF IInv, TypeOK, Fire, fileVars, history
<1>2. FdWhileWriting'
  BY DEF IInv, TypeOK, Fire, FdWhileWriting
<1>3. CoverEvents'
  <2> SUFFICES ASSUME NEW g \in Hooks
               PROVE  /\ pc'[g] \in {"cover", "claim"} => event'[g].kind # "compact"
                      /\ after'[g] \in {"cover", "claim"} => event'[g].kind # "compact"
                      /\ pc'[g] \notin {"open", "write", "rename"} => after'[g] = "gone"
    BY DEF CoverEvents
  <2>1. /\ pc[h] = "gone" /\ after' = after
        /\ pc' = [pc EXCEPT ![h] = IF e.kind = "prompt" THEN "cover" ELSE "read"]
        /\ event' = [event EXCEPT ![h] = e]
    BY DEF Fire
  <2>2. pc \in [Hooks -> PC] /\ event \in [Hooks -> Event]
    BY DEF IInv, TypeOK
  <2>3. CASE g = h
    BY <2>1, <2>2, <2>3 DEF IInv, CoverEvents
  <2>4. CASE g # h
    BY <2>1, <2>2, <2>4 DEF IInv, CoverEvents
  <2> QED
    BY <2>3, <2>4
<1>4. ClockBehind'
  <2>1. Compacting' \subseteq Compacting \cup {h}
    BY DEF Fire, Compacting, IInv, TypeOK
  <2>2. /\ IsFiniteSet(Compacting \cup {h})
        /\ Cardinality(Compacting \cup {h}) <= Cardinality(Compacting) + 1
    <3>1. IsFiniteSet(Compacting) /\ Cardinality(Compacting) \in Nat
      BY CompactingFinite
    <3>2. /\ IsFiniteSet(Compacting \cup {h})
          /\ Cardinality(Compacting \cup {h}) =
                IF h \in Compacting THEN Cardinality(Compacting)
                ELSE Cardinality(Compacting) + 1
      BY <3>1, FS_AddElement, Zenon
    <3> QED
      BY <3>1, <3>2
  <2>3. Cardinality(Compacting') <= Cardinality(Compacting) + 1
    BY <2>1, <2>2, CompactingFinite, FS_Subset, FS_CardinalityType
  <2>4. /\ clock \in Nat /\ events \in Nat /\ clock' = clock /\ events' = events + 1
        /\ clock + Cardinality(Compacting) <= events
    BY HookBoundAssumption DEF IInv, TypeOK, Fire, Time, ClockBehind
  <2> QED
    BY <2>3, <2>4, CompactingFinite DEF ClockBehind
<1>5. NobodyCharged'
  BY DEF IInv, Fire, NobodyCharged, fileVars, history
<1> QED
  BY <1>1, <1>2, <1>3, <1>4, <1>5 DEF IInv

LEMMA ToolHookStep ==
  ASSUME IInv, NEW h \in Hooks, ToolHook(h)
  PROVE  IInv'
<1>1. /\ edits' \in [Agents -> [Topics -> Nat]] /\ EditsGrow
      /\ \E s, next : Keeps(h, s, next)
  BY ToolHookKeeps
<1>2. PICK s, next : Keeps(h, s, next)
  BY <1>1
<1> DEFINE e == event[h]
<1>3. pc[h] = "read" /\ e.kind = "tool"
  BY DEF ToolHook
<1>4. e \in ToolEvent /\ e.agent \in Agents /\ e.topic \in Topics
  BY <1>3, EventTypes DEF IInv, TypeOK
<1>5. TypeOK'
  <2>1. clock' \in Time /\ now' \in [Hooks -> Time] /\ compacted' \in [Agents -> Time]
    BY DEF ToolHook, IInv, TypeOK
  <2>2. streak' \in [Agents -> Nat]
    BY <1>4 DEF ToolHook, IInv, TypeOK
  <2>3. full' \in [Agents -> [{"warn", "gap"} -> Nat]]
    <3> DEFINE notice == IF Looks(e) THEN "none"
                         ELSE Notice(Counted(Own(h), e), e)
               row == [n \in {"warn", "gap"} |->
                          IF Looks(e) THEN 0
                          ELSE IF n = notice THEN full[e.agent][n] + 1
                          ELSE full[e.agent][n]]
    <3>1. full' = [full EXCEPT ![e.agent] = row]
      BY DEF ToolHook, Own
    <3>2. full \in [Agents -> [{"warn", "gap"} -> Nat]]
      BY DEF IInv, TypeOK
    <3>3. row \in [{"warn", "gap"} -> Nat]
      <4> HIDE DEF notice, e
      <4> QED  BY <1>4, <3>2
    <3> HIDE DEF row, e
    <3> QED
      BY <3>1, <3>2, <3>3
  <2>4. retrieved' \in [Agents -> [Topics -> Time \cup {Never}]]
    <3>1. \/ retrieved' = retrieved
          \/ retrieved' = [retrieved EXCEPT ![e.agent][e.topic] = clock]
      BY DEF ToolHook
    <3>2. retrieved \in [Agents -> [Topics -> Time \cup {Never}]] /\ clock \in Time
      BY DEF IInv, TypeOK
    <3> HIDE DEF e
    <3> QED
      BY <1>4, <3>1, <3>2
  <2>5. /\ name' \in Inodes /\ tmp' \in Inodes \cup {NoInode}
        /\ content' \in [Inodes -> State \cup {Torn}]
        /\ pc' \in [Hooks -> PC]
        /\ after' \in [Hooks -> {"gone", "cover", "claim"}]
        /\ event' \in [Hooks -> Event] /\ memory' \in [Hooks -> State]
        /\ fd' \in [Hooks -> Inodes \cup {NoInode}]
        /\ events' \in 0..MaxEvents /\ overlap' \in BOOLEAN
    BY <1>2, <1>3, KeepTypes DEF IInv, Keeps
  <2> QED
    BY <1>1, <2>1, <2>2, <2>3, <2>4, <2>5 DEF TypeOK
<1>6. FdWhileWriting'
  BY <1>2, <1>3, KeepTypes DEF IInv, Keeps
<1>7. CoverEvents'
  BY <1>2, <1>3, KeepRest
<1>8. ClockBehind'
  <2>1. Compacting' \subseteq Compacting
    BY <1>2 DEF Keeps, Keep, Compacting, IInv, TypeOK
  <2>2. clock' = clock /\ events' = events
    BY <1>2 DEF ToolHook, Keeps, Keep
  <2> QED
    BY <2>1, <2>2, ClockStays DEF IInv
<1>9. NobodyCharged'
  BY <1>1, <1>2, KeepCharges DEF IInv, Keeps
<1> QED
  BY <1>5, <1>6, <1>7, <1>8, <1>9 DEF IInv

LEMMA QuietHookStep ==
  ASSUME IInv, NEW h \in Hooks,
         \/ CompactHook(h) \/ FailureHook(h) \/ CoverHook(h)
         \/ ClaimHook(h) /\ event[h].topic \notin Own(h).injected_topics
  PROVE  IInv'
<1>1. edits' = edits /\ \E s, next : Keeps(h, s, next)
  BY QuietHookKeeps
<1> DEFINE e == event[h]
<1>2. /\ pc[h] \in {"read", "cover", "claim"}
      /\ \E s, next : /\ Keeps(h, s, next)
                      /\ next \in {"cover", "claim"} => e.kind # "compact"
  <2>1. CASE CompactHook(h)
    <3>1. PICK s, next : Keeps(h, s, next)
      BY <1>1
    <3>2. /\ pc[h] = "read"
          /\ after' = [after EXCEPT ![h] = "gone"]
      BY <2>1 DEF CompactHook, Keep
    <3>3. after' = [after EXCEPT ![h] = next]
      BY <3>1 DEF Keeps, Keep
    <3>4. next = "gone"
      BY <3>2, <3>3 DEF IInv, TypeOK
    <3> QED
      BY <3>1, <3>2, <3>4
  <2>2. CASE FailureHook(h)
    BY <1>1, <2>2 DEF FailureHook
  <2>3. CASE CoverHook(h)
    BY <1>1, <2>3 DEF CoverHook, IInv, CoverEvents
  <2>4. CASE ClaimHook(h)
    BY <1>1, <2>4 DEF ClaimHook, IInv, CoverEvents
  <2> QED
    BY <2>1, <2>2, <2>3, <2>4
<1>3. PICK s, next : /\ Keeps(h, s, next)
                     /\ next \in {"cover", "claim"} => e.kind # "compact"
  BY <1>2
<1>4. e \in Event /\ e.agent \in Agents
  BY EventTypes DEF IInv, TypeOK
<1>5. events' = events
  BY <1>3 DEF Keeps, Keep
<1>6. ClockBehind' /\ clock' \in Time
  <2>1. CASE CompactHook(h)
    <3>1. h \in Compacting /\ Compacting' = Compacting \ {h}
      BY <1>3, <2>1 DEF CompactHook, Compacting, Keeps, Keep, IInv, TypeOK
    <3>2. Cardinality(Compacting') = Cardinality(Compacting) - 1
      BY <3>1, CompactingFinite, FS_RemoveElement
    <3>3. /\ clock \in Nat /\ events \in 0..MaxEvents /\ clock' = clock + 1
          /\ clock + Cardinality(Compacting) <= events
      BY <2>1, HookBoundAssumption DEF IInv, TypeOK, CompactHook, Time, ClockBehind
    <3> QED
      BY <1>5, <3>2, <3>3, CompactingFinite, HookBoundAssumption DEF ClockBehind, Time
  <2>2. CASE FailureHook(h) \/ CoverHook(h) \/ ClaimHook(h)
    <3>1. Compacting' \subseteq Compacting
      BY <1>3 DEF Keeps, Keep, Compacting, IInv, TypeOK
    <3>2. clock' = clock
      BY <2>2 DEF FailureHook, CoverHook, ClaimHook
    <3> QED
      BY <1>5, <3>1, <3>2, ClockStays DEF IInv, TypeOK
  <2> QED
    BY <2>1, <2>2
<1>7. TypeOK'
  <2>1. now' = now /\ streak' = streak /\ full' = full
    BY DEF CompactHook, FailureHook, CoverHook, ClaimHook
  <2>2. compacted' \in [Agents -> Time]
    <3>1. compacted' = compacted \/ compacted' = [compacted EXCEPT ![e.agent] = clock']
      BY DEF CompactHook, FailureHook, CoverHook, ClaimHook
    <3>2. compacted \in [Agents -> Time]
      BY DEF IInv, TypeOK
    <3> HIDE DEF e
    <3> QED
      BY <1>4, <1>6, <3>1, <3>2
  <2>3. retrieved' \in [Agents -> [Topics -> Time \cup {Never}]]
    <3>1. retrieved \in [Agents -> [Topics -> Time \cup {Never}]]
      BY DEF IInv, TypeOK
    <3>2. CASE CoverHook(h)
      <4> DEFINE t == IF e.kind = "failure" THEN now[h] ELSE clock
      <4>1. retrieved' = [retrieved EXCEPT ![e.agent][e.topic] = t]
        BY <3>2 DEF CoverHook
      <4>2. t \in Time
        BY DEF IInv, TypeOK
      <4>3. e.topic \in Topics
        BY <1>4, <3>2, EventTypes DEF CoverHook, IInv, CoverEvents
      <4> HIDE DEF e, t
      <4> QED
        BY <1>4, <3>1, <4>1, <4>2, <4>3
    <3>3. CASE ~CoverHook(h)
      BY <3>1, <3>3 DEF CompactHook, FailureHook, ClaimHook
    <3> QED
      BY <3>2, <3>3
  <2>4. /\ name' \in Inodes /\ tmp' \in Inodes \cup {NoInode}
        /\ content' \in [Inodes -> State \cup {Torn}]
        /\ pc' \in [Hooks -> PC]
        /\ after' \in [Hooks -> {"gone", "cover", "claim"}]
        /\ event' \in [Hooks -> Event] /\ memory' \in [Hooks -> State]
        /\ fd' \in [Hooks -> Inodes \cup {NoInode}]
        /\ events' \in 0..MaxEvents /\ overlap' \in BOOLEAN
    BY <1>2, <1>3, KeepTypes DEF IInv, Keeps
  <2> QED
    BY <1>1, <1>6, <2>1, <2>2, <2>3, <2>4 DEF IInv, TypeOK
<1>8. FdWhileWriting'
  BY <1>2, <1>3, KeepTypes DEF IInv, Keeps
<1>9. CoverEvents'
  BY <1>2, <1>3, KeepRest
<1>10. NobodyCharged'
  <2>1. edits' \in [Agents -> [Topics -> Nat]]
    BY <1>1 DEF IInv, TypeOK
  <2>2. EditsGrow
    <3> SUFFICES ASSUME NEW a \in Agents, NEW t \in Topics
                 PROVE  edits[a][t] <= edits'[a][t]
      BY DEF EditsGrow
    <3>1. edits[a][t] \in Nat
      BY DEF IInv, TypeOK
    <3> QED
      BY <1>1, <3>1
  <2> QED
    BY <1>3, <2>1, <2>2, KeepCharges DEF IInv, Keeps
<1> QED
  BY <1>6, <1>7, <1>8, <1>9, <1>10 DEF IInv

\* The material is already injected: the hook ends without writing.
LEMMA ClaimedStep ==
  ASSUME IInv, NEW h \in Hooks, ClaimHook(h),
         event[h].topic \in Own(h).injected_topics
  PROVE  IInv'
<1>1. /\ pc[h] = "claim" /\ pc' = [pc EXCEPT ![h] = "gone"]
      /\ UNCHANGED <<name, tmp, content, after, event, memory, fd, events, overlap>>
      /\ UNCHANGED <<now, clock, edits, streak, full, retrieved, compacted>>
  BY DEF ClaimHook, Own, fileVars
<1>2. TypeOK'
  BY <1>1 DEF IInv, TypeOK, PC
<1>3. FdWhileWriting' /\ CoverEvents'
  BY <1>1 DEF IInv, TypeOK, FdWhileWriting, CoverEvents
<1>4. Compacting' \subseteq Compacting
  BY <1>1 DEF Compacting, IInv, TypeOK
<1>5. ClockBehind'
  BY <1>1, <1>4, ClockStays DEF IInv
<1>6. NobodyCharged'
  BY <1>1 DEF IInv, NobodyCharged
<1> QED
  BY <1>2, <1>3, <1>5, <1>6 DEF IInv

----------------------------------------------------------------------------
(* Writing the file.                                                       *)

\* There are more inodes than hooks: a hook that opens the temporary name
\* finds a free one.
LEMMA FreeInode ==
  ASSUME IInv, NEW h \in Hooks, pc[h] = "open"
  PROVE  \E i \in Inodes : i \notin {name} \cup {fd[g] : g \in Hooks}
<1> SUFFICES ASSUME \A i \in Inodes : i \in {name} \cup {fd[g] : g \in Hooks}
             PROVE  FALSE
  OBVIOUS
<1>1. fd[h] = NoInode
  BY DEF IInv, FdWhileWriting
<1> DEFINE f == [g \in Hooks |-> IF fd[g] \in Inodes THEN fd[g] ELSE name]
<1>2. f \in [Hooks -> Inodes]
  BY DEF IInv, TypeOK
<1>3. \A i \in Inodes : \E g \in Hooks : f[g] = i
  <2> SUFFICES ASSUME NEW i \in Inodes PROVE \E g \in Hooks : f[g] = i
    OBVIOUS
  <2>1. CASE i = name
    BY <1>1, <2>1, Numbers
  <2>2. CASE i # name
    <3>1. PICK g \in Hooks : fd[g] = i
      BY <2>2
    <3> QED
      BY <3>1
  <2> QED
    BY <2>1, <2>2
<1>4. f \in Surjection(Hooks, Inodes)
  <2> HIDE DEF f
  <2> QED  BY <1>2, <1>3, Fun_IsSurj
<1>5. Cardinality(Inodes) <= Cardinality(Hooks)
  <2> HIDE DEF f
  <2> QED  BY <1>4, HookBoundAssumption, FS_Surjection
<1>6. Cardinality(Inodes) = Cardinality(Hooks) + 1
  BY Numbers, FS_Interval DEF Inodes
<1> QED
  BY <1>5, <1>6, Numbers

\* A step that moves a hook on with the file, and no history.
LEMMA FileStepCharges ==
  ASSUME IInv, edits' = edits,
         \A h \in Hooks : memory'[h] \in {memory[h], EmptyState},
         \A i \in Inodes : content'[i] = Torn \/ content'[i] = content[i]
                           \/ \E h \in Hooks : content'[i] = memory[h]
  PROVE  NobodyCharged'
<1>1. Uncharged(EmptyState, edits)
  BY EmptyUncharged DEF IInv
<1> QED
  BY <1>1 DEF IInv, NobodyCharged

LEMMA OpenTmpStep ==
  ASSUME IInv, NEW h \in Hooks, OpenTmp(h)
  PROVE  IInv'
<1> DEFINE free == Inodes \ ({name} \cup {fd[g] : g \in Hooks})
           inode == IF tmp # NoInode THEN tmp ELSE CHOOSE i \in free : TRUE
<1>1. pc[h] = "open" /\ pc' = [pc EXCEPT ![h] = "write"]
  BY DEF OpenTmp
<1>2. inode \in Inodes
  <2>1. (CHOOSE i \in free : TRUE) \in free
    BY <1>1, FreeInode
  <2> QED
    BY <2>1 DEF IInv, TypeOK
<1>3. /\ tmp' = inode /\ content' = [content EXCEPT ![inode] = Torn]
      /\ fd' = [fd EXCEPT ![h] = inode]
      /\ UNCHANGED <<name, after, event, memory, now, clock, events, history>>
  BY DEF OpenTmp
<1> HIDE DEF inode
<1>4. TypeOK'
  BY <1>1, <1>2, <1>3 DEF IInv, TypeOK, PC, history
<1>5. FdWhileWriting'
  BY <1>1, <1>2, <1>3 DEF IInv, TypeOK, FdWhileWriting
<1>6. CoverEvents'
  BY <1>1, <1>3 DEF IInv, TypeOK, CoverEvents
<1>7. ClockBehind'
  <2>1. Compacting' \subseteq Compacting
    BY <1>1, <1>3 DEF Compacting, IInv, TypeOK
  <2> QED
    BY <1>3, <2>1, ClockStays DEF IInv
<1>8. NobodyCharged'
  <2>1. /\ edits' = edits /\ \A g \in Hooks : memory'[g] \in {memory[g], EmptyState}
        /\ \A i \in Inodes : content'[i] = Torn \/ content'[i] = content[i]
    BY <1>3 DEF IInv, TypeOK, history
  <2> QED
    BY <2>1, FileStepCharges
<1> QED
  BY <1>4, <1>5, <1>6, <1>7, <1>8 DEF IInv

LEMMA WriteTmpStep ==
  ASSUME IInv, NEW h \in Hooks, WriteTmp(h)
  PROVE  IInv'
<1>1. /\ pc[h] = "write" /\ pc' = [pc EXCEPT ![h] = "rename"]
      /\ UNCHANGED <<name, tmp, after, event, memory, fd, now, clock, events, history>>
  BY DEF WriteTmp
<1>2. PICK text \in {memory[h], Torn} : content' = [content EXCEPT ![fd[h]] = text]
  BY DEF WriteTmp
<1>3. TypeOK'
  BY <1>1, <1>2 DEF IInv, TypeOK, PC, history
<1>4. FdWhileWriting'
  BY <1>1 DEF IInv, TypeOK, FdWhileWriting
<1>5. CoverEvents'
  BY <1>1 DEF IInv, TypeOK, CoverEvents
<1>6. ClockBehind'
  <2>1. Compacting' \subseteq Compacting
    BY <1>1 DEF Compacting, IInv, TypeOK
  <2> QED
    BY <1>1, <2>1, ClockStays DEF IInv
<1>7. NobodyCharged'
  <2>1. edits' = edits /\ \A g \in Hooks : memory'[g] \in {memory[g], EmptyState}
    BY <1>1 DEF history
  <2>2. \A i \in Inodes : content'[i] = Torn \/ content'[i] = content[i]
                          \/ \E g \in Hooks : content'[i] = memory[g]
    BY <1>2 DEF IInv, TypeOK
  <2> QED
    BY <2>1, <2>2, FileStepCharges
<1> QED
  BY <1>3, <1>4, <1>5, <1>6, <1>7 DEF IInv

LEMMA ReplaceStep ==
  ASSUME IInv, NEW h \in Hooks, Replace(h)
  PROVE  IInv'
<1>1. /\ pc[h] = "rename" /\ pc' = [pc EXCEPT ![h] = after[h]]
      /\ fd' = [fd EXCEPT ![h] = NoInode]
      /\ UNCHANGED <<clock, events, history>>
  BY DEF Replace
<1>2. name' \in Inodes /\ tmp' \in Inodes \cup {NoInode}
  BY DEF Replace, IInv, TypeOK
<1>3. content' = [i \in Inodes |->
                     IF i \in {name', tmp'} \cup {fd'[g] : g \in Hooks}
                     THEN content[i] ELSE Torn]
  BY DEF Replace
<1>4. /\ event' = [event EXCEPT ![h] = IF pc'[h] = "gone" THEN NoEvent ELSE event[h]]
      /\ now' = [now EXCEPT ![h] = IF pc'[h] = "gone" THEN 0 ELSE now[h]]
      /\ after' = [after EXCEPT ![h] = "gone"]
      /\ memory' = [memory EXCEPT ![h] = EmptyState]
  BY DEF Replace, Forget
<1>5. TypeOK'
  <2>1. pc' \in [Hooks -> PC]
    BY <1>1 DEF IInv, TypeOK, PC
  <2>2. fd' \in [Hooks -> Inodes \cup {NoInode}]
    BY <1>1 DEF IInv, TypeOK
  <2>3. content' \in [Inodes -> State \cup {Torn}]
    <3>1. content \in [Inodes -> State \cup {Torn}]
      BY DEF IInv, TypeOK
    <3> QED
      BY <1>3, <3>1
  <2>4. event' \in [Hooks -> Event]
    BY <1>4, NoEventType DEF IInv, TypeOK
  <2>5. now' \in [Hooks -> Time]
    BY <1>4, HookBoundAssumption DEF IInv, TypeOK, Time
  <2>6. after' \in [Hooks -> {"gone", "cover", "claim"}]
    BY <1>4 DEF IInv, TypeOK
  <2>7. memory' \in [Hooks -> State]
    BY <1>4, EmptyStateType DEF IInv, TypeOK
  <2> QED
    BY <1>1, <1>2, <2>1, <2>2, <2>3, <2>4, <2>5, <2>6, <2>7
       DEF IInv, TypeOK, history
<1>6. FdWhileWriting'
  BY <1>1 DEF IInv, TypeOK, FdWhileWriting
<1>7. CoverEvents'
  <2> SUFFICES ASSUME NEW g \in Hooks
               PROVE  /\ pc'[g] \in {"cover", "claim"} => event'[g].kind # "compact"
                      /\ after'[g] \in {"cover", "claim"} => event'[g].kind # "compact"
                      /\ pc'[g] \notin {"open", "write", "rename"} => after'[g] = "gone"
    BY DEF CoverEvents
  <2>1. /\ pc \in [Hooks -> PC] /\ event \in [Hooks -> Event]
        /\ after \in [Hooks -> {"gone", "cover", "claim"}]
    BY DEF IInv, TypeOK
  <2>2. CASE g = h
    BY <1>1, <1>4, <2>1, <2>2 DEF IInv, CoverEvents
  <2>3. CASE g # h
    BY <1>1, <1>4, <2>1, <2>3 DEF IInv, CoverEvents
  <2> QED
    BY <2>2, <2>3
<1>8. ClockBehind'
  <2>1. Compacting' \subseteq Compacting
    <3>1. /\ pc \in [Hooks -> PC] /\ event \in [Hooks -> Event]
          /\ after[h] # "read"
      BY DEF IInv, TypeOK
    <3> QED
      BY <1>1, <1>4, <3>1 DEF Compacting
  <2> QED
    BY <1>1, <2>1, ClockStays DEF IInv
<1>9. NobodyCharged'
  <2>1. edits' = edits
    BY <1>1 DEF history
  <2>2. \A g \in Hooks : memory'[g] \in {memory[g], EmptyState}
    BY <1>4 DEF IInv, TypeOK
  <2>3. \A i \in Inodes : content'[i] = Torn \/ content'[i] = content[i]
    BY <1>3
  <2> QED
    BY <2>1, <2>2, <2>3, FileStepCharges
<1> QED
  BY <1>5, <1>6, <1>7, <1>8, <1>9 DEF IInv

----------------------------------------------------------------------------
(* Theorems.                                                               *)

LEMMA InitHolds == Init => IInv
<1> SUFFICES ASSUME Init PROVE IInv
  OBVIOUS
<1>1. TypeOK
  <2>1. /\ name \in Inodes /\ tmp \in Inodes \cup {NoInode}
        /\ content \in [Inodes -> State \cup {Torn}]
    BY Numbers, EmptyStateType DEF Init
  <2>2. /\ pc \in [Hooks -> PC] /\ after \in [Hooks -> {"gone", "cover", "claim"}]
        /\ event \in [Hooks -> Event] /\ memory \in [Hooks -> State]
        /\ fd \in [Hooks -> Inodes \cup {NoInode}] /\ now \in [Hooks -> Time]
    BY EmptyStateType, NoEventType, HookBoundAssumption DEF Init, PC, Time
  <2>3. /\ clock \in Time /\ events \in 0..MaxEvents
        /\ streak \in [Agents -> Nat]
        /\ compacted \in [Agents -> Time] /\ overlap \in BOOLEAN
    <3>1. 0 \in Time /\ 0 \in 0..MaxEvents
      BY HookBoundAssumption DEF Time
    <3>2. /\ clock = 0 /\ events = 0 /\ streak = [a \in Agents |-> 0]
          /\ compacted = [a \in Agents |-> 0] /\ overlap = FALSE
      BY DEF Init
    <3> QED
      BY <3>1, <3>2
  <2>4. retrieved \in [Agents -> [Topics -> Time \cup {Never}]]
    BY DEF Init
  <2>5. /\ edits \in [Agents -> [Topics -> Nat]]
        /\ full \in [Agents -> [{"warn", "gap"} -> Nat]]
    BY DEF Init
  <2> QED
    BY <2>1, <2>2, <2>3, <2>4, <2>5 DEF TypeOK
<1>2. FdWhileWriting /\ CoverEvents
  BY DEF Init, FdWhileWriting, CoverEvents
<1>3. ClockBehind
  <2>1. Compacting = {}
    BY DEF Init, Compacting
  <2> QED
    BY <2>1, FS_EmptySet DEF Init, ClockBehind
<1>4. NobodyCharged
  <2>1. Uncharged(EmptyState, edits)
    BY <1>1, EmptyUncharged
  <2> QED
    BY <2>1 DEF Init, NobodyCharged
<1> QED
  BY <1>1, <1>2, <1>3, <1>4 DEF IInv

LEMMA NextKeeps == IInv /\ [Next]_vars => IInv'
<1> SUFFICES ASSUME IInv, [Next]_vars PROVE IInv'
  OBVIOUS
<1>1. ASSUME NEW h \in Hooks, Step(h) PROVE IInv'
  <2>1. CASE ClaimHook(h)
    BY <2>1, ClaimedStep, QuietHookStep
  <2> QED
    BY <1>1, <2>1, ToolHookStep, QuietHookStep, OpenTmpStep, WriteTmpStep, ReplaceStep
       DEF Step
<1>2. ASSUME NEW h \in Hooks, NEW e \in Event, Fire(h, e) PROVE IInv'
  BY <1>2, FireStep
<1>3. CASE UNCHANGED vars
  <2>1. /\ UNCHANGED <<name, tmp, content, pc, after, event, memory, fd, now>>
        /\ UNCHANGED <<clock, events, edits, streak, full, retrieved, compacted, overlap>>
    BY <1>3 DEF vars, fileVars, procVars, history
  <2>2. TypeOK' /\ FdWhileWriting' /\ CoverEvents' /\ NobodyCharged'
    BY <2>1 DEF IInv, TypeOK, FdWhileWriting, CoverEvents, NobodyCharged
  <2>3. Compacting' \subseteq Compacting
    BY <2>1 DEF Compacting
  <2> QED
    BY <2>1, <2>2, <2>3, ClockStays DEF IInv
<1> QED
  BY <1>1, <1>2, <1>3 DEF Next

\* The inductive invariant of the hooks, for any number of agents, hook
\* processes and topics and any thresholds.
THEOREM HooksInvariant == Spec => []IInv
<1> QED
  BY InitHolds, NextKeeps, PTL DEF Spec

\* The state file is never missing (a name always stands for one of the inodes),
\* and what it holds, is written to it or is held by a hook is a state or torn
\* (mcp_enforcement.py, _load_state and _save_state).
THEOREM FileIsThere == Spec => []TypeOK
<1>1. IInv => TypeOK
  BY DEF IInv
<1> QED
  BY <1>1, HooksInvariant, PTL

\* Whatever updates hooks lose to each other, no agent is charged with an edit
\* it did not make (mcp_enforcement.py, _agent_key; issue #144).
THEOREM NobodyIsCharged == Spec => []NeverChargedForOthers
<1>1. IInv => NeverChargedForOthers
  <2> SUFFICES ASSUME IInv, NEW a \in Agents, NEW s \in Entries(a)
               PROVE  /\ s.fixation_run > 0 =>
                             s.fixation_run <= edits[a][s.fixation_locus]
                      /\ \A t \in Topics : s.edited_files[t] <= edits[a][t]
    BY DEF NeverChargedForOthers
  <2>1. Clean(s, edits[a])
    BY DEF Entries, IInv, NobodyCharged, Uncharged
  <2> QED
    BY <2>1 DEF Clean
<1> QED
  BY <1>1, HooksInvariant, PTL

----------------------------------------------------------------------------
(* Without overlap.                                                        *)

\* An entry holds exactly the calls n, edits ed, lookups r, compaction c and
\* full notices f of its agent.
ExactEntry(s, n, ed, r, c, f) ==
    /\ s.builtin_calls = n /\ s.edited_files = ed
    /\ s.covered_topics = r /\ s.last_compaction_at = c
    /\ s.warn_emitted <=> f["warn"] = 1
    /\ s.gap_emitted <=> f["gap"] = 1

\* A streak of n calls has been met with the full notices f, as it should.
NoticesOK(n, f) ==
    /\ f["warn"] \in 0..1 /\ f["gap"] \in 0..1
    /\ n >= Warn => f["warn"] = 1 \/ f["gap"] = 1

\* The fields of an entry that ExactEntry is about, the edits apart.
SameMarks(d, s) ==
    /\ d.builtin_calls = s.builtin_calls /\ d.covered_topics = s.covered_topics
    /\ d.last_compaction_at = s.last_compaction_at
    /\ d.warn_emitted = s.warn_emitted /\ d.gap_emitted = s.gap_emitted

LEMMA ResetMarks ==
  ASSUME NEW s \in Entry
  PROVE  LET d == Reset(s) IN
         /\ d.builtin_calls = 0 /\ d.covered_topics = s.covered_topics
         /\ d.last_compaction_at = s.last_compaction_at
         /\ ~d.warn_emitted /\ ~d.gap_emitted
BY DEF Reset, Entry

LEMMA CountedMarks ==
  ASSUME NEW s \in Entry, NEW e
  PROVE  LET d == Counted(s, e) IN
         /\ d.builtin_calls = s.builtin_calls + 1
         /\ d.covered_topics = s.covered_topics
         /\ d.last_compaction_at = s.last_compaction_at
         /\ d.warn_emitted = s.warn_emitted /\ d.gap_emitted = s.gap_emitted
BY DEF Counted, Entry

LEMMA DecideMarks ==
  ASSUME NEW s \in Entry, NEW e \in ToolEvent
  PROVE  LET d == Decide(s, e)
             notice == Notice(Counted(s, e), e)
         IN
         /\ d.covered_topics = s.covered_topics
         /\ d.last_compaction_at = s.last_compaction_at
         /\ d.builtin_calls = IF Looks(e) THEN 0 ELSE s.builtin_calls + 1
         /\ d.gap_emitted <=> ~Looks(e) /\ (s.gap_emitted \/ notice = "gap")
         /\ d.warn_emitted <=> ~Looks(e) /\ (s.warn_emitted \/ notice = "warn")
<1>1. CASE Looks(e)
  BY <1>1, ResetMarks DEF Decide
<1>2. CASE ~Looks(e)
  <2> DEFINE c == Counted(s, e)
             gap == c.gap_emitted \/ Notice(c, e) = "gap"
             warn == c.warn_emitted \/ Notice(c, e) = "warn"
             d1 == [c EXCEPT !.gap_emitted = gap]
             d2 == [d1 EXCEPT !.warn_emitted = warn]
  <2>1. c \in Entry
    BY CountedType
  <2>2. gap \in BOOLEAN /\ warn \in BOOLEAN
    OBVIOUS
  <2>3. d1 \in Entry
    <3> HIDE DEF c, gap
    <3> QED  BY <2>1, <2>2, FieldTypes
  <2>4. /\ d1.builtin_calls = c.builtin_calls /\ d1.covered_topics = c.covered_topics
        /\ d1.last_compaction_at = c.last_compaction_at /\ d1.gap_emitted = gap
    <3> HIDE DEF c, gap
    <3> QED  BY <2>1 DEF Entry
  <2>5. /\ d2.builtin_calls = d1.builtin_calls /\ d2.covered_topics = d1.covered_topics
        /\ d2.last_compaction_at = d1.last_compaction_at
        /\ d2.gap_emitted = d1.gap_emitted /\ d2.warn_emitted = warn
    <3> HIDE DEF c, gap, warn, d1
    <3> QED  BY <2>3 DEF Entry
  <2>6. d2 = Decide(s, e)
    <3>1. Decide(s, e) =
            [c EXCEPT !.gap_emitted = c.gap_emitted \/ Notice(c, e) = "gap",
                      !.warn_emitted = c.warn_emitted \/ Notice(c, e) = "warn"]
      BY <1>2, Zenon DEF Decide
    <3> QED  BY <3>1, Zenon
  <2>7. /\ c.builtin_calls = s.builtin_calls + 1
        /\ c.covered_topics = s.covered_topics
        /\ c.last_compaction_at = s.last_compaction_at
        /\ c.warn_emitted = s.warn_emitted /\ c.gap_emitted = s.gap_emitted
    BY CountedMarks
  <2>8. (gap <=> s.gap_emitted \/ Notice(c, e) = "gap")
        /\ (warn <=> s.warn_emitted \/ Notice(c, e) = "warn")
    BY <2>7, Zenon
  <2>9. /\ (d2.gap_emitted <=> s.gap_emitted \/ Notice(c, e) = "gap")
        /\ (d2.warn_emitted <=> s.warn_emitted \/ Notice(c, e) = "warn")
    <3> HIDE DEF c, gap, warn, d1, d2
    <3> QED  BY <2>4, <2>5, <2>8, Zenon
  <2>10. /\ d2.builtin_calls = s.builtin_calls + 1 /\ d2.covered_topics = s.covered_topics
         /\ d2.last_compaction_at = s.last_compaction_at
    <3> HIDE DEF c, gap, warn, d1, d2
    <3> QED  BY <2>4, <2>5, <2>7
  <2> HIDE DEF c, d1, d2
  <2>11. /\ Decide(s, e).builtin_calls = s.builtin_calls + 1
         /\ Decide(s, e).covered_topics = s.covered_topics
         /\ Decide(s, e).last_compaction_at = s.last_compaction_at
         /\ (Decide(s, e).gap_emitted <=> s.gap_emitted \/ Notice(c, e) = "gap")
         /\ (Decide(s, e).warn_emitted <=> s.warn_emitted \/ Notice(c, e) = "warn")
    BY <2>6, <2>9, <2>10
  <2> QED
    BY <1>2, <2>11, Zenon DEF c
<1> QED
  BY <1>1, <1>2

LEMMA RecordMarks ==
  ASSUME NEW s \in Entry, NEW topic \in Topics, NEW t \in Time
  PROVE  LET d == RecordTopic(s, topic, t) IN
         /\ d.builtin_calls = s.builtin_calls
         /\ d.covered_topics = [s.covered_topics EXCEPT ![topic] = t]
         /\ d.last_compaction_at = s.last_compaction_at
         /\ d.warn_emitted = s.warn_emitted /\ d.gap_emitted = s.gap_emitted
BY DEF RecordTopic, Entry

LEMMA FixationMarks ==
  ASSUME NEW s \in Entry, NEW e
  PROVE  SameMarks(FixationCheck(s, e), s)
<1>1. CASE Mutates(e)
  BY <1>1 DEF FixationCheck, SameMarks, Entry
<1>2. CASE ~Mutates(e)
  BY <1>2 DEF FixationCheck, SameMarks
<1> QED
  BY <1>1, <1>2

LEMMA MetricsMarks ==
  ASSUME NEW s \in Entry, NEW e
  PROVE  SameMarks(AccumulateMetrics(s, e), s)
BY DEF AccumulateMetrics, SameMarks, Entry

LEMMA NoticeFacts ==
  ASSUME NEW c, NEW e, ~Looks(e)
  PROVE  /\ Notice(c, e) = "gap" => ~c.gap_emitted
         /\ Notice(c, e) = "warn" => ~c.warn_emitted
         /\ c.builtin_calls >= Warn =>
               \/ Notice(c, e) \in {"gap", "warn"} \/ c.gap_emitted \/ c.warn_emitted
<1>1. CASE AtGap(c, e)
  <2>1. ~AtWarning(c, e)
    BY <1>1 DEF AtWarning
  <2>2. Notice(c, e) = IF c.gap_emitted THEN "short gap" ELSE "gap"
    BY <1>1, <2>1 DEF Notice
  <2> QED
    BY <2>2
<1>2. CASE ~AtGap(c, e) /\ AtWarning(c, e) /\ ~c.warn_emitted
  <2>1. Notice(c, e) = "warn"
    BY <1>2 DEF Notice
  <2> QED
    BY <1>2, <2>1
<1>3. CASE ~AtGap(c, e) /\ AtWarning(c, e) /\ c.warn_emitted
  <2>1. Notice(c, e) \in {"reminder", "none"}
    BY <1>3 DEF Notice
  <2> QED
    BY <1>3, <2>1
<1>4. CASE ~AtGap(c, e) /\ ~AtWarning(c, e)
  <2>1. Notice(c, e) = "none"
    BY <1>4 DEF Notice
  <2>2. ~(c.builtin_calls >= Warn)
    BY <1>4 DEF AtWarning
  <2> QED
    BY <2>1, <2>2
<1> QED
  BY <1>1, <1>2, <1>3, <1>4

\* What a tool event makes of an exact entry, beside the edits.
LEMMA ToolMarks ==
  ASSUME NEW s \in Entry, NEW e \in ToolEvent, NEW t \in Time
  PROVE  LET d == PreToolUse(s, e, t)
             notice == Notice(Counted(s, e), e)
         IN
         /\ d.covered_topics =
               IF e.tool = "search" \/ GateLooks(Decide(s, e), e)
               THEN [s.covered_topics EXCEPT ![e.topic] = t] ELSE s.covered_topics
         /\ d.last_compaction_at = s.last_compaction_at
         /\ d.builtin_calls = IF Looks(e) THEN 0 ELSE s.builtin_calls + 1
         /\ d.gap_emitted <=> ~Looks(e) /\ (s.gap_emitted \/ notice = "gap")
         /\ d.warn_emitted <=> ~Looks(e) /\ (s.warn_emitted \/ notice = "warn")
<1> DEFINE d1 == Decide(s, e)
           d2 == Observe(d1, e, t)
           d3 == Gate(d2, e, t)
           d4 == FixationCheck(d3, e)
           d5 == AccumulateMetrics(d4, e)
<1>0. e.topic \in Topics
  BY DEF ToolEvent
<1>1. d1 \in Entry
  BY DecideType
<1>2. d2 \in Entry /\ d3 \in Entry
  <2> HIDE DEF d1
  <2>1. d2 \in Entry
    BY <1>0, <1>1, RecordType DEF Observe
  <2> HIDE DEF d2
  <2> QED  BY <1>0, <2>1, RecordType DEF Gate
<1>3. d4 \in Entry
  <2> HIDE DEF d3
  <2> QED  BY <1>2, FixationType
<1>4. /\ d3.builtin_calls = d1.builtin_calls
      /\ d3.last_compaction_at = d1.last_compaction_at
      /\ d3.warn_emitted = d1.warn_emitted /\ d3.gap_emitted = d1.gap_emitted
      /\ d3.covered_topics =
            IF e.tool = "search" \/ GateLooks(d1, e)
            THEN [d1.covered_topics EXCEPT ![e.topic] = t] ELSE d1.covered_topics
  <2> HIDE DEF d1
  <2>1. CASE e.tool = "search"
    <3>1. d2 = RecordTopic(d1, e.topic, t) /\ d3 = d2
      BY <2>1 DEF Observe, Gate, GateLooks, Consequential
    <3> HIDE DEF d2, d3
    <3> QED
      BY <1>0, <1>1, <2>1, <3>1, RecordMarks
  <2>2. CASE e.tool # "search" /\ GateLooks(d1, e)
    <3>1. d3 = RecordTopic(d1, e.topic, t)
      BY <2>2 DEF Observe, Gate
    <3> HIDE DEF d2, d3
    <3> QED
      BY <1>0, <1>1, <2>2, <3>1, RecordMarks
  <2>3. CASE e.tool # "search" /\ ~GateLooks(d1, e)
    <3>1. d3 = d1
      BY <2>3 DEF Observe, Gate
    <3> HIDE DEF d2, d3
    <3> QED
      BY <2>3, <3>1
  <2> QED
    BY <2>1, <2>2, <2>3
<1>5. SameMarks(d4, d3) /\ SameMarks(d5, d4)
  <2> HIDE DEF d1, d2, d3
  <2> QED  BY <1>2, <1>3, FixationMarks, MetricsMarks
<1>6. /\ d1.covered_topics = s.covered_topics
      /\ d1.last_compaction_at = s.last_compaction_at
      /\ d1.builtin_calls = IF Looks(e) THEN 0 ELSE s.builtin_calls + 1
      /\ d1.gap_emitted <=> ~Looks(e) /\ (s.gap_emitted \/ Notice(Counted(s, e), e) = "gap")
      /\ d1.warn_emitted <=> ~Looks(e) /\ (s.warn_emitted \/ Notice(Counted(s, e), e) = "warn")
  BY DecideMarks
<1>7. d5 = PreToolUse(s, e, t)
  BY DEF PreToolUse
<1>8. /\ d5.gap_emitted = d1.gap_emitted /\ d5.warn_emitted = d1.warn_emitted
      /\ d5.builtin_calls = d1.builtin_calls
      /\ d5.last_compaction_at = d1.last_compaction_at
      /\ d5.covered_topics = d3.covered_topics
  <2> HIDE DEF d1, d2, d3, d4, d5
  <2> QED  BY <1>4, <1>5 DEF SameMarks
<1>9. /\ d5.covered_topics =
            IF e.tool = "search" \/ GateLooks(d1, e)
            THEN [s.covered_topics EXCEPT ![e.topic] = t] ELSE s.covered_topics
      /\ d5.last_compaction_at = s.last_compaction_at
      /\ d5.builtin_calls = IF Looks(e) THEN 0 ELSE s.builtin_calls + 1
  <2> HIDE DEF d1, d2, d3, d4, d5
  <2> QED  BY <1>4, <1>6, <1>8
<1>10. /\ d5.gap_emitted <=> ~Looks(e) /\ (s.gap_emitted \/ Notice(Counted(s, e), e) = "gap")
       /\ d5.warn_emitted <=> ~Looks(e) /\ (s.warn_emitted \/ Notice(Counted(s, e), e) = "warn")
  <2> HIDE DEF d1, d2, d3, d4, d5
  <2> QED  BY <1>6, <1>8, Zenon
<1> HIDE DEF d2, d3, d4, d5
<1> QED
  BY <1>7, <1>9, <1>10, Zenon

\* What a tool event does to its agent's edits, calls, lookups and notices.
EditsAfter(e, ed) ==
    [ed EXCEPT ![e.topic] = IF Mutates(e) THEN ed[e.topic] + 1 ELSE ed[e.topic]]
StreakAfter(e, n) == IF Looks(e) THEN 0 ELSE n + 1
LookupsAfter(s, e, r, t) ==
    IF e.tool = "search" \/ GateLooks(Decide(s, e), e)
    THEN [r EXCEPT ![e.topic] = t] ELSE r
FullAfter(s, e, f) ==
    [m \in {"warn", "gap"} |->
        IF Looks(e) THEN 0
        ELSE IF m = Notice(Counted(s, e), e) THEN f[m] + 1 ELSE f[m]]

\* A tool event keeps an entry exact and its streak met with notices.
LEMMA ToolExact ==
  ASSUME NEW s \in Entry, NEW e \in ToolEvent, NEW t \in Time,
         NEW n \in Nat, NEW ed \in [Topics -> Nat],
         NEW r \in [Topics -> Time \cup {Never}], NEW c,
         NEW f \in [{"warn", "gap"} -> Nat],
         ExactEntry(s, n, ed, r, c, f), NoticesOK(n, f)
  PROVE  /\ ExactEntry(PreToolUse(s, e, t), StreakAfter(e, n), EditsAfter(e, ed),
                       LookupsAfter(s, e, r, t), c, FullAfter(s, e, f))
         /\ NoticesOK(StreakAfter(e, n), FullAfter(s, e, f))
<1> DEFINE n2 == StreakAfter(e, n)
           ed2 == EditsAfter(e, ed)
           r2 == LookupsAfter(s, e, r, t)
           f2 == FullAfter(s, e, f)
<1> DEFINE d == PreToolUse(s, e, t)
           k == Counted(s, e)
           notice == Notice(k, e)
<1>1. /\ d.covered_topics =
            IF e.tool = "search" \/ GateLooks(Decide(s, e), e)
            THEN [s.covered_topics EXCEPT ![e.topic] = t] ELSE s.covered_topics
      /\ d.last_compaction_at = s.last_compaction_at
      /\ d.builtin_calls = IF Looks(e) THEN 0 ELSE s.builtin_calls + 1
      /\ d.gap_emitted <=> ~Looks(e) /\ (s.gap_emitted \/ notice = "gap")
      /\ d.warn_emitted <=> ~Looks(e) /\ (s.warn_emitted \/ notice = "warn")
  BY ToolMarks
<1>2. /\ d \in Entry
      /\ \A x \in Topics : d.edited_files[x] =
            IF Mutates(e) /\ x = e.topic THEN s.edited_files[x] + 1
            ELSE s.edited_files[x]
  BY PreToolUseType
<1>3. /\ s.builtin_calls = n /\ s.edited_files = ed
      /\ s.covered_topics = r /\ s.last_compaction_at = c
      /\ s.warn_emitted <=> f["warn"] = 1
      /\ s.gap_emitted <=> f["gap"] = 1
  BY DEF ExactEntry
<1>4. k.gap_emitted = s.gap_emitted /\ k.warn_emitted = s.warn_emitted
      /\ k.builtin_calls = n + 1
  BY <1>3, CountedMarks
<1>5. ~Looks(e) =>
         /\ notice = "gap" => ~s.gap_emitted
         /\ notice = "warn" => ~s.warn_emitted
         /\ n + 1 >= Warn => notice \in {"gap", "warn"} \/ s.gap_emitted \/ s.warn_emitted
  <2> HIDE DEF k
  <2> QED  BY <1>4, NoticeFacts
<1> HIDE DEF d, k, notice, n2, ed2, r2, f2
<1>6. d.edited_files = ed2
  <2>1. d.edited_files \in [Topics -> Nat]
    BY <1>2 DEF Entry
  <2>2. ed2 \in [Topics -> Nat]
    BY DEF ToolEvent, ed2, EditsAfter
  <2>3. \A x \in Topics : d.edited_files[x] = ed2[x]
    BY <1>2, <1>3 DEF ed2, EditsAfter
  <2> QED
    BY <2>1, <2>2, <2>3
<1>7. d.covered_topics = r2 /\ d.last_compaction_at = c /\ d.builtin_calls = n2
  BY <1>1, <1>3 DEF r2, LookupsAfter, n2, StreakAfter
<1>8. /\ f2["warn"] = IF Looks(e) THEN 0
                      ELSE IF notice = "warn" THEN f["warn"] + 1 ELSE f["warn"]
      /\ f2["gap"] = IF Looks(e) THEN 0
                     ELSE IF notice = "gap" THEN f["gap"] + 1 ELSE f["gap"]
  BY DEF notice, k, f2, FullAfter
<1>9. CASE Looks(e)
  <2>1. NoticesOK(n2, f2)
    BY <1>8, <1>9, ThresholdAssumption DEF NoticesOK, n2, StreakAfter
  <2>2. /\ d.warn_emitted <=> f2["warn"] = 1
        /\ d.gap_emitted <=> f2["gap"] = 1
    BY <1>1, <1>8, <1>9
  <2> QED
    BY <1>6, <1>7, <2>1, <2>2 DEF ExactEntry, d, n2, ed2, r2, f2
<1>10. CASE ~Looks(e)
  <2>1. /\ f["warn"] \in 0..1 /\ f["gap"] \in 0..1
    BY DEF NoticesOK
  <2>2. f["warn"] = 0 \/ f["warn"] = 1
    BY <2>1
  <2>3. f["gap"] = 0 \/ f["gap"] = 1
    BY <2>1
  <2>4. /\ d.warn_emitted <=> f2["warn"] = 1
        /\ f2["warn"] \in 0..1
        /\ s.warn_emitted \/ notice = "warn" => f2["warn"] = 1
    BY <1>1, <1>3, <1>5, <1>8, <1>10, <2>2
  <2>5. /\ d.gap_emitted <=> f2["gap"] = 1
        /\ f2["gap"] \in 0..1
        /\ s.gap_emitted \/ notice = "gap" => f2["gap"] = 1
    BY <1>1, <1>3, <1>5, <1>8, <1>10, <2>3
  <2>6. NoticesOK(n2, f2)
    BY <1>5, <1>10, <2>4, <2>5 DEF NoticesOK, n2, StreakAfter
  <2> QED
    BY <1>6, <1>7, <2>4, <2>5, <2>6 DEF ExactEntry, d, n2, ed2, r2, f2
<1> QED
  BY <1>9, <1>10

\* A state holds exactly what has happened to every agent.
Exactly(st, S, E, R, C, F) ==
    \A a \in Agents : ExactEntry(EntryOf(st, a), S[a], E[a], R[a], C[a], F[a])

\* As long as hooks have not overlapped, one hook at most is between reading
\* and renaming; it holds the exact state and has the temporary name for
\* itself, and without such a hook the file at rest is exact.
Alone ==
    ~overlap =>
        /\ \A a \in Agents : NoticesOK(streak[a], full[a])
        /\ content[name] # Torn
        /\ \A g, h \in Hooks : InCycle(g) /\ InCycle(h) => g = h
        /\ (\A h \in Hooks : ~InCycle(h)) =>
              /\ tmp = NoInode
              /\ Exactly(content[name], streak, edits, retrieved, compacted, full)
        /\ \A h \in Hooks : InCycle(h) =>
              /\ Exactly(memory[h], streak, edits, retrieved, compacted, full)
              /\ pc[h] = "open" => tmp = NoInode
              /\ pc[h] \in {"write", "rename"} => tmp = fd[h] /\ fd[h] # name
              /\ pc[h] = "write" => content[fd[h]] = Torn
              /\ pc[h] = "rename" => content[fd[h]] = memory[h]

EInv == IInv /\ Alone

\* What a hook reads when it keeps its entry without overlapping.
LEMMA OwnExact ==
  ASSUME EInv, NEW h \in Hooks, NEW s, NEW next, Keep(h, s, next),
         pc[h] \in {"read", "cover", "claim"}, ~overlap'
  PROVE  /\ ~overlap /\ \A g \in Hooks : ~InCycle(g)
         /\ tmp = NoInode /\ ReadState = content[name]
         /\ Exactly(ReadState, streak, edits, retrieved, compacted, full)
         /\ LET k == event[h].agent IN
            /\ ExactEntry(Own(h), streak[k], edits[k], retrieved[k], compacted[k], full[k])
            /\ NoticesOK(streak[k], full[k])
<1>1. ~overlap /\ \A g \in Hooks \ {h} : ~InCycle(g)
  BY DEF Keep, Overlaps
<1>2. ~InCycle(h)
  BY DEF InCycle
<1>3. \A g \in Hooks : ~InCycle(g)
  BY <1>1, <1>2
<1>4. /\ tmp = NoInode /\ content[name] # Torn
      /\ Exactly(content[name], streak, edits, retrieved, compacted, full)
      /\ \A a \in Agents : NoticesOK(streak[a], full[a])
  BY <1>1, <1>3 DEF EInv, Alone
<1>5. ReadState = content[name]
  BY <1>4 DEF ReadState
<1>6. event[h].agent \in Agents
  BY EventTypes DEF EInv, IInv, TypeOK
<1> QED
  BY <1>1, <1>3, <1>4, <1>5, <1>6 DEF Own, AgentKey, Exactly

LEMMA ReplaceExact ==
  ASSUME NEW st \in State, NEW k \in Agents, NEW s \in Entry,
         NEW S, NEW E, NEW R, NEW C, NEW F,
         NEW S2, NEW E2, NEW R2, NEW C2, NEW F2,
         Exactly(st, S, E, R, C, F),
         \A a \in Agents \ {k} : /\ S2[a] = S[a] /\ E2[a] = E[a] /\ R2[a] = R[a]
                                 /\ C2[a] = C[a] /\ F2[a] = F[a],
         ExactEntry(s, S2[k], E2[k], R2[k], C2[k], F2[k])
  PROVE  Exactly([st EXCEPT ![k] = s], S2, E2, R2, C2, F2)
<1> DEFINE new == [st EXCEPT ![k] = s]
<1> SUFFICES ASSUME NEW a \in Agents
             PROVE  ExactEntry(EntryOf(new, a), S2[a], E2[a], R2[a], C2[a], F2[a])
  BY DEF Exactly
<1>1. CASE a = k
  <2>1. EntryOf(new, a) = s
    BY <1>1, EntryAssumption DEF EntryOf, State
  <2> QED
    BY <1>1, <2>1
<1>2. CASE a # k
  <2>1. EntryOf(new, a) = EntryOf(st, a)
    BY <1>2 DEF EntryOf, State
  <2>2. ExactEntry(EntryOf(st, a), S[a], E[a], R[a], C[a], F[a])
    BY DEF Exactly
  <2> HIDE DEF new
  <2> QED
    BY <1>2, <2>1, <2>2
<1> QED
  BY <1>1, <1>2

\* A hook that keeps an exact entry stays alone.
LEMMA KeepExact ==
  ASSUME EInv, NEW h \in Hooks, NEW s \in Entry, NEW next, Keep(h, s, next),
         pc[h] \in {"read", "cover", "claim"},
         NEW k, k = event[h].agent,
         \A a \in Agents \ {k} :
             /\ streak'[a] = streak[a] /\ edits'[a] = edits[a]
             /\ retrieved'[a] = retrieved[a] /\ compacted'[a] = compacted[a]
             /\ full'[a] = full[a],
         ~overlap' =>
             /\ ExactEntry(s, streak'[k], edits'[k], retrieved'[k], compacted'[k], full'[k])
             /\ NoticesOK(streak'[k], full'[k])
  PROVE  Alone'
<1> SUFFICES ASSUME ~overlap' PROVE Alone'
  BY DEF Alone
<1>1. /\ ~overlap /\ \A g \in Hooks : ~InCycle(g)
      /\ tmp = NoInode /\ ReadState = content[name]
      /\ Exactly(ReadState, streak, edits, retrieved, compacted, full)
  BY OwnExact
<1>2. k \in Agents /\ ReadState \in State /\ content[name] # Torn
  BY <1>1, EventTypes, ReadStateType DEF EInv, IInv, TypeOK, Alone
<1>3. /\ memory' = [memory EXCEPT ![h] = [ReadState EXCEPT ![k] = s]]
      /\ pc' = [pc EXCEPT ![h] = "open"]
      /\ name' = name /\ tmp' = tmp /\ content' = content
  BY DEF Keep, AgentKey, fileVars
<1>4. Exactly([ReadState EXCEPT ![k] = s], streak', edits', retrieved', compacted', full')
  BY <1>1, <1>2, ReplaceExact
<1>5. memory'[h] = [ReadState EXCEPT ![k] = s] /\ pc'[h] = "open"
  BY <1>3 DEF EInv, IInv, TypeOK
<1>6. \A g \in Hooks : InCycle(g)' <=> g = h
  BY <1>1, <1>3, <1>5 DEF InCycle, EInv, IInv, TypeOK
<1>7. \A a \in Agents : NoticesOK(streak'[a], full'[a])
  <2>1. \A a \in Agents : NoticesOK(streak[a], full[a])
    BY <1>1 DEF EInv, Alone
  <2> QED
    BY <2>1
<1>8. content'[name'] # Torn /\ tmp' = NoInode
  BY <1>1, <1>2, <1>3
<1>9. Exactly(memory'[h], streak', edits', retrieved', compacted', full')
  BY <1>4, <1>5
<1> QED
  BY <1>5, <1>6, <1>7, <1>8, <1>9 DEF Alone

LEMMA ToolHookAlone ==
  ASSUME EInv, NEW h \in Hooks, ToolHook(h)
  PROVE  Alone'
<1> DEFINE e == event[h]
           k == e.agent
           s == Own(h)
           d == PreToolUse(s, e, clock)
<1>1. e \in ToolEvent /\ k \in Agents /\ e.topic \in Topics
  BY EventTypes DEF EInv, IInv, TypeOK, ToolHook
<1>2. s \in Entry /\ clock \in Time
  BY OwnEntry DEF EInv, IInv, TypeOK
<1>3. d \in Entry
  BY <1>1, <1>2, PreToolUseType
<1>4. Keep(h, d, "gone") /\ pc[h] = "read"
  BY DEF ToolHook, Own
<1>5. /\ streak \in [Agents -> Nat] /\ edits \in [Agents -> [Topics -> Nat]]
      /\ retrieved \in [Agents -> [Topics -> Time \cup {Never}]]
      /\ full \in [Agents -> [{"warn", "gap"} -> Nat]]
  BY DEF EInv, IInv, TypeOK
<1> DEFINE ed2 == EditsAfter(e, edits[k])
           n2 == StreakAfter(e, streak[k])
           r2 == LookupsAfter(s, e, retrieved[k], clock)
           f2 == FullAfter(s, e, full[k])
<1>6. /\ edits' = [edits EXCEPT ![k] = ed2]
      /\ streak' = [streak EXCEPT ![k] = n2]
      /\ retrieved' = [retrieved EXCEPT ![k] = r2]
      /\ compacted' = compacted
  <2>1. /\ edits' = [edits EXCEPT ![k][e.topic] = IF Mutates(e) THEN @ + 1 ELSE @]
        /\ streak' = [streak EXCEPT ![k] = n2]
        /\ compacted' = compacted
    BY DEF ToolHook, StreakAfter
  <2>2. retrieved' = IF e.tool = "search" \/ GateLooks(Decide(s, e), e)
                     THEN [retrieved EXCEPT ![k][e.topic] = clock] ELSE retrieved
    BY DEF ToolHook, Own
  <2> HIDE DEF e, s
  <2>3. edits' = [edits EXCEPT ![k] = ed2]
    BY <1>1, <1>5, <2>1 DEF EditsAfter
  <2>4. retrieved' = [retrieved EXCEPT ![k] = r2]
    <3>1. CASE e.tool = "search" \/ GateLooks(Decide(s, e), e)
      BY <2>2, <3>1 DEF LookupsAfter
    <3>2. CASE ~(e.tool = "search" \/ GateLooks(Decide(s, e), e))
      BY <1>1, <1>5, <2>2, <3>2 DEF LookupsAfter
    <3> QED
      BY <3>1, <3>2
  <2> QED
    BY <2>1, <2>3, <2>4
<1>7. full' = [full EXCEPT ![k] = f2]
  <2> DEFINE notice == IF Looks(e) THEN "none" ELSE Notice(Counted(s, e), e)
             row == [n \in {"warn", "gap"} |->
                        IF Looks(e) THEN 0
                        ELSE IF n = notice THEN full[k][n] + 1 ELSE full[k][n]]
  <2>1. full' = [full EXCEPT ![k] = row]
    BY DEF ToolHook, Own
  <2>2. row = f2
    BY DEF FullAfter
  <2> HIDE DEF row, f2
  <2> QED
    BY <2>1, <2>2
<1> HIDE DEF ed2, n2, r2, f2, e, s, d
<1>8. /\ edits'[k] = ed2 /\ streak'[k] = n2 /\ retrieved'[k] = r2 /\ full'[k] = f2
      /\ compacted'[k] = compacted[k]
      /\ \A a \in Agents \ {k} :
             /\ streak'[a] = streak[a] /\ edits'[a] = edits[a]
             /\ retrieved'[a] = retrieved[a] /\ compacted'[a] = compacted[a]
             /\ full'[a] = full[a]
  BY <1>1, <1>5, <1>6, <1>7
<1>9. ASSUME ~overlap'
      PROVE  /\ ExactEntry(d, n2, ed2, r2, compacted[k], f2)
             /\ NoticesOK(n2, f2)
  <2>1. /\ ExactEntry(s, streak[k], edits[k], retrieved[k], compacted[k], full[k])
        /\ NoticesOK(streak[k], full[k])
    BY <1>4, <1>9, OwnExact DEF e, s
  <2>2. /\ streak[k] \in Nat /\ edits[k] \in [Topics -> Nat]
        /\ retrieved[k] \in [Topics -> Time \cup {Never}]
        /\ full[k] \in [{"warn", "gap"} -> Nat]
    BY <1>1, <1>5
  <2> QED
    BY <1>1, <1>2, <2>1, <2>2, ToolExact DEF d, n2, ed2, r2, f2
<1> QED
  BY <1>3, <1>4, <1>8, <1>9, KeepExact DEF e

LEMMA QuietHookAlone ==
  ASSUME EInv, NEW h \in Hooks,
         \/ CompactHook(h) \/ FailureHook(h) \/ CoverHook(h)
         \/ ClaimHook(h) /\ event[h].topic \notin Own(h).injected_topics
  PROVE  Alone'
<1> DEFINE e == event[h]
           k == e.agent
           s == Own(h)
<1>0. IInv
  BY DEF EInv
<1>1. s \in Entry /\ k \in Agents /\ e \in Event
  BY <1>0, OwnEntry, EventTypes DEF IInv, TypeOK
<1>2. /\ streak' = streak /\ edits' = edits /\ full' = full
  BY DEF CompactHook, FailureHook, CoverHook, ClaimHook
<1>3. /\ compacted \in [Agents -> Time]
      /\ retrieved \in [Agents -> [Topics -> Time \cup {Never}]]
  BY <1>0 DEF IInv, TypeOK
<1>4. CASE CompactHook(h)
  <2> DEFINE d == [s EXCEPT !.last_compaction_at = clock']
  <2>1. Keep(h, d, "gone") /\ pc[h] = "read"
    BY <1>4 DEF CompactHook, Own
  <2>2. compacted' = [compacted EXCEPT ![k] = clock'] /\ retrieved' = retrieved
    BY <1>4 DEF CompactHook
  <2>3. clock' \in Time
    BY <1>0, <1>4, QuietHookStep DEF IInv, TypeOK
  <2>4. d \in Entry /\ SameCharge(d, s)
    <3> HIDE DEF s
    <3> QED  BY <1>1, <2>3, OtherFieldTypes
  <2>5. /\ d.builtin_calls = s.builtin_calls /\ d.covered_topics = s.covered_topics
        /\ d.warn_emitted = s.warn_emitted /\ d.gap_emitted = s.gap_emitted
        /\ d.edited_files = s.edited_files /\ d.last_compaction_at = clock'
    <3> HIDE DEF s
    <3> QED  BY <1>1 DEF Entry
  <2>6. ~overlap' => /\ ExactEntry(s, streak[k], edits[k], retrieved[k], compacted[k], full[k])
                     /\ NoticesOK(streak[k], full[k])
    BY <2>1, OwnExact
  <2> HIDE DEF d, s, e
  <2>7. /\ compacted'[k] = clock'
        /\ \A a \in Agents \ {k} : compacted'[a] = compacted[a]
    BY <1>1, <1>3, <2>2
  <2>8. ~overlap' =>
           /\ ExactEntry(d, streak'[k], edits'[k], retrieved'[k], compacted'[k], full'[k])
           /\ NoticesOK(streak'[k], full'[k])
    BY <1>2, <2>2, <2>5, <2>6, <2>7 DEF ExactEntry
  <2> QED
    BY <1>1, <1>2, <2>1, <2>2, <2>4, <2>7, <2>8, KeepExact DEF e
<1>5. CASE FailureHook(h)
  <2> DEFINE d == [s EXCEPT !.failure_lookups = s.failure_lookups \cup {e.topic}]
  <2>1. pc[h] = "read" /\ \E next : Keep(h, d, next)
    BY <1>5 DEF FailureHook, Own
  <2>2. PICK next : Keep(h, d, next)
    BY <2>1
  <2>3. compacted' = compacted /\ retrieved' = retrieved
    BY <1>5 DEF FailureHook
  <2>4. e.topic \in Topics
    BY <1>1, <1>5, EventTypes DEF FailureHook
  <2>5. d \in Entry /\ SameCharge(d, s)
    <3> HIDE DEF s, e
    <3> QED  BY <1>1, <2>4, OtherFieldTypes
  <2>6. SameMarks(d, s)
    <3> HIDE DEF s, e
    <3> QED  BY <1>1 DEF Entry, SameMarks
  <2>7. ~overlap' => /\ ExactEntry(s, streak[k], edits[k], retrieved[k], compacted[k], full[k])
                     /\ NoticesOK(streak[k], full[k])
    BY <2>1, <2>2, OwnExact
  <2> HIDE DEF d, s, e
  <2>8. ~overlap' =>
           /\ ExactEntry(d, streak'[k], edits'[k], retrieved'[k], compacted'[k], full'[k])
           /\ NoticesOK(streak'[k], full'[k])
    BY <1>2, <2>3, <2>5, <2>6, <2>7 DEF ExactEntry, SameMarks, SameCharge
  <2> QED
    BY <1>2, <2>1, <2>2, <2>3, <2>5, <2>8, KeepExact DEF e
<1>6. CASE CoverHook(h)
  <2> DEFINE t == IF e.kind = "failure" THEN now[h] ELSE clock
             d == RecordTopic(s, e.topic, t)
  <2>1. pc[h] = "cover" /\ \E next : Keep(h, d, next)
    BY <1>6 DEF CoverHook, Own
  <2>2. PICK next : Keep(h, d, next)
    BY <2>1
  <2>3. compacted' = compacted /\ retrieved' = [retrieved EXCEPT ![k][e.topic] = t]
    BY <1>6 DEF CoverHook
  <2>4. e.topic \in Topics /\ t \in Time
    BY <1>0, <1>1, <1>6, EventTypes DEF CoverHook, IInv, CoverEvents, TypeOK
  <2> HIDE DEF t
  <2>5. d \in Entry /\ SameCharge(d, s)
    <3> HIDE DEF s, e
    <3> QED  BY <1>1, <2>4, RecordType DEF SameCharge
  <2>6. /\ d.builtin_calls = s.builtin_calls
        /\ d.covered_topics = [s.covered_topics EXCEPT ![e.topic] = t]
        /\ d.last_compaction_at = s.last_compaction_at
        /\ d.warn_emitted = s.warn_emitted /\ d.gap_emitted = s.gap_emitted
    <3> HIDE DEF s, e
    <3> QED  BY <1>1, <2>4, RecordMarks
  <2>7. ~overlap' => /\ ExactEntry(s, streak[k], edits[k], retrieved[k], compacted[k], full[k])
                     /\ NoticesOK(streak[k], full[k])
    BY <2>1, <2>2, OwnExact
  <2> HIDE DEF d, s, e
  <2>8. /\ retrieved'[k] = [retrieved[k] EXCEPT ![e.topic] = t]
        /\ \A a \in Agents \ {k} : retrieved'[a] = retrieved[a]
    BY <1>1, <1>3, <2>3
  <2>9. ~overlap' =>
           /\ ExactEntry(d, streak'[k], edits'[k], retrieved'[k], compacted'[k], full'[k])
           /\ NoticesOK(streak'[k], full'[k])
    BY <1>2, <2>3, <2>5, <2>6, <2>7, <2>8 DEF ExactEntry, SameCharge
  <2> QED
    BY <1>2, <2>1, <2>2, <2>3, <2>5, <2>8, <2>9, KeepExact DEF e
<1>7. CASE ClaimHook(h) /\ event[h].topic \notin Own(h).injected_topics
  <2> DEFINE d == [s EXCEPT !.injected_topics = s.injected_topics \cup {e.topic}]
  <2>1. pc[h] = "claim" /\ Keep(h, d, "gone")
    BY <1>7 DEF ClaimHook, Own
  <2>2. compacted' = compacted /\ retrieved' = retrieved
    BY <1>7 DEF ClaimHook
  <2>3. e.topic \in Topics
    BY <1>0, <1>1, <1>7, EventTypes DEF ClaimHook, IInv, CoverEvents
  <2>4. d \in Entry /\ SameCharge(d, s)
    <3> HIDE DEF s, e
    <3> QED  BY <1>1, <2>3, OtherFieldTypes
  <2>5. SameMarks(d, s)
    <3> HIDE DEF s, e
    <3> QED  BY <1>1 DEF Entry, SameMarks
  <2>6. ~overlap' => /\ ExactEntry(s, streak[k], edits[k], retrieved[k], compacted[k], full[k])
                     /\ NoticesOK(streak[k], full[k])
    BY <2>1, OwnExact
  <2> HIDE DEF d, s, e
  <2>7. ~overlap' =>
           /\ ExactEntry(d, streak'[k], edits'[k], retrieved'[k], compacted'[k], full'[k])
           /\ NoticesOK(streak'[k], full'[k])
    BY <1>2, <2>2, <2>4, <2>5, <2>6 DEF ExactEntry, SameMarks, SameCharge
  <2> QED
    BY <1>2, <2>1, <2>2, <2>4, <2>7, KeepExact DEF e
<1> QED
  BY <1>4, <1>5, <1>6, <1>7

\* Starting a hook and ending one that does not write put no hook between
\* reading and renaming.
LEMMA OutsideAlone ==
  ASSUME EInv, NEW h \in Hooks, ~InCycle(h),
         NEW p \in {"gone", "read", "cover"}, pc' = [pc EXCEPT ![h] = p],
         UNCHANGED <<name, tmp, content, memory, fd, history>>
  PROVE  Alone'
<1> SUFFICES ASSUME ~overlap' PROVE Alone'
  BY DEF Alone
<1>1. ~overlap
  BY DEF history
<1>2. \A g \in Hooks : /\ InCycle(g)' <=> InCycle(g)
                       /\ InCycle(g) => pc'[g] = pc[g]
  BY DEF InCycle, EInv, IInv, TypeOK
<1>3. /\ streak' = streak /\ edits' = edits /\ retrieved' = retrieved
      /\ compacted' = compacted /\ full' = full
  BY DEF history
<1> QED
  BY <1>1, <1>2, <1>3 DEF EInv, Alone, InCycle

\* A hook that is between reading and renaming is there by itself.
LEMMA SoleWriter ==
  ASSUME EInv, NEW h \in Hooks, InCycle(h), ~overlap
  PROVE  /\ \A g \in Hooks : InCycle(g) <=> g = h
         /\ Exactly(memory[h], streak, edits, retrieved, compacted, full)
         /\ content[name] # Torn
         /\ \A a \in Agents : NoticesOK(streak[a], full[a])
BY DEF EInv, Alone

LEMMA OpenTmpAlone ==
  ASSUME EInv, NEW h \in Hooks, OpenTmp(h)
  PROVE  Alone'
<1> SUFFICES ASSUME ~overlap' PROVE Alone'
  BY DEF Alone
<1> DEFINE free == Inodes \ ({name} \cup {fd[g] : g \in Hooks})
           inode == IF tmp # NoInode THEN tmp ELSE CHOOSE i \in free : TRUE
<1>1. /\ pc[h] = "open" /\ pc' = [pc EXCEPT ![h] = "write"]
      /\ tmp' = inode /\ content' = [content EXCEPT ![inode] = Torn]
      /\ fd' = [fd EXCEPT ![h] = inode]
      /\ name' = name /\ memory' = memory
      /\ streak' = streak /\ edits' = edits /\ retrieved' = retrieved
      /\ compacted' = compacted /\ full' = full /\ overlap' = overlap
  BY DEF OpenTmp, history
<1>2. InCycle(h) /\ ~overlap
  BY <1>1 DEF InCycle
<1>3. /\ \A g \in Hooks : InCycle(g) <=> g = h
      /\ Exactly(memory[h], streak, edits, retrieved, compacted, full)
      /\ content[name] # Torn
      /\ \A a \in Agents : NoticesOK(streak[a], full[a])
  BY <1>2, SoleWriter
<1>4. tmp = NoInode
  BY <1>1, <1>2 DEF EInv, Alone
<1>5. inode \in Inodes /\ inode # name
  <2>1. (CHOOSE i \in free : TRUE) \in free
    BY <1>1, FreeInode DEF EInv
  <2> QED
    BY <1>4, <2>1
<1> HIDE DEF inode
<1>6. content'[inode] = Torn /\ content'[name'] = content[name] /\ fd'[h] = inode
  BY <1>1, <1>5 DEF EInv, IInv, TypeOK
<1>7. pc'[h] = "write" /\ \A g \in Hooks : InCycle(g)' <=> g = h
  BY <1>1, <1>3 DEF InCycle, EInv, IInv, TypeOK
<1> QED
  BY <1>1, <1>3, <1>5, <1>6, <1>7 DEF Alone

LEMMA WriteTmpAlone ==
  ASSUME EInv, NEW h \in Hooks, WriteTmp(h)
  PROVE  Alone'
<1> SUFFICES ASSUME ~overlap' PROVE Alone'
  BY DEF Alone
<1>1. /\ pc[h] = "write" /\ pc' = [pc EXCEPT ![h] = "rename"]
      /\ tmp' = tmp /\ fd' = fd /\ name' = name /\ memory' = memory
      /\ streak' = streak /\ edits' = edits /\ retrieved' = retrieved
      /\ compacted' = compacted /\ full' = full /\ overlap' = overlap
  BY DEF WriteTmp, history
<1>2. InCycle(h) /\ ~overlap
  BY <1>1 DEF InCycle
<1>3. /\ \A g \in Hooks : InCycle(g) <=> g = h
      /\ Exactly(memory[h], streak, edits, retrieved, compacted, full)
      /\ content[name] # Torn
      /\ \A a \in Agents : NoticesOK(streak[a], full[a])
  BY <1>2, SoleWriter
<1>4. tmp = fd[h] /\ fd[h] # name /\ content[fd[h]] = Torn
  BY <1>1, <1>2 DEF EInv, Alone
<1>5. fd[h] \in Inodes
  BY <1>1 DEF EInv, IInv, FdWhileWriting
<1>6. content' = [content EXCEPT ![fd[h]] = memory[h]]
  BY <1>4 DEF WriteTmp
<1>7. content'[fd[h]] = memory[h] /\ content'[name'] = content[name]
  BY <1>1, <1>4, <1>5, <1>6 DEF EInv, IInv, TypeOK
<1>8. pc'[h] = "rename" /\ \A g \in Hooks : InCycle(g)' <=> g = h
  BY <1>1, <1>3 DEF InCycle, EInv, IInv, TypeOK
<1> QED
  BY <1>1, <1>3, <1>4, <1>7, <1>8 DEF Alone

LEMMA ReplaceAlone ==
  ASSUME EInv, NEW h \in Hooks, Replace(h)
  PROVE  Alone'
<1> SUFFICES ASSUME ~overlap' PROVE Alone'
  BY DEF Alone
<1>1. /\ pc[h] = "rename" /\ pc' = [pc EXCEPT ![h] = after[h]]
      /\ streak' = streak /\ edits' = edits /\ retrieved' = retrieved
      /\ compacted' = compacted /\ full' = full /\ overlap' = overlap
  BY DEF Replace, history
<1>2. InCycle(h) /\ ~overlap
  BY <1>1 DEF InCycle
<1>3. /\ \A g \in Hooks : InCycle(g) <=> g = h
      /\ Exactly(memory[h], streak, edits, retrieved, compacted, full)
      /\ \A a \in Agents : NoticesOK(streak[a], full[a])
  BY <1>2, SoleWriter
<1>4. tmp = fd[h] /\ content[fd[h]] = memory[h]
  BY <1>1, <1>2 DEF EInv, Alone
<1>5. fd[h] \in Inodes /\ fd[h] # NoInode
  BY <1>1, Numbers DEF EInv, IInv, FdWhileWriting
<1>6. name' = fd[h] /\ tmp' = NoInode
  BY <1>4, <1>5 DEF Replace
<1>7. content'[name'] = memory[h]
  <2>1. content' = [i \in Inodes |->
                       IF i \in {name', tmp'} \cup {fd'[g] : g \in Hooks}
                       THEN content[i] ELSE Torn]
    BY DEF Replace
  <2> QED
    BY <1>4, <1>5, <1>6, <2>1
<1>8. memory[h] # Torn
  BY EntryAssumption DEF EInv, IInv, TypeOK
<1>9. \A g \in Hooks : ~InCycle(g)'
  <2>1. after[h] \in {"gone", "cover", "claim"}
    BY DEF EInv, IInv, TypeOK
  <2> QED
    BY <1>1, <1>3, <2>1 DEF InCycle, EInv, IInv, TypeOK
<1> QED
  BY <1>1, <1>3, <1>6, <1>7, <1>8, <1>9 DEF Alone

LEMMA InitAlone == Init => Alone
<1> SUFFICES ASSUME Init PROVE Alone
  OBVIOUS
<1>1. \A h \in Hooks : ~InCycle(h)
  BY DEF Init, InCycle
<1>2. content[name] = EmptyState /\ tmp = NoInode
  BY Numbers DEF Init
<1>3. \A a \in Agents :
        /\ streak[a] = 0 /\ edits[a] = [t \in Topics |-> 0]
        /\ retrieved[a] = [t \in Topics |-> Never] /\ compacted[a] = 0
        /\ full[a] = [n \in {"warn", "gap"} |-> 0]
  BY DEF Init
<1>4. \A a \in Agents : NoticesOK(streak[a], full[a])
  BY <1>3, ThresholdAssumption DEF NoticesOK
<1>5. \A a \in Agents :
        ExactEntry(EntryOf(EmptyState, a), streak[a], edits[a], retrieved[a],
                   compacted[a], full[a])
  <2> SUFFICES ASSUME NEW a \in Agents
               PROVE  ExactEntry(NewEntry, streak[a], edits[a], retrieved[a],
                                 compacted[a], full[a])
    BY DEF EntryOf, EmptyState
  <2> QED
    BY <1>3 DEF ExactEntry, NewEntry
<1> QED
  BY <1>1, <1>2, <1>4, <1>5, EmptyStateType DEF Alone, Exactly

LEMMA NextAlone == EInv /\ [Next]_vars => EInv'
<1> SUFFICES ASSUME EInv, [Next]_vars PROVE EInv'
  OBVIOUS
<1>1. IInv'
  BY NextKeeps DEF EInv
<1>2. ASSUME NEW h \in Hooks, Step(h) PROVE Alone'
  <2>1. CASE ClaimHook(h) /\ event[h].topic \in Own(h).injected_topics
    <3>1. /\ pc[h] = "claim" /\ pc' = [pc EXCEPT ![h] = "gone"]
          /\ UNCHANGED <<name, tmp, content, memory, fd, history>>
      BY <2>1 DEF ClaimHook, Own, fileVars, history
    <3>2. ~InCycle(h)
      BY <3>1 DEF InCycle
    <3> QED
      BY <3>1, <3>2, OutsideAlone
  <2> QED
    BY <1>2, <2>1, ToolHookAlone, QuietHookAlone, OpenTmpAlone, WriteTmpAlone,
       ReplaceAlone DEF Step
<1>3. ASSUME NEW h \in Hooks, NEW e \in Event, Fire(h, e) PROVE Alone'
  <2>1. /\ pc[h] = "gone"
        /\ pc' = [pc EXCEPT ![h] = IF e.kind = "prompt" THEN "cover" ELSE "read"]
        /\ UNCHANGED <<name, tmp, content, memory, fd, history>>
    BY <1>3 DEF Fire, fileVars
  <2>2. ~InCycle(h)
    BY <2>1 DEF InCycle
  <2> QED
    BY <2>1, <2>2, OutsideAlone
<1>4. CASE UNCHANGED vars
  <2>1. /\ UNCHANGED <<name, tmp, content, pc, memory, fd>>
        /\ UNCHANGED <<edits, streak, full, retrieved, compacted, overlap>>
    BY <1>4 DEF vars, fileVars, procVars, history
  <2> SUFFICES ASSUME ~overlap' PROVE Alone'
    BY <1>1 DEF Alone, EInv
  <2>2. pc' = pc /\ overlap' = overlap
    BY <2>1
  <2>3. ~overlap
    BY <2>2, Zenon
  <2>4. \A h \in Hooks : InCycle(h)' <=> InCycle(h)
    BY <2>2 DEF InCycle
  <2> QED
    BY <2>1, <2>2, <2>3, <2>4 DEF EInv, Alone, Exactly
<1> QED
  BY <1>1, <1>2, <1>3, <1>4 DEF EInv, Next

\* What holds as long as hooks do not overlap.
THEOREM AloneInvariant == Spec => []EInv
<1>1. Init => EInv
  BY InitHolds, InitAlone DEF EInv
<1> QED
  BY <1>1, NextAlone, PTL DEF Spec

\* Without overlap the file at rest is whole and exact (mcp_enforcement.py,
\* _load_state and _save_state, which rest on hooks of one agent running one
\* after the other).
THEOREM FileIsExact == Spec => []ExactWithoutOverlap
<1>1. EInv => ExactWithoutOverlap
  BY DEF EInv, Alone, ExactWithoutOverlap, Exactly, ExactEntry
<1> QED
  BY <1>1, AloneInvariant, PTL

\* Without overlap every streak as long as the threshold is met with a full
\* notice, and with each at most once (mcp_enforcement.py, _decide).
THEOREM NoticesComeOnce == Spec => []OneFullNoticePerStreak
<1>1. EInv => OneFullNoticePerStreak
  <2> SUFFICES ASSUME EInv, ~overlap, NEW a \in Agents
               PROVE  /\ full[a]["warn"] <= 1 /\ full[a]["gap"] <= 1
                      /\ streak[a] >= Warn => full[a]["warn"] + full[a]["gap"] >= 1
    BY DEF OneFullNoticePerStreak
  <2>1. NoticesOK(streak[a], full[a])
    BY DEF EInv, Alone
  <2> QED
    BY <2>1 DEF NoticesOK
<1> QED
  BY <1>1, AloneInvariant, PTL

----------------------------------------------------------------------------
(* Coverage.                                                               *)

\* An entry covers no topic that, by r, was never looked up.
Looked(s, r) == \A t \in Topics : s.covered_topics[t] # Never => r[t] # Never
AllLooked(state, all) == \A a \in Agents : Looked(EntryOf(state, a), all[a])

\* Whatever hooks hold and whatever can be read, coverage was come by honestly.
CoverageIsReal ==
    /\ \A h \in Hooks : AllLooked(memory[h], retrieved)
    /\ \A i \in Inodes : content[i] # Torn => AllLooked(content[i], retrieved)

\* No compaction is in the future.
CompactedPast == \A a \in Agents : compacted[a] <= clock

GInv == EInv /\ CoverageIsReal /\ CompactedPast

\* No lookup is ever forgotten.
LookupsStay ==
    \A a \in Agents, t \in Topics : retrieved[a][t] # Never => retrieved'[a][t] # Never

LEMMA LookedStays ==
  ASSUME LookupsStay, NEW st, AllLooked(st, retrieved)
  PROVE  AllLooked(st, retrieved')
BY DEF LookupsStay, AllLooked, Looked

LEMMA EmptyLooked == AllLooked(EmptyState, retrieved)
BY DEF AllLooked, Looked, EntryOf, EmptyState, NewEntry

LEMMA ReadLooked ==
  ASSUME TypeOK, CoverageIsReal PROVE AllLooked(ReadState, retrieved)
BY EmptyLooked DEF TypeOK, CoverageIsReal, ReadState

LEMMA ReplaceLooked ==
  ASSUME NEW st \in State, NEW key \in Agents, NEW s \in Entry, NEW all,
         AllLooked(st, all), Looked(s, all[key])
  PROVE  AllLooked([st EXCEPT ![key] = s], all)
<1> DEFINE new == [st EXCEPT ![key] = s]
<1> SUFFICES ASSUME NEW a \in Agents PROVE Looked(EntryOf(new, a), all[a])
  BY DEF AllLooked
<1>1. CASE a = key
  BY <1>1, EntryAssumption DEF EntryOf, State
<1>2. CASE a # key
  <2>1. EntryOf(new, a) = EntryOf(st, a)
    BY <1>2 DEF EntryOf, State
  <2> HIDE DEF new
  <2> QED
    BY <2>1 DEF AllLooked
<1> QED
  BY <1>1, <1>2

\* A hook that keeps an entry whose coverage is real.
LEMMA KeepLooks ==
  ASSUME TypeOK, CoverageIsReal, LookupsStay,
         NEW h \in Hooks, NEW s \in Entry, NEW next, Keep(h, s, next),
         Looked(s, retrieved'[event[h].agent])
  PROVE  CoverageIsReal'
<1>1. event[h].agent \in Agents /\ ReadState \in State
  BY EventTypes, ReadStateType DEF TypeOK
<1>2. AllLooked(ReadState, retrieved')
  BY ReadLooked, LookedStays
<1>3. AllLooked([ReadState EXCEPT ![event[h].agent] = s], retrieved')
  BY <1>1, <1>2, ReplaceLooked
<1>4. \A g \in Hooks : AllLooked(memory'[g], retrieved')
  <2> SUFFICES ASSUME NEW g \in Hooks PROVE AllLooked(memory'[g], retrieved')
    OBVIOUS
  <2>1. CASE g = h
    BY <1>3, <2>1 DEF Keep, AgentKey, TypeOK
  <2>2. CASE g # h
    <3>1. memory'[g] = memory[g]
      BY <2>2 DEF Keep, TypeOK
    <3> QED
      BY <3>1, LookedStays DEF CoverageIsReal
  <2> QED
    BY <2>1, <2>2
<1>5. \A i \in Inodes : content'[i] # Torn => AllLooked(content'[i], retrieved')
  <2>1. content' = content
    BY DEF Keep, fileVars
  <2> QED
    BY <2>1, LookedStays DEF CoverageIsReal
<1> QED
  BY <1>4, <1>5 DEF CoverageIsReal

\* What a tool event does to its agent's lookups.
LEMMA ToolLookups ==
  ASSUME IInv, NEW h \in Hooks, ToolHook(h)
  PROVE  LET e == event[h] IN
         /\ e \in ToolEvent /\ e.agent \in Agents /\ e.topic \in Topics
         /\ retrieved' = [retrieved EXCEPT ![e.agent] =
                             LookupsAfter(Own(h), e, retrieved[e.agent], clock)]
         /\ Keep(h, PreToolUse(Own(h), e, clock), "gone") /\ pc[h] = "read"
<1> DEFINE e == event[h]
           k == e.agent
           s == Own(h)
<1>1. e \in ToolEvent /\ k \in Agents /\ e.topic \in Topics
  BY EventTypes DEF IInv, TypeOK, ToolHook
<1>2. retrieved' = IF e.tool = "search" \/ GateLooks(Decide(s, e), e)
                   THEN [retrieved EXCEPT ![k][e.topic] = clock] ELSE retrieved
  BY DEF ToolHook, Own
<1>3. Keep(h, PreToolUse(s, e, clock), "gone") /\ pc[h] = "read"
  BY DEF ToolHook, Own
<1>4. retrieved \in [Agents -> [Topics -> Time \cup {Never}]]
  BY DEF IInv, TypeOK
<1>5. retrieved' = [retrieved EXCEPT ![k] = LookupsAfter(s, e, retrieved[k], clock)]
  <2> HIDE DEF e, s
  <2>1. CASE e.tool = "search" \/ GateLooks(Decide(s, e), e)
    BY <1>2, <2>1 DEF LookupsAfter
  <2>2. CASE ~(e.tool = "search" \/ GateLooks(Decide(s, e), e))
    BY <1>1, <1>2, <1>4, <2>2 DEF LookupsAfter
  <2> QED
    BY <2>1, <2>2
<1> QED
  BY <1>1, <1>3, <1>5

LEMMA TimeIsNotNever == \A t \in Time : t # Never /\ t \in Int
BY HookBoundAssumption DEF Time, Never

LEMMA ToolHookLooks ==
  ASSUME GInv, NEW h \in Hooks, ToolHook(h)
  PROVE  CoverageIsReal' /\ CompactedPast'
<1> DEFINE e == event[h]
           k == e.agent
           s == Own(h)
           d == PreToolUse(s, e, clock)
           r2 == LookupsAfter(s, e, retrieved[k], clock)
<1>0. IInv
  BY DEF GInv, EInv
<1>1. /\ e \in ToolEvent /\ k \in Agents /\ e.topic \in Topics
      /\ retrieved' = [retrieved EXCEPT ![k] = r2]
      /\ Keep(h, d, "gone")
  BY <1>0, ToolLookups
<1>2. s \in Entry /\ clock \in Time
  BY <1>0, OwnEntry DEF IInv, TypeOK
<1>3. d \in Entry
  BY <1>1, <1>2, PreToolUseType
<1>4. d.covered_topics =
         IF e.tool = "search" \/ GateLooks(Decide(s, e), e)
         THEN [s.covered_topics EXCEPT ![e.topic] = clock] ELSE s.covered_topics
  BY <1>1, <1>2, ToolMarks
<1>5. Looked(s, retrieved[k])
  <2>1. AllLooked(ReadState, retrieved)
    BY <1>0, ReadLooked DEF IInv, GInv
  <2> QED
    BY <1>1, <2>1 DEF AllLooked, Own, AgentKey
<1>6. /\ retrieved[k] \in [Topics -> Time \cup {Never}]
      /\ s.covered_topics \in [Topics -> Time \cup {Never}]
  BY <1>0, <1>1, <1>2 DEF IInv, TypeOK, Entry
<1>7. \A t \in Topics : /\ retrieved[k][t] # Never => r2[t] # Never
                        /\ d.covered_topics[t] # Never => r2[t] # Never
  <2> HIDE DEF d, e, s
  <2>1. CASE e.tool = "search" \/ GateLooks(Decide(s, e), e)
    <3>1. r2 = [retrieved[k] EXCEPT ![e.topic] = clock]
      BY <2>1 DEF LookupsAfter
    <3>2. d.covered_topics = [s.covered_topics EXCEPT ![e.topic] = clock]
      BY <1>4, <2>1
    <3> HIDE DEF r2
    <3> QED
      BY <1>1, <1>2, <1>5, <1>6, <3>1, <3>2, TimeIsNotNever DEF Looked
  <2>2. CASE ~(e.tool = "search" \/ GateLooks(Decide(s, e), e))
    <3>1. r2 = retrieved[k] /\ d.covered_topics = s.covered_topics
      BY <1>4, <2>2 DEF LookupsAfter
    <3> HIDE DEF r2
    <3> QED
      BY <1>5, <3>1 DEF Looked
  <2> QED
    BY <2>1, <2>2
<1> HIDE DEF d, r2
<1>8. retrieved'[k] = r2 /\ \A a \in Agents \ {k} : retrieved'[a] = retrieved[a]
  <2> HIDE DEF e
  <2> QED  BY <1>0, <1>1 DEF IInv, TypeOK
<1>9. LookupsStay /\ Looked(d, retrieved'[k])
  <2> HIDE DEF e
  <2> QED  BY <1>7, <1>8 DEF LookupsStay, Looked
<1>10. CoverageIsReal'
  BY <1>0, <1>1, <1>3, <1>9, KeepLooks DEF GInv, IInv
<1>11. CompactedPast'
  BY DEF ToolHook, GInv, CompactedPast
<1> QED
  BY <1>10, <1>11

LEMMA QuietHookLooks ==
  ASSUME GInv, NEW h \in Hooks,
         \/ CompactHook(h) \/ FailureHook(h) \/ CoverHook(h)
         \/ ClaimHook(h) /\ event[h].topic \notin Own(h).injected_topics
  PROVE  CoverageIsReal' /\ CompactedPast'
<1> DEFINE e == event[h]
           k == e.agent
           s == Own(h)
<1>0. IInv
  BY DEF GInv, EInv
<1>1. s \in Entry /\ k \in Agents /\ e \in Event
  BY <1>0, OwnEntry, EventTypes DEF IInv, TypeOK
<1>2. Looked(s, retrieved[k])
  <2>1. AllLooked(ReadState, retrieved)
    BY <1>0, ReadLooked DEF IInv, GInv
  <2> QED
    BY <1>1, <2>1 DEF AllLooked, Own, AgentKey
<1>3. /\ compacted \in [Agents -> Time] /\ clock \in Time
      /\ retrieved \in [Agents -> [Topics -> Time \cup {Never}]]
      /\ \A a \in Agents : compacted[a] <= clock
  BY <1>0 DEF IInv, TypeOK, GInv, CompactedPast
<1>4. CASE CompactHook(h)
  <2> DEFINE d == [s EXCEPT !.last_compaction_at = clock']
  <2>1. Keep(h, d, "gone")
    BY <1>4 DEF CompactHook, Own
  <2>2. /\ compacted' = [compacted EXCEPT ![k] = clock'] /\ retrieved' = retrieved
        /\ clock' = clock + 1
    BY <1>4 DEF CompactHook
  <2>3. clock' \in Time
    BY <1>0, <1>4, QuietHookStep DEF IInv, TypeOK
  <2>4. d \in Entry
    <3> HIDE DEF s
    <3> QED  BY <1>1, <2>3, OtherFieldTypes
  <2>5. d.covered_topics = s.covered_topics
    <3> HIDE DEF s
    <3> QED  BY <1>1 DEF Entry
  <2> HIDE DEF d, s, e
  <2>6. LookupsStay /\ Looked(d, retrieved'[k])
    BY <1>2, <2>2, <2>5 DEF LookupsStay, Looked
  <2>7. CoverageIsReal'
    BY <1>0, <1>1, <2>1, <2>4, <2>6, KeepLooks DEF GInv, IInv, e
  <2>8. CompactedPast'
    <3> SUFFICES ASSUME NEW a \in Agents PROVE compacted'[a] <= clock'
      BY DEF CompactedPast
    <3>1. compacted[a] \in Nat /\ clock \in Nat /\ clock' \in Nat
      BY <1>3, <2>3, HookBoundAssumption DEF Time
    <3> QED
      BY <1>1, <1>3, <2>2, <3>1
  <2> QED
    BY <2>7, <2>8
<1>5. CASE FailureHook(h)
  <2> DEFINE d == [s EXCEPT !.failure_lookups = s.failure_lookups \cup {e.topic}]
  <2>1. PICK next : Keep(h, d, next)
    BY <1>5 DEF FailureHook, Own
  <2>2. compacted' = compacted /\ retrieved' = retrieved /\ clock' = clock
    BY <1>5 DEF FailureHook
  <2>3. e.topic \in Topics
    BY <1>1, <1>5, EventTypes DEF FailureHook
  <2>4. d \in Entry
    <3> HIDE DEF s, e
    <3> QED  BY <1>1, <2>3, OtherFieldTypes
  <2>5. d.covered_topics = s.covered_topics
    <3> HIDE DEF s, e
    <3> QED  BY <1>1 DEF Entry
  <2> HIDE DEF d, s, e
  <2>6. LookupsStay /\ Looked(d, retrieved'[k])
    BY <1>2, <2>2, <2>5 DEF LookupsStay, Looked
  <2> QED
    BY <1>0, <1>1, <1>3, <2>1, <2>2, <2>4, <2>6, KeepLooks
       DEF GInv, IInv, e, CompactedPast
<1>6. CASE CoverHook(h)
  <2> DEFINE t == IF e.kind = "failure" THEN now[h] ELSE clock
             d == RecordTopic(s, e.topic, t)
  <2>1. PICK next : Keep(h, d, next)
    BY <1>6 DEF CoverHook, Own
  <2>2. /\ compacted' = compacted /\ clock' = clock
        /\ retrieved' = [retrieved EXCEPT ![k][e.topic] = t]
    BY <1>6 DEF CoverHook
  <2>3. e.topic \in Topics /\ t \in Time
    BY <1>0, <1>1, <1>6, EventTypes DEF CoverHook, IInv, CoverEvents, TypeOK
  <2> HIDE DEF t
  <2>4. d \in Entry /\ d.covered_topics = [s.covered_topics EXCEPT ![e.topic] = t]
    <3> HIDE DEF s, e
    <3> QED  BY <1>1, <2>3, RecordType, RecordMarks
  <2>5. s.covered_topics \in [Topics -> Time \cup {Never}]
    BY <1>1 DEF Entry
  <2> HIDE DEF d, s, e
  <2>6. /\ retrieved'[k] = [retrieved[k] EXCEPT ![e.topic] = t]
        /\ \A a \in Agents \ {k} : retrieved'[a] = retrieved[a]
    BY <1>1, <1>3, <2>2
  <2>7. /\ \A x \in Topics : retrieved'[k][x] = IF x = e.topic THEN t ELSE retrieved[k][x]
        /\ \A x \in Topics : d.covered_topics[x] =
              IF x = e.topic THEN t ELSE s.covered_topics[x]
        /\ t # Never
    BY <1>1, <1>3, <2>3, <2>4, <2>5, <2>6, TimeIsNotNever
  <2>8. LookupsStay /\ Looked(d, retrieved'[k])
    BY <1>2, <2>6, <2>7 DEF LookupsStay, Looked
  <2> QED
    BY <1>0, <1>1, <1>3, <2>1, <2>2, <2>4, <2>8, KeepLooks
       DEF GInv, IInv, e, CompactedPast
<1>7. CASE ClaimHook(h) /\ event[h].topic \notin Own(h).injected_topics
  <2> DEFINE d == [s EXCEPT !.injected_topics = s.injected_topics \cup {e.topic}]
  <2>1. Keep(h, d, "gone")
    BY <1>7 DEF ClaimHook, Own
  <2>2. compacted' = compacted /\ retrieved' = retrieved /\ clock' = clock
    BY <1>7 DEF ClaimHook
  <2>3. e.topic \in Topics
    BY <1>0, <1>1, <1>7, EventTypes DEF ClaimHook, IInv, CoverEvents
  <2>4. d \in Entry
    <3> HIDE DEF s, e
    <3> QED  BY <1>1, <2>3, OtherFieldTypes
  <2>5. d.covered_topics = s.covered_topics
    <3> HIDE DEF s, e
    <3> QED  BY <1>1 DEF Entry
  <2> HIDE DEF d, s, e
  <2>6. LookupsStay /\ Looked(d, retrieved'[k])
    BY <1>2, <2>2, <2>5 DEF LookupsStay, Looked
  <2> QED
    BY <1>0, <1>1, <1>3, <2>1, <2>2, <2>4, <2>6, KeepLooks
       DEF GInv, IInv, e, CompactedPast
<1> QED
  BY <1>4, <1>5, <1>6, <1>7

\* A step that moves a hook on with the file, and no lookup or compaction.
LEMMA FileStepLooks ==
  ASSUME GInv, retrieved' = retrieved, compacted' = compacted, clock' = clock,
         \A h \in Hooks : memory'[h] \in {memory[h], EmptyState},
         \A i \in Inodes : content'[i] = Torn \/ content'[i] = content[i]
                           \/ \E h \in Hooks : content'[i] = memory[h]
  PROVE  CoverageIsReal' /\ CompactedPast'
<1>1. CoverageIsReal'
  BY EmptyLooked DEF GInv, CoverageIsReal
<1> QED
  BY <1>1 DEF GInv, CompactedPast

LEMMA InitLooks == Init => CoverageIsReal /\ CompactedPast
<1> SUFFICES ASSUME Init PROVE CoverageIsReal /\ CompactedPast
  OBVIOUS
<1>1. /\ \A h \in Hooks : memory[h] = EmptyState
      /\ \A i \in Inodes : content[i] = EmptyState
      /\ \A a \in Agents : compacted[a] = 0
      /\ clock = 0
  BY DEF Init
<1> QED
  BY <1>1, EmptyLooked DEF CoverageIsReal, CompactedPast

LEMMA NextLooks == GInv /\ [Next]_vars => GInv'
<1> SUFFICES ASSUME GInv, [Next]_vars PROVE GInv'
  OBVIOUS
<1>1. EInv'
  BY NextAlone DEF GInv
<1>2. IInv
  BY DEF GInv, EInv
<1>3. ASSUME NEW h \in Hooks, Step(h) PROVE CoverageIsReal' /\ CompactedPast'
  <2>1. CASE ClaimHook(h) /\ event[h].topic \in Own(h).injected_topics
    <3>1. UNCHANGED <<content, memory, retrieved, compacted, clock>>
      BY <2>1 DEF ClaimHook, Own, fileVars
    <3> QED
      BY <3>1, FileStepLooks
  <2>2. CASE OpenTmp(h)
    <3>1. /\ UNCHANGED <<memory, clock, retrieved, compacted>>
          /\ \E j : content' = [content EXCEPT ![j] = Torn]
      BY <2>2 DEF OpenTmp, history
    <3>2. \A i \in Inodes : content'[i] = Torn \/ content'[i] = content[i]
      BY <1>2, <3>1 DEF IInv, TypeOK
    <3> QED
      BY <3>1, <3>2, FileStepLooks
  <2>3. CASE WriteTmp(h)
    <3>1. /\ UNCHANGED <<memory, clock, retrieved, compacted>>
          /\ \E text \in {memory[h], Torn} : content' = [content EXCEPT ![fd[h]] = text]
      BY <2>3 DEF WriteTmp, history
    <3>2. \A i \in Inodes : content'[i] = Torn \/ content'[i] = content[i]
                            \/ \E g \in Hooks : content'[i] = memory[g]
      BY <1>2, <3>1 DEF IInv, TypeOK
    <3> QED
      BY <3>1, <3>2, FileStepLooks
  <2>4. CASE Replace(h)
    <3>1. /\ UNCHANGED <<clock, retrieved, compacted>>
          /\ memory' = [memory EXCEPT ![h] = EmptyState]
          /\ \A i \in Inodes : content'[i] = Torn \/ content'[i] = content[i]
      BY <2>4 DEF Replace, Forget, history
    <3>2. \A g \in Hooks : memory'[g] \in {memory[g], EmptyState}
      BY <1>2, <3>1 DEF IInv, TypeOK
    <3> QED
      BY <3>1, <3>2, FileStepLooks
  <2> QED
    BY <1>3, <2>1, <2>2, <2>3, <2>4, ToolHookLooks, QuietHookLooks DEF Step
<1>4. ASSUME NEW h \in Hooks, NEW e \in Event, Fire(h, e)
      PROVE  CoverageIsReal' /\ CompactedPast'
  <2>1. UNCHANGED <<content, memory, retrieved, compacted, clock>>
    BY <1>4 DEF Fire, fileVars, history
  <2> QED
    BY <2>1, FileStepLooks
<1>5. CASE UNCHANGED vars
  <2>1. UNCHANGED <<content, memory, retrieved, compacted, clock>>
    BY <1>5 DEF vars, fileVars, procVars, history
  <2> QED
    BY <1>1, <2>1, FileStepLooks DEF GInv
<1> QED
  BY <1>1, <1>3, <1>4, <1>5 DEF Next, GInv

\* The step with which a tool call's hook goes from reading to writing.
LEMMA GatedStep ==
  ASSUME GInv, NEW h \in Hooks, ToolHook(h), Consequential(event[h])
  PROVE  LET e == event[h] IN
         /\ retrieved'[e.agent][e.topic] # Never
         /\ ~overlap' => retrieved'[e.agent][e.topic] >= compacted[e.agent]
<1> DEFINE e == event[h]
           k == e.agent
           s == Own(h)
           d == Decide(s, e)
           r2 == LookupsAfter(s, e, retrieved[k], clock)
<1>0. IInv
  BY DEF GInv, EInv
<1>1. /\ e \in ToolEvent /\ k \in Agents /\ e.topic \in Topics
      /\ retrieved' = [retrieved EXCEPT ![k] = r2]
      /\ Keep(h, PreToolUse(s, e, clock), "gone") /\ pc[h] = "read"
  BY <1>0, ToolLookups
<1>2. /\ s \in Entry /\ clock \in Time /\ compacted[k] \in Time
      /\ retrieved \in [Agents -> [Topics -> Time \cup {Never}]]
      /\ compacted[k] <= clock
  BY <1>0, <1>1, OwnEntry DEF IInv, TypeOK, GInv, CompactedPast
<1>3. Looked(s, retrieved[k])
  <2>1. AllLooked(ReadState, retrieved)
    BY <1>0, ReadLooked DEF IInv, GInv
  <2> QED
    BY <1>1, <2>1 DEF AllLooked, Own, AgentKey
<1>4. /\ d.covered_topics = s.covered_topics
      /\ d.last_compaction_at = s.last_compaction_at
  BY <1>1, <1>2, DecideMarks
<1>5. retrieved'[k][e.topic] = r2[e.topic]
  <2> HIDE DEF r2, e
  <2> QED  BY <1>1, <1>2
<1>6. CASE GateLooks(d, e)
  <2>1. r2 = [retrieved[k] EXCEPT ![e.topic] = clock]
    BY <1>6 DEF LookupsAfter
  <2>2. r2[e.topic] = clock
    <3> HIDE DEF r2, e
    <3> QED  BY <1>1, <1>2, <2>1
  <2>3. clock \in Nat /\ compacted[k] \in Nat /\ clock # Never
    BY <1>2, HookBoundAssumption DEF Time, Never
  <2> HIDE DEF r2, e
  <2> QED
    BY <1>2, <1>5, <2>2, <2>3 DEF e
<1>7. CASE ~GateLooks(d, e)
  <2>1. IsCovered(d, e.topic)
    BY <1>7 DEF GateLooks
  <2>2. /\ s.covered_topics[e.topic] # Never
        /\ s.covered_topics[e.topic] >= s.last_compaction_at
    BY <1>4, <2>1 DEF IsCovered
  <2>3. r2 = retrieved[k]
    BY <1>7 DEF LookupsAfter, Consequential
  <2>4. retrieved[k][e.topic] # Never
    BY <1>1, <1>3, <2>2 DEF Looked
  <2>5. ~overlap' => /\ s.covered_topics = retrieved[k]
                     /\ s.last_compaction_at = compacted[k]
    <3> SUFFICES ASSUME ~overlap' PROVE ExactEntry(s, streak[k], edits[k], retrieved[k],
                                                   compacted[k], full[k])
      BY DEF ExactEntry
    <3> QED
      BY <1>1, OwnExact DEF GInv
  <2> QED
    BY <1>5, <2>2, <2>3, <2>4, <2>5
<1> QED
  BY <1>6, <1>7

\* No consequential call of an agent goes ahead on a topic that was not looked
\* up for that agent, nor, unless hooks have overlapped, on one it was told of
\* only before its last compaction (mcp_enforcement.py, the coverage gate of
\* PreToolUse; issue #159).
THEOREM GateHolds == Spec => ConsequentialOnlyAfterLookup
<1> DEFINE Gated ==
      \A h \in Hooks :
          LET e == event[h] IN
          pc[h] = "read" /\ pc'[h] = "open" /\ e.kind = "tool" /\ Consequential(e) =>
              /\ retrieved'[e.agent][e.topic] # Never
              /\ ~overlap' => retrieved'[e.agent][e.topic] >= compacted[e.agent]
<1>1. Init => GInv
  BY InitHolds, InitAlone, InitLooks DEF GInv, EInv
<1>2. GInv /\ [Next]_vars => [Gated]_vars
  <2> SUFFICES ASSUME GInv, Next, NEW h \in Hooks,
                      pc[h] = "read", pc'[h] = "open", event[h].kind = "tool",
                      Consequential(event[h])
               PROVE  LET e == event[h] IN
                      /\ retrieved'[e.agent][e.topic] # Never
                      /\ ~overlap' => retrieved'[e.agent][e.topic] >= compacted[e.agent]
    OBVIOUS
  <2>1. pc \in [Hooks -> PC]
    BY DEF GInv, EInv, IInv, TypeOK
  <2>2. ASSUME NEW g \in Hooks, NEW e \in Event, Fire(g, e) PROVE FALSE
    BY <2>1, <2>2 DEF Fire
  <2>3. PICK g \in Hooks : Step(g)
    BY <2>2 DEF Next
  <2>4. g = h
    <3> SUFFICES ASSUME g # h PROVE FALSE
      OBVIOUS
    <3>1. pc'[h] = pc[h]
      BY <2>1, <2>3 DEF Step, ToolHook, CompactHook, FailureHook, CoverHook, ClaimHook,
                        Keep, OpenTmp, WriteTmp, Replace
    <3> QED
      BY <3>1
  <2>5. ToolHook(h)
    BY <2>3, <2>4 DEF Step, CompactHook, FailureHook, CoverHook, ClaimHook, OpenTmp,
                      WriteTmp, Replace
  <2> QED
    BY <2>5, GatedStep
<1>3. Spec => []GInv
  BY <1>1, NextLooks, PTL DEF Spec
<1> HIDE DEF Gated
<1>4. Spec => [][Gated]_vars
  BY <1>2, <1>3, PTL DEF Spec
<1> QED
  BY <1>4 DEF Gated, ConsequentialOnlyAfterLookup
============================================================================
