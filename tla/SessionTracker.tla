--------------------------- MODULE SessionTracker ---------------------------
(***************************************************************************)
(* The nudges of one client session (tracker.py).  Every tool begins with  *)
(* record_call, which may raise MandatoryStopError, and most end with      *)
(* get_nudge; the tools are synchronous functions of one event loop, so a  *)
(* whole call of a session is one step.  ScopedTracker gives each session  *)
(* a tracker of its own.                                                   *)
(*                                                                         *)
(* One tool stands for all those the tracker treats alike; one topic and   *)
(* one periodic tool stand for all.  A tool that returns without get_nudge *)
(* (restore_rule, session_start) looks to the tracker like one that        *)
(* raises.  The thresholds are NudgeConfig's.                              *)
(***************************************************************************)
EXTENDS Integers

CONSTANTS
    StoreTurns, CheckpointTurns, MandatoryTurns, Grace, HyperFocus,
    RulesInterval, Escalation, PeriodicTurns,
    Blocking,   \* mandatory_stop_blocking
    Suppress,   \* suppress_repeat_nudges
    Advisory,   \* the periodic tool is in advisory_periodic_tools
    MaxTurns    \* bound: calls between two handoffs

ASSUME NudgeAssumption ==
    /\ {StoreTurns, CheckpointTurns, MandatoryTurns, HyperFocus, Escalation,
        PeriodicTurns} \subseteq Nat \ {0}
    /\ {Grace, RulesInterval, MaxTurns} \subseteq Nat
    /\ {Blocking, Suppress, Advisory} \subseteq BOOLEAN

\* Tools by what the tracker tells apart.
Readers == {"list_rules"}
Exempt == {"session_handoff", "save_snapshot", "session_summary"}
Storers == {"add_knowledge", "report_error", "record_decision"}
SessionTools ==
    Readers \cup Exempt \cup Storers \cup
    {"search", "link_knowledge", "sync_rules"}

Nudges == {"store_reminder", "checkpoint", "mandatory_stop", "rules_check",
           "hyper_focus", "periodic"}

Resolves(n) ==
    CASE n = "store_reminder" -> {"add_knowledge", "report_error"}
      [] n \in {"checkpoint", "mandatory_stop"} ->
            {"session_handoff", "save_snapshot"}
      [] n = "rules_check" -> {"search", "report_error"}
      [] n = "hyper_focus" -> {"add_knowledge", "session_handoff"}
      [] n = "periodic" -> {"link_knowledge"}

IsAdvisory(n) == n = "periodic" /\ Advisory

VARIABLES
    turn,            \* turn_count
    lastStore,       \* last_store_turn
    lastCheckpoint,  \* last_checkpoint_turn
    queried,         \* topic_freq of the topic
    callsSince,      \* calls_since of the periodic tool
    pending,         \* pending_nudges
    ignored,         \* ignored_counts, 0 where it has no entry
    shown,           \* pending nudges whose message the client was sent
    told,            \* the nudge the last call was refused for, or "none"
    obeyed,          \* nudges resolved by calls refused again, in a row
    read             \* the last call was of a read-only tool

counters == <<turn, lastStore, lastCheckpoint, queried, callsSince>>
nudging == <<pending, ignored, shown>>
sessionVars == <<counters, nudging, told, obeyed, read>>

SessionTypeOK ==
    /\ turn \in 0..MaxTurns
    /\ lastStore \in 0..turn /\ lastCheckpoint \in 0..turn
    /\ queried \in 0..turn /\ callsSince \in 0..turn
    /\ pending \subseteq Nudges /\ shown \subseteq pending
    /\ ignored \in [Nudges -> 0..turn]
    /\ told \in Nudges \cup {"none"}
    /\ obeyed \subseteq Nudges
    /\ read \in BOOLEAN

SessionInit ==
    /\ turn = 0 /\ lastStore = 0 /\ lastCheckpoint = 0
    /\ queried = 0 /\ callsSince = 0
    /\ pending = {} /\ ignored = [n \in Nudges |-> 0] /\ shown = {}
    /\ told = "none" /\ obeyed = {} /\ read = FALSE

----------------------------------------------------------------------------
(* record_call                                                             *)

Resolved(tool) == {n \in pending : tool \in Resolves(n)}
StillPending(tool) == pending \ Resolved(tool)

\* Mutant: the ignored count survives the resolving call.
IgnoredForever(tool) ==
    [n \in Nudges |->
        IF n \in StillPending(tool) /\ tool \notin Readers
        THEN ignored[n] + 1 ELSE ignored[n]]

\* The ignored counts after the call: a resolved nudge starts over, the others
\* count the call unless it only reads.
Ignored(tool) ==
    [n \in Nudges |->
        IF n \in Resolved(tool) THEN 0
        ELSE IF n \in StillPending(tool) /\ tool \notin Readers
        THEN ignored[n] + 1 ELSE ignored[n]]

\* Mutant: the grace counts from the last store.
PastGraceSinceStore(tool) ==
    Blocking /\ turn + 1 - lastStore > MandatoryTurns + Grace

\* is_blocked, with turn_count already advanced.
PastGrace(tool) ==
    Blocking /\ turn + 1 - lastCheckpoint > MandatoryTurns + Grace

Escalated(tool) ==
    {n \in Nudges : Ignored(tool)[n] >= Escalation /\ ~IsAdvisory(n)}

\* Mutant: the read-only early return is missing.
RefusesReads(tool) ==
    IF tool \in Exempt THEN {}
    ELSE IF PastGrace(tool) THEN {"mandatory_stop"} ELSE Escalated(tool)

\* The nudges for which record_call raises: any of them may be the one named.
Refusals(tool) ==
    IF tool \in Exempt \cup Readers THEN {}
    ELSE IF PastGrace(tool) THEN {"mandatory_stop"} ELSE Escalated(tool)

\* What record_call leaves behind, whether it raises or not. A read keeps the
\* distance of both watermarks to turn_count.
RecordCall(tool, focused) ==
    /\ turn < MaxTurns
    /\ turn' = turn + 1
    /\ queried' = IF focused THEN queried + 1 ELSE queried
    /\ callsSince' = IF tool = "link_knowledge" THEN 0 ELSE callsSince + 1
    /\ ignored' = Ignored(tool)
    /\ read' = (tool \in Readers)

ReadShift(tool) == IF tool \in Readers THEN 1 ELSE 0

----------------------------------------------------------------------------
(* get_nudge                                                               *)

\* The nudges triggered by the counters as the call leaves them.
Triggered(focused) ==
    {n \in Nudges :
        CASE n = "mandatory_stop" -> turn' - lastCheckpoint' >= MandatoryTurns
          [] n = "checkpoint" -> turn' - lastCheckpoint'
                                    \in CheckpointTurns..(MandatoryTurns - 1)
          [] n = "store_reminder" -> turn' - lastStore' >= StoreTurns
          [] n = "hyper_focus" -> focused /\ queried' >= HyperFocus
          [] n = "rules_check" -> RulesInterval > 0 /\ turn' % RulesInterval = 0
          [] n = "periodic" -> callsSince' >= PeriodicTurns}

\* Mutant: pending_nudges is updated before repeats are suppressed.
GetNudgeMarksFirst(tool, focused) ==
    /\ pending' = StillPending(tool) \cup Triggered(focused)
    /\ shown' = (shown \ Resolved(tool)) \cup
                (Triggered(focused) \ (IF Suppress THEN pending' ELSE {}))

\* A nudge already pending is triggered again without its message.
GetNudge(tool, focused) ==
    /\ pending' = StillPending(tool) \cup Triggered(focused)
    /\ shown' = (shown \ Resolved(tool)) \cup
                (Triggered(focused) \
                    (IF Suppress THEN StillPending(tool) ELSE {}))

NoNudge(tool) ==
    /\ pending' = StillPending(tool)
    /\ shown' = shown \ Resolved(tool)

----------------------------------------------------------------------------
(* Calls                                                                   *)

\* record_call raises.
Refused(tool, focused) ==
    /\ RecordCall(tool, focused)
    /\ told' \in Refusals(tool)
    /\ obeyed' = IF told # "none" /\ tool \in Resolves(told)
                 THEN obeyed \cup {told} ELSE {}
    /\ NoNudge(tool)
    /\ UNCHANGED <<lastStore, lastCheckpoint>>

\* The tool runs. It moves its watermark first, before the work, which may
\* raise: then get_nudge is not reached.
Runs(tool, focused) ==
    /\ tool # "session_handoff"
    /\ RecordCall(tool, focused)
    /\ Refusals(tool) = {}
    /\ told' = "none" /\ obeyed' = {}
    /\ lastStore' = IF tool \in Storers THEN turn'
                    ELSE lastStore + ReadShift(tool)
    /\ lastCheckpoint' = IF tool = "save_snapshot" THEN turn'
                         ELSE lastCheckpoint + ReadShift(tool)
    /\ \/ GetNudge(tool, focused)
       \/ NoNudge(tool)

\* session_handoff is never refused; reset_all clears what record_call did.
Handoff ==
    /\ turn' = 0 /\ lastStore' = 0 /\ lastCheckpoint' = 0
    /\ queried' = 0 /\ callsSince' = 0
    /\ pending' = {} /\ ignored' = [n \in Nudges |-> 0] /\ shown' = {}
    /\ told' = "none" /\ obeyed' = {} /\ read' = FALSE

SessionNext ==
    \/ Handoff
    \/ \E tool \in SessionTools, focused \in BOOLEAN :
          (focused => tool \notin Exempt)
          /\ (Refused(tool, focused) \/ Runs(tool, focused))

SessionSpec == SessionInit /\ [][SessionNext]_sessionVars

----------------------------------------------------------------------------
(* What the nudges promise.                                                *)

\* Nobody is blocked for a nudge that was never shown: a nudge accrues ignores
\* only after its message reached the client since it was last resolved, even
\* though repeats are suppressed.
EscalationWasShown == \A n \in Nudges : ignored[n] > 0 => n \in shown

\* A client that does as it is told gets through: while every call resolves
\* the nudge the refusal before it named, no nudge is named twice, so there
\* are fewer such refusals in a row than there are nudges.
ObedienceGetsThrough == told \notin obeyed

\* A burst of reads never blocks the client's own follow-up call: a read-only
\* tool is never refused, and leaves refused only tools refused before.
ReadsBlockNothing ==
    [][read' /\ turn' # turn =>
          /\ told' = "none"
          /\ \A tool \in SessionTools :
                Refusals(tool)' \subseteq Refusals(tool)]_sessionVars

\* With blocking on, no store succeeds past the grace: the last store is never
\* further than that from the last checkpoint, however many reads, failures
\* and refusals lie between.
StoresWaitForCheckpoint ==
    Blocking => lastStore - lastCheckpoint <= MandatoryTurns + Grace
=============================================================================
