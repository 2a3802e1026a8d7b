-------------------------- MODULE AnalysisPipeline --------------------------
(***************************************************************************)
(* One alert's way through the analyzer: triage, the related logs, the     *)
(* verdict, the search for the alert's own document, the record in soc-ai, *)
(* and then the background task: a rule for the alert, and records and     *)
(* rules for the attacks among its related logs that raised no alert.      *)
(* Alerts are worked on side by side.  An analyzer instance remembers the  *)
(* signatures and missed attacks it has dealt with; a new instance starts  *)
(* without that memory while tasks of the old one go on.                   *)
(***************************************************************************)
EXTENDS Integers, Sequences, FiniteSets, FiniteSetsExt

CONSTANTS
    Alerts,         \* alerts
    Pushed,         \* those that Logstash pushes; the others are from before
    Events,         \* logged events that look like an attack and raised no alert
    ByHand,         \* bound: logs that a person may send for analysis
    Flow, Time,     \* of each log
    Sig,            \* of each log: its signature, 0 for none
    Severity,       \* of each alert
    What,           \* of each event: its URL and attack types
    HISTORY,        \* alerts a history query returns (20)
    None,           \* no value
    MaxInstances,   \* bound: analyzer instances over a behaviour
    MaxDays,        \* bound: days, each with an index of its own
    MaxFaults       \* bound: failures and restarts

Logs == Alerts \cup Events
Instances == 1..MaxInstances
Keys == {<<Flow[a], What[e]>> : a \in Logs, e \in Events}

ASSUME PipelineAssumption ==
    /\ Alerts \cap Events = {} /\ Pushed \subseteq Alerts /\ ByHand \subseteq Logs
    /\ None \notin Logs
    /\ \A e \in Events : Sig[e] = 0
    /\ Sig \in [Logs -> Nat] /\ Time \in [Logs -> Nat] /\ Severity \in [Logs -> Nat]
    /\ MaxInstances \in Nat \ {0} /\ MaxDays \in Nat \ {0} /\ MaxFaults \in Nat /\ HISTORY \in Nat

VARIABLES
    visible,    \* logs that searches of soc-* find
    records,    \* soc-ai documents
    noted,      \* _rule_generated_sids of each instance
    processed,  \* _processed_unalerted of each instance
    current, today, faults,
    task,       \* the handling of each log
    raced,      \* signatures and keys two tasks of one instance dealt with at once
    given       \* tasks whose missed attacks a failure made the code give up

vars == <<visible, records, noted, processed, current, today, faults, task, raced, given>>
others == <<current, today>>

Idle == [at |-> "new", manual |-> FALSE, dated |-> TRUE, inst |-> 1, related |-> {}, own |-> FALSE, threat |-> FALSE,
         source |-> None, doc |-> None, day |-> 1, rule |-> "none", owed |-> {}, todo |-> {}, item |-> None, fresh |-> {}]

Init ==
    /\ visible \in {Logs \ Pushed, Logs}
    /\ records = {} /\ noted = << {} >> /\ processed = << {} >>
    /\ current = 1 /\ today = 1 /\ faults = 0
    /\ task = [l \in Logs |-> Idle]
    /\ raced = {} /\ given = {}

Fault == faults < MaxFaults /\ faults' = faults + 1
Goes(l, at) == task' = [task EXCEPT ![l].at = at]
\* What is left of a task that is over, for the properties.
Over(l) == [Idle EXCEPT !.at = "done", !.inst = task[l].inst, !.doc = task[l].doc, !.day = task[l].day,
                        !.rule = task[l].rule, !.owed = task[l].owed]
Ends(l) == task' = [task EXCEPT ![l] = Over(l)]
Key(l, e) == <<Flow[l], What[e]>>

-----------------------------------------------------------------------------
(* The main analysis                                                       *)

\* A push may come before the alert's own document can be found; a person picks a
\* document that is there, an event that raised no alert included.  A push may lack a time.
Receive(l, manual, dated) ==
    /\ task[l].at = "new"
    /\ IF manual THEN l \in visible \cap ByHand /\ dated ELSE l \in Pushed
    /\ task' = [task EXCEPT ![l].at = "query", ![l].manual = manual, ![l].dated = dated, ![l].inst = current]
    /\ UNCHANGED <<visible, records, noted, processed, faults, raced, given, others>>

\* All logs of the flow and some of the addresses around that time; recent alerts of the
\* addresses.
Session(l) == {s \in SUBSET visible : {x \in visible : Flow[x] = Flow[l]} \subseteq s}
Recent(n) ==
    LET seen == visible \cap Alerts
    IN  {h \in SUBSET seen : /\ Cardinality(h) = (IF n < Cardinality(seen) THEN n ELSE Cardinality(seen))
                             /\ \A x \in h, y \in seen \ h : Time[y] <= Time[x]}

\* From severity 2 on the session is queried, from 3 on the history too; below that the
\* model says, and if it fails the session is queried.
Triage(l, session, history) ==
    IF Severity[l] >= 2 THEN session /\ (history <=> Severity[l] >= 3) ELSE TRUE
Learns(l, logs, recent, own) ==
    task' = [task EXCEPT ![l].at = "judge", ![l].related = recent \cup logs,
                         ![l].owed = (recent \cup logs) \cap Events, ![l].own = own]
Query(l, session, history) ==
    /\ task[l].at = "query" /\ Triage(l, session, history)
    /\ \E logs \in IF session THEN Session(l) ELSE {{}}, recent \in IF history THEN Recent(HISTORY) ELSE {{}} :
          Learns(l, logs, recent, session /\ l \in visible)
    /\ UNCHANGED <<visible, records, noted, processed, faults, raced, given, others>>

\* Each search may fail alone, and the analysis goes on with what the others found: without
\* the flow's the addresses may still lead to any of its logs, in no order of their own.
QueryFails(l, session, history, flow) ==
    /\ task[l].at = "query" /\ Triage(l, session, history)
    /\ session \/ history
    /\ \E logs \in IF ~session THEN {{}} ELSE IF flow THEN Session(l) ELSE SUBSET visible,
          recent \in IF history THEN {{}} \cup Recent(HISTORY) ELSE {{}} :
             Learns(l, logs, recent, session /\ flow /\ l \in visible)
    /\ Fault
    /\ UNCHANGED <<visible, records, noted, processed, raced, given, others>>

\* The document of the alert: the pushed alert has no _id.  First the related log with its
\* signature that is nearest in time, those of the flow before others if the session was
\* queried; then a search for flow, signature and time, and one without the time.
Distance(x, y) == IF Time[x] < Time[y] THEN Time[y] - Time[x] ELSE Time[x] - Time[y]
\* Mutation: the first related log with the signature, the flow's before others.
AnyOf(l, logs) == {x \in logs : Flow[x] = Flow[l]}
Nearest(l, logs) ==
    LET near == {x \in logs : \A y \in logs : Distance(l, x) <= Distance(l, y)}
        same == {x \in near : Flow[x] = Flow[l]}
    IN  IF same # {} /\ task[l].own THEN same ELSE near
Candidates(l) == {x \in task[l].related : Sig[x] = Sig[l] /\ Sig[x] # 0}
Findable(l) == {x \in visible : Sig[x] = Sig[l] /\ Sig[x] # 0 /\ Flow[x] = Flow[l]}
Sources(l) ==
    LET exact == {x \in Findable(l) : Time[x] = Time[l]}
        latest == {x \in Findable(l) : \A y \in Findable(l) : Time[y] <= Time[x]}
    IN  CASE task[l].manual -> {l}
          [] ~task[l].manual /\ Candidates(l) # {} -> Nearest(l, Candidates(l))
          [] ~task[l].manual /\ Candidates(l) = {} /\ exact # {} -> exact
          [] ~task[l].manual /\ Candidates(l) = {} /\ exact = {} /\ latest # {} -> latest
          [] OTHER -> {None}

\* A failed analysis is taken for a suspicion of low confidence.
Judge(l, threat) ==
    /\ task[l].at = "judge" /\ task[l].dated
    /\ \E s \in Sources(l) :
          task' = [task EXCEPT ![l].at = "write", ![l].threat = threat, ![l].source = s]
    /\ UNCHANGED <<visible, records, noted, processed, faults, raced, given, others>>

\* Without a time the current one is asked for by a name that a later import has made local
\* to the function: the analysis raises and the request ends with an error.
JudgeRaises(l) ==
    /\ task[l].at = "judge" /\ ~task[l].dated
    /\ Goes(l, "raised")
    /\ UNCHANGED <<visible, records, noted, processed, faults, raced, given, others>>

Triaged(l) == [kind |-> "alert_triage", log |-> l, source |-> None, key |-> None, inst |-> task[l].inst,
               rule |-> "none"]
WriteAnalysis(l) ==
    /\ task[l].at = "write"
    /\ records' = records \cup {Triaged(l)}
    /\ task' = [task EXCEPT ![l].at = "rule", ![l].doc = l, ![l].day = today, ![l].source = None, ![l].own = FALSE]
    /\ UNCHANGED <<visible, noted, processed, faults, raced, given, others>>

\* Indexing raises, or the mail queue after it: the handler has no document's id.  A
\* pushed alert goes on without it, a manual analysis ends.
WriteAnalysisFails(l, indexed) ==
    /\ task[l].at = "write"
    /\ records' = IF indexed THEN records \cup {Triaged(l)} ELSE records
    /\ IF task[l].manual THEN Ends(l)
       ELSE task' = [task EXCEPT ![l].at = "rule", ![l].source = None, ![l].own = FALSE]
    /\ given' = given \cup {l}
    /\ Fault
    /\ UNCHANGED <<visible, noted, processed, raced, others>>

-----------------------------------------------------------------------------
(* The rule for the alert                                                  *)

Wanted(l) == task[l].threat /\ (Sig[l] = 0 \/ Sig[l] \notin noted[task[l].inst])
SkipRule(l) ==
    /\ task[l].at = "rule" /\ ~Wanted(l)
    /\ Goes(l, "search")
    /\ UNCHANGED <<visible, records, noted, processed, faults, raced, given, others>>

StartRule(l) ==
    LET i == task[l].inst
    IN  /\ task[l].at = "rule" /\ Wanted(l)
        /\ Goes(l, "generate")
        /\ raced' = raced \cup {<<i, <<Sig[l], None>>>> : k \in {k \in Logs \ {l} :
                                      task[k].at = "generate" /\ task[k].inst = i /\ Sig[k] = Sig[l]}}
        /\ UNCHANGED <<visible, records, noted, processed, faults, given, others>>

\* Mutation: only a rule that was written is noted.
NotesIfWritten(l, outcome) == IF outcome = "written" THEN {Sig[l]} \ {0} ELSE {}
\* A rule that was refused and a failed generation are noted as well.
Notes(l, outcome) == {Sig[l]} \ {0}
EndRule(l, outcome) ==
    /\ task[l].at = "generate"
    /\ noted' = [noted EXCEPT ![task[l].inst] = @ \cup Notes(l, outcome)]
    /\ task' = [task EXCEPT ![l].at = "update", ![l].rule = outcome]
    /\ UNCHANGED <<visible, records, processed, faults, raced, given, others>>

\* The update goes to the index of the day on which it is made.
ResultIndex == today
Update(l) ==
    /\ task[l].at = "update"
    /\ records' = {IF r.log = task[l].doc /\ r.kind = "alert_triage" /\ task[l].day = ResultIndex
                   THEN [r EXCEPT !.rule = task[l].rule] ELSE r : r \in records}
    /\ Goes(l, "search")
    /\ UNCHANGED <<visible, noted, processed, faults, raced, given, others>>

\* Mutation: a failed update ends the task.
AfterFailedUpdateDone == "done"
AfterFailedUpdate == "search"
UpdateFails(l) ==
    /\ task[l].at = "update"
    /\ Goes(l, AfterFailedUpdate)
    /\ Fault
    /\ UNCHANGED <<visible, records, noted, processed, raced, given, others>>

-----------------------------------------------------------------------------
(* The missed attacks                                                      *)

\* Mutation: alerts among the related logs count as well.
AnyAttack(l) == task[l].related
\* What MissedAttacks finds.
Unalerted(l) == task[l].related \cap Events
Search(l) ==
    /\ task[l].at = "search"
    /\ task' = [task EXCEPT ![l].at = "sift", ![l].todo = Unalerted(l), ![l].related = {}]
    /\ UNCHANGED <<visible, records, noted, processed, faults, raced, given, others>>

\* Mutation: only the alert's own finds are compared.
KnownToTask(l, e) == e \in task[l].fresh
Known(l, e) == Key(l, e) \in processed[task[l].inst]
\* Looking a key up and adding it are two operations on a set that tasks share.
LookUp(l, e) ==
    /\ task[l].at = "sift" /\ e \in task[l].todo
    /\ task' = IF Known(l, e)
               THEN [task EXCEPT ![l].todo = @ \ {e}]
               ELSE [task EXCEPT ![l].todo = @ \ {e}, ![l].at = "add", ![l].item = e]
    /\ UNCHANGED <<visible, records, noted, processed, faults, raced, given, others>>

AddKey(l) ==
    LET key == Key(l, task[l].item)  i == task[l].inst
    IN  /\ task[l].at = "add"
        /\ processed' = [processed EXCEPT ![i] = @ \cup {key}]
        /\ raced' = raced \cup {<<i, key>> : k \in {k \in Logs \ {l} :
                        task[k].at = "add" /\ task[k].inst = i /\ Key(k, task[k].item) = key}}
        /\ task' = [task EXCEPT ![l].at = "sift", ![l].fresh = @ \cup {task[l].item}, ![l].item = None]
        /\ UNCHANGED <<visible, records, noted, faults, given, others>>

\* The short analysis and the rules of all of them, then a record for each.
Sifted(l) ==
    /\ task[l].at = "sift" /\ task[l].todo = {}
    /\ IF task[l].fresh = {} THEN Ends(l) ELSE Goes(l, "record")
    /\ UNCHANGED <<visible, records, noted, processed, faults, raced, given, others>>

\* The record carries the flow and the addresses of the alert.
Recorded(l, e) == [kind |-> "semantic_unalerted", log |-> l, source |-> e, key |-> Key(l, e),
                   inst |-> task[l].inst, rule |-> "none"]
AfterRecord(l, e) ==
    IF task[l].fresh = {e} THEN [task EXCEPT ![l] = Over(l)] ELSE [task EXCEPT ![l].fresh = @ \ {e}]
RecordMissed(l, e) ==
    /\ task[l].at = "record" /\ e \in task[l].fresh /\ task[l].doc # None
    /\ records' = records \cup {Recorded(l, e)}
    /\ task' = AfterRecord(l, e)
    /\ UNCHANGED <<visible, noted, processed, faults, raced, given, others>>

RecordMissedFails(l, e) ==
    /\ task[l].at = "record" /\ e \in task[l].fresh /\ task[l].doc # None
    /\ task' = AfterRecord(l, e)
    /\ given' = given \cup {l}
    /\ Fault
    /\ UNCHANGED <<visible, records, noted, processed, raced, others>>

\* Without the document's id the name is unbound: the task ends, the keys stay.
RecordUnbound(l) ==
    /\ task[l].at = "record" /\ task[l].doc = None
    /\ Ends(l)
    /\ UNCHANGED <<visible, records, noted, processed, faults, raced, given, others>>

-----------------------------------------------------------------------------
(* The surroundings                                                        *)

Appear(l) ==
    /\ l \notin visible
    /\ visible' = visible \cup {l}
    /\ UNCHANGED <<records, noted, processed, faults, task, raced, given, others>>

Midnight ==
    /\ today < MaxDays
    /\ today' = today + 1
    /\ UNCHANGED <<visible, records, noted, processed, faults, task, raced, given, current>>

NewInstance ==
    /\ current < MaxInstances
    /\ current' = current + 1
    /\ noted' = noted \o << {} >> /\ processed' = processed \o << {} >>
    /\ UNCHANGED <<visible, records, raced, today>>

ReloadAnalyzer == NewInstance /\ UNCHANGED <<faults, task, given>>
Restart ==
    /\ NewInstance
    /\ task' = [l \in Logs |-> IF task[l].at \in {"new", "raised"} THEN task[l] ELSE Over(l)]
    /\ given' = given \cup {l \in Logs : task[l].at \notin {"new", "done", "raised"}}
    /\ Fault

-----------------------------------------------------------------------------
Background(l) ==
    \/ SkipRule(l) \/ StartRule(l) \/ \E o \in {"written", "refused"} : EndRule(l, o)
    \/ Update(l) \/ Search(l) \/ AddKey(l) \/ Sifted(l) \/ RecordUnbound(l)
    \/ \E e \in Events : LookUp(l, e) \/ RecordMissed(l, e)
Work(l) ==
    \/ \E s, h \in BOOLEAN : Query(l, s, h)
    \/ \E t \in BOOLEAN : Judge(l, t)
    \/ JudgeRaises(l) \/ WriteAnalysis(l) \/ Background(l)
Failing(l) ==
    \/ UpdateFails(l) \/ \E s, h, f \in BOOLEAN : QueryFails(l, s, h, f)
    \/ \E indexed \in BOOLEAN : WriteAnalysisFails(l, indexed)
    \/ \E e \in Events : RecordMissedFails(l, e)

Next ==
    \/ \E l \in Logs : Work(l) \/ Failing(l) \/ Appear(l) \/ \E m, d \in BOOLEAN : Receive(l, m, d)
    \/ Midnight \/ ReloadAnalyzer \/ Restart

Spec == Init /\ [][Next]_vars
-----------------------------------------------------------------------------
(* Properties                                                              *)

\* Types, and what a task in progress must know.
TypeOK ==
    /\ visible \subseteq Logs /\ current \in Instances /\ today \in 1..MaxDays
    /\ \A i \in 1..current : noted[i] \subseteq {Sig[l] : l \in Logs} \ {0} /\ processed[i] \subseteq Keys
    /\ \A l \in Logs :
          LET t == task[l]
          IN  /\ t.inst \in 1..current /\ t.related \subseteq Logs /\ t.day \in 1..today
              /\ t.todo \cup t.fresh \subseteq Events
              /\ t.at = "add" <=> t.item \in Events
              /\ t.doc # None => \E r \in records : r.kind = "alert_triage" /\ r.log = t.doc

\* analyzer.py, _enrich_metadata: the record of an alert points to a document with the
\* alert's signature; to one of its own flow and time if the session was queried and the
\* document could be found by then, however many like it were around.
SourceIsTheAlert ==
    \A l \in Logs :
        LET s == task[l].source
        IN  task[l].at = "write" /\ s # None =>
                /\ Sig[s] = Sig[l]
                /\ task[l].own => Flow[s] = Flow[l] /\ Time[s] = Time[l]

\* analyzer.py, _rule_generated_sids: one instance tries a rule for a signature once,
\* whatever came of it, unless two tasks were at it at the same time.
OneRulePerSignature ==
    \A k, l \in {t \in Logs : task[t].at = "generate" \/ task[t].rule # "none"} :
        k # l /\ task[k].inst = task[l].inst /\ Sig[k] = Sig[l] /\ Sig[k] # 0
            => <<task[k].inst, <<Sig[k], None>>>> \in raced

\* analyzer.py, _processed_unalerted: one instance records a missed attack of a flow once,
\* however many alerts lead to it, unless two tasks looked it up at the same time.
OneRecordPerMissedAttack ==
    \A r, q \in {x \in records : x.kind = "semantic_unalerted"} :
        r # q /\ r.inst = q.inst /\ r.key = q.key => <<r.inst, r.key>> \in raced

\* main.py, _bg_task: what happens to the rule does not stop the search for missed attacks.
\* When a task is over, each of those among its logs has a record of its instance or is in
\* the hands of a task of it; only if the main record or its own could not be written or
\* the process died, it may have none, and then later alerts do not bring it back.
MissedAttacksGetRecorded ==
    \A l \in Logs : task[l].at = "done" /\ l \notin given =>
        \A e \in task[l].owed :
            \/ \E r \in records : r.inst = task[l].inst /\ r.key = Key(l, e)
            \/ \E k \in Logs :
                  /\ task[k].inst = task[l].inst
                  /\ \/ k \in given /\ Key(l, e) \in processed[task[l].inst]
                     \/ \E f \in task[k].fresh : Key(k, f) = Key(l, e)

\* analyzer.py, _build_unalerted_analysis: the flow and the addresses in the record of a
\* missed attack, which automatic blocking acts on, are those of the attack.
MissedAttackOfItsFlow ==
    \A r \in records : r.kind = "semantic_unalerted" => Flow[r.source] = r.key[1]
=============================================================================
