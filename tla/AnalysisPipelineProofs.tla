----------------------- MODULE AnalysisPipelineProofs -----------------------
(* Theorems about AnalysisPipeline, for every value of its constants.      *)
EXTENDS AnalysisPipeline, TLAPS

-----------------------------------------------------------------------------
(* Types                                                                   *)

Places == {"new", "query", "judge", "raised", "write", "rule", "generate", "update", "search", "sift", "add", "record", "done"}
TaskRow == [at: Places, manual: BOOLEAN, dated: BOOLEAN, inst: Instances, related: SUBSET Logs, own: BOOLEAN,
            threat: BOOLEAN, source: Logs \cup {None}, doc: Logs \cup {None}, day: Nat,
            rule: {"none", "written", "refused"}, owed: SUBSET Events, todo: SUBSET Events,
            item: Events \cup {None}, fresh: SUBSET Events]

TypeInv ==
    /\ visible \subseteq Logs
    /\ current \in Instances /\ today \in Nat
    /\ noted \in Seq(SUBSET Nat) /\ Len(noted) = current
    /\ processed \in Seq(SUBSET Keys) /\ Len(processed) = current
    /\ task \in [Logs -> TaskRow]
    /\ \A l \in Logs :
          /\ task[l].inst <= current
          /\ task[l].at \in {"new", "query"} => task[l].rule = "none" /\ task[l].fresh = {} /\ ~task[l].own
          /\ task[l].at = "add" => task[l].item \in Events

\* Two memories of instances, one step apart.
LEMMA MemoryStep ==
    ASSUME TypeInv, NewInstance
    PROVE  /\ current' \in Instances /\ current' = current + 1
           /\ noted' \in Seq(SUBSET Nat) /\ Len(noted') = current'
           /\ processed' \in Seq(SUBSET Keys) /\ Len(processed') = current'
           /\ \A i \in 1..current : noted'[i] = noted[i] /\ processed'[i] = processed[i]
  <1>1. current' \in Instances /\ current' = current + 1 /\ current \in Nat
    BY PipelineAssumption DEF NewInstance, TypeInv, Instances
  <1>2. noted' = noted \o << {} >> /\ processed' = processed \o << {} >>
    BY DEF NewInstance
  <1>3. << {} >> \in Seq(SUBSET Nat) /\ << {} >> \in Seq(SUBSET Keys) /\ Len(<< {} >>) = 1
    OBVIOUS
  <1>4. noted' \in Seq(SUBSET Nat) /\ Len(noted') = current'
    BY <1>1, <1>2, <1>3 DEF TypeInv
  <1>5. processed' \in Seq(SUBSET Keys) /\ Len(processed') = current'
    BY <1>1, <1>2, <1>3 DEF TypeInv
  <1>6. \A i \in 1..current : noted'[i] = noted[i] /\ processed'[i] = processed[i]
    BY <1>1, <1>2, <1>3 DEF TypeInv
  <1>7. QED
    BY <1>1, <1>4, <1>5, <1>6

LEMMA IdleIsTask == Idle \in TaskRow
  BY PipelineAssumption DEF Idle, TaskRow, Places, Instances

LEMMA OverIsTask ==
    ASSUME TypeInv, NEW l \in Logs
    PROVE  /\ Over(l) \in TaskRow
           /\ Over(l).at = "done" /\ Over(l).inst = task[l].inst /\ Over(l).rule = task[l].rule
           /\ Over(l).fresh = {} /\ Over(l).item = None /\ ~Over(l).own
           /\ Over(l).doc = task[l].doc /\ Over(l).owed = task[l].owed /\ Over(l).day = task[l].day
  <1>1. task[l] \in TaskRow
    BY DEF TypeInv
  <1>2. Over(l) = [Idle EXCEPT !.at = "done", !.inst = task[l].inst, !.doc = task[l].doc, !.day = task[l].day,
                               !.rule = task[l].rule, !.owed = task[l].owed]
    BY DEF Over
  <1>3. QED
    BY <1>1, <1>2 DEF Idle, TaskRow, Places

LEMMA InitType == Init => TypeInv
  <1> SUFFICES ASSUME Init PROVE TypeInv
    OBVIOUS
  <1>1. task \in [Logs -> TaskRow] /\ \A l \in Logs : task[l] = Idle
    BY IdleIsTask DEF Init
  <1>2. noted \in Seq(SUBSET Nat) /\ Len(noted) = 1 /\ processed \in Seq(SUBSET Keys) /\ Len(processed) = 1
    BY DEF Init
  <1>3. /\ Idle.inst = 1 /\ Idle.at = "new" /\ Idle.rule = "none" /\ Idle.fresh = {} /\ ~Idle.own
    BY DEF Idle
  <1>4. current = 1 /\ current \in Instances /\ today \in Nat /\ visible \subseteq Logs
    BY PipelineAssumption DEF Init, Instances
  <1>5. QED
    BY <1>1, <1>2, <1>3, <1>4 DEF TypeInv

\* A task goes on; the memories and the surroundings stay or grow.
LEMMA TaskStep ==
    ASSUME TypeInv, NEW l \in Logs, NEW t \in TaskRow, task' = [task EXCEPT ![l] = t],
           t.inst <= current,
           t.at \in {"new", "query"} => t.rule = "none" /\ t.fresh = {} /\ ~t.own,
           t.at = "add" => t.item \in Events,
           UNCHANGED <<visible, others>>,
           noted' \in Seq(SUBSET Nat), Len(noted') = current,
           processed' \in Seq(SUBSET Keys), Len(processed') = current
    PROVE  TypeInv'
  <1>1. task' \in [Logs -> TaskRow] /\ task'[l] = t /\ \A k \in Logs \ {l} : task'[k] = task[k]
    BY DEF TypeInv
  <1>2. UNCHANGED <<visible, current, today>>
    BY DEF others
  <1>3. QED
    BY <1>1, <1>2 DEF TypeInv

LEMMA SourcesAreLogs ==
    ASSUME TypeInv, NEW l \in Logs
    PROVE  Sources(l) \subseteq Logs \cup {None}
  <1>1. task[l] \in TaskRow /\ visible \subseteq Logs
    BY DEF TypeInv
  <1>2. task[l].related \subseteq Logs
    BY <1>1 DEF TaskRow
  <1>3. Nearest(l, Candidates(l)) \subseteq Logs /\ Findable(l) \subseteq Logs
    BY <1>1, <1>2 DEF Nearest, Candidates, Findable
  <1>4. QED
    BY <1>3 DEF Sources

\* The related logs are looked for, whatever the searches answer.
Asked(l) ==
    \/ \E s, h \in BOOLEAN : Query(l, s, h)
    \/ \E s, h, f \in BOOLEAN : QueryFails(l, s, h, f)

LEMMA AskedIs ==
    ASSUME TypeInv, NEW l \in Logs, Asked(l)
    PROVE  \E found \in SUBSET Logs, own \in BOOLEAN :
              /\ task[l].at = "query"
              /\ task' = [task EXCEPT ![l] = [task[l] EXCEPT !.at = "judge", !.related = found,
                                                  !.owed = found \cap Events, !.own = own]]
              /\ own => l \in found
              /\ UNCHANGED <<visible, records, noted, processed, raced, given, others>>
  <1>1. visible \subseteq Logs /\ task[l] \in TaskRow
    BY DEF TypeInv
  <1>2. \A n : \A h \in Recent(n) : h \subseteq Logs
    BY <1>1 DEF Recent
  <1>3. \A s \in Session(l) : s \subseteq Logs /\ (l \in visible => l \in s)
    BY DEF Session, TypeInv
  <1>4. ASSUME NEW s \in BOOLEAN, NEW h \in BOOLEAN, Query(l, s, h)
        PROVE  \E logs \in SUBSET Logs, recent \in SUBSET Logs, own \in BOOLEAN :
                  Learns(l, logs, recent, own) /\ (own => l \in logs)
    <2>1. PICK logs \in IF s THEN Session(l) ELSE {{}}, recent \in IF h THEN Recent(HISTORY) ELSE {{}} :
             Learns(l, logs, recent, s /\ l \in visible)
      BY <1>4 DEF Query
    <2>2. logs \subseteq Logs /\ recent \subseteq Logs /\ (s /\ l \in visible => l \in logs)
      BY <1>2, <1>3
    <2>3. PICK own \in BOOLEAN : own = (s /\ l \in visible)
      OBVIOUS
    <2>4. Learns(l, logs, recent, own)
      BY <2>1, <2>3
    <2>5. QED
      BY <2>2, <2>3, <2>4
  <1>5. ASSUME NEW s \in BOOLEAN, NEW h \in BOOLEAN, NEW f \in BOOLEAN, QueryFails(l, s, h, f)
        PROVE  \E logs \in SUBSET Logs, recent \in SUBSET Logs, own \in BOOLEAN :
                  Learns(l, logs, recent, own) /\ (own => l \in logs)
    <2>1. PICK logs \in IF ~s THEN {{}} ELSE IF f THEN Session(l) ELSE SUBSET visible,
              recent \in IF h THEN {{}} \cup Recent(HISTORY) ELSE {{}} :
             Learns(l, logs, recent, s /\ f /\ l \in visible)
      BY <1>5 DEF QueryFails
    <2>2. logs \subseteq Logs /\ recent \subseteq Logs /\ (s /\ f /\ l \in visible => l \in logs)
      BY <1>1, <1>2, <1>3
    <2>3. PICK own \in BOOLEAN : own = (s /\ f /\ l \in visible)
      OBVIOUS
    <2>4. Learns(l, logs, recent, own)
      BY <2>1, <2>3
    <2>5. QED
      BY <2>2, <2>3, <2>4
  <1>6. PICK logs \in SUBSET Logs, recent \in SUBSET Logs, own \in BOOLEAN :
           Learns(l, logs, recent, own) /\ (own => l \in logs)
    BY <1>4, <1>5 DEF Asked
  <1>7. task[l].at = "query" /\ UNCHANGED <<visible, records, noted, processed, raced, given, others>>
    BY DEF Asked, Query, QueryFails
  <1>8. PICK found : found = recent \cup logs
    OBVIOUS
  <1>9. found \in SUBSET Logs /\ (own => l \in found)
    BY <1>6, <1>8
  <1>10. task' = [task EXCEPT ![l] = [task[l] EXCEPT !.at = "judge", !.related = found,
                                                   !.owed = found \cap Events, !.own = own]]
    BY <1>6, <1>8 DEF Learns
  <1>11. QED
    BY <1>7, <1>9, <1>10

LEMMA MainType ==
    ASSUME TypeInv, NEW l \in Logs,
           \/ \E m, d \in BOOLEAN : Receive(l, m, d)
           \/ Asked(l)
           \/ \E t \in BOOLEAN : Judge(l, t)
           \/ JudgeRaises(l) \/ WriteAnalysis(l)
           \/ \E i \in BOOLEAN : WriteAnalysisFails(l, i)
    PROVE  TypeInv'
  <1>0. task[l] \in TaskRow /\ task[l].inst <= current /\ noted \in Seq(SUBSET Nat) /\ Len(noted) = current
        /\ processed \in Seq(SUBSET Keys) /\ Len(processed) = current /\ current \in Instances /\ current \in Nat
    BY DEF TypeInv, Instances
  <1>1. ASSUME NEW m \in BOOLEAN, NEW d \in BOOLEAN, Receive(l, m, d) PROVE TypeInv'
    <2>1. PICK t : t = [task[l] EXCEPT !.at = "query", !.manual = m, !.dated = d, !.inst = current]
      OBVIOUS
    <2>2. /\ t \in TaskRow /\ t.inst = current /\ t.at = "query"
          /\ t.rule = task[l].rule /\ t.fresh = task[l].fresh /\ t.own = task[l].own
      BY <1>0, <2>1 DEF TaskRow, Places
    <2>3. task[l].rule = "none" /\ task[l].fresh = {} /\ ~task[l].own
      BY <1>1 DEF Receive, TypeInv
    <2>4. task' = [task EXCEPT ![l] = t] /\ UNCHANGED <<visible, noted, processed, others>>
      BY <1>1, <2>1 DEF Receive
    <2>5. t.inst <= current /\ t.rule = "none" /\ t.fresh = {} /\ ~t.own /\ t.at # "add"
      BY <1>0, <2>2, <2>3
    <2>6. QED
      BY <1>0, <2>2, <2>4, <2>5, TaskStep
  <1>2. CASE Asked(l)
    <2>1. PICK found \in SUBSET Logs, own \in BOOLEAN :
            /\ task[l].at = "query"
            /\ task' = [task EXCEPT ![l] = [task[l] EXCEPT !.at = "judge", !.related = found,
                                                !.owed = found \cap Events, !.own = own]]
            /\ own => l \in found
            /\ UNCHANGED <<visible, records, noted, processed, raced, given, others>>
      BY <1>2, AskedIs
    <2>2. PICK t : t = [task[l] EXCEPT !.at = "judge", !.related = found, !.owed = found \cap Events, !.own = own]
      OBVIOUS
    <2>3. t \in TaskRow /\ t.inst = task[l].inst /\ t.at = "judge"
      BY <1>0, <2>2 DEF TaskRow, Places
    <2>4. task' = [task EXCEPT ![l] = t]
      BY <2>1, <2>2
    <2>5. QED
      BY <1>0, <2>1, <2>3, <2>4, TaskStep
  <1>3. CASE JudgeRaises(l)
    <2>1. PICK t : t = [task[l] EXCEPT !.at = "raised"]
      OBVIOUS
    <2>2. t \in TaskRow /\ t.inst = task[l].inst /\ t.at = "raised"
      BY <1>0, <2>1 DEF TaskRow, Places
    <2>3. task' = [task EXCEPT ![l] = t] /\ UNCHANGED <<visible, noted, processed, others>>
      BY <1>3, <2>1 DEF JudgeRaises, Goes
    <2>4. QED
      BY <1>0, <2>2, <2>3, TaskStep
  <1>4. ASSUME NEW threat \in BOOLEAN, Judge(l, threat) PROVE TypeInv'
    <2>1. PICK s \in Sources(l) :
            task' = [task EXCEPT ![l].at = "write", ![l].threat = threat, ![l].source = s]
      BY <1>4 DEF Judge
    <2>2. PICK t : t = [task[l] EXCEPT !.at = "write", !.threat = threat, !.source = s]
      OBVIOUS
    <2>3. t \in TaskRow /\ t.inst = task[l].inst /\ t.at = "write"
      BY <1>0, <2>1, <2>2, SourcesAreLogs DEF TaskRow, Places
    <2>4. task' = [task EXCEPT ![l] = t] /\ UNCHANGED <<visible, noted, processed, others>>
      BY <1>4, <2>1, <2>2 DEF Judge
    <2>5. QED
      BY <1>0, <2>3, <2>4, TaskStep
  <1>5. CASE WriteAnalysis(l)
    <2>1. PICK t : t = [task[l] EXCEPT !.at = "rule", !.doc = l, !.day = today, !.source = None, !.own = FALSE]
      OBVIOUS
    <2>2. t \in TaskRow /\ t.inst = task[l].inst /\ t.at = "rule"
      BY <1>0, <2>1 DEF TaskRow, Places, TypeInv
    <2>3. QED
      BY <1>0, <1>5, <2>1, <2>2, TaskStep DEF WriteAnalysis
  <1>6. ASSUME NEW indexed \in BOOLEAN, WriteAnalysisFails(l, indexed) PROVE TypeInv'
    <2>1. PICK t : t = [task[l] EXCEPT !.at = "rule", !.source = None, !.own = FALSE]
      OBVIOUS
    <2>2. t \in TaskRow /\ t.inst = task[l].inst /\ t.at = "rule"
      BY <1>0, <2>1 DEF TaskRow, Places, TypeInv
    <2>3. task' = [task EXCEPT ![l] = t] \/ task' = [task EXCEPT ![l] = Over(l)]
      BY <1>6, <2>1 DEF WriteAnalysisFails, Ends
    <2>4. UNCHANGED <<visible, noted, processed, others>>
      BY <1>6 DEF WriteAnalysisFails
    <2>5. QED
      BY <1>0, <2>2, <2>3, <2>4, OverIsTask, TaskStep
  <1>7. QED
    BY <1>1, <1>2, <1>3, <1>4, <1>5, <1>6

LEMMA BackgroundType ==
    ASSUME TypeInv, NEW l \in Logs,
           Background(l) \/ UpdateFails(l) \/ \E e \in Events : RecordMissedFails(l, e)
    PROVE  TypeInv'
  <1>0. task[l] \in TaskRow /\ task[l].inst <= current /\ noted \in Seq(SUBSET Nat) /\ Len(noted) = current
        /\ processed \in Seq(SUBSET Keys) /\ Len(processed) = current /\ current \in Nat
        /\ task[l].inst \in 1..current
    BY DEF TypeInv, Instances, TaskRow
  <1>1. ASSUME NEW at \in {"search", "generate", "record", "done"}, Goes(l, at), UNCHANGED <<visible, noted, processed, others>>
        PROVE  TypeInv'
    <2>1. PICK t : t = [task[l] EXCEPT !.at = at]
      OBVIOUS
    <2>2. t \in TaskRow /\ t.inst = task[l].inst /\ t.at = at
      BY <1>0, <2>1 DEF TaskRow, Places
    <2>3. task' = [task EXCEPT ![l] = t]
      BY <1>1, <2>1 DEF Goes
    <2>4. QED
      BY <1>0, <1>1, <2>2, <2>3, TaskStep
  <1>2. ASSUME Ends(l), UNCHANGED <<visible, noted, processed, others>> PROVE TypeInv'
    BY <1>0, <1>2, OverIsTask, TaskStep DEF Ends
  <1>3. CASE SkipRule(l) \/ StartRule(l) \/ Update(l) \/ UpdateFails(l)
    BY <1>1, <1>3 DEF SkipRule, StartRule, Update, UpdateFails, AfterFailedUpdate
  <1>4. ASSUME NEW o \in {"written", "refused"}, EndRule(l, o) PROVE TypeInv'
    <2>1. PICK t : t = [task[l] EXCEPT !.at = "update", !.rule = o]
      OBVIOUS
    <2>2. t \in TaskRow /\ t.inst = task[l].inst /\ t.at = "update"
      BY <1>0, <2>1 DEF TaskRow, Places
    <2>3. Notes(l, o) \subseteq Nat
      BY PipelineAssumption DEF Notes
    <2>4. noted' = [noted EXCEPT ![task[l].inst] = @ \cup Notes(l, o)]
      BY <1>4 DEF EndRule
    <2>5. noted' \in Seq(SUBSET Nat) /\ Len(noted') = current
      BY <1>0, <2>3, <2>4
    <2>6. task' = [task EXCEPT ![l] = t] /\ UNCHANGED <<visible, processed, others>>
      BY <1>4, <2>1 DEF EndRule
    <2>7. QED
      BY <1>0, <2>2, <2>5, <2>6, TaskStep
  <1>5. CASE Search(l)
    <2>1. PICK t : t = [task[l] EXCEPT !.at = "sift", !.todo = Unalerted(l), !.related = {}]
      OBVIOUS
    <2>2. t \in TaskRow /\ t.inst = task[l].inst /\ t.at = "sift"
      BY <1>0, <2>1 DEF TaskRow, Places, Unalerted
    <2>3. task' = [task EXCEPT ![l] = t] /\ UNCHANGED <<visible, noted, processed, others>>
      BY <1>5, <2>1 DEF Search
    <2>4. QED
      BY <1>0, <2>2, <2>3, TaskStep
  <1>6. ASSUME NEW e \in Events, LookUp(l, e) PROVE TypeInv'
    <2>1. PICK t : t = IF Known(l, e) THEN [task[l] EXCEPT !.todo = @ \ {e}]
                       ELSE [task[l] EXCEPT !.todo = @ \ {e}, !.at = "add", !.item = e]
      OBVIOUS
    <2>2. /\ t \in TaskRow /\ t.inst = task[l].inst /\ t.at \in {"sift", "add"}
          /\ t.at = "add" => t.item = e
      BY <1>0, <1>6, <2>1 DEF TaskRow, Places, LookUp
    <2>3. task' = [task EXCEPT ![l] = t] /\ UNCHANGED <<visible, noted, processed, others>>
      BY <1>6, <2>1 DEF LookUp
    <2>4. QED
      BY <1>0, <2>2, <2>3, TaskStep
  <1>7. CASE AddKey(l)
    <2>1. PICK t : t = [task[l] EXCEPT !.at = "sift", !.fresh = @ \cup {task[l].item}, !.item = None]
      OBVIOUS
    <2>2. task[l].item \in Events
      BY <1>7 DEF AddKey, TypeInv
    <2>3. t \in TaskRow /\ t.inst = task[l].inst /\ t.at = "sift"
      BY <1>0, <2>1, <2>2 DEF TaskRow, Places
    <2>4. Key(l, task[l].item) \in Keys
      BY <2>2 DEF Key, Keys
    <2>5. processed' \in Seq(SUBSET Keys) /\ Len(processed') = current
      BY <1>0, <1>7, <2>4 DEF AddKey
    <2>6. task' = [task EXCEPT ![l] = t] /\ UNCHANGED <<visible, noted, others>>
      BY <1>7, <2>1 DEF AddKey
    <2>7. QED
      BY <1>0, <2>3, <2>5, <2>6, TaskStep
  <1>8. CASE Sifted(l) \/ RecordUnbound(l)
    BY <1>1, <1>2, <1>8 DEF Sifted, RecordUnbound
  <1>9. ASSUME NEW e \in Events, RecordMissed(l, e) \/ RecordMissedFails(l, e) PROVE TypeInv'
    <2>1. PICK t : t = [task[l] EXCEPT !.fresh = @ \ {e}]
      OBVIOUS
    <2>2. t \in TaskRow /\ t.inst = task[l].inst /\ t.at = "record"
      BY <1>0, <1>9, <2>1 DEF TaskRow, RecordMissed, RecordMissedFails
    <2>3. /\ task' = [task EXCEPT ![l] = t] \/ task' = [task EXCEPT ![l] = Over(l)]
          /\ UNCHANGED <<visible, noted, processed, others>>
      BY <1>9, <2>1 DEF RecordMissed, RecordMissedFails, AfterRecord
    <2>4. QED
      BY <1>0, <2>2, <2>3, OverIsTask, TaskStep
  <1>10. QED
    BY <1>3, <1>4, <1>5, <1>6, <1>7, <1>8, <1>9 DEF Background

LEMMA SurroundingType ==
    ASSUME TypeInv, (\E l \in Logs : Appear(l)) \/ Midnight \/ ReloadAnalyzer \/ Restart
    PROVE  TypeInv'
  <1>1. ASSUME NEW l \in Logs, Appear(l) PROVE TypeInv'
    BY <1>1 DEF Appear, TypeInv, others
  <1>2. CASE Midnight
    BY <1>2 DEF Midnight, TypeInv
  <1>3. CASE ReloadAnalyzer
    <2>1. UNCHANGED <<visible, today, task>> /\ NewInstance /\ current \in Nat
      BY <1>3 DEF ReloadAnalyzer, NewInstance, TypeInv, Instances
    <2>2. \A l \in Logs : task[l] \in TaskRow /\ task[l].inst \in Nat
      BY DEF TypeInv, TaskRow, Instances
    <2>3. QED
      BY <2>1, <2>2, MemoryStep DEF TypeInv
  <1>4. CASE Restart
    <2>1. UNCHANGED <<visible, today>> /\ NewInstance /\ current \in Nat
      BY <1>4 DEF Restart, NewInstance, TypeInv, Instances
    <2>2. \A l \in Logs : task[l] \in TaskRow /\ task[l].inst \in Nat
      BY DEF TypeInv, TaskRow, Instances
    <2>3. task' = [l \in Logs |-> IF task[l].at \in {"new", "raised"} THEN task[l] ELSE Over(l)]
      BY <1>4 DEF Restart
    <2>4. ASSUME NEW l \in Logs
          PROVE  /\ task'[l] \in TaskRow /\ task'[l].inst = task[l].inst
                 /\ task'[l].at \in {"new", "query"} => task'[l].rule = "none" /\ task'[l].fresh = {} /\ ~task'[l].own
                 /\ task'[l].at # "add"
      BY <2>2, <2>3, OverIsTask DEF TypeInv
    <2>5. QED
      BY <2>1, <2>2, <2>3, <2>4, MemoryStep DEF TypeInv
  <1>5. QED
    BY <1>1, <1>2, <1>3, <1>4

LEMMA StepType == TypeInv /\ [Next]_vars => TypeInv'
  <1> SUFFICES ASSUME TypeInv, [Next]_vars PROVE TypeInv'
    OBVIOUS
  <1>1. CASE UNCHANGED vars
    BY <1>1 DEF vars, TypeInv
  <1>2. ASSUME NEW l \in Logs, Work(l) \/ Failing(l) \/ \E m, d \in BOOLEAN : Receive(l, m, d) PROVE TypeInv'
    BY <1>2, MainType, BackgroundType DEF Work, Failing, Asked
  <1>3. QED
    BY <1>1, <1>2, SurroundingType DEF Next

LEMMA TypeHolds == Spec => []TypeInv
  BY InitType, StepType, PTL DEF Spec

-----------------------------------------------------------------------------
(* One rule per signature                                                  *)

Ruled(l) == task[l].at = "generate" \/ task[l].rule # "none"

RuleInv ==
    /\ OneRulePerSignature
    /\ \A l \in Logs : task[l].rule # "none" /\ Sig[l] # 0 => Sig[l] \in noted[task[l].inst]

\* Every step but the start and the end of a generation.
LEMMA RuleQuiet ==
    ASSUME RuleInv,
           \A l \in Logs : /\ Ruled(l)' => Ruled(l)
                           /\ Ruled(l)' => task'[l].inst = task[l].inst
                           /\ task'[l].rule # "none" => noted[task[l].inst] \subseteq noted'[task[l].inst]
                           /\ task'[l].rule = task[l].rule,
           raced \subseteq raced'
    PROVE  RuleInv'
  BY DEF RuleInv, OneRulePerSignature, Ruled

\* A step of one task that neither starts nor ends a generation.
LEMMA RuleTask ==
    ASSUME TypeInv, RuleInv, NEW l \in Logs,
           \A k \in Logs \ {l} : task'[k] = task[k],
           task'[l].rule = task[l].rule, task'[l].at # "generate",
           task[l].rule = "none" \/ task'[l].inst = task[l].inst,
           noted' = noted, raced \subseteq raced'
    PROVE  RuleInv'
  BY RuleQuiet DEF Ruled

LEMMA RuleStart ==
    ASSUME TypeInv, RuleInv, NEW l \in Logs, StartRule(l)
    PROVE  RuleInv'
  <1>1. task[l] \in TaskRow /\ task \in [Logs -> TaskRow]
    BY DEF TypeInv
  <1>2. task' = [task EXCEPT ![l] = [task[l] EXCEPT !.at = "generate"]] /\ noted' = noted
    BY DEF StartRule, Goes
  <1>3. /\ \A k \in Logs \ {l} : task'[k] = task[k]
        /\ task'[l].at = "generate" /\ task'[l].rule = task[l].rule /\ task'[l].inst = task[l].inst
    BY <1>1, <1>2 DEF TaskRow
  <1>4. Sig[l] # 0 => Sig[l] \notin noted[task[l].inst]
    BY DEF StartRule, Wanted
  <1>5. raced' = raced \cup {<<task[l].inst, <<Sig[l], None>>>> : k \in {k \in Logs \ {l} :
                      task[k].at = "generate" /\ task[k].inst = task[l].inst /\ Sig[k] = Sig[l]}}
    BY DEF StartRule
  <1>6. ASSUME NEW k \in Logs \ {l}, Ruled(k), task[k].inst = task[l].inst, Sig[k] = Sig[l], Sig[k] # 0
        PROVE  <<task[l].inst, <<Sig[l], None>>>> \in raced'
    <2>1. task[k].rule = "none"
      BY <1>4, <1>6 DEF RuleInv
    <2>2. task[k].at = "generate"
      BY <1>6, <2>1 DEF Ruled
    <2>3. QED
      BY <1>5, <1>6, <2>2
  <1>7. raced \subseteq raced'
    BY <1>5
  <1>8. ASSUME NEW k \in Logs, NEW j \in Logs, Ruled(k)', Ruled(j)', k # j,
               task'[k].inst = task'[j].inst, Sig[j] = Sig[k], Sig[k] # 0
        PROVE  <<task'[k].inst, <<Sig[k], None>>>> \in raced'
    <2>1. CASE k = l
      BY <1>3, <1>6, <1>8, <2>1 DEF Ruled
    <2>2. CASE j = l
      BY <1>3, <1>6, <1>8, <2>2 DEF Ruled
    <2>3. CASE k # l /\ j # l
      BY <1>3, <1>7, <1>8, <2>3 DEF Ruled, RuleInv, OneRulePerSignature
    <2>4. QED
      BY <2>1, <2>2, <2>3
  <1>9. OneRulePerSignature'
    BY <1>8 DEF OneRulePerSignature, Ruled
  <1>10. QED
    BY <1>2, <1>3, <1>9 DEF RuleInv

LEMMA RuleEnd ==
    ASSUME TypeInv, RuleInv, NEW l \in Logs, NEW o \in {"written", "refused"}, EndRule(l, o)
    PROVE  RuleInv'
  <1>1. task[l] \in TaskRow /\ task \in [Logs -> TaskRow]
    BY DEF TypeInv
  <1>2. task' = [task EXCEPT ![l] = [task[l] EXCEPT !.at = "update", !.rule = o]] /\ raced' = raced
        /\ task[l].at = "generate"
    BY DEF EndRule
  <1>3. /\ \A k \in Logs \ {l} : task'[k] = task[k]
        /\ task'[l].rule = o /\ task'[l].inst = task[l].inst
    BY <1>1, <1>2 DEF TaskRow
  <1>4. \A k \in Logs : Ruled(k)' => Ruled(k) /\ task'[k].inst = task[k].inst
    BY <1>2, <1>3 DEF Ruled
  <1>5. OneRulePerSignature'
    BY <1>2, <1>4 DEF RuleInv, OneRulePerSignature, Ruled
  <1>6. noted \in Seq(SUBSET Nat) /\ \A k \in Logs : task[k].inst \in 1..Len(noted)
    BY DEF TypeInv, TaskRow, Instances
  <1>7. noted' = [noted EXCEPT ![task[l].inst] = @ \cup ({Sig[l]} \ {0})]
    BY DEF EndRule, Notes
  <1>8. \A k \in Logs : noted[task[k].inst] \subseteq noted'[task[k].inst]
    BY <1>6, <1>7
  <1>9. Sig[l] # 0 => Sig[l] \in noted'[task[l].inst]
    BY <1>6, <1>7
  <1>10. \A k \in Logs : task'[k].rule # "none" /\ Sig[k] # 0 => Sig[k] \in noted'[task'[k].inst]
    BY <1>3, <1>8, <1>9 DEF RuleInv
  <1>11. QED
    BY <1>5, <1>10 DEF RuleInv

LEMMA RuleStep == TypeInv /\ RuleInv /\ [Next]_vars => RuleInv'
  <1> SUFFICES ASSUME TypeInv, RuleInv, [Next]_vars PROVE RuleInv'
    OBVIOUS
  <1>0. task \in [Logs -> TaskRow]
    BY DEF TypeInv
  <1>1. CASE UNCHANGED vars
    BY <1>1 DEF vars, RuleInv, OneRulePerSignature
  <1>2. ASSUME NEW l \in Logs, NEW m \in BOOLEAN, NEW d \in BOOLEAN, Receive(l, m, d) PROVE RuleInv'
    <2>1. task' = [task EXCEPT ![l] = [task[l] EXCEPT !.at = "query", !.manual = m, !.dated = d, !.inst = current]]
      BY <1>2 DEF Receive
    <2>2. task[l].rule = "none" /\ task'[l].rule = task[l].rule /\ task'[l].at = "query"
      BY <1>0, <1>2, <2>1 DEF Receive, TypeInv, TaskRow
    <2>3. \A k \in Logs \ {l} : task'[k] = task[k]
      BY <1>0, <2>1
    <2>4. QED
      BY <1>2, <2>2, <2>3, RuleTask DEF Receive
  <1>3. ASSUME NEW l \in Logs, NEW at \in Places \ {"generate"}, Goes(l, at), UNCHANGED <<noted, raced>>
        PROVE  RuleInv'
    <2>1. task' = [task EXCEPT ![l] = [task[l] EXCEPT !.at = at]]
      BY <1>3 DEF Goes
    <2>2. /\ task'[l].rule = task[l].rule /\ task'[l].at = at /\ task'[l].inst = task[l].inst
          /\ \A k \in Logs \ {l} : task'[k] = task[k]
      BY <1>0, <2>1 DEF TaskRow
    <2>3. QED
      BY <1>3, <2>2, RuleTask
  <1>4. ASSUME NEW l \in Logs, Ends(l), UNCHANGED <<noted, raced>> PROVE RuleInv'
    <2>1. /\ task'[l].rule = task[l].rule /\ task'[l].at = "done" /\ task'[l].inst = task[l].inst
          /\ \A k \in Logs \ {l} : task'[k] = task[k]
      BY <1>0, <1>4, OverIsTask DEF Ends
    <2>2. QED
      BY <1>4, <2>1, RuleTask
  <1>5. ASSUME NEW l \in Logs, Asked(l) PROVE RuleInv'
    <2>1. PICK found \in SUBSET Logs, own \in BOOLEAN :
            /\ task[l].at = "query"
            /\ task' = [task EXCEPT ![l] = [task[l] EXCEPT !.at = "judge", !.related = found,
                                                !.owed = found \cap Events, !.own = own]]
            /\ own => l \in found
            /\ UNCHANGED <<visible, records, noted, processed, raced, given, others>>
      BY <1>5, AskedIs
    <2>2. /\ task'[l].rule = task[l].rule /\ task'[l].at = "judge" /\ task'[l].inst = task[l].inst
          /\ \A k \in Logs \ {l} : task'[k] = task[k]
      BY <1>0, <2>1 DEF TaskRow
    <2>3. QED
      BY <2>1, <2>2, RuleTask
  <1>6. ASSUME NEW l \in Logs, NEW t \in BOOLEAN, Judge(l, t) PROVE RuleInv'
    <2>1. /\ task'[l].rule = task[l].rule /\ task'[l].at = "write" /\ task'[l].inst = task[l].inst
          /\ \A k \in Logs \ {l} : task'[k] = task[k]
      BY <1>0, <1>6 DEF Judge, TaskRow
    <2>2. QED
      BY <1>6, <2>1, RuleTask DEF Judge
  <1>7. ASSUME NEW l \in Logs, WriteAnalysis(l) PROVE RuleInv'
    <2>1. /\ task'[l].rule = task[l].rule /\ task'[l].at = "rule" /\ task'[l].inst = task[l].inst
          /\ \A k \in Logs \ {l} : task'[k] = task[k]
      BY <1>0, <1>7 DEF WriteAnalysis, TaskRow
    <2>2. QED
      BY <1>7, <2>1, RuleTask DEF WriteAnalysis
  <1>8. ASSUME NEW l \in Logs, NEW i \in BOOLEAN, WriteAnalysisFails(l, i) PROVE RuleInv'
    <2>1. CASE Ends(l)
      BY <1>4, <1>8, <2>1 DEF WriteAnalysisFails
    <2>2. CASE task' = [task EXCEPT ![l].at = "rule", ![l].source = None, ![l].own = FALSE]
      <3>1. /\ task'[l].rule = task[l].rule /\ task'[l].at = "rule" /\ task'[l].inst = task[l].inst
            /\ \A k \in Logs \ {l} : task'[k] = task[k]
        BY <1>0, <2>2 DEF TaskRow
      <3>2. QED
        BY <1>8, <3>1, RuleTask DEF WriteAnalysisFails
    <2>3. QED
      BY <1>8, <2>1, <2>2 DEF WriteAnalysisFails
  <1>9. ASSUME NEW l \in Logs, Search(l) PROVE RuleInv'
    <2>1. /\ task'[l].rule = task[l].rule /\ task'[l].at = "sift" /\ task'[l].inst = task[l].inst
          /\ \A k \in Logs \ {l} : task'[k] = task[k]
      BY <1>0, <1>9 DEF Search, TaskRow
    <2>2. QED
      BY <1>9, <2>1, RuleTask DEF Search
  <1>10. ASSUME NEW l \in Logs, NEW e \in Events, LookUp(l, e) PROVE RuleInv'
    <2>1. /\ task'[l].rule = task[l].rule /\ task'[l].at \in {"sift", "add"} /\ task'[l].inst = task[l].inst
          /\ \A k \in Logs \ {l} : task'[k] = task[k]
      BY <1>0, <1>10 DEF LookUp, TaskRow
    <2>2. QED
      BY <1>10, <2>1, RuleTask DEF LookUp
  <1>11. ASSUME NEW l \in Logs, AddKey(l) PROVE RuleInv'
    <2>1. /\ task'[l].rule = task[l].rule /\ task'[l].at = "sift" /\ task'[l].inst = task[l].inst
          /\ \A k \in Logs \ {l} : task'[k] = task[k]
      BY <1>0, <1>11 DEF AddKey, TaskRow
    <2>2. noted' = noted /\ raced \subseteq raced'
      BY <1>11 DEF AddKey
    <2>3. QED
      BY <2>1, <2>2, RuleTask
  <1>12. ASSUME NEW l \in Logs, NEW e \in Events, RecordMissed(l, e) \/ RecordMissedFails(l, e) PROVE RuleInv'
    <2>1. CASE task' = [task EXCEPT ![l] = Over(l)]
      BY <1>4, <1>12, <2>1 DEF Ends, RecordMissed, RecordMissedFails
    <2>2. CASE task' = [task EXCEPT ![l].fresh = @ \ {e}]
      <3>1. /\ task'[l].rule = task[l].rule /\ task'[l].at = "record" /\ task'[l].inst = task[l].inst
            /\ \A k \in Logs \ {l} : task'[k] = task[k]
        BY <1>0, <1>12, <2>2 DEF TaskRow, RecordMissed, RecordMissedFails
      <3>2. QED
        BY <1>12, <3>1, RuleTask DEF RecordMissed, RecordMissedFails
    <2>3. QED
      BY <1>12, <2>1, <2>2 DEF AfterRecord, RecordMissed, RecordMissedFails
  <1>13. ASSUME NEW l \in Logs, JudgeRaises(l) \/ SkipRule(l) \/ Update(l) \/ UpdateFails(l) PROVE RuleInv'
    BY <1>3, <1>13 DEF JudgeRaises, SkipRule, Update, UpdateFails, AfterFailedUpdate, Places
  <1>14. ASSUME NEW l \in Logs, Sifted(l) \/ RecordUnbound(l) PROVE RuleInv'
    BY <1>3, <1>4, <1>14 DEF Sifted, RecordUnbound, Places
  <1>15. ASSUME (\E l \in Logs : Appear(l)) \/ Midnight PROVE RuleInv'
    BY <1>15 DEF Appear, Midnight, RuleInv, OneRulePerSignature
  <1>16. \A l \in Logs : task[l].inst \in 1..current
    BY <1>0 DEF TypeInv, TaskRow, Instances
  <1>17. CASE ReloadAnalyzer
    <2>1. \A i \in 1..current : noted'[i] = noted[i]
      BY <1>17, MemoryStep DEF ReloadAnalyzer
    <2>2. task' = task /\ raced' = raced
      BY <1>17 DEF ReloadAnalyzer, NewInstance
    <2>3. QED
      BY <1>16, <2>1, <2>2 DEF RuleInv, OneRulePerSignature
  <1>18. CASE Restart
    <2>1. \A i \in 1..current : noted'[i] = noted[i]
      BY <1>18, MemoryStep DEF Restart
    <2>2. task' = [l \in Logs |-> IF task[l].at \in {"new", "raised"} THEN task[l] ELSE Over(l)]
      BY <1>18 DEF Restart
    <2>3. \A l \in Logs : /\ task'[l].rule = task[l].rule /\ task'[l].inst = task[l].inst
                          /\ task'[l].at # "generate"
      BY <2>2, OverIsTask
    <2>4. raced \subseteq raced'
      BY <1>18 DEF Restart, NewInstance
    <2>5. QED
      BY <1>16, <2>1, <2>3, <2>4, RuleQuiet DEF Ruled
  <1>19. ASSUME NEW l \in Logs, Background(l) \/ UpdateFails(l) \/ \E e \in Events : RecordMissedFails(l, e) PROVE RuleInv'
    BY <1>9, <1>10, <1>11, <1>12, <1>13, <1>14, <1>19, RuleStart, RuleEnd DEF Background
  <1>20. ASSUME NEW l \in Logs, Work(l) \/ Failing(l) PROVE RuleInv'
    BY <1>5, <1>6, <1>7, <1>8, <1>13, <1>19, <1>20 DEF Work, Failing, Asked
  <1>21. QED
    BY <1>1, <1>2, <1>15, <1>17, <1>18, <1>20 DEF Next

\* A signature gets one rule: `analyzer.py`, `_rule_generated_sids`.
THEOREM OneRule == Spec => []OneRulePerSignature
  <1>1. Init => RuleInv
    BY DEF Init, RuleInv, OneRulePerSignature, Idle
  <1>2. RuleInv => OneRulePerSignature
    BY DEF RuleInv
  <1>3. QED
    BY <1>1, <1>2, TypeHolds, RuleStep, PTL DEF Spec

-----------------------------------------------------------------------------
(* One record per missed attack                                            *)

Missed == {r \in records : r.kind = "semantic_unalerted"}
\* The task has added the attack's key and holds it, or has written its record.
Claimed(l, e) == e \in task[l].fresh \/ \E r \in Missed : r.log = l /\ r.source = e
Same(k, f, l, e) == task[k].inst = task[l].inst /\ Key(k, f) = Key(l, e)
Raced(l, e) == <<task[l].inst, Key(l, e)>> \in raced

RecordRow == [kind: {"alert_triage", "semantic_unalerted"}, log: Logs, source: Logs \cup {None},
              key: Keys \cup {None}, inst: Nat, rule: {"none", "written", "refused"}]
RecordsInv ==
    /\ records \subseteq RecordRow
    /\ \A r \in Missed : r.source \in Events /\ r = Recorded(r.log, r.source) /\ task[r.log].at # "new"

MissedInv ==
    /\ RecordsInv
    /\ \A l \in Logs, e \in Events : Claimed(l, e) => Key(l, e) \in processed[task[l].inst]
    /\ \A k, l \in Logs, e, f \in Events :
          /\ Claimed(l, e) /\ Claimed(k, f) /\ Same(k, f, l, e) /\ <<k, f>> # <<l, e>> => Raced(l, e)
          /\ Claimed(l, e) /\ task[k].at = "add" /\ task[k].item = f /\ Same(k, f, l, e) => Raced(l, e)

LEMMA RecordedIsRow ==
    ASSUME TypeInv, NEW l \in Logs, NEW e \in Events
    PROVE  /\ Recorded(l, e) \in RecordRow /\ Recorded(l, e).kind = "semantic_unalerted"
           /\ Recorded(l, e).log = l /\ Recorded(l, e).source = e
  BY PipelineAssumption DEF Recorded, RecordRow, Key, Keys, Logs, TypeInv, TaskRow, Instances

LEMMA TriagedIsRow ==
    ASSUME TypeInv, NEW l \in Logs
    PROVE  Triaged(l) \in RecordRow /\ Triaged(l).kind = "alert_triage"
  BY PipelineAssumption DEF Triaged, RecordRow, TypeInv, TaskRow, Instances

\* A step that claims nothing: it leaves the records of missed attacks alone, adds to no
\* task's finds and brings no task to the point of adding a key.
LEMMA MissedQuiet ==
    ASSUME TypeInv, MissedInv,
           records' \subseteq RecordRow, Missed' = Missed,
           \A l \in Logs : /\ task'[l].fresh \subseteq task[l].fresh
                           /\ task'[l].at = "new" => task[l].at = "new"
                           /\ task'[l].at = "add" => task[l].at = "add" /\ task'[l].item = task[l].item
                           /\ \/ task'[l].inst = task[l].inst
                              \/ task[l].at = "new" /\ task'[l].at # "add",
           \A i \in 1..current : processed[i] \subseteq processed'[i],
           raced \subseteq raced'
    PROVE  MissedInv'
  <1>1. \A l \in Logs : task[l].inst \in 1..current /\ (task[l].at = "new" => task[l].fresh = {})
    BY DEF TypeInv, TaskRow, Instances
  <1>2. \A r \in Missed : r \in RecordRow /\ r.log \in Logs
    BY DEF MissedInv, RecordsInv, Missed, RecordRow
  <1>3. \A l \in Logs, e \in Events : Claimed(l, e)' => Claimed(l, e) /\ task'[l].inst = task[l].inst
    BY <1>1, <1>2 DEF Claimed, MissedInv, RecordsInv
  <1>4. \A l \in Logs : task'[l].at = "add" => task'[l].inst = task[l].inst
    BY <1>1
  <1>5. ASSUME NEW r \in Missed'
        PROVE  r.source \in Events /\ r = Recorded(r.log, r.source)' /\ task'[r.log].at # "new"
    <2>1. r \in Missed /\ r.log \in Logs /\ r = Recorded(r.log, r.source) /\ r.source \in Events /\ task[r.log].at # "new"
      BY <1>2, <1>5 DEF MissedInv, RecordsInv
    <2>2. task'[r.log].inst = task[r.log].inst
      BY <2>1
    <2>3. QED
      BY <2>1, <2>2 DEF Recorded, Key
  <1>6. RecordsInv'
    BY <1>5 DEF RecordsInv
  <1>7. \A l \in Logs, e \in Events : Claimed(l, e)' => Key(l, e) \in processed'[task'[l].inst]
    BY <1>1, <1>3 DEF MissedInv
  <1>8. ASSUME NEW k \in Logs, NEW l \in Logs, NEW e \in Events, NEW f \in Events
        PROVE  /\ Claimed(l, e)' /\ Claimed(k, f)' /\ Same(k, f, l, e)' /\ <<k, f>> # <<l, e>> => Raced(l, e)'
               /\ Claimed(l, e)' /\ task'[k].at = "add" /\ task'[k].item = f /\ Same(k, f, l, e)' => Raced(l, e)'
    BY <1>3, <1>4 DEF MissedInv, Same, Raced, Key
  <1>9. QED
    BY <1>6, <1>7, <1>8 DEF MissedInv, Key

\* A find that is looked up and not known: nobody has claimed its key.
LEMMA MissedLookUp ==
    ASSUME TypeInv, MissedInv, NEW l \in Logs, NEW e \in Events, LookUp(l, e), ~Known(l, e)
    PROVE  MissedInv'
  <1>1. task \in [Logs -> TaskRow] /\ task[l] \in TaskRow
    BY DEF TypeInv
  <1>2. task' = [task EXCEPT ![l].todo = @ \ {e}, ![l].at = "add", ![l].item = e]
        /\ UNCHANGED <<records, processed, raced>>
    BY DEF LookUp
  <1>3. /\ \A k \in Logs \ {l} : task'[k] = task[k]
        /\ task'[l].at = "add" /\ task'[l].item = e /\ task'[l].inst = task[l].inst /\ task'[l].fresh = task[l].fresh
    BY <1>1, <1>2 DEF TaskRow
  <1>4. \A k \in Logs : task'[k].inst = task[k].inst /\ task'[k].fresh = task[k].fresh
    BY <1>3
  <1>5. \A k \in Logs, f \in Events : Claimed(k, f)' <=> Claimed(k, f)
    BY <1>2, <1>4 DEF Claimed, Missed
  <1>6. \A k \in Logs, f \in Events : ~(Claimed(k, f) /\ Same(k, f, l, e))
    BY DEF MissedInv, Known, Same
  <1>7. RecordsInv'
    <2>1. \A r \in Missed : r.log \in Logs
      BY DEF MissedInv, RecordsInv, Missed, RecordRow
    <2>2. \A r \in Missed : task'[r.log].at # "new"
      BY <1>3, <2>1 DEF MissedInv, RecordsInv
    <2>3. Missed' = Missed
      BY <1>2 DEF Missed
    <2>4. \A r \in Missed : Recorded(r.log, r.source)' = Recorded(r.log, r.source)
      BY <1>4, <2>1 DEF Recorded, Key
    <2>5. QED
      BY <1>2, <2>2, <2>3, <2>4 DEF MissedInv, RecordsInv
  <1>8. \A k \in Logs, f \in Events : Claimed(k, f)' => Key(k, f) \in processed'[task'[k].inst]
    BY <1>2, <1>4, <1>5 DEF MissedInv
  <1>9. ASSUME NEW k \in Logs, NEW j \in Logs, NEW f \in Events, NEW g \in Events
        PROVE  /\ Claimed(j, g)' /\ Claimed(k, f)' /\ Same(k, f, j, g)' /\ <<k, f>> # <<j, g>> => Raced(j, g)'
               /\ Claimed(j, g)' /\ task'[k].at = "add" /\ task'[k].item = f /\ Same(k, f, j, g)' => Raced(j, g)'
    <2>1. (Same(k, f, j, g)' <=> Same(k, f, j, g)) /\ (Raced(j, g)' <=> Raced(j, g))
      <3>1. task'[k].inst = task[k].inst /\ task'[j].inst = task[j].inst /\ raced' = raced
        BY <1>2, <1>4
      <3>2. Same(k, f, j, g)' <=> Same(k, f, j, g)
        BY <3>1 DEF Same, Key
      <3>3. Raced(j, g)' <=> Raced(j, g)
        BY <3>1 DEF Raced, Key
      <3>4. QED
        BY <3>2, <3>3
    <2>2. Claimed(j, g) /\ Claimed(k, f) /\ Same(k, f, j, g) /\ <<k, f>> # <<j, g>> => Raced(j, g)
      BY DEF MissedInv
    <2>3. ASSUME Claimed(j, g), task'[k].at = "add", task'[k].item = f, Same(k, f, j, g)
          PROVE  Raced(j, g)
      <3>1. k # l
        BY <1>3, <1>6, <2>3 DEF Same
      <3>2. QED
        BY <1>3, <2>3, <3>1 DEF MissedInv
    <2>4. QED
      BY <1>5, <2>1, <2>2, <2>3
  <1>10. QED
    BY <1>7, <1>8, <1>9 DEF MissedInv, Key

\* The key is added: whoever claimed it meanwhile, or is about to, has raced with the task.
LEMMA MissedAdd ==
    ASSUME TypeInv, MissedInv, NEW l \in Logs, AddKey(l)
    PROVE  MissedInv'
  <1>0. PICK e \in Events : e = task[l].item
    BY DEF TypeInv, AddKey
  <1>1. task \in [Logs -> TaskRow] /\ task[l] \in TaskRow /\ task[l].item = e /\ task[l].at = "add"
    BY <1>0 DEF TypeInv, AddKey
  <1>2. task' = [task EXCEPT ![l].at = "sift", ![l].fresh = @ \cup {e}, ![l].item = None]
        /\ records' = records
    BY <1>1 DEF AddKey
  <1>3. /\ \A k \in Logs \ {l} : task'[k] = task[k]
        /\ task'[l].at = "sift" /\ task'[l].inst = task[l].inst /\ task'[l].fresh = task[l].fresh \cup {e}
    BY <1>1, <1>2 DEF TaskRow
  <1>4. \A k \in Logs : task'[k].inst = task[k].inst
    BY <1>3
  <1>5. raced' = raced \cup {<<task[l].inst, Key(l, e)>> : k \in {k \in Logs \ {l} :
                    task[k].at = "add" /\ task[k].inst = task[l].inst /\ Key(k, task[k].item) = Key(l, e)}}
    BY <1>1 DEF AddKey
  <1>6. \A k \in Logs, f \in Events : Claimed(k, f)' => Claimed(k, f) \/ (k = l /\ f = e)
    <2>1. Missed' = Missed
      BY <1>2 DEF Missed
    <2>2. \A k \in Logs, f \in Events : f \in task'[k].fresh => f \in task[k].fresh \/ (k = l /\ f = e)
      BY <1>3
    <2>3. QED
      BY <2>1, <2>2 DEF Claimed
  <1>7. processed \in Seq(SUBSET Keys) /\ \A k \in Logs : task[k].inst \in 1..Len(processed)
    BY DEF TypeInv, TaskRow, Instances
  <1>8. processed' = [processed EXCEPT ![task[l].inst] = @ \cup {Key(l, e)}]
    BY <1>1 DEF AddKey
  <1>9. Key(l, e) \in processed'[task[l].inst]
        /\ \A k \in Logs : processed[task[k].inst] \subseteq processed'[task[k].inst]
    BY <1>7, <1>8
  <1>10. RecordsInv'
    <2>1. \A r \in Missed : r.log \in Logs
      BY DEF MissedInv, RecordsInv, Missed, RecordRow
    <2>2. \A r \in Missed : task'[r.log].at # "new"
      BY <1>3, <2>1 DEF MissedInv, RecordsInv
    <2>3. Missed' = Missed
      BY <1>2 DEF Missed
    <2>4. \A r \in Missed : Recorded(r.log, r.source)' = Recorded(r.log, r.source)
      BY <1>4, <2>1 DEF Recorded, Key
    <2>5. QED
      BY <1>2, <2>2, <2>3, <2>4 DEF MissedInv, RecordsInv
  <1>11. \A k \in Logs, f \in Events : Claimed(k, f)' => Key(k, f) \in processed'[task'[k].inst]
    BY <1>4, <1>6, <1>9 DEF MissedInv
  <1>12. \A k \in Logs, f \in Events : Raced(k, f) => Raced(k, f)'
    BY <1>4, <1>5 DEF Raced, Key
  \* An old claim and the new one: l was at "add" with e.
  <1>13. \A k \in Logs, f \in Events : Claimed(k, f) /\ Same(k, f, l, e) => Raced(k, f)' /\ Raced(l, e)'
    <2>1. SUFFICES ASSUME NEW k \in Logs, NEW f \in Events, Claimed(k, f), Same(k, f, l, e)
                   PROVE  Raced(k, f)' /\ Raced(l, e)'
      OBVIOUS
    <2>2. Same(l, e, k, f)
      BY <2>1 DEF Same
    <2>3. Raced(k, f)
      BY <1>1, <2>1, <2>2 DEF MissedInv
    <2>4. Raced(l, e)
      BY <2>1, <2>3 DEF Raced, Same
    <2>5. QED
      BY <1>1, <1>12, <2>3, <2>4
  \* Another task about to add the key.
  <1>14. \A k \in Logs, f \in Events :
            task'[k].at = "add" /\ task'[k].item = f /\ Same(k, f, l, e) => Raced(l, e)'
    <2>1. SUFFICES ASSUME NEW k \in Logs, NEW f \in Events,
                          task'[k].at = "add", task'[k].item = f, Same(k, f, l, e)
                   PROVE  Raced(l, e)'
      OBVIOUS
    <2>2. k # l /\ task[k].at = "add" /\ task[k].item = f
      BY <1>3, <2>1
    <2>3. <<task[l].inst, Key(l, e)>> \in raced'
      BY <1>5, <2>1, <2>2 DEF Same
    <2>4. QED
      BY <1>3, <2>3 DEF Raced, Key
  <1>15. ASSUME NEW k \in Logs, NEW j \in Logs, NEW f \in Events, NEW g \in Events
         PROVE  /\ Claimed(j, g)' /\ Claimed(k, f)' /\ Same(k, f, j, g)' /\ <<k, f>> # <<j, g>> => Raced(j, g)'
                /\ Claimed(j, g)' /\ task'[k].at = "add" /\ task'[k].item = f /\ Same(k, f, j, g)' => Raced(j, g)'
    <2>1. Same(k, f, j, g)' <=> Same(k, f, j, g)
      BY <1>4 DEF Same, Key
    <2>2. Same(k, f, j, g) => Same(j, g, k, f)
      BY DEF Same
    <2>3. task'[k].at = "add" => task[k].at = "add" /\ task'[k].item = task[k].item
      BY <1>3
    <2>4. ASSUME Claimed(j, g), Same(k, f, j, g), task'[k].at = "add", task'[k].item = f PROVE Raced(j, g)'
      BY <1>12, <2>3, <2>4 DEF MissedInv
    <2>5. ASSUME Claimed(j, g)', Claimed(k, f)', Same(k, f, j, g), <<k, f>> # <<j, g>> PROVE Raced(j, g)'
      <3>1. CASE Claimed(j, g) /\ Claimed(k, f)
        BY <1>12, <2>5, <3>1 DEF MissedInv
      <3>2. CASE Claimed(j, g) /\ k = l /\ f = e
        BY <1>13, <2>2, <2>5, <3>2
      <3>3. CASE j = l /\ g = e /\ Claimed(k, f)
        BY <1>13, <2>5, <3>3
      <3>4. QED
        BY <1>6, <2>5, <3>1, <3>2, <3>3
    <2>6. ASSUME Claimed(j, g)', Same(k, f, j, g), task'[k].at = "add", task'[k].item = f PROVE Raced(j, g)'
      BY <1>6, <1>14, <2>4, <2>6
    <2>7. QED
      BY <2>1, <2>5, <2>6
  <1>16. QED
    BY <1>10, <1>11, <1>15 DEF MissedInv, Key

\* The record is written: the claim passes from the task to the record.
LEMMA MissedRecorded ==
    ASSUME TypeInv, MissedInv, NEW l \in Logs, NEW e \in Events, RecordMissed(l, e)
    PROVE  MissedInv'
  <1>1. task \in [Logs -> TaskRow] /\ task[l] \in TaskRow /\ e \in task[l].fresh /\ task[l].at = "record"
    BY DEF TypeInv, RecordMissed
  <1>2. records' = records \cup {Recorded(l, e)} /\ UNCHANGED <<processed, raced>>
    BY DEF RecordMissed
  <1>3. /\ \A k \in Logs \ {l} : task'[k] = task[k]
        /\ task'[l].at \in {"record", "done"} /\ task'[l].inst = task[l].inst /\ task'[l].fresh \subseteq task[l].fresh
    <2>1. CASE task' = [task EXCEPT ![l] = Over(l)]
      BY <1>1, <2>1, OverIsTask
    <2>2. CASE task' = [task EXCEPT ![l].fresh = @ \ {e}]
      BY <1>1, <2>2 DEF TaskRow
    <2>3. QED
      BY <2>1, <2>2 DEF RecordMissed, AfterRecord
  <1>4. \A k \in Logs : task'[k].inst = task[k].inst
    BY <1>3
  <1>5. Missed' = Missed \cup {Recorded(l, e)}
    BY <1>2, RecordedIsRow DEF Missed
  <1>6. \A k \in Logs, f \in Events : Claimed(k, f)' => Claimed(k, f)
    BY <1>1, <1>3, <1>5, RecordedIsRow DEF Claimed
  <1>7. RecordsInv'
    <2>1. \A r \in Missed' : r.log \in Logs /\ r.source \in Events /\ r = Recorded(r.log, r.source)
      BY <1>5, RecordedIsRow DEF MissedInv, RecordsInv, Missed, RecordRow
    <2>2. \A r \in Missed' : task'[r.log].at # "new"
      BY <1>3, <1>5, <2>1, RecordedIsRow DEF MissedInv, RecordsInv
    <2>3. \A r \in Missed' : Recorded(r.log, r.source)' = Recorded(r.log, r.source)
      BY <1>4, <2>1 DEF Recorded, Key
    <2>4. QED
      BY <1>2, <2>1, <2>2, <2>3, RecordedIsRow DEF MissedInv, RecordsInv
  <1>8. \A k \in Logs, f \in Events : Claimed(k, f)' => Key(k, f) \in processed'[task'[k].inst]
    BY <1>2, <1>4, <1>6 DEF MissedInv
  <1>9. ASSUME NEW k \in Logs, NEW j \in Logs, NEW f \in Events, NEW g \in Events
        PROVE  /\ Claimed(j, g)' /\ Claimed(k, f)' /\ Same(k, f, j, g)' /\ <<k, f>> # <<j, g>> => Raced(j, g)'
               /\ Claimed(j, g)' /\ task'[k].at = "add" /\ task'[k].item = f /\ Same(k, f, j, g)' => Raced(j, g)'
    <2>1. Same(k, f, j, g)' <=> Same(k, f, j, g)
      BY <1>4 DEF Same, Key
    <2>2. Raced(j, g)' <=> Raced(j, g)
      BY <1>2, <1>4 DEF Raced, Key
    <2>3. task'[k].at = "add" => task[k].at = "add" /\ task'[k].item = task[k].item
      BY <1>3
    <2>4. QED
      BY <1>6, <2>1, <2>2, <2>3 DEF MissedInv
  <1>10. QED
    BY <1>7, <1>8, <1>9 DEF MissedInv, Key

\* The update of a record of the main analysis touches no record of a missed attack.
LEMMA UpdateKeepsRecords ==
    ASSUME TypeInv, MissedInv, NEW l \in Logs, Update(l)
    PROVE  records' \subseteq RecordRow /\ Missed' = Missed
  <1> DEFINE Touched(r) == r.log = task[l].doc /\ r.kind = "alert_triage" /\ task[l].day = ResultIndex
             New(r) == IF Touched(r) THEN [r EXCEPT !.rule = task[l].rule] ELSE r
  <1>1. records' = {New(r) : r \in records}
    BY DEF Update
  <1>2. ASSUME NEW r \in records
        PROVE  /\ New(r) \in RecordRow /\ New(r).kind = r.kind
               /\ r.kind = "semantic_unalerted" => New(r) = r
    <2>1. r \in RecordRow /\ task[l].rule \in {"none", "written", "refused"}
      BY DEF MissedInv, RecordsInv, TypeInv, TaskRow
    <2>2. [r EXCEPT !.rule = task[l].rule] \in RecordRow /\ [r EXCEPT !.rule = task[l].rule].kind = r.kind
      BY <2>1 DEF RecordRow
    <2>3. QED
      BY <2>1, <2>2
  <1>3. records' \subseteq RecordRow
    BY <1>1, <1>2
  <1> HIDE DEF New
  <1>4. Missed' = {r \in records' : r.kind = "semantic_unalerted"}
    BY DEF Missed
  <1>5. Missed' = Missed
    BY <1>1, <1>2, <1>4 DEF Missed
  <1>6. QED
    BY <1>3, <1>5

\* A step of one task that claims nothing.
LEMMA MissedTask ==
    ASSUME TypeInv, MissedInv, NEW l \in Logs,
           \A k \in Logs \ {l} : task'[k] = task[k],
           task'[l].fresh \subseteq task[l].fresh, task'[l].at \notin {"new", "add"},
           task'[l].inst = task[l].inst \/ task[l].at = "new",
           records' \subseteq RecordRow, Missed' = Missed,
           processed' = processed, raced \subseteq raced'
    PROVE  MissedInv'
  BY MissedQuiet

LEMMA RecordsSame ==
    ASSUME MissedInv, records' = records
    PROVE  records' \subseteq RecordRow /\ Missed' = Missed
  BY DEF MissedInv, RecordsInv, Missed

LEMMA TriagedAdded ==
    ASSUME TypeInv, MissedInv, NEW l \in Logs, records' = records \cup {Triaged(l)}
    PROVE  records' \subseteq RecordRow /\ Missed' = Missed
  BY TriagedIsRow DEF MissedInv, RecordsInv, Missed

LEMMA MissedMain ==
    ASSUME TypeInv, MissedInv, NEW l \in Logs,
           \/ \E m, d \in BOOLEAN : Receive(l, m, d)
           \/ Asked(l)
           \/ \E t \in BOOLEAN : Judge(l, t)
           \/ WriteAnalysis(l)
           \/ \E i \in BOOLEAN : WriteAnalysisFails(l, i)
    PROVE  MissedInv'
  <1>0. task \in [Logs -> TaskRow] /\ task[l] \in TaskRow
    BY DEF TypeInv
  <1>1. ASSUME NEW m \in BOOLEAN, NEW d \in BOOLEAN, Receive(l, m, d) PROVE MissedInv'
    <2>1. /\ task[l].at = "new" /\ task'[l].at = "query" /\ task'[l].fresh = task[l].fresh
          /\ \A k \in Logs \ {l} : task'[k] = task[k]
      BY <1>0, <1>1 DEF Receive, TaskRow
    <2>2. QED
      BY <1>1, <2>1, MissedTask, RecordsSame DEF Receive
  <1>2. CASE Asked(l)
    <2>1. PICK found \in SUBSET Logs, own \in BOOLEAN :
            /\ task[l].at = "query"
            /\ task' = [task EXCEPT ![l] = [task[l] EXCEPT !.at = "judge", !.related = found,
                                                !.owed = found \cap Events, !.own = own]]
            /\ own => l \in found
            /\ UNCHANGED <<visible, records, noted, processed, raced, given, others>>
      BY <1>2, AskedIs
    <2>2. /\ task'[l].at = "judge" /\ task'[l].fresh = task[l].fresh /\ task'[l].inst = task[l].inst
          /\ \A k \in Logs \ {l} : task'[k] = task[k]
      BY <1>0, <2>1 DEF TaskRow
    <2>3. QED
      BY <2>1, <2>2, MissedTask, RecordsSame
  <1>3. ASSUME NEW t \in BOOLEAN, Judge(l, t) PROVE MissedInv'
    <2>1. PICK s : task' = [task EXCEPT ![l] = [task[l] EXCEPT !.at = "write", !.threat = t, !.source = s]]
      BY <1>3 DEF Judge
    <2>2. /\ task'[l].at = "write" /\ task'[l].fresh = task[l].fresh /\ task'[l].inst = task[l].inst
          /\ \A k \in Logs \ {l} : task'[k] = task[k]
      BY <1>0, <2>1 DEF TaskRow
    <2>3. QED
      BY <1>3, <2>2, MissedTask, RecordsSame DEF Judge
  <1>4. ASSUME WriteAnalysis(l) PROVE MissedInv'
    <2>1. /\ task'[l].at = "rule" /\ task'[l].fresh = task[l].fresh /\ task'[l].inst = task[l].inst
          /\ \A k \in Logs \ {l} : task'[k] = task[k]
      BY <1>0, <1>4 DEF WriteAnalysis, TaskRow
    <2>2. QED
      BY <1>4, <2>1, MissedTask, TriagedAdded DEF WriteAnalysis
  <1>5. ASSUME NEW i \in BOOLEAN, WriteAnalysisFails(l, i) PROVE MissedInv'
    <2>1. /\ task'[l].at \in {"rule", "done"} /\ task'[l].fresh \subseteq task[l].fresh /\ task'[l].inst = task[l].inst
          /\ \A k \in Logs \ {l} : task'[k] = task[k]
      <3>1. CASE Ends(l)
        BY <1>0, <3>1, OverIsTask DEF Ends
      <3>2. CASE task' = [task EXCEPT ![l].at = "rule", ![l].source = None, ![l].own = FALSE]
        BY <1>0, <3>2 DEF TaskRow
      <3>3. QED
        BY <1>5, <3>1, <3>2 DEF WriteAnalysisFails
    <2>2. records' \subseteq RecordRow /\ Missed' = Missed
      BY <1>5, RecordsSame, TriagedAdded DEF WriteAnalysisFails
    <2>3. QED
      BY <1>5, <2>1, <2>2, MissedTask DEF WriteAnalysisFails
  <1>6. QED
    BY <1>1, <1>2, <1>3, <1>4, <1>5

LEMMA MissedStep == TypeInv /\ MissedInv /\ [Next]_vars => MissedInv'
  <1> SUFFICES ASSUME TypeInv, MissedInv, [Next]_vars PROVE MissedInv'
    OBVIOUS
  <1>0. task \in [Logs -> TaskRow] /\ \A l \in Logs : task[l] \in TaskRow
    BY DEF TypeInv
  <1>1. ASSUME UNCHANGED <<task, records, raced>>, \A i \in 1..current : processed[i] \subseteq processed'[i]
        PROVE  MissedInv'
    BY <1>1, MissedQuiet, RecordsSame
  <1>2. ASSUME NEW l \in Logs, NEW at \in Places \ {"new", "add"}, Goes(l, at), processed' = processed,
               records' \subseteq RecordRow, Missed' = Missed, raced \subseteq raced'
        PROVE  MissedInv'
    <2>1. task' = [task EXCEPT ![l] = [task[l] EXCEPT !.at = at]]
      BY <1>2 DEF Goes
    <2>2. /\ task'[l].fresh = task[l].fresh /\ task'[l].at = at /\ task'[l].inst = task[l].inst
          /\ \A k \in Logs \ {l} : task'[k] = task[k]
      BY <1>0, <2>1 DEF TaskRow
    <2>3. QED
      BY <1>2, <2>2, MissedTask
  <1>3. ASSUME NEW l \in Logs, Ends(l), UNCHANGED <<records, processed, raced>> PROVE MissedInv'
    <2>1. /\ task'[l].fresh = {} /\ task'[l].at = "done" /\ task'[l].inst = task[l].inst
          /\ \A k \in Logs \ {l} : task'[k] = task[k]
      BY <1>0, <1>3, OverIsTask DEF Ends
    <2>2. QED
      BY <1>3, <2>1, MissedTask, RecordsSame
  <1>4. ASSUME NEW l \in Logs, JudgeRaises(l) \/ SkipRule(l) \/ StartRule(l) \/ UpdateFails(l)
        PROVE  MissedInv'
    <2>1. PICK at \in {"raised", "search", "generate"} : Goes(l, at)
      BY <1>4 DEF JudgeRaises, SkipRule, StartRule, UpdateFails, AfterFailedUpdate
    <2>2. UNCHANGED <<records, processed>> /\ raced \subseteq raced'
      BY <1>4 DEF JudgeRaises, SkipRule, StartRule, UpdateFails
    <2>3. QED
      BY <1>2, <2>1, <2>2, RecordsSame DEF Places
  <1>5. ASSUME NEW l \in Logs, Update(l) PROVE MissedInv'
    BY <1>2, <1>5, UpdateKeepsRecords DEF Update, Places
  <1>6. ASSUME NEW l \in Logs, NEW o \in {"written", "refused"}, EndRule(l, o) PROVE MissedInv'
    <2>1. /\ task'[l].at = "update" /\ task'[l].fresh = task[l].fresh /\ task'[l].inst = task[l].inst
          /\ \A k \in Logs \ {l} : task'[k] = task[k]
      BY <1>0, <1>6 DEF EndRule, TaskRow
    <2>2. QED
      BY <1>6, <2>1, MissedTask, RecordsSame DEF EndRule
  <1>7. ASSUME NEW l \in Logs, Search(l) PROVE MissedInv'
    <2>1. /\ task'[l].at = "sift" /\ task'[l].fresh = task[l].fresh /\ task'[l].inst = task[l].inst
          /\ \A k \in Logs \ {l} : task'[k] = task[k]
      BY <1>0, <1>7 DEF Search, TaskRow
    <2>2. QED
      BY <1>7, <2>1, MissedTask, RecordsSame DEF Search
  <1>8. ASSUME NEW l \in Logs, NEW e \in Events, LookUp(l, e) PROVE MissedInv'
    <2>1. CASE Known(l, e)
      <3>1. task' = [task EXCEPT ![l] = [task[l] EXCEPT !.todo = @ \ {e}]] /\ task[l].at = "sift"
        BY <1>8, <2>1 DEF LookUp
      <3>2. /\ task'[l].at = "sift" /\ task'[l].fresh = task[l].fresh /\ task'[l].inst = task[l].inst
            /\ \A k \in Logs \ {l} : task'[k] = task[k]
        BY <1>0, <3>1 DEF TaskRow
      <3>3. QED
        BY <1>8, <3>2, MissedTask, RecordsSame DEF LookUp
    <2>2. QED
      BY <1>8, <2>1, MissedLookUp
  <1>9. ASSUME NEW l \in Logs, Sifted(l) \/ RecordUnbound(l) PROVE MissedInv'
    BY <1>2, <1>3, <1>9, RecordsSame DEF Sifted, RecordUnbound, Places
  <1>10. ASSUME NEW l \in Logs, NEW e \in Events, RecordMissedFails(l, e) PROVE MissedInv'
    <2>1. CASE task' = [task EXCEPT ![l] = Over(l)]
      BY <1>3, <1>10, <2>1 DEF Ends, RecordMissedFails
    <2>2. CASE task' = [task EXCEPT ![l].fresh = @ \ {e}]
      <3>1. /\ task'[l].at = "record" /\ task'[l].fresh \subseteq task[l].fresh /\ task'[l].inst = task[l].inst
            /\ \A k \in Logs \ {l} : task'[k] = task[k]
        BY <1>0, <1>10, <2>2 DEF TaskRow, RecordMissedFails
      <3>2. QED
        BY <1>10, <3>1, MissedTask, RecordsSame DEF RecordMissedFails
    <2>3. QED
      BY <1>10, <2>1, <2>2 DEF AfterRecord, RecordMissedFails
  <1>11. CASE Restart
    <2>1. \A i \in 1..current : processed'[i] = processed[i]
      BY <1>11, MemoryStep DEF Restart
    <2>2. task' = [l \in Logs |-> IF task[l].at \in {"new", "raised"} THEN task[l] ELSE Over(l)]
      BY <1>11 DEF Restart
    <2>3. \A l \in Logs : /\ task'[l].fresh \subseteq task[l].fresh /\ task'[l].inst = task[l].inst
                          /\ task'[l].at # "add" /\ (task'[l].at = "new" => task[l].at = "new")
      BY <2>2, OverIsTask
    <2>4. records' = records /\ raced \subseteq raced'
      BY <1>11 DEF Restart, NewInstance
    <2>5. QED
      BY <2>1, <2>3, <2>4, MissedQuiet, RecordsSame
  <1>12. CASE UNCHANGED vars \/ (\E l \in Logs : Appear(l)) \/ Midnight
    BY <1>1, <1>12 DEF vars, Appear, Midnight
  <1>13. CASE ReloadAnalyzer
    BY <1>1, <1>13, MemoryStep DEF ReloadAnalyzer, NewInstance
  <1>14. ASSUME NEW l \in Logs, Background(l) \/ UpdateFails(l) \/ \E e \in Events : RecordMissedFails(l, e)
         PROVE  MissedInv'
    BY <1>4, <1>5, <1>6, <1>7, <1>8, <1>9, <1>10, <1>14, MissedAdd, MissedRecorded DEF Background
  <1>15. ASSUME NEW l \in Logs, Work(l) \/ Failing(l) PROVE MissedInv'
    BY <1>4, <1>14, <1>15, MissedMain DEF Work, Failing, Asked
  <1>16. QED
    BY <1>11, <1>12, <1>13, <1>15, MissedMain DEF Next

\* A missed attack gets one record: `analyzer.py`, `_processed_unalerted`.
THEOREM OneRecord == Spec => []OneRecordPerMissedAttack
  <1>1. Init => MissedInv
    BY DEF Init, MissedInv, RecordsInv, Missed, Claimed, Idle
  <1>2. MissedInv => OneRecordPerMissedAttack
    <2> SUFFICES ASSUME MissedInv, NEW r \in Missed, NEW q \in Missed, r # q, r.inst = q.inst, r.key = q.key
                 PROVE  <<r.inst, r.key>> \in raced
      BY DEF OneRecordPerMissedAttack, Missed
    <2>1. /\ r.log \in Logs /\ q.log \in Logs /\ r.source \in Events /\ q.source \in Events
          /\ r = Recorded(r.log, r.source) /\ q = Recorded(q.log, q.source)
      BY DEF MissedInv, RecordsInv, Missed, RecordRow
    <2>2. <<r.log, r.source>> # <<q.log, q.source>>
      BY <2>1
    <2>3. r.inst = task[r.log].inst /\ r.key = Key(r.log, r.source) /\ q.inst = task[q.log].inst /\ q.key = Key(q.log, q.source)
      BY <2>1 DEF Recorded
    <2>4. Claimed(r.log, r.source) /\ Claimed(q.log, q.source)
      BY DEF Claimed
    <2>5. QED
      BY <2>1, <2>2, <2>3, <2>4 DEF MissedInv, Same, Raced
  <1>3. QED
    BY <1>1, <1>2, TypeHolds, MissedStep, PTL DEF Spec

-----------------------------------------------------------------------------
(* The alert's own document                                                *)

Rightly(l, s) == Sig[s] = Sig[l] /\ (task[l].own => Flow[s] = Flow[l] /\ Time[s] = Time[l])

SourceInv ==
    /\ SourceIsTheAlert
    /\ \A l \in Logs : task[l].at = "judge" /\ task[l].own => l \in task[l].related

\* Whichever way the document is found, it is the right one.
LEMMA SourcesAreRight ==
    ASSUME TypeInv, NEW l \in Logs, task[l].own => l \in task[l].related, NEW s \in Sources(l), s # None
    PROVE  Rightly(l, s)
  <1>0. Sig \in [Logs -> Nat] /\ Time \in [Logs -> Nat] /\ task[l].related \subseteq Logs /\ visible \subseteq Logs
    BY PipelineAssumption DEF TypeInv, TaskRow
  <1>1. CASE task[l].manual
    BY <1>1 DEF Sources, Rightly
  <1>2. ASSUME s \in Nearest(l, Candidates(l)) PROVE Rightly(l, s)
    <2>1. s \in Candidates(l) /\ \A y \in Candidates(l) : Distance(l, s) <= Distance(l, y)
      BY <1>2 DEF Nearest
    <2>2. Sig[s] = Sig[l] /\ Sig[l] # 0 /\ s \in Logs
      BY <1>0, <2>1 DEF Candidates
    <2>3. ASSUME task[l].own PROVE Flow[s] = Flow[l] /\ Time[s] = Time[l]
      <3>1. l \in Candidates(l)
        BY <2>2, <2>3 DEF Candidates
      <3>2. Distance(l, l) = 0 /\ Distance(l, s) \in Nat
        BY <1>0, <2>2 DEF Distance
      <3>3. Distance(l, s) = 0
        BY <2>1, <3>1, <3>2
      <3>4. Time[s] = Time[l]
        BY <1>0, <2>2, <3>3 DEF Distance
      <3>5. \A y \in Candidates(l) : Distance(l, y) \in Nat
        BY <1>0 DEF Candidates, Distance
      <3>6. l \in {x \in Candidates(l) : \A y \in Candidates(l) : Distance(l, x) <= Distance(l, y)}
        BY <3>1, <3>2, <3>5
      <3>7. Flow[s] = Flow[l]
        BY <1>2, <2>3, <3>6 DEF Nearest
      <3>8. QED
        BY <3>4, <3>7
    <2>4. QED
      BY <2>2, <2>3 DEF Rightly
  <1>3. ASSUME s \in Findable(l), Candidates(l) = {} PROVE Rightly(l, s)
    <2>1. Sig[s] = Sig[l] /\ Sig[l] # 0
      BY <1>3 DEF Findable
    <2>2. ~task[l].own
      BY <1>3, <2>1 DEF Candidates
    <2>3. QED
      BY <2>1, <2>2 DEF Rightly
  <1>4. s \in Nearest(l, Candidates(l)) \/ (s \in Findable(l) /\ Candidates(l) = {}) \/ task[l].manual
    BY DEF Sources
  <1>5. QED
    BY <1>1, <1>2, <1>3, <1>4

\* A step of one task that does not end its search for the document.
LEMMA SourceTask ==
    ASSUME SourceInv, NEW l \in Logs, \A k \in Logs \ {l} : task'[k] = task[k],
           task'[l].at # "write", task'[l].at = "judge" => ~task'[l].own
    PROVE  SourceInv'
  BY DEF SourceInv, SourceIsTheAlert

LEMMA SourceStep == TypeInv /\ SourceInv /\ [Next]_vars => SourceInv'
  <1> SUFFICES ASSUME TypeInv, SourceInv, [Next]_vars PROVE SourceInv'
    OBVIOUS
  <1>0. task \in [Logs -> TaskRow] /\ \A l \in Logs : task[l] \in TaskRow
    BY DEF TypeInv
  <1>1. ASSUME UNCHANGED task PROVE SourceInv'
    BY <1>1 DEF SourceInv, SourceIsTheAlert
  <1>3. ASSUME NEW l \in Logs, NEW m \in BOOLEAN, NEW d \in BOOLEAN, Receive(l, m, d) PROVE SourceInv'
    <2>1. task'[l].at = "query" /\ \A k \in Logs \ {l} : task'[k] = task[k]
      BY <1>0, <1>3 DEF Receive, TaskRow
    <2>2. QED
      BY <2>1, SourceTask
  <1>4. ASSUME NEW l \in Logs, Asked(l) PROVE SourceInv'
    <2>1. PICK found \in SUBSET Logs, own \in BOOLEAN :
            /\ task[l].at = "query"
            /\ task' = [task EXCEPT ![l] = [task[l] EXCEPT !.at = "judge", !.related = found,
                                                !.owed = found \cap Events, !.own = own]]
            /\ own => l \in found
            /\ UNCHANGED <<visible, records, noted, processed, raced, given, others>>
      BY <1>4, AskedIs
    <2>2. /\ task'[l].at = "judge" /\ task'[l].related = found /\ task'[l].own = own
          /\ \A k \in Logs \ {l} : task'[k] = task[k]
      BY <1>0, <2>1 DEF TaskRow
    <2>3. QED
      BY <2>1, <2>2 DEF SourceInv, SourceIsTheAlert
  <1>5. ASSUME NEW l \in Logs, NEW threat \in BOOLEAN, Judge(l, threat) PROVE SourceInv'
    <2>1. PICK s \in Sources(l) :
            task' = [task EXCEPT ![l] = [task[l] EXCEPT !.at = "write", !.threat = threat, !.source = s]]
      BY <1>5 DEF Judge
    <2>2. /\ task'[l].at = "write" /\ task'[l].source = s /\ task'[l].own = task[l].own
          /\ \A k \in Logs \ {l} : task'[k] = task[k]
      BY <1>0, <2>1 DEF TaskRow
    <2>3. task[l].own => l \in task[l].related
      BY <1>5 DEF Judge, SourceInv
    <2>4. s # None => Rightly(l, s)
      BY <2>3, SourcesAreRight
    <2>5. QED
      BY <2>2, <2>4 DEF SourceInv, SourceIsTheAlert, Rightly
  <1>6. ASSUME NEW l \in Logs, NEW at \in Places \ {"write", "judge"}, Goes(l, at) PROVE SourceInv'
    <2>1. task'[l].at = at /\ \A k \in Logs \ {l} : task'[k] = task[k]
      BY <1>0, <1>6 DEF Goes, TaskRow
    <2>2. QED
      BY <1>6, <2>1, SourceTask
  <1>7. ASSUME NEW l \in Logs, task' = [task EXCEPT ![l] = Over(l)] PROVE SourceInv'
    <2>1. task'[l].at = "done" /\ \A k \in Logs \ {l} : task'[k] = task[k]
      BY <1>0, <1>7, OverIsTask
    <2>2. QED
      BY <2>1, SourceTask
  <1>9. ASSUME NEW l \in Logs, WriteAnalysis(l) \/ \E i \in BOOLEAN : WriteAnalysisFails(l, i) PROVE SourceInv'
    <2>1. CASE WriteAnalysis(l)
      <3>1. task'[l].at = "rule" /\ \A k \in Logs \ {l} : task'[k] = task[k]
        BY <1>0, <2>1 DEF WriteAnalysis, TaskRow
      <3>2. QED
        BY <3>1, SourceTask
    <2>2. CASE task' = [task EXCEPT ![l].at = "rule", ![l].source = None, ![l].own = FALSE]
      <3>1. task'[l].at = "rule" /\ \A k \in Logs \ {l} : task'[k] = task[k]
        BY <1>0, <2>2 DEF TaskRow
      <3>2. QED
        BY <3>1, SourceTask
    <2>3. QED
      BY <1>7, <1>9, <2>1, <2>2 DEF WriteAnalysisFails, Ends
  <1>10. ASSUME NEW l \in Logs, Search(l) \/ AddKey(l) \/ (\E o \in {"written", "refused"} : EndRule(l, o))
                             \/ (\E e \in Events : LookUp(l, e))
         PROVE  SourceInv'
    <2>1. task'[l].at \in {"sift", "add", "update"} /\ \A k \in Logs \ {l} : task'[k] = task[k]
      <3>1. CASE Search(l)
        BY <1>0, <3>1 DEF Search, TaskRow
      <3>2. CASE AddKey(l)
        BY <1>0, <3>2 DEF AddKey, TaskRow
      <3>3. ASSUME NEW o \in {"written", "refused"}, EndRule(l, o)
            PROVE  task'[l].at = "update" /\ \A k \in Logs \ {l} : task'[k] = task[k]
        BY <1>0, <3>3 DEF EndRule, TaskRow
      <3>4. ASSUME NEW e \in Events, LookUp(l, e)
            PROVE  task'[l].at \in {"sift", "add"} /\ \A k \in Logs \ {l} : task'[k] = task[k]
        BY <1>0, <3>4 DEF LookUp, TaskRow
      <3>5. QED
        BY <1>10, <3>1, <3>2, <3>3, <3>4
    <2>2. QED
      BY <2>1, SourceTask
  <1>11. ASSUME NEW l \in Logs, NEW e \in Events, RecordMissed(l, e) \/ RecordMissedFails(l, e) PROVE SourceInv'
    <2>1. CASE task' = [task EXCEPT ![l].fresh = @ \ {e}]
      <3>1. task'[l].at = "record" /\ \A k \in Logs \ {l} : task'[k] = task[k]
        BY <1>0, <1>11, <2>1 DEF RecordMissed, RecordMissedFails, TaskRow
      <3>2. QED
        BY <3>1, SourceTask
    <2>2. QED
      BY <1>7, <1>11, <2>1 DEF RecordMissed, RecordMissedFails, AfterRecord
  <1>12. ASSUME NEW l \in Logs, JudgeRaises(l) \/ SkipRule(l) \/ StartRule(l) \/ Update(l) \/ UpdateFails(l)
                             \/ Sifted(l) \/ RecordUnbound(l)
         PROVE  SourceInv'
    BY <1>6, <1>7, <1>12 DEF JudgeRaises, SkipRule, StartRule, Update, UpdateFails, AfterFailedUpdate, Sifted,
                             RecordUnbound, Ends, Places
  <1>13. CASE Restart
    <2>1. task' = [l \in Logs |-> IF task[l].at \in {"new", "raised"} THEN task[l] ELSE Over(l)]
      BY <1>13 DEF Restart
    <2>2. \A l \in Logs : task'[l].at \notin {"judge", "write"}
      BY <2>1, OverIsTask
    <2>3. QED
      BY <2>2 DEF SourceInv, SourceIsTheAlert
  <1>14. CASE UNCHANGED vars \/ (\E l \in Logs : Appear(l)) \/ Midnight \/ ReloadAnalyzer
    BY <1>1, <1>14 DEF vars, Appear, Midnight, ReloadAnalyzer
  <1>15. ASSUME NEW l \in Logs, Work(l) \/ Failing(l) PROVE SourceInv'
    BY <1>4, <1>5, <1>9, <1>10, <1>11, <1>12, <1>15 DEF Work, Failing, Background, Asked
  <1>16. QED
    BY <1>3, <1>13, <1>14, <1>15 DEF Next

\* The record points to the alert's own document: `analyzer.py`, `_enrich_metadata`.
THEOREM OwnSource == Spec => []SourceIsTheAlert
  <1>1. Init => SourceInv
    BY DEF Init, SourceInv, SourceIsTheAlert, Idle
  <1>2. SourceInv => SourceIsTheAlert
    BY DEF SourceInv
  <1>3. QED
    BY <1>1, <1>2, TypeHolds, SourceStep, PTL DEF Spec

-----------------------------------------------------------------------------
(* Missed attacks get their records                                        *)

\* A key that an instance has dealt with: its record stands, a task holds it, or a task
\* was made to give it up.
Accounted(i, key) ==
    \/ \E r \in Missed : r.inst = i /\ r.key = key
    \/ \E k \in Logs : task[k].inst = i /\ (k \in given \/ \E f \in task[k].fresh : Key(k, f) = key)

Asking == {"judge", "write", "rule", "generate", "update", "search"}

\* What a task still has to do for the missed attacks among its logs.
TaskOwes(l) ==
    LET t == task[l]
    IN  /\ t.at \in {"new", "query"} => t.owed = {}
        /\ t.at \in Asking => t.owed \subseteq t.related
        /\ t.at \in {"sift", "add"} =>
              \A e \in t.owed : e \in t.todo \/ (t.at = "add" /\ e = t.item) \/ Key(l, e) \in processed[t.inst]
        /\ t.at \in {"record", "done"} => \A e \in t.owed : Key(l, e) \in processed[t.inst]
        /\ t.at \in {"rule", "generate", "update", "search", "sift", "add", "record"} => t.doc # None
        /\ t.at = "done" => t.fresh = {}

AccountInv ==
    /\ \A k \in given : k \in Logs /\ task[k].at # "new"
    /\ \A i \in 1..current : \A key \in processed[i] : Accounted(i, key)
    /\ \A l \in Logs : l \notin given => TaskOwes(l)

LEMMA AccountImplies == TypeInv /\ AccountInv => MissedAttacksGetRecorded
  <1> SUFFICES ASSUME TypeInv, AccountInv, NEW l \in Logs, task[l].at = "done", l \notin given, NEW e \in task[l].owed
               PROVE  \/ \E r \in records : r.inst = task[l].inst /\ r.key = Key(l, e)
                      \/ \E k \in Logs :
                            /\ task[k].inst = task[l].inst
                            /\ \/ k \in given /\ Key(l, e) \in processed[task[l].inst]
                               \/ \E f \in task[k].fresh : Key(k, f) = Key(l, e)
    BY DEF MissedAttacksGetRecorded
  <1>1. Key(l, e) \in processed[task[l].inst]
    BY DEF AccountInv, TaskOwes
  <1>2. task[l].inst \in 1..current
    BY DEF TypeInv, TaskRow, Instances
  <1>3. Accounted(task[l].inst, Key(l, e))
    BY <1>1, <1>2 DEF AccountInv
  <1>4. QED
    BY <1>1, <1>3 DEF Accounted, Missed

\* An account is kept: records and those given up stay, a held find is held, recorded or
\* given up.
LEMMA AccountStays ==
    ASSUME NEW i, NEW key, Accounted(i, key), Missed \subseteq Missed', given \subseteq given',
           \A k \in Logs : k \in given \/ task[k].fresh # {} => task'[k].inst = task[k].inst,
           \A k \in Logs : \A f \in task[k].fresh :
              \/ f \in task'[k].fresh \/ k \in given'
              \/ \E r \in Missed' : r.inst = task[k].inst /\ r.key = Key(k, f)
    PROVE  Accounted(i, key)'
  <1>1. CASE \E r \in Missed : r.inst = i /\ r.key = key
    BY <1>1 DEF Accounted
  <1>2. ASSUME NEW k \in Logs, task[k].inst = i, k \in given PROVE Accounted(i, key)'
    BY <1>2 DEF Accounted
  <1>3. ASSUME NEW k \in Logs, task[k].inst = i, NEW f \in task[k].fresh, Key(k, f) = key PROVE Accounted(i, key)'
    <2>1. task'[k].inst = i
      BY <1>3
    <2>2. CASE f \in task'[k].fresh \/ k \in given'
      BY <1>3, <2>1, <2>2 DEF Accounted, Key
    <2>3. ASSUME NEW r \in Missed', r.inst = task[k].inst, r.key = Key(k, f) PROVE Accounted(i, key)'
      BY <1>3, <2>3 DEF Accounted
    <2>4. QED
      BY <1>3, <2>2, <2>3
  <1>4. QED
    BY <1>1, <1>2, <1>3 DEF Accounted

\* A step of one task that adds no key.
LEMMA AccountTask ==
    ASSUME TypeInv, MissedInv, AccountInv, NEW l \in Logs,
           \A k \in Logs \ {l} : task'[k] = task[k],
           task'[l].inst = task[l].inst \/ (task[l].at = "new" /\ l \notin given'),
           Missed \subseteq Missed', current' = current, processed' = processed,
           given' = given \/ given' = given \cup {l},
           \A f \in task[l].fresh :
              \/ f \in task'[l].fresh \/ l \in given'
              \/ \E r \in Missed' : r.inst = task[l].inst /\ r.key = Key(l, f),
           task'[l].at # "new",
           l \notin given' => TaskOwes(l)'
    PROVE  AccountInv'
  <1>1. \A k \in Logs : k \in given \/ task[k].fresh # {} => task'[k].inst = task[k].inst
    <2>1. task[l].at = "new" => task[l].fresh = {}
      BY DEF TypeInv
    <2>2. QED
      BY <2>1
  <1>2. \A i \in 1..current' : \A key \in processed'[i] : Accounted(i, key)'
    BY <1>1, AccountStays DEF AccountInv
  <1>3. ASSUME NEW k \in Logs, k \notin given' PROVE TaskOwes(k)'
    <2>1. CASE k = l
      BY <1>3, <2>1 DEF TaskOwes, Key
    <2>2. CASE k # l
      <3>1. k \notin given /\ task'[k] = task[k] /\ processed' = processed
        BY <1>3, <2>2
      <3>2. TaskOwes(k)
        BY <3>1 DEF AccountInv
      <3>3. QED
        BY <3>1, <3>2 DEF TaskOwes, Key
    <2>3. QED
      BY <2>1, <2>2
  <1>4. \A k \in given' : k \in Logs /\ task'[k].at # "new"
    BY DEF AccountInv
  <1>5. QED
    BY <1>2, <1>3, <1>4 DEF AccountInv

\* A step of one task that leaves its finds, the memories and the records alone.
LEMMA AccountGoes ==
    ASSUME TypeInv, MissedInv, AccountInv, NEW l \in Logs,
           \A k \in Logs \ {l} : task'[k] = task[k],
           task'[l].inst = task[l].inst, task'[l].fresh = task[l].fresh,
           Missed' = Missed, current' = current, processed' = processed, given' = given,
           task'[l].at # "new", TaskOwes(l) => TaskOwes(l)'
    PROVE  AccountInv'
  <1>1. l \notin given' => TaskOwes(l)'
    BY DEF AccountInv
  <1>2. QED
    BY <1>1, AccountTask

LEMMA AccountMain ==
    ASSUME TypeInv, MissedInv, AccountInv, NEW l \in Logs,
           \/ \E m, d \in BOOLEAN : Receive(l, m, d)
           \/ Asked(l)
           \/ \E t \in BOOLEAN : Judge(l, t)
           \/ WriteAnalysis(l)
           \/ \E i \in BOOLEAN : WriteAnalysisFails(l, i)
    PROVE  AccountInv'
  <1>0. task \in [Logs -> TaskRow] /\ task[l] \in TaskRow
    BY DEF TypeInv
  <1>1. ASSUME NEW m \in BOOLEAN, NEW d \in BOOLEAN, Receive(l, m, d) PROVE AccountInv'
    <2>1. /\ task[l].at = "new" /\ task'[l].at = "query" /\ task'[l].fresh = task[l].fresh
          /\ task'[l].owed = task[l].owed /\ \A k \in Logs \ {l} : task'[k] = task[k]
      BY <1>0, <1>1 DEF Receive, TaskRow
    <2>2. l \notin given /\ TaskOwes(l)
      BY <2>1 DEF AccountInv
    <2>3. TaskOwes(l)'
      BY <2>1, <2>2 DEF TaskOwes, Asking
    <2>4. Missed' = Missed /\ processed' = processed /\ given' = given /\ current' = current
      BY <1>1, RecordsSame DEF Receive, others
    <2>5. QED
      BY <2>1, <2>2, <2>3, <2>4, AccountTask
  <1>2. CASE Asked(l)
    <2>1. PICK found \in SUBSET Logs, own \in BOOLEAN :
            /\ task[l].at = "query"
            /\ task' = [task EXCEPT ![l] = [task[l] EXCEPT !.at = "judge", !.related = found,
                                                !.owed = found \cap Events, !.own = own]]
            /\ own => l \in found
            /\ UNCHANGED <<visible, records, noted, processed, raced, given, others>>
      BY <1>2, AskedIs
    <2>2. /\ task'[l].at = "judge" /\ task'[l].fresh = task[l].fresh /\ task'[l].inst = task[l].inst
          /\ task'[l].related = found /\ task'[l].owed = found \cap Events
          /\ \A k \in Logs \ {l} : task'[k] = task[k]
      BY <1>0, <2>1 DEF TaskRow
    <2>3. TaskOwes(l)'
      BY <2>2 DEF TaskOwes, Asking
    <2>4. Missed' = Missed /\ processed' = processed /\ given' = given /\ current' = current
      BY <2>1, RecordsSame DEF others
    <2>5. QED
      BY <2>2, <2>3, <2>4, AccountGoes
  <1>3. ASSUME NEW t \in BOOLEAN, Judge(l, t) PROVE AccountInv'
    <2>1. PICK s : task' = [task EXCEPT ![l] = [task[l] EXCEPT !.at = "write", !.threat = t, !.source = s]]
      BY <1>3 DEF Judge
    <2>2. /\ task'[l].at = "write" /\ task'[l].fresh = task[l].fresh /\ task'[l].inst = task[l].inst
          /\ task'[l].related = task[l].related /\ task'[l].owed = task[l].owed
          /\ \A k \in Logs \ {l} : task'[k] = task[k]
      BY <1>0, <2>1 DEF TaskRow
    <2>3. TaskOwes(l) => TaskOwes(l)'
      BY <1>3, <2>2 DEF TaskOwes, Asking, Judge
    <2>4. Missed' = Missed /\ processed' = processed /\ given' = given /\ current' = current
      BY <1>3, RecordsSame DEF Judge, others
    <2>5. QED
      BY <2>2, <2>3, <2>4, AccountGoes
  <1>4. ASSUME WriteAnalysis(l) PROVE AccountInv'
    <2>1. /\ task'[l].at = "rule" /\ task'[l].fresh = task[l].fresh /\ task'[l].inst = task[l].inst
          /\ task'[l].related = task[l].related /\ task'[l].owed = task[l].owed /\ task'[l].doc = l
          /\ \A k \in Logs \ {l} : task'[k] = task[k]
      BY <1>0, <1>4 DEF WriteAnalysis, TaskRow
    <2>2. TaskOwes(l) => TaskOwes(l)'
      BY <1>4, <2>1, PipelineAssumption DEF TaskOwes, Asking, WriteAnalysis
    <2>3. Missed' = Missed /\ processed' = processed /\ given' = given /\ current' = current
      BY <1>4, TriagedAdded DEF WriteAnalysis, others
    <2>4. QED
      BY <2>1, <2>2, <2>3, AccountGoes
  <1>5. ASSUME NEW i \in BOOLEAN, WriteAnalysisFails(l, i) PROVE AccountInv'
    <2>1. /\ task'[l].at \in {"rule", "done"} /\ task'[l].inst = task[l].inst
          /\ \A k \in Logs \ {l} : task'[k] = task[k]
      <3>1. CASE Ends(l)
        BY <1>0, <3>1, OverIsTask DEF Ends
      <3>2. CASE task' = [task EXCEPT ![l].at = "rule", ![l].source = None, ![l].own = FALSE]
        BY <1>0, <3>2 DEF TaskRow
      <3>3. QED
        BY <1>5, <3>1, <3>2 DEF WriteAnalysisFails
    <2>2. Missed' = Missed
      BY <1>5, RecordsSame, TriagedAdded DEF WriteAnalysisFails
    <2>3. processed' = processed /\ given' = given \cup {l} /\ current' = current
      BY <1>5 DEF WriteAnalysisFails, others
    <2>4. QED
      BY <2>1, <2>2, <2>3, AccountTask
  <1>6. QED
    BY <1>1, <1>2, <1>3, <1>4, <1>5

LEMMA AccountBackground ==
    ASSUME TypeInv, MissedInv, AccountInv, NEW l \in Logs,
           \/ JudgeRaises(l) \/ SkipRule(l) \/ StartRule(l) \/ Update(l) \/ UpdateFails(l)
           \/ (\E o \in {"written", "refused"} : EndRule(l, o)) \/ Search(l)
    PROVE  AccountInv'
  <1>0. task \in [Logs -> TaskRow] /\ task[l] \in TaskRow
    BY DEF TypeInv
  <1>1. CASE ~Search(l)
    <2>1. PICK at \in {"raised", "generate", "search", "update"} :
             /\ task'[l].at = at /\ task'[l].fresh = task[l].fresh /\ task'[l].inst = task[l].inst
             /\ task'[l].related = task[l].related /\ task'[l].owed = task[l].owed /\ task'[l].doc = task[l].doc
             /\ task[l].at \in {"judge", "rule", "generate", "update"}
             /\ task[l].at = "judge" => at = "raised"
             /\ \A k \in Logs \ {l} : task'[k] = task[k]
      <3>1. ASSUME NEW o \in {"written", "refused"}, EndRule(l, o)
            PROVE  /\ task'[l].at = "update" /\ task'[l].fresh = task[l].fresh /\ task'[l].inst = task[l].inst
                   /\ task'[l].related = task[l].related /\ task'[l].owed = task[l].owed
                   /\ task'[l].doc = task[l].doc
                   /\ task[l].at = "generate" /\ \A k \in Logs \ {l} : task'[k] = task[k]
        BY <1>0, <3>1 DEF EndRule, TaskRow
      <3>2. ASSUME NEW at \in {"raised", "generate", "search"}, Goes(l, at)
            PROVE  /\ task'[l].at = at /\ task'[l].fresh = task[l].fresh /\ task'[l].inst = task[l].inst
                   /\ task'[l].related = task[l].related /\ task'[l].owed = task[l].owed
                   /\ task'[l].doc = task[l].doc
                   /\ \A k \in Logs \ {l} : task'[k] = task[k]
        BY <1>0, <3>2 DEF Goes, TaskRow
      <3>4. CASE JudgeRaises(l)
        BY <3>2, <3>4 DEF JudgeRaises
      <3>5. CASE SkipRule(l) \/ StartRule(l)
        BY <3>2, <3>5 DEF SkipRule, StartRule
      <3>6. CASE Update(l) \/ UpdateFails(l)
        BY <3>2, <3>6 DEF Update, UpdateFails, AfterFailedUpdate
      <3>7. QED
        BY <1>1, <3>1, <3>4, <3>5, <3>6
    <2>2. TaskOwes(l) => TaskOwes(l)'
      BY <2>1 DEF TaskOwes, Asking
    <2>3. records' = records \/ Update(l)
      BY <1>1 DEF JudgeRaises, SkipRule, StartRule, UpdateFails, EndRule
    <2>4. Missed' = Missed
      BY <2>3, RecordsSame, UpdateKeepsRecords
    <2>5. processed' = processed /\ given' = given /\ current' = current
      BY <1>1 DEF JudgeRaises, SkipRule, StartRule, Update, UpdateFails, EndRule, others
    <2>6. QED
      BY <2>1, <2>2, <2>4, <2>5, AccountGoes
  <1>2. CASE Search(l)
    <2>1. /\ task'[l].at = "sift" /\ task'[l].fresh = task[l].fresh /\ task'[l].inst = task[l].inst
          /\ task'[l].todo = task[l].related \cap Events /\ task'[l].owed = task[l].owed
          /\ task'[l].doc = task[l].doc /\ task[l].at = "search"
          /\ \A k \in Logs \ {l} : task'[k] = task[k]
      BY <1>0, <1>2 DEF Search, TaskRow, Unalerted
    <2>2. task[l].owed \subseteq Events
      BY <1>0 DEF TaskRow
    <2>3. TaskOwes(l) => TaskOwes(l)'
      BY <2>1, <2>2 DEF TaskOwes, Asking
    <2>4. Missed' = Missed /\ processed' = processed /\ given' = given /\ current' = current
      BY <1>2, RecordsSame DEF Search, others
    <2>5. QED
      BY <2>1, <2>3, <2>4, AccountGoes
  <1>3. QED
    BY <1>1, <1>2

LEMMA AccountSift ==
    ASSUME TypeInv, MissedInv, AccountInv, NEW l \in Logs,
           (\E e \in Events : LookUp(l, e)) \/ Sifted(l) \/ RecordUnbound(l)
    PROVE  AccountInv'
  <1>0. task \in [Logs -> TaskRow] /\ task[l] \in TaskRow
    BY DEF TypeInv
  <1>1. ASSUME NEW e \in Events, LookUp(l, e) PROVE AccountInv'
    <2>1. /\ task'[l].fresh = task[l].fresh /\ task'[l].inst = task[l].inst
          /\ task'[l].owed = task[l].owed /\ task'[l].doc = task[l].doc
          /\ task[l].at = "sift" /\ task'[l].todo = task[l].todo \ {e}
          /\ IF Known(l, e) THEN task'[l].at = "sift" ELSE task'[l].at = "add" /\ task'[l].item = e
          /\ \A k \in Logs \ {l} : task'[k] = task[k]
      BY <1>0, <1>1 DEF LookUp, TaskRow
    <2>2. Missed' = Missed /\ processed' = processed /\ given' = given /\ current' = current
      BY <1>1, RecordsSame DEF LookUp, others
    <2>3. TaskOwes(l) => TaskOwes(l)'
      BY <2>1, <2>2 DEF TaskOwes, Asking, Known, Key
    <2>4. QED
      BY <2>1, <2>2, <2>3, AccountGoes
  <1>2. CASE Sifted(l)
    <2>1. /\ task[l].at = "sift" /\ task[l].todo = {}
          /\ task'[l].fresh = task[l].fresh /\ task'[l].inst = task[l].inst
          /\ task'[l].owed = task[l].owed /\ task'[l].doc = task[l].doc
          /\ task'[l].at = "record" \/ (task'[l].at = "done" /\ task'[l].fresh = {})
          /\ \A k \in Logs \ {l} : task'[k] = task[k]
      <3>1. CASE task[l].fresh = {}
        BY <1>0, <1>2, <3>1, OverIsTask DEF Sifted, Ends
      <3>2. CASE task[l].fresh # {}
        BY <1>0, <1>2, <3>2 DEF Sifted, Goes, TaskRow
      <3>3. QED
        BY <3>1, <3>2
    <2>2. Missed' = Missed /\ processed' = processed /\ given' = given /\ current' = current
      BY <1>2, RecordsSame DEF Sifted, others
    <2>3. TaskOwes(l) => TaskOwes(l)'
      BY <2>1, <2>2 DEF TaskOwes, Asking, Key
    <2>4. QED
      BY <2>1, <2>2, <2>3, AccountGoes
  <1>3. CASE RecordUnbound(l)
    <2>1. l \in given
      BY <1>3 DEF RecordUnbound, AccountInv, TaskOwes
    <2>2. /\ task'[l].at = "done" /\ task'[l].inst = task[l].inst
          /\ \A k \in Logs \ {l} : task'[k] = task[k]
      BY <1>0, <1>3, OverIsTask DEF RecordUnbound, Ends
    <2>3. Missed' = Missed /\ processed' = processed /\ given' = given /\ current' = current
      BY <1>3, RecordsSame DEF RecordUnbound, others
    <2>4. QED
      BY <2>1, <2>2, <2>3, AccountTask
  <1>4. QED
    BY <1>1, <1>2, <1>3

LEMMA AccountRecord ==
    ASSUME TypeInv, MissedInv, AccountInv, NEW l \in Logs, NEW e \in Events,
           RecordMissed(l, e) \/ RecordMissedFails(l, e)
    PROVE  AccountInv'
  <1>0. task \in [Logs -> TaskRow] /\ task[l] \in TaskRow
    BY DEF TypeInv
  <1>1. /\ task[l].at = "record" /\ task[l].doc # None
        /\ task'[l].inst = task[l].inst /\ task'[l].owed = task[l].owed /\ task'[l].doc = task[l].doc
        /\ task'[l].fresh = task[l].fresh \ {e}
        /\ task'[l].at = "record" \/ (task'[l].at = "done" /\ task'[l].fresh = {})
        /\ \A k \in Logs \ {l} : task'[k] = task[k]
    <2>1. CASE task[l].fresh = {e}
      BY <1>0, <2>1, OverIsTask DEF RecordMissed, RecordMissedFails, AfterRecord
    <2>2. CASE task[l].fresh # {e}
      BY <1>0, <2>2 DEF RecordMissed, RecordMissedFails, AfterRecord, TaskRow
    <2>3. QED
      BY <2>1, <2>2
  <1>2. processed' = processed /\ current' = current
    BY DEF RecordMissed, RecordMissedFails, others
  <1>3. TaskOwes(l) => TaskOwes(l)'
    BY <1>1, <1>2 DEF TaskOwes, Asking, Key
  <1>4. CASE RecordMissed(l, e)
    <2>1. given' = given /\ records' = records \cup {Recorded(l, e)}
      BY <1>4 DEF RecordMissed
    <2>2. Missed' = Missed \cup {Recorded(l, e)}
      BY <2>1, RecordedIsRow DEF Missed
    <2>3. Recorded(l, e).inst = task[l].inst /\ Recorded(l, e).key = Key(l, e)
      BY DEF Recorded
    <2>4. l \notin given' => TaskOwes(l)'
      BY <1>3, <2>1 DEF AccountInv
    <2>5. QED
      BY <1>1, <1>2, <2>1, <2>2, <2>3, <2>4, AccountTask
  <1>5. CASE RecordMissedFails(l, e)
    <2>1. given' = given \cup {l} /\ Missed' = Missed
      BY <1>5, RecordsSame DEF RecordMissedFails
    <2>2. QED
      BY <1>1, <1>2, <2>1, AccountTask
  <1>6. QED
    BY <1>4, <1>5

\* The task that adds a key accounts for it.
LEMMA AccountAdd ==
    ASSUME TypeInv, MissedInv, AccountInv, NEW l \in Logs, AddKey(l)
    PROVE  AccountInv'
  <1>0. PICK e \in Events : e = task[l].item
    BY DEF TypeInv, AddKey
  <1>1. task \in [Logs -> TaskRow] /\ task[l] \in TaskRow /\ task[l].at = "add"
    BY DEF TypeInv, AddKey
  <1>2. /\ \A k \in Logs \ {l} : task'[k] = task[k]
        /\ task'[l].at = "sift" /\ task'[l].inst = task[l].inst /\ task'[l].fresh = task[l].fresh \cup {e}
        /\ task'[l].todo = task[l].todo /\ task'[l].owed = task[l].owed /\ task'[l].doc = task[l].doc
    BY <1>0, <1>1 DEF AddKey, TaskRow
  <1>3. Missed' = Missed /\ given' = given /\ current' = current
    BY RecordsSame DEF AddKey, others
  <1>4. processed \in Seq(SUBSET Keys) /\ Len(processed) = current /\ \A k \in Logs : task[k].inst \in 1..current
    BY DEF TypeInv, TaskRow, Instances
  <1>5. /\ Key(l, e) \in processed'[task[l].inst]
        /\ \A i \in 1..current : processed[i] \subseteq processed'[i]
        /\ \A i \in 1..current : \A key \in processed'[i] :
              key \in processed[i] \/ (i = task[l].inst /\ key = Key(l, e))
    BY <1>0, <1>4 DEF AddKey
  <1>6. \A k \in Logs : task'[k].inst = task[k].inst /\ task[k].fresh \subseteq task'[k].fresh
    BY <1>2
  <1>7. ASSUME NEW i \in 1..current, NEW key \in processed'[i] PROVE Accounted(i, key)'
    <2>1. CASE key \in processed[i]
      BY <1>3, <1>6, <2>1, AccountStays DEF AccountInv
    <2>2. CASE i = task[l].inst /\ key = Key(l, e)
      BY <1>2, <2>2 DEF Accounted, Key
    <2>3. QED
      BY <1>5, <1>7, <2>1, <2>2
  <1>8. ASSUME NEW k \in Logs, k \notin given' PROVE TaskOwes(k)'
    <2>1. TaskOwes(k) /\ processed[task[k].inst] \subseteq processed'[task[k].inst]
      BY <1>3, <1>4, <1>5, <1>8 DEF AccountInv
    <2>2. CASE k = l
      BY <1>0, <1>1, <1>2, <1>5, <2>1, <2>2 DEF TaskOwes, Asking, Key
    <2>3. CASE k # l
      <3>1. task'[k] = task[k]
        BY <1>2, <2>3
      <3>2. QED
        BY <2>1, <3>1 DEF TaskOwes, Key
    <2>4. QED
      BY <2>2, <2>3
  <1>9. \A k \in given' : k \in Logs /\ task'[k].at # "new"
    BY <1>2, <1>3 DEF AccountInv
  <1>10. QED
    BY <1>3, <1>7, <1>8, <1>9 DEF AccountInv

\* Instances come and go: a new one has dealt with nothing, the tasks that a restart ends
\* give up what they owe.
LEMMA AccountInstance ==
    ASSUME TypeInv, MissedInv, AccountInv, NewInstance, ReloadAnalyzer \/ Restart
    PROVE  AccountInv'
  <1>1. Missed' = Missed /\ current' = current + 1 /\ current \in Nat /\ given \subseteq given'
    BY RecordsSame, MemoryStep DEF NewInstance, ReloadAnalyzer, Restart, TypeInv, Instances
  <1>2. \A i \in 1..current : processed'[i] = processed[i]
    BY MemoryStep
  <1>3. processed'[current + 1] = {}
    BY <1>1 DEF NewInstance, TypeInv
  <1>4. ASSUME NEW k \in Logs
        PROVE  /\ task'[k].inst = task[k].inst /\ (task'[k].at = "new" => task[k].at = "new")
               /\ task[k].fresh \subseteq task'[k].fresh \/ k \in given'
               /\ k \notin given' => task'[k] = task[k] \/ (task'[k] = Over(k) /\ task[k].at = "done")
    <2>1. CASE ReloadAnalyzer
      BY <2>1 DEF ReloadAnalyzer
    <2>2. CASE Restart
      <3>1. /\ task'[k] = IF task[k].at \in {"new", "raised"} THEN task[k] ELSE Over(k)
            /\ given' = given \cup {l \in Logs : task[l].at \notin {"new", "done", "raised"}}
        BY <2>2 DEF Restart
      <3>2. task[k].at = "done" => k \in given \/ task[k].fresh = {}
        BY DEF AccountInv, TaskOwes
      <3>3. QED
        BY <3>1, <3>2, OverIsTask
    <2>3. QED
      BY <2>1, <2>2
  <1>5. ASSUME NEW i \in 1..current', NEW key \in processed'[i] PROVE Accounted(i, key)'
    <2>1. i \in 1..current /\ key \in processed[i]
      BY <1>1, <1>2, <1>3, <1>5
    <2>2. Accounted(i, key)
      BY <2>1 DEF AccountInv
    <2>3. QED
      BY <1>1, <1>4, <2>2, AccountStays
  <1>6. ASSUME NEW k \in Logs, k \notin given' PROVE TaskOwes(k)'
    <2>1. TaskOwes(k) /\ processed'[task[k].inst] = processed[task[k].inst]
      BY <1>1, <1>2, <1>6 DEF AccountInv, TypeInv, TaskRow, Instances
    <2>2. CASE task'[k] = task[k]
      BY <2>1, <2>2 DEF TaskOwes, Key
    <2>3. CASE task'[k] = Over(k) /\ task[k].at = "done"
      BY <2>1, <2>3, OverIsTask DEF TaskOwes, Asking, Key
    <2>4. QED
      BY <1>4, <1>6, <2>2, <2>3
  <1>7. \A k \in given' : k \in Logs /\ task'[k].at # "new"
    BY <1>4 DEF AccountInv, ReloadAnalyzer, Restart
  <1>8. QED
    BY <1>5, <1>6, <1>7 DEF AccountInv

LEMMA AccountStep == TypeInv /\ MissedInv /\ AccountInv /\ [Next]_vars => AccountInv'
  <1> SUFFICES ASSUME TypeInv, MissedInv, AccountInv, [Next]_vars PROVE AccountInv'
    OBVIOUS
  <1>1. ASSUME UNCHANGED <<task, records, processed, current, given>> PROVE AccountInv'
    BY <1>1 DEF AccountInv, Accounted, TaskOwes, Missed, Key
  <1>2. CASE UNCHANGED vars \/ (\E l \in Logs : Appear(l)) \/ Midnight
    BY <1>1, <1>2 DEF vars, Appear, Midnight, others
  <1>3. CASE ReloadAnalyzer \/ Restart
    BY <1>3, AccountInstance DEF ReloadAnalyzer, Restart
  <1>4. ASSUME NEW l \in Logs, Work(l) \/ Failing(l) \/ \E m, d \in BOOLEAN : Receive(l, m, d) PROVE AccountInv'
    BY <1>4, AccountMain, AccountBackground, AccountSift, AccountAdd, AccountRecord
       DEF Work, Failing, Asked, Background
  <1>5. QED
    BY <1>2, <1>3, <1>4 DEF Next

\* Whatever fails elsewhere, a missed attack of a finished task is recorded or in hand:
\* `main.py`, `_bg_task`.
THEOREM AllRecorded == Spec => []MissedAttacksGetRecorded
  <1>1. Init => AccountInv
    BY DEF Init, AccountInv, TaskOwes, Asking, Idle
  <1>2. Init => MissedInv
    BY DEF Init, MissedInv, RecordsInv, Missed, Claimed, Idle
  <1>3. QED
    BY <1>1, <1>2, AccountImplies, TypeHolds, MissedStep, AccountStep, PTL DEF Spec
-----------------------------------------------------------------------------
(* What a task in progress knows                                           *)

Documented(doc) == \E r \in records : r.kind = "alert_triage" /\ r.log = doc
Informed(l) ==
    /\ task[l].day \in 1..today
    /\ task[l].at = "add" <=> task[l].item \in Events
    /\ task[l].doc # None => Documented(task[l].doc)
InformedInv ==
    /\ today \in 1..MaxDays
    /\ \A i \in 1..current : noted[i] \subseteq {Sig[l] : l \in Logs} \ {0}
    /\ \A l \in Logs : Informed(l)

LEMMA InformedImplies == TypeInv /\ InformedInv => TypeOK
  BY DEF TypeInv, TaskRow, InformedInv, Informed, Documented, TypeOK, Instances

\* The documents of the main analysis stay, whatever is added or updated.
LEMMA DocumentsStay ==
    ASSUME TypeInv, MissedInv, [Next]_vars, NEW doc, Documented(doc)
    PROVE  Documented(doc)'
  <1>0. PICK r \in records : r.kind = "alert_triage" /\ r.log = doc
    BY DEF Documented
  <1>1. ASSUME records \subseteq records' PROVE Documented(doc)'
    BY <1>0, <1>1 DEF Documented
  <1>2. ASSUME NEW l \in Logs, Update(l) PROVE Documented(doc)'
    <2>1. r \in RecordRow
      BY DEF MissedInv, RecordsInv
    <2>2. [r EXCEPT !.rule = task[l].rule].kind = r.kind /\ [r EXCEPT !.rule = task[l].rule].log = r.log
      BY <2>1 DEF RecordRow
    <2>3. r \in records' \/ [r EXCEPT !.rule = task[l].rule] \in records'
      BY <1>2 DEF Update
    <2>4. QED
      BY <1>0, <2>2, <2>3 DEF Documented
  <1>3. CASE UNCHANGED vars \/ Midnight \/ ReloadAnalyzer \/ Restart
    BY <1>1, <1>3 DEF vars, Midnight, ReloadAnalyzer, Restart, NewInstance
  <1>4. ASSUME NEW l \in Logs, ~Update(l),
               Work(l) \/ Failing(l) \/ Appear(l) \/ \E m, d \in BOOLEAN : Receive(l, m, d)
        PROVE  records \subseteq records'
    BY <1>4 DEF Work, Background, Failing, Appear, Receive, Query, QueryFails, Judge, JudgeRaises, WriteAnalysis,
                WriteAnalysisFails, SkipRule, StartRule, EndRule, UpdateFails, Search, LookUp, AddKey, Sifted,
                RecordMissed, RecordMissedFails, RecordUnbound
  <1>5. QED
    BY <1>1, <1>2, <1>3, <1>4 DEF Next

\* A step of one task that notes no signature.
LEMMA InformedTask ==
    ASSUME TypeInv, MissedInv, InformedInv, [Next]_vars, NEW l \in Logs,
           \A k \in Logs \ {l} : task'[k] = task[k],
           UNCHANGED <<noted, others>>, Informed(l)'
    PROVE  InformedInv'
  <1>1. ASSUME NEW k \in Logs \ {l} PROVE Informed(k)'
    BY <1>1, DocumentsStay DEF InformedInv, Informed, others
  <1>2. QED
    BY <1>1 DEF InformedInv, others

\* A step that leaves what a task knows alone.
LEMMA InformedGoes ==
    ASSUME TypeInv, MissedInv, InformedInv, [Next]_vars, NEW l \in Logs,
           \A k \in Logs \ {l} : task'[k] = task[k],
           UNCHANGED <<noted, others>>,
           task'[l].day = task[l].day, task'[l].doc = task[l].doc,
           task'[l].at # "add",
           task'[l].item = None \/ (task[l].at # "add" /\ task'[l].item = task[l].item)
    PROVE  InformedInv'
  <1>1. Informed(l)'
    BY DocumentsStay, PipelineAssumption DEF InformedInv, Informed, others, Logs
  <1>2. QED
    BY <1>1, InformedTask

LEMMA InformedMain ==
    ASSUME TypeInv, MissedInv, InformedInv, [Next]_vars, NEW l \in Logs,
           \/ \E m, d \in BOOLEAN : Receive(l, m, d)
           \/ Asked(l)
           \/ \E t \in BOOLEAN : Judge(l, t)
           \/ JudgeRaises(l) \/ WriteAnalysis(l)
           \/ \E i \in BOOLEAN : WriteAnalysisFails(l, i)
    PROVE  InformedInv'
  <1>0. task \in [Logs -> TaskRow] /\ task[l] \in TaskRow
    BY DEF TypeInv
  <1>1. ASSUME NEW m \in BOOLEAN, NEW d \in BOOLEAN, Receive(l, m, d) PROVE InformedInv'
    <2>1. /\ task[l].at = "new" /\ task'[l].at = "query" /\ task'[l].item = task[l].item
          /\ task'[l].day = task[l].day /\ task'[l].doc = task[l].doc /\ \A k \in Logs \ {l} : task'[k] = task[k]
      BY <1>0, <1>1 DEF Receive, TaskRow
    <2>2. QED
      BY <1>1, <2>1, InformedGoes DEF Receive
  <1>2. CASE Asked(l)
    <2>1. PICK found \in SUBSET Logs, own \in BOOLEAN :
            /\ task[l].at = "query"
            /\ task' = [task EXCEPT ![l] = [task[l] EXCEPT !.at = "judge", !.related = found,
                                                !.owed = found \cap Events, !.own = own]]
            /\ own => l \in found
            /\ UNCHANGED <<visible, records, noted, processed, raced, given, others>>
      BY <1>2, AskedIs
    <2>2. /\ task'[l].at = "judge" /\ task'[l].item = task[l].item
          /\ task'[l].day = task[l].day /\ task'[l].doc = task[l].doc /\ \A k \in Logs \ {l} : task'[k] = task[k]
      BY <1>0, <2>1 DEF TaskRow
    <2>3. QED
      BY <2>1, <2>2, InformedGoes
  <1>3. ASSUME NEW t \in BOOLEAN, Judge(l, t) PROVE InformedInv'
    <2>1. PICK s : task' = [task EXCEPT ![l] = [task[l] EXCEPT !.at = "write", !.threat = t, !.source = s]]
      BY <1>3 DEF Judge
    <2>2. /\ task[l].at = "judge" /\ task'[l].at = "write" /\ task'[l].item = task[l].item
          /\ task'[l].day = task[l].day /\ task'[l].doc = task[l].doc /\ \A k \in Logs \ {l} : task'[k] = task[k]
      BY <1>0, <1>3, <2>1 DEF Judge, TaskRow
    <2>3. QED
      BY <1>3, <2>2, InformedGoes DEF Judge
  <1>4. CASE JudgeRaises(l)
    <2>1. /\ task[l].at # "add" /\ task'[l].at # "add" /\ task'[l].item = task[l].item
          /\ task'[l].day = task[l].day /\ task'[l].doc = task[l].doc /\ \A k \in Logs \ {l} : task'[k] = task[k]
      BY <1>0, <1>4 DEF JudgeRaises, Goes, TaskRow
    <2>2. QED
      BY <1>4, <2>1, InformedGoes DEF JudgeRaises
  <1>5. CASE WriteAnalysis(l)
    <2>1. /\ task[l].at = "write" /\ task'[l].at = "rule" /\ task'[l].item = task[l].item
          /\ task'[l].day = today /\ task'[l].doc = l /\ \A k \in Logs \ {l} : task'[k] = task[k]
          /\ UNCHANGED <<noted, others>>
      BY <1>0, <1>5 DEF WriteAnalysis, TaskRow
    <2>2. Triaged(l) \in records' /\ Triaged(l).kind = "alert_triage" /\ Triaged(l).log = l
      BY <1>5 DEF WriteAnalysis, Triaged
    <2>3. Documented(l)'
      BY <2>2 DEF Documented
    <2>4. Informed(l)'
      BY <2>1, <2>3, PipelineAssumption DEF InformedInv, Informed, others
    <2>5. QED
      BY <2>1, <2>4, InformedTask
  <1>6. ASSUME NEW i \in BOOLEAN, WriteAnalysisFails(l, i) PROVE InformedInv'
    <2>1. /\ task[l].at = "write" /\ task'[l].at # "add" /\ task'[l].item \in {None, task[l].item}
          /\ task'[l].day = task[l].day /\ task'[l].doc = task[l].doc /\ \A k \in Logs \ {l} : task'[k] = task[k]
      <3>1. CASE Ends(l)
        BY <1>0, <1>6, <3>1, OverIsTask DEF Ends, WriteAnalysisFails
      <3>2. CASE task' = [task EXCEPT ![l].at = "rule", ![l].source = None, ![l].own = FALSE]
        BY <1>0, <1>6, <3>2 DEF TaskRow, WriteAnalysisFails
      <3>3. QED
        BY <1>6, <3>1, <3>2 DEF WriteAnalysisFails
    <2>2. QED
      BY <1>6, <2>1, InformedGoes DEF WriteAnalysisFails
  <1>7. QED
    BY <1>1, <1>2, <1>3, <1>4, <1>5, <1>6

LEMMA InformedBackground ==
    ASSUME TypeInv, MissedInv, InformedInv, [Next]_vars, NEW l \in Logs,
           Background(l) \/ UpdateFails(l) \/ \E e \in Events : RecordMissedFails(l, e)
    PROVE  InformedInv'
  <1>0. task \in [Logs -> TaskRow] /\ task[l] \in TaskRow
    BY DEF TypeInv
  <1>1. ASSUME NEW at \in Places \ {"add"}, Goes(l, at), task[l].at # "add", UNCHANGED <<noted, others>>
        PROVE  InformedInv'
    <2>1. /\ task'[l].at # "add" /\ task'[l].item = task[l].item
          /\ task'[l].day = task[l].day /\ task'[l].doc = task[l].doc /\ \A k \in Logs \ {l} : task'[k] = task[k]
      BY <1>0, <1>1 DEF Goes, TaskRow
    <2>2. QED
      BY <1>1, <2>1, InformedGoes
  <1>2. ASSUME task' = [task EXCEPT ![l] = Over(l)], UNCHANGED <<noted, others>> PROVE InformedInv'
    BY <1>0, <1>2, OverIsTask, InformedGoes
  <1>3. CASE SkipRule(l) \/ StartRule(l) \/ Update(l) \/ UpdateFails(l)
    BY <1>1, <1>3 DEF SkipRule, StartRule, Update, UpdateFails, AfterFailedUpdate, Places
  <1>4. ASSUME NEW o \in {"written", "refused"}, EndRule(l, o) PROVE InformedInv'
    <2>1. /\ task[l].at = "generate" /\ task'[l].at = "update" /\ task'[l].item = task[l].item
          /\ task'[l].day = task[l].day /\ task'[l].doc = task[l].doc /\ \A k \in Logs \ {l} : task'[k] = task[k]
      BY <1>0, <1>4 DEF EndRule, TaskRow
    <2>2. ASSUME NEW k \in Logs PROVE Informed(k)'
      BY <1>4, <2>1, <2>2, DocumentsStay DEF InformedInv, Informed, EndRule, others
    <2>3. noted \in Seq(SUBSET Nat) /\ Len(noted) = current /\ task[l].inst \in 1..current
      BY DEF TypeInv, TaskRow, Instances
    <2>4. noted' = [noted EXCEPT ![task[l].inst] = @ \cup ({Sig[l]} \ {0})] /\ UNCHANGED others
      BY <1>4 DEF EndRule, Notes
    <2>5. \A i \in 1..current : noted'[i] \subseteq noted[i] \cup ({Sig[l]} \ {0})
      BY <2>3, <2>4
    <2>6. QED
      BY <2>2, <2>4, <2>5 DEF InformedInv, others
  <1>5. ASSUME Search(l) \/ AddKey(l) PROVE InformedInv'
    <2>1. /\ task'[l].item = None \/ (task[l].at # "add" /\ task'[l].item = task[l].item)
          /\ task'[l].day = task[l].day /\ task'[l].doc = task[l].doc /\ \A k \in Logs \ {l} : task'[k] = task[k]
      <3>1. CASE Search(l)
        BY <1>0, <3>1 DEF Search, TaskRow
      <3>2. CASE AddKey(l)
        BY <1>0, <3>2 DEF AddKey, TaskRow
      <3>3. QED
        BY <1>5, <3>1, <3>2
    <2>2. task'[l].at = "sift"
      BY <1>0, <1>5 DEF Search, AddKey, TaskRow
    <2>3. QED
      BY <1>5, <2>1, <2>2, InformedGoes DEF Search, AddKey
  <1>6. ASSUME NEW e \in Events, LookUp(l, e) PROVE InformedInv'
    <2>1. /\ task[l].at = "sift"
          /\ \/ task'[l].at = "sift" /\ task'[l].item = task[l].item
             \/ task'[l].at = "add" /\ task'[l].item = e
          /\ task'[l].day = task[l].day /\ task'[l].doc = task[l].doc /\ \A k \in Logs \ {l} : task'[k] = task[k]
      BY <1>0, <1>6 DEF LookUp, TaskRow
    <2>2. Informed(l)'
      BY <1>6, <2>1, DocumentsStay DEF InformedInv, Informed, LookUp, others
    <2>3. QED
      BY <1>6, <2>1, <2>2, InformedTask DEF LookUp
  <1>7. CASE Sifted(l) \/ RecordUnbound(l)
    BY <1>1, <1>2, <1>7 DEF Sifted, RecordUnbound, Ends, Places
  <1>8. ASSUME NEW e \in Events, RecordMissed(l, e) \/ RecordMissedFails(l, e) PROVE InformedInv'
    <2>1. CASE task' = [task EXCEPT ![l].fresh = @ \ {e}]
      <3>1. /\ task[l].at = "record" /\ task'[l].at = "record" /\ task'[l].item = task[l].item
            /\ task'[l].day = task[l].day /\ task'[l].doc = task[l].doc /\ \A k \in Logs \ {l} : task'[k] = task[k]
        BY <1>0, <1>8, <2>1 DEF RecordMissed, RecordMissedFails, TaskRow
      <3>2. QED
        BY <1>8, <3>1, InformedGoes DEF RecordMissed, RecordMissedFails
    <2>2. QED
      BY <1>2, <1>8, <2>1 DEF RecordMissed, RecordMissedFails, AfterRecord
  <1>9. QED
    BY <1>3, <1>4, <1>5, <1>6, <1>7, <1>8 DEF Background

LEMMA InformedStep == TypeInv /\ MissedInv /\ InformedInv /\ [Next]_vars => InformedInv'
  <1> SUFFICES ASSUME TypeInv, MissedInv, InformedInv, [Next]_vars PROVE InformedInv'
    OBVIOUS
  <1>1. ASSUME UNCHANGED <<task, noted, current>>, today' \in 1..MaxDays, today <= today' PROVE InformedInv'
    <2>1. today \in Nat /\ today' \in Nat /\ today <= today'
      BY <1>1 DEF TypeInv
    <2>2. ASSUME NEW k \in Logs PROVE Informed(k)'
      BY <1>1, <2>1, <2>2, DocumentsStay DEF InformedInv, Informed
    <2>3. QED
      BY <1>1, <2>2 DEF InformedInv
  <1>2. CASE UNCHANGED vars \/ (\E l \in Logs : Appear(l)) \/ Midnight
    <2>1. today' \in 1..MaxDays /\ today <= today'
      BY <1>2, PipelineAssumption DEF InformedInv, vars, Appear, Midnight, others
    <2>2. QED
      BY <1>1, <1>2, <2>1 DEF vars, Appear, Midnight, others
  <1>3. CASE ReloadAnalyzer \/ Restart
    <2>1. NewInstance /\ today' = today
      BY <1>3 DEF ReloadAnalyzer, Restart, NewInstance
    <2>2. /\ current \in Nat /\ current' = current + 1 /\ \A i \in 1..current : noted'[i] = noted[i]
      BY <2>1, MemoryStep DEF TypeInv, Instances
    <2>3. noted'[current + 1] = {}
      BY <2>1, <2>2 DEF NewInstance, TypeInv
    <2>4. ASSUME NEW k \in Logs
          PROVE  \/ task'[k] = task[k]
                 \/ /\ task'[k].at = "done" /\ task'[k].item = None
                    /\ task'[k].day = task[k].day /\ task'[k].doc = task[k].doc
      BY <1>3, OverIsTask DEF ReloadAnalyzer, Restart
    <2>5. ASSUME NEW k \in Logs PROVE Informed(k)'
      BY <2>1, <2>4, DocumentsStay, PipelineAssumption DEF InformedInv, Informed, Logs
    <2>6. \A i \in 1..current' : noted'[i] \subseteq {Sig[l] : l \in Logs} \ {0}
      BY <2>2, <2>3 DEF InformedInv
    <2>7. QED
      BY <2>1, <2>5, <2>6 DEF InformedInv
  <1>4. ASSUME NEW l \in Logs, Work(l) \/ Failing(l) \/ \E m, d \in BOOLEAN : Receive(l, m, d) PROVE InformedInv'
    BY <1>4, InformedMain, InformedBackground DEF Work, Failing, Asked
  <1>5. QED
    BY <1>2, <1>3, <1>4 DEF Next

\* The variables have their types, a task about to add a find has it at hand, and the
\* record a task refers to is there.
THEOREM PipelineTyped == Spec => []TypeOK
  <1>1. Init => InformedInv
    BY PipelineAssumption DEF Init, InformedInv, Informed, Idle, Logs
  <1>2. Init => MissedInv
    BY DEF Init, MissedInv, RecordsInv, Missed, Claimed, Idle
  <1>3. QED
    BY <1>1, <1>2, InformedImplies, TypeHolds, MissedStep, InformedStep, PTL DEF Spec
=============================================================================
