--------------------------- MODULE AnalyzerProofs ---------------------------
(***************************************************************************)
(* Proofs about three components of the analyzer that share no state:      *)
(* AlertAnalysis (what the dedup cache drops and finds, and its order),    *)
(* RuleReview (what the replay adds up, what the rules it writes have      *)
(* passed) and MissedAttacks (what calls an attack failed).  The library's *)
(* induction theorems take the property as an operator; here they are      *)
(* restated for sets, from its theorem that a well-founded relation has    *)
(* minimal elements.                                                       *)
(***************************************************************************)
EXTENDS AlertAnalysis, RuleReview, MissedAttacks, FiniteSetTheorems, WellFoundedInduction, TLAPS

-----------------------------------------------------------------------------
(* Induction over numbers and over finite sets                             *)

Below == {p \in Nat \X Nat : p[1] < p[2]}

\* The order of the natural numbers, as a set of pairs.
LEMMA BelowIsWellFounded == IsWellFoundedOn(Below, Nat)
<1>1. Below = OpToRel(<, Nat)  BY DEF OpToRel, Below
<1> QED  BY <1>1, NatLessThanWellFounded

\* A set of natural numbers that is not empty has a least element.
LEMMA LeastOf ==
    ASSUME NEW T, T \subseteq Nat, T # {}
    PROVE  \E x \in T : \A y \in T : x <= y
<1>1. PICK x \in T : \A y \in T : <<y, x>> \notin Below  BY BelowIsWellFounded, WFMin, Zenon
<1>2. ASSUME NEW y \in T  PROVE x <= y
  <2>1. <<y, x>> \notin Below  BY <1>1
  <2> QED  BY <2>1 DEF Below
<1> QED  BY <1>2

\* A set with zero, and with the successor of each of its numbers, has them all.
LEMMA AllNumbers ==
    ASSUME NEW S, S \subseteq Nat, 0 \in S, \A n \in S : n + 1 \in S
    PROVE  S = Nat
<1>1. SUFFICES ASSUME Nat \ S # {}  PROVE FALSE  OBVIOUS
<1>2. PICK x \in Nat \ S : \A y \in Nat \ S : x <= y
  <2> DEFINE T == Nat \ S
  <2>1. T \subseteq Nat /\ T # {}  BY <1>1
  <2> HIDE DEF T
  <2>2. \E x \in T : \A y \in T : x <= y  BY <2>1, LeastOf
  <2> QED  BY <2>2 DEF T
<1>3. x # 0 /\ x - 1 \in Nat  BY <1>2
<1>4. x - 1 \in S  BY <1>2, <1>3
<1>5. (x - 1) + 1 \in S  BY <1>4
<1> QED  BY <1>2, <1>5

\* A family of subsets of a finite set has them all if it has each set that it has without
\* any one of the set's elements.
LEMMA AllSubsets ==
    ASSUME NEW top, IsFiniteSet(top), NEW F,
           \A s \in SUBSET top : (\A x \in s : s \ {x} \in F) => s \in F
    PROVE  \A s \in SUBSET top : s \in F
<1> DEFINE T == (SUBSET top) \ F
<1>1. SUFFICES ASSUME T # {}  PROVE FALSE  OBVIOUS
<1>2. IsWellFoundedOn(StrictSubsetOrdering(top), SUBSET top)
  BY FS_StrictSubsetOrderingWellFounded, FS_FiniteSubsetsOfFinite, Zenon
<1>3. T \subseteq SUBSET top  OBVIOUS
<1> HIDE DEF T
<1>4. PICK m \in T : \A y \in T : <<y, m>> \notin StrictSubsetOrdering(top)  BY <1>1, <1>2, <1>3, WFMin, Zenon
<1>5. ASSUME NEW x \in m  PROVE m \ {x} \in F
  <2>1. m \ {x} \in SUBSET top /\ m \in SUBSET top /\ m \ {x} \subseteq m /\ m \ {x} # m  BY <1>3, <1>5
  <2>2. <<m \ {x}, m>> \in StrictSubsetOrdering(top)  BY <2>1 DEF StrictSubsetOrdering
  <2>3. m \ {x} \notin T  BY <1>4, <2>2
  <2> QED  BY <2>1, <2>3 DEF T
<1>6. m \in F  BY <1>3, <1>5
<1>7. m \in T  BY <1>4
<1> QED  BY <1>6, <1>7 DEF T

-----------------------------------------------------------------------------
(* The dedup cache                                                         *)

\* A handler's variables have their types.
PushesTyped ==
    /\ cache \subseteq [key: Key, stamp: 1..now]
    /\ accesses \in 0..(CLEANUP_EVERY - 1)
    /\ horizon \in 0..now
    /\ calls \in [Handlers -> Alerts \cup {Lacking}]
    /\ done \in Seq(Alerts) /\ now <= MaxAnalyses
    /\ lost \subseteq 1..now

\* The keys of an alert, by their kinds.
LEMMA KeysOfAlert ==
    ASSUME NEW a \in Alerts, NEW k \in AlertKeys(a)
    PROVE  /\ \/ a.flow # Lacking /\ k = ExactKey(a)
              \/ a.flow # Lacking /\ k = FlowKey(a)
              \/ a.source # Lacking /\ k = IpKey(a)
           /\ CheckOrder[k[1]] \in 1..3 /\ RecordOrder[k[1]] \in 1..3
           /\ a.rule # Lacking => k \in Key
<1>1. a \in Alert  BY AnalysisAssumption
<1>2. \/ a.flow # Lacking /\ k = ExactKey(a)
      \/ a.flow # Lacking /\ k = FlowKey(a)
      \/ a.source # Lacking /\ k = IpKey(a)
  BY DEF AlertKeys
<1>3. CheckOrder[k[1]] \in 1..3 /\ RecordOrder[k[1]] \in 1..3
  BY <1>2 DEF ExactKey, FlowKey, IpKey, CheckOrder, RecordOrder
<1>4. a.rule # Lacking => k \in Key
  BY <1>1, <1>2 DEF Alert, Key, ExactKey, FlowKey, IpKey
<1> QED  BY <1>2, <1>3, <1>4

\* Two keys of an alert have different places in the orders.
LEMMA KeysHaveTheirPlaces ==
    ASSUME NEW a \in Alerts, NEW k \in AlertKeys(a), NEW l \in AlertKeys(a),
           CheckOrder[k[1]] = CheckOrder[l[1]] \/ RecordOrder[k[1]] = RecordOrder[l[1]]
    PROVE  k = l
BY KeysOfAlert DEF ExactKey, FlowKey, IpKey, CheckOrder, RecordOrder

\* A lookup takes out nothing that is younger than the window.
LEMMA LookupSparesTheYoung ==
    ASSUME NEW a \in Alerts, Check(a)
    PROVE  /\ cache' \subseteq cache
           /\ \A e \in cache : Fresh(e) => e \in cache'
<1>1. CASE a.rule = Lacking  BY <1>1 DEF Check
<1>2. CASE a.rule # Lacking
  <2>1. cache' = {e \in Cleaned : e.key \notin Expired(a)}  BY <1>2 DEF Check
  <2>2. ASSUME NEW e \in cache, Fresh(e), e.key \in Expired(a)  PROVE FALSE
    <3>1. e \in Cleaned  BY <2>2 DEF Cleaned
    <3>2. e.key \in AlertKeys(a)  BY <2>2 DEF Expired
    <3>3. e.key \in Hits(a)  BY <2>2, <3>1, <3>2 DEF Hits
    <3>4. CheckOrder[e.key[1]] < CheckOrder[e.key[1]]  BY <2>2, <3>3 DEF Expired
    <3>5. CheckOrder[e.key[1]] \in 1..3  BY <3>2, KeysOfAlert
    <3> QED  BY <3>4, <3>5
  <2>3. \A e \in cache : Fresh(e) => e \in Cleaned  BY DEF Cleaned
  <2> QED  BY <2>1, <2>2, <2>3 DEF Cleaned
<1> QED  BY <1>1, <1>2

\* The counter of lookups stays below the number that brings a cleanup.
LEMMA LookupCounts ==
    ASSUME NEW a \in Alerts, Check(a), accesses \in 0..(CLEANUP_EVERY - 1)
    PROVE  accesses' \in 0..(CLEANUP_EVERY - 1)
<1>1. CLEANUP_EVERY \in Nat \ {0}  BY AnalysisAssumption
<1> QED  BY <1>1 DEF Check

\* What a record leaves: entries that were there and keep their key, and new ones.
LEMMA RecordLeaves ==
    ASSUME NEW a \in Alerts, Record(a), NEW e \in cache'
    PROVE  \/ e \in cache
           \/ a.rule # Lacking /\ e.key \in AlertKeys(a) /\ e.stamp = now + 1 /\ e = [key |-> e.key, stamp |-> now + 1]
<1>1. e \in Put(cache, Recorded(a))  BY DEF Record
<1> QED  BY <1>1 DEF Put, Recorded

\* The handlers start with the types.
LEMMA TypedInitially == AnalysisInit => PushesTyped
BY AnalysisAssumption DEF AnalysisInit, PushesTyped, now

\* Recording a result keeps the types.
LEMMA FinishTyped ==
    ASSUME PushesTyped, NEW h \in Handlers, Finish(h)
    PROVE  PushesTyped'
<1> DEFINE a == calls[h]
<1>1. a \in Alerts /\ Record(a)  BY DEF Finish, PushesTyped
<1>2. done' = Append(done, a) /\ now' = now + 1 /\ now \in Nat
  BY <1>1 DEF Record, now, PushesTyped
<1>3. done' \in Seq(Alerts) /\ now' <= MaxAnalyses
  BY <1>1, <1>2, AnalysisAssumption DEF PushesTyped, Finish
<1>4. ASSUME NEW e \in cache'  PROVE e \in [key: Key, stamp: 1..now']
  <2>1. CASE e \in cache  BY <2>1, <1>2 DEF PushesTyped
  <2>2. CASE a.rule # Lacking /\ e.key \in AlertKeys(a) /\ e = [key |-> e.key, stamp |-> now + 1]
    <3>1. e.key \in Key  BY <1>1, <2>2, KeysOfAlert
    <3> QED  BY <2>2, <3>1, <1>2
  <2> QED  BY <1>1, <1>4, <2>1, <2>2, RecordLeaves
<1>5. lost' \subseteq 1..now'
  <2>1. lost' \subseteq lost \cup (1..(now + 1))  BY <1>1 DEF Record
  <2> QED  BY <2>1, <1>2 DEF PushesTyped
<1>6. calls' \in [Handlers -> Alerts \cup {Lacking}] /\ horizon' \in 0..now' /\ accesses' \in 0..(CLEANUP_EVERY - 1)
  BY <1>2 DEF Finish, PushesTyped
<1> QED  BY <1>3, <1>4, <1>5, <1>6 DEF PushesTyped

\* Every step keeps the types.
LEMMA TypedInAStep == PushesTyped /\ [AnalysisNext]_analysisVars => PushesTyped'
<1> SUFFICES ASSUME PushesTyped, [AnalysisNext]_analysisVars  PROVE PushesTyped'  OBVIOUS
<1>1. CASE UNCHANGED analysisVars  BY <1>1 DEF analysisVars, PushesTyped, now
<1>2. ASSUME NEW a \in Alerts, Deduplicate(a) \/ Bypass(a)  PROVE PushesTyped'
  <2>1. Check(a) /\ UNCHANGED <<horizon, calls, done, lost>>  BY <1>2 DEF Deduplicate, Bypass
  <2>2. cache' \subseteq cache /\ accesses' \in 0..(CLEANUP_EVERY - 1)
    BY <2>1, LookupSparesTheYoung, LookupCounts DEF PushesTyped
  <2> QED  BY <2>1, <2>2 DEF PushesTyped, now
<1>3. ASSUME NEW h \in Handlers, NEW a \in Alerts, Analyze(h, a)  PROVE PushesTyped'
  <2>1. Check(a) /\ calls' = [calls EXCEPT ![h] = a] /\ UNCHANGED <<horizon, done, lost>>  BY <1>3 DEF Analyze
  <2>2. cache' \subseteq cache /\ accesses' \in 0..(CLEANUP_EVERY - 1)
    BY <2>1, LookupSparesTheYoung, LookupCounts DEF PushesTyped
  <2> QED  BY <2>1, <2>2 DEF PushesTyped, now
<1>4. ASSUME NEW h \in Handlers, Finish(h)  PROVE PushesTyped'  BY <1>4, FinishTyped
<1>5. ASSUME NEW h \in Handlers, AnalysisFails(h)  PROVE PushesTyped'
  BY <1>5 DEF AnalysisFails, PushesTyped, now
<1>6. CASE Age  BY <1>6 DEF Age, PushesTyped, now
<1>7. CASE RestartAnalyzer
  <2>1. CLEANUP_EVERY \in Nat \ {0}  BY AnalysisAssumption
  <2>2. cache' = {} /\ accesses' = 0 /\ calls' = [x \in Handlers |-> Lacking] /\ lost' = 1..now /\ UNCHANGED <<horizon, done>>
    BY <1>7 DEF RestartAnalyzer
  <2>3. now' = now  BY <2>2 DEF now
  <2> QED  BY <2>1, <2>2, <2>3 DEF PushesTyped
<1> QED  BY <1>1, <1>2, <1>3, <1>4, <1>5, <1>6, <1>7 DEF AnalysisNext

-----------------------------------------------------------------------------
(* What the entries stand for                                              *)

\* Every entry stands for an alert with a rule that was recorded with its stamp.
EntriesTraced ==
    \A e \in cache : done[e.stamp].rule # Lacking /\ e.key \in AlertKeys(done[e.stamp])

\* Of an alert recorded within the window each key has an entry at least as young.
KeysKept ==
    \A s \in (horizon + 1)..now : s \notin lost /\ done[s].rule # Lacking =>
        \A k \in AlertKeys(done[s]) : \E e \in cache : e.key = k /\ e.stamp >= s

\* A record's entries stand for the alert recorded.
LEMMA FinishTraced ==
    ASSUME PushesTyped, EntriesTraced, NEW h \in Handlers, Finish(h)
    PROVE  EntriesTraced'
<1> DEFINE a == calls[h]
<1>1. a \in Alerts /\ Record(a)  BY DEF Finish, PushesTyped
<1>2. done' = Append(done, a) /\ now \in Nat /\ now = Len(done)  BY <1>1 DEF Record, now, PushesTyped
<1>3. done'[now + 1] = a /\ \A s \in 1..now : done'[s] = done[s]  BY <1>1, <1>2 DEF PushesTyped
<1>4. ASSUME NEW e \in cache'  PROVE done'[e.stamp].rule # Lacking /\ e.key \in AlertKeys(done'[e.stamp])
  <2>1. CASE e \in cache
    <3>1. e.stamp \in 1..now  BY <2>1 DEF PushesTyped
    <3> QED  BY <2>1, <3>1, <1>3 DEF EntriesTraced
  <2>2. CASE a.rule # Lacking /\ e.key \in AlertKeys(a) /\ e.stamp = now + 1
    BY <2>2, <1>3
  <2> QED  BY <1>1, <1>4, <2>1, <2>2, RecordLeaves
<1> QED  BY <1>4 DEF EntriesTraced

\* A record overwrites entries by younger ones, and accounts for those it evicts.
LEMMA FinishKeeps ==
    ASSUME PushesTyped, KeysKept, NEW h \in Handlers, Finish(h)
    PROVE  KeysKept'
<1> DEFINE a == calls[h]
           keys == Recorded(a)
           c == Put(cache, keys)
           gone == Evicted(c, Queued(ahead, KeysOf(cache), keys \ KeysOf(cache)))
<1>1. a \in Alerts /\ Record(a)  BY DEF Finish, PushesTyped
<1>2. /\ done' = Append(done, a) /\ now \in Nat /\ now = Len(done) /\ now' = now + 1
      /\ horizon' = horizon
  BY <1>1 DEF Record, now, PushesTyped, Finish
<1>3. done'[now + 1] = a /\ \A s \in 1..now : done'[s] = done[s]  BY <1>1, <1>2 DEF PushesTyped
<1>4. /\ cache' = {e \in c : e.key \notin gone}
      /\ lost' = lost \cup {s \in 1..(now + 1) : gone \cap AlertKeys(done'[s]) # {}}
  BY <1>1 DEF Record
<1>5. SUFFICES ASSUME NEW s \in (horizon + 1)..(now + 1), s \notin lost', done'[s].rule # Lacking,
                      NEW k \in AlertKeys(done'[s])
               PROVE  \E e \in cache' : e.key = k /\ e.stamp >= s
  BY <1>2 DEF KeysKept
<1>6. s \in 1..(now + 1)  BY <1>2 DEF PushesTyped
<1>7. k \notin gone /\ s \notin lost  BY <1>4, <1>5, <1>6
<1> HIDE DEF gone
<1>8. CASE k \in keys
  <2> DEFINE e == [key |-> k, stamp |-> now + 1]
  <2>1. e \in c  BY <1>8 DEF Put
  <2>2. e \in cache' /\ e.key = k /\ e.stamp >= s  BY <2>1, <1>4, <1>6, <1>7, <1>2
  <2> QED  BY <2>2
<1>9. CASE k \notin keys
  <2>1. s # now + 1  BY <1>3, <1>5, <1>9 DEF Recorded
  <2>2. s \in (horizon + 1)..now /\ s \in 1..now  BY <2>1, <1>2, <1>6 DEF PushesTyped
  <2>3. done'[s] = done[s]  BY <2>2, <1>3
  <2>4. PICK e \in cache : e.key = k /\ e.stamp >= s  BY <2>2, <2>3, <1>5, <1>7 DEF KeysKept
  <2>5. e \in c  BY <2>4, <1>9 DEF Put
  <2> QED  BY <2>4, <2>5, <1>4, <1>7
<1> QED  BY <1>8, <1>9

\* A step of the handler that only looks up keeps both.
LEMMA LookupKeepsEntries ==
    ASSUME PushesTyped, EntriesTraced, KeysKept, NEW a \in Alerts, Check(a), UNCHANGED <<horizon, done, lost>>
    PROVE  EntriesTraced' /\ KeysKept'
<1>1. cache' \subseteq cache /\ \A e \in cache : Fresh(e) => e \in cache'  BY LookupSparesTheYoung
<1>2. EntriesTraced'  BY <1>1 DEF EntriesTraced
<1>3. ASSUME NEW s \in (horizon + 1)..now, s \notin lost, done[s].rule # Lacking, NEW k \in AlertKeys(done[s])
      PROVE  \E e \in cache' : e.key = k /\ e.stamp >= s
  <2>1. PICK e \in cache : e.key = k /\ e.stamp >= s  BY <1>3 DEF KeysKept
  <2>2. e.stamp \in Nat /\ horizon \in Nat /\ s \in Int  BY DEF PushesTyped
  <2>3. Fresh(e)  BY <2>1, <2>2 DEF Fresh
  <2> QED  BY <1>1, <2>1, <2>3
<1>4. now' = now  BY DEF now
<1>5. KeysKept'  BY <1>3, <1>4 DEF KeysKept
<1> QED  BY <1>2, <1>5

\* Every step keeps what the entries stand for.
LEMMA EntriesInAStep ==
    PushesTyped /\ EntriesTraced /\ KeysKept /\ [AnalysisNext]_analysisVars => EntriesTraced' /\ KeysKept'
<1> SUFFICES ASSUME PushesTyped, EntriesTraced, KeysKept, [AnalysisNext]_analysisVars
             PROVE  EntriesTraced' /\ KeysKept'
  OBVIOUS
<1>1. CASE UNCHANGED analysisVars  BY <1>1 DEF analysisVars, EntriesTraced, KeysKept, now
<1>2. ASSUME NEW a \in Alerts, Deduplicate(a) \/ Bypass(a)  PROVE EntriesTraced' /\ KeysKept'
  BY <1>2, LookupKeepsEntries DEF Deduplicate, Bypass
<1>3. ASSUME NEW h \in Handlers, NEW a \in Alerts, Analyze(h, a)  PROVE EntriesTraced' /\ KeysKept'
  BY <1>3, LookupKeepsEntries DEF Analyze
<1>4. ASSUME NEW h \in Handlers, Finish(h)  PROVE EntriesTraced' /\ KeysKept'
  BY <1>4, FinishTraced, FinishKeeps
<1>5. ASSUME NEW h \in Handlers, AnalysisFails(h)  PROVE EntriesTraced' /\ KeysKept'
  BY <1>5 DEF AnalysisFails, EntriesTraced, KeysKept, now
<1>6. CASE Age
  <2>1. horizon' = horizon + 1 /\ UNCHANGED <<cache, done, lost>> /\ now' = now  BY <1>6 DEF Age, now
  <2>2. (horizon' + 1)..now' \subseteq (horizon + 1)..now  BY <2>1 DEF PushesTyped
  <2> QED  BY <2>1, <2>2 DEF EntriesTraced, KeysKept
<1>7. CASE RestartAnalyzer
  <2>1. cache' = {} /\ lost' = 1..now /\ UNCHANGED <<horizon, done>> /\ now' = now  BY <1>7 DEF RestartAnalyzer, now
  <2>2. (horizon' + 1)..now' \subseteq lost'  BY <2>1 DEF PushesTyped
  <2> QED  BY <2>1, <2>2 DEF EntriesTraced, KeysKept
<1> QED  BY <1>1, <1>2, <1>3, <1>4, <1>5, <1>6, <1>7 DEF AnalysisNext

\* In every reachable state the entries stand for what was recorded, and nothing is missing.
LEMMA EntriesInvariant == AnalysisSpec => [](PushesTyped /\ EntriesTraced /\ KeysKept)
<1>1. AnalysisInit => PushesTyped /\ EntriesTraced /\ KeysKept
  BY TypedInitially DEF AnalysisInit, EntriesTraced, KeysKept, now
<1> QED  BY <1>1, TypedInAStep, EntriesInAStep, PTL DEF AnalysisSpec

\* Alerts with a rule that have a key in common are alike, and the other way round.
LEMMA AlikeByKeys ==
    ASSUME NEW a \in Alerts, NEW b \in Alerts, a.rule # Lacking, b.rule # Lacking
    PROVE  Alike(a, b) <=> AlertKeys(a) \cap AlertKeys(b) # {}
<1>1. ASSUME NEW k \in AlertKeys(a), k \in AlertKeys(b)  PROVE Alike(a, b)
  BY <1>1, KeysOfAlert DEF Alike, SameFlow, SameScan, ExactKey, FlowKey, IpKey
<1>2. ASSUME SameFlow(a, b)  PROVE FlowKey(a) \in AlertKeys(a) /\ FlowKey(a) \in AlertKeys(b)
  BY <1>2 DEF SameFlow, AlertKeys, FlowKey
<1>3. ASSUME SameScan(a, b)  PROVE IpKey(a) \in AlertKeys(a) /\ IpKey(a) \in AlertKeys(b)
  BY <1>3 DEF SameScan, AlertKeys, IpKey
<1> QED  BY <1>1, <1>2, <1>3 DEF Alike

\* A live entry that a lookup hits stands for an alert like it.
LEMMA DroppedWithReasonHolds == PushesTyped /\ EntriesTraced => DroppedWithReason
<1> SUFFICES ASSUME PushesTyped, EntriesTraced, NEW a \in Alerts, Known(a)
             PROVE  \E s \in (horizon + 1)..now : Alike(done[s], a)
  BY DEF DroppedWithReason
<1>1. PICK k \in AlertKeys(a) : \E e \in Cleaned : e.key = k /\ Fresh(e)  BY DEF Known, Hits
<1>2. PICK e \in cache : e.key = k /\ Fresh(e)  BY <1>1 DEF Cleaned
<1>3. e.stamp \in 1..now /\ e.stamp \in (horizon + 1)..now  BY <1>2 DEF PushesTyped, Fresh
<1>4. done[e.stamp] \in Alerts /\ done[e.stamp].rule # Lacking /\ k \in AlertKeys(done[e.stamp])
  BY <1>2, <1>3 DEF PushesTyped, EntriesTraced, now
<1>5. a.rule # Lacking  BY DEF Known
<1>6. Alike(done[e.stamp], a)  BY <1>1, <1>4, <1>5, AlikeByKeys
<1> QED  BY <1>3, <1>6

\* A recorded alert like the one looked up shares a key with it, and the key has a live entry.
LEMMA LookupIsCompleteHolds == PushesTyped /\ KeysKept => LookupIsComplete
<1> SUFFICES ASSUME PushesTyped, KeysKept, NEW a \in Alerts, NEW s \in (horizon + 1)..now,
                    Alike(done[s], a), s \notin lost
             PROVE  Known(a)
  BY DEF LookupIsComplete
<1>1. s \in 1..now /\ done[s] \in Alerts  BY DEF PushesTyped, now
<1>2. done[s].rule # Lacking /\ a.rule # Lacking  BY DEF Alike
<1>3. PICK k \in AlertKeys(done[s]) : k \in AlertKeys(a)  BY <1>1, <1>2, AlikeByKeys
<1>4. PICK e \in cache : e.key = k /\ e.stamp >= s  BY <1>2 DEF KeysKept
<1>5. Fresh(e)  BY <1>1, <1>4 DEF PushesTyped, Fresh
<1>6. e \in Cleaned  BY <1>4, <1>5 DEF Cleaned
<1>7. k \in Hits(a)  BY <1>3, <1>4, <1>5, <1>6 DEF Hits
<1> QED  BY <1>2, <1>7 DEF Known

\* dedup.py, check: whatever the alerts, handlers, window, limit and cleanups, an alert is dropped
\* only if one of its flow, or of its rule and source, was recorded within the window.
THEOREM OnlyRepeatsAreDropped == AnalysisSpec => []DroppedWithReason
BY EntriesInvariant, DroppedWithReasonHolds, PTL

\* dedup.py, check and record: an analysis recorded within the window is found by the lookup of
\* every alert like it, unless its entries fell to the cache's limit or to a restart.
THEOREM RecordedAnalysesAreFound == AnalysisSpec => []LookupIsComplete
BY EntriesInvariant, LookupIsCompleteHolds, PTL

-----------------------------------------------------------------------------
(* Repeats are of analyses under way together                              *)

\* The analyses of a flow and a rule that are recorded within the window, and those under way.
RecordedOf(f, r) == {u \in (horizon + 1)..now : u \notin lost /\ done[u].rule = r /\ done[u].flow = f}
UnderWay(f, r)   == {h \in Handlers : calls[h] # Lacking /\ calls[h].rule = r /\ calls[h].flow = f}

\* Once one is recorded, no more can follow than are under way.
RepeatsUnderWay ==
    \A f \in Flows, r \in Rules :
        RecordedOf(f, r) # {} => Cardinality(RecordedOf(f, r)) + Cardinality(UnderWay(f, r)) <= Cardinality(Handlers)

\* The counted sets are finite, and no more analyses are under way than there are handlers.
LEMMA RepeatsAreFinite ==
    ASSUME PushesTyped, NEW f, NEW r
    PROVE  /\ IsFiniteSet(RecordedOf(f, r)) /\ Cardinality(RecordedOf(f, r)) \in Nat
           /\ IsFiniteSet(UnderWay(f, r)) /\ Cardinality(UnderWay(f, r)) \in Nat
           /\ Cardinality(UnderWay(f, r)) <= Cardinality(Handlers)
           /\ IsFiniteSet(Handlers) /\ Cardinality(Handlers) \in Nat
<1>1. IsFiniteSet((horizon + 1)..now)
  <2>1. horizon + 1 \in Int /\ now \in Int  BY DEF PushesTyped, now
  <2> QED  BY <2>1, FS_Interval, Zenon
<1>2. RecordedOf(f, r) \in SUBSET ((horizon + 1)..now)  BY DEF RecordedOf
<1>3. IsFiniteSet(RecordedOf(f, r))  BY <1>1, <1>2, FS_Subset, Zenon
<1>4. UnderWay(f, r) \in SUBSET Handlers  BY DEF UnderWay
<1>5. IsFiniteSet(Handlers)  BY AnalysisAssumption
<1>6. IsFiniteSet(UnderWay(f, r)) /\ Cardinality(UnderWay(f, r)) <= Cardinality(Handlers)
  BY <1>4, <1>5, FS_Subset, Zenon
<1> QED  BY <1>3, <1>5, <1>6, FS_CardinalityType, Zenon

\* Fewer of both keep the bound.
LEMMA FewerRepeats ==
    ASSUME NEW R, NEW C, NEW Rn, NEW Cn, IsFiniteSet(R), IsFiniteSet(C), NEW n \in Nat,
           Rn \subseteq R, Cn \subseteq C, R # {} => Cardinality(R) + Cardinality(C) <= n
    PROVE  Rn # {} => Cardinality(Rn) + Cardinality(Cn) <= n
<1>1. IsFiniteSet(Rn) /\ Cardinality(Rn) <= Cardinality(R)  BY FS_Subset, Zenon
<1>2. IsFiniteSet(Cn) /\ Cardinality(Cn) <= Cardinality(C)  BY FS_Subset, Zenon
<1>3. Cardinality(R) \in Nat /\ Cardinality(C) \in Nat /\ Cardinality(Rn) \in Nat /\ Cardinality(Cn) \in Nat
  BY <1>1, <1>2, FS_CardinalityType
<1> QED  BY <1>1, <1>2, <1>3

\* A step that adds to neither keeps the bound of all.
LEMMA NoMoreRepeats ==
    ASSUME PushesTyped, RepeatsUnderWay,
           \A f \in Flows, r \in Rules :
               RecordedOf(f, r)' \subseteq RecordedOf(f, r) /\ UnderWay(f, r)' \subseteq UnderWay(f, r)
    PROVE  RepeatsUnderWay'
<1> SUFFICES ASSUME NEW f \in Flows, NEW r \in Rules
             PROVE  RecordedOf(f, r)' # {} =>
                      Cardinality(RecordedOf(f, r)') + Cardinality(UnderWay(f, r)') <= Cardinality(Handlers)
  BY DEF RepeatsUnderWay
<1>1. RecordedOf(f, r) # {} =>
        Cardinality(RecordedOf(f, r)) + Cardinality(UnderWay(f, r)) <= Cardinality(Handlers)
  BY DEF RepeatsUnderWay
<1> QED  BY <1>1, RepeatsAreFinite, FewerRepeats

\* An analysis starts only if none of its flow and rule is recorded.
LEMMA AnalyzeRepeats ==
    ASSUME PushesTyped, KeysKept, RepeatsUnderWay, NEW h \in Handlers, NEW a \in Alerts, Analyze(h, a)
    PROVE  RepeatsUnderWay'
<1>1. /\ calls[h] = Lacking /\ ~Known(a) /\ calls' = [calls EXCEPT ![h] = a]
      /\ UNCHANGED <<horizon, done, lost>> /\ now' = now
  BY DEF Analyze, now
<1>2. \A f \in Flows, r \in Rules : RecordedOf(f, r)' = RecordedOf(f, r)  BY <1>1 DEF RecordedOf
<1>3. SUFFICES ASSUME NEW f \in Flows, NEW r \in Rules, RecordedOf(f, r)' # {}
               PROVE  Cardinality(RecordedOf(f, r)') + Cardinality(UnderWay(f, r)') <= Cardinality(Handlers)
  BY DEF RepeatsUnderWay
<1>4. ~(a.flow = f /\ a.rule = r)
  <2>1. SUFFICES ASSUME a.flow = f, a.rule = r  PROVE FALSE  OBVIOUS
  <2>2. PICK u \in (horizon + 1)..now : u \notin lost /\ done[u].rule = r /\ done[u].flow = f
    BY <1>2, <1>3 DEF RecordedOf
  <2>3. f # Lacking /\ r # Lacking  BY AnalysisAssumption
  <2>4. Alike(done[u], a)  BY <2>1, <2>2, <2>3 DEF Alike, SameFlow
  <2>5. Known(a)  BY <2>2, <2>4, LookupIsCompleteHolds DEF LookupIsComplete
  <2> QED  BY <1>1, <2>5
<1>5. UnderWay(f, r)' = UnderWay(f, r)
  <2>1. \A x \in Handlers : x # h => calls'[x] = calls[x]  BY <1>1 DEF PushesTyped
  <2>2. calls'[h] = a  BY <1>1 DEF PushesTyped
  <2>3. ASSUME NEW x \in Handlers
        PROVE  (calls'[x] # Lacking /\ calls'[x].rule = r /\ calls'[x].flow = f)
                 <=> (calls[x] # Lacking /\ calls[x].rule = r /\ calls[x].flow = f)
    BY <1>1, <1>4, <2>1, <2>2
  <2> QED  BY <2>3 DEF UnderWay
<1>6. RecordedOf(f, r)' = RecordedOf(f, r)  BY <1>2
<1> QED  BY <1>3, <1>5, <1>6 DEF RepeatsUnderWay

\* A result that is recorded is no longer under way.
LEMMA FinishRepeats ==
    ASSUME PushesTyped, RepeatsUnderWay, NEW h \in Handlers, Finish(h)
    PROVE  RepeatsUnderWay'
<1> DEFINE a == calls[h]
<1>1. a \in Alerts /\ a # Lacking /\ Record(a) /\ calls' = [calls EXCEPT ![h] = Lacking]  BY DEF Finish, PushesTyped
<1>2. /\ done' = Append(done, a) /\ now \in Nat /\ now = Len(done) /\ now' = now + 1
      /\ horizon' = horizon /\ lost \subseteq lost'
  BY <1>1 DEF Record, now, PushesTyped, Finish
<1>3. done'[now + 1] = a /\ \A s \in 1..now : done'[s] = done[s]  BY <1>1, <1>2 DEF PushesTyped
<1>4. SUFFICES ASSUME NEW f \in Flows, NEW r \in Rules, RecordedOf(f, r)' # {}
               PROVE  Cardinality(RecordedOf(f, r)') + Cardinality(UnderWay(f, r)') <= Cardinality(Handlers)
  BY DEF RepeatsUnderWay
<1>5. RecordedOf(f, r)' \subseteq
        RecordedOf(f, r) \cup (IF a.flow = f /\ a.rule = r THEN {now + 1} ELSE {})
  <2>1. SUFFICES ASSUME NEW u \in (horizon + 1)..(now + 1), u \notin lost', done'[u].rule = r, done'[u].flow = f
                 PROVE  u \in RecordedOf(f, r) \cup (IF a.flow = f /\ a.rule = r THEN {now + 1} ELSE {})
    BY <1>2 DEF RecordedOf
  <2>2. CASE u = now + 1  BY <2>1, <2>2, <1>3
  <2>3. CASE u # now + 1
    <3>1. u \in (horizon + 1)..now /\ u \in 1..now  BY <1>2, <2>1, <2>3 DEF PushesTyped
    <3> QED  BY <3>1, <1>2, <1>3, <2>1 DEF RecordedOf
  <2> QED  BY <2>2, <2>3
<1>6. UnderWay(f, r)' = UnderWay(f, r) \ (IF a.flow = f /\ a.rule = r THEN {h} ELSE {})
  <2>1. \A x \in Handlers : x # h => calls'[x] = calls[x]  BY <1>1 DEF PushesTyped
  <2>2. calls'[h] = Lacking  BY <1>1 DEF PushesTyped
  <2> QED  BY <1>1, <2>1, <2>2 DEF UnderWay
<1>7. RecordedOf(f, r) # {} =>
        Cardinality(RecordedOf(f, r)) + Cardinality(UnderWay(f, r)) <= Cardinality(Handlers)
  BY DEF RepeatsUnderWay
<1> DEFINE R == RecordedOf(f, r)
           C == UnderWay(f, r)
           Rn == RecordedOf(f, r)'
           Cn == UnderWay(f, r)'
<1>8. IsFiniteSet(R) /\ IsFiniteSet(C) /\ Cardinality(C) <= Cardinality(Handlers) /\ Cardinality(Handlers) \in Nat
  BY RepeatsAreFinite
<1>9. CASE ~(a.flow = f /\ a.rule = r)
  <2>1. Rn \subseteq R /\ Cn \subseteq C  BY <1>5, <1>6, <1>9
  <2> HIDE DEF R, C, Rn, Cn
  <2>2. Rn # {} => Cardinality(Rn) + Cardinality(Cn) <= Cardinality(Handlers)
    <3>1. R # {} => Cardinality(R) + Cardinality(C) <= Cardinality(Handlers)  BY <1>7 DEF R, C
    <3> QED  BY <2>1, <3>1, <1>8, FewerRepeats
  <2> QED  BY <2>2, <1>4 DEF Rn, Cn
<1>10. CASE a.flow = f /\ a.rule = r
  <2>1. Rn \subseteq R \cup {now + 1} /\ Cn = C \ {h} /\ h \in C  BY <1>1, <1>5, <1>6, <1>10 DEF UnderWay
  <2> HIDE DEF R, C, Rn, Cn
  <2>2. Cardinality(Cn) = Cardinality(C) - 1 /\ IsFiniteSet(Cn)  BY <2>1, <1>8, FS_RemoveElement
  <2>3. IsFiniteSet(R \cup {now + 1}) /\ Cardinality(R \cup {now + 1}) <= Cardinality(R) + 1
    <3> DEFINE u == now + 1
    <3> HIDE DEF u
    <3>1. Cardinality(R) \in Nat  BY <1>8, FS_CardinalityType
    <3>2. /\ IsFiniteSet(R \cup {u})
          /\ Cardinality(R \cup {u}) = IF u \in R THEN Cardinality(R) ELSE Cardinality(R) + 1
      BY <1>8, FS_AddElement, Zenon
    <3>3. IsFiniteSet(R \cup {u}) /\ Cardinality(R \cup {u}) <= Cardinality(R) + 1  BY <3>1, <3>2
    <3> QED  BY <3>3 DEF u
  <2>4. Cardinality(Rn) <= Cardinality(R \cup {now + 1}) /\ IsFiniteSet(Rn)  BY <2>1, <2>3, FS_Subset, Zenon
  <2>5. /\ Cardinality(R) \in Nat /\ Cardinality(C) \in Nat /\ Cardinality(Rn) \in Nat /\ Cardinality(Cn) \in Nat
        /\ Cardinality(R \cup {now + 1}) \in Nat
    BY <1>8, <2>2, <2>3, <2>4, FS_CardinalityType
  <2>6. Cardinality(Rn) <= Cardinality(R) + 1  BY <2>3, <2>4, <2>5
  <2>7. CASE R = {}
    <3>1. Cardinality(R) = 0  BY <2>7, FS_EmptySet
    <3> QED  BY <3>1, <2>2, <2>5, <2>6, <1>8 DEF Rn, Cn
  <2>8. CASE R # {}
    <3>1. Cardinality(R) + Cardinality(C) <= Cardinality(Handlers)  BY <2>8, <1>7 DEF R, C
    <3> QED  BY <3>1, <2>2, <2>5, <2>6, <1>8 DEF Rn, Cn
  <2> QED  BY <2>7, <2>8
<1> QED  BY <1>9, <1>10

\* Every step keeps the bound.
LEMMA RepeatsInAStep ==
    PushesTyped /\ KeysKept /\ RepeatsUnderWay /\ [AnalysisNext]_analysisVars => RepeatsUnderWay'
<1> SUFFICES ASSUME PushesTyped, KeysKept, RepeatsUnderWay, [AnalysisNext]_analysisVars
             PROVE  RepeatsUnderWay'
  OBVIOUS
<1>1. CASE UNCHANGED analysisVars
  <2>1. UNCHANGED <<horizon, calls, done, lost>> /\ now' = now  BY <1>1 DEF analysisVars, now
  <2> QED  BY <2>1, NoMoreRepeats DEF RecordedOf, UnderWay
<1>2. ASSUME NEW a \in Alerts, Deduplicate(a) \/ Bypass(a)  PROVE RepeatsUnderWay'
  <2>1. UNCHANGED <<horizon, calls, done, lost>> /\ now' = now  BY <1>2 DEF Deduplicate, Bypass, now
  <2> QED  BY <2>1, NoMoreRepeats DEF RecordedOf, UnderWay
<1>3. ASSUME NEW h \in Handlers, NEW a \in Alerts, Analyze(h, a)  PROVE RepeatsUnderWay'
  BY <1>3, AnalyzeRepeats
<1>4. ASSUME NEW h \in Handlers, Finish(h)  PROVE RepeatsUnderWay'  BY <1>4, FinishRepeats
<1>5. ASSUME NEW h \in Handlers, AnalysisFails(h)  PROVE RepeatsUnderWay'
  <2>1. UNCHANGED <<horizon, done, lost>> /\ now' = now /\ calls' = [calls EXCEPT ![h] = Lacking]
    BY <1>5 DEF AnalysisFails, now
  <2>2. \A x \in Handlers : calls'[x] = calls[x] \/ calls'[x] = Lacking  BY <2>1 DEF PushesTyped
  <2> QED  BY <2>1, <2>2, NoMoreRepeats DEF RecordedOf, UnderWay
<1>6. CASE Age
  <2>1. horizon' = horizon + 1 /\ UNCHANGED <<calls, done, lost>> /\ now' = now  BY <1>6 DEF Age, now
  <2>2. (horizon' + 1)..now' \subseteq (horizon + 1)..now  BY <2>1 DEF PushesTyped
  <2> QED  BY <2>1, <2>2, NoMoreRepeats DEF RecordedOf, UnderWay
<1>7. CASE RestartAnalyzer
  <2>1. lost' = 1..now /\ UNCHANGED <<horizon, done>> /\ now' = now  BY <1>7 DEF RestartAnalyzer, now
  <2>2. (horizon' + 1)..now' \subseteq lost'  BY <2>1 DEF PushesTyped
  <2>3. \A f \in Flows, r \in Rules : RecordedOf(f, r)' = {}  BY <2>2 DEF RecordedOf
  <2> QED  BY <2>3 DEF RepeatsUnderWay
<1> QED  BY <1>1, <1>2, <1>3, <1>4, <1>5, <1>6, <1>7 DEF AnalysisNext

\* The bound over flows and rules is the bound over recorded alerts.
LEMMA RepeatsBoundedHolds == PushesTyped /\ RepeatsUnderWay => RepeatsBounded
<1> SUFFICES ASSUME PushesTyped, RepeatsUnderWay, NEW s \in 1..now, done[s].rule # Lacking
             PROVE  Cardinality(Repeats(s)) <= Cardinality(Handlers)
  BY DEF RepeatsBounded
<1> DEFINE f == done[s].flow
           r == done[s].rule
<1>1. done[s] \in Alert  BY AnalysisAssumption DEF PushesTyped, now
<1>2. r \in Rules /\ f \in Flows \cup {Lacking}  BY <1>1 DEF Alert
<1>3. Cardinality(Handlers) \in Nat  BY RepeatsAreFinite
<1>4. CASE f = Lacking \/ RecordedOf(f, r) = {}
  <2>1. Repeats(s) = {}  BY <1>4 DEF Repeats, SameFlow, RecordedOf
  <2> QED  BY <2>1, <1>3, FS_EmptySet
<1>5. CASE f # Lacking /\ RecordedOf(f, r) # {}
  <2>1. Repeats(s) = RecordedOf(f, r)  BY <1>5 DEF Repeats, SameFlow, RecordedOf
  <2>2. Cardinality(RecordedOf(f, r)) + Cardinality(UnderWay(f, r)) <= Cardinality(Handlers)
    BY <1>2, <1>5 DEF RepeatsUnderWay
  <2>3. Cardinality(RecordedOf(f, r)) \in Nat /\ Cardinality(UnderWay(f, r)) \in Nat  BY RepeatsAreFinite
  <2> QED  BY <2>1, <2>2, <2>3, <1>3
<1> QED  BY <1>4, <1>5

\* main.py, analyze_alert: lookup and record are two steps, and still no more analyses of one flow
\* and rule are recorded within a window than there are handlers.
THEOREM OnlyOverlapsRepeat == AnalysisSpec => []RepeatsBounded
<1>1. AnalysisInit => RepeatsUnderWay
  <2>1. ASSUME AnalysisInit, NEW f, NEW r  PROVE RecordedOf(f, r) = {}
    BY <2>1 DEF AnalysisInit, RecordedOf, now
  <2> QED  BY <2>1 DEF RepeatsUnderWay
<1> QED  BY <1>1, EntriesInvariant, RepeatsInAStep, RepeatsBoundedHolds, PTL DEF AnalysisSpec

-----------------------------------------------------------------------------
(* The order of the entries, and the limit of the cache                    *)

\* R lines up the elements of S: of two, one is ahead, and what is ahead of one is ahead
\* of what that one is ahead of.
LinedUp(S, R) ==
    /\ R \subseteq S \X S
    /\ \A k, l \in S : (<<k, l>> \in R) # (k = l \/ <<l, k>> \in R)
    /\ \A k, l, m \in S : <<k, l>> \in R /\ <<l, m>> \in R => <<k, m>> \in R

\* The elements ahead of one.
AheadOf(S, R, k) == {l \in S : <<l, k>> \in R}

\* Taking elements out, and moving one to the end, leaves the others in line.
LEMMA ToEndLinesUp ==
    ASSUME NEW S, NEW R, LinedUp(S, R), NEW T, T \subseteq S, NEW last, last \subseteq T,
           \A k, l \in last : k = l
    PROVE  LinedUp(T, ToEnd(R, T, last))
<1> DEFINE Q == ToEnd(R, T, last)
<1>1. \A k, l \in T : <<k, l>> \in Q <=> k \notin last /\ (<<k, l>> \in R \/ l \in last)
  BY DEF ToEnd
<1>2. Q \subseteq T \X T  BY DEF ToEnd, LinedUp
<1> HIDE DEF Q
<1>3. ASSUME NEW k \in T, NEW l \in T  PROVE (<<k, l>> \in Q) # (k = l \/ <<l, k>> \in Q)
  <2>1. (<<k, l>> \in R) # (k = l \/ <<l, k>> \in R)  BY DEF LinedUp
  <2>2. CASE k \in last /\ l \in last  BY <1>1, <2>1, <2>2
  <2>3. CASE k \in last /\ l \notin last  BY <1>1, <2>3
  <2>4. CASE k \notin last /\ l \in last  BY <1>1, <2>4
  <2>5. CASE k \notin last /\ l \notin last  BY <1>1, <2>1, <2>5
  <2> QED  BY <2>2, <2>3, <2>4, <2>5
<1>4. ASSUME NEW k \in T, NEW l \in T, NEW m \in T, <<k, l>> \in Q, <<l, m>> \in Q  PROVE <<k, m>> \in Q
  BY <1>1, <1>4 DEF LinedUp
<1> QED  BY <1>2, <1>3, <1>4 DEF LinedUp, Q

\* New keys of one alert queue up behind those that are there.
LEMMA QueuedLinesUp ==
    ASSUME NEW S, NEW R, LinedUp(S, R), NEW a \in Alerts, NEW N, N \subseteq AlertKeys(a), N \cap S = {}
    PROVE  LinedUp(S \cup N, Queued(R, S, N))
<1> DEFINE Q == Queued(R, S, N)
           First(k, l) == RecordOrder[k[1]] < RecordOrder[l[1]]
<1>1. \A k, l : <<k, l>> \in Q <=> <<k, l>> \in R \/ (k \in S /\ l \in N) \/ (k \in N /\ l \in N /\ First(k, l))
  BY DEF Queued
<1>2. \A k, l : <<k, l>> \in R => k \in S /\ l \in S  BY DEF LinedUp
<1>3. \A k, l \in N : First(k, l) <=> ~(k = l \/ First(l, k))
  <2>1. ASSUME NEW k \in N, NEW l \in N  PROVE First(k, l) <=> ~(k = l \/ First(l, k))
    <3>1. RecordOrder[k[1]] \in 1..3 /\ RecordOrder[l[1]] \in 1..3  BY KeysOfAlert
    <3>2. RecordOrder[k[1]] = RecordOrder[l[1]] => k = l  BY KeysHaveTheirPlaces
    <3> QED  BY <3>1, <3>2
  <2> QED  BY <2>1
<1>4. \A k, l, m \in N : First(k, l) /\ First(l, m) => First(k, m)
  <2>1. ASSUME NEW k \in N, NEW l \in N, NEW m \in N, First(k, l), First(l, m)  PROVE First(k, m)
    <3>1. RecordOrder[k[1]] \in 1..3 /\ RecordOrder[l[1]] \in 1..3 /\ RecordOrder[m[1]] \in 1..3  BY KeysOfAlert
    <3> QED  BY <2>1, <3>1
  <2> QED  BY <2>1
<1>5. Q \subseteq (S \cup N) \X (S \cup N)  BY DEF Queued, LinedUp
<1> HIDE DEF Q, First
<1>6. ASSUME NEW k \in S \cup N, NEW l \in S \cup N  PROVE (<<k, l>> \in Q) # (k = l \/ <<l, k>> \in Q)
  <2>1. CASE k \in S /\ l \in S
    <3>1. k \notin N /\ l \notin N  BY <2>1
    <3>2. (<<k, l>> \in R) # (k = l \/ <<l, k>> \in R)  BY <2>1 DEF LinedUp
    <3> QED  BY <1>1, <3>1, <3>2
  <2>2. CASE k \in N /\ l \in N
    <3>1. k \notin S /\ l \notin S  BY <2>2
    <3>2. (<<k, l>> \in Q <=> First(k, l)) /\ (<<l, k>> \in Q <=> First(l, k))  BY <1>1, <1>2, <2>2, <3>1
    <3>3. <<k, l>> \in Q <=> ~(k = l \/ <<l, k>> \in Q)  BY <1>3, <2>2, <3>2, Zenon
    <3> QED  BY <3>3, SMT
  <2>3. CASE k \in S /\ l \in N  BY <1>1, <1>2, <2>3
  <2>4. CASE k \in N /\ l \in S  BY <1>1, <1>2, <2>4
  <2> QED  BY <2>1, <2>2, <2>3, <2>4
<1>7. ASSUME NEW k \in S \cup N, NEW l \in S \cup N, NEW m \in S \cup N, <<k, l>> \in Q, <<l, m>> \in Q
      PROVE  <<k, m>> \in Q
  <2>1. CASE m \in S
    <3>1. <<l, m>> \in R  BY <1>1, <1>7, <2>1
    <3>2. l \in S  BY <3>1, <1>2
    <3>3. <<k, l>> \in R  BY <1>1, <1>7, <3>2
    <3> QED  BY <1>1, <1>2, <3>1, <3>3 DEF LinedUp
  <2>2. CASE m \in N /\ k \in S  BY <1>1, <2>2
  <2>3. CASE m \in N /\ k \in N
    <3>1. l \in N /\ First(k, l)  BY <1>1, <1>2, <1>7, <2>3
    <3>2. First(l, m)  BY <1>1, <1>2, <1>7, <2>3, <3>1
    <3> QED  BY <1>1, <1>4, <2>3, <3>1, <3>2
  <2> QED  BY <2>1, <2>2, <2>3
<1> QED  BY <1>5, <1>6, <1>7 DEF LinedUp, Q

\* In a finite line no two have equally many ahead of them.
LEMMA PlacesDiffer ==
    ASSUME NEW S, IsFiniteSet(S), NEW R, LinedUp(S, R), NEW k \in S, NEW l \in S,
           Cardinality(AheadOf(S, R, k)) = Cardinality(AheadOf(S, R, l))
    PROVE  k = l
<1>1. ASSUME NEW x \in S, NEW y \in S, <<x, y>> \in R
      PROVE  Cardinality(AheadOf(S, R, x)) < Cardinality(AheadOf(S, R, y))
  <2> DEFINE X == AheadOf(S, R, x)
             Y == AheadOf(S, R, y)
  <2>1. X \subseteq Y /\ x \in Y  BY <1>1 DEF AheadOf, LinedUp
  <2>2. x \notin X  BY DEF AheadOf, LinedUp
  <2>3. Y \in SUBSET S /\ X \in SUBSET Y  BY <2>1 DEF AheadOf
  <2> HIDE DEF X, Y
  <2>4. IsFiniteSet(Y)  BY <2>3, FS_Subset, Zenon
  <2>5. IsFiniteSet(X) /\ Cardinality(X) <= Cardinality(Y) /\ (Cardinality(Y) = Cardinality(X) => Y = X)
    BY <2>3, <2>4, FS_Subset, Zenon
  <2>6. Cardinality(X) \in Nat /\ Cardinality(Y) \in Nat  BY <2>4, <2>5, FS_CardinalityType
  <2>7. Cardinality(X) < Cardinality(Y)  BY <2>1, <2>2, <2>5, <2>6
  <2> QED  BY <2>7 DEF X, Y
<1>2. Cardinality(AheadOf(S, R, k)) \in Nat /\ Cardinality(AheadOf(S, R, l)) \in Nat
  <2>1. AheadOf(S, R, k) \in SUBSET S /\ AheadOf(S, R, l) \in SUBSET S  BY DEF AheadOf
  <2>2. IsFiniteSet(AheadOf(S, R, k)) /\ IsFiniteSet(AheadOf(S, R, l))  BY <2>1, FS_Subset, Zenon
  <2> QED  BY <2>2, FS_CardinalityType
<1>3. k = l \/ <<k, l>> \in R \/ <<l, k>> \in R  BY DEF LinedUp
<1> QED  BY <1>1, <1>2, <1>3

\* When those with too few ahead of them have gone from a line, no more are left than may be.
LEMMA FewAreLeft ==
    ASSUME NEW S, IsFiniteSet(S), NEW R, LinedUp(S, R), NEW most \in Nat
    PROVE  Cardinality({k \in S : ~(Cardinality(AheadOf(S, R, k)) + most < Cardinality(S))}) <= most
<1> DEFINE L == {k \in S : ~(Cardinality(AheadOf(S, R, k)) + most < Cardinality(S))}
           n == Cardinality(S)
           P == (n - most)..(n - 1)
           f == [k \in L |-> Cardinality(AheadOf(S, R, k))]
<1>1. n \in Nat  BY FS_CardinalityType
<1>2. ASSUME NEW k \in S  PROVE Cardinality(AheadOf(S, R, k)) \in 0..(n - 1)
  <2>1. AheadOf(S, R, k) \in SUBSET S /\ k \notin AheadOf(S, R, k)  BY DEF AheadOf, LinedUp
  <2>2. /\ IsFiniteSet(AheadOf(S, R, k)) /\ Cardinality(AheadOf(S, R, k)) <= n
        /\ n = Cardinality(AheadOf(S, R, k)) => S = AheadOf(S, R, k)
    BY <2>1, FS_Subset, Zenon
  <2>3. Cardinality(AheadOf(S, R, k)) \in Nat  BY <2>2, FS_CardinalityType
  <2> QED  BY <1>1, <2>1, <2>2, <2>3
<1>3. \A k \in L : k \in S /\ f[k] \in P
  <2>1. ASSUME NEW k \in L  PROVE k \in S /\ f[k] \in P
    <3>1. k \in S /\ ~(Cardinality(AheadOf(S, R, k)) + most < n)  OBVIOUS
    <3> HIDE DEF n
    <3> QED  BY <1>1, <1>2, <3>1
  <2> QED  BY <2>1
<1>4. \A k, l \in L : f[k] = f[l] => k = l
  <2>1. ASSUME NEW k \in L, NEW l \in L, f[k] = f[l]  PROVE k = l
    <3>1. k \in S /\ l \in S /\ Cardinality(AheadOf(S, R, k)) = Cardinality(AheadOf(S, R, l))  BY <2>1
    <3> QED  BY <3>1, PlacesDiffer
  <2> QED  BY <2>1
<1>5. f = [k \in L |-> f[k]]  OBVIOUS
<1> HIDE DEF f, L, n
<1>6. f \in [L -> P]  BY <1>3, <1>5
<1>7. f \in Injection(L, P)  BY <1>4, <1>6 DEF Injection, IsInjective
<1>8. n - most \in Int /\ n - 1 \in Int  BY <1>1
<1>9. IsFiniteSet(P) /\ Cardinality(P) = IF n - most > n - 1 THEN 0 ELSE (n - 1) - (n - most) + 1
  BY <1>8, FS_Interval, Zenon
<1>10. Cardinality(P) <= most  BY <1>1, <1>9
<1> HIDE DEF P
<1>11. IsFiniteSet(L) /\ Cardinality(L) <= Cardinality(P)  BY <1>7, <1>9, FS_Injection, Zenon
<1>12. Cardinality(L) \in Nat /\ Cardinality(P) \in Nat  BY <1>9, <1>11, FS_CardinalityType
<1>13. Cardinality(L) <= most  BY <1>10, <1>11, <1>12
<1> QED  BY <1>13 DEF L, n

\* A set of entries none of which has the key of another.
OneEach(c) == \A d, e \in c : d.key = e.key => d = e

\* It has as many keys as entries.
LEMMA AsManyKeys ==
    ASSUME NEW c, OneEach(c)
    PROVE  /\ IsFiniteSet(c) => IsFiniteSet(KeysOf(c)) /\ Cardinality(c) = Cardinality(KeysOf(c))
           /\ IsFiniteSet(KeysOf(c)) => IsFiniteSet(c) /\ Cardinality(c) = Cardinality(KeysOf(c))
<1> DEFINE f == [e \in c |-> e.key]
<1>1. f \in [c -> KeysOf(c)]  BY DEF KeysOf
<1>2. \A d, e \in c : f[d] = f[e] => d = e  BY DEF OneEach
<1>3. \A k \in KeysOf(c) : \E e \in c : f[e] = k  BY DEF KeysOf
<1> HIDE DEF f
<1>4. f \in Injection(c, KeysOf(c))  BY <1>1, <1>2 DEF Injection, IsInjective
<1>5. f \in Surjection(c, KeysOf(c))  BY <1>1, <1>3 DEF Surjection
<1>6. f \in Bijection(c, KeysOf(c))  BY <1>4, <1>5 DEF Bijection
<1>7. IsFiniteSet(c) => IsFiniteSet(KeysOf(c)) /\ Cardinality(c) = Cardinality(KeysOf(c))
  <2>1. ExistsBijection(c, KeysOf(c))  BY <1>6 DEF ExistsBijection
  <2> QED  BY <2>1, FS_Bijection, Zenon
<1>8. IsFiniteSet(KeysOf(c)) => IsFiniteSet(c)  BY <1>4, FS_Injection, Zenon
<1> QED  BY <1>7, <1>8

\* No key is twice in the cache, its keys are lined up, and it keeps to its limit.
CacheLinedUp ==
    /\ OneEach(cache) /\ IsFiniteSet(cache) /\ Cardinality(cache) <= MAX_ENTRIES
    /\ LinedUp(KeysOf(cache), ahead)

\* At most one key is the first hit of a lookup, and its entry stays.
LEMMA FirstHitStays ==
    ASSUME NEW a \in Alerts, a.rule # Lacking, Check(a)
    PROVE  /\ FirstHit(a) \subseteq KeysOf(cache')
           /\ \A k, l \in FirstHit(a) : k = l
<1>1. ASSUME NEW k \in FirstHit(a)  PROVE k \in KeysOf(cache')
  <2>1. k \in Hits(a) /\ k \in AlertKeys(a)  BY DEF FirstHit, Hits
  <2>2. PICK e \in Cleaned : e.key = k  BY <2>1 DEF Hits
  <2>3. k \notin Expired(a)
    <3>1. CheckOrder[k[1]] \in 1..3  BY <2>1, KeysOfAlert
    <3>2. ~(CheckOrder[k[1]] < CheckOrder[k[1]])  BY <3>1
    <3> QED  BY <2>1, <3>2 DEF Expired
  <2>4. e \in cache'  BY <2>2, <2>3 DEF Check
  <2> QED  BY <2>2, <2>4 DEF KeysOf
<1>2. ASSUME NEW k \in FirstHit(a), NEW l \in FirstHit(a)  PROVE k = l
  <2>1. k \in Hits(a) /\ k \in AlertKeys(a) /\ l \in Hits(a) /\ l \in AlertKeys(a)  BY DEF FirstHit, Hits
  <2>2. CheckOrder[k[1]] <= CheckOrder[l[1]] /\ CheckOrder[l[1]] <= CheckOrder[k[1]]  BY <2>1 DEF FirstHit
  <2>3. CheckOrder[k[1]] \in 1..3 /\ CheckOrder[l[1]] \in 1..3  BY <2>1, KeysOfAlert
  <2> QED  BY <2>1, <2>2, <2>3, KeysHaveTheirPlaces
<1> QED  BY <1>1, <1>2

\* A lookup keeps the order and the limit.
LEMMA LookupLinesUp ==
    ASSUME CacheLinedUp, NEW a \in Alerts, Check(a)
    PROVE  CacheLinedUp'
<1>1. CASE a.rule = Lacking  BY <1>1 DEF Check, CacheLinedUp, LinedUp, OneEach, KeysOf
<1>2. CASE a.rule # Lacking
  <2>1. cache' \subseteq cache  BY LookupSparesTheYoung
  <2>2. OneEach(cache')  BY <2>1 DEF CacheLinedUp, OneEach
  <2>3. IsFiniteSet(cache') /\ Cardinality(cache') <= MAX_ENTRIES
    <3>1. cache' \in SUBSET cache /\ IsFiniteSet(cache) /\ Cardinality(cache) <= MAX_ENTRIES  BY <2>1 DEF CacheLinedUp
    <3>2. IsFiniteSet(cache') /\ Cardinality(cache') <= Cardinality(cache)  BY <3>1, FS_Subset, Zenon
    <3>3. Cardinality(cache') \in Nat /\ Cardinality(cache) \in Nat /\ MAX_ENTRIES \in Nat
      BY <3>1, <3>2, FS_CardinalityType, AnalysisAssumption
    <3> QED  BY <3>1, <3>2, <3>3
  <2>4. ahead' = ToEnd(ahead, KeysOf(cache'), FirstHit(a))  BY <1>2 DEF Check
  <2>5. KeysOf(cache') \subseteq KeysOf(cache)  BY <2>1 DEF KeysOf
  <2>6. LinedUp(KeysOf(cache), ahead)  BY DEF CacheLinedUp
  <2>7. FirstHit(a) \subseteq KeysOf(cache') /\ \A k, l \in FirstHit(a) : k = l  BY <1>2, FirstHitStays
  <2>8. LinedUp(KeysOf(cache'), ToEnd(ahead, KeysOf(cache'), FirstHit(a)))
    BY <2>5, <2>6, <2>7, ToEndLinesUp
  <2>9. LinedUp(KeysOf(cache'), ahead')  BY <2>4, <2>8
  <2> QED  BY <2>2, <2>3, <2>9 DEF CacheLinedUp, KeysOf, OneEach, LinedUp
<1> QED  BY <1>1, <1>2

\* The entries after a put: one for each key, those that were there and those of the alert.
LEMMA PutEntries ==
    ASSUME NEW c, OneEach(c), IsFiniteSet(c), NEW keys, IsFiniteSet(keys)
    PROVE  /\ OneEach(Put(c, keys)) /\ IsFiniteSet(Put(c, keys))
           /\ KeysOf(Put(c, keys)) = KeysOf(c) \cup (keys \ KeysOf(c))
<1> DEFINE d == Put(c, keys)
<1>1. OneEach(d)  BY DEF OneEach, Put
<1>2. ASSUME NEW k  PROVE k \in KeysOf(d) <=> k \in KeysOf(c) \cup keys
  <2>1. CASE k \in keys
    <3>1. [key |-> k, stamp |-> now + 1] \in d /\ [key |-> k, stamp |-> now + 1].key = k  BY <2>1 DEF Put
    <3> QED  BY <2>1, <3>1 DEF KeysOf
  <2>2. CASE k \notin keys
    <3>1. \A e : e.key = k => (e \in d <=> e \in c)  BY <2>2 DEF Put
    <3> QED  BY <2>2, <3>1 DEF KeysOf
  <2> QED  BY <2>1, <2>2
<1>3. KeysOf(d) = KeysOf(c) \cup keys  BY <1>2
<1>4. IsFiniteSet(KeysOf(c))  BY AsManyKeys
<1>5. IsFiniteSet(KeysOf(d))  BY <1>3, <1>4, FS_Union
<1>6. IsFiniteSet(d)  BY <1>1, <1>5, AsManyKeys
<1> QED  BY <1>1, <1>3, <1>6

\* An alert has finitely many keys.
LEMMA KeysAreFew ==
    ASSUME NEW a
    PROVE  IsFiniteSet(AlertKeys(a)) /\ IsFiniteSet(Recorded(a)) /\ Recorded(a) \subseteq AlertKeys(a)
<1>1. AlertKeys(a) \in SUBSET ({ExactKey(a)} \cup {FlowKey(a)} \cup {IpKey(a)})  BY DEF AlertKeys
<1>2. IsFiniteSet({ExactKey(a)} \cup {FlowKey(a)} \cup {IpKey(a)})
  BY FS_Singleton, FS_Union
<1>3. IsFiniteSet(AlertKeys(a))  BY <1>1, <1>2, FS_Subset, Zenon
<1>4. Recorded(a) \in SUBSET AlertKeys(a)  BY DEF Recorded
<1> QED  BY <1>3, <1>4, FS_Subset, Zenon

\* A record keeps the order, and evicts down to the limit.
LEMMA RecordLinesUp ==
    ASSUME CacheLinedUp, NEW a \in Alerts, Record(a)
    PROVE  CacheLinedUp'
<1> DEFINE keys == Recorded(a)
           c == Put(cache, keys)
           N == keys \ KeysOf(cache)
           order == Queued(ahead, KeysOf(cache), N)
           gone == Evicted(c, order)
<1>1. cache' = {e \in c : e.key \notin gone} /\ ahead' = ToEnd(order, KeysOf(c) \ gone, {})  BY DEF Record
<1>2. OneEach(cache) /\ IsFiniteSet(cache) /\ LinedUp(KeysOf(cache), ahead)  BY DEF CacheLinedUp
<1>3. IsFiniteSet(keys) /\ keys \subseteq AlertKeys(a)  BY KeysAreFew
<1>4. OneEach(c) /\ IsFiniteSet(c) /\ KeysOf(c) = KeysOf(cache) \cup N  BY <1>2, <1>3, PutEntries, Zenon
<1>5. N \subseteq AlertKeys(a) /\ N \cap KeysOf(cache) = {}  BY <1>3
<1>6. LinedUp(KeysOf(cache) \cup N, order)
  <2> DEFINE S == KeysOf(cache)
  <2> HIDE DEF S, N
  <2> QED  BY <1>2, <1>5, QueuedLinesUp DEF S
<1>7. LinedUp(KeysOf(c), order)  BY <1>4, <1>6
<1>8. IsFiniteSet(KeysOf(c)) /\ Cardinality(c) = Cardinality(KeysOf(c))  BY <1>4, AsManyKeys
<1> HIDE DEF c, order, keys, N
<1> DEFINE S == KeysOf(c)
<1>9. gone = {k \in S : Cardinality(AheadOf(S, order, k)) + MAX_ENTRIES < Cardinality(S)}
  BY <1>8 DEF Evicted, AheadOf
<1>10. S \ gone = {k \in S : ~(Cardinality(AheadOf(S, order, k)) + MAX_ENTRIES < Cardinality(S))}  BY <1>9
<1> HIDE DEF gone
<1>11. KeysOf(cache') = S \ gone  BY <1>1 DEF KeysOf
<1>12. MAX_ENTRIES \in Nat  BY AnalysisAssumption
<1>13. Cardinality(S \ gone) <= MAX_ENTRIES  BY <1>7, <1>8, <1>10, <1>12, FewAreLeft
<1>14. OneEach(cache')  BY <1>1, <1>4 DEF OneEach
<1>15. IsFiniteSet(cache')
  <2>1. cache' \in SUBSET c  BY <1>1
  <2> QED  BY <2>1, <1>4, FS_Subset, Zenon
<1>16. Cardinality(cache') <= MAX_ENTRIES  BY <1>11, <1>13, <1>14, <1>15, AsManyKeys
<1>17. LinedUp(KeysOf(cache'), ahead')
  <2>1. S \ gone \subseteq S /\ {} \subseteq S \ gone /\ \A k, l \in {} : k = l  OBVIOUS
  <2>2. LinedUp(S \ gone, ToEnd(order, S \ gone, {}))  BY <1>7, <2>1, ToEndLinesUp
  <2> QED  BY <2>2, <1>1, <1>11
<1> QED  BY <1>14, <1>15, <1>16, <1>17 DEF CacheLinedUp, KeysOf, OneEach, LinedUp

\* Every step keeps the order and the limit.
LEMMA LinedUpInAStep == PushesTyped /\ CacheLinedUp /\ [AnalysisNext]_analysisVars => CacheLinedUp'
<1> SUFFICES ASSUME PushesTyped, CacheLinedUp, [AnalysisNext]_analysisVars  PROVE CacheLinedUp'  OBVIOUS
<1>1. CASE UNCHANGED <<cache, ahead>>  BY <1>1 DEF CacheLinedUp, LinedUp, OneEach, KeysOf
<1>2. ASSUME NEW a \in Alerts, Check(a)  PROVE CacheLinedUp'  BY <1>2, LookupLinesUp
<1>3. ASSUME NEW h \in Handlers, Finish(h)  PROVE CacheLinedUp'
  <2>1. calls[h] \in Alerts /\ Record(calls[h])  BY <1>3 DEF Finish, PushesTyped
  <2> QED  BY <2>1, RecordLinesUp
<1>4. CASE RestartAnalyzer
  <2>1. cache' = {} /\ ahead' = {}  BY <1>4 DEF RestartAnalyzer
  <2>2. IsFiniteSet({}) /\ Cardinality({}) = 0 /\ MAX_ENTRIES \in Nat  BY FS_EmptySet, AnalysisAssumption
  <2>3. KeysOf({}) = {}  BY DEF KeysOf
  <2>4. OneEach({}) /\ LinedUp({}, {})  BY DEF OneEach, LinedUp
  <2> QED  BY <2>1, <2>2, <2>3, <2>4 DEF CacheLinedUp, KeysOf, OneEach, LinedUp
<1> QED
  BY <1>1, <1>2, <1>3, <1>4
  DEF AnalysisNext, analysisVars, Deduplicate, Bypass, Analyze, AnalysisFails, Age

\* dedup.py, AlertDeduplicator: types; no key is twice in the cache, the cache keeps to its
\* limit, and of two of its keys one is ahead of the other.
THEOREM PushesTypeCorrect == AnalysisSpec => []AnalysisTypeOK
<1>1. AnalysisInit => CacheLinedUp
  <2>1. IsFiniteSet({}) /\ Cardinality({}) = 0 /\ MAX_ENTRIES \in Nat  BY FS_EmptySet, AnalysisAssumption
  <2>2. KeysOf({}) = {}  BY DEF KeysOf
  <2>3. OneEach({}) /\ LinedUp({}, {})  BY DEF OneEach, LinedUp
  <2>4. SUFFICES ASSUME AnalysisInit  PROVE CacheLinedUp  OBVIOUS
  <2>5. cache = {} /\ ahead = {}  BY <2>4 DEF AnalysisInit
  <2>6. OneEach(cache) /\ LinedUp(KeysOf(cache), ahead)  BY <2>2, <2>3, <2>5
  <2> QED  BY <2>1, <2>5, <2>6 DEF CacheLinedUp
<1>2. PushesTyped /\ CacheLinedUp => AnalysisTypeOK
  BY DEF PushesTyped, CacheLinedUp, LinedUp, OneEach, AnalysisTypeOK
<1> QED  BY <1>1, <1>2, TypedInitially, TypedInAStep, LinedUpInAStep, PTL DEF AnalysisSpec

-----------------------------------------------------------------------------
(* What the replay adds up                                                 *)

First(s) == CHOOSE b \in s : TRUE
Adds(f, s) == f[s] = (IF s = {} THEN 0 ELSE First(s).count + f[s \ {First(s)}])
IsSum(f, top) == f = [s \in SUBSET top |-> IF s = {} THEN 0 ELSE First(s).count + f[s \ {First(s)}]]
SumOver(top) == CHOOSE f : IsSum(f, top)
Counted(top) == IsFiniteSet(top) /\ \A b \in top : b.count \in Nat

\* Requests is the sum that its fold defines by recursion over the subsets.
LEMMA RequestsAreSums == ASSUME NEW set  PROVE Requests(set) = SumOver(set)[set]
BY DEF Requests, MapThenSumSet, MapThenFoldSet, SumOver, IsSum, First

\* The recursion has a solution, and its values are numbers.
LEMMA SumExists ==
    ASSUME NEW top, Counted(top)
    PROVE  \E f \in [SUBSET top -> Nat] : \A s \in SUBSET top : Adds(f, s)
<1> DEFINE Right(f, n) == \A s \in SUBSET top : Cardinality(s) <= n => Adds(f, s)
           N == {n \in Nat : \E f \in [SUBSET top -> Nat] : Right(f, n)}
<1>1. \A s \in SUBSET top : IsFiniteSet(s) /\ Cardinality(s) \in Nat /\ Cardinality(s) <= Cardinality(top)
  BY FS_Subset, FS_CardinalityType DEF Counted
<1>2. \A s \in SUBSET top : s # {} =>
         /\ First(s) \in s /\ First(s).count \in Nat /\ s \ {First(s)} \in SUBSET top
         /\ Cardinality(s \ {First(s)}) = Cardinality(s) - 1
  BY <1>1, FS_RemoveElement DEF First, Counted
<1>3. 0 \in N
  <2> DEFINE f == [s \in SUBSET top |-> 0]
  <2>1. \A s \in SUBSET top : Cardinality(s) <= 0 => s = {}  BY <1>1, FS_EmptySet
  <2>2. f \in [SUBSET top -> Nat] /\ Right(f, 0)  BY <2>1 DEF Adds
  <2> QED  BY <2>2
<1>4. ASSUME NEW n \in N  PROVE n + 1 \in N
  <2>1. PICK f \in [SUBSET top -> Nat] : Right(f, n)  BY <1>4
  <2> DEFINE g == [s \in SUBSET top |-> IF Cardinality(s) <= n THEN f[s]
                                        ELSE IF s = {} THEN 0 ELSE First(s).count + f[s \ {First(s)}]]
  <2>2. g \in [SUBSET top -> Nat]
    <3>1. ASSUME NEW s \in SUBSET top
          PROVE  (IF Cardinality(s) <= n THEN f[s]
                  ELSE IF s = {} THEN 0 ELSE First(s).count + f[s \ {First(s)}]) \in Nat
      <4>1. f[s] \in Nat /\ (s # {} => f[s \ {First(s)}] \in Nat /\ First(s).count \in Nat)  BY <1>2, <2>1
      <4> QED  BY <4>1
    <3> QED  BY <3>1
  <2>3. ASSUME NEW s \in SUBSET top, Cardinality(s) <= n + 1  PROVE Adds(g, s)
    <3>1. CASE s = {}
      <4>1. f[s] = 0 \/ ~(Cardinality(s) <= n)  BY <2>1, <3>1 DEF Adds
      <4> QED  BY <4>1, <3>1 DEF Adds
    <3>2. CASE s # {}
      <4> DEFINE r == s \ {First(s)}
      <4>1. r \in SUBSET top /\ Cardinality(r) = Cardinality(s) - 1 /\ Cardinality(s) \in Nat  BY <1>1, <1>2, <3>2
      <4>2. Cardinality(r) <= n  BY <1>4, <2>3, <4>1
      <4>3. g[r] = f[r]  BY <4>1, <4>2
      <4>4. g[s] = First(s).count + f[r]
        <5>1. CASE Cardinality(s) <= n  BY <5>1, <2>1, <3>2 DEF Adds
        <5>2. CASE ~(Cardinality(s) <= n)  BY <5>2, <3>2
        <5> QED  BY <5>1, <5>2
      <4> QED  BY <3>2, <4>3, <4>4 DEF Adds
    <3> QED  BY <3>1, <3>2
  <2> HIDE DEF g
  <2>4. \E h \in [SUBSET top -> Nat] : Right(h, n + 1)  BY <2>2, <2>3
  <2> QED  BY <1>4, <2>4
<1>5. N = Nat
  <2>1. N \subseteq Nat  OBVIOUS
  <2> HIDE DEF N
  <2> QED  BY <1>3, <1>4, <2>1, AllNumbers
<1>6. Cardinality(top) \in N  BY <1>1, <1>5
<1> QED  BY <1>1, <1>6

\* What Requests adds up for a finite set is given by the recursion.
LEMMA SumIsDefined ==
    ASSUME NEW top, Counted(top)
    PROVE  SumOver(top) \in [SUBSET top -> Nat] /\ \A s \in SUBSET top : Adds(SumOver(top), s)
<1>1. PICK f \in [SUBSET top -> Nat] : \A s \in SUBSET top : Adds(f, s)  BY SumExists
<1>2. IsSum(f, top)
  <2>1. f = [s \in SUBSET top |-> f[s]]  OBVIOUS
  <2> QED  BY <1>1, <2>1 DEF IsSum, Adds
<1>3. IsSum(SumOver(top), top)  BY <1>2 DEF SumOver
<1>4. \A s \in SUBSET top : Adds(SumOver(top), s)
  <2> DEFINE g == SumOver(top)
  <2> HIDE DEF g
  <2>1. IsSum(g, top)  BY <1>3 DEF g
  <2>2. \A s \in SUBSET top : Adds(g, s)  BY <2>1 DEF IsSum, Adds
  <2> QED  BY <2>2 DEF g
<1>5. \A s \in SUBSET top : SumOver(top)[s] = f[s]
  <2> DEFINE g == SumOver(top)
             F == {s \in SUBSET top : g[s] = f[s]}
  <2> HIDE DEF g
  <2>1. \A s \in SUBSET top : Adds(g, s)  BY <1>4 DEF g
  <2>2. ASSUME NEW s \in SUBSET top, \A x \in s : s \ {x} \in F  PROVE s \in F
    <3>1. s # {} => g[s \ {First(s)}] = f[s \ {First(s)}]  BY <2>2 DEF First
    <3> QED  BY <1>1, <2>1, <3>1 DEF Adds
  <2>3. IsFiniteSet(top)  BY DEF Counted
  <2> HIDE DEF F
  <2>4. \A s \in SUBSET top : s \in F  BY <2>2, <2>3, AllSubsets
  <2> QED  BY <2>4 DEF F, g
<1>6. SumOver(top) = f
  <2> DEFINE g == SumOver(top)
  <2> HIDE DEF g
  <2>1. IsSum(g, top)  BY <1>3 DEF g
  <2>2. \A s \in SUBSET top : g[s] = f[s]  BY <1>5 DEF g
  <2>3. g = [s \in SUBSET top |-> g[s]]  BY <2>1 DEF IsSum
  <2>4. g = f  BY <2>2, <2>3
  <2> QED  BY <2>4 DEF g
<1> QED  BY <1>4, <1>6

\* The order in which the elements are taken does not matter.
LEMMA SumTakesAny ==
    ASSUME NEW top, Counted(top), NEW f \in [SUBSET top -> Nat], \A s \in SUBSET top : Adds(f, s)
    PROVE  \A s \in SUBSET top : \A x \in s : f[s] = x.count + f[s \ {x}]
<1> DEFINE F == {s \in SUBSET top : \A x \in s : f[s] = x.count + f[s \ {x}]}
<1>1. ASSUME NEW s \in SUBSET top, \A x \in s : s \ {x} \in F  PROVE s \in F
  <2>1. ASSUME NEW x \in s  PROVE f[s] = x.count + f[s \ {x}]
    <3> DEFINE y == First(s)
    <3>1. y \in s /\ f[s] = y.count + f[s \ {y}]  BY DEF First, Adds
    <3>2. CASE x = y  BY <3>1, <3>2
    <3>3. CASE x # y
      <4>1. x \in s \ {y} /\ y \in s \ {x}  BY <3>1, <3>3
      <4>2. f[s \ {y}] = x.count + f[(s \ {y}) \ {x}]  BY <1>1, <3>1, <4>1
      <4>3. f[s \ {x}] = y.count + f[(s \ {x}) \ {y}]  BY <1>1, <4>1
      <4>4. (s \ {y}) \ {x} = (s \ {x}) \ {y}  OBVIOUS
      <4>5. x.count \in Nat /\ y.count \in Nat /\ f[(s \ {y}) \ {x}] \in Nat  BY <3>1 DEF Counted
      <4> DEFINE r == f[(s \ {y}) \ {x}]
                 a == x.count
                 b == y.count
      <4>6. f[s] = b + f[s \ {y}] /\ f[s \ {y}] = a + r  BY <3>1, <4>2
      <4>7. f[s \ {x}] = b + r  BY <4>3, <4>4
      <4>8. a \in Nat /\ b \in Nat /\ r \in Nat  BY <4>5
      <4> HIDE DEF y, r, a, b
      <4>9. f[s] = a + f[s \ {x}]  BY <4>6, <4>7, <4>8
      <4> QED  BY <4>9 DEF a
    <3> QED  BY <3>2, <3>3
  <2> QED  BY <2>1
<1>2. IsFiniteSet(top)  BY DEF Counted
<1> HIDE DEF F
<1>3. \A s \in SUBSET top : s \in F  BY <1>1, <1>2, AllSubsets
<1> QED  BY <1>3 DEF F

\* Of the requests of fewer batches there are no more.
LEMMA MoreBatchesMoreRequests ==
    ASSUME NEW top, Counted(top), NEW set, set \subseteq top
    PROVE  Requests(set) \in Nat /\ Requests(top) \in Nat /\ Requests(set) <= Requests(top)
<1>1. Counted(set)  BY FS_Subset DEF Counted
<1> DEFINE f == SumOver(top)
           g == SumOver(set)
<1>2. f \in [SUBSET top -> Nat] /\ \A s \in SUBSET top : Adds(f, s)  BY SumIsDefined
<1>3. g \in [SUBSET set -> Nat] /\ \A s \in SUBSET set : Adds(g, s)  BY <1>1, SumIsDefined
<1>4. Requests(set) = g[set] /\ Requests(top) = f[top]  BY RequestsAreSums
<1> HIDE DEF f, g
<1>5. \A s \in SUBSET set : g[s] = f[s]
  <2> DEFINE F == {s \in SUBSET set : g[s] = f[s]}
  <2>1. ASSUME NEW s \in SUBSET set, \A x \in s : s \ {x} \in F  PROVE s \in F
    <3>1. s # {} => g[s \ {First(s)}] = f[s \ {First(s)}]  BY <2>1 DEF First
    <3>2. s \in SUBSET top  OBVIOUS
    <3> QED  BY <1>2, <1>3, <3>1, <3>2 DEF Adds
  <2>2. IsFiniteSet(set)  BY <1>1 DEF Counted
  <2> HIDE DEF F
  <2>3. \A s \in SUBSET set : s \in F  BY <2>1, <2>2, AllSubsets
  <2> QED  BY <2>3 DEF F
<1>6. \A s \in SUBSET top : set \subseteq s => f[set] <= f[s]
  <2> DEFINE F == {s \in SUBSET top : set \subseteq s => f[set] <= f[s]}
  <2>1. ASSUME NEW s \in SUBSET top, \A x \in s : s \ {x} \in F  PROVE s \in F
    <3>1. SUFFICES ASSUME set \subseteq s, set # s  PROVE f[set] <= f[s]  BY <1>2
    <3>2. PICK x \in s : x \notin set  BY <3>1
    <3>3. f[set] <= f[s \ {x}]  BY <2>1, <3>1, <3>2
    <3>4. f[s] = x.count + f[s \ {x}]  BY <1>2, SumTakesAny
    <3>5. x.count \in Nat /\ f[set] \in Nat /\ f[s \ {x}] \in Nat  BY <1>2 DEF Counted
    <3> QED  BY <3>3, <3>4, <3>5
  <2>2. IsFiniteSet(top)  BY DEF Counted
  <2> HIDE DEF F
  <2>3. \A s \in SUBSET top : s \in F  BY <2>1, <2>2, AllSubsets
  <2> QED  BY <2>3 DEF F
<1>7. g[set] = f[set] /\ g[set] \in Nat /\ f[top] \in Nat /\ f[set] <= f[top]  BY <1>2, <1>3, <1>5, <1>6
<1> QED  BY <1>4, <1>7

-----------------------------------------------------------------------------
(* What is replayed of a rule                                              *)

Beats(rule, n, k) ==
    \/ rule.contents[k].length < rule.contents[n].length
    \/ rule.contents[k].length = rule.contents[n].length /\ n <= k

\* Quoting does not change how long the contents are, nor that they are contents.
LEMMA SanitizedIsRule == ASSUME NEW rule \in Rule  PROVE Sanitized(rule) \in Rule
<1> DEFINE s == rule.contents
<1>1. \A c \in Content : Unquoted(c) \in Content  BY DEF Content, Unquoted
<1>2. s \in Seq(Content)  BY DEF Rule
<1>3. [n \in DOMAIN s |-> Unquoted(s[n])] \in Seq(Content)
  <2> HIDE DEF s
  <2>1. Len(s) \in Nat /\ DOMAIN s = 1..Len(s) /\ \A n \in 1..Len(s) : s[n] \in Content  BY <1>2
  <2>2. \A n \in 1..Len(s) : Unquoted(s[n]) \in Content  BY <1>1, <2>1
  <2>3. [n \in DOMAIN s |-> Unquoted(s[n])] \in [1..Len(s) -> Content]  BY <2>1, <2>2
  <2> QED  BY <2>1, <2>3
<1> DEFINE t == [n \in DOMAIN s |-> Unquoted(s[n])]
           bars == IF rule.bars = "lone" /\ (\E c \in Values(rule) : c.quote) THEN "text" ELSE rule.bars
<1>4. Sanitized(rule) = [rule EXCEPT !.contents = t, !.bars = bars]  BY DEF Sanitized
<1>5. t \in Seq(Content) /\ bars \in {"bytes", "lone", "text"}  BY <1>3 DEF Rule
<1> HIDE DEF s, t, bars
<1> QED  BY <1>4, <1>5 DEF Rule

\* The content that stands for the rule is one of those long enough.
LEMMA LongestIsProbed ==
    ASSUME NEW rule \in Rule, Probed(rule) # {}
    PROVE  Longest(rule) \in Probed(rule)
<1> DEFINE s == rule.contents
           P(k) == {n \in Probed(rule) : n <= k}
           N == {k \in Nat : P(k) # {} => \E n \in P(k) : \A j \in P(k) : Beats(rule, n, j)}
<1>1. Len(s) \in Nat /\ DOMAIN s = 1..Len(s) /\ \A n \in 1..Len(s) : s[n].length \in Nat
  <2>1. s \in Seq(Content)  BY DEF Rule
  <2>2. \A c \in Content : c.length \in Nat  BY DEF Content
  <2> HIDE DEF s
  <2> QED  BY <2>1, <2>2
<1>2. \A n \in Probed(rule) : n \in 1..Len(s) /\ n \in Nat \ {0} /\ s[n].length \in Nat  BY <1>1 DEF Probed
<1>3. 0 \in N  BY <1>2
<1>4. ASSUME NEW k \in N  PROVE k + 1 \in N
  <2>1. CASE k + 1 \notin Probed(rule)
    <3>1. P(k + 1) = P(k)  BY <1>2, <2>1
    <3> QED  BY <3>1
  <2>2. CASE k + 1 \in Probed(rule) /\ P(k) = {}
    <3>1. P(k + 1) = {k + 1}  BY <1>2, <2>2
    <3>2. Beats(rule, k + 1, k + 1)  BY DEF Beats
    <3> QED  BY <3>1, <3>2
  <2>3. CASE k + 1 \in Probed(rule) /\ P(k) # {}
    <3>1. PICK n \in P(k) : \A j \in P(k) : Beats(rule, n, j)  BY <2>3
    <3>2. P(k + 1) = P(k) \cup {k + 1}  BY <1>2, <2>3
    <3>3. n \in Nat /\ n <= k /\ k \in Nat /\ s[n].length \in Nat /\ s[k + 1].length \in Nat  BY <1>2, <2>3
    <3>4. CASE s[n].length < s[k + 1].length
      <4>1. ASSUME NEW j \in P(k)  PROVE Beats(rule, k + 1, j)
        <5>1. s[j].length <= s[n].length /\ s[j].length \in Nat  BY <1>2, <3>1, <3>3 DEF Beats
        <5> QED  BY <3>3, <3>4, <5>1 DEF Beats
      <4>2. Beats(rule, k + 1, k + 1)  BY DEF Beats
      <4> QED  BY <3>2, <4>1, <4>2
    <3>5. CASE ~(s[n].length < s[k + 1].length)
      <4>1. Beats(rule, n, k + 1)  BY <3>3, <3>5 DEF Beats
      <4> QED  BY <3>1, <3>2, <4>1
    <3> QED  BY <3>4, <3>5
  <2> QED  BY <2>1, <2>2, <2>3
<1>5. N = Nat
  <2>1. N \subseteq Nat  OBVIOUS
  <2> HIDE DEF N
  <2> QED  BY <1>3, <1>4, <2>1, AllNumbers
<1>6. P(Len(s)) = Probed(rule)  BY <1>1, <1>2
<1>7. \E n \in Probed(rule) : \A j \in Probed(rule) : Beats(rule, n, j)  BY <1>1, <1>5, <1>6
<1> QED  BY <1>7 DEF Longest, Beats

\* What is replayed is part of the rule: whatever the rule fires on carries it.
LEMMA ReplayedIsOfTheRule ==
    ASSUME NEW rule \in Rule, Probed(rule) # {}
    PROVE  {Primary(rule)} \cup Others(rule) \subseteq Values(rule)
<1>1. Longest(rule) \in Probed(rule)  BY LongestIsProbed
<1>2. \A n \in Probed(rule) : rule.contents[n] \in Values(rule)  BY DEF Probed, Values, ToSet
<1> QED  BY <1>1, <1>2 DEF Primary, Others

\* A rule that would have alerted on common traffic gives itself away in the numbers the
\* guard has: at least as many requests carry the replayed contents as the rule fires on.
LEMMA CommonIsEvident ==
    ASSUME NEW rule \in Rule, Probed(rule) # {}, NEW set, set \subseteq History,
           NEW hits \in Nat, NEW sources \in Nat, NEW body, Common(rule, set, hits, sources)
    PROVE  EvidenceSaysReject(Stats(hits, sources, Requests(Carrying(set, {Primary(rule)} \cup Others(rule))), body))
<1> DEFINE wide == Carrying(set, {Primary(rule)} \cup Others(rule))
           narrow == Carrying(set, Values(rule))
           combined == Requests(wide)
           fires == Requests(narrow)
           s == Stats(hits, sources, combined, body)
<1>1. narrow \subseteq wide  BY ReplayedIsOfTheRule DEF Carrying
<1>2. Counted(wide)
  <2>1. wide \in SUBSET History  BY DEF Carrying
  <2>2. IsFiniteSet(History) /\ \A b \in History : b.count \in Nat  BY ReviewAssumption
  <2> HIDE DEF wide
  <2>3. IsFiniteSet(wide)  BY <2>1, <2>2, FS_Subset
  <2> QED  BY <2>1, <2>2, <2>3 DEF Counted
<1>3. fires \in Nat /\ combined \in Nat /\ fires <= combined
  <2> HIDE DEF wide, narrow
  <2> QED  BY <1>1, <1>2, MoreBatchesMoreRequests
<1>4. /\ sources >= REJECT_DISTINCT_SRC
      /\ \/ hits >= REJECT_HITS /\ fires * 100 >= hits * REJECT_COMBO_RATIO
         \/ hits >= REJECT_HITS_ABSOLUTE /\ fires * 100 >= hits * REJECT_ABSOLUTE_RATIO
  BY DEF Common
<1>5. s.hits = hits /\ s.sources = sources /\ s.combined = combined /\ s.body = body  BY DEF Stats
<1> HIDE DEF fires, combined, s, wide, narrow
<1>6. HasRatio(s)
  <2>1. hits > 0  BY <1>4, ReviewAssumption
  <2> QED  BY <1>3, <1>5, <2>1 DEF HasRatio
<1>7. \A ratio \in Nat : fires * 100 >= hits * ratio => AtLeast(s, ratio)
  <2>1. ASSUME NEW ratio \in Nat, fires * 100 >= hits * ratio  PROVE combined * 100 >= hits * ratio
    <3> DEFINE need == hits * ratio
    <3>1. need \in Nat /\ fires * 100 >= need  BY <2>1
    <3> HIDE DEF need
    <3>2. combined * 100 >= need  BY <1>3, <3>1
    <3> QED  BY <3>2 DEF need
  <2> QED  BY <1>5, <1>6, <2>1 DEF AtLeast
<1>8. EvidenceSaysReject(s)
  <2>1. REJECT_COMBO_RATIO \in Nat /\ REJECT_ABSOLUTE_RATIO \in Nat  BY ReviewAssumption
  <2> QED  BY <1>4, <1>5, <1>7, <2>1 DEF EvidenceSaysReject
<1> QED  BY <1>8 DEF s, combined, wide

-----------------------------------------------------------------------------
(* The invariant of the review                                             *)

ReviewSteps == {"none", "client", "open", "window", "retention", "primary", "combined", "judge", "lock", "over"}
Before == {"client", "open", "window", "retention", "primary"}
Statistics == [hits: Nat, sources: Nat, combined: Int, body: BOOLEAN]
Reviewing == [step: ReviewSteps, rule: Rule \cup {Nothing}, days: Int, upto: SUBSET History,
              stats: Statistics \cup {Nothing}, common: BOOLEAN, excused: BOOLEAN]

\* A review that replays has something to replay.  What is common has been answered, and
\* the answer gives it away; who has no answer at the judge has an excuse.
Sound(r) ==
    /\ r.step \in Before \cup {"combined", "judge", "lock"} => r.rule \in Rule
    /\ r.step \in Before \cup {"combined", "judge"} => Probed(r.rule) # {}
    /\ r.step \in Before => r.stats = Nothing /\ ~r.common
    /\ r.step = "combined" => r.stats \in Statistics /\ ~r.common
    /\ r.step = "judge" => /\ r.stats = Nothing => ~r.common /\ r.excused
                           /\ r.common => EvidenceSaysReject(r.stats)
    /\ r.step = "lock" => ~r.common /\ (r.stats = Nothing /\ Probed(r.rule) # {} => r.excused)

ReviewInv ==
    /\ ReviewTypeOK
    /\ review \in [Reviewers -> Reviewing]
    /\ \A t \in Reviewers : Sound(review[t]) /\ (review[t].step = "open" => guard.tried)
    /\ CommonTrafficStaysOut /\ UnreplayedForAReason

LEMMA StatisticsAreSomething == Nothing \notin Statistics
BY ReviewAssumption DEF Statistics

LEMMA ReviewFields ==
    ASSUME NEW r \in Reviewing, NEW step \in ReviewSteps, NEW days \in Int, NEW upto \in SUBSET History
    PROVE  [r EXCEPT !.step = step, !.days = days, !.upto = upto] \in Reviewing
BY DEF Reviewing

LEMMA NoReviewIsSound == NoReview \in Reviewing /\ Sound(NoReview) /\ NoReview.step = "none"
<1>1. NoReview \in Reviewing  BY DEF NoReview, Reviewing, ReviewSteps
<1>2. Sound(NoReview)  BY DEF NoReview, Sound, Before
<1> QED  BY <1>1, <1>2 DEF NoReview

LEMMA InitReview == ReviewInit => ReviewInv
<1> SUFFICES ASSUME ReviewInit  PROVE ReviewInv  OBVIOUS
<1>1. ReviewTypeOK  BY ReviewAssumption DEF ReviewInit, ReviewTypeOK, NoReview
<1> QED  BY <1>1, NoReviewIsSound DEF ReviewInit, ReviewInv, CommonTrafficStaysOut, UnreplayedForAReason

\* A step of one review that leaves what is written, and the rest as it may be.
LEMMA OneReviewMoves ==
    ASSUME ReviewInv, NEW t \in Reviewers, NEW r \in Reviewing, Sound(r),
           review' = [review EXCEPT ![t] = r], written' = written,
           guard' \in [tried: BOOLEAN, client: BOOLEAN, resolved: BOOLEAN, days: 1..LOOKBACK_DAYS],
           guard'.client => guard'.tried, guard.tried => guard'.tried, r.step = "open" => guard'.tried,
           kept' \subseteq History, reviews' \in 0..MaxReviews, outages' \in 0..MaxOutages
    PROVE  ReviewInv'
<1>1. review' \in [Reviewers -> Reviewing]  BY DEF ReviewInv
<1>2. \A u \in Reviewers : Sound(review'[u]) /\ (review'[u].step = "open" => guard'.tried)  BY DEF ReviewInv
<1>3. \A u \in Reviewers : review'[u].step \in ReviewSteps  BY <1>1 DEF Reviewing
<1>4. ReviewTypeOK'  BY <1>3 DEF ReviewTypeOK, ReviewSteps
<1>5. CommonTrafficStaysOut' /\ UnreplayedForAReason'  BY DEF ReviewInv, CommonTrafficStaysOut, UnreplayedForAReason
<1> QED  BY <1>1, <1>2, <1>4, <1>5 DEF ReviewInv

LEMMA OutageCounts ==
    ASSUME ReviewInv  PROVE /\ outages \in 0..MaxOutages
                            /\ Outage => outages' \in 0..MaxOutages
<1>1. outages \in 0..MaxOutages /\ MaxOutages \in Nat  BY ReviewAssumption DEF ReviewInv, ReviewTypeOK
<1> QED  BY <1>1 DEF Outage

\* What is known of a review in progress.
LEMMA ReviewFacts ==
    ASSUME ReviewInv, NEW t \in Reviewers
    PROVE  /\ review[t] \in Reviewing /\ Sound(review[t]) /\ (review[t].step = "open" => guard.tried)
           /\ guard \in [tried: BOOLEAN, client: BOOLEAN, resolved: BOOLEAN, days: 1..LOOKBACK_DAYS]
           /\ guard.client => guard.tried
           /\ kept \subseteq History /\ reviews \in 0..MaxReviews /\ outages \in 0..MaxOutages
           /\ guard.days \in Int
BY ReviewAssumption DEF ReviewInv, ReviewTypeOK

LEMMA OfferKeeps ==
    ASSUME ReviewInv, NEW t \in Reviewers, NEW generated \in Generated, Offer(t, generated)
    PROVE  ReviewInv'
<1> DEFINE rule == Sanitized(generated)
           r == IF ~Structured(rule) THEN Over
                ELSE [NoReview EXCEPT !.rule = rule, !.step = IF Probed(rule) = {} THEN "lock" ELSE "client"]
<1>1. rule \in Rule  BY ReviewAssumption, SanitizedIsRule
<1>2. /\ review' = [review EXCEPT ![t] = r] /\ written' = written /\ guard' = guard /\ kept' = kept
      /\ outages' = outages /\ reviews < MaxReviews /\ reviews' = reviews + 1
  BY DEF Offer
<1>3. reviews' \in 0..MaxReviews  BY <1>2, ReviewFacts, ReviewAssumption
<1> HIDE DEF rule
<1>4. r \in Reviewing  BY <1>1, NoReviewIsSound DEF Over, Reviewing, ReviewSteps
<1>5. Sound(r)  BY <1>1 DEF Over, NoReview, Sound, Before
<1>6. r.step # "open"  BY NoReviewIsSound DEF Over, Reviewing
<1> HIDE DEF r
<1> QED  BY <1>2, <1>3, <1>4, <1>5, <1>6, ReviewFacts, OneReviewMoves

LEMMA GetEsKeeps == ASSUME ReviewInv, NEW t \in Reviewers, GetEs(t)  PROVE ReviewInv'
<1> DEFINE first == ~guard.client /\ ~guard.tried
           s == review[t]
           r == [s EXCEPT !.step = IF guard.client THEN "window" ELSE IF first THEN "open" ELSE "judge",
                          !.excused = ~guard.client /\ ~first]
<1>1. s \in Reviewing /\ Sound(s) /\ s.step = "client"  BY ReviewFacts DEF GetEs, Step
<1>2. guard.client \in BOOLEAN /\ guard.tried \in BOOLEAN  BY ReviewFacts
<1>3. review' = [review EXCEPT ![t] = r]
  <2>1. (CASE guard.client -> "window" [] first -> "open" [] OTHER -> "judge")
            = IF guard.client THEN "window" ELSE IF first THEN "open" ELSE "judge"
    OBVIOUS
  <2> QED  BY <2>1, ReviewFacts DEF GetEs, ReviewInv
<1>4. /\ written' = written /\ kept' = kept /\ outages' = outages /\ reviews' = reviews
      /\ guard' = [guard EXCEPT !.tried = @ \/ first]
  BY DEF GetEs, Steady
<1>5. r \in Reviewing  BY <1>1, <1>2 DEF Reviewing, ReviewSteps
<1>6. Sound(r)  BY <1>1, <1>2 DEF Reviewing, Sound, Before
<1>7. /\ guard' \in [tried: BOOLEAN, client: BOOLEAN, resolved: BOOLEAN, days: 1..LOOKBACK_DAYS]
      /\ guard'.client => guard'.tried
      /\ guard.tried => guard'.tried
      /\ r.step = "open" => guard'.tried
  BY <1>1, <1>4, ReviewFacts DEF Reviewing
<1> HIDE DEF r, first
<1> QED  BY <1>3, <1>4, <1>5, <1>6, <1>7, ReviewFacts, OneReviewMoves

LEMMA OpenClientKeeps == ASSUME ReviewInv, NEW t \in Reviewers, OpenClient(t)  PROVE ReviewInv'
<1> DEFINE s == review[t]
           r == [s EXCEPT !.step = "window"]
           q == [s EXCEPT !.step = "judge", !.excused = TRUE]
<1>1. s \in Reviewing /\ Sound(s) /\ s.step = "open"  BY ReviewFacts DEF OpenClient, Step
<1>2. written' = written /\ kept' = kept /\ reviews' = reviews  BY DEF OpenClient, Steady
<1>3. r \in Reviewing /\ q \in Reviewing  BY <1>1 DEF Reviewing, ReviewSteps
<1>4. Sound(r) /\ Sound(q)  BY <1>1 DEF Reviewing, Sound, Before
<1>5. CASE guard' = [guard EXCEPT !.client = TRUE] /\ outages' = outages /\ review' = [review EXCEPT ![t] = r]
  <2>1. guard.tried  BY <1>1, ReviewFacts
  <2>2. /\ guard' \in [tried: BOOLEAN, client: BOOLEAN, resolved: BOOLEAN, days: 1..LOOKBACK_DAYS]
        /\ guard'.tried
    BY <2>1, <1>5, ReviewFacts
  <2>3. r.step # "open"  BY <1>1 DEF Reviewing
  <2> HIDE DEF r
  <2> QED  BY <1>2, <1>3, <1>4, <1>5, <2>1, <2>2, <2>3, ReviewFacts, OneReviewMoves
<1>6. CASE Outage /\ guard' = guard /\ review' = [review EXCEPT ![t] = q]
  <2>1. q.step # "open"  BY <1>1 DEF Reviewing
  <2> HIDE DEF q
  <2> QED  BY <1>2, <1>3, <1>4, <1>6, <2>1, OutageCounts, ReviewFacts, OneReviewMoves
<1> QED  BY <1>5, <1>6 DEF OpenClient

LEMMA EffectiveLookbackKeeps == ASSUME ReviewInv, NEW t \in Reviewers, EffectiveLookback(t)  PROVE ReviewInv'
<1> DEFINE s == review[t]
           r == [s EXCEPT !.step = IF guard.resolved THEN "primary" ELSE "retention",
                          !.days = guard.days, !.upto = kept]
<1>1. s \in Reviewing /\ Sound(s) /\ s.step = "window"  BY ReviewFacts DEF EffectiveLookback, Step
<1>2. /\ written' = written /\ kept' = kept /\ reviews' = reviews /\ outages' = outages
      /\ guard' = [guard EXCEPT !.resolved = TRUE] /\ review' = [review EXCEPT ![t] = r]
  BY DEF EffectiveLookback, Steady
<1>3. r \in Reviewing  BY <1>1, ReviewFacts DEF Reviewing, ReviewSteps
<1>4. Sound(r) /\ r.step # "open"  BY <1>1 DEF Reviewing, Sound, Before
<1>5. /\ guard' \in [tried: BOOLEAN, client: BOOLEAN, resolved: BOOLEAN, days: 1..LOOKBACK_DAYS]
      /\ guard'.tried = guard.tried /\ guard'.client = guard.client
  BY <1>2, ReviewFacts
<1> HIDE DEF r
<1> QED  BY <1>2, <1>3, <1>4, <1>5, ReviewFacts, OneReviewMoves

LEMMA ReadRetentionKeeps == ASSUME ReviewInv, NEW t \in Reviewers, ReadRetention(t)  PROVE ReviewInv'
<1> DEFINE s == review[t]
           short == IF retention \in 1..(guard.days - 1) THEN retention ELSE guard.days
           r(days) == [s EXCEPT !.step = "primary", !.days = days, !.upto = kept]
<1>1. s \in Reviewing /\ Sound(s) /\ s.step = "retention"  BY ReviewFacts DEF ReadRetention, Step
<1>2. written' = written /\ kept' = kept /\ reviews' = reviews  BY DEF ReadRetention, Steady
<1>3. guard.days \in 1..LOOKBACK_DAYS /\ short \in 1..LOOKBACK_DAYS  BY ReviewFacts, ReviewAssumption
<1>4. \A days \in 1..LOOKBACK_DAYS : r(days) \in Reviewing /\ Sound(r(days)) /\ r(days).step # "open"
  <2>1. ASSUME NEW days \in 1..LOOKBACK_DAYS  PROVE r(days) \in Reviewing /\ Sound(r(days)) /\ r(days).step # "open"
    <3>0. days \in Int /\ kept \in SUBSET History  BY ReviewFacts, ReviewAssumption
    <3>1. r(days) \in Reviewing  BY <1>1, <3>0 DEF Reviewing, ReviewSteps
    <3>2. Sound(r(days)) /\ r(days).step # "open"  BY <1>1 DEF Reviewing, Sound, Before
    <3> QED  BY <3>1, <3>2
  <2> QED  BY <2>1
<1>5. \/ guard' = [guard EXCEPT !.days = short] /\ review' = [review EXCEPT ![t] = r(short)] /\ outages' = outages
      \/ Outage /\ review' = [review EXCEPT ![t] = r(guard.days)] /\ guard' = guard
  BY DEF ReadRetention
<1> HIDE DEF r, short
<1>6. CASE guard' = [guard EXCEPT !.days = short] /\ review' = [review EXCEPT ![t] = r(short)] /\ outages' = outages
  <2>1. /\ guard' \in [tried: BOOLEAN, client: BOOLEAN, resolved: BOOLEAN, days: 1..LOOKBACK_DAYS]
        /\ guard'.tried = guard.tried /\ guard'.client = guard.client
    BY <1>3, <1>6, ReviewFacts
  <2> QED  BY <1>2, <1>3, <1>4, <1>6, <2>1, ReviewFacts, OneReviewMoves
<1>7. CASE Outage /\ review' = [review EXCEPT ![t] = r(guard.days)] /\ guard' = guard
  BY <1>2, <1>3, <1>4, <1>7, OutageCounts, ReviewFacts, OneReviewMoves
<1> QED  BY <1>5, <1>6, <1>7

\* Requests and sources of batches that Elasticsearch holds are numbers.
LEMMA RequestsAreCounted ==
    ASSUME NEW set, set \subseteq History
    PROVE  Requests(set) \in Nat /\ Cardinality(UNION {b.sources : b \in set}) \in Nat
<1>1. IsFiniteSet(set) /\ \A b \in set : b.count \in Nat /\ IsFiniteSet(b.sources)
  <2>1. set \in SUBSET History  OBVIOUS
  <2> QED  BY <2>1, ReviewAssumption, FS_Subset
<1>2. Requests(set) \in Nat
  <2>1. Counted(set)  BY <1>1 DEF Counted
  <2> QED  BY <2>1, MoreBatchesMoreRequests
<1>3. IsFiniteSet({b.sources : b \in set})
  <2> DEFINE all == {b.sources : b \in set}
             f == [b \in set |-> b.sources]
  <2>1. f \in Surjection(set, all)  BY DEF Surjection
  <2> HIDE DEF all, f
  <2>2. IsFiniteSet(all)  BY <1>1, <2>1, FS_Surjection
  <2> QED  BY <2>2 DEF all
<1>4. IsFiniteSet(UNION {b.sources : b \in set})
  <2> DEFINE all == {b.sources : b \in set}
  <2>1. \A a \in all : IsFiniteSet(a)  BY <1>1
  <2>2. IsFiniteSet(all)  BY <1>3
  <2> HIDE DEF all
  <2>3. IsFiniteSet(UNION all)  BY <2>1, <2>2, FS_UNION
  <2> QED  BY <2>3 DEF all
<1>5. Cardinality(UNION {b.sources : b \in set}) \in Nat  BY <1>4, FS_CardinalityType
<1> QED  BY <1>2, <1>5

LEMMA SearchPrimaryKeeps == ASSUME ReviewInv, NEW t \in Reviewers, SearchPrimary(t)  PROVE ReviewInv'
<1> DEFINE s == review[t]
           found == Carrying(Window(s), {Primary(s.rule)})
           r == Answered(s, found)
           q == [s EXCEPT !.step = "judge", !.excused = TRUE]
<1>1. s \in Reviewing /\ Sound(s) /\ s.step = "primary"  BY ReviewFacts DEF SearchPrimary, Step
<1>2. written' = written /\ kept' = kept /\ reviews' = reviews /\ guard' = guard  BY DEF SearchPrimary, Steady
<1>3. q \in Reviewing /\ Sound(q) /\ q.step # "open"
  <2>1. q \in Reviewing  BY <1>1 DEF Reviewing, ReviewSteps
  <2>2. Sound(q) /\ q.step # "open"  BY <1>1 DEF Reviewing, Sound, Before
  <2> QED  BY <2>1, <2>2
<1>4. found \subseteq History  BY ReviewFacts DEF Carrying, Window
<1>5. r \in Reviewing /\ Sound(r) /\ r.step # "open"
  <2> DEFINE h == Requests(found)
             n == Cardinality(UNION {b.sources : b \in found})
             st == Stats(h, n, -1, Body(s.rule))
             next == IF Others(s.rule) = {} THEN "judge" ELSE "combined"
  <2>1. h \in Nat /\ n \in Nat
    <3> HIDE DEF found
    <3> QED  BY <1>4, RequestsAreCounted
  <2>2. Body(s.rule) \in BOOLEAN  BY DEF Body
  <2>3. st \in Statistics
    <3> HIDE DEF h, n
    <3> QED  BY <2>1, <2>2 DEF Stats, Statistics
  <2>4. r = [s EXCEPT !.stats = st, !.step = next]  BY DEF Answered
  <2>5. next \in {"judge", "combined"}  OBVIOUS
  <2>6. st # Nothing  BY <2>3, StatisticsAreSomething
  <2> HIDE DEF st, next, r
  <2>7. r \in Reviewing  BY <1>1, <2>3, <2>4, <2>5 DEF Reviewing, ReviewSteps
  <2>8. Sound(r) /\ r.step # "open"  BY <1>1, <2>3, <2>4, <2>5, <2>6 DEF Reviewing, Sound, Before
  <2> QED  BY <2>7, <2>8
<1>6. \/ review' = [review EXCEPT ![t] = r] /\ outages' = outages
      \/ Outage /\ review' = [review EXCEPT ![t] = q]
  BY DEF SearchPrimary
<1> HIDE DEF r, q
<1>7. CASE review' = [review EXCEPT ![t] = r] /\ outages' = outages
  BY <1>2, <1>5, <1>7, ReviewFacts, OneReviewMoves
<1>8. CASE Outage /\ review' = [review EXCEPT ![t] = q]
  BY <1>2, <1>3, <1>8, OutageCounts, ReviewFacts, OneReviewMoves
<1> QED  BY <1>6, <1>7, <1>8

LEMMA SearchCombinedKeeps == ASSUME ReviewInv, NEW t \in Reviewers, SearchCombined(t)  PROVE ReviewInv'
<1> DEFINE s == review[t]
           all == {Primary(s.rule)} \cup Others(s.rule)
           n == Requests(Carrying(Window(s), all))
           common == Common(s.rule, Window(s), s.stats.hits, s.stats.sources)
           r == [s EXCEPT !.stats.combined = n, !.common = common, !.step = "judge"]
           q == [s EXCEPT !.step = "judge"]
<1>1. s \in Reviewing /\ Sound(s) /\ s.step = "combined"  BY ReviewFacts DEF SearchCombined, Step
<1>2. s.stats \in Statistics /\ s.rule \in Rule /\ Probed(s.rule) # {} /\ ~s.common  BY <1>1 DEF Sound
<1>3. written' = written /\ kept' = kept /\ reviews' = reviews /\ guard' = guard  BY DEF SearchCombined, Steady
<1>4. Window(s) \subseteq History  BY ReviewFacts DEF Window
<1>5. n \in Nat
  <2>1. Carrying(Window(s), all) \subseteq History  BY <1>4 DEF Carrying
  <2> QED  BY <2>1, RequestsAreCounted
<1>6. q \in Reviewing /\ Sound(q) /\ q.step # "open"
  <2>1. q \in Reviewing  BY <1>1 DEF Reviewing, ReviewSteps
  <2>2. s.stats # Nothing  BY <1>2, StatisticsAreSomething
  <2>3. Sound(q) /\ q.step # "open"  BY <1>1, <1>2, <2>2 DEF Reviewing, Sound, Before
  <2> QED  BY <2>1, <2>3
<1>7. r \in Reviewing /\ Sound(r) /\ r.step # "open"
  <2> DEFINE st == [s.stats EXCEPT !.combined = n]
  <2>1. common => EvidenceSaysReject(st)
    <3>1. SUFFICES ASSUME common  PROVE EvidenceSaysReject(st)  OBVIOUS
    <3>2. s.stats.hits \in Nat /\ s.stats.sources \in Nat  BY <1>2 DEF Statistics
    <3>3. EvidenceSaysReject(Stats(s.stats.hits, s.stats.sources, n, s.stats.body))
      BY <1>2, <1>4, <3>1, <3>2, CommonIsEvident
    <3>4. st = Stats(s.stats.hits, s.stats.sources, n, s.stats.body)
      <4> HIDE DEF n
      <4> QED  BY <1>2 DEF Stats, Statistics
    <3> HIDE DEF st, n
    <3> QED  BY <3>3, <3>4
  <2>2. st \in Statistics
    <3> HIDE DEF n
    <3> QED  BY <1>2, <1>5 DEF Statistics
  <2>3. st # Nothing  BY <2>2, StatisticsAreSomething
  <2>4. common \in BOOLEAN  BY DEF Common
  <2>5. r = [s EXCEPT !.stats = st, !.common = common, !.step = "judge"]
    <3> HIDE DEF n, common
    <3> QED  BY <1>1, <1>2 DEF Reviewing
  <2> HIDE DEF st, common, r
  <2>6. r \in Reviewing  BY <1>1, <2>2, <2>4, <2>5 DEF Reviewing, ReviewSteps
  <2>7. Sound(r) /\ r.step # "open"  BY <1>1, <2>1, <2>3, <2>5 DEF Reviewing, Sound, Before
  <2> QED  BY <2>6, <2>7
<1>8. \/ review' = [review EXCEPT ![t] = r] /\ outages' = outages
      \/ Outage /\ review' = [review EXCEPT ![t] = q]
  BY DEF SearchCombined
<1> HIDE DEF r, q
<1>9. CASE review' = [review EXCEPT ![t] = r] /\ outages' = outages
  BY <1>3, <1>7, <1>9, ReviewFacts, OneReviewMoves
<1>10. CASE Outage /\ review' = [review EXCEPT ![t] = q]
  BY <1>3, <1>6, <1>10, OutageCounts, ReviewFacts, OneReviewMoves
<1> QED  BY <1>8, <1>9, <1>10

LEMMA JudgeKeeps == ASSUME ReviewInv, NEW t \in Reviewers, Judge(t)  PROVE ReviewInv'
<1> DEFINE s == review[t]
           refuted == s.stats # Nothing /\ EvidenceSaysReject(s.stats)
           q == [s EXCEPT !.step = "lock", !.days = 0, !.upto = {}]
<1>1. s \in Reviewing /\ Sound(s) /\ s.step = "judge"  BY ReviewFacts DEF Judge, Step
<1>2. PICK opinion \in JudgeOpinions :
         review' = [review EXCEPT ![t] = IF refuted \/ opinion = "reject" THEN Over ELSE q]
  BY DEF Judge
<1>3. written' = written /\ kept' = kept /\ reviews' = reviews /\ guard' = guard /\ outages' = outages
  BY DEF Judge, Steady
<1>4. Over \in Reviewing /\ Sound(Over) /\ Over.step # "open"
  <2>1. Over \in Reviewing /\ Over.step = "over"  BY NoReviewIsSound DEF Over, Reviewing, ReviewSteps
  <2>2. Sound(Over)  BY <2>1 DEF Sound, Before
  <2> QED  BY <2>1, <2>2
<1>5. ~refuted => q \in Reviewing /\ Sound(q) /\ q.step # "open"
  <2>1. q \in Reviewing
    <3>1. 0 \in Int /\ {} \in SUBSET History /\ "lock" \in ReviewSteps  BY DEF ReviewSteps
    <3> QED  BY <1>1, <3>1, ReviewFields
  <2>2. ~refuted => ~s.common  BY <1>1 DEF Sound
  <2>3. ~refuted => Sound(q) /\ q.step # "open"  BY <1>1, <2>2 DEF Reviewing, Sound, Before
  <2> QED  BY <2>1, <2>3
<1> HIDE DEF q, refuted
<1>6. CASE refuted \/ opinion = "reject"  BY <1>2, <1>3, <1>4, <1>6, ReviewFacts, OneReviewMoves
<1>7. CASE ~(refuted \/ opinion = "reject")  BY <1>2, <1>3, <1>5, <1>7, ReviewFacts, OneReviewMoves
<1> QED  BY <1>6, <1>7

LEMMA WriteRuleKeeps == ASSUME ReviewInv, NEW t \in Reviewers, WriteRule(t)  PROVE ReviewInv'
<1> DEFINE s == review[t]
           line == [rule |-> s.rule, stats |-> s.stats, common |-> s.common, excused |-> s.excused]
<1>1. s \in Reviewing /\ Sound(s) /\ s.step = "lock"  BY ReviewFacts DEF WriteRule, Step
<1>2. kept' = kept /\ reviews' = reviews /\ guard' = guard /\ review' = [review EXCEPT ![t] = Over]
  BY DEF WriteRule, Steady
<1>3. Over \in Reviewing /\ Sound(Over) /\ Over.step # "open" /\ Over.step \in ReviewSteps
  <2>1. Over \in Reviewing /\ Over.step = "over"  BY NoReviewIsSound DEF Over, Reviewing, ReviewSteps
  <2>2. Sound(Over)  BY <2>1 DEF Sound, Before
  <2> QED  BY <2>1, <2>2 DEF ReviewSteps
<1>4. written' = written \/ written' = written \cup {line}  BY DEF WriteRule
<1>5. outages' \in 0..MaxOutages  BY OutageCounts DEF WriteRule
<1>6. ~line.common /\ (line.stats = Nothing /\ Probed(line.rule) # {} => line.excused)  BY <1>1 DEF Sound
<1>7. CommonTrafficStaysOut' /\ UnreplayedForAReason'
  <2> HIDE DEF line
  <2> QED  BY <1>4, <1>6 DEF ReviewInv, CommonTrafficStaysOut, UnreplayedForAReason
<1>8. review' \in [Reviewers -> Reviewing]  BY <1>2, <1>3 DEF ReviewInv
<1>9. \A u \in Reviewers : Sound(review'[u]) /\ (review'[u].step = "open" => guard'.tried)
  BY <1>2, <1>3 DEF ReviewInv
<1>10. \A u \in Reviewers : review'[u].step \in ReviewSteps  BY <1>8 DEF Reviewing
<1>11. ReviewTypeOK'  BY <1>2, <1>5, <1>10 DEF ReviewInv, ReviewTypeOK, ReviewSteps
<1> QED  BY <1>7, <1>8, <1>9, <1>11 DEF ReviewInv

\* Neither the settings nor the cleaning of the history touch a review.
LEMMA OthersKeep == ASSUME ReviewInv, SetRetention \/ CleanHistory \/ UNCHANGED reviewVars  PROVE ReviewInv'
<1>1. review' = review /\ written' = written /\ guard' = guard /\ reviews' = reviews
  BY DEF SetRetention, CleanHistory, reviewVars
<1>2. kept' \subseteq History  BY DEF SetRetention, CleanHistory, reviewVars, ReviewInv, ReviewTypeOK
<1>3. outages' \in 0..MaxOutages  BY OutageCounts DEF SetRetention, CleanHistory, reviewVars
<1>4. ReviewTypeOK'  BY <1>1, <1>2, <1>3 DEF ReviewInv, ReviewTypeOK
<1> QED  BY <1>1, <1>4 DEF ReviewInv, CommonTrafficStaysOut, UnreplayedForAReason

\* The invariant: every review is Sound, and so is what was written.
THEOREM ReviewInvariant == ReviewSpec => []ReviewInv
<1>1. ReviewInit => ReviewInv  BY InitReview
<1>2. ReviewInv /\ [ReviewNext]_reviewVars => ReviewInv'
  <2> SUFFICES ASSUME ReviewInv, [ReviewNext]_reviewVars  PROVE ReviewInv'  OBVIOUS
  <2>1. ASSUME NEW t \in Reviewers,
               \/ \E rule \in Generated : Offer(t, rule)
               \/ GetEs(t) \/ OpenClient(t) \/ EffectiveLookback(t) \/ ReadRetention(t)
               \/ SearchPrimary(t) \/ SearchCombined(t) \/ Judge(t) \/ WriteRule(t)
        PROVE  ReviewInv'
    BY <2>1, OfferKeeps, GetEsKeeps, OpenClientKeeps, EffectiveLookbackKeeps, ReadRetentionKeeps,
       SearchPrimaryKeeps, SearchCombinedKeeps, JudgeKeeps, WriteRuleKeeps
  <2> QED  BY <2>1, OthersKeep DEF ReviewNext
<1> QED  BY <1>1, <1>2, PTL DEF ReviewSpec

\* A rule that would have alerted on common traffic is not written once the replay has
\* been answered, whatever the second model says (fp_guard.py, review).
THEOREM CommonRulesStayOut == ReviewSpec => []CommonTrafficStaysOut
<1>1. ReviewInv => CommonTrafficStaysOut  BY DEF ReviewInv
<1> QED  BY <1>1, ReviewInvariant, PTL

\* A rule goes in unreplayed only if a search of its own failed or the client was missing
\* when it asked (fp_guard.py, _get_es and _replay).
THEOREM UnreplayedRulesAreExcused == ReviewSpec => []UnreplayedForAReason
<1>1. ReviewInv => UnreplayedForAReason  BY DEF ReviewInv
<1> QED  BY <1>1, ReviewInvariant, PTL

\* The guard, the history kept and the steps of the reviews have their types.
THEOREM ReviewTyped == ReviewSpec => []ReviewTypeOK
<1>1. ReviewInv => ReviewTypeOK  BY DEF ReviewInv
<1> QED  BY <1>1, ReviewInvariant, PTL

-----------------------------------------------------------------------------
(* The search for missed attacks                                           *)

\* The related logs are candidates, and no two of them have the same id.
LogsInv ==
    /\ logs \in Seq(Candidates)
    /\ \A n, k \in DOMAIN logs : logs[n].id = logs[k].id => n = k

\* In every reachable state the logs have different ids.
LEMMA LogsInvInvariant == MissedSpec => []LogsInv
<1>1. MissedInit => LogsInv  BY DEF MissedInit, LogsInv
<1>2. LogsInv /\ [MissedNext]_missedVars => LogsInv'
  <2>1. SUFFICES ASSUME LogsInv, [MissedNext]_missedVars  PROVE LogsInv'  OBVIOUS
  <2>2. CASE UNCHANGED missedVars  BY <2>1, <2>2 DEF LogsInv, missedVars
  <2>3. ASSUME NEW log \in Candidates, AddLog(log)  PROVE LogsInv'
    BY <2>1, <2>3 DEF LogsInv, AddLog
  <2>4. ASSUME NEW said, QueryAnalyses(said)  PROVE LogsInv'
    BY <2>1, <2>4 DEF LogsInv, QueryAnalyses
  <2> QED  BY <2>1, <2>2, <2>3, <2>4 DEF MissedNext
<1> QED  BY <1>1, <1>2, PTL DEF MissedSpec

\* A length within the tolerance of a sample is near it.
LEMMA WithinTolerance ==
    ASSUME NEW length \in Nat, NEW sample \in Nat,
           length \in (sample - Tolerance(sample))..(sample + Tolerance(sample))
    PROVE  About(length, sample)
<1>1. sample \div 5 \in Nat /\ 5 * (sample \div 5) <= sample  OBVIOUS
<1> DEFINE t == sample \div 5
<1>2. CASE t > 10
  <2>1. Tolerance(sample) = t  BY <1>2 DEF Tolerance
  <2>2. length - sample <= t /\ sample - length <= t  BY <2>1, <1>1
  <2> HIDE DEF t
  <2> QED  BY <2>2, <1>1 DEF t, About
<1>3. CASE ~(t > 10)
  <2>1. Tolerance(sample) = 10  BY <1>3 DEF Tolerance
  <2> QED  BY <2>1 DEF About
<1> QED  BY <1>2, <1>3

\* What is found comes from one of the logs.
LEMMA FoundFromLog ==
    ASSUME NEW item \in Found
    PROVE  \E n \in DOMAIN logs : Missed(logs[n], logs) /\ item = Item(logs[n], logs, failed)
BY DEF Found, FindUnalerted

\* The log of an item is the one that it was made of.
LEMMA LogIsUnique ==
    ASSUME LogsInv, NEW n \in DOMAIN logs
    PROVE  Log(logs[n].id) = logs[n]
<1>1. Range(logs) = {logs[k] : k \in DOMAIN logs}  BY DEF Range
<1>2. logs[n] \in Range(logs)  BY <1>1
<1>3. ASSUME NEW log \in Range(logs), log.id = logs[n].id  PROVE log = logs[n]
  <2>1. PICK k \in DOMAIN logs : log = logs[k]  BY <1>1, <1>3
  <2> QED  BY <2>1, <1>3 DEF LogsInv
<1> DEFINE P(log) == log \in Range(logs) /\ log.id = logs[n].id
<1>4. P(logs[n])  BY <1>2
<1>5. P(CHOOSE log : P(log))  BY <1>4, Zenon
<1>6. Log(logs[n].id) = CHOOSE log \in Range(logs) : log.id = logs[n].id  BY DEF Log
<1>7. \A log \in Range(logs) : log.id = logs[n].id => log = logs[n]  BY <1>3
<1> QED  BY <1>2, <1>6, <1>7

\* A reason why an answer of 200 is called failed: a log whose answer is of about its length.
LEMMA FailedByASample ==
    ASSUME NEW log, log.status = 200, NEW ls, NEW bad, Judgement(log, ls, bad) = "failed"
    PROVE  /\ log.kind = "http"
           /\ \E n \in DOMAIN ls :
                /\ IsSample(ls[n], bad)
                /\ log.length \in (ls[n].length - Tolerance(ls[n].length))..(ls[n].length + Tolerance(ls[n].length))
<1>1. log.kind = "http" /\ log.length > 0  BY DEF Judgement
<1>2. Prejudge(log.status, log.length, Baseline(ls, bad)) = "failed"  BY <1>1 DEF Judgement
<1>3. 200 \notin Rejected /\ 200 # 0  BY DEF Rejected
<1>4. \E r \in Baseline(ls, bad) : log.length \in r.min..r.max  BY <1>2, <1>3 DEF Prejudge
<1>5. PICK r \in Baseline(ls, bad) : log.length \in r.min..r.max  BY <1>4
<1>6. PICK n \in {k \in DOMAIN ls : IsSample(ls[k], bad)} :
        r = [min |-> ls[n].length - Tolerance(ls[n].length), max |-> ls[n].length + Tolerance(ls[n].length)]
  BY <1>5 DEF Baseline
<1> QED  BY <1>1, <1>5, <1>6

\* The sample of about its length that calls an attack failed is another log.
LEMMA FailedForAReasonHolds == LogsInv => FailedForAReason
<1>1. SUFFICES ASSUME LogsInv, NEW item \in Found, item.judgement = "failed", Log(item.id).status = 200
      PROVE \E other \in Range(logs) :
              /\ other.id # Log(item.id).id
              /\ other.kind = "alert" \/ Attacks(other) = {}
              /\ About(Log(item.id).length, other.length)
  BY DEF FailedForAReason
<1>2. PICK m \in DOMAIN logs : Missed(logs[m], logs) /\ item = Item(logs[m], logs, failed)  BY FoundFromLog
<1>3. item.id = logs[m].id /\ item.judgement = Judgement(logs[m], logs, failed)  BY <1>2 DEF Item
<1>4. Log(item.id) = logs[m]  BY <1>1, <1>3, LogIsUnique
<1>5. Judgement(logs[m], logs, failed) = "failed" /\ logs[m].status = 200  BY <1>1, <1>3, <1>4
<1>6. logs[m].kind = "http"  BY <1>5, FailedByASample
<1>7. PICK n \in DOMAIN logs :
        /\ IsSample(logs[n], failed)
        /\ logs[m].length \in (logs[n].length - Tolerance(logs[n].length))..(logs[n].length + Tolerance(logs[n].length))
  BY <1>5, FailedByASample
<1>8. Attacks(logs[m]) # {} /\ Attacks(logs[m]) = HttpAttacks(logs[m])  BY <1>2, <1>6 DEF Missed, Attacks
<1>9. logs[n].kind = "alert" \/ (logs[n].kind = "http" /\ HttpAttacks(logs[n]) = {})  BY <1>7 DEF IsSample
<1>10. n # m  BY <1>6, <1>8, <1>9
<1>11. logs[n].id # logs[m].id  BY <1>1, <1>10 DEF LogsInv
<1>12. logs[n].kind = "alert" \/ Attacks(logs[n]) = {}  BY <1>9 DEF Attacks
<1>13. logs[n].length \in Nat /\ logs[m].length \in Nat
  <2>1. logs[n] \in Candidates /\ logs[m] \in Candidates  BY <1>1 DEF LogsInv
  <2> QED  BY <2>1, DetectionAssumption
<1>14. About(logs[m].length, logs[n].length)
  BY <1>7, <1>13, WithinTolerance
<1>15. logs[n] \in Range(logs)  BY DEF Range
<1> QED  BY <1>4, <1>11, <1>12, <1>14, <1>15

\* attack_detector.py, _calculate_session_baseline: whatever the related logs and their order, an
\* attack that got its page is called failed only for the length of another, harmless or failed, answer.
THEOREM EveryFailureHasAReason == MissedSpec => []FailedForAReason
BY LogsInvInvariant, FailedForAReasonHolds, PTL

\* An attack that was called failed and is not any more has lost a sample of about its length.
LEMMA JudgementLost ==
    ASSUME NEW ls, NEW lsn, NEW bad, NEW badn, NEW log,
           \A n \in DOMAIN ls : n \in DOMAIN lsn /\ lsn[n] = ls[n],
           Judgement(log, ls, bad) = "failed", Judgement(log, lsn, badn) # "failed"
    PROVE  \E n \in DOMAIN ls :
              /\ IsSample(ls[n], bad) /\ ~IsSample(ls[n], badn)
              /\ log.length \in (ls[n].length - Tolerance(ls[n].length))..(ls[n].length + Tolerance(ls[n].length))
<1>1. log.kind = "http" /\ log.length > 0  BY DEF Judgement
<1>2. Prejudge(log.status, log.length, Baseline(ls, bad)) = "failed"  BY <1>1 DEF Judgement
<1>3. Prejudge(log.status, log.length, Baseline(lsn, badn)) # "failed"  BY <1>1 DEF Judgement
<1>4. log.status = 200
  <2>1. log.status # 0  BY <1>2 DEF Prejudge, Rejected
  <2>2. log.status \notin Rejected  BY <1>3, <2>1 DEF Prejudge, Rejected
  <2> QED  BY <1>2, <2>1, <2>2 DEF Prejudge
<1>5. PICK n \in DOMAIN ls :
        /\ IsSample(ls[n], bad)
        /\ log.length \in (ls[n].length - Tolerance(ls[n].length))..(ls[n].length + Tolerance(ls[n].length))
  BY <1>4, FailedByASample
<1>6. ASSUME IsSample(ls[n], badn)  PROVE FALSE
  <2>1. n \in DOMAIN lsn /\ lsn[n] = ls[n] /\ IsSample(lsn[n], badn)  BY <1>6
  <2> DEFINE r == [min |-> lsn[n].length - Tolerance(lsn[n].length), max |-> lsn[n].length + Tolerance(lsn[n].length)]
  <2>2. r \in Baseline(lsn, badn)  BY <2>1 DEF Baseline
  <2>3. log.length \in r.min..r.max  BY <1>5, <2>1
  <2> HIDE DEF r
  <2>4. 200 # 0 /\ 200 \notin Rejected  BY DEF Rejected
  <2>5. Prejudge(log.status, log.length, Baseline(lsn, badn)) = "failed"  BY <1>4, <2>2, <2>3, <2>4 DEF Prejudge
  <2> QED  BY <1>3, <2>5
<1> QED  BY <1>5, <1>6

\* A step that brings back the doubt takes back what was said of an alert.
LEMMA DoubtReturnsInAStep ==
    ASSUME LogsInv, LogsInv', [MissedNext]_missedVars,
           NEW old \in Found, NEW new \in Found', new.id = old.id, old.judgement = "failed", new.judgement # "failed"
    PROVE  \E alert \in Range(logs) : /\ alert.kind = "alert" /\ alert.status = 200
                                      /\ alert.id \in failed \ failed'
                                      /\ About(Log(old.id).length, alert.length)
<1>1. PICK m \in DOMAIN logs : old = Item(logs[m], logs, failed)  BY FoundFromLog
<1>2. PICK k \in DOMAIN logs' : new = Item(logs'[k], logs', failed')  BY DEF Found, FindUnalerted
<1>3. \A n \in DOMAIN logs : n \in DOMAIN logs' /\ logs'[n] = logs[n]
  BY DEF MissedNext, missedVars, AddLog, QueryAnalyses, LogsInv
<1>4. old.id = logs[m].id /\ old.judgement = Judgement(logs[m], logs, failed)  BY <1>1 DEF Item
<1>5. new.id = logs'[k].id /\ new.judgement = Judgement(logs'[k], logs', failed')  BY <1>2 DEF Item
<1>6. k = m  BY <1>3, <1>4, <1>5 DEF LogsInv
<1>7. Judgement(logs[m], logs, failed) = "failed" /\ Judgement(logs[m], logs', failed') # "failed"
  BY <1>3, <1>4, <1>5, <1>6
<1>8. PICK n \in DOMAIN logs :
        /\ IsSample(logs[n], failed) /\ ~IsSample(logs[n], failed')
        /\ logs[m].length \in (logs[n].length - Tolerance(logs[n].length))..(logs[n].length + Tolerance(logs[n].length))
  BY <1>3, <1>7, JudgementLost
<1>9. logs[n].kind = "alert" /\ logs[n].status = 200 /\ logs[n].id \in failed \ failed'  BY <1>8 DEF IsSample
<1>10. logs[n].length \in Nat /\ logs[m].length \in Nat
  <2>1. logs[n] \in Candidates /\ logs[m] \in Candidates  BY DEF LogsInv
  <2> QED  BY <2>1, DetectionAssumption
<1>11. About(logs[m].length, logs[n].length)  BY <1>8, <1>10, WithinTolerance
<1>12. Log(old.id) = logs[m]  BY <1>4, LogIsUnique
<1>13. logs[n] \in Range(logs)  BY DEF Range
<1> QED  BY <1>9, <1>11, <1>12, <1>13

\* attack_detector.py, _calculate_session_baseline: an attack that is called failed is doubted
\* again only when the analyses no longer call an alert of about its length failed.
THEOREM DoubtNeedsAReason == MissedSpec => DoubtReturnsForAReason
<1> DEFINE ForAReason ==
      \A old \in Found, new \in Found' :
          new.id = old.id /\ old.judgement = "failed" /\ new.judgement # "failed" =>
              \E alert \in Range(logs) : /\ alert.kind = "alert" /\ alert.status = 200
                                        /\ alert.id \in failed \ failed'
                                        /\ About(Log(old.id).length, alert.length)
<1>1. LogsInv /\ LogsInv' /\ [MissedNext]_missedVars => [ForAReason]_missedVars  BY DoubtReturnsInAStep
<1> HIDE DEF ForAReason
<1>2. MissedSpec => [][ForAReason]_missedVars  BY <1>1, LogsInvInvariant, PTL DEF MissedSpec
<1> QED  BY <1>2 DEF DoubtReturnsForAReason, ForAReason
=============================================================================
