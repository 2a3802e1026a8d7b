----------------------------- MODULE AlertAnalysis -----------------------------
(***************************************************************************)
(* POST /api/alert: Logstash's workers push alerts side by side.  The      *)
(* handler looks the alert up in the process's dedup cache, then runs the  *)
(* analysis in a thread, and back in the event loop writes the result and  *)
(* records it in the cache.  Between lookup and record other alerts come   *)
(* and go; everything else of the handler is one step of the event loop.   *)
(***************************************************************************)
EXTENDS Integers, Sequences, FiniteSets

CONSTANTS
    Flows, Rules, Sources,  \* community ids, signature ids, source addresses
    Lacking,                   \* "" or 0 in an alert; no call
    Alerts,                 \* the alerts that are pushed, again and again
    Handlers,               \* the pushes open at a time: Logstash has eight workers
    MAX_ENTRIES,            \* of the cache
    CLEANUP_EVERY,          \* lookups between two cleanups
    MaxAnalyses             \* bound: analyses recorded over a behaviour

Alert == [flow: Flows \cup {Lacking}, rule: Rules \cup {Lacking}, source: Sources \cup {Lacking}]

ASSUME AnalysisAssumption ==
    /\ Alerts \subseteq Alert
    /\ Lacking \notin Flows \cup Rules \cup Sources \cup Alert
    /\ IsFiniteSet(Handlers)
    /\ MAX_ENTRIES \in Nat \ {0} /\ CLEANUP_EVERY \in Nat \ {0} /\ MaxAnalyses \in Nat

VARIABLES
    cache,      \* OrderedDict: its entries [key, stamp]
    ahead,      \* its order: <<k, l>> if k is to be evicted before l
    accesses,   \* lookups since the last cleanup
    horizon,    \* entries recorded up to this one are older than dedup_window
    calls,      \* of each handler: the alert in analysis, Lacking when idle
    done,       \* history: the alerts recorded, in order; their index is the stamp
    lost        \* history: those of them whose entries were evicted, or lost in a restart

analysisVars == <<cache, ahead, accesses, horizon, calls, done, lost>>

now == Len(done)

AnalysisInit ==
    /\ cache = {} /\ ahead = {} /\ accesses = 0 /\ horizon = 0
    /\ calls = [h \in Handlers |-> Lacking]
    /\ done = << >> /\ lost = {}

-----------------------------------------------------------------------------
(* AlertDeduplicator                                                       *)

ExactKey(a) == <<"exact", a.flow, a.rule>>
IpKey(a)    == <<"ip", a.source, a.rule>>
FlowKey(a)  == <<"flow", a.flow, Lacking>>

AlertKeys(a) ==
    (IF a.flow = Lacking THEN {} ELSE {ExactKey(a), FlowKey(a)})
        \cup (IF a.source = Lacking THEN {} ELSE {IpKey(a)})

\* The order of the keys in check, and in record.
CheckOrder  == [exact |-> 1, ip |-> 2, flow |-> 3]
RecordOrder == [exact |-> 1, flow |-> 2, ip |-> 3]

KeysOf(c) == {e.key : e \in c}

\* Mutation: an entry lives on when the window has just passed.
FreshLate(e) == e.stamp >= horizon
Fresh(e) == e.stamp > horizon

CleanupDue == accesses + 1 = CLEANUP_EVERY
Cleaned == {e \in cache : CleanupDue => Fresh(e)}

\* The first key with a live entry decides; expired ones met before it go.
Hits(a) == {k \in AlertKeys(a) : \E e \in Cleaned : e.key = k /\ Fresh(e)}
Known(a) == a.rule # Lacking /\ Hits(a) # {}
FirstHit(a) == {k \in Hits(a) : \A l \in Hits(a) : CheckOrder[k[1]] <= CheckOrder[l[1]]}
Expired(a) == {k \in AlertKeys(a) : \A l \in Hits(a) : CheckOrder[k[1]] < CheckOrder[l[1]]}

\* The order of the keys that are left, with the hit moved to the end.
ToEnd(order, keys, last) ==
    {p \in order : p[1] \in keys \ last /\ p[2] \in keys} \cup ((keys \ last) \X last)

Check(a) ==
    IF a.rule = Lacking THEN UNCHANGED <<cache, ahead, accesses>>
    ELSE /\ cache' = {e \in Cleaned : e.key \notin Expired(a)}
         /\ ahead' = ToEnd(ahead, KeysOf(cache'), FirstHit(a))
         /\ accesses' = (accesses + 1) % CLEANUP_EVERY

\* Mutation: an entry that is there is left as it is.
PutOnce(c, keys) == c \cup {[key |-> k, stamp |-> now + 1] : k \in keys \ KeysOf(c)}
Put(c, keys) == {e \in c : e.key \notin keys} \cup {[key |-> k, stamp |-> now + 1] : k \in keys}

\* A key that is there keeps its place; new ones queue up.
Queued(order, old, new) ==
    order \cup (old \X new) \cup {p \in new \X new : RecordOrder[p[1][1]] < RecordOrder[p[2][1]]}

\* As many as are too many, from the front.
Evicted(c, order) ==
    {k \in KeysOf(c) : Cardinality({l \in KeysOf(c) : <<l, k>> \in order}) + MAX_ENTRIES < Cardinality(c)}

\* Mutation: nothing is recorded.
RecordedNone(a) == {}
Recorded(a) == IF a.rule = Lacking THEN {} ELSE AlertKeys(a)

Record(a) ==
    LET keys  == Recorded(a)
        c     == Put(cache, keys)
        order == Queued(ahead, KeysOf(cache), keys \ KeysOf(cache))
        gone  == Evicted(c, order)
    IN  /\ cache' = {e \in c : e.key \notin gone}
        /\ ahead' = ToEnd(order, KeysOf(c) \ gone, {})
        /\ done' = Append(done, a)
        /\ lost' = lost \cup {s \in 1..(now + 1) : gone \cap AlertKeys(done'[s]) # {}}

-----------------------------------------------------------------------------
(* analyze_alert                                                           *)

Deduplicate(a) ==
    /\ Known(a)
    /\ Check(a)
    /\ UNCHANGED <<horizon, calls, done, lost>>

\* An allow-list rule covers the alert.
Bypass(a) ==
    /\ ~Known(a)
    /\ Check(a)
    /\ UNCHANGED <<horizon, calls, done, lost>>

Analyze(h, a) ==
    /\ calls[h] = Lacking
    /\ ~Known(a)
    /\ Check(a)
    /\ calls' = [calls EXCEPT ![h] = a]
    /\ UNCHANGED <<horizon, done, lost>>

\* The result is recorded whether or not Elasticsearch took it.
Finish(h) ==
    /\ calls[h] # Lacking
    /\ now < MaxAnalyses
    /\ Record(calls[h])
    /\ calls' = [calls EXCEPT ![h] = Lacking]
    /\ UNCHANGED <<accesses, horizon>>

\* analyze() raised: 500, and Logstash does not retry.
AnalysisFails(h) ==
    /\ calls[h] # Lacking
    /\ calls' = [calls EXCEPT ![h] = Lacking]
    /\ UNCHANGED <<cache, ahead, accesses, horizon, done, lost>>

\* Time passes.
Age ==
    /\ horizon < now
    /\ horizon' = horizon + 1
    /\ UNCHANGED <<cache, ahead, accesses, calls, done, lost>>

\* The cache is the process's.
RestartAnalyzer ==
    /\ cache' = {} /\ ahead' = {} /\ accesses' = 0
    /\ calls' = [h \in Handlers |-> Lacking]
    /\ lost' = 1..now
    /\ UNCHANGED <<horizon, done>>

AnalysisNext ==
    \/ \E a \in Alerts : Deduplicate(a) \/ Bypass(a)
    \/ \E h \in Handlers : (\E a \in Alerts : Analyze(h, a)) \/ Finish(h) \/ AnalysisFails(h)
    \/ Age \/ RestartAnalyzer

AnalysisSpec == AnalysisInit /\ [][AnalysisNext]_analysisVars

-----------------------------------------------------------------------------
(* Properties                                                              *)

Key == ({"exact"} \X Flows \X Rules) \cup ({"ip"} \X Sources \X Rules) \cup ({"flow"} \X Flows \X {Lacking})

\* Types; no key is twice in the cache, the cache keeps to its limit, and of two of its
\* keys one is ahead of the other.
AnalysisTypeOK ==
    /\ cache \subseteq [key: Key, stamp: 1..now]
    /\ \A d, e \in cache : d.key = e.key => d = e
    /\ Cardinality(cache) <= MAX_ENTRIES
    /\ ahead \subseteq KeysOf(cache) \X KeysOf(cache)
    /\ \A k, l \in KeysOf(cache) : (<<k, l>> \in ahead) # (k = l \/ <<l, k>> \in ahead)
    /\ accesses \in 0..(CLEANUP_EVERY - 1)
    /\ horizon \in 0..now
    /\ calls \in [Handlers -> Alerts \cup {Lacking}]
    /\ done \in Seq(Alerts) /\ now <= MaxAnalyses
    /\ lost \subseteq 1..now

SameFlow(a, b) == a.flow # Lacking /\ a.flow = b.flow
SameScan(a, b) == a.source # Lacking /\ a.source = b.source /\ a.rule = b.rule
Alike(a, b) == a.rule # Lacking /\ b.rule # Lacking /\ (SameFlow(a, b) \/ SameScan(a, b))

\* An alert is dropped as a duplicate only if one of its flow, or of its rule
\* and source, was analysed within the window: alerts without a flow, a source
\* or a rule never stand for each other, and an old analysis suppresses nothing.
DroppedWithReason ==
    \A a \in Alerts : Known(a) => \E s \in (horizon + 1)..now : Alike(done[s], a)

\* The lookup finds every analysis within the window that was recorded by then,
\* however entries were moved, overwritten and cleaned up, unless they fell
\* to the cache's limit or to a restart.
LookupIsComplete ==
    \A a \in Alerts, s \in (horizon + 1)..now : Alike(done[s], a) /\ s \notin lost => Known(a)

Repeats(s) ==
    {u \in (horizon + 1)..now : /\ u \notin lost /\ done[u].rule = done[s].rule
                                /\ SameFlow(done[u], done[s])}

\* Lookup and record are two steps, so a rule may be analysed several times for
\* one flow within the window, but only by analyses under way together.
RepeatsBounded ==
    \A s \in 1..now : done[s].rule # Lacking => Cardinality(Repeats(s)) <= Cardinality(Handlers)
=============================================================================
