----------------------------- MODULE RuleReview -----------------------------
(***************************************************************************)
(* What a generated rule has to pass before it is appended to local.rules: *)
(* its structure, the replay of its contents against the traffic of the    *)
(* last days with the opinion of a second model, and the filters under the *)
(* write lock.  Reviews run side by side and share one guard, which opens  *)
(* its Elasticsearch client when it is first needed.                       *)
(***************************************************************************)
EXTENDS Integers, FiniteSets, Sequences, SequencesExt, FiniteSetsExt

CONSTANTS
    Reviewers,              \* background tasks with a rule to write
    Generated,              \* rules the language model may come up with
    History,                \* batches of like HTTP requests Elasticsearch may hold
    MIN_PROBE_LEN, MaxOthers,           \* contents replayed: least length, number beside the first
    LOOKBACK_DAYS,                      \* window of the replay
    REJECT_HITS, REJECT_DISTINCT_SRC, REJECT_COMBO_RATIO,       \* a common shape; ratios in percent
    REJECT_HITS_ABSOLUTE, REJECT_ABSOLUTE_RATIO,                \* a very frequent content
    MIN_SINGLE_LEN,         \* least length of a rule's only content
    Retentions,             \* values of raw_log_retention_days
    Nothing,                \* no value
    MaxReviews,             \* bound: rules reviewed in a behaviour
    MaxOutages              \* bound: failed calls and changes of the retention

\* marks: what the filters' word lists find in the decoded value;  rest: what is
\* left of it without its placeholders;  body: a placeholder has a name in it.
Content == [text: STRING, buffer: {"http.uri", "http.request_body", "none"}, length: Nat,
            quote: BOOLEAN,
            marks: SUBSET {"broad", "attack", "benign", "tld", "delimiter", "engine"},
            rest: {"empty", "chain", "path", "evaluation"}, body: BOOLEAN]
\* bars: what stands between bars anywhere in the text, bytes or else;  lone: bytes,
\* and a bar is left over before the contents.
Rule == [form: {"sound", "action", "brackets", "message"}, topic: {"web", "protocol"},
         structure: {"http", "protocol"}, pcre: BOOLEAN, bars: {"bytes", "lone", "text"}, contents: Seq(Content)]
\* age: days ago;  count: requests;  sources: their addresses;  has: <<field, text>> they carry.
Batches == [age: Nat, count: Nat, sources: SUBSET Nat, has: SUBSET ({"url", "body"} \X STRING)]

ASSUME ReviewAssumption ==
    /\ Generated \subseteq Rule
    /\ LOOKBACK_DAYS \in Nat \ {0} /\ Retentions \subseteq Nat
    /\ REJECT_HITS \in Nat \ {0} /\ REJECT_HITS_ABSOLUTE \in Nat \ {0}
    /\ REJECT_COMBO_RATIO \in Nat /\ REJECT_ABSOLUTE_RATIO \in Nat
    /\ IsFiniteSet(History) /\ \A b \in History : b.count \in Nat /\ IsFiniteSet(b.sources)
    /\ Nothing \notin [hits: Nat, sources: Nat, combined: Int, body: BOOLEAN]
    /\ MaxReviews \in Nat /\ MaxOutages \in Nat

VARIABLES
    guard,      \* the shared RuleFpGuard: [tried, client, resolved, days]
    retention,  \* raw_log_retention_days
    kept,       \* the history Elasticsearch holds
    review,     \* of each reviewer: its last review
    written,    \* history: what was written, [rule, stats, common, excused]
    reviews, outages

reviewVars == <<guard, retention, kept, review, written, reviews, outages>>

-----------------------------------------------------------------------------
(* Reading a rule                                                          *)

Structured(rule) == rule.form = "sound"
Values(rule) == ToSet(rule.contents)
\* Quotes within a content become bytes between bars, the first of which closes a lone one.
Unquoted(c) == [c EXCEPT !.quote = FALSE]
Sanitized(rule) ==
    [rule EXCEPT !.contents = [n \in DOMAIN rule.contents |-> Unquoted(rule.contents[n])],
                 !.bars = IF rule.bars = "lone" /\ (\E c \in Values(rule) : c.quote) THEN "text" ELSE rule.bars]
Fingerprint(rule) == {c.text : c \in Values(rule)}

\* A content without a buffer is looked for in the URL.
FieldFor(c) == IF c.buffer = "http.request_body" THEN "body" ELSE "url"
Probed(rule) == {n \in DOMAIN rule.contents : rule.contents[n].length >= MIN_PROBE_LEN}
\* The first of the longest contents, and the next few of the others.
Longest(rule) ==
    CHOOSE n \in Probed(rule) : \A k \in Probed(rule) :
        \/ rule.contents[k].length < rule.contents[n].length
        \/ rule.contents[k].length = rule.contents[n].length /\ n <= k
Primary(rule) == rule.contents[Longest(rule)]
Others(rule) ==
    LET rest == Probed(rule) \ {Longest(rule)}
    IN  {rule.contents[n] : n \in {m \in rest : Cardinality({k \in rest : k < m}) < MaxOthers}}

-----------------------------------------------------------------------------
(* The filters under the lock                                              *)

IsDuplicateOf(rule, lines) ==
    Fingerprint(rule) # {} /\ \E w \in lines : Fingerprint(w.rule) = Fingerprint(rule)
IsTooBroad(rule) ==
    /\ Len(rule.contents) = 1 /\ ~rule.pcre
    /\ \E c \in Values(rule) : c.length < MIN_SINGLE_LEN \/ "broad" \in c.marks
HasInvalidHex(rule) == rule.bars = "text"
IsHighFpAttackType(rule) == rule.topic = "protocol" \/ rule.structure = "protocol"
IsBenignDomainRule(rule) ==
    \E c \in Values(rule) : "attack" \notin c.marks /\ c.marks \cap {"benign", "tld"} # {}

\* What is left of a content says nothing, or is part of a name.
PlaceholderFeature(c) == (c.rest = "empty" /\ c.body) \/ c.rest = "chain"
IsTemplatePlaceholderRule(rule) ==
    /\ \E c \in Values(rule) : "delimiter" \in c.marks
    /\ \A c \in Values(rule) : "engine" \notin c.marks
    /\ (\E c \in Values(rule) : PlaceholderFeature(c)) \/ ~\E c \in Values(rule) : c.rest = "evaluation"

PassesFilters(rule, lines) ==
    /\ ~IsDuplicateOf(rule, lines) /\ ~IsTooBroad(rule) /\ ~HasInvalidHex(rule)
    /\ ~IsHighFpAttackType(rule) /\ ~IsBenignDomainRule(rule) /\ ~IsTemplatePlaceholderRule(rule)

-----------------------------------------------------------------------------
(* The replay                                                              *)

Requests(set) == MapThenSumSet(LAMBDA b : b.count, set)
Carrying(set, contents) == {b \in set : \A c \in contents : <<FieldFor(c), c.text>> \in b.has}

\* No statistics, or hits and sources of the primary and hits of all probes together;
\* those are -1 if there is nothing beside the primary or the search failed.
Stats(hits, sources, combined, body) == [hits |-> hits, sources |-> sources, combined |-> combined, body |-> body]
HasRatio(s) == s.hits > 0 /\ s.combined >= 0
AtLeast(s, percent) == HasRatio(s) /\ s.combined * 100 >= s.hits * percent

\* Mutation: a frequent content is refused only if the rule looks into bodies.
EvidenceForBodies(s) ==
    \/ s.hits >= REJECT_HITS /\ s.sources >= REJECT_DISTINCT_SRC /\ AtLeast(s, REJECT_COMBO_RATIO)
    \/ /\ s.hits >= REJECT_HITS_ABSOLUTE /\ s.sources >= REJECT_DISTINCT_SRC /\ s.body
EvidenceSaysReject(s) ==
    \/ s.hits >= REJECT_HITS /\ s.sources >= REJECT_DISTINCT_SRC /\ AtLeast(s, REJECT_COMBO_RATIO)
    \/ /\ s.hits >= REJECT_HITS_ABSOLUTE /\ s.sources >= REJECT_DISTINCT_SRC
       /\ s.body \/ ~HasRatio(s) \/ AtLeast(s, REJECT_ABSOLUTE_RATIO)

NoReview == [step |-> "none", rule |-> Nothing, days |-> 0, upto |-> {}, stats |-> Nothing,
             common |-> FALSE, excused |-> FALSE]

Over == [NoReview EXCEPT !.step = "over"]

ReviewInit ==
    /\ guard = [tried |-> FALSE, client |-> FALSE, resolved |-> FALSE, days |-> LOOKBACK_DAYS]
    /\ retention \in Retentions /\ kept = History
    /\ review = [t \in Reviewers |-> NoReview]
    /\ written = {} /\ reviews = 0 /\ outages = 0

Step(t, step) == review[t].step = step
Outage == outages < MaxOutages /\ outages' = outages + 1
Steady == UNCHANGED <<retention, kept, reviews>>

\* write_rule, as far as what is to be asked about the rule.
Offer(t, generated) ==
    LET rule == Sanitized(generated)
    IN  /\ review[t].step \in {"none", "over"} /\ reviews < MaxReviews
        /\ reviews' = reviews + 1
        /\ review' = [review EXCEPT ![t] =
               IF ~Structured(rule) THEN Over
               ELSE [NoReview EXCEPT !.rule = rule, !.step = IF Probed(rule) = {} THEN "lock" ELSE "client"]]
        /\ UNCHANGED <<guard, retention, kept, written, outages>>

\* The client is opened once: who asks meanwhile, or after it failed, goes without.
GetEs(t) ==
    /\ Step(t, "client")
    /\ LET first == ~guard.client /\ ~guard.tried
       IN  /\ guard' = [guard EXCEPT !.tried = @ \/ first]
           /\ review' = [review EXCEPT
                ![t].step = CASE guard.client -> "window" [] first -> "open" [] OTHER -> "judge",
                ![t].excused = ~guard.client /\ ~first]
    /\ UNCHANGED <<written, outages>> /\ Steady

OpenClient(t) ==
    /\ Step(t, "open")
    /\ \/ guard' = [guard EXCEPT !.client = TRUE] /\ UNCHANGED outages
          /\ review' = [review EXCEPT ![t].step = "window"]
       \/ Outage /\ UNCHANGED guard
          /\ review' = [review EXCEPT ![t].step = "judge", ![t].excused = TRUE]
    /\ UNCHANGED written /\ Steady

\* The first review adapts the window to the retention; another one that comes
\* meanwhile takes it as it is.
EffectiveLookback(t) ==
    /\ Step(t, "window")
    /\ guard' = [guard EXCEPT !.resolved = TRUE]
    /\ review' = [review EXCEPT ![t].step = IF guard.resolved THEN "primary" ELSE "retention",
                                ![t].days = guard.days, ![t].upto = kept]
    /\ UNCHANGED <<written, outages>> /\ Steady

ReadRetention(t) ==
    LET goes(days) == review' = [review EXCEPT ![t].step = "primary", ![t].days = days, ![t].upto = kept]
    IN  /\ Step(t, "retention")
        /\ \/ LET days == IF retention \in 1..(guard.days - 1) THEN retention ELSE guard.days
              IN  guard' = [guard EXCEPT !.days = days] /\ goes(days) /\ UNCHANGED outages
           \/ Outage /\ goes(guard.days) /\ UNCHANGED guard
        /\ UNCHANGED written /\ Steady

\* Requests of the window that had come when the review took its time and are still kept.
Window(r) == {b \in kept \cap r.upto : b.age < r.days}

\* The rule would have alerted on much of what its longest content stands for.
Common(rule, set, hits, sources) ==
    LET fires == Requests(Carrying(set, Values(rule)))
    IN  /\ sources >= REJECT_DISTINCT_SRC
        /\ \/ hits >= REJECT_HITS /\ fires * 100 >= hits * REJECT_COMBO_RATIO
           \/ hits >= REJECT_HITS_ABSOLUTE /\ fires * 100 >= hits * REJECT_ABSOLUTE_RATIO

Body(rule) == \E c \in {Primary(rule)} \cup Others(rule) : FieldFor(c) = "body"
\* Mutation: no hit counts as no answer.
AnsweredIfHit(r, found) ==
    [r EXCEPT !.stats = IF found = {} THEN Nothing
                        ELSE Stats(Requests(found), Cardinality(UNION {b.sources : b \in found}), -1, Body(r.rule)),
              !.step = IF Others(r.rule) = {} \/ found = {} THEN "judge" ELSE "combined"]
Answered(r, found) ==
    [r EXCEPT !.stats = Stats(Requests(found), Cardinality(UNION {b.sources : b \in found}), -1, Body(r.rule)),
              !.step = IF Others(r.rule) = {} THEN "judge" ELSE "combined"]
SearchPrimary(t) ==
    LET r == review[t]
    IN  /\ Step(t, "primary")
        /\ \/ review' = [review EXCEPT ![t] = Answered(r, Carrying(Window(r), {Primary(r.rule)}))]
              /\ UNCHANGED outages
           \/ Outage /\ review' = [review EXCEPT ![t].step = "judge", ![t].excused = TRUE]
        /\ UNCHANGED <<guard, written>> /\ Steady

SearchCombined(t) ==
    LET r == review[t]
        all == {Primary(r.rule)} \cup Others(r.rule)
    IN  /\ Step(t, "combined")
        /\ \/ review' = [review EXCEPT
                    ![t].stats.combined = Requests(Carrying(Window(r), all)),
                    ![t].common = Common(r.rule, Window(r), r.stats.hits, r.stats.sources),
                    ![t].step = "judge"]
              /\ UNCHANGED outages
           \/ Outage /\ review' = [review EXCEPT ![t].step = "judge"]
        /\ UNCHANGED <<guard, written>> /\ Steady

\* What the second model says; none if it is missing, late, or not understood.
JudgeOpinions == {"allow", "reject", "none"}
\* The evidence comes first; then the model's word counts; without it only the evidence.
Judge(t) ==
    LET r == review[t]
        refuted == r.stats # Nothing /\ EvidenceSaysReject(r.stats)
    IN  /\ Step(t, "judge")
        /\ \E opinion \in JudgeOpinions :
              review' = [review EXCEPT ![t] = IF refuted \/ opinion = "reject" THEN Over
                                              ELSE [r EXCEPT !.step = "lock", !.days = 0, !.upto = {}]]
        /\ UNCHANGED <<guard, written, outages>> /\ Steady

\* The rest of write_rule, under the lock; the append may fail.
WriteRule(t) ==
    LET r == review[t]
        line == [rule |-> r.rule, stats |-> r.stats, common |-> r.common, excused |-> r.excused]
    IN  /\ Step(t, "lock")
        /\ review' = [review EXCEPT ![t] = Over]
        /\ \/ PassesFilters(r.rule, written) /\ written' = written \cup {line} /\ UNCHANGED outages
           \/ ~PassesFilters(r.rule, written) /\ UNCHANGED <<written, outages>>
           \/ PassesFilters(r.rule, written) /\ Outage /\ UNCHANGED written
        /\ UNCHANGED guard /\ Steady

\* An administrator changes the retention; the daily job deletes what is older.
SetRetention ==
    /\ Outage /\ retention' \in Retentions \ {retention}
    /\ UNCHANGED <<guard, kept, review, written, reviews>>
CleanHistory ==
    /\ \E b \in kept : b.age >= retention
    /\ kept' = {b \in kept : b.age < retention}
    /\ UNCHANGED <<guard, retention, review, written, reviews, outages>>

ReviewNext ==
    \/ \E t \in Reviewers :
          \/ \E rule \in Generated : Offer(t, rule)
          \/ GetEs(t) \/ OpenClient(t) \/ EffectiveLookback(t) \/ ReadRetention(t)
          \/ SearchPrimary(t) \/ SearchCombined(t) \/ Judge(t) \/ WriteRule(t)
    \/ SetRetention \/ CleanHistory

ReviewSpec == ReviewInit /\ [][ReviewNext]_reviewVars

-----------------------------------------------------------------------------
(* Properties                                                              *)

\* The variables have their types (fp_guard.py, rule_writer.py).
ReviewTypeOK ==
    /\ guard \in [tried: BOOLEAN, client: BOOLEAN, resolved: BOOLEAN, days: 1..LOOKBACK_DAYS]
    /\ kept \subseteq History /\ reviews \in 0..MaxReviews /\ outages \in 0..MaxOutages
    /\ guard.client => guard.tried
    /\ \A t \in Reviewers : review[t].step \in {"none", "client", "open", "window", "retention", "primary",
                                                 "combined", "judge", "lock", "over"}

\* A rule with two replayed contents that would have alerted on at least half of
\* a hundred requests of five sources, or on a twentieth of fifty thousand, is not
\* written when the replay was answered, whatever the model thinks of it
\* (fp_guard.py _evidence_says_reject, review).
CommonTrafficStaysOut == \A w \in written : ~w.common

\* A rule that could be replayed is written without a replay only if a search of
\* its own failed or the client was missing when it asked: its opening had failed,
\* or another review was still at it (fp_guard.py _get_es, _replay).
UnreplayedForAReason ==
    \A w \in written : w.stats = Nothing /\ Probed(w.rule) # {} => w.excused
=============================================================================
