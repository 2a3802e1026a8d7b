--------------------------- MODULE MissedAttacks ---------------------------
(***************************************************************************)
(* The search for attacks that raised no alert: which events of the related*)
(* logs look like an attack, which of them an alert already covers, and    *)
(* whether the length of a response says that the attack failed.  The logs *)
(* come from the alert's own session and, by address and time, from others.*)
(* What the patterns find in a text is a parameter.                        *)
(***************************************************************************)
EXTENDS Integers, Sequences, Functions

CONSTANTS
    Empty,          \* the empty text
    Keywords,       \* of each text: the attack types the keyword layer finds
    Semantics,      \* of each text: those the semantic layer finds
    LongLabel,      \* names whose first label is over 50 characters
    Tunnel,         \* names of known tunnels
    Numeric,        \* names that are an address
    LongName,       \* names over 100 characters
    Candidates,     \* logs that may be among the related ones
    MaxLogs         \* bound: related logs

ASSUME DetectionAssumption ==
    /\ Empty \notin DOMAIN Keywords /\ DOMAIN Semantics = DOMAIN Keywords
    /\ \A log \in Candidates : log.length \in Nat
    /\ MaxLogs \in Nat

VARIABLES
    logs,       \* the related logs, in the order of the queries
    failed      \* alerts that the last look at the session's analyses calls failed attacks

missedVars == <<logs, failed>>

-----------------------------------------------------------------------------
(* Detection in one event                                                  *)

\* The raw line is read only if there is neither URL nor payload.
Texts(log) ==
    LET main == {log.url, log.payload} \ {Empty}
    IN  IF main = {} THEN {log.original} \ {Empty} ELSE main
HttpAttacks(log) ==
    UNION {Keywords[t] : t \in Texts(log) \cup ({log.agent} \ {Empty})}
        \cup UNION {Semantics[t] : t \in Texts(log)}
DnsAttacks(log) == IF log.name \in LongLabel \cup Tunnel THEN {"dns_tunneling"} ELSE {}
TlsAttacks(log) == IF log.name \in Numeric \cup LongName THEN {"suspicious_tls_sni"} ELSE {}

Attacks(log) ==
    CASE log.kind = "http" -> HttpAttacks(log)
      [] log.kind = "dns"  -> DnsAttacks(log)
      [] log.kind = "tls"  -> TlsAttacks(log)
      [] OTHER             -> {}

-----------------------------------------------------------------------------
(* The usual responses of the session                                      *)

Rejected == {400, 403, 404, 405, 500}

\* Mutation: a response of 200 counts whatever the request was.
IsAnySample(log, bad) ==
    /\ log.length > 0
    /\ \/ log.kind = "http" /\ log.status = 200
       \/ log.kind = "alert" /\ log.status \in Rejected
       \/ log.kind = "alert" /\ log.status = 200 /\ log.id \in bad
IsSample(log, bad) ==
    /\ log.length > 0
    /\ \/ log.kind = "http" /\ log.status = 200 /\ HttpAttacks(log) = {}
       \/ log.kind = "alert" /\ log.status \in Rejected
       \/ log.kind = "alert" /\ log.status = 200 /\ log.id \in bad

\* A fifth of the length, but at least ten.
Tolerance(length) == IF length \div 5 > 10 THEN length \div 5 ELSE 10

\* Mutation: the last sample stands for all.
BaselineLast(ls, bad) ==
    LET samples == {k \in DOMAIN ls : IsSample(ls[k], bad)}
    IN  {[min |-> ls[n].length - Tolerance(ls[n].length), max |-> ls[n].length + Tolerance(ls[n].length)]
            : n \in {k \in samples : \A j \in samples : j <= k}}
Baseline(ls, bad) ==
    {[min |-> ls[n].length - Tolerance(ls[n].length), max |-> ls[n].length + Tolerance(ls[n].length)]
        : n \in {k \in DOMAIN ls : IsSample(ls[k], bad)}}

Prejudge(status, length, ranges) ==
    CASE status = 0 -> "none"
      [] status \in Rejected -> "failed"
      [] status = 200 /\ (\E r \in ranges : length \in r.min..r.max) -> "failed"
      [] OTHER -> "unknown"

-----------------------------------------------------------------------------
(* The attacks without an alert                                            *)

\* A transaction number of zero is taken for none, and none is compared with a session.
AlertedTransactions(ls) == {ls[n].tx : n \in {k \in DOMAIN ls : ls[k].kind = "alert" /\ ls[k].tx > 0}}

Covered(log, ls) == log.tx > 0 /\ log.tx \in AlertedTransactions(ls)

Missed(log, ls) == Attacks(log) # {} /\ ~Covered(log, ls)
Judgement(log, ls, bad) ==
    IF log.kind = "http" /\ log.length > 0 THEN Prejudge(log.status, log.length, Baseline(ls, bad)) ELSE "none"
Item(log, ls, bad) ==
    [id |-> log.id, url |-> IF log.kind = "http" THEN log.url ELSE log.name, types |-> Attacks(log),
     judgement |-> Judgement(log, ls, bad)]
FindUnalerted(ls, bad) ==
    {Item(ls[n], ls, bad) : n \in {k \in DOMAIN ls : Missed(ls[k], ls)}}

-----------------------------------------------------------------------------
(* The related logs grow, and so do the analyses of the session            *)

MissedInit == logs = << >> /\ failed = {}

AddLog(log) ==
    /\ Len(logs) < MaxLogs
    /\ \A n \in DOMAIN logs : logs[n].id # log.id
    /\ logs' = Append(logs, log)
    /\ UNCHANGED failed

\* query_ai_analyses_by_community puts its answer together anew: of each alert the last
\* hit counts, of at most a hundred in no order; nothing if the query fails.
QueryAnalyses(said) == failed' = said /\ UNCHANGED logs

MissedNext ==
    \/ \E log \in Candidates : AddLog(log)
    \/ \E said \in SUBSET {logs[n].id : n \in {k \in DOMAIN logs : logs[k].kind = "alert"}} : QueryAnalyses(said)

MissedSpec == MissedInit /\ [][MissedNext]_missedVars

-----------------------------------------------------------------------------
(* Properties                                                              *)

Found == FindUnalerted(logs, failed)
Log(id) == CHOOSE log \in Range(logs) : log.id = id
\* Two lengths differ by no more than a fifth of the second, or ten.
About(length, sample) ==
    /\ 5 * (length - sample) <= sample \/ length - sample <= 10
    /\ 5 * (sample - length) <= sample \/ sample - length <= 10

\* attack_detector.py, _calculate_session_baseline: an attack that got its page is called
\* failed only if a request that is no attack, a refused one or one an analysis calls
\* failed had an answer of about that length; its own answer is no reason.
FailedForAReason ==
    \A item \in Found :
        LET log == Log(item.id)
        IN  item.judgement = "failed" /\ log.status = 200 =>
              \E other \in Range(logs) :
                  /\ other.id # log.id
                  /\ other.kind = "alert" \/ Attacks(other) = {}
                  /\ About(log.length, other.length)

\* attack_detector.py, _calculate_session_baseline: the doubt about an attack called failed
\* comes back only if the analyses take back what they said of an alert that got an
\* answer of about that length; further logs never bring it back.
DoubtReturnsForAReason ==
    [][\A old \in Found, new \in Found' :
          new.id = old.id /\ old.judgement = "failed" /\ new.judgement # "failed" =>
              \E alert \in Range(logs) : /\ alert.kind = "alert" /\ alert.status = 200
                                        /\ alert.id \in failed \ failed'
                                        /\ About(Log(old.id).length, alert.length)]_missedVars
=============================================================================
