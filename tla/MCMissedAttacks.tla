-------------------------- MODULE MCMissedAttacks --------------------------
(* Related logs of two sessions: pages, attacks, alerts, names.            *)
EXTENDS MissedAttacks, TLC

CONSTANTS page, attack, scanner, hidden

MCKeywords == page :> {} @@ attack :> {"sql_injection"} @@ scanner :> {"scanning_detection"} @@ hidden :> {}
MCSemantics == page :> {} @@ attack :> {"sql_injection"} @@ scanner :> {} @@ hidden :> {"xss"}

Http(id, flow, tx, url, agent, status, length) ==
    [id |-> id, kind |-> "http", flow |-> flow, tx |-> tx, url |-> url, payload |-> Empty, agent |-> agent,
     original |-> Empty, name |-> Empty, status |-> status, length |-> length]
AlertLog(id, flow, tx, status, length) ==
    [Http(id, flow, tx, Empty, Empty, status, length) EXCEPT !.kind = "alert"]
Named(id, kind, name) == [Http(id, 1, -1, Empty, Empty, 0, 0) EXCEPT !.kind = kind, !.name = name]

MCCandidates ==
    {Http(1, 1, 0, page, Empty, 200, 100), Http(2, 1, 1, attack, Empty, 200, 120), Http(3, 1, 2, hidden, Empty, 200, 121),
     Http(4, 2, 1, page, scanner, 404, 40), Http(5, 1, 0, attack, Empty, 200, 30), AlertLog(6, 1, 0, 200, 130),
     AlertLog(7, 2, 1, 403, 40), AlertLog(8, 1, 2, 0, 0), Named(9, "dns", hidden), Named(10, "tls", attack),
     [Http(11, 2, -1, Empty, Empty, 200, 50) EXCEPT !.original = attack]}
=============================================================================
