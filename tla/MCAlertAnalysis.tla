---------------------------- MODULE MCAlertAnalysis ----------------------------
(* Finite instances of AlertAnalysis.                                      *)
EXTENDS AlertAnalysis, TLC

CONSTANTS f1, f2, r1, r2, s1

Pushed(flow, rule, source) == [flow |-> flow, rule |-> rule, source |-> source]

\* One flow under two rules, one rule from one source with a flow and without,
\* and alerts that lack a flow, a source or a rule.
MCAlerts == {Pushed(f1, r1, s1), Pushed(f1, r2, Lacking), Pushed(Lacking, r1, s1), Pushed(f2, Lacking, s1)}
HandlerSymmetry == Permutations(Handlers)
=============================================================================
