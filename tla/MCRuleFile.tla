----------------------------- MODULE MCRuleFile -----------------------------
(* A finite instance of RuleFile: two tasks with the same good rule and a  *)
(* person who adds a mistyped one.                                         *)
EXTENDS RuleFile, TLC

CONSTANTS good, typo, c1, c2, t1, t2

MCRules == {good}
MCHandRules == {typo}
MCContents == good :> {c1} @@ typo :> {c2}
MCHandSid == typo :> 1
MCTasks == {t1, t2}
MCBatch == [t \in MCTasks |-> <<good>>]
=============================================================================
