------------------------- MODULE MCAnalysisPipeline -------------------------
(* Two alerts of one flow and one rule, an earlier alert of the rule from  *)
(* elsewhere and an attack of the flow that raised no alert.               *)
EXTENDS AnalysisPipeline, TLC

CONSTANTS a1, a2, old, e1, probe

MCAlerts == {a1, a2, old}
MCPushed == {a1}
MCEvents == {e1}
MCByHand == {a2}
MCFlow == a1 :> 1 @@ a2 :> 1 @@ old :> 2 @@ e1 :> 1
MCFlowApart == [MCFlow EXCEPT ![e1] = 2]
MCTime == a1 :> 1 @@ a2 :> 2 @@ old :> 1 @@ e1 :> 1
MCSig == a1 :> 9 @@ a2 :> 9 @@ old :> 9 @@ e1 :> 0
MCSeverity == a1 :> 2 @@ a2 :> 1 @@ old :> 1 @@ e1 :> 1
MCWhat == e1 :> probe
=============================================================================
