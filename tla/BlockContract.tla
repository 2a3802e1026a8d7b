---------------------------- MODULE BlockContract ----------------------------
(***************************************************************************)
(* What automatic blocking promises, without workers, rounds or tables: a  *)
(* queue of requests tried at least once each, given up after MaxTries     *)
(* failed tries, and flags on alerts that a success stands behind.         *)
(***************************************************************************)
EXTENDS Integers

CONSTANTS Requests, Alerts, MaxTries

VARIABLES
    stage,      \* of each request: "absent", "waiting" or "settled"
    tally,      \* tries and wins of each request
    withdrawn,  \* waiting requests nobody wants any more; changes at any time
    proven,     \* alerts with a successful block
    flagged     \* alerts shown as handled

vars == <<stage, tally, withdrawn, proven, flagged>>

Init ==
    /\ stage = [r \in Requests |-> "absent"]
    /\ tally = [r \in Requests |-> [tries |-> 0, wins |-> 0]]
    /\ withdrawn = {} /\ proven = {} /\ flagged = {}

Move(R, from, to) ==
    /\ \A r \in R : stage[r] = from
    /\ stage' = [r \in Requests |-> IF r \in R THEN to ELSE stage[r]]

Submit ==
    /\ \E R \in SUBSET Requests : R # {} /\ Move(R, "absent", "waiting")
    /\ UNCHANGED <<tally, proven, flagged>>

Try(r, gain) ==
    /\ stage[r] = "waiting"
    /\ tally' = [tally EXCEPT ![r].tries = @ + 1, ![r].wins = @ + gain]
    /\ UNCHANGED <<stage, proven, flagged>>

Settle(r) ==
    /\ tally[r].wins > 0 \/ tally[r].tries >= MaxTries \/ r \in withdrawn
    /\ Move({r}, "waiting", "settled")
    /\ UNCHANGED <<tally, proven, flagged>>

Prove(e) == proven' = proven \cup {e} /\ UNCHANGED <<stage, tally, flagged>>

Flag(e) ==
    /\ e \in proven
    /\ flagged' = flagged \cup {e}
    /\ UNCHANGED <<stage, tally, proven>>

Wish == UNCHANGED <<stage, tally, proven, flagged>>

Next ==
    /\ withdrawn' \in SUBSET Requests
    /\ \/ Submit
       \/ \E r \in Requests : Settle(r) \/ \E gain \in {0, 1} : Try(r, gain)
       \/ \E e \in Alerts : Prove(e) \/ Flag(e)
       \/ Wish

Spec == Init /\ [][Next]_vars

=============================================================================
