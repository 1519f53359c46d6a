------------------------------- MODULE MCStages -------------------------------
(* Stages on two small instances in one run.                               *)
EXTENDS Stages

CONSTANTS s1, s2, x1, x2

Recordings(P(_, _)) ==
    \A n \in StageNums : Active(n) =>
        \A a \in DOMAIN stages[n].newVals : P(a, stages[n].newVals[a])

(* Two stages, nested and cleared at any time, three executions each, one  *)
(* address.                                                                *)
Lifecycle ==
    /\ \A n \in StageNums : stages[n] # NULL => stages[n].count <= 3
    /\ activeStages <= 3 /\ clears <= 2
    /\ Recordings(LAMBDA a, e : a = x1 /\ e \in {0, NaN})

(* One stage that is never cleared, four executions, two addresses. *)
Repetition ==
    /\ stages[s2] = NULL
    /\ clears = 0
    /\ Recordings(LAMBDA a, e : a = x1 \/ e \in {0, 3})

MCNext == Next /\ (Lifecycle \/ Repetition)'

MCSpec == Init /\ [][MCNext]_vars

=============================================================================
