---------------------------- MODULE MCOriginGraph -----------------------------
(* OriginGraph on four operations.  Every operation gets its operands from *)
(* the next one, the next but one or itself, in all combinations: chains,  *)
(* shared operands, loops of one to four operations.                       *)
EXTENDS OriginGraph, TLC

Op == 1 .. 4
Following(op) == (op % 4) + 1
NextButOne(op) == Following(Following(op))

Pairs(op) ==
    {<<0, 0>>, <<Following(op), 0>>, <<0, Following(op)>>, <<op, Following(op)>>,
     <<Following(op), NextButOne(op)>>, <<NextButOne(op), Following(op)>>}

Links == {pairs \in [Op -> UNION {Pairs(op) : op \in Op}] : \A op \in Op : pairs[op] \in Pairs(op)}

MeanValuesOf(pairs, accurate) ==
    [op \in Op |-> [arg1 |-> pairs[op][1], arg2 |-> pairs[op][2], accurate |-> op \in accurate]]

CONSTANT nan

SV(op, original, shadow) ==
    [origin |-> op, opCount |-> 1, original |-> original, shadow |-> shadow]

(* The last one has an error that is merged into a NaN, and one that is    *)
(* merged with a NaN behind it.                                            *)
Memories ==
    {<<SV(1, 1, 2), SV(3, 1, 2), SV(3, 2, 2)>>,
     <<SV(2, 1, 2), SV(2, 1, 2), SV(4, 1, 2), SV(1, 1, 2), SV(3, 1, 2)>>,
     <<SV(4, 1, nan), SV(4, 1, 2), SV(1, 1, 2), SV(1, 1, 2), SV(1, 1, nan)>>}

Options == {[libs |-> {}, accurate |-> {}, ignore |-> TRUE],
            [libs |-> {}, accurate |-> {3}, ignore |-> FALSE],
            [libs |-> {}, accurate |-> {3}, ignore |-> TRUE],
            [libs |-> {2, 4}, accurate |-> {}, ignore |-> TRUE]}

MCInit ==
    \E pairs \in Links, o \in Options, svs \in Memories :
        InitWith(MeanValuesOf(pairs, o.accurate), o.libs, svs, o.ignore)

MCSpec == MCInit /\ [][Next]_vars /\ WF_vars(Tool)
=============================================================================
