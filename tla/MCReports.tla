------------------------------- MODULE MCReports -------------------------------
(* Reports on short arrays. *)
EXTENDS Reports

CONSTANTS nan, inf

App == <<"a", "s", "o">>
Lib == <<"a", ".", "s", "o">>
Odd == <<".", ".", "s", "o">>
NoLib == <<".", "a", "s", "o">>
Late == <<".", "s", ".", "s", "o">>

SV(opCount, value, org, canceled, origin) ==
    [opCount |-> opCount, value |-> value, org |-> org, canceled |-> canceled, origin |-> origin]

SomeShadowValues ==
    {SV(2, 1, 1, 0, App), SV(2, 1, 2, 0, App), SV(2, 2, 2, 3, App), SV(2, 1, 2, 0, Lib),
     SV(1, nan, 1, 0, App), SV(1, 1, nan, 3, App), SV(1, inf, 1, 0, App),
     SV(1, 2, inf, 0, App), SV(1, 1, 1, 3, Lib), SV(1, 2, 1, 0, App)}

SomeMeanValues ==
    {[key |-> d, sum |-> s, canceledMax |-> c] : d \in {App, Lib}, s \in {0, 1}, c \in {0, 1}}
        \cup {[key |-> d, sum |-> nan, canceledMax |-> 1] : d \in {Odd, NoLib, Late}}

SR(count, min, max, origin) ==
    [count |-> count, iterMin |-> min, iterMax |-> max, origin |-> origin]

SomeStageReports == {SR(1, 3, 3, 1), SR(1, 3, 3, 2), SR(2, 3, 4, 1), SR(2, 3, 5, 1)}
=============================================================================
