------------------------------ MODULE AppendFiles ------------------------------
(***************************************************************************)
(* What the output of src/valgrind/fpdebug/fd_main.c promises: whoever     *)
(* opens a file gets an empty one, everything written to an open file is   *)
(* at its end at once, in the order in which it was written, in that file  *)
(* and in no other, and a file that is not open is never changed by the    *)
(* tool.  Other processes create and remove files that the tool does not   *)
(* have open.                                                              *)
(*                                                                         *)
(* asked is the history of what was to be written, whatever became of it:  *)
(* a write that leaves no trace, or one that ends up in another file, is   *)
(* no step of this specification.                                          *)
(***************************************************************************)
EXTENDS Sequences

CONSTANTS Names, Chunks, Foreign, Absent

VARIABLES
    contents,  \* per name: the chunks in the file, Foreign or Absent
    opened,    \* names of the files that the tool has open
    asked      \* per name: what is to be written while it is open

vars == <<contents, opened, asked>>

Init ==
    /\ contents \in [Names -> {Foreign, Absent}]
    /\ opened = {}
    /\ asked = [name \in Names |-> <<>>]

Open(name) ==
    /\ name \notin opened
    /\ opened' = opened \cup {name}
    /\ contents' = [contents EXCEPT ![name] = <<>>]
    /\ UNCHANGED asked

Write(name, chunk) ==
    /\ name \in opened
    /\ contents' = [contents EXCEPT ![name] = Append(@, chunk)]
    /\ asked' = [asked EXCEPT ![name] = Append(@, chunk)]
    /\ UNCHANGED opened

Close(name) ==
    /\ name \in opened
    /\ opened' = opened \ {name}
    /\ asked' = [asked EXCEPT ![name] = <<>>]
    /\ UNCHANGED contents

Others(name) ==
    /\ name \notin opened
    /\ contents' = [contents EXCEPT ![name] = IF @ = Absent THEN Foreign ELSE Absent]
    /\ UNCHANGED <<opened, asked>>

Next == \E name \in Names :
    \/ Open(name)
    \/ \E chunk \in Chunks : Write(name, chunk)
    \/ Close(name)
    \/ Others(name)

Spec == Init /\ [][Next]_vars
=============================================================================
