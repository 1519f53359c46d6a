----------------------------- MODULE LibraryFilter -----------------------------
(***************************************************************************)
(* The loop of ignoreFile of src/valgrind/fpdebug/fd_main.c: does a        *)
(* description, which has the file name of the object the code is in, name *)
(* a shared library?  It looks for ".so" in one pass with one counter.     *)
(***************************************************************************)
EXTENDS Integers, Sequences

Pattern == <<".", "s", "o">>

(* (variant) A mismatch leaves the counter alone. *)
AdvanceKeeping(pi, char) == IF char = Pattern[pi + 1] THEN pi + 1 ELSE pi

(* The characters matched so far: a mismatch starts again, but behind the  *)
(* character that did not match.                                           *)
Advance(pi, char) == IF char = Pattern[pi + 1] THEN pi + 1 ELSE 0

Matched(desc) ==
    LET pi[n \in 0 .. Len(desc)] ==
            IF n = 0 THEN 0
            ELSE IF pi[n - 1] = Len(Pattern) THEN pi[n - 1]
            ELSE Advance(pi[n - 1], desc[n])
    IN  pi[Len(desc)]

NamesLibrary(desc) == Matched(desc) = Len(Pattern)

(* The places where the pattern starts, and those of them that the single  *)
(* counter passes over: a "." or a ".s" right before is taken for a start. *)
Occurrences(desc) == {n \in 1 .. Len(desc) - 2 : SubSeq(desc, n, n + 2) = Pattern}

Hidden(desc, n) ==
    \/ n > 1 /\ desc[n - 1] = "."
    \/ n > 2 /\ desc[n - 2] = "." /\ desc[n - 1] = "s"
=============================================================================
