------------------------------ MODULE Selections ------------------------------
(***************************************************************************)
(* What a filter leaves of a sequence, and the members of a set of numbers *)
(* in their order.  (iter().filter(), retain() and BTreeMap::values(), as  *)
(* the modules that use them say.)  The elements to keep are a set, so     *)
(* that the facts about a selection can be stated and proved for every     *)
(* sequence and every set.                                                 *)
(***************************************************************************)
EXTENDS Naturals, Sequences

\* What is selected of the first i elements of s, for every i.
Selected(s, T) ==
    LET F[i \in 0 .. Len(s)] ==
            IF i = 0 THEN << >>
            ELSE IF s[i] \in T THEN Append(F[i - 1], s[i])
            ELSE F[i - 1]
    IN  F

\* The elements of s that are in T, in their order.
Select(s, T) == Selected(s, T)[Len(s)]

\* The members of T among the first n numbers, in their order.
Ascending(n, T) == Select([i \in 1 .. n |-> i], T)
=============================================================================
