------------------------------ MODULE Filters ------------------------------
(***************************************************************************)
(* The elements of a sequence at some of its places, in order: what a loop *)
(* over a linked list keeps when it unlinks the others.  It is SelectSeq   *)
(* of the module Sequences, for a set of places and without recursion, so  *)
(* that it can be reasoned about.                                          *)
(***************************************************************************)
EXTENDS Naturals, FiniteSets

(* The element at place j is the one with j of the places up to its own.   *)
Rank(S, i)     == Cardinality({k \in S : k <= i})
Sifted(seq, S) == [j \in 1..Cardinality(S) |-> seq[CHOOSE i \in S : Rank(S, i) = j]]

=============================================================================
