------------------------------- MODULE Lists -------------------------------
(***************************************************************************)
(* Parts of a list, by the indices that are taken.  They are defined       *)
(* without recursion, so that more than their values can be reasoned       *)
(* about.                                                                  *)
(***************************************************************************)
EXTENDS Integers, Sequences, FiniteSets

(* The members of a finite set in an order: the n-th has n - 1 before it.  *)
Arranged(S, before(_, _)) ==
  [n \in 1..Cardinality(S) |->
     CHOOSE i \in S : Cardinality({j \in S : before(j, i)}) = n - 1]

(* Numbers from the least on.                                              *)
Upwards(S) == Arranged(S, LAMBDA i, j : i < j)

(* What a list holds at some indices, and what in it passes a test: the    *)
(* filter, retain and find of the code.                                    *)
Sublist(s, at) ==
  LET order == Upwards(at)
  IN [n \in 1..Cardinality(at) |-> s[order[n]]]
Filtered(s, passes(_)) == Sublist(s, {i \in DOMAIN s : passes(s[i])})
=============================================================================
