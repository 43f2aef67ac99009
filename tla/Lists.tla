------------------------------- MODULE Lists -------------------------------
(* Array.filter, by the places of the elements that stay, so that it can be reasoned about.   *)
EXTENDS Naturals, Sequences, FiniteSets, SequencesExt

\* The elements of s that are in S, in their order.
Only(s, S) ==
  LET at == {i \in DOMAIN s : s[i] \in S}
  IN  [n \in 1..Cardinality(at) |->
         s[CHOOSE i \in at : Cardinality({j \in at : j <= i}) = n]]

=============================================================================
