----------------------------- MODULE Subsequences -----------------------------
(* The members of a list that pass a test, in the order of the list: Python's *)
(* [x for x in s if x in T], a dictionary without a key, the rows a DELETE     *)
(* leaves.  It is what SelectSeq computes, by places instead of by recursion,  *)
(* which is what the proofs about the modules that use it need.                *)
EXTENDS Naturals, Sequences, FiniteSets

\* The places where s has a member of T, and which of them comes n-th.
Places(s, T) == {i \in DOMAIN s : s[i] \in T}
Nth(I, n) == CHOOSE i \in I : Cardinality({j \in I : j <= i}) = n

OnlyIn(s, T) == [n \in 1..Cardinality(Places(s, T)) |-> s[Nth(Places(s, T), n)]]
=============================================================================
