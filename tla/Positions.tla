----------------------------- MODULE Positions -----------------------------
(***************************************************************************)
(* What a filter keeps of a list, by the positions it keeps: where the     *)
(* code filters, the components below say which positions are left.        *)
(***************************************************************************)
EXTENDS Naturals, FiniteSets, Sequences

\* The positions of P in their order.
Ascending(P) ==
  [k \in 1..Cardinality(P) |-> CHOOSE p \in P : Cardinality({q \in P : q <= p}) = k]

\* The items of s at the positions of P, and those that are in S.
Only(s, P) == LET at == Ascending(P) IN [k \in DOMAIN at |-> s[at[k]]]
Of(s, S) == Only(s, {k \in DOMAIN s : s[k] \in S})

\* Each item once, where it comes first.
Dedupe(s) == Only(s, {k \in DOMAIN s : \A i \in 1..(k - 1) : s[i] # s[k]})
=============================================================================
