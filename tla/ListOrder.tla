----------------------------- MODULE ListOrder ------------------------------
(***************************************************************************)
(* The order in which the core lists groups and the profiles of a group: a *)
(* stored list of identifiers, which may name some twice, some that are    *)
(* gone, and not all that exist.                                           *)
(***************************************************************************)
EXTENDS Naturals, Sequences, SequencesExt, FiniteSetsExt

\* What is listed comes first, in that order; the rest follows by identifier.
Ahead(ids, a, b) ==
  LET at(x) == {i \in DOMAIN ids : ids[i] = x} IN
  at(a) # {} /\ (at(b) = {} \/ Min(at(a)) < Min(at(b)))
Before(ids, a, b) == Ahead(ids, a, b) \/ (a < b /\ ~Ahead(ids, b, a))
Arrange(ids, all) ==
  LET place(x) == Cardinality({y \in all : Before(ids, y, x)}) + 1
  IN [n \in 1..Cardinality(all) |-> CHOOSE x \in all : place(x) = n]

\* The entries of s at the positions I, in their order.
Entries(s, I) == LET at == Arrange(<<>>, I) IN [n \in DOMAIN at |-> s[at[n]]]

=============================================================================
