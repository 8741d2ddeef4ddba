------------------------------- MODULE Ranking ------------------------------
(***************************************************************************)
(* The elements of a finite set in the order of a relation, a set of       *)
(* pairs, and what is left of a sequence when some elements are taken out. *)
(***************************************************************************)
EXTENDS Integers, FiniteSets, Sequences

\* ORDER BY: the k-th element is the one that k - 1 others precede.
Ranked(S, R) ==
    [k \in 1 .. Cardinality(S) |->
        CHOOSE x \in S : Cardinality({y \in S : <<y, x>> \in R}) = k - 1]

\* The numbers of a set, smallest first.
Ascending(S) == Ranked(S, {xy \in S \X S : xy[1] < xy[2]})

\* The entries of a sequence that are not in S, in their order.
Without(seq, S) ==
    LET places == Ascending({i \in DOMAIN seq : seq[i] \notin S})
    IN [n \in DOMAIN places |-> seq[places[n]]]

=============================================================================
