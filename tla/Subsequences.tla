---------------------------- MODULE Subsequences ----------------------------
(***************************************************************************)
(* The subsequence of the elements that lie in a set: what the library's   *)
(* SelectSeq computes, defined without recursion, so that what it keeps    *)
(* can be proved (SubsequenceProofs).                                      *)
(***************************************************************************)
EXTENDS Integers, Sequences, FiniteSets

Elements(s) == {s[i] : i \in 1..Len(s)}

HasNoRepeats(s) == \A i, j \in 1..Len(s) : s[i] = s[j] => i = j

PlacesIn(s, S) == {i \in 1..Len(s) : s[i] \in S}

\* How many members of P come up to i, and the member before which k - 1 come.
UpTo(P, i) == Cardinality({j \in P : j <= i})
Nth(P, k) == CHOOSE i \in P : UpTo(P, i) = k

\* The elements of s in S, in their order.
Keep(s, S) == [k \in 1..Cardinality(PlacesIn(s, S)) |-> s[Nth(PlacesIn(s, S), k)]]

\* The members of S in the order R, a set of pairs.
InOrder(S, R) ==
    [k \in 1..Cardinality(S) |->
        CHOOSE s \in S : Cardinality({t \in S : <<t, s>> \in R}) = k - 1]
=============================================================================
