------------------------------- MODULE Python -------------------------------
(***************************************************************************)
(* What the models take from Python: None, as the pipelines store and pass *)
(* it, a model value that is equal to nothing else; lists made of lists;   *)
(* and sorted.                                                             *)
(***************************************************************************)
EXTENDS Naturals, FiniteSets, SequencesExt

CONSTANT None

AList(s) == s \in Seq(ToSet(s))

\* The lists that the elements of a list are made into, one behind the other.
FlatMap(Op(_), s) == FlattenSeq([k \in DOMAIN s |-> Op(s[k])])

\* The elements that pass a test, in their order.
Those(s, Test(_)) == FlatMap(LAMBDA x : IF Test(x) THEN <<x>> ELSE <<>>, s)

\* The elements of a set, each behind those that go before it.
InOrder(S, Before(_, _)) ==
    [n \in 1 .. Cardinality(S) |->
        CHOOSE x \in S : Cardinality({y \in S : Before(y, x)}) = n - 1]
=============================================================================
