---------------------------- MODULE MCAssetStore ----------------------------
(***************************************************************************)
(* Instances of AssetStore for TLC.                                        *)
(***************************************************************************)
EXTENDS AssetStore, TLC

CONSTANTS s1, s2, p1, p2, a, b, c

\* Steps, partitions and the payloads of one format are interchangeable; the
\* properties checked under the symmetry are invariants.
Symmetry == Permutations(Step) \cup Permutations(Partition)
            \cup Permutations(Payload \ Pickled)
=============================================================================
