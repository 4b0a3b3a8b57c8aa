-------------------------------- MODULE MCMerger --------------------------------
(* Instances of Merger. *)
EXTENDS Merger

MCKeys == 0..3

\* Two sources with any keys, and five sources (a heap of three levels) that
\* share some keys and not others.
MCCollections ==
    [1..2 -> SUBSET {0, 1, 3}] \cup
    { <<{1, 3}, {1, 2}, {0, 3}, {1}, {2, 3}>>,
      <<{3}, {2}, {1}, {1, 2}, {1, 2, 3}>> }

===============================================================================
