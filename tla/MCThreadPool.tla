----------------------------- MODULE MCThreadPool -----------------------------
(* An instance of ThreadPool: a writer (ordered) and a sorter (unordered)   *)
(* share a pool.                                                            *)
EXTENDS ThreadPool

CONSTANTS w, s

MCBoth    == {w, s}
MCWriter  == {w}
MCTwoEach == [h \in Handlers |-> 2]

===============================================================================
