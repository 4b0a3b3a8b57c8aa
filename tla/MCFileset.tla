------------------------------- MODULE MCFileset -------------------------------
(* Instances of Fileset. *)
EXTENDS Fileset, TLC

\* A fileset whose filters pass one of the files, and filesets that want them all
CONSTANT a
MCFilterOf == [f \in Filesets |-> IF f = First THEN {a} ELSE Files]

MCIterSymmetry == Permutations(Iters)

===============================================================================
