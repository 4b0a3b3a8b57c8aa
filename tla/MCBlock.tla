-------------------------------- MODULE MCBlock --------------------------------
(* An instance of Block. *)
EXTENDS Block

\* Keys of up to three bytes that share prefixes of every length.
MCKeys == { <<>>, <<0>>, <<0, 0>>, <<0, 1>>, <<0, 1, 1>>, <<1>>, <<1, 0>>, <<1, 0, 1>>, <<1, 1>> }

\* Between some of them, and beyond the last.
MCTargets == MCKeys \cup { <<0, 0, 0>>, <<0, 2>>, <<2>> }

===============================================================================
