--------------------------------- MODULE MCFile ---------------------------------
(* An instance of File. *)
EXTENDS File

\* The smallest block, and one that has what looks like a trailer: zeros and the
\* magic number, in bytes.
MCContents == { <<0, 1, 1, 2>>, [i \in 1..22 |-> 0] \o <<178, 179>> }

===============================================================================
