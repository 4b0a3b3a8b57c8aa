-------------------------------- MODULE MCWriter --------------------------------
(* An instance of Writer. *)
EXTENDS Writer

\* The empty key, keys that differ by one in a byte, so that only the two byte
\* separator or none is left, one that is longer than another, and a gap.
MCKeys == { <<>>, <<0, 255, 9>>, <<1, 0>>, <<1, 0, 1>>, <<1, 2, 7>>, <<9>> }

===============================================================================
