-------------------------------- MODULE MCReader --------------------------------
(* Instances of Reader. *)
EXTENDS Reader

Leaf(ks, s) == [keys |-> ks, sep |-> s]

\* Files of no leaf, of one, and of three leaves with separators on and between
\* the keys.
MCFiles == {
    <<>>,
    <<Leaf(<<2, 4>>, 4)>>,
    <<Leaf(<<1, 2>>, 3), Leaf(<<4>>, 4), Leaf(<<6, 7>>, 7)>> }

\* The first leaf at the start of the file, and behind reserved bytes
MCBases == {0, 2}

MCKeys == 0..8

===============================================================================
