--------------------------- MODULE MCBinaryEncoder ---------------------------
(* Messages of one to seven bytes of different bit patterns, with trailers *)
(* of foreign characters, of letters and of bytes that are not ASCII.      *)
EXTENDS BinaryEncoder

Patterns == {<<165, 255, 90, 1, 128, 60, 231>>, <<0, 0, 0, 0, 0, 0, 0>>,
             <<255, 255, 255, 255, 255, 255, 255>>, <<18, 52, 86, 120, 154, 188, 222>>}

MCMessages == {SubSeq(p, 1, n) : p \in Patterns, n \in 1 .. 7}

MCTrailers == {<<>>} \cup {[j \in 1 .. 16 |-> c] : c \in {95, 65, 200}}

MCCapacities == {Null, 0, 1, 2, 3, 4, 5, 6, 7, 8, 9, 10, 12, 13, 16, 17}

=============================================================================
