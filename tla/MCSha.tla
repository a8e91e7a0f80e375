-------------------------------- MODULE MCSha --------------------------------
(* The sizes of SHA-256 and SHA-512, with shorter words for the length. *)
EXTENDS Sha

MCVariants == {[block |-> 64, length |-> 8, hash |-> 32, word |-> 32],
               [block |-> 128, length |-> 16, hash |-> 64, word |-> 64]}

=============================================================================
