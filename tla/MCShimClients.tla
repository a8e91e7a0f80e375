---------------------------- MODULE MCShimClients ----------------------------
(* The allocator and its clients, with addresses that are alike. *)
EXTENDS ShimClients

MCCompanies == {{"application", "strings"}, {"file"}}

MCAlike == Permutations(Ptrs)

=============================================================================
