------------------------------ MODULE Platform ------------------------------
(***************************************************************************)
(* What the components of src/src/pal have in common: the threads that     *)
(* call them, and the platform whose directory the library was built from, *)
(* "posix" (pal/linux) or "win" (pal/win).                                 *)
(***************************************************************************)
CONSTANTS Threads, NULL
VARIABLE platform

PlatformInit == platform \in {"posix", "win"}

=============================================================================
