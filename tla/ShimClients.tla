----------------------------- MODULE ShimClients -----------------------------
(***************************************************************************)
(* The counting allocator with those who use it: the cloning of strings,   *)
(* the file manager, and an application that allocates, resizes and frees  *)
(* blocks of its own.                                                      *)
(***************************************************************************)
EXTENDS CrtExtensions, FileMgr

CONSTANT Companies   \* bound: the sets of clients of which one is at work, of
                     \* "application", "strings" and "file"

VARIABLES
    app,         \* the blocks of the application
    company

allVars == <<vars, crt, fileVars, app, company>>

ClientsInit == Init /\ CrtInit /\ FileInit /\ app = {} /\ company \in Companies

Shim == /\ ShimInit \/ ShimDeinit \/ Reset
        /\ UNCHANGED <<crt, fileVars, app>>

AppAllocates ==
    /\ \E p \in Ptrs :
          /\ app' = app \cup {p}
          /\ \E s \in Sizes : Malloc(p, s) \/ \E n \in 1 .. 2 : Calloc(p, n, s)
    /\ UNCHANGED <<crt, fileVars>>

AppResizes ==
    /\ \E p \in app, q \in Ptrs, s \in Sizes :
          /\ Realloc(p, q, s)
          /\ app' = (app \ {p}) \cup {q}
    /\ UNCHANGED <<crt, fileVars>>

AppFrees ==
    /\ \E p \in app : Free(p) /\ app' = app \ {p}
    /\ UNCHANGED <<crt, fileVars>>

ClientsNext ==
    /\ \/ Shim
       \/ "application" \in company /\ (AppAllocates \/ AppResizes \/ AppFrees)
       \/ "strings" \in company /\ CrtNext /\ UNCHANGED <<fileVars, app>>
       \/ "file" \in company /\ FileNext /\ UNCHANGED <<crt, app>>
    /\ UNCHANGED company

ClientsSpec == ClientsInit /\ [][ClientsNext]_allVars

-----------------------------------------------------------------------------

\* Every block in use has exactly one owner, who frees it once: no call of
\* crt_extensions.c or file_mgr.c that fails keeps a block or leaves its caller
\* one it does not know of, and no clone overruns its block.
EveryBlockHasItsOwner ==
    /\ DOMAIN blocks = app \cup CloneBlocks \cup InfoBlocks
    /\ Cardinality(DOMAIN blocks) =
          Cardinality(app) + Cardinality(clones) + (IF Idle THEN 0 ELSE 1) + Cardinality(InfoBlocks)
    /\ \A t \in clones : written[t] <= blocks[target[t]]

\* Asking for the length and then reading so many bytes gives the whole file,
\* wherever the stream was (the second fseek of file_mgr_get_length).
LengthThenRead ==
    [][\A n \in 1 .. MaxFile : Read(n) /\ measured = n /\ Stream \in Reads
          => pos = 0 /\ pos' = Len(file)]_allVars

\* What is in a file opened to append to stays, through the positioning of
\* file_mgr_get_length too (get_file_mode).
AppendKeeps ==
    [][info' # NoInfo /\ mode' \in {"file_mode_append", "file_mode_read_append"}
          => IsPrefix(file, file')]_allVars

=============================================================================
