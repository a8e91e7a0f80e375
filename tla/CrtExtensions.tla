---------------------------- MODULE CrtExtensions ----------------------------
(***************************************************************************)
(* The cloning of strings, src/src/crt_extensions.c, on the allocator of   *)
(* MemShim.  Of a string only its length counts.  A caller keeps a char*   *)
(* variable for each clone, frees a clone that was answered with 0, once,  *)
(* and clones into the variable again only then.                           *)
(***************************************************************************)
EXTENDS MemShim

CONSTANTS
    Targets,     \* the variables of callers
    Lengths      \* the lengths of sources, of formatted texts and of source_len

NULL == "NULL"

ASSUME CrtAssumption == Lengths \subseteq Nat /\ NULL \notin Ptrs

NoFormat == [target |-> NULL, from |-> 0, length |-> 0]

VARIABLES
    target,      \* what each variable points to, which may be a block no more
    clones,      \* the variables with a clone
    written,     \* the bytes written to each clone, terminator included
    formatting   \* the call between its malloc and its second vsnprintf

crt == <<target, clones, written, formatting>>

CrtInit == /\ target = [t \in Targets |-> NULL]
           /\ clones = {}
           /\ written = [t \in Targets |-> 0]
           /\ formatting = NoFormat

Idle == formatting = NoFormat

\* *target = malloc(size), which may fail
Alloc(t, p, size) ==
    /\ Idle /\ t \notin clones
    /\ target' = [target EXCEPT ![t] = p]
    /\ IF p = NULL THEN UNCHANGED <<head, counts, gballocState, blocks, peak, left>>
       ELSE Malloc(p, size)

Filled(t, p, n) ==
    /\ clones' = IF p = NULL THEN clones ELSE clones \cup {t}
    /\ written' = IF p = NULL THEN written ELSE [written EXCEPT ![t] = n]
    /\ UNCHANGED formatting

\* the size that is asked for a clone of so many characters
CloneSize(length) == length + 1

\* clone_string: the block is cleared and the characters copied.
CloneString(t, p, length) ==
    /\ Alloc(t, p, CloneSize(length))
    /\ Filled(t, p, length + 1)

\* clone_string_with_size, of no more characters than source has
CloneStringWithSize(t, p, length, source_len) ==
    /\ source_len \in 1 .. length
    /\ Alloc(t, p, CloneSize(source_len))
    /\ Filled(t, p, source_len + 1)

\* The formatted clones up to the malloc: room for a text behind as many
\* characters of source; a text of no characters is refused before it.
Format(t, p, source_len, length) ==
    /\ length > 0
    /\ Alloc(t, p, CloneSize(length + source_len))
    /\ formatting' = IF p = NULL THEN NoFormat
                     ELSE [target |-> t, from |-> source_len, length |-> length]
    /\ UNCHANGED <<clones, written>>

\* clone_string_with_format
CloneStringWithFormat(t, p, length) == Format(t, p, 0, length)

\* clone_string_with_size_format; strncpy fills source_len characters.
CloneStringWithSizeFormat(t, p, source_len, length) == Format(t, p, source_len, length)

\* the second vsnprintf, behind what strncpy has filled
FormatDone ==
    /\ ~Idle
    /\ clones' = clones \cup {formatting.target}
    /\ written' = [written EXCEPT ![formatting.target] = formatting.from + formatting.length + 1]
    /\ formatting' = NoFormat
    /\ UNCHANGED <<head, counts, gballocState, blocks, peak, left, target>>

\* mutation: the block stays
FormatFails_Leaks ==
    /\ ~Idle
    /\ formatting' = NoFormat
    /\ UNCHANGED <<head, counts, gballocState, blocks, peak, left, target, clones, written>>

\* vsnprintf fails: the block is freed, and *target still points to it.
FormatFails ==
    /\ ~Idle
    /\ Free(target[formatting.target])
    /\ formatting' = NoFormat
    /\ UNCHANGED <<target, clones, written>>

\* The caller frees its clone.
FreeClone(t) ==
    /\ Idle /\ t \in clones
    /\ Free(target[t])
    /\ clones' = clones \ {t}
    /\ written' = [written EXCEPT ![t] = 0]
    /\ UNCHANGED <<target, formatting>>

CrtNext ==
    \/ \E t \in Targets, p \in Ptrs \cup {NULL}, n, k \in Lengths :
          \/ CloneString(t, p, n)
          \/ CloneStringWithSize(t, p, n, k)
          \/ CloneStringWithFormat(t, p, n)
          \/ CloneStringWithSizeFormat(t, p, n, k)
    \/ FormatDone \/ FormatFails
    \/ \E t \in Targets : FreeClone(t)

CloneBlocks == {target[t] : t \in clones \cup (IF Idle THEN {} ELSE {formatting.target})}

=============================================================================
