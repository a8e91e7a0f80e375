----------------------------- MODULE BufferAlloc -----------------------------
(***************************************************************************)
(* The growing buffers of src/src/buffer_alloc.c: one STRING_BUFFER, whose *)
(* length is that of the text in its payload, or one BYTE_BUFFER, whose    *)
(* payload_size is kept.  A construct call appends to the buffer.  The     *)
(* bytes themselves are left out: a payload is the block it points to, the *)
(* size of that block and how much of it holds content; the rest of a      *)
(* STRING_BUFFER's block is zero, which is what ends the text.             *)
(*                                                                         *)
(* An access to a block that is freed, or through NULL, sets ub, and after *)
(* it the program has no further steps.                                    *)
(***************************************************************************)
EXTENDS Naturals

CONSTANTS
    Lengths,      \* the lengths appended
    DefaultAlloc, \* DEFAULT_BUFFER_ALLOC_SIZE
    MaxSize       \* bound: no append beyond this size

ASSUME BufferAllocAssumption ==
    /\ Lengths \subseteq Nat \ {0}
    /\ DefaultAlloc \in Nat \ {0}
    /\ MaxSize \in Nat

\* What else happens in a behaviour: "malloc", "realloc" and "format" are calls
\* that fail, "reuse" is a construct after a free, "empty" is the text "".
Faults == {"malloc", "realloc", "format", "reuse", "empty"}

VARIABLES
    kind,         \* of the buffer, "string" or "byte"; it never changes
    faults,       \* those that may happen, decided at the start
    payload,      \* "null", "live" for a block in use, "freed" for a dangling one
    alloc_size,
    default_alloc,
    size,         \* the length of the text, or payload_size
    block,        \* the bytes the block really has
    lost,         \* a block in use is no longer pointed to, or was not freed
    ub

setting == <<kind, faults>>
bufferVars == <<setting, payload, alloc_size, default_alloc, size, block, lost, ub>>

BufferInit == /\ kind \in {"string", "byte"}
              /\ faults \in SUBSET Faults
              /\ payload = "null"
              /\ alloc_size = 0 /\ default_alloc = 0 /\ size = 0
              /\ block = 0
              /\ lost = FALSE /\ ub = FALSE

-----------------------------------------------------------------------------
(* allocate_buffer *)

\* default_alloc when a first allocation is for n bytes
NewDefault(n) ==
    IF n <= default_alloc THEN default_alloc
    ELSE IF default_alloc < DefaultAlloc THEN DefaultAlloc ELSE n

GrowNeeded_Exactly(n) == size + n > alloc_size
GrowNeeded(n) == size + n + 1 >= alloc_size

\* alloc_size after a realloc for n more bytes
Grown(n) == default_alloc + alloc_size + n + 1

\* The write at the end of the content, through a payload that may be NULL
\* although alloc_size says there is a block.
Appended(n) == /\ size' = size + n
               /\ ub' = (payload' = "null" /\ n > 0)

\* malloc gives a block of zeros with one byte more than alloc_size says ...
Fresh(n) ==
    /\ alloc_size = 0
    /\ default_alloc' = NewDefault(n)
    /\ alloc_size' = n + NewDefault(n)
    /\ payload' = "live"
    /\ block' = alloc_size' + 1
    /\ lost' = (lost \/ payload = "live")
    /\ Appended(n)

\* ... or fails, with the sizes of the block there is not.
FreshFails(n) ==
    /\ "malloc" \in faults
    /\ alloc_size = 0
    /\ default_alloc' = NewDefault(n)
    /\ alloc_size' = n + NewDefault(n)
    /\ payload' = "null"
    /\ block' = 0
    /\ lost' = (lost \/ payload = "live")
    /\ UNCHANGED <<size, ub>>

Grow(n) ==
    /\ alloc_size > 0
    /\ GrowNeeded(n)
    /\ alloc_size' = Grown(n)
    /\ payload' = "live"
    /\ block' = alloc_size'
    /\ Appended(n)
    /\ UNCHANGED <<default_alloc, lost>>

PayloadAfterFailure_Overwritten == "null"
PayloadAfterFailure == payload

GrowFails(n) ==
    /\ "realloc" \in faults
    /\ alloc_size > 0
    /\ GrowNeeded(n)
    /\ payload' = PayloadAfterFailure
    /\ lost' = (lost \/ payload # payload')
    /\ UNCHANGED <<alloc_size, default_alloc, size, block, ub>>

Fits(n) ==
    /\ alloc_size > 0
    /\ ~GrowNeeded(n)
    /\ UNCHANGED <<payload, alloc_size, default_alloc, block, lost>>
    /\ Appended(n)

\* Reading the length of a STRING_BUFFER reads its payload.
Readable == kind = "string" => payload # "freed"

MayAppend(n) ==
    /\ ~ub
    /\ size + n <= MaxSize
    /\ payload = "freed" => "reuse" \in faults
    /\ n = 0 => "empty" \in faults /\ kind = "string"

\* string_buffer_construct, string_buffer_construct_sprintf, which gets here with
\* n > 0 only, and byte_buffer_construct
Construct(n) ==
    /\ MayAppend(n)
    /\ Readable
    /\ UNCHANGED setting
    /\ Fresh(n) \/ FreshFails(n) \/ Grow(n) \/ GrowFails(n) \/ Fits(n)

ConstructFreed(n) ==
    /\ MayAppend(n)
    /\ ~Readable
    /\ ub' = TRUE
    /\ UNCHANGED <<setting, payload, alloc_size, default_alloc, size, block, lost>>

\* string_buffer_construct_sprintf whose formatting fails after allocate_buffer
\* has succeeded.  It frees the payload unless allocate_buffer has set
\* reallocated to true; that variable has no value when nothing was allocated.
FormatFails(n) ==
    /\ "format" \in faults /\ kind = "string" /\ n > 0
    /\ MayAppend(n)
    /\ Readable
    /\ \/ /\ alloc_size = 0
          /\ default_alloc' = NewDefault(n)
          /\ alloc_size' = n + NewDefault(n)
          /\ payload' = "freed"
          /\ block' = alloc_size' + 1
          /\ lost' = (lost \/ payload = "live")
          /\ UNCHANGED ub
       \/ /\ alloc_size > 0
          /\ GrowNeeded(n)
          /\ alloc_size' = Grown(n)
          /\ payload' = "live"
          /\ block' = alloc_size'
          /\ UNCHANGED <<default_alloc, lost, ub>>
       \/ /\ alloc_size > 0
          /\ ~GrowNeeded(n)
          /\ payload' \in IF payload = "live" THEN {"live", "freed"} ELSE {payload}
          /\ ub' = (payload = "null")
          /\ UNCHANGED <<alloc_size, default_alloc, block, lost>>
    /\ UNCHANGED <<setting, size>>

HasBlock == alloc_size > 0

AllocAfterFree_Kept == alloc_size
AllocAfterFree == 0

\* string_buffer_free and byte_buffer_free
Free ==
    /\ ~ub
    /\ ub' = (HasBlock /\ payload = "freed")
    /\ payload' = IF HasBlock /\ payload = "live" THEN "freed" ELSE payload
    /\ lost' = (lost \/ payload' = "live")
    /\ default_alloc' = IF HasBlock THEN 0 ELSE default_alloc
    /\ alloc_size' = AllocAfterFree
    /\ size' = 0
    /\ UNCHANGED <<setting, block>>

BufferNext == \/ \E n \in Lengths \cup {0} : Construct(n) \/ ConstructFreed(n) \/ FormatFails(n)
              \/ Free

BufferSpec == BufferInit /\ [][BufferNext]_bufferVars

-----------------------------------------------------------------------------
(* Properties *)

BufferTypeOK ==
    /\ kind \in {"string", "byte"} /\ faults \subseteq Faults
    /\ payload \in {"null", "live", "freed"}
    /\ {alloc_size, default_alloc, block, size} \subseteq Nat
    /\ lost \in BOOLEAN
    /\ ub \in BOOLEAN
    /\ size <= MaxSize
    /\ payload = "freed" /\ "format" \notin faults => alloc_size = 0 /\ size = 0

\* What ends the content: a zero after the text of a STRING_BUFFER.
Terminator == IF kind = "string" THEN 1 ELSE 0

\* No append writes past the end of the block, through any sequence of first
\* allocations, which have a byte more than alloc_size, and reallocs, which do
\* not; and a text leaves room for the zero that ends it.
WithinBlock == BufferTypeOK /\ (payload = "live" => size + Terminator <= block)

\* What a buffer is made for: whole texts that are not "", a STRING_BUFFER that
\* is not used again after it was freed, and an environment where only realloc
\* fails.  A BYTE_BUFFER may be used again, for its length is kept apart.
WellUsed == faults \subseteq {"realloc"} \cup IF kind = "byte" THEN {"reuse"} ELSE {}

\* No call reads or writes a block that is freed, frees one twice or writes
\* through NULL.
NoUndefinedBehaviour == WellUsed => ~ub

\* Every block is freed by the free call, and none is forgotten when realloc
\* fails or moves it.
NothingLost == WellUsed => ~lost

=============================================================================
