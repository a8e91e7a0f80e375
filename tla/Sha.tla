--------------------------------- MODULE Sha ---------------------------------
(***************************************************************************)
(* A hash context of src/src/sha256_impl.c or src/src/sha512_impl.c, which *)
(* are the same program for other sizes, used directly through its         *)
(* SHA_HASH_INTERFACE or through src/src/sha_algorithms.c.                 *)
(*                                                                         *)
(* A message is absorbed byte by byte, in calls of any lengths, into a     *)
(* block that is compressed whenever it is full; a length in two words     *)
(* counts its bits.  The compression function stays abstract: what the     *)
(* intermediate hash depends on is the sequence of all bytes compressed so *)
(* far, hashed.  Bytes are abstract too: the i-th byte of the message is   *)
(* Byte(i), so that one lost, repeated or moved shows.                     *)
(***************************************************************************)
EXTENDS Integers, Sequences

CONSTANTS
    Variants,    \* the hashes: the code has [block |-> 64, length |-> 8, hash |-> 32]
                 \* with words below 2^32, and [block |-> 128, length |-> 16,
                 \* hash |-> 64] with words below 2^64
    ArrayLengths,     \* what callers give as array_len
    DigestSizes, \* what callers give as digest_len, which is never more than the
                 \* size of the hash: the code would read past the hash
    MaxBytes     \* bound: no call that gives bytes beyond this

ASSUME ShaAssumption ==
    /\ \A v \in Variants :
          /\ {v.block, v.length, v.word, v.hash} \subseteq Nat \ {0}
          /\ v.length < v.block
          /\ v.word % 8 = 0
    /\ ArrayLengths \subseteq Nat \ {0}
    /\ DigestSizes \subseteq Nat
    /\ MaxBytes \in Nat

VARIABLES
    variant,
    impl,            \* the context of the implementation exists
    algorithm,       \* a SHA_CTX of sha_algorithms exists
    hashed,          \* the bytes that went into intermediate_hash
    msg_block, msg_block_index,
    len_low, len_high,
    is_computed, is_corrupted,
    call,            \* the call in progress: its function, the bytes still to be
                     \* absorbed, and the size of its digest
    given,           \* the bytes of all calls that the implementation accepted
    answered         \* a digest was returned

context == <<hashed, msg_block, msg_block_index, len_low, len_high, is_computed, is_corrupted>>
shaVars == <<variant, impl, algorithm, context, call, given, answered>>

Block == variant.block
Low == Block - variant.length    \* where the length starts in the last block

Token == ({"byte", "pad", "zero"} \X Nat) \cup ({"len_high", "len_low"} \X Nat \X Nat)

Byte(i) == <<"byte", i>>
Pad == <<"pad", 0>>              \* 0x80
Zero == <<"zero", 0>>

NoCall == [fn |-> "none", left |-> 0, digest_len |-> 0]

\* memset and the initial hash value
Zeroed ==
    /\ hashed' = <<>>
    /\ msg_block' = [j \in 1 .. Block |-> Zero] /\ msg_block_index' = 0
    /\ len_low' = 0 /\ len_high' = 0
    /\ is_computed' = FALSE /\ is_corrupted' = FALSE
    /\ given' = 0 /\ answered' = FALSE

ShaInit == /\ variant \in Variants
        /\ impl = FALSE /\ algorithm = FALSE
        /\ hashed = <<>>
        /\ msg_block = [j \in 1 .. Block |-> Zero] /\ msg_block_index = 0
        /\ len_low = 0 /\ len_high = 0
        /\ is_computed = FALSE /\ is_corrupted = FALSE
        /\ call = NoCall
        /\ given = 0 /\ answered = FALSE

Idle == call = NoCall

\* sha256_process_msg_block and sha512_process_msg_block, for one block or two
Compressed(blocks) == hashed \o blocks

-----------------------------------------------------------------------------

\* sha256_initialize and sha512_initialize, called directly
Initialize ==
    /\ ~impl /\ ~algorithm
    /\ impl' = TRUE
    /\ Zeroed
    /\ UNCHANGED <<variant, algorithm, call>>

\* sha_algorithms_init; whether initialize_fn found memory is not looked at.
AlgorithmsInit ==
    /\ ~impl /\ ~algorithm
    /\ algorithm' = TRUE
    /\ impl' \in BOOLEAN
    /\ Zeroed
    /\ UNCHANGED <<variant, call>>

\* deinit of the implementation, or sha_algorithms_deinit
Deinit ==
    /\ Idle
    /\ impl \/ algorithm
    /\ impl' = FALSE /\ algorithm' = FALSE
    /\ UNCHANGED <<variant, context, call, given, answered>>

\* "Only compute the hash once and if we're errored then fail"
Accepts == ~is_computed /\ ~is_corrupted

\* The process function is called with n bytes, which it absorbs one by one.
Begin(fn, n, digest_len) ==
    /\ given + n <= MaxBytes
    /\ impl /\ Accepts
    /\ call' = [fn |-> fn, left |-> n, digest_len |-> digest_len]
    /\ given' = given + n
    /\ UNCHANGED <<variant, impl, algorithm, context, answered>>

\* sha256_process_hash, called directly; a call that is refused changes nothing
Process(n) == Idle /\ ~algorithm /\ Begin("process_hash", n, 0)

\* sha_algorithms_process
AlgorithmsProcess(n, digest_len) ==
    /\ Idle /\ algorithm
    /\ digest_len <= variant.hash
    /\ Begin("sha_algorithms_process", n, digest_len)

\* The words of the length once 8 bits are added, and whether they overflow.
Carries == len_low + 8 >= variant.word
Corrupts == Carries /\ len_high + 1 = variant.word

\* When a block is to be compressed: the index is one past its last byte.
Full_Late(index) == index = Block + 1
Full(index) == index = Block

\* One turn of the loop of the process function
Absorb ==
    /\ call.left > 0 /\ ~is_corrupted
    /\ LET index == msg_block_index + 1
           block == [msg_block EXCEPT ![index] = Byte(given - call.left + 1)]
       IN /\ msg_block' = block
          /\ len_low' = (len_low + 8) % variant.word
          /\ len_high' = IF Carries THEN (len_high + 1) % variant.word ELSE len_high
          /\ is_corrupted' = Corrupts
          /\ IF ~Corrupts /\ Full(index)
             THEN hashed' = Compressed(block) /\ msg_block_index' = 0
             ELSE msg_block_index' = index /\ UNCHANGED hashed
    /\ call' = [call EXCEPT !.left = @ - 1]
    /\ UNCHANGED <<variant, impl, algorithm, is_computed, given, answered>>

\* The process function returns: 0, also when it stopped for the overflow.
ProcessReturns ==
    /\ call.fn = "process_hash"
    /\ call.left = 0 \/ is_corrupted
    /\ call' = NoCall
    /\ UNCHANGED <<variant, impl, algorithm, context, given, answered>>

-----------------------------------------------------------------------------

\* The length is stored big-endian, len_high first, in the last bytes of a block.
LengthByte(high, low, k) ==
    LET half == variant.length \div 2
    IN IF k <= half THEN <<"len_high", high, k>> ELSE <<"len_low", low, k - half>>

WithLength(block) ==
    [j \in 1 .. Block |-> IF j <= Low THEN block[j] ELSE LengthByte(len_high, len_low, j - Low)]

\* The block with the pad byte after what it holds, and zeros to its end.
WithPad == [j \in 1 .. Block |-> IF j <= msg_block_index THEN msg_block[j]
                                ELSE IF j = msg_block_index + 1 THEN Pad
                                ELSE Zero]

\* Whether the pad byte and the length do not fit into the last block together.
NeedsSecond_Late == msg_block_index > Low
NeedsSecond == msg_block_index >= Low

\* What pad_256_msg and pad_512_msg compress
Padding ==
    IF NeedsSecond
    THEN WithPad \o WithLength([j \in 1 .. Block |-> Zero])
    ELSE WithLength(WithPad)

\* sha256_retrieve_result succeeds: pads on the first call only.
Finish ==
    /\ IF is_computed
       THEN UNCHANGED context
       ELSE /\ hashed' = Compressed(Padding)
            /\ msg_block' = [j \in 1 .. Block |-> Zero] /\ msg_block_index' = 0
            /\ len_low' = 0 /\ len_high' = 0
            /\ is_computed' = TRUE
            /\ UNCHANGED is_corrupted
    /\ answered' = TRUE

MayAnswer(digest_len) == digest_len >= variant.hash /\ ~is_corrupted

\* sha256_retrieve_result, called directly; one that fails changes nothing
Retrieve(digest_len) ==
    /\ impl /\ Idle /\ ~algorithm
    /\ digest_len <= variant.hash
    /\ MayAnswer(digest_len)
    /\ Finish
    /\ UNCHANGED <<variant, impl, algorithm, call, given>>

\* sha_algorithms_process goes on to retrieve_result_fn and returns; when that
\* fails, as for a short digest, the bytes stay absorbed.
AlgorithmsReturns ==
    /\ call.fn = "sha_algorithms_process"
    /\ call.left = 0 \/ is_corrupted
    /\ IF MayAnswer(call.digest_len) THEN Finish ELSE UNCHANGED <<context, answered>>
    /\ call' = NoCall
    /\ UNCHANGED <<variant, impl, algorithm, given>>

ShaNext ==
    \/ Initialize \/ AlgorithmsInit \/ Deinit
    \/ \E n \in ArrayLengths : Process(n) \/ \E d \in DigestSizes : AlgorithmsProcess(n, d)
    \/ Absorb \/ ProcessReturns
    \/ \E d \in DigestSizes : Retrieve(d)
    \/ AlgorithmsReturns

ShaSpec == ShaInit /\ [][ShaNext]_shaVars

-----------------------------------------------------------------------------
(* Properties *)

ShaTypeOK ==
    /\ variant \in Variants
    /\ impl \in BOOLEAN /\ algorithm \in BOOLEAN
    /\ hashed \in Seq(Token)
    /\ msg_block \in [1 .. Block -> Token]
    /\ msg_block_index \in Nat
    /\ len_low \in 0 .. variant.word - 1 /\ len_high \in 0 .. variant.word - 1
    /\ is_computed \in BOOLEAN /\ is_corrupted \in BOOLEAN
    /\ call \in [fn : {"none", "process_hash", "sha_algorithms_process"},
                left : Nat, digest_len : Nat]
    /\ given \in Nat
    /\ answered \in BOOLEAN

\* The padded message of FIPS 180-2, section 5.1: n bytes, the pad byte, the
\* fewest zeros that make it a multiple of the block, and the length in bits.
PaddedLength(n) == ((n + variant.length) \div Block + 1) * Block

Padded(n) ==
    LET end == PaddedLength(n)
        bits == 8 * n
    IN [j \in 1 .. end |->
          IF j <= n THEN Byte(j)
          ELSE IF j = n + 1 THEN Pad
          ELSE IF j <= end - variant.length THEN Zero
          ELSE LengthByte(bits \div variant.word, bits % variant.word,
                          j - (end - variant.length))]

\* Every digest that is returned, also by a second call, is the one of all bytes
\* the context accepted, in their order, whatever the calls they came in and the
\* number of them in the last block; so a message too long to be counted gets none.
DigestIsOfMessage == answered => hashed = Padded(given)

\* No byte of the message and no pad byte is ever written past the end of
\* msg_block: the index is inside it whenever another one may follow.
IndexInBlock ==
    /\ ShaTypeOK
    /\ msg_block_index <= Block
    /\ is_corrupted \/ msg_block_index < Block

=============================================================================
