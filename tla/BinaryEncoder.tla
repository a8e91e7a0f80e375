---------------------------- MODULE BinaryEncoder ----------------------------
(***************************************************************************)
(* src/src/binary_encoder.c: a caller encodes a message in base 32 or base *)
(* 64 and decodes the text, all of it or the first characters of a buffer  *)
(* in which other text follows, with output buffers of any size.           *)
(*                                                                         *)
(* Bytes and characters are their codes.  One iteration of a loop over the *)
(* groups (5 bytes and 8 characters, or 3 and 4) is one step.  A text is   *)
(* only decoded when the encoder made it.  The functions keep nothing      *)
(* between calls, so a behaviour is about one message, and a text is       *)
(* decoded once.                                                           *)
(***************************************************************************)
EXTENDS Integers, Sequences, FiniteSets

CONSTANTS
    Messages,    \* what callers encode: sequences of bytes
    Trailers,    \* what follows the text in the buffer of a partial decode
    Capacities,  \* the sizes of output buffers; Null: there is none
    SizeMax      \* SIZE_MAX

Null == -1
Byte == 0 .. 255
Group == [base32 |-> 5, base64 |-> 3]     \* bytes of a group
Width == [base32 |-> 8, base64 |-> 4]     \* and its characters

\* A trailer has the characters of two groups.  Behind a shorter one the loop of
\* base 32, which looks for the terminator between groups only, reads beyond it:
\* what it then does is not modelled.
ASSUME EncoderAssumption ==
    /\ Messages \subseteq Seq(Byte) \ {<<>>}
    /\ Trailers \subseteq {t \in Seq(Byte \ {0}) : t = <<>> \/ Len(t) >= 16}
    /\ Capacities \subseteq Nat \cup {Null}
    /\ SizeMax \in Nat

VARIABLES
    message,             \* what the caller encodes
    encoding, text,      \* its text, <<>> when there is none
    pc,                  \* "idle", or the loop that the call in progress is in
    fn,                  \* that call, or the last one: "encode" or "decode"
    source, src_len,     \* what a decode is given
    capacity,            \* *result_len of the caller, and Null for no output
    output,              \* what the call has written to the output
    group,               \* groups done
    dest_size,
    result, result_len

input == <<message, encoding, fn, source, src_len, capacity>>
vars == <<input, text, pc, output, group, dest_size, result, result_len>>

Equal == 61    \* '='
Nul == 0

\* base_64_encode_char
Char64(v) == IF v < 26 THEN 65 + v
             ELSE IF v < 52 THEN 97 + (v - 26)
             ELSE IF v < 62 THEN 48 + (v - 52)
             ELSE IF v = 62 THEN 43 ELSE 47

\* base_64_base_16, "AEIMQUYcgkosw048", and base_64_base_8, "AQgw"
Base16(v) == <<65, 69, 73, 77, 81, 85, 89, 99, 103, 107, 111, 115, 119, 48, 52, 56>>[v + 1]
Base8(v) == <<65, 81, 103, 119>>[v + 1]

\* base64_to_value: the characters it takes, and their values
IsBase64(c) == c \in 65 .. 90 \cup 97 .. 122 \cup 48 .. 57 \cup {43, 47}
Value64(c) == CASE c \in 65 .. 90 -> c - 65
                [] c \in 97 .. 122 -> 26 + (c - 97)
                [] c \in 48 .. 57 -> 52 + (c - 48)
                [] c = 43 -> 62
                [] c = 47 -> 63
                [] OTHER -> 0

\* BASE32_VALUES, in which 32 is the padding
Char32(v) == IF v < 26 THEN 97 + v ELSE IF v < 32 THEN 50 + (v - 26) ELSE Equal

\* convert_value_to_base32_char: both cases, and '{' as one letter more
Value32(c) == CASE c \in 50 .. 55 -> 26 + (c - 50)
                [] c = Equal -> 32
                [] c \in 65 .. 90 -> c - 65
                [] c \in 97 .. 123 -> c - 97
                [] OTHER -> 255

\* The difference of two values of size_t
Minus(a, b) == IF b <= a THEN a - b ELSE SizeMax + 1 + a - b

\* mutation: the padding is always taken for two characters
DecodingLen_TwoPads(s, n, type) ==
    IF type = "base32" THEN (n * 5) \div 8
    ELSE Minus((n \div 4) * 3, IF s[n] # Equal THEN 0 ELSE 2)

EncodingLen(n, type) ==
    IF type = "base64" THEN IF n = 0 THEN 0 ELSE ((n - 1) \div 3 + 1) * 4
    ELSE ((n + 4) \div 5) * 8

DecodingLen(s, n, type) ==
    IF type = "base32" THEN (n * 5) \div 8
    ELSE Minus((n \div 4) * 3,
               IF s[n] # Equal THEN 0 ELSE IF s[n - 1] # Equal THEN 1 ELSE 2)

-----------------------------------------------------------------------------

\* A group of base 64: the body of the loop, and the tails of 2 and 1 bytes
Encode64(s) ==
    LET c1 == Char64(s[1] \div 4)
        c2 == Char64((s[1] % 4) * 16 + s[2] \div 16)
    IN  CASE Len(s) = 3 -> <<c1, c2, Char64((s[2] % 16) * 4 + s[3] \div 64), Char64(s[3] % 64)>>
          [] Len(s) = 2 -> <<c1, c2, Base16(s[2] % 16), Equal>>
          [] Len(s) = 1 -> <<c1, Base8(s[1] % 4), Equal, Equal>>

\* A group of base 32: the switch that falls through from block_len leaves
\* the bits of missing bytes 0, and the next one sets the padding.
Encode32(s) ==
    LET b(k) == IF k <= Len(s) THEN s[k] ELSE 0
        pads == CASE Len(s) = 1 -> 3 .. 8
                  [] Len(s) = 2 -> 5 .. 8
                  [] Len(s) = 3 -> 6 .. 8
                  [] Len(s) = 4 -> {8}
                  [] OTHER -> {}
        pos == <<b(1) \div 8,
                 (b(1) % 8) * 4 + b(2) \div 64,
                 (b(2) \div 2) % 32,
                 (b(2) % 2) * 16 + b(3) \div 16,
                 (b(3) % 16) * 2 + b(4) \div 128,
                 (b(4) \div 4) % 32,
                 (b(4) % 4) * 8 + b(5) \div 32,
                 b(5) % 32>>
    IN  [j \in 1 .. 8 |-> Char32(IF j \in pads THEN 32 ELSE pos[j])]

\* The bytes of four characters, and of two or three
Decode64(c) ==
    LET v == [j \in DOMAIN c |-> Value64(c[j])]
        b1 == (v[1] * 4 + v[2] \div 16) % 256
        b2 == (v[2] % 16) * 16 + v[3] \div 4
    IN  CASE Len(c) = 4 -> <<b1, b2, (v[3] % 4) * 64 + v[4]>>
          [] Len(c) = 3 -> <<b1, b2>>
          [] Len(c) = 2 -> <<b1>>
          [] OTHER -> <<>>

\* The five bytes of eight values, of which padding and foreign characters are some
Decode32(v) ==
    <<(v[1] % 32) * 8 + (v[2] % 32) \div 4,
      (v[2] % 4) * 64 + (v[3] % 32) * 2 + ((v[4] \div 16) % 2),
      (v[4] % 16) * 16 + (v[5] % 32) \div 2,
      (v[5] % 2) * 128 + (v[6] % 32) * 4 + (v[7] % 32) \div 8,
      (v[7] % 8) * 32 + (v[8] % 32)>>

\* mutation: the innermost test is missing
Padding_Three(v) == IF v[8] # 32 THEN 0 ELSE IF v[6] # 32 THEN 1
                    ELSE IF v[5] # 32 THEN 2 ELSE 3

\* "If there is padding remove it": it is at 8, at 6 to 8, at 5 to 8 or at 3 to 8.
Padding(v) == IF v[8] # 32 THEN 0 ELSE IF v[6] # 32 THEN 1
              ELSE IF v[5] # 32 THEN 2 ELSE IF v[3] # 32 THEN 3 ELSE 4

\* get_base64_char_count, which nothing but the text itself bounds
Count64(s) == Cardinality({n \in 1 .. Len(s) : \A j \in 1 .. n : IsBase64(s[j])})

Chunk(s, size) == SubSeq(s, group * size + 1,
                         IF group * size + size <= Len(s) THEN group * size + size ELSE Len(s))

-----------------------------------------------------------------------------

Init == /\ message \in Messages
        /\ encoding \in {"base32", "base64"}
        /\ text = <<>> /\ pc = "idle" /\ fn = "none"
        /\ source = <<>> /\ src_len = 0 /\ capacity = Null
        /\ output = <<>> /\ group = 0 /\ dest_size = 0
        /\ result = 0 /\ result_len = 0

Returns(r, len) == /\ pc' = "idle" /\ result' = r /\ result_len' = len

\* bin_encoder_32_encode and bin_encoder_64_encode, up to their loops.  Without
\* room both give the length; with a buffer, base 64 still answers 0.
Encode(type, cap) ==
    LET need == EncodingLen(Len(message), type)
    IN  /\ pc = "idle"
        /\ encoding' = type /\ capacity' = cap /\ UNCHANGED message
        /\ text' = <<>> /\ fn' = "encode" /\ source' = <<>> /\ src_len' = 0
        /\ group' = 0 /\ dest_size' = 0
        /\ IF cap = Null \/ cap <= need
           THEN /\ Returns(IF type = "base64" /\ cap # Null THEN 0 ELSE -1, need)
                /\ output' = <<>>
           ELSE /\ pc' = "encode"
                /\ output' = IF type = "base32" THEN [j \in 1 .. need + 1 |-> Nul] ELSE <<>>
                /\ result_len' = (IF type = "base64" THEN need ELSE cap)
                /\ UNCHANGED result

\* One iteration of the loop over the message
Encode32Group ==
    /\ pc = "encode" /\ encoding = "base32"
    /\ 5 * group < Len(message)
    /\ output' = [j \in 1 .. Len(output) |->
                    IF j - 8 * group \in 1 .. 8 THEN Encode32(Chunk(message, 5))[j - 8 * group]
                    ELSE output[j]]
    /\ group' = group + 1
    /\ UNCHANGED <<input, text, pc, dest_size, result, result_len>>

Encode32Returns ==
    /\ pc = "encode" /\ encoding = "base32"
    /\ 5 * group >= Len(message)
    /\ Returns(0, EncodingLen(Len(message), "base32"))
    /\ text' = SubSeq(output, 1, Len(output) - 1)
    /\ UNCHANGED <<input, output, group, dest_size>>

Encode64Group ==
    /\ pc = "encode" /\ encoding = "base64"
    /\ Len(message) - 3 * group >= 3
    /\ output' = output \o Encode64(Chunk(message, 3))
    /\ group' = group + 1
    /\ UNCHANGED <<input, text, pc, dest_size, result, result_len>>

\* The tail and the terminator
Encode64Returns ==
    /\ pc = "encode" /\ encoding = "base64"
    /\ Len(message) - 3 * group < 3
    /\ text' = IF 3 * group = Len(message) THEN output ELSE output \o Encode64(Chunk(message, 3))
    /\ output' = Append(text', Nul)
    /\ Returns(0, result_len)
    /\ UNCHANGED <<input, group, dest_size>>

-----------------------------------------------------------------------------

\* The four decoding functions, up to their loops: trailer is what follows the
\* text, and n the length given, which without _partial is that of the text.
Decode(n, trailer, cap) ==
    LET s == text \o trailer
        need == DecodingLen(s, n, encoding)
    IN  /\ pc = "idle" /\ fn = "encode" /\ text # <<>>
        /\ fn' = "decode" /\ source' = s /\ src_len' = n /\ capacity' = cap
        /\ output' = <<>> /\ group' = 0 /\ dest_size' = 0
        /\ \/ /\ cap = Null
              /\ Returns(-1, need)
           \/ /\ cap # Null /\ n % Width[encoding] # 0
              /\ Returns(-1, cap)
           \/ /\ cap # Null /\ n % Width[encoding] = 0 /\ cap < need
              /\ Returns(-1, need)
           \/ /\ cap # Null /\ n % Width[encoding] = 0 /\ cap >= need
              /\ pc' = "decode" /\ UNCHANGED result
              /\ result_len' = IF encoding = "base64" THEN need ELSE cap
        /\ UNCHANGED <<message, encoding, text>>

\* decode_base32_source_value: another iteration as long as the terminator is
\* not reached and the bytes so far are not all but one of allocation_len.
AllocationLen == DecodingLen(source, src_len, "base32")
Decoding32 == pc = "decode" /\ encoding = "base32"

\* mutation: until all the bytes are there
MoreOf32_All == 8 * group < Len(source) /\ dest_size < AllocationLen

MoreOf32 == 8 * group < Len(source) /\ dest_size + 1 < AllocationLen

\* One iteration over eight characters
Decode32Group ==
    LET chars == Chunk(source, 8)
        input8 == [j \in 1 .. 8 |-> Value32(chars[j])]
    IN  /\ Decoding32 /\ MoreOf32
        /\ IF (\E j \in 1 .. 8 : chars[j] >= 128) \/ dest_size + 5 > AllocationLen
           THEN /\ Returns(-1, AllocationLen)
                /\ UNCHANGED <<output, group, dest_size>>
           ELSE /\ output' = output \o Decode32(input8)
                /\ group' = group + 1
                /\ dest_size' = dest_size + 5 - Padding(input8)
                /\ result_len' = dest_size' /\ result' = 0
                /\ UNCHANGED pc
        /\ UNCHANGED <<input, text>>

Decode32Returns ==
    /\ Decoding32 /\ ~MoreOf32
    /\ Returns(0, result_len)
    /\ UNCHANGED <<input, text, output, group, dest_size>>

\* decode_base64_source_value: four characters, and in the end two or three
Decode64Group ==
    /\ pc = "decode" /\ encoding = "base64"
    /\ Count64(source) - 4 * group >= 4
    /\ output' = output \o Decode64(Chunk(source, 4))
    /\ group' = group + 1
    /\ UNCHANGED <<input, text, pc, dest_size, result, result_len>>

Decode64Returns ==
    /\ pc = "decode" /\ encoding = "base64"
    /\ Count64(source) - 4 * group < 4
    /\ output' = output \o Decode64(SubSeq(source, 4 * group + 1, Count64(source)))
    /\ Returns(0, result_len)
    /\ UNCHANGED <<input, text, group, dest_size>>

Next ==
    \/ \E type \in {"base32", "base64"}, cap \in Capacities : Encode(type, cap)
    \/ Encode32Group \/ Encode32Returns
    \/ Encode64Group \/ Encode64Returns
    \/ \E n \in 1 .. Len(text), trailer \in Trailers, cap \in Capacities : Decode(n, trailer, cap)
    \/ Decode32Group \/ Decode32Returns
    \/ Decode64Group \/ Decode64Returns

Spec == Init /\ [][Next]_vars

-----------------------------------------------------------------------------

TypeOK == /\ message \in Seq(Byte) \ {<<>>}
          /\ encoding \in {"base32", "base64"}
          /\ text \in Seq(Byte) /\ source \in Seq(Byte) /\ output \in Seq(Byte)
          /\ pc \in {"idle", "encode", "decode"} /\ fn \in {"none", "encode", "decode"}
          /\ src_len \in Nat /\ group \in Nat /\ dest_size \in Nat /\ result_len \in Nat
          /\ capacity \in Nat \cup {Null}
          /\ result \in {0, -1}

Answered(f) == pc = "idle" /\ fn = f /\ result = 0

\* The bytes that the first n characters of the text of a message hold
Held(n) == LET all == (n \div Width[encoding]) * Group[encoding]
           IN  IF all <= Len(message) THEN all ELSE Len(message)

\* A decode that answers 0 gives exactly the bytes that were encoded in the
\* characters it was given, for every remainder of the last group and however
\* much follows them (calculate_decoding_len, the padding rules).
RoundTrip ==
    Answered("decode") =>
        /\ result_len = Held(src_len)
        /\ SubSeq(output, 1, result_len) = SubSeq(message, 1, Held(src_len))

\* The one call that decodes more than it is given: nothing bounds the count of
\* base 64 characters but the text, where unpadded text is followed by more.
RunsOn == /\ fn = "decode" /\ encoding = "base64"
          /\ Count64(source) > src_len

\* No call writes past its output buffer, terminator and padded groups
\* included, except the one above.
WithinOutput ==
    /\ TypeOK
    /\ ~RunsOn => Len(output) <= (IF capacity = Null THEN 0 ELSE capacity)

\* The one decode that fails with room enough: after a padded last group of
\* fewer than four bytes the loop of base 32 goes on in what follows the text.
Stumbles == /\ encoding = "base32"
            /\ Len(source) > src_len
            /\ 5 * (src_len \div 8) - Held(src_len) >= 2

\* The one encode that answers 0 without a text: base 64 with a buffer too small.
AnswersZero == encoding = "base64" /\ capacity # Null

\* Apart from these two, an encode answers 0 when and only when it leaves a
\* text, the whole of it, and a decode of whole groups answers 0 unless the
\* output is too small.  What fails was given too little room, and a decode
\* reports the room it needs, an encode the characters without the terminator.
FailsForRoom ==
    /\ fn = "encode" /\ pc = "idle" =>
          /\ text = <<>> => capacity <= result_len /\ (result # 0 \/ AnswersZero)
          /\ text # <<>> => result = 0 /\ result_len = Len(text)
    /\ fn = "decode" /\ pc = "idle" /\ src_len % Width[encoding] = 0 /\ ~Stumbles =>
          (result = 0 \/ capacity < result_len)

-----------------------------------------------------------------------------
(* What binary_encoder.h says of the calls, and the code does not do *)

\* "Zero indicates success" (binary_encoder.h:61): an encode that answers 0 has
\* written the text.
ZeroIsSuccess == Answered("encode") => text # <<>>

\* "any other value is failure and the amount of memory needed"
\* (binary_encoder.h:23): a buffer that an encode refuses is smaller than what
\* it reports.
ReportsTheNeed ==
    fn = "encode" /\ pc = "idle" /\ result # 0 => capacity < result_len

\* A decode of the first len characters (binary_encoder.h:82) writes no more
\* than the buffer it has been promised, whatever follows these.
PartStaysInOutput ==
    fn = "decode" /\ capacity # Null => Len(output) <= capacity

=============================================================================
