------------------------ MODULE BinaryEncoderProofs ------------------------
(***************************************************************************)
(* Theorems about BinaryEncoder, for every message, trailer and capacity.  *)
(* The first part is about one group: its characters decode to its bytes,  *)
(* bit by bit.  The second is about lengths and about which characters a   *)
(* decoding of a text finds.  The invariant then says that what an encoder *)
(* has written are the groups it has done, that a text has all of them,    *)
(* and that what a decoder has written are the bytes of the message.       *)
(***************************************************************************)
EXTENDS BinaryEncoder, FiniteSetTheorems, SequenceTheorems, WellFoundedInduction, TLAPS

-----------------------------------------------------------------------------
(* One group                                                                   *)

LEMMA CharsAre64 ==
    ASSUME NEW v \in 0 .. 63
    PROVE  Char64(v) \in Byte /\ Char64(v) < 128 /\ IsBase64(Char64(v)) /\ Value64(Char64(v)) = v
<1>1. CASE v < 26
  BY <1>1 DEF Char64, Byte, IsBase64, Value64
<1>2. CASE v \in 26 .. 51
  BY <1>2 DEF Char64, Byte, IsBase64, Value64
<1>3. CASE v \in 52 .. 61
  BY <1>3 DEF Char64, Byte, IsBase64, Value64
<1>4. CASE v = 62 \/ v = 63
  BY <1>4 DEF Char64, Byte, IsBase64, Value64
<1> QED
  BY <1>1, <1>2, <1>3, <1>4

LEMMA Base16Is ==
    ASSUME NEW v \in 0 .. 15
    PROVE  Base16(v) = Char64(v * 4)
  BY DEF Base16, Char64

LEMMA Base8Is ==
    ASSUME NEW v \in 0 .. 3
    PROVE  Base8(v) = Char64(v * 16)
  BY DEF Base8, Char64

LEMMA CharsAre32 ==
    ASSUME NEW v \in 0 .. 32
    PROVE  Char32(v) \in Byte \ {0} /\ Char32(v) < 128 /\ Value32(Char32(v)) = v
<1>1. CASE v < 26
  BY <1>1 DEF Char32, Byte, Value32, Equal
<1>2. CASE v \in 26 .. 31
  BY <1>2 DEF Char32, Byte, Value32, Equal
<1>3. CASE v = 32
  BY <1>3 DEF Char32, Byte, Value32, Equal
<1> QED
  BY <1>1, <1>2, <1>3

LEMMA DivMod ==
    ASSUME NEW n \in Nat, NEW d \in Nat \ {0}
    PROVE  n = d * (n \div d) + (n % d) /\ n \div d \in Nat /\ n % d \in 0 .. d - 1
BY SMT

\* What a byte is split into.
LEMMA Split ==
    ASSUME NEW a \in Byte
    PROVE  /\ a = (a \div 4) * 4 + (a % 4) /\ a \div 4 \in 0 .. 63 /\ a % 4 \in 0 .. 3
           /\ a = (a \div 16) * 16 + (a % 16) /\ a \div 16 \in 0 .. 15 /\ a % 16 \in 0 .. 15
           /\ a = (a \div 64) * 64 + (a % 64) /\ a \div 64 \in 0 .. 3 /\ a % 64 \in 0 .. 63
           /\ a = (a \div 2) * 2 + (a % 2) /\ a \div 2 \in 0 .. 127 /\ a % 2 \in 0 .. 1
           /\ a = (a \div 32) * 32 + (a % 32) /\ a \div 32 \in 0 .. 7 /\ a % 32 \in 0 .. 31
<1> USE DEF Byte
<1>1. a = 4 * (a \div 4) + (a % 4) /\ a \div 4 \in Nat /\ a % 4 \in 0 .. 3
  BY DivMod, 4 \in Nat \ {0}
<1>2. a = 16 * (a \div 16) + (a % 16) /\ a \div 16 \in Nat /\ a % 16 \in 0 .. 15
  BY DivMod, 16 \in Nat \ {0}
<1>3. a = 64 * (a \div 64) + (a % 64) /\ a \div 64 \in Nat /\ a % 64 \in 0 .. 63
  BY DivMod, 64 \in Nat \ {0}
<1>4. a = 2 * (a \div 2) + (a % 2) /\ a \div 2 \in Nat /\ a % 2 \in 0 .. 1
  BY DivMod, 2 \in Nat \ {0}
<1>5. a = 32 * (a \div 32) + (a % 32) /\ a \div 32 \in Nat /\ a % 32 \in 0 .. 31
  BY DivMod, 32 \in Nat \ {0}
<1> QED
  BY <1>1, <1>2, <1>3, <1>4, <1>5

LEMMA Split2 ==
    ASSUME NEW a \in Byte
    PROVE  /\ a \div 2 = 32 * (a \div 64) + ((a \div 2) % 32)
           /\ a \div 4 = 32 * (a \div 128) + ((a \div 4) % 32)
<1>1. a \div 2 \in Nat /\ a \div 4 \in Nat
  BY DivMod, 2 \in Nat \ {0}, 4 \in Nat \ {0} DEF Byte
<1>2. /\ a \div 2 = 32 * ((a \div 2) \div 32) + ((a \div 2) % 32)
      /\ a \div 4 = 32 * ((a \div 4) \div 32) + ((a \div 4) % 32)
  BY <1>1, DivMod, 32 \in Nat \ {0}
<1>3. (a \div 2) \div 32 = a \div 64 /\ (a \div 4) \div 32 = a \div 128
  BY DEF Byte
<1> QED
  BY <1>2, <1>3

\* The 24 bits of three bytes, in groups of six.
Split24(a, b, c) == <<a \div 4, (a % 4) * 16 + b \div 16, (b % 16) * 4 + c \div 64, c % 64>>

LEMMA Join24 ==
    ASSUME NEW a \in Byte, NEW b \in Byte, NEW c \in Byte, NEW v, v = Split24(a, b, c)
    PROVE  /\ \A j \in 1 .. 4 : v[j] \in 0 .. 63
           /\ (v[1] * 4 + v[2] \div 16) % 256 = a
           /\ (v[2] % 16) * 16 + v[3] \div 4 = b
           /\ (v[3] % 4) * 64 + v[4] = c
<1>1. /\ v[1] = a \div 4 /\ v[2] = (a % 4) * 16 + b \div 16
      /\ v[3] = (b % 16) * 4 + c \div 64 /\ v[4] = c % 64
  BY DEF Split24
<1>2. \A j \in 1 .. 4 : v[j] \in 0 .. 63
  BY <1>1, Split
<1>3. v[2] \div 16 = a % 4 /\ v[2] % 16 = b \div 16
  BY <1>1, Split
<1>4. v[3] \div 4 = b % 16 /\ v[3] % 4 = c \div 64
  BY <1>1, Split
<1>5. v[1] * 4 + v[2] \div 16 = a
  BY <1>1, <1>3, Split
<1>6. (v[2] % 16) * 16 + v[3] \div 4 = b
  BY <1>3, <1>4, Split
<1>7. (v[3] % 4) * 64 + v[4] = c
  BY <1>1, <1>4, Split
<1>8. a % 256 = a
  BY DEF Byte
<1> QED
  BY <1>2, <1>5, <1>6, <1>7, <1>8

\* The 40 bits of five bytes, in groups of five.
Fields(a, b, c, d, e, v) ==
    /\ v[1] = a \div 8 /\ v[2] = (a % 8) * 4 + b \div 64
    /\ v[3] = (b \div 2) % 32 /\ v[4] = (b % 2) * 16 + c \div 16
    /\ v[5] = (c % 16) * 2 + d \div 128 /\ v[6] = (d \div 4) % 32
    /\ v[7] = (d % 4) * 8 + e \div 32 /\ v[8] = e % 32

LEMMA Join40 ==
    ASSUME NEW a \in Byte, NEW b \in Byte, NEW c \in Byte, NEW d \in Byte, NEW e \in Byte,
           NEW v, Fields(a, b, c, d, e, v)
    PROVE  /\ \A j \in 1 .. 8 : v[j] \in 0 .. 31 /\ v[j] \in 0 .. 32 /\ v[j] # 32
           /\ Decode32(v) = <<a, b, c, d, e>>
<1> USE DEF Byte
<1>1. Fields(a, b, c, d, e, v)
  OBVIOUS
<1> USE DEF Fields
<1>2. v[1] \in 0 .. 31 /\ v[2] \in 0 .. 31
  BY <1>1
<1>3. v[3] \in 0 .. 31 /\ v[4] \in 0 .. 31
  BY <1>1
<1>4. v[5] \in 0 .. 31 /\ v[6] \in 0 .. 31
  BY <1>1
<1>5. v[7] \in 0 .. 31 /\ v[8] \in 0 .. 31
  BY <1>1
<1>6. (v[1] % 32) * 8 + (v[2] % 32) \div 4 = a
  BY <1>1, <1>2
<1>7. (v[2] % 4) * 64 + (v[3] % 32) * 2 + ((v[4] \div 16) % 2) = b
  <2>1. v[2] % 4 = b \div 64
    BY <1>1
  <2>2. (v[4] \div 16) % 2 = b % 2
    BY <1>1
  <2>3. v[3] % 32 = v[3]
    BY <1>3
  <2>4. b = (b \div 64) * 64 + ((b \div 2) % 32) * 2 + (b % 2)
    <3>1. b = 2 * (b \div 2) + (b % 2) /\ b \div 2 \in Nat /\ b % 2 \in 0 .. 1
      BY Split
    <3> QED
      BY <3>1, Split2
  <2> QED
    BY <1>1, <2>1, <2>2, <2>3, <2>4
<1>8. (v[4] % 16) * 16 + (v[5] % 32) \div 2 = c
  <2>1. v[4] % 16 = c \div 16
    BY <1>1
  <2>2. v[5] % 32 = v[5] /\ v[5] \div 2 = c % 16
    BY <1>1, <1>4
  <2>3. c = (c \div 16) * 16 + (c % 16)
    BY Split
  <2> QED
    BY <2>1, <2>2, <2>3
<1>9. (v[5] % 2) * 128 + (v[6] % 32) * 4 + (v[7] % 32) \div 8 = d
  <2>1. v[5] % 2 = d \div 128
    BY <1>1
  <2>2. v[7] % 32 = v[7] /\ v[7] \div 8 = d % 4
    <3>1. e \div 32 \in 0 .. 7 /\ d % 4 \in 0 .. 3
      OBVIOUS
    <3> QED
      BY <3>1, <1>1, <1>5
  <2>3. v[6] % 32 = v[6]
    BY <1>4
  <2>4. d = (d \div 128) * 128 + ((d \div 4) % 32) * 4 + (d % 4)
    <3>1. d = 4 * (d \div 4) + (d % 4) /\ d \div 4 \in 0 .. 63 /\ d % 4 \in 0 .. 3
      BY Split
    <3> QED
      BY <3>1, Split2
  <2> QED
    BY <1>1, <2>1, <2>2, <2>3, <2>4
<1>10. (v[7] % 8) * 32 + (v[8] % 32) = e
  <2>1. v[7] % 8 = e \div 32 /\ v[8] % 32 = e % 32
    BY <1>1
  <2>2. e = 32 * (e \div 32) + (e % 32)
    BY Split
  <2> QED
    BY <2>1, <2>2
<1>11. \A j \in 1 .. 8 : v[j] \in 0 .. 31 /\ v[j] \in 0 .. 32 /\ v[j] # 32
  BY <1>2, <1>3, <1>4, <1>5
<1>12. Decode32(v) = <<a, b, c, d, e>>
  BY <1>6, <1>7, <1>8, <1>9, <1>10, Zenon DEF Decode32
<1> QED
  BY <1>11, <1>12

\* A byte of s, or the 0 that stands for a missing one.
At(s, i) == IF i <= Len(s) THEN s[i] ELSE 0

LEMMA AtIs ==
    ASSUME NEW s \in Seq(Byte), NEW i \in Nat \ {0}
    PROVE  At(s, i) \in Byte
<1>1. i <= Len(s) => s[i] \in Byte
  OBVIOUS
<1>2. 0 \in Byte
  BY DEF Byte
<1> QED
  BY <1>1, <1>2 DEF At

Sixes(s) == Split24(At(s, 1), At(s, 2), At(s, 3))

LEMMA SixesAre ==
    ASSUME NEW s \in Seq(Byte)
    PROVE  /\ \A j \in 1 .. 4 : Sixes(s)[j] \in 0 .. 63
           /\ (Sixes(s)[1] * 4 + Sixes(s)[2] \div 16) % 256 = At(s, 1)
           /\ (Sixes(s)[2] % 16) * 16 + Sixes(s)[3] \div 4 = At(s, 2)
           /\ (Sixes(s)[3] % 4) * 64 + Sixes(s)[4] = At(s, 3)
<1>1. At(s, 1) \in Byte /\ At(s, 2) \in Byte /\ At(s, 3) \in Byte
  BY AtIs
<1> QED
  BY <1>1, Join24 DEF Sixes

LEMMA Encode64Is ==
    ASSUME NEW s \in Seq(Byte), NEW n \in 1 .. 3, Len(s) = n
    PROVE  /\ Encode64(s) \in Seq(Byte) /\ Len(Encode64(s)) = 4
           /\ \A j \in 1 .. 4 :
                 Encode64(s)[j] = IF j <= n + 1 THEN Char64(Sixes(s)[j]) ELSE Equal
<1> DEFINE v == Sixes(s)
<1>1. \A j \in 1 .. 4 : v[j] \in 0 .. 63 /\ Char64(v[j]) \in Byte
  BY SixesAre, CharsAre64
<1>2. Equal \in Byte /\ \A i \in 1 .. Len(s) : s[i] \in Byte
  <2>1. Equal \in Byte
    BY DEF Equal, Byte
  <2> QED
    BY <2>1
<1>6. ASSUME NEW a \in Byte, NEW b \in Byte, NEW c \in Byte, NEW d \in Byte
      PROVE  <<a, b, c, d>> \in Seq(Byte) /\ Len(<<a, b, c, d>>) = 4
  OBVIOUS
<1>7. /\ Char64(v[1]) \in Byte /\ Char64(v[2]) \in Byte
      /\ Char64(v[3]) \in Byte /\ Char64(v[4]) \in Byte
  BY <1>1
<1>3. CASE n = 3
  <2>1. v = <<s[1] \div 4, (s[1] % 4) * 16 + s[2] \div 16, (s[2] % 16) * 4 + s[3] \div 64, s[3] % 64>>
    BY <1>3 DEF Sixes, At, Split24
  <2>2. Encode64(s) = <<Char64(v[1]), Char64(v[2]), Char64(v[3]), Char64(v[4])>>
    BY <2>1, <1>3 DEF Encode64
  <2> HIDE DEF v
  <2>3. \A j \in 1 .. 4 : Encode64(s)[j] = Char64(v[j])
    BY <2>2
  <2>7. Encode64(s) \in Seq(Byte) /\ Len(Encode64(s)) = 4
    BY <1>6, <1>7, <2>2
  <2> QED
    BY <1>3, <2>3, <2>7 DEF v
<1>4. CASE n = 2
  <2>1. /\ v[1] = s[1] \div 4 /\ v[2] = (s[1] % 4) * 16 + s[2] \div 16
        /\ v[3] = (s[2] % 16) * 4 + 0 \div 64
    BY <1>4 DEF Sixes, At, Split24
  <2>2. s[2] % 16 \in 0 .. 15 /\ 0 \div 64 = 0
    BY <1>2, <1>4, Split
  <2>5. v[3] = (s[2] % 16) * 4
    BY <2>1, <2>2
  <2>3. Base16(s[2] % 16) = Char64(v[3])
    BY <2>2, <2>5, Base16Is
  <2> HIDE DEF v
  <2>4. Encode64(s) = <<Char64(v[1]), Char64(v[2]), Char64(v[3]), Equal>>
    BY <2>1, <2>3, <1>4 DEF Encode64
  <2>6. \A j \in 1 .. 4 : Encode64(s)[j] = IF j <= 3 THEN Char64(v[j]) ELSE Equal
    BY <2>4
  <2>7. Encode64(s) \in Seq(Byte) /\ Len(Encode64(s)) = 4
    BY <1>2, <1>6, <1>7, <2>4
  <2> QED
    BY <1>4, <2>6, <2>7 DEF v
<1>5. CASE n = 1
  <2>1. v[1] = s[1] \div 4 /\ v[2] = (s[1] % 4) * 16 + 0 \div 16
    BY <1>5 DEF Sixes, At, Split24
  <2>2. s[1] % 4 \in 0 .. 3 /\ 0 \div 16 = 0
    BY <1>2, <1>5, Split
  <2>3. Base8(s[1] % 4) = Char64(v[2])
    BY <2>1, <2>2, Base8Is
  <2> HIDE DEF v
  <2>4. Encode64(s) = <<Char64(v[1]), Char64(v[2]), Equal, Equal>>
    BY <2>1, <2>3, <1>5 DEF Encode64
  <2>6. \A j \in 1 .. 4 : Encode64(s)[j] = IF j <= 2 THEN Char64(v[j]) ELSE Equal
    BY <2>4
  <2>7. Encode64(s) \in Seq(Byte) /\ Len(Encode64(s)) = 4
    BY <1>2, <1>6, <1>7, <2>4
  <2> QED
    BY <1>5, <2>6, <2>7 DEF v
<1>8. n = 1 \/ n = 2 \/ n = 3
  OBVIOUS
<1> QED
  BY <1>3, <1>4, <1>5, <1>8

\* A group of base 64 and what its characters other than padding decode to.
LEMMA Group64 ==
    ASSUME NEW s \in Seq(Byte), NEW n \in 1 .. 3, Len(s) = n,
           NEW c \in Seq(Byte), Len(c) = n + 1,
           \A j \in 1 .. Len(c) : c[j] = Encode64(s)[j]
    PROVE  Decode64(c) = s
<1> DEFINE v == Sixes(s)
           w == [j \in DOMAIN c |-> Value64(c[j])]
<1>1. \A j \in 1 .. 4 : v[j] \in 0 .. 63
  BY SixesAre
<1>2. \A j \in 1 .. Len(c) : c[j] = Char64(v[j])
  <2>1. \A j \in 1 .. 4 : Encode64(s)[j] = IF j <= n + 1 THEN Char64(v[j]) ELSE Equal
    BY Encode64Is, Zenon DEF v
  <2>2. \A j \in 1 .. Len(c) : j \in 1 .. 4 /\ j <= n + 1
    OBVIOUS
  <2> QED
    BY <2>1, <2>2, Zenon
<1>3. DOMAIN c = 1 .. Len(c)
  OBVIOUS
<1>4. /\ (v[1] * 4 + v[2] \div 16) % 256 = At(s, 1)
      /\ (v[2] % 16) * 16 + v[3] \div 4 = At(s, 2)
      /\ (v[3] % 4) * 64 + v[4] = At(s, 3)
  BY SixesAre
<1> HIDE DEF v
<1>8. \A j \in 1 .. Len(c) : w[j] = v[j]
  <2> SUFFICES ASSUME NEW i \in 1 .. Len(c) PROVE w[i] = v[i]
    OBVIOUS
  <2>1. w[i] = Value64(c[i])
    BY <1>3
  <2>2. Len(c) \in 2 .. 4
    OBVIOUS
  <2>3. i \in 1 .. 4
    BY <2>2
  <2>4. v[i] \in 0 .. 63
    BY <1>1, <2>3
  <2> QED
    BY <1>2, <2>1, <2>4, CharsAre64
<1>5. CASE n = 3
  <2>1. Decode64(c) = <<At(s, 1), At(s, 2), At(s, 3)>>
    BY <1>3, <1>8, <1>4, <1>5 DEF Decode64
  <2> QED
    BY <1>5, <2>1 DEF At
<1>6. CASE n = 2
  <2>1. v[3] = w[3] /\ v[2] = w[2] /\ v[1] = w[1]
    BY <1>8, <1>6
  <2>2. Decode64(c) = <<At(s, 1), At(s, 2)>>
    BY <1>3, <1>4, <1>6, <2>1 DEF Decode64
  <2> QED
    BY <1>6, <2>2 DEF At
<1>7. CASE n = 1
  <2>1. v[2] = w[2] /\ v[1] = w[1]
    BY <1>8, <1>7
  <2>2. Decode64(c) = <<At(s, 1)>>
    BY <1>3, <1>4, <1>7, <2>1 DEF Decode64
  <2> QED
    BY <1>7, <2>2 DEF At
<1>9. n = 1 \/ n = 2 \/ n = 3
  OBVIOUS
<1> QED
  BY <1>5, <1>6, <1>7, <1>9

Fives(s, v) == Fields(At(s, 1), At(s, 2), At(s, 3), At(s, 4), At(s, 5), v)

LEMMA FivesAre ==
    ASSUME NEW s \in Seq(Byte), NEW v, Fives(s, v)
    PROVE  /\ \A j \in 1 .. 8 : v[j] \in 0 .. 31 /\ v[j] \in 0 .. 32 /\ v[j] # 32
           /\ Decode32(v) = <<At(s, 1), At(s, 2), At(s, 3), At(s, 4), At(s, 5)>>
<1>1. At(s, 1) \in Byte /\ At(s, 2) \in Byte /\ At(s, 3) \in Byte
  BY AtIs
<1>2. At(s, 4) \in Byte /\ At(s, 5) \in Byte
  BY AtIs
<1> QED
  BY <1>1, <1>2, Join40, SMTT(30) DEF Fives

\* The characters of n bytes that are padding.
Pads(n) == CASE n = 1 -> 3 .. 8
             [] n = 2 -> 5 .. 8
             [] n = 3 -> 6 .. 8
             [] n = 4 -> {8}
             [] OTHER -> {}

\* The characters of s are ASCII, and their values those of its bits.
Encodes32(s, n, v) ==
    /\ Fives(s, v)
    /\ \A j \in 1 .. 8 : Encode32(s)[j] \in Byte /\ Encode32(s)[j] < 128
    /\ \A j \in 1 .. 8 : Value32(Encode32(s)[j]) = IF j \in Pads(n) THEN 32 ELSE v[j]

LEMMA Encode32Is ==
    ASSUME NEW s \in Seq(Byte), NEW n \in 1 .. 5, Len(s) = n
    PROVE  \E v : Encodes32(s, n, v)
<1> DEFINE v == <<At(s, 1) \div 8,
                  (At(s, 1) % 8) * 4 + At(s, 2) \div 64,
                  (At(s, 2) \div 2) % 32,
                  (At(s, 2) % 2) * 16 + At(s, 3) \div 16,
                  (At(s, 3) % 16) * 2 + At(s, 4) \div 128,
                  (At(s, 4) \div 4) % 32,
                  (At(s, 4) % 4) * 8 + At(s, 5) \div 32,
                  At(s, 5) % 32>>
<1>1. Fives(s, v)
  BY DEF Fives, Fields
<1>2. Encode32(s) = [j \in 1 .. 8 |-> Char32(IF j \in Pads(n) THEN 32 ELSE v[j])]
  BY DEF Encode32, Pads, At
<1> HIDE DEF v
<1>3. \A j \in 1 .. 8 : v[j] \in 0 .. 32
  BY <1>1, FivesAre, Zenon
<1>4. 32 \in 0 .. 32
  OBVIOUS
<1>5. \A j \in 1 .. 8 : (IF j \in Pads(n) THEN 32 ELSE v[j]) \in 0 .. 32
  BY <1>3, <1>4, Zenon
<1>6. /\ \A j \in 1 .. 8 : Encode32(s)[j] \in Byte /\ Encode32(s)[j] < 128
      /\ \A j \in 1 .. 8 : Value32(Encode32(s)[j]) = IF j \in Pads(n) THEN 32 ELSE v[j]
  <2> DEFINE x(j) == IF j \in Pads(n) THEN 32 ELSE v[j]
  <2>1. \A j \in 1 .. 8 : Encode32(s)[j] = Char32(x(j))
    BY <1>2
  <2>2. \A j \in 1 .. 8 : x(j) \in 0 .. 32
    BY <1>5
  <2> HIDE DEF x
  <2>3. \A j \in 1 .. 8 : /\ Char32(x(j)) \in Byte /\ Char32(x(j)) < 128
                          /\ Value32(Char32(x(j))) = x(j)
    BY <2>2, CharsAre32
  <2>4. \A j \in 1 .. 8 : Value32(Encode32(s)[j]) = x(j)
    BY <2>1, <2>3, Zenon
  <2> QED
    BY <2>1, <2>3, <2>4, ZenonT(30) DEF x
<1>7. Encodes32(s, n, v)
  BY <1>1, <1>6, Zenon DEF Encodes32
<1> QED
  BY <1>7

\* A group of base 32 and what its characters decode to.
LEMMA Group32 ==
    ASSUME NEW s \in Seq(Byte), NEW n \in 1 .. 5, Len(s) = n,
           NEW v, \A j \in 1 .. 8 : v[j] = Value32(Encode32(s)[j])
    PROVE  /\ Padding(v) = 5 - n
           /\ \A j \in 1 .. n : Decode32(v)[j] = s[j]
<1>1. PICK w : /\ Fives(s, w)
               /\ \A j \in 1 .. 8 : v[j] = IF j \in Pads(n) THEN 32 ELSE w[j]
  <2>1. PICK u : Encodes32(s, n, u)
    BY Encode32Is
  <2> QED
    BY <2>1, Zenon DEF Encodes32
<1>2. /\ \A j \in 1 .. 8 : w[j] # 32
      /\ Decode32(w) = <<At(s, 1), At(s, 2), At(s, 3), At(s, 4), At(s, 5)>>
  BY <1>1, FivesAre
<1>3. \A j \in 1 .. n : At(s, j) = s[j]
  BY DEF At
<1>4. n = 1 \/ n = 2 \/ n = 3 \/ n = 4 \/ n = 5
  OBVIOUS
<1>5. /\ (v[8] = 32 <=> n < 5) /\ (v[6] = 32 <=> n < 4)
      /\ (v[5] = 32 <=> n < 3) /\ (v[3] = 32 <=> n < 2)
  BY <1>1, <1>2, <1>4 DEF Pads
<1>6. Padding(v) = 5 - n
  BY <1>4, <1>5 DEF Padding
<1>7. \A j \in 1 .. n : Decode32(v)[j] = Decode32(w)[j]
  <2>1. v[1] = w[1] /\ v[2] = w[2]
    BY <1>1, <1>4 DEF Pads
  <2>2. n > 1 => v[3] = w[3] /\ v[4] = w[4]
    BY <1>1, <1>4 DEF Pads
  <2>3. n > 2 => v[5] = w[5]
    BY <1>1, <1>4 DEF Pads
  <2>4. n > 3 => v[6] = w[6] /\ v[7] = w[7]
    BY <1>1, <1>4 DEF Pads
  <2>5. n > 4 => v[8] = w[8]
    BY <1>1, <1>4 DEF Pads
  <2> QED
    BY <2>1, <2>2, <2>3, <2>4, <2>5, <1>4 DEF Decode32
<1>8. \A j \in 1 .. 5 : Decode32(w)[j] = At(s, j)
  BY <1>2
<1>9. \A j \in 1 .. n : j \in 1 .. 5
  OBVIOUS
<1> QED
  BY <1>3, <1>6, <1>7, <1>8, <1>9, Zenon

-----------------------------------------------------------------------------
(* Pieces and lengths                                                          *)

\* The at most k elements of s behind the first a.
Piece(s, a, k) == SubSeq(s, a + 1, IF a + k <= Len(s) THEN a + k ELSE Len(s))

LEMMA PieceIs ==
    ASSUME NEW s \in Seq(Byte), NEW a \in Nat, NEW k \in Nat \ {0}, a < Len(s),
           NEW n, n = IF a + k <= Len(s) THEN k ELSE Len(s) - a
    PROVE  /\ n \in 1 .. k /\ Piece(s, a, k) \in Seq(Byte) /\ Len(Piece(s, a, k)) = n
           /\ \A j \in 1 .. n : Piece(s, a, k)[j] = s[a + j]
<1> DEFINE b == a + n
<1>1. n \in 1 .. k /\ b \in Nat /\ b <= Len(s)
  OBVIOUS
<1>2. Piece(s, a, k) = SubSeq(s, a + 1, b)
  BY DEF Piece
<1>3. \A i \in a + 1 .. b : s[i] \in Byte
  BY <1>1, ElementOfSeq
<1>4. /\ SubSeq(s, a + 1, b) \in Seq(Byte)
      /\ Len(SubSeq(s, a + 1, b)) = IF a + 1 <= b THEN b - (a + 1) + 1 ELSE 0
      /\ \A i \in 1 .. b - (a + 1) + 1 : SubSeq(s, a + 1, b)[i] = s[(a + 1) + i - 1]
  <2>1. a + 1 \in Int /\ b \in Int
    BY <1>1
  <2> HIDE DEF b
  <2> QED
    BY <1>3, <2>1, SubSeqProperties, SMTT(30)
<1>5. b - (a + 1) + 1 = n /\ a + 1 <= b /\ \A i \in 1 .. n : (a + 1) + i - 1 = a + i
  BY <1>1
<1> QED
  BY <1>1, <1>2, <1>4, <1>5

\* SubSeq within a sequence
LEMMA WithinIs ==
    ASSUME NEW s \in Seq(Byte), NEW a \in Nat, NEW b \in Nat, a <= b, b <= Len(s)
    PROVE  /\ SubSeq(s, a + 1, b) \in Seq(Byte) /\ Len(SubSeq(s, a + 1, b)) = b - a
           /\ \A j \in 1 .. b - a : SubSeq(s, a + 1, b)[j] = s[a + j]
<1>1. \A i \in a + 1 .. b : s[i] \in Byte
  BY ElementOfSeq
<1>2. /\ SubSeq(s, a + 1, b) \in Seq(Byte)
      /\ Len(SubSeq(s, a + 1, b)) = IF a + 1 <= b THEN b - (a + 1) + 1 ELSE 0
      /\ \A i \in 1 .. b - (a + 1) + 1 : SubSeq(s, a + 1, b)[i] = s[(a + 1) + i - 1]
  <2>1. a + 1 \in Int /\ b \in Int
    OBVIOUS
  <2> QED
    BY <1>1, <2>1, SubSeqProperties
<1>3. b - (a + 1) + 1 = b - a /\ \A i \in 1 .. b - a : (a + 1) + i - 1 = a + i
  OBVIOUS
<1>4. (IF a + 1 <= b THEN b - (a + 1) + 1 ELSE 0) = b - a
  OBVIOUS
<1> QED
  BY <1>2, <1>3, <1>4, Zenon

LEMMA Len64 ==
    ASSUME NEW m \in Nat \ {0}
    PROVE  \E k \in Nat : EncodingLen(m, "base64") = 4 * k + 4 /\ 3 * k < m /\ m <= 3 * k + 3
<1> DEFINE k == (m - 1) \div 3
<1>1. m - 1 = 3 * k + ((m - 1) % 3) /\ k \in Nat /\ (m - 1) % 3 \in 0 .. 2
  BY DivMod, 3 \in Nat \ {0}, m - 1 \in Nat
<1>2. EncodingLen(m, "base64") = (k + 1) * 4
  BY DEF EncodingLen
<1> HIDE DEF k
<1>3. (k + 1) * 4 = 4 * k + 4 /\ 3 * k < m /\ m <= 3 * k + 3
  BY <1>1
<1> QED
  BY <1>1, <1>2, <1>3

LEMMA Len32 ==
    ASSUME NEW m \in Nat \ {0}
    PROVE  \E k \in Nat : EncodingLen(m, "base32") = 8 * k + 8 /\ 5 * k < m /\ m <= 5 * k + 5
<1> DEFINE q == (m + 4) \div 5
<1>1. m + 4 = 5 * q + ((m + 4) % 5) /\ q \in Nat /\ (m + 4) % 5 \in 0 .. 4
  BY DivMod, 5 \in Nat \ {0}, m + 4 \in Nat
<1>2. EncodingLen(m, "base32") = q * 8
  BY DEF EncodingLen
<1> HIDE DEF q
<1>3. q - 1 \in Nat /\ q * 8 = 8 * (q - 1) + 8 /\ 5 * (q - 1) < m /\ m <= 5 * (q - 1) + 5
  BY <1>1
<1> QED
  BY <1>2, <1>3

LEMMA LeastNat ==
    ASSUME NEW T \in SUBSET Nat, T # {}
    PROVE  \E n \in T : \A m \in T : n <= m
<1>1. \E n \in T : \A m \in T : ~ (<<m, n>> \in OpToRel(<, Nat))
  BY NatLessThanWellFounded, WFMin, Zenon
<1>2. ASSUME NEW n \in T, NEW m \in T, ~ (<<m, n>> \in OpToRel(<, Nat)) PROVE n <= m
  <2>1. ~ (m < n)
    BY <1>2 DEF OpToRel
  <2> QED
    BY <2>1
<1> QED
  BY <1>1, <1>2, Zenon

\* Count64 is the length of the longest prefix of characters of base 64.
Prefix64(s, n) == \A j \in 1 .. n : IsBase64(s[j])

LEMMA Count64Is ==
    ASSUME NEW s \in Seq(Byte)
    PROVE  /\ Count64(s) \in 0 .. Len(s) /\ Prefix64(s, Count64(s))
           /\ \A n \in 1 .. Len(s) : Prefix64(s, n) => n <= Count64(s)
<1> DEFINE P == {n \in 1 .. Len(s) : Prefix64(s, n)}
           T == {n \in Nat : n + 1 \notin P}
<1>0. Len(s) \in Nat
  OBVIOUS
<1>1. PICK N \in T : \A m \in T : N <= m
  <2>1. Len(s) \in T
    BY <1>0
  <2>2. T \in SUBSET Nat /\ T # {}
    BY <2>1
  <2> HIDE DEF T
  <2> QED
    BY <2>2, LeastNat
<1>2. \A m \in 1 .. N : m \in P
  <2> SUFFICES ASSUME NEW m \in 1 .. N, m \notin P PROVE FALSE
    OBVIOUS
  <2>1. m - 1 \in Nat /\ m - 1 < N /\ (m - 1) + 1 = m /\ N \in Nat
    OBVIOUS
  <2>2. m - 1 \in T
    BY <2>1
  <2> QED
    BY <1>1, <2>1, <2>2
<1>3. \A m \in P : m \in 1 .. N
  <2> SUFFICES ASSUME NEW m \in P, ~ (m <= N) PROVE FALSE
    OBVIOUS
  <2>1. N + 1 \in 1 .. Len(s)
    <3>1. N \in Nat /\ m \in 1 .. Len(s)
      OBVIOUS
    <3> QED
      BY <1>0, <3>1
  <2>2. Prefix64(s, N + 1)
    <3>1. Prefix64(s, m) /\ m \in Nat /\ N + 1 <= m /\ N \in Nat
      OBVIOUS
    <3>2. \A j \in 1 .. N + 1 : j \in 1 .. m
      BY <3>1
    <3> QED
      BY <3>1, <3>2 DEF Prefix64
  <2> QED
    BY <2>1, <2>2
<1>4. P = 1 .. N
  <2> HIDE DEF P
  <2> QED
    BY <1>2, <1>3
<1>5. Count64(s) = Cardinality(P)
  BY DEF Count64, Prefix64
<1>6. Cardinality(1 .. N) = N
  <2>1. N \in Nat
    OBVIOUS
  <2>2. Cardinality(1 .. N) = IF 1 > N THEN 0 ELSE N - 1 + 1
    BY <2>1, FS_Interval, 1 \in Int, N \in Int
  <2> QED
    BY <2>1, <2>2
<1>7. N \in Nat /\ Count64(s) = N
  BY <1>4, <1>5, <1>6
<1>8. N > 0 => N \in P
  BY <1>2, <1>7
<1>9. N \in 0 .. Len(s)
  BY <1>0, <1>7, <1>8
<1>10. Prefix64(s, N)
  BY <1>7, <1>8 DEF Prefix64
<1> QED
  BY <1>3, <1>7, <1>9, <1>10

\* What is decoded are bytes.
LEMMA ValuesAre ==
    ASSUME NEW c \in Nat
    PROVE  Value64(c) \in 0 .. 63 /\ Value32(c) \in 0 .. 255
<1>1. Value64(c) \in 0 .. 63
  BY DEF Value64
<1>2. Value32(c) \in 0 .. 255
  BY DEF Value32, Equal
<1> QED
  BY <1>1, <1>2

LEMMA BytesAreNat == \A b \in Byte : b \in Nat
BY DEF Byte

LEMMA BitsAre ==
    ASSUME NEW x \in 0 .. 63, NEW y \in 0 .. 63
    PROVE  /\ (x * 4 + y \div 16) % 256 \in Byte
           /\ (x % 16) * 16 + y \div 4 \in Byte
           /\ (x % 4) * 64 + y \in Byte
<1>1. (x * 4 + y \div 16) % 256 \in Byte
  BY DEF Byte
<1>2. (x % 16) * 16 + y \div 4 \in Byte
  <2>1. x % 16 \in 0 .. 15 /\ y \div 4 \in 0 .. 15
    OBVIOUS
  <2> QED
    BY <2>1 DEF Byte
<1>3. (x % 4) * 64 + y \in Byte
  <2>1. x % 4 \in 0 .. 3
    OBVIOUS
  <2> QED
    BY <2>1 DEF Byte
<1> QED
  BY <1>1, <1>2, <1>3

LEMMA Decode64Type ==
    ASSUME NEW c \in Seq(Byte), NEW n \in 0 .. 4, Len(c) = n
    PROVE  Decode64(c) \in Seq(Byte) /\ Len(Decode64(c)) = IF n <= 1 THEN 0 ELSE n - 1
<1> DEFINE v == [j \in DOMAIN c |-> Value64(c[j])]
<1>1. DOMAIN c = 1 .. n /\ \A j \in 1 .. n : c[j] \in Nat
  <2>1. DOMAIN c = 1 .. n /\ \A j \in 1 .. n : c[j] \in Byte
    OBVIOUS
  <2> QED
    BY <2>1, BytesAreNat, Zenon
<1>2. \A j \in 1 .. n : v[j] \in 0 .. 63
  BY <1>1, ValuesAre, Zenon
<1> HIDE DEF v
<1>11. /\ n > 1 => v[1] \in 0 .. 63 /\ v[2] \in 0 .. 63
       /\ n > 2 => v[3] \in 0 .. 63
       /\ n > 3 => v[4] \in 0 .. 63
  BY <1>2
<1>3. ASSUME n > 1 PROVE (v[1] * 4 + v[2] \div 16) % 256 \in Byte
  BY <1>11, <1>3, BitsAre, ZenonT(30)
<1>4. ASSUME n > 2 PROVE (v[2] % 16) * 16 + v[3] \div 4 \in Byte
  <2>1. n > 1
    BY <1>4
  <2> QED
    BY <1>11, <1>4, <2>1, BitsAre, Zenon
<1>5. ASSUME n > 3 PROVE (v[3] % 4) * 64 + v[4] \in Byte
  <2>1. n > 2
    BY <1>5
  <2> QED
    BY <1>11, <1>5, <2>1, BitsAre, Zenon
<1>6. CASE n = 4
  <2>1. Decode64(c) = <<(v[1] * 4 + v[2] \div 16) % 256, (v[2] % 16) * 16 + v[3] \div 4,
                        (v[3] % 4) * 64 + v[4]>>
    BY <1>6 DEF Decode64, v
  <2> QED
    BY <1>3, <1>4, <1>5, <1>6, <2>1
<1>7. CASE n = 3
  <2>1. Decode64(c) = <<(v[1] * 4 + v[2] \div 16) % 256, (v[2] % 16) * 16 + v[3] \div 4>>
    BY <1>7 DEF Decode64, v
  <2> QED
    BY <1>3, <1>4, <1>7, <2>1
<1>8. CASE n = 2
  <2>1. Decode64(c) = <<(v[1] * 4 + v[2] \div 16) % 256>>
    BY <1>8 DEF Decode64, v
  <2> QED
    BY <1>3, <1>8, <2>1
<1>9. CASE n <= 1
  <2>1. Decode64(c) = <<>>
    BY <1>9 DEF Decode64
  <2> QED
    BY <1>9, <2>1
<1>10. n = 4 \/ n = 3 \/ n = 2 \/ n <= 1
  BY SMTT(30)
<1> QED
  BY <1>6, <1>7, <1>8, <1>9, <1>10

LEMMA Decode32Type ==
    ASSUME NEW v, \A j \in 1 .. 8 : v[j] \in 0 .. 255
    PROVE  Decode32(v) \in Seq(Byte) /\ Len(Decode32(v)) = 5
<1> USE DEF Byte
<1>1. /\ v[1] \in 0 .. 255 /\ v[2] \in 0 .. 255 /\ v[3] \in 0 .. 255 /\ v[4] \in 0 .. 255
      /\ v[5] \in 0 .. 255 /\ v[6] \in 0 .. 255 /\ v[7] \in 0 .. 255 /\ v[8] \in 0 .. 255
  OBVIOUS
<1>2. (v[1] % 32) * 8 + (v[2] % 32) \div 4 \in Byte
  BY <1>1
<1>3. (v[2] % 4) * 64 + (v[3] % 32) * 2 + ((v[4] \div 16) % 2) \in Byte
  <2>1. v[2] % 4 \in 0 .. 3 /\ v[3] % 32 \in 0 .. 31 /\ (v[4] \div 16) % 2 \in 0 .. 1
    BY <1>1, SMTT(30)
  <2> QED
    BY <2>1
<1>4. (v[4] % 16) * 16 + (v[5] % 32) \div 2 \in Byte
  BY <1>1
<1>5. (v[5] % 2) * 128 + (v[6] % 32) * 4 + (v[7] % 32) \div 8 \in Byte
  <2>1. v[5] % 2 \in 0 .. 1 /\ v[6] % 32 \in 0 .. 31 /\ (v[7] % 32) \div 8 \in 0 .. 3
    BY <1>1
  <2> QED
    BY <2>1
<1>6. (v[7] % 8) * 32 + (v[8] % 32) \in Byte
  <2>1. v[7] % 8 \in 0 .. 7 /\ v[8] % 32 \in 0 .. 31
    BY <1>1
  <2> QED
    BY <2>1
<1>7. ASSUME NEW a \in Byte, NEW b \in Byte, NEW c \in Byte, NEW d \in Byte, NEW e \in Byte
      PROVE  <<a, b, c, d, e>> \in Seq(Byte) /\ Len(<<a, b, c, d, e>>) = 5
  OBVIOUS
<1> QED
  BY <1>2, <1>3, <1>4, <1>5, <1>6, <1>7, ZenonT(30) DEF Decode32

-----------------------------------------------------------------------------
(* Texts                                                                       *)

\* The characters of t with number g are those of the bytes of m.
Has64(t, m, g) ==
    4 * g + 4 <= Len(t) /\ \A j \in 1 .. 4 : t[4 * g + j] = Encode64(Piece(m, 3 * g, 3))[j]
Has32(t, m, g) ==
    8 * g + 8 <= Len(t) /\ \A j \in 1 .. 8 : t[8 * g + j] = Encode32(Piece(m, 5 * g, 5))[j]

Text64(t, m) ==
    /\ t \in Seq(Byte) /\ Len(t) = EncodingLen(Len(m), "base64")
    /\ \A g \in Nat : 3 * g < Len(m) => Has64(t, m, g)
Text32(t, m) ==
    /\ t \in Seq(Byte) /\ Len(t) = EncodingLen(Len(m), "base32")
    /\ \A g \in Nat : 5 * g < Len(m) => Has32(t, m, g)

\* s is t and what follows it.
Starts(s, t) == s \in Seq(Byte) /\ Len(s) >= Len(t) /\ \A i \in 1 .. Len(t) : s[i] = t[i]

\* The bytes of group g of m, of which a full one has k.
Size(m, g, k) == IF k * g + k <= Len(m) THEN k ELSE Len(m) - k * g

LEMMA Piece3 ==
    ASSUME NEW m \in Seq(Byte), NEW g \in Nat, 3 * g < Len(m),
           NEW n, n = Size(m, g, 3)
    PROVE  /\ n \in 1 .. 3 /\ Piece(m, 3 * g, 3) \in Seq(Byte) /\ Len(Piece(m, 3 * g, 3)) = n
           /\ \A j \in 1 .. n : Piece(m, 3 * g, 3)[j] = m[3 * g + j]
<1>1. 3 * g \in Nat /\ 3 \in Nat \ {0}
  OBVIOUS
<1>2. n = IF 3 * g + 3 <= Len(m) THEN 3 ELSE Len(m) - 3 * g
  BY DEF Size
<1> QED
  BY <1>1, <1>2, PieceIs

\* The characters of a group of the text, in a buffer that starts with it.
LEMMA Chars64 ==
    ASSUME NEW m \in Seq(Byte), NEW t, Text64(t, m), NEW s, Starts(s, t),
           NEW g \in Nat, 3 * g < Len(m),
           NEW n, n = Size(m, g, 3)
    PROVE  /\ n \in 1 .. 3
           /\ Piece(m, 3 * g, 3) \in Seq(Byte) /\ Len(Piece(m, 3 * g, 3)) = n
           /\ 4 * g + 4 <= Len(s)
           /\ \A j \in 1 .. 4 : /\ s[4 * g + j] = Encode64(Piece(m, 3 * g, 3))[j]
                                /\ IsBase64(s[4 * g + j]) <=> j <= n + 1
                                /\ s[4 * g + j] = Equal <=> ~ (j <= n + 1)
<1> DEFINE p == Piece(m, 3 * g, 3)
           a == 4 * g
<1>0. a \in Nat /\ 3 * g \in Nat
  OBVIOUS
<1>1. n \in 1 .. 3 /\ p \in Seq(Byte) /\ Len(p) = n
  BY Piece3
<1> HIDE DEF p
<1>2. \A j \in 1 .. 4 : Encode64(p)[j] = IF j <= n + 1 THEN Char64(Sixes(p)[j]) ELSE Equal
  BY <1>1, Encode64Is
<1>3. Has64(t, m, g)
  BY Zenon DEF Text64
<1>4. s \in Seq(Byte) /\ t \in Seq(Byte) /\ a + 4 <= Len(t) /\ Len(t) <= Len(s)
  BY <1>3 DEF Has64, Text64, Starts
<1>5. \A j \in 1 .. 4 : s[a + j] = Encode64(p)[j]
  <2>1. \A j \in 1 .. 4 : a + j \in 1 .. Len(t)
    BY <1>0, <1>4
  <2>2. \A j \in 1 .. 4 : t[a + j] = Encode64(p)[j]
    BY <1>3 DEF Has64, p
  <2> QED
    BY <2>1, <2>2 DEF Starts
<1> HIDE DEF a
<1>6. \A j \in 1 .. 4 : /\ IsBase64(s[a + j]) <=> j <= n + 1
                        /\ s[a + j] = Equal <=> ~ (j <= n + 1)
  <2> SUFFICES ASSUME NEW j \in 1 .. 4
               PROVE  /\ IsBase64(s[a + j]) <=> j <= n + 1
                      /\ s[a + j] = Equal <=> ~ (j <= n + 1)
    OBVIOUS
  <2>1. IsBase64(Char64(Sixes(p)[j]))
    BY <1>1, SixesAre, CharsAre64
  <2>2. ~ IsBase64(Equal)
    BY DEF IsBase64, Equal
  <2> QED
    BY <1>2, <1>5, <2>1, <2>2, Zenon
<1>7. a + 4 <= Len(s)
  BY <1>0, <1>4
<1> QED
  BY <1>1, <1>5, <1>6, <1>7, Zenon DEF a, p

\* What decoding finds at a group of the text: its characters that are not
\* padding, which are the last of base 64 that are counted if there is padding.
LEMMA Finds64 ==
    ASSUME NEW m \in Seq(Byte), NEW t, Text64(t, m), NEW s, Starts(s, t),
           NEW g \in Nat, 3 * g < Len(m), 4 * g <= Count64(s),
           NEW n, n = Size(m, g, 3)
    PROVE  /\ n \in 1 .. 3
           /\ Count64(s) >= 4 * g + n + 1
           /\ n < 3 => Count64(s) = 4 * g + n + 1
           /\ Decode64(SubSeq(s, 4 * g + 1, 4 * g + n + 1)) = Piece(m, 3 * g, 3)
<1> DEFINE p == Piece(m, 3 * g, 3)
           a == 4 * g
<1>0. a \in Nat /\ 3 * g \in Nat
  OBVIOUS
<1>1. n \in 1 .. 3 /\ p \in Seq(Byte) /\ Len(p) = n
  BY Chars64
<1>5. /\ \A j \in 1 .. 4 : s[a + j] = Encode64(p)[j] /\ (IsBase64(s[a + j]) <=> j <= n + 1)
      /\ a + 4 <= Len(s)
  BY Chars64, SMTT(30)
<1> HIDE DEF p, a
<1>4. s \in Seq(Byte) /\ a + 4 <= Len(s)
  BY <1>5 DEF Starts
<1>7. /\ Count64(s) \in 0 .. Len(s) /\ Prefix64(s, Count64(s))
      /\ \A k \in 1 .. Len(s) : Prefix64(s, k) => k <= Count64(s)
  BY <1>4, Count64Is
<1>8. Count64(s) >= a + n + 1
  <2>1. a \in Nat /\ n \in 1 .. 3 /\ Count64(s) \in Nat /\ a <= Count64(s)
    BY <1>0, <1>1, <1>7 DEF a
  <2>2. \A j \in 1 .. a + n + 1 :
           j \in 1 .. Count64(s) \/ (j - a \in 1 .. 4 /\ j - a <= n + 1 /\ a + (j - a) = j)
    BY <2>1, SMTT(30)
  <2>3. Prefix64(s, a + n + 1)
    BY <1>5, <1>7, <2>2, Zenon DEF Prefix64
  <2>4. a + n + 1 \in 1 .. Len(s)
    BY <1>0, <1>1, <1>4, SMTT(30)
  <2> QED
    BY <1>7, <2>3, <2>4, Zenon
<1>9. ASSUME n < 3 PROVE Count64(s) = a + n + 1
  <2>0. a \in Nat /\ n \in 1 .. 3 /\ Count64(s) \in Nat
    BY <1>0, <1>1, <1>7
  <2> SUFFICES ASSUME Count64(s) >= a + n + 2 PROVE FALSE
    BY <2>0, <1>8
  <2>1. n + 2 \in 1 .. 4 /\ ~ (n + 2 <= n + 1) /\ a + (n + 2) \in 1 .. Count64(s)
    BY <2>0, <1>9, SMTT(30)
  <2> QED
    BY <1>5, <1>7, <2>1, Zenon DEF Prefix64
<1>10. Decode64(SubSeq(s, a + 1, a + n + 1)) = p
  <2> DEFINE b == a + n + 1
             c == SubSeq(s, a + 1, b)
  <2>1. b \in Nat /\ a <= b /\ b <= Len(s) /\ b - a = n + 1
    BY <1>0, <1>1, <1>4, SMTT(30)
  <2>2. c \in Seq(Byte) /\ Len(c) = n + 1 /\ \A j \in 1 .. n + 1 : c[j] = s[a + j]
    <3> HIDE DEF b
    <3>1. /\ c \in Seq(Byte) /\ Len(c) = b - a
          /\ \A j \in 1 .. b - a : c[j] = s[a + j]
      BY <1>0, <1>4, <2>1, WithinIs
    <3> QED
      BY <2>1, <3>1
  <2> HIDE DEF c
  <2>3. \A j \in 1 .. Len(c) : c[j] = Encode64(p)[j]
    <3>1. \A j \in 1 .. n + 1 : j \in 1 .. 4
      BY <1>1
    <3> QED
      BY <1>5, <2>2, <3>1
  <2>4. Decode64(c) = p
    BY <1>1, <2>2, <2>3, Group64
  <2> QED
    BY <2>4 DEF c
<1> QED
  BY <1>1, <1>8, <1>9, <1>10 DEF a, p

LEMMA Piece5 ==
    ASSUME NEW m \in Seq(Byte), NEW g \in Nat, 5 * g < Len(m),
           NEW n, n = Size(m, g, 5)
    PROVE  /\ n \in 1 .. 5 /\ Piece(m, 5 * g, 5) \in Seq(Byte) /\ Len(Piece(m, 5 * g, 5)) = n
           /\ \A j \in 1 .. n : Piece(m, 5 * g, 5)[j] = m[5 * g + j]
<1>1. 5 * g \in Nat /\ 5 \in Nat \ {0}
  OBVIOUS
<1>2. n = IF 5 * g + 5 <= Len(m) THEN 5 ELSE Len(m) - 5 * g
  BY DEF Size
<1> QED
  BY <1>1, <1>2, PieceIs, SMTT(30)

LEMMA Value32Of ==
    ASSUME NEW p \in Seq(Byte), NEW n \in 1 .. 5, Len(p) = n,
           NEW c, \A j \in 1 .. 8 : c[j] = Encode32(p)[j],
           NEW v, \A j \in 1 .. 8 : v[j] = Value32(c[j])
    PROVE  Padding(v) = 5 - n /\ \A j \in 1 .. n : Decode32(v)[j] = p[j]
<1>1. \A j \in 1 .. 8 : v[j] = Value32(Encode32(p)[j])
  BY Zenon
<1> QED
  BY <1>1, Group32, ZenonT(30)

\* The same of base 32, where the padding is in the values.
LEMMA Finds32 ==
    ASSUME NEW m \in Seq(Byte), NEW t, Text32(t, m), NEW s, Starts(s, t),
           NEW g \in Nat, 5 * g < Len(m),
           NEW n, n = Size(m, g, 5)
    PROVE  /\ 8 * g + 8 <= Len(s)
           /\ \A j \in 1 .. 8 : /\ s[8 * g + j] = Encode32(Piece(m, 5 * g, 5))[j]
                                /\ s[8 * g + j] < 128
<1> DEFINE p == Piece(m, 5 * g, 5)
           a == 8 * g
<1>0. a \in Nat /\ 5 * g \in Nat
  OBVIOUS
<1>1. n \in 1 .. 5 /\ p \in Seq(Byte) /\ Len(p) = n /\ \A j \in 1 .. n : p[j] = m[5 * g + j]
  BY Piece5
<1> HIDE DEF p
<1>3. Has32(t, m, g)
  BY Zenon DEF Text32
<1>4. s \in Seq(Byte) /\ t \in Seq(Byte) /\ a + 8 <= Len(t) /\ Len(t) <= Len(s)
  BY <1>3 DEF Has32, Text32, Starts
<1>5. \A j \in 1 .. 8 : s[a + j] = Encode32(p)[j]
  <2>1. \A j \in 1 .. 8 : a + j \in 1 .. Len(t)
    BY <1>0, <1>4
  <2>2. \A j \in 1 .. 8 : t[a + j] = Encode32(p)[j]
    BY <1>3 DEF Has32, p
  <2> QED
    BY <2>1, <2>2 DEF Starts
<1>6. \A j \in 1 .. 8 : Encode32(p)[j] < 128
  <2>1. PICK u : Encodes32(p, n, u)
    BY <1>1, Encode32Is
  <2> QED
    BY <2>1, Zenon DEF Encodes32
<1>7. a + 8 <= Len(s)
  BY <1>4
<1> QED
  BY <1>5, <1>6, <1>7 DEF a, p

LEMMA Groups ==
    ASSUME NEW n \in Nat
    PROVE  /\ n \div 4 \in Nat /\ n = 4 * (n \div 4) + (n % 4) /\ n % 4 \in 0 .. 3
           /\ n \div 8 \in Nat /\ n = 8 * (n \div 8) + (n % 8) /\ n % 8 \in 0 .. 7
  BY DivMod, 4 \in Nat \ {0}, 8 \in Nat \ {0}

\* The decoded length of base 64 of whole groups, padded or not, is that of the
\* bytes they hold; one of a text is never less than the one of three characters.
LEMMA DecodingLen64 ==
    ASSUME NEW m \in Seq(Byte) \ {<<>>}, NEW t, Text64(t, m), NEW s, Starts(s, t),
           NEW n \in 1 .. Len(t)
    PROVE  /\ DecodingLen(s, n, "base64") \in Nat
           /\ \A q \in Nat : n = 4 * q =>
                 DecodingLen(s, n, "base64") = IF 3 * q <= Len(m) THEN 3 * q ELSE Len(m)
<1> DEFINE M == Len(m)
           q == n \div 4
           pad == IF s[n] # Equal THEN 0 ELSE IF s[n - 1] # Equal THEN 1 ELSE 2
<1>1. M \in Nat \ {0} /\ m \in Seq(Byte)
  BY EmptySeq
<1>2. PICK k \in Nat : Len(t) = 4 * k + 4 /\ 3 * k < M /\ M <= 3 * k + 3
  BY <1>1, Len64 DEF Text64
<1>3. n \in Nat /\ n >= 1 /\ n <= 4 * k + 4
  BY <1>2
<1>4. q \in Nat /\ n = 4 * q + (n % 4) /\ n % 4 \in 0 .. 3
  BY <1>3, Groups
<1>5. DecodingLen(s, n, "base64") = Minus(q * 3, pad)
  BY DEF DecodingLen
<1>6. pad \in 0 .. 2
  OBVIOUS
<1>7. ASSUME NEW g \in Nat, 3 * g < M,
             NEW r, r = Size(m, g, 3)
      PROVE  r \in 1 .. 3 /\ \A j \in 1 .. 4 : s[4 * g + j] = Equal <=> ~ (j <= r + 1)
  BY <1>1, <1>7, Chars64, SMTT(30)
<1> HIDE DEF M, q, pad
<1>8. CASE q = 0
  <2>1. n \in 1 .. 3 /\ n % 4 # 0
    BY <1>3, <1>4, <1>8
  <2>2. pad \in 0 .. 1
    <3> DEFINE r == Size(m, 0, 3)
    <3>1. 0 \in Nat /\ 3 * 0 < M
      BY <1>1
    <3>2. r \in 1 .. 3 /\ \A j \in 1 .. 4 : s[4 * 0 + j] = Equal <=> ~ (j <= r + 1)
      BY <1>7, <3>1
    <3>3. s[4 * 0 + 1] # Equal /\ s[4 * 0 + 2] # Equal
      BY <3>2
    <3>4. 4 * 0 + 1 = 1 /\ 4 * 0 + 2 = 2
      OBVIOUS
    <3>5. s[1] # Equal /\ s[2] # Equal
      BY <3>3, <3>4
    <3> QED
      BY <2>1, <3>5 DEF pad
  <2>3. Minus(q * 3, pad) \in Nat
    BY <1>8, <2>2, EncoderAssumption DEF Minus
  <2>4. ASSUME NEW x \in Nat, n = 4 * x PROVE FALSE
    BY <2>1, <2>4
  <2> QED
    BY <1>5, <2>3, <2>4
<1>9. CASE q > 0
  <2>1. q * 3 - pad \in Nat
    BY <1>4, <1>6, <1>9
  <2>2. ASSUME NEW x \in Nat, n = 4 * x PROVE q * 3 - pad = IF 3 * x <= M THEN 3 * x ELSE M
    <3> DEFINE g == q - 1
               r == Size(m, g, 3)
    <3>1. x = q /\ n = 4 * q
      BY <1>4, <2>2
    <3>2. g \in Nat /\ 4 * g + 4 = n /\ 4 * g + 3 = n - 1 /\ 3 * g < M
      BY <1>1, <1>2, <1>3, <1>4, <1>9, <3>1
    <3> HIDE DEF g
    <3>3. r \in 1 .. 3 /\ \A j \in 1 .. 4 : s[4 * g + j] = Equal <=> ~ (j <= r + 1)
      BY <1>7, <3>2
    <3>4. (s[n] = Equal <=> ~ (4 <= r + 1)) /\ (s[n - 1] = Equal <=> ~ (3 <= r + 1))
      <4>1. (s[4 * g + 4] = Equal <=> ~ (4 <= r + 1)) /\ (s[4 * g + 3] = Equal <=> ~ (3 <= r + 1))
        BY <3>3
      <4> QED
        BY <3>2, <4>1
    <3> HIDE DEF r
    <3>5. pad = 3 - r
      BY <3>3, <3>4 DEF pad
    <3>6. r = IF 3 * g + 3 <= M THEN 3 ELSE M - 3 * g
      BY DEF r, Size, M
    <3>7. g = q - 1
      BY DEF g
    <3> QED
      BY <1>1, <1>4, <3>1, <3>2, <3>5, <3>6, <3>7
  <2>3. Minus(q * 3, pad) = q * 3 - pad
    BY <1>4, <1>6, <1>9 DEF Minus
  <2> QED
    BY <1>5, <2>1, <2>2, <2>3 DEF M
<1>10. q = 0 \/ q > 0
  BY <1>4
<1> QED
  BY <1>8, <1>9, <1>10

-----------------------------------------------------------------------------
(* The invariant                                                               *)

\* A text is that of the message.
TextInv ==
    /\ encoding = "base64" => text = <<>> \/ Text64(text, message)
    /\ encoding = "base32" => text = <<>> \/ Text32(text, message)

\* An encoding in progress has written the groups it has done.
EncodeInv ==
    pc = "encode" =>
        /\ fn = "encode" /\ text = <<>>
        /\ capacity > EncodingLen(Len(message), encoding)
        /\ encoding = "base64" =>
              /\ Len(output) = 4 * group /\ 3 * group <= Len(message)
              /\ result_len = EncodingLen(Len(message), "base64")
              /\ \A g \in Nat : g < group => Has64(output, message, g)
        /\ encoding = "base32" =>
              /\ Len(output) = EncodingLen(Len(message), "base32") + 1
              /\ 5 * group < Len(message) + 5
              /\ \A g \in Nat : g < group => Has32(output, message, g)

\* A decode is given the text and what follows it.
SourceInv ==
    fn = "decode" => text # <<>> /\ src_len \in 1 .. Len(text) /\ Starts(source, text)

\* What is written are the bytes of the message, as far as it reaches.
Agrees(o, m) == \A i \in 1 .. Len(o) : i <= Len(m) => o[i] = m[i]

\* A decode in progress has whole groups to do and the room for them.
DecodeInv ==
    pc = "decode" =>
        /\ fn = "decode" /\ Agrees(output, message)
        /\ encoding = "base64" =>
              /\ src_len % 4 = 0 /\ capacity >= Held(src_len) /\ result_len = Held(src_len)
              /\ Len(output) = 3 * group /\ 4 * group <= Count64(source)
        /\ encoding = "base32" =>
              /\ src_len % 8 = 0 /\ capacity >= AllocationLen
              /\ Len(output) = 5 * group /\ 8 * group <= src_len
              /\ dest_size = IF 5 * group <= Len(message) THEN 5 * group ELSE Len(message)
              /\ group > 0 => result = 0 /\ result_len = dest_size

EncoderInv ==
    /\ TextInv /\ EncodeInv /\ SourceInv /\ DecodeInv
    /\ RoundTrip /\ WithinOutput /\ FailsForRoom

LEMMA MessageIs ==
    ASSUME TypeOK
    PROVE  message \in Seq(Byte) /\ Len(message) \in Nat \ {0}
BY EmptySeq DEF TypeOK

LEMMA TextKept == TextInv /\ UNCHANGED <<message, encoding, text>> => TextInv'
BY DEF TextInv

LEMMA SourceKept == SourceInv /\ UNCHANGED <<fn, text, source, src_len>> => SourceInv'
BY DEF SourceInv

LEMMA HeldKept == UNCHANGED <<message, encoding>> => \A n : Held(n)' = Held(n)
BY DEF Held

LEMMA Held64 ==
    ASSUME encoding = "base64", NEW n \in Nat, n % 4 = 0
    PROVE  \E q \in Nat : n = 4 * q /\ Held(n) = IF 3 * q <= Len(message) THEN 3 * q ELSE Len(message)
<1>1. n \div 4 \in Nat /\ n = 4 * (n \div 4)
  BY Groups
<1>2. Held(n) = IF (n \div 4) * 3 <= Len(message) THEN (n \div 4) * 3 ELSE Len(message)
  BY DEF Held, Width, Group
<1>3. (n \div 4) * 3 = 3 * (n \div 4)
  BY <1>1
<1> QED
  BY <1>1, <1>2, <1>3

LEMMA Held32 ==
    ASSUME encoding = "base32", NEW n \in Nat, n % 8 = 0
    PROVE  \E q \in Nat : /\ n = 8 * q
                          /\ Held(n) = IF 5 * q <= Len(message) THEN 5 * q ELSE Len(message)
                          /\ \A s : DecodingLen(s, n, "base32") = 5 * q
<1>1. n \div 8 \in Nat /\ n = 8 * (n \div 8)
  BY Groups
<1>2. Held(n) = IF (n \div 8) * 5 <= Len(message) THEN (n \div 8) * 5 ELSE Len(message)
  BY DEF Held, Width, Group
<1>3. (n \div 8) * 5 = 5 * (n \div 8)
  BY <1>1
<1>4. \A s : DecodingLen(s, n, "base32") = (n * 5) \div 8
  BY DEF DecodingLen
<1>5. ASSUME NEW q \in Nat PROVE ((8 * q) * 5) \div 8 = 5 * q
  OBVIOUS
<1>6. (n * 5) \div 8 = 5 * (n \div 8)
  BY <1>1, <1>5
<1> QED
  BY <1>1, <1>2, <1>3, <1>4, <1>6

LEMMA Agreement ==
    ASSUME NEW m \in Seq(Byte), NEW o \in Seq(Byte), NEW d \in Seq(Byte), Agrees(o, m),
           \A j \in 1 .. Len(d) : Len(o) + j <= Len(m) => d[j] = m[Len(o) + j]
    PROVE  o \o d \in Seq(Byte) /\ Len(o \o d) = Len(o) + Len(d) /\ Agrees(o \o d, m)
<1>1. /\ o \o d \in Seq(Byte)
      /\ Len(o \o d) = Len(o) + Len(d)
      /\ \A i \in 1 .. Len(o) + Len(d) : (o \o d)[i] = IF i <= Len(o) THEN o[i] ELSE d[i - Len(o)]
  BY ConcatProperties
<1>2. Len(o) \in Nat /\ Len(d) \in Nat
  OBVIOUS
<1>3. ASSUME NEW i \in 1 .. Len(o) + Len(d), i <= Len(m) PROVE (o \o d)[i] = m[i]
  <2>1. CASE i <= Len(o)
    BY <1>1, <1>2, <1>3, <2>1 DEF Agrees
  <2>2. CASE ~ (i <= Len(o))
    <3>1. i - Len(o) \in 1 .. Len(d) /\ Len(o) + (i - Len(o)) = i
      BY <1>2, <2>2
    <3>2. (o \o d)[i] = d[i - Len(o)]
      BY <1>1, <2>2
    <3> QED
      BY <1>3, <3>1, <3>2
  <2> QED
    BY <2>1, <2>2
<1> QED
  BY <1>1, <1>3 DEF Agrees

LEMMA Has64Kept ==
    ASSUME NEW t, NEW u, NEW m, NEW g \in Nat, Has64(t, m, g), Len(u) \in Nat,
           4 * g + 4 <= Len(u), \A i \in 1 .. 4 * g + 4 : u[i] = t[i]
    PROVE  Has64(u, m, g)
<1>1. \A j \in 1 .. 4 : 4 * g + j \in 1 .. 4 * g + 4
  OBVIOUS
<1> QED
  BY <1>1 DEF Has64

LEMMA Has32Kept ==
    ASSUME NEW t, NEW u, NEW m, NEW g \in Nat, Has32(t, m, g), Len(u) \in Nat,
           8 * g + 8 <= Len(u), \A i \in 1 .. 8 * g + 8 : u[i] = t[i]
    PROVE  Has32(u, m, g)
<1>1. \A j \in 1 .. 8 : 8 * g + j \in 1 .. 8 * g + 8
  OBVIOUS
<1> QED
  BY <1>1 DEF Has32

LEMMA ChunkIs ==
    ASSUME NEW s, group \in Nat
    PROVE  Chunk(s, 3) = Piece(s, 3 * group, 3) /\ Chunk(s, 5) = Piece(s, 5 * group, 5)
<1>1. group * 3 = 3 * group /\ group * 5 = 5 * group
  OBVIOUS
<1> QED
  BY <1>1 DEF Chunk, Piece

LEMMA EncoderInit == Init => EncoderInv
<1> SUFFICES ASSUME Init PROVE EncoderInv
  OBVIOUS
<1> USE DEF Init
<1>1. TypeOK
  BY EncoderAssumption DEF TypeOK, Null
<1>2. TextInv /\ EncodeInv /\ SourceInv /\ DecodeInv
  BY DEF TextInv, EncodeInv, SourceInv, DecodeInv
<1>3. RoundTrip /\ FailsForRoom
  BY DEF RoundTrip, FailsForRoom, Answered
<1>4. WithinOutput
  BY <1>1 DEF WithinOutput
<1> QED
  BY <1>2, <1>3, <1>4 DEF EncoderInv

LEMMA EncodingLenIs ==
    ASSUME NEW m \in Nat \ {0}, NEW type \in {"base32", "base64"}
    PROVE  EncodingLen(m, type) \in Nat \ {0}
<1>1. EncodingLen(m, "base64") \in Nat \ {0}
  BY Len64
<1>2. EncodingLen(m, "base32") \in Nat \ {0}
  BY Len32
<1> QED
  BY <1>1, <1>2

LEMMA EncodeStep ==
    ASSUME EncoderInv, NEW type \in {"base32", "base64"}, NEW cap \in Capacities, Encode(type, cap)
    PROVE  EncoderInv'
<1> DEFINE need == EncodingLen(Len(message), type)
<1>0. TypeOK /\ message \in Seq(Byte) /\ Len(message) \in Nat \ {0}
  BY MessageIs DEF EncoderInv, WithinOutput
<1>1. need \in Nat \ {0}
  BY <1>0, EncodingLenIs
<1>2. cap \in Nat \cup {Null}
  BY EncoderAssumption
<1>3. /\ encoding' = type /\ capacity' = cap /\ message' = message
      /\ text' = <<>> /\ fn' = "encode" /\ source' = <<>> /\ src_len' = 0
      /\ group' = 0 /\ dest_size' = 0
  BY DEF Encode
<1>4. \/ /\ cap = Null \/ cap <= need
         /\ pc' = "idle" /\ result' = (IF type = "base64" /\ cap # Null THEN 0 ELSE -1)
         /\ result_len' = need /\ output' = <<>>
      \/ /\ ~ (cap = Null \/ cap <= need)
         /\ pc' = "encode" /\ result' = result
         /\ output' = IF type = "base32" THEN [j \in 1 .. need + 1 |-> Nul] ELSE <<>>
         /\ result_len' = (IF type = "base64" THEN need ELSE cap)
  BY DEF Encode, Returns
<1> HIDE DEF need
<1>5. TextInv' /\ SourceInv' /\ DecodeInv' /\ RoundTrip'
  BY <1>3, <1>4 DEF TextInv, SourceInv, DecodeInv, RoundTrip, Answered
<1>6. /\ output' \in Seq(Byte)
      /\ Len(output') = IF pc' = "encode" /\ type = "base32" THEN need + 1 ELSE 0
  <2>1. Nul \in Byte
    BY DEF Nul, Byte
  <2>2. CASE output' = [j \in 1 .. need + 1 |-> Nul]
    <3>1. output' \in Seq(Byte) /\ Len(output') = need + 1
      BY <1>1, <2>1, <2>2
    <3>2. output' # <<>>
      BY <1>1, <3>1
    <3> QED
      BY <1>4, <3>1, <3>2
  <2>3. CASE output' = <<>> /\ ~ (pc' = "encode" /\ type = "base32")
    BY <2>3
  <2> QED
    BY <1>4, <2>2, <2>3
<1>7. EncodeInv'
  <2>1. ASSUME pc' = "encode" PROVE cap > need /\ (type = "base64" => result_len' = need)
    BY <1>1, <1>2, <1>4, <2>1 DEF Null
  <2>2. \A g \in Nat : ~ (g < 0)
    OBVIOUS
  <2> QED
    BY <1>0, <1>3, <1>6, <2>1, <2>2 DEF EncodeInv, need
<1>8. TypeOK'
  BY <1>0, <1>1, <1>2, <1>3, <1>4, <1>6 DEF TypeOK
<1>9. WithinOutput'
  <2>1. Len(output') <= (IF capacity' = Null THEN 0 ELSE capacity')
    BY <1>1, <1>2, <1>3, <1>4, <1>6 DEF Null
  <2> QED
    BY <1>8, <2>1 DEF WithinOutput
<1>10. FailsForRoom'
  <2>1. ASSUME pc' = "idle"
        PROVE  cap <= result_len' /\ (result' # 0 \/ (type = "base64" /\ cap # Null))
    BY <1>1, <1>2, <1>4, <2>1 DEF Null
  <2> QED
    BY <1>3, <2>1 DEF FailsForRoom, AnswersZero
<1> QED
  BY <1>5, <1>7, <1>9, <1>10 DEF EncoderInv

\* A group is appended to those that are done.
LEMMA Adds64 ==
    ASSUME NEW m \in Seq(Byte), NEW o \in Seq(Byte), NEW h \in Nat, Len(o) = 4 * h,
           3 * h < Len(m), \A g \in Nat : g < h => Has64(o, m, g),
           NEW u, u = o \o Encode64(Piece(m, 3 * h, 3))
    PROVE  /\ u \in Seq(Byte) /\ Len(u) = 4 * h + 4
           /\ \A g \in Nat : g < h + 1 => Has64(u, m, g)
<1> DEFINE p == Piece(m, 3 * h, 3)
           e == Encode64(p)
<1>4. p \in Seq(Byte) /\ Len(p) \in 1 .. 3
  <2> DEFINE n == Size(m, h, 3)
  <2>1. n \in 1 .. 3 /\ p \in Seq(Byte) /\ Len(p) = n
    BY Piece3
  <2> QED
    BY <2>1
<1> HIDE DEF p
<1>5. e \in Seq(Byte) /\ Len(e) = 4
  <2> DEFINE n == Len(p)
  <2>1. n \in 1 .. 3 /\ p \in Seq(Byte) /\ Len(p) = n
    BY <1>4
  <2> HIDE DEF n
  <2> QED
    BY <2>1, Encode64Is
<1> HIDE DEF e
<1>7. /\ u \in Seq(Byte) /\ Len(u) = 4 * h + 4
      /\ \A i \in 1 .. 4 * h + 4 : u[i] = IF i <= 4 * h THEN o[i] ELSE e[i - 4 * h]
  <2>1. /\ o \o e \in Seq(Byte) /\ Len(o \o e) = Len(o) + Len(e)
        /\ \A i \in 1 .. Len(o) + Len(e) :
              (o \o e)[i] = IF i <= Len(o) THEN o[i] ELSE e[i - Len(o)]
    BY <1>5, ConcatProperties
  <2>2. u = o \o e
    BY DEF e, p
  <2> QED
    BY <1>5, <2>1, <2>2
<1>8. Has64(u, m, h)
  <2>1. ASSUME NEW j \in 1 .. 4 PROVE u[4 * h + j] = e[j]
    <3>1. /\ 4 * h + j \in 1 .. 4 * h + 4
          /\ ~ (4 * h + j <= 4 * h) /\ (4 * h + j) - 4 * h = j
      OBVIOUS
    <3> QED
      BY <1>7, <3>1
  <2>2. 4 * h + 4 <= Len(u)
    BY <1>7
  <2> QED
    BY <2>1, <2>2, Zenon DEF Has64, e, p
<1>9. ASSUME NEW g \in Nat, g < h PROVE Has64(u, m, g)
  <2>1. Has64(o, m, g)
    BY <1>9
  <2>2. 4 * g + 4 <= 4 * h /\ Len(u) \in Nat
    BY <1>7, <1>9
  <2>3. \A i \in 1 .. 4 * g + 4 : u[i] = o[i]
    <3>1. \A i \in 1 .. 4 * g + 4 : i \in 1 .. 4 * h + 4 /\ i <= 4 * h
      BY <2>2
    <3> QED
      BY <1>7, <3>1
  <2>4. 4 * g + 4 <= Len(u)
    BY <1>7, <2>2
  <2> QED
    BY <2>1, <2>2, <2>3, <2>4, Has64Kept
<1>10. \A g \in Nat : g < h + 1 => g = h \/ g < h
  OBVIOUS
<1> QED
  BY <1>7, <1>8, <1>9, <1>10

LEMMA Encode64GroupStep ==
    ASSUME EncoderInv, Encode64Group
    PROVE  EncoderInv'
<1>0. TypeOK /\ message \in Seq(Byte) /\ Len(message) \in Nat \ {0}
  BY MessageIs DEF EncoderInv, WithinOutput
<1>1. /\ pc = "encode" /\ encoding = "base64" /\ Len(message) - 3 * group >= 3
      /\ output' = output \o Encode64(Chunk(message, 3)) /\ group' = group + 1
      /\ UNCHANGED <<message, encoding, fn, source, src_len, capacity, text, pc,
                     dest_size, result, result_len>>
  BY DEF Encode64Group, input
<1>2. /\ fn = "encode" /\ text = <<>>
      /\ capacity > EncodingLen(Len(message), "base64")
      /\ Len(output) = 4 * group
      /\ result_len = EncodingLen(Len(message), "base64")
      /\ \A g \in Nat : g < group => Has64(output, message, g)
  BY <1>1 DEF EncoderInv, EncodeInv
<1>3. group \in Nat /\ output \in Seq(Byte) /\ capacity \in Nat \cup {Null}
  BY <1>0 DEF TypeOK
<1>4. 3 * group + 3 <= Len(message) /\ 3 * group < Len(message)
  BY <1>0, <1>1, <1>3
<1>5. output' = output \o Encode64(Piece(message, 3 * group, 3))
  BY <1>1, <1>3, ChunkIs
<1>6. /\ output' \in Seq(Byte) /\ Len(output') = 4 * group + 4
      /\ \A g \in Nat : g < group + 1 => Has64(output', message, g)
  BY <1>0, <1>2, <1>3, <1>4, <1>5, Adds64
<1>7. EncodeInv'
  <2>1. Len(output') = 4 * group' /\ 3 * group' <= Len(message')
    BY <1>0, <1>1, <1>3, <1>4, <1>6
  <2> QED
    BY <1>1, <1>2, <1>6, <2>1 DEF EncodeInv
<1>8. TypeOK'
  <2>1. group' \in Nat
    BY <1>1, <1>3
  <2> QED
    BY <1>0, <1>1, <1>6, <2>1 DEF TypeOK
<1>9. WithinOutput'
  <2>1. PICK k \in Nat : EncodingLen(Len(message), "base64") = 4 * k + 4 /\ Len(message) <= 3 * k + 3
    BY <1>0, Len64
  <2>2. Len(output') <= (IF capacity' = Null THEN 0 ELSE capacity')
    BY <1>0, <1>1, <1>2, <1>3, <1>4, <1>6, <2>1 DEF Null
  <2> QED
    BY <1>8, <2>2 DEF WithinOutput
<1>10. TextInv' /\ SourceInv'
  BY <1>1, TextKept, SourceKept DEF EncoderInv
<1>11. DecodeInv' /\ RoundTrip' /\ FailsForRoom'
  BY <1>1 DEF DecodeInv, RoundTrip, Answered, FailsForRoom
<1> QED
  BY <1>7, <1>9, <1>10, <1>11 DEF EncoderInv

LEMMA Encode64ReturnsStep ==
    ASSUME EncoderInv, Encode64Returns
    PROVE  EncoderInv'
<1> DEFINE need == EncodingLen(Len(message), "base64")
<1>0. TypeOK /\ message \in Seq(Byte) /\ Len(message) \in Nat \ {0}
  BY MessageIs DEF EncoderInv, WithinOutput
<1>1. /\ pc = "encode" /\ encoding = "base64" /\ Len(message) - 3 * group < 3
      /\ text' = IF 3 * group = Len(message) THEN output ELSE output \o Encode64(Chunk(message, 3))
      /\ output' = Append(text', Nul)
      /\ pc' = "idle" /\ result' = 0 /\ result_len' = result_len
      /\ UNCHANGED <<message, encoding, fn, source, src_len, capacity, group, dest_size>>
  BY DEF Encode64Returns, input, Returns
<1>2. /\ fn = "encode" /\ text = <<>> /\ capacity > need
      /\ Len(output) = 4 * group /\ 3 * group <= Len(message) /\ result_len = need
      /\ \A g \in Nat : g < group => Has64(output, message, g)
  BY <1>1 DEF EncoderInv, EncodeInv
<1>3. group \in Nat /\ output \in Seq(Byte) /\ capacity \in Nat \cup {Null}
  BY <1>0 DEF TypeOK
<1>4. PICK k \in Nat : need = 4 * k + 4 /\ 3 * k < Len(message) /\ Len(message) <= 3 * k + 3
  BY <1>0, Len64
<1> HIDE DEF need
<1>5. /\ text' \in Seq(Byte) /\ Len(text') = need
      /\ \A g \in Nat : 3 * g < Len(message) => Has64(text', message, g)
  <2>1. CASE 3 * group = Len(message)
    <3>1. text' = output /\ 4 * group = need
      BY <1>0, <1>1, <1>3, <1>4, <2>1
    <3>2. \A g \in Nat : 3 * g < Len(message) => g < group
      BY <1>3, <2>1
    <3> QED
      BY <1>2, <1>3, <3>1, <3>2
  <2>2. CASE 3 * group # Len(message)
    <3>1. 3 * group < Len(message) /\ 4 * group + 4 = need
      BY <1>0, <1>1, <1>2, <1>3, <1>4, <2>2
    <3>2. text' = output \o Encode64(Piece(message, 3 * group, 3))
      BY <1>1, <1>3, <2>2, ChunkIs
    <3>3. /\ text' \in Seq(Byte) /\ Len(text') = 4 * group + 4
          /\ \A g \in Nat : g < group + 1 => Has64(text', message, g)
      BY <1>0, <1>2, <1>3, <3>1, <3>2, Adds64
    <3>4. \A g \in Nat : 3 * g < Len(message) => g < group + 1
      BY <1>0, <1>1, <1>3
    <3> QED
      BY <3>1, <3>3, <3>4
  <2> QED
    BY <2>1, <2>2
<1>6. output' \in Seq(Byte) /\ Len(output') = need + 1
  <2>1. Nul \in Byte
    BY DEF Nul, Byte
  <2> QED
    BY <1>1, <1>5, <2>1, AppendProperties
<1>7. text' # <<>>
  BY <1>4, <1>5
<1>8. TextInv'
  <2>1. Text64(text', message')
    BY <1>1, <1>5 DEF Text64, need
  <2> QED
    BY <1>1, <2>1 DEF TextInv
<1>9. TypeOK'
  BY <1>0, <1>1, <1>5, <1>6 DEF TypeOK
<1>10. WithinOutput'
  <2>1. Len(output') <= (IF capacity' = Null THEN 0 ELSE capacity')
    BY <1>1, <1>2, <1>3, <1>4, <1>6 DEF Null
  <2> QED
    BY <1>9, <2>1 DEF WithinOutput
<1>11. FailsForRoom'
  BY <1>1, <1>2, <1>5, <1>7 DEF FailsForRoom
<1>12. EncodeInv' /\ SourceInv' /\ DecodeInv' /\ RoundTrip'
  BY <1>1, <1>2 DEF EncodeInv, SourceInv, DecodeInv, RoundTrip, Answered
<1> QED
  BY <1>8, <1>10, <1>11, <1>12 DEF EncoderInv

LEMMA Encode32GroupStep ==
    ASSUME EncoderInv, Encode32Group
    PROVE  EncoderInv'
<1> DEFINE need == EncodingLen(Len(message), "base32")
           p == Piece(message, 5 * group, 5)
           e == Encode32(p)
<1>0. TypeOK /\ message \in Seq(Byte) /\ Len(message) \in Nat \ {0}
  BY MessageIs DEF EncoderInv, WithinOutput
<1>1. /\ pc = "encode" /\ encoding = "base32" /\ 5 * group < Len(message)
      /\ output' = [j \in 1 .. Len(output) |->
                      IF j - 8 * group \in 1 .. 8 THEN Encode32(Chunk(message, 5))[j - 8 * group]
                      ELSE output[j]]
      /\ group' = group + 1
      /\ UNCHANGED <<message, encoding, fn, source, src_len, capacity, text, pc,
                     dest_size, result, result_len>>
  BY DEF Encode32Group, input
<1>2. /\ fn = "encode" /\ text = <<>> /\ capacity > need
      /\ Len(output) = need + 1 /\ \A g \in Nat : g < group => Has32(output, message, g)
  BY <1>1 DEF EncoderInv, EncodeInv
<1>3. group \in Nat /\ output \in Seq(Byte) /\ capacity \in Nat \cup {Null} /\ Len(output) \in Nat
  BY <1>0 DEF TypeOK
<1>4. PICK k \in Nat : need = 8 * k + 8 /\ 5 * k < Len(message) /\ Len(message) <= 5 * k + 5
  BY <1>0, Len32
<1> HIDE DEF need
<1>5. \A j \in 1 .. 8 : e[j] \in Byte
  <2> DEFINE n == Size(message, group, 5)
  <2>1. n \in 1 .. 5 /\ p \in Seq(Byte) /\ Len(p) = n
    BY <1>0, <1>1, <1>3, Piece5
  <2> HIDE DEF n, p
  <2>2. PICK u : Encodes32(p, n, u)
    BY <2>1, Encode32Is
  <2> QED
    BY <2>2, Zenon DEF Encodes32
<1>6. Chunk(message, 5) = p
  BY <1>3, ChunkIs
<1> HIDE DEF p, e
<1>7. /\ output' = [j \in 1 .. Len(output) |->
                      IF j - 8 * group \in 1 .. 8 THEN e[j - 8 * group] ELSE output[j]]
  BY <1>1, <1>6 DEF e
<1>8. output' \in Seq(Byte) /\ Len(output') = need + 1
  <2>1. \A j \in 1 .. Len(output) : output[j] \in Byte
    BY <1>3
  <2>2. \A j \in 1 .. Len(output) :
           (IF j - 8 * group \in 1 .. 8 THEN e[j - 8 * group] ELSE output[j]) \in Byte
    BY <1>5, <2>1, Zenon
  <2>3. output' \in [1 .. Len(output) -> Byte]
    BY <1>7, <2>2
  <2>4. output' \in Seq(Byte) /\ Len(output') = Len(output)
    BY <1>3, <2>3
  <2> QED
    BY <1>2, <2>4
<1>9. 8 * group + 8 <= need
  BY <1>0, <1>1, <1>3, <1>4
<1>10. Has32(output', message, group)
  <2>1. ASSUME NEW j \in 1 .. 8 PROVE output'[8 * group + j] = e[j]
    <3>1. 8 * group + j \in 1 .. Len(output) /\ (8 * group + j) - 8 * group = j
      BY <1>2, <1>3, <1>4, <1>9
    <3> QED
      BY <1>7, <3>1
  <2>2. 8 * group + 8 <= Len(output')
    BY <1>3, <1>4, <1>8, <1>9
  <2> QED
    BY <2>1, <2>2 DEF Has32, e, p
<1>11. ASSUME NEW g \in Nat, g < group PROVE Has32(output', message, g)
  <2>1. Has32(output, message, g)
    BY <1>2, <1>11
  <2>2. 8 * g + 8 <= 8 * group /\ Len(output') \in Nat
    BY <1>3, <1>4, <1>8, <1>11
  <2>3. \A i \in 1 .. 8 * g + 8 : output'[i] = output[i]
    <3>1. \A i \in 1 .. 8 * g + 8 : i \in 1 .. Len(output) /\ ~ (i - 8 * group \in 1 .. 8)
      BY <1>2, <1>3, <1>4, <1>9, <2>2
    <3> QED
      BY <1>7, <3>1
  <2>4. 8 * g + 8 <= Len(output')
    BY <1>3, <1>4, <1>8, <1>9, <2>2
  <2> QED
    BY <2>1, <2>2, <2>3, <2>4, Has32Kept
<1>12. EncodeInv'
  <2>1. \A g \in Nat : g < group + 1 => g = group \/ g < group
    BY <1>3
  <2>2. \A g \in Nat : g < group' => Has32(output', message', g)
    BY <1>1, <1>10, <1>11, <2>1
  <2>3. 5 * group' < Len(message') + 5
    BY <1>0, <1>1, <1>3
  <2> QED
    BY <1>1, <1>2, <1>8, <2>2, <2>3 DEF EncodeInv, need
<1>13. TypeOK'
  <2>1. group' \in Nat
    BY <1>1, <1>3
  <2> QED
    BY <1>0, <1>1, <1>8, <2>1 DEF TypeOK
<1>14. WithinOutput'
  <2>1. Len(output') <= (IF capacity' = Null THEN 0 ELSE capacity')
    BY <1>1, <1>2, <1>3, <1>4, <1>8 DEF Null
  <2> QED
    BY <1>13, <2>1 DEF WithinOutput
<1>15. TextInv' /\ SourceInv'
  BY <1>1, TextKept, SourceKept DEF EncoderInv
<1>16. DecodeInv' /\ RoundTrip' /\ FailsForRoom'
  BY <1>1 DEF DecodeInv, RoundTrip, Answered, FailsForRoom
<1> QED
  BY <1>12, <1>14, <1>15, <1>16 DEF EncoderInv

LEMMA Encode32ReturnsStep ==
    ASSUME EncoderInv, Encode32Returns
    PROVE  EncoderInv'
<1> DEFINE need == EncodingLen(Len(message), "base32")
<1>0. TypeOK /\ message \in Seq(Byte) /\ Len(message) \in Nat \ {0}
  BY MessageIs DEF EncoderInv, WithinOutput
<1>1. /\ pc = "encode" /\ encoding = "base32" /\ 5 * group >= Len(message)
      /\ text' = SubSeq(output, 1, Len(output) - 1)
      /\ pc' = "idle" /\ result' = 0 /\ result_len' = need
      /\ UNCHANGED <<message, encoding, fn, source, src_len, capacity, output, group, dest_size>>
  BY DEF Encode32Returns, input, Returns
<1>2. /\ fn = "encode" /\ Len(output) = need + 1
      /\ \A g \in Nat : g < group => Has32(output, message, g)
  BY <1>1 DEF EncoderInv, EncodeInv
<1>3. group \in Nat /\ output \in Seq(Byte)
  BY <1>0 DEF TypeOK
<1>4. PICK k \in Nat : need = 8 * k + 8 /\ 5 * k < Len(message) /\ Len(message) <= 5 * k + 5
  BY <1>0, Len32
<1> HIDE DEF need
<1>5. text' \in Seq(Byte) /\ Len(text') = need /\ \A j \in 1 .. need : text'[j] = output[j]
  <2>1. /\ 0 \in Nat /\ need \in Nat /\ 0 <= need /\ need <= Len(output)
        /\ 0 + 1 = 1 /\ Len(output) - 1 = need /\ need - 0 = need /\ \A j \in 1 .. need : 0 + j = j
    BY <1>2, <1>4
  <2>2. /\ SubSeq(output, 0 + 1, need) \in Seq(Byte) /\ Len(SubSeq(output, 0 + 1, need)) = need - 0
        /\ \A j \in 1 .. need - 0 : SubSeq(output, 0 + 1, need)[j] = output[0 + j]
    BY <1>3, <2>1, WithinIs
  <2> QED
    BY <1>1, <2>1, <2>2
<1>6. ASSUME NEW g \in Nat, 5 * g < Len(message) PROVE Has32(text', message, g)
  <2>1. Has32(output, message, g)
    <3>1. g < group
      BY <1>0, <1>1, <1>3, <1>6
    <3> QED
      BY <1>2, <3>1
  <2>2. 8 * g + 8 <= need /\ need \in Nat
    BY <1>0, <1>4, <1>6
  <2>3. \A i \in 1 .. 8 * g + 8 : text'[i] = output[i]
    BY <1>5, <2>2
  <2> QED
    BY <1>5, <2>1, <2>2, <2>3, Has32Kept
<1>7. text' # <<>>
  BY <1>4, <1>5
<1>8. TextInv'
  <2>1. Text32(text', message')
    BY <1>1, <1>5, <1>6 DEF Text32, need
  <2> QED
    BY <1>1, <2>1 DEF TextInv
<1>9. TypeOK'
  <2>1. result_len' \in Nat
    BY <1>1, <1>4
  <2> QED
    BY <1>0, <1>1, <1>5, <2>1 DEF TypeOK
<1>10. WithinOutput'
  <2>1. ~ RunsOn
    BY <1>2 DEF RunsOn
  <2>2. Len(output) <= (IF capacity = Null THEN 0 ELSE capacity)
    BY <2>1 DEF EncoderInv, WithinOutput
  <2> QED
    BY <1>1, <1>9, <2>2 DEF WithinOutput
<1>11. FailsForRoom'
  BY <1>1, <1>2, <1>5, <1>7 DEF FailsForRoom
<1>12. EncodeInv' /\ SourceInv' /\ DecodeInv' /\ RoundTrip'
  BY <1>1, <1>2 DEF EncodeInv, SourceInv, DecodeInv, RoundTrip, Answered
<1> QED
  BY <1>8, <1>10, <1>11, <1>12 DEF EncoderInv

LEMMA DecodeStep ==
    ASSUME EncoderInv, NEW n \in 1 .. Len(text), NEW trailer \in Trailers, NEW cap \in Capacities,
           Decode(n, trailer, cap)
    PROVE  EncoderInv'
<1> DEFINE s == text \o trailer
           need == DecodingLen(s, n, encoding)
<1>0. TypeOK /\ message \in Seq(Byte) /\ Len(message) \in Nat \ {0}
  BY MessageIs DEF EncoderInv, WithinOutput
<1>1. /\ pc = "idle" /\ fn = "encode" /\ text # <<>>
      /\ fn' = "decode" /\ source' = s /\ src_len' = n /\ capacity' = cap
      /\ output' = <<>> /\ group' = 0 /\ dest_size' = 0
      /\ UNCHANGED <<message, encoding, text>>
  BY DEF Decode
<1>2. \/ /\ cap = Null /\ pc' = "idle" /\ result' = -1 /\ result_len' = need
      \/ /\ cap # Null /\ n % Width[encoding] # 0
         /\ pc' = "idle" /\ result' = -1 /\ result_len' = cap
      \/ /\ cap # Null /\ n % Width[encoding] = 0 /\ cap < need
         /\ pc' = "idle" /\ result' = -1 /\ result_len' = need
      \/ /\ cap # Null /\ n % Width[encoding] = 0 /\ cap >= need
         /\ pc' = "decode" /\ result' = result
         /\ result_len' = IF encoding = "base64" THEN need ELSE cap
  BY DEF Decode, Returns
<1>3. cap \in Nat \cup {Null} /\ text \in Seq(Byte) /\ n \in Nat /\ encoding \in {"base32", "base64"}
  BY <1>0, EncoderAssumption DEF TypeOK
<1>4. Starts(s, text) /\ s \in Seq(Byte)
  <2>1. trailer \in Seq(Byte)
    <3>1. trailer \in Seq(Byte \ {0})
      BY EncoderAssumption
    <3> QED
      BY <3>1
  <2>2. /\ s \in Seq(Byte) /\ Len(s) = Len(text) + Len(trailer)
        /\ \A i \in 1 .. Len(text) + Len(trailer) :
              s[i] = IF i <= Len(text) THEN text[i] ELSE trailer[i - Len(text)]
    BY <1>3, <2>1, ConcatProperties
  <2>3. Len(text) \in Nat /\ Len(trailer) \in Nat
    BY <1>3, <2>1
  <2>4. \A i \in 1 .. Len(text) : i \in 1 .. Len(text) + Len(trailer) /\ i <= Len(text)
    BY <2>3
  <2> HIDE DEF s
  <2> QED
    BY <2>2, <2>3, <2>4 DEF Starts
<1> HIDE DEF s
<1>5. /\ need \in Nat
      /\ encoding = "base64" /\ n % 4 = 0 => need = Held(n)
  <2>1. CASE encoding = "base64"
    <3>1. Text64(text, message)
      BY <1>1, <2>1 DEF EncoderInv, TextInv
    <3>2. message \in Seq(Byte) \ {<<>>}
      BY <1>0 DEF TypeOK
    <3>3. /\ need \in Nat
          /\ \A q \in Nat : n = 4 * q => need = IF 3 * q <= Len(message) THEN 3 * q ELSE Len(message)
      BY <1>4, <2>1, <3>1, <3>2, DecodingLen64
    <3>4. ASSUME n % 4 = 0 PROVE need \in Nat /\ need = Held(n)
      <4>1. PICK q \in Nat : /\ n = 4 * q
                             /\ Held(n) = IF 3 * q <= Len(message) THEN 3 * q ELSE Len(message)
        BY <1>3, <2>1, <3>4, Held64
      <4> HIDE DEF need
      <4> QED
        BY <1>0, <3>3, <4>1
    <3>5. Width[encoding] = 4
      BY <2>1 DEF Width
    <3> QED
      BY <3>3, <3>4, <3>5
  <2>2. CASE encoding = "base32"
    <3>1. need = (n * 5) \div 8
      BY <2>2 DEF DecodingLen
    <3>2. n * 5 \in Nat
      BY <1>3
    <3>3. need \in Nat
      BY <3>1, <3>2, Groups
    <3> QED
      BY <2>2, <3>3
  <2> QED
    BY <1>3, <2>1, <2>2
<1>6. TextInv' /\ SourceInv' /\ EncodeInv' /\ RoundTrip'
  <2>1. SourceInv'
    BY <1>1, <1>4 DEF SourceInv
  <2>2. TextInv'
    BY <1>1, TextKept DEF EncoderInv
  <2>3. EncodeInv' /\ RoundTrip'
    BY <1>1, <1>2 DEF EncodeInv, RoundTrip, Answered
  <2> QED
    BY <2>1, <2>2, <2>3
<1>7. output' \in Seq(Byte) /\ Len(output') = 0
  BY <1>1, EmptySeq
<1>8. TypeOK'
  <2> HIDE DEF need
  <2>1. result_len' \in Nat
    BY <1>2, <1>3, <1>5
  <2>2. source' \in Seq(Byte) /\ src_len' \in Nat /\ capacity' \in Nat \cup {Null}
    BY <1>1, <1>3, <1>4
  <2>3. pc' \in {"idle", "decode"} /\ result' \in {0, -1}
    BY <1>0, <1>2 DEF TypeOK
  <2> QED
    BY <1>0, <1>1, <1>7, <2>1, <2>2, <2>3 DEF TypeOK
<1>9. WithinOutput'
  <2>1. Len(output') <= (IF capacity' = Null THEN 0 ELSE capacity')
    BY <1>1, <1>3, <1>7 DEF Null
  <2> QED
    BY <1>8, <2>1 DEF WithinOutput
<1>10. FailsForRoom'
  <2>1. ASSUME pc' = "idle", n % Width[encoding] = 0 PROVE cap < result_len'
    <3> HIDE DEF need
    <3> QED
      BY <1>2, <1>3, <1>5, <2>1 DEF Null
  <2> QED
    BY <1>1, <2>1 DEF FailsForRoom
<1>11. DecodeInv'
  <2> SUFFICES ASSUME pc' = "decode" PROVE DecodeInv'
    BY DEF DecodeInv
  <2>1. /\ cap # Null /\ n % Width[encoding] = 0 /\ cap >= need
        /\ result_len' = IF encoding = "base64" THEN need ELSE cap
    BY <1>2
  <2>2. Agrees(output', message')
    BY <1>7 DEF Agrees
  <2>3. CASE encoding = "base64"
    <3>1. n % 4 = 0
      BY <2>1, <2>3 DEF Width
    <3>2. Held(src_len)' = Held(n)
      BY <1>1, HeldKept
    <3>3. Count64(source') \in Nat
      BY <1>1, <1>4, Count64Is
    <3>4. 0 = 3 * 0 /\ 4 * 0 <= Count64(source')
      BY <3>3
    <3> HIDE DEF need
    <3> QED
      BY <1>1, <1>5, <1>7, <2>1, <2>2, <2>3, <3>1, <3>2, <3>4 DEF DecodeInv
  <2>4. CASE encoding = "base32"
    <3>1. n % 8 = 0
      BY <2>1, <2>4 DEF Width
    <3>2. AllocationLen' = need
      BY <1>1, <2>4 DEF AllocationLen
    <3>3. 0 = 5 * 0 /\ 8 * 0 <= n /\ 5 * 0 <= Len(message) /\ ~ (0 > 0)
      BY <1>0, <1>3
    <3> HIDE DEF need
    <3> QED
      BY <1>1, <1>7, <2>1, <2>2, <2>4, <3>1, <3>2, <3>3 DEF DecodeInv
  <2> QED
    BY <1>3, <2>3, <2>4
<1> QED
  BY <1>6, <1>9, <1>10, <1>11 DEF EncoderInv

LEMMA Decode64GroupStep ==
    ASSUME EncoderInv, Decode64Group
    PROVE  EncoderInv'
<1> DEFINE M == Len(message)
           c == Count64(source)
           d == Decode64(Chunk(source, 4))
<1>0. TypeOK /\ message \in Seq(Byte) /\ M \in Nat \ {0}
  BY MessageIs DEF EncoderInv, WithinOutput
<1>1. /\ pc = "decode" /\ encoding = "base64" /\ c - 4 * group >= 4
      /\ output' = output \o d /\ group' = group + 1
      /\ UNCHANGED <<message, encoding, fn, source, src_len, capacity, text, pc,
                     dest_size, result, result_len>>
  BY DEF Decode64Group, input
<1>2. /\ fn = "decode" /\ Agrees(output, message)
      /\ src_len % 4 = 0 /\ capacity >= Held(src_len) /\ result_len = Held(src_len)
      /\ Len(output) = 3 * group /\ 4 * group <= c
  BY <1>1 DEF EncoderInv, DecodeInv
<1>3. group \in Nat /\ output \in Seq(Byte) /\ capacity \in Nat \cup {Null} /\ src_len \in Nat
  BY <1>0 DEF TypeOK
<1>4. /\ Text64(text, message) /\ Starts(source, text) /\ src_len \in 1 .. Len(text)
      /\ source \in Seq(Byte)
  BY <1>1, <1>2 DEF EncoderInv, TextInv, SourceInv, Starts
<1>5. c \in 0 .. Len(source) /\ c \in Nat
  BY <1>4, Count64Is
<1>6. Chunk(source, 4) = SubSeq(source, 4 * group + 1, 4 * group + 4)
  <2>1. group * 4 = 4 * group /\ 4 * group + 4 <= Len(source)
    BY <1>1, <1>3, <1>5
  <2> QED
    BY <2>1 DEF Chunk
<1> HIDE DEF M, c
<1>7. d \in Seq(Byte) /\ Len(d) = 3
  <2> DEFINE a == 4 * group
             b == 4 * group + 4
             x == SubSeq(source, a + 1, b)
  <2>1. a \in Nat /\ b \in Nat /\ a <= b /\ b <= Len(source) /\ b - a = 4
    BY <1>1, <1>3, <1>5
  <2> HIDE DEF a, b
  <2>2. x \in Seq(Byte) /\ Len(x) = b - a
    BY <1>4, <2>1, WithinIs
  <2>3. x \in Seq(Byte) /\ Len(x) = 4
    BY <2>1, <2>2
  <2> HIDE DEF x
  <2>4. Decode64(x) \in Seq(Byte) /\ Len(Decode64(x)) = 3
    BY <2>3, Decode64Type, 4 \in 0 .. 4
  <2> QED
    BY <1>6, <2>4 DEF x, a, b
<1>8. ASSUME 3 * group < M
      PROVE  3 * group + 3 <= M /\ \A j \in 1 .. 3 : d[j] = message[3 * group + j]
  <2> DEFINE n == Size(message, group, 3)
             p == Piece(message, 3 * group, 3)
  <2>1. /\ n \in 1 .. 3
        /\ n < 3 => c = 4 * group + n + 1
        /\ Decode64(SubSeq(source, 4 * group + 1, 4 * group + n + 1)) = p
    <3>1. /\ 3 * group < Len(message) /\ 4 * group <= Count64(source)
          /\ n = Size(message, group, 3)
      BY <1>2, <1>8 DEF M, c
    <3> HIDE DEF n, p
    <3>2. /\ n \in 1 .. 3
          /\ n < 3 => Count64(source) = 4 * group + n + 1
          /\ Decode64(SubSeq(source, 4 * group + 1, 4 * group + n + 1)) = Piece(message, 3 * group, 3)
      BY <1>0, <1>3, <1>4, <3>1, Finds64
    <3> QED
      BY <3>2 DEF c, p
  <2>2. \A j \in 1 .. n : p[j] = message[3 * group + j]
    BY <1>0, <1>3, <1>8, Piece3 DEF M
  <2> HIDE DEF n, p
  <2>3. n = 3
    BY <1>1, <1>3, <1>5, <2>1
  <2>4. 4 * group + 3 + 1 = 4 * group + 4
    BY <1>3
  <2>5. d = p
    BY <1>6, <2>1, <2>3, <2>4
  <2>6. 3 * group + 3 <= M
    BY <1>0, <1>3, <1>8, <2>3 DEF n, Size, M
  <2> QED
    BY <2>2, <2>3, <2>5, <2>6
<1> HIDE DEF d
<1>9. output' \in Seq(Byte) /\ Len(output') = 3 * group + 3 /\ Agrees(output', message)
  <2>1. \A j \in 1 .. Len(d) : Len(output) + j <= Len(message) => d[j] = message[Len(output) + j]
    <3> SUFFICES ASSUME NEW j \in 1 .. 3, 3 * group + j <= M PROVE d[j] = message[3 * group + j]
      BY <1>2, <1>7 DEF M
    <3>1. 3 * group < M
      BY <1>0, <1>3
    <3> QED
      BY <1>8, <3>1
  <2>2. /\ output \o d \in Seq(Byte) /\ Len(output \o d) = Len(output) + Len(d)
        /\ Agrees(output \o d, message)
    BY <1>0, <1>2, <1>3, <1>7, <2>1, Agreement
  <2> QED
    BY <1>1, <1>2, <1>7, <2>2
<1>10. TypeOK'
  <2>1. group' \in Nat
    BY <1>1, <1>3
  <2> QED
    BY <1>0, <1>1, <1>9, <2>1 DEF TypeOK
<1>11. WithinOutput'
  <2> SUFFICES ASSUME c <= src_len
               PROVE  Len(output') <= (IF capacity' = Null THEN 0 ELSE capacity')
    <3>1. ~ RunsOn' => ~ (c > src_len)
      BY <1>1, <1>2 DEF RunsOn, c
    <3>2. ~ (c > src_len) => c <= src_len
      BY <1>3, <1>5
    <3> QED
      BY <1>10, <3>1, <3>2 DEF WithinOutput
  <2>1. PICK q \in Nat : src_len = 4 * q /\ Held(src_len) = IF 3 * q <= M THEN 3 * q ELSE M
    BY <1>1, <1>2, <1>3, Held64 DEF M
  <2>2. PICK k \in Nat : Len(text) = 4 * k + 4 /\ 3 * k < M
    BY <1>0, <1>4, Len64 DEF Text64, M
  <2>3. group < q /\ 3 * group < M
    BY <1>0, <1>1, <1>3, <1>4, <1>5, <2>1, <2>2
  <2>4. 3 * group + 3 <= Held(src_len)
    BY <1>0, <1>3, <1>8, <2>1, <2>3
  <2>5. capacity >= 3 * group + 3
    BY <1>0, <1>2, <1>3, <2>1, <2>4 DEF Null
  <2> QED
    BY <1>1, <1>3, <1>9, <2>5 DEF Null
<1>12. DecodeInv'
  <2>1. Held(src_len)' = Held(src_len)
    BY <1>1, HeldKept
  <2>2. Len(output') = 3 * group' /\ 4 * group' <= Count64(source')
    BY <1>1, <1>3, <1>5, <1>9 DEF c
  <2> QED
    BY <1>1, <1>2, <1>9, <2>1, <2>2 DEF DecodeInv
<1>13. TextInv' /\ SourceInv'
  BY <1>1, TextKept, SourceKept DEF EncoderInv
<1>14. EncodeInv' /\ RoundTrip' /\ FailsForRoom'
  BY <1>1 DEF EncodeInv, RoundTrip, Answered, FailsForRoom
<1> QED
  BY <1>11, <1>12, <1>13, <1>14 DEF EncoderInv

LEMMA SameStart ==
    ASSUME NEW m \in Seq(Byte), NEW o \in Seq(Byte), Agrees(o, m),
           NEW h \in Nat, h <= Len(m), h <= Len(o)
    PROVE  SubSeq(o, 1, h) = SubSeq(m, 1, h)
<1>1. 0 \in Nat /\ 0 <= h /\ 0 + 1 = 1 /\ h - 0 = h /\ \A j \in 1 .. h : 0 + j = j
  OBVIOUS
<1>2. /\ SubSeq(o, 0 + 1, h) \in Seq(Byte) /\ Len(SubSeq(o, 0 + 1, h)) = h - 0
      /\ \A j \in 1 .. h - 0 : SubSeq(o, 0 + 1, h)[j] = o[0 + j]
  BY <1>1, WithinIs
<1>3. /\ SubSeq(m, 0 + 1, h) \in Seq(Byte) /\ Len(SubSeq(m, 0 + 1, h)) = h - 0
      /\ \A j \in 1 .. h - 0 : SubSeq(m, 0 + 1, h)[j] = m[0 + j]
  BY <1>1, WithinIs
<1>4. \A j \in 1 .. h : o[j] = m[j]
  <2>1. \A j \in 1 .. h : j \in 1 .. Len(o) /\ j <= Len(m)
    OBVIOUS
  <2> QED
    BY <2>1 DEF Agrees
<1>5. /\ SubSeq(o, 1, h) \in Seq(Byte) /\ SubSeq(m, 1, h) \in Seq(Byte)
      /\ Len(SubSeq(o, 1, h)) = h /\ Len(SubSeq(m, 1, h)) = h
      /\ \A j \in 1 .. h : SubSeq(o, 1, h)[j] = SubSeq(m, 1, h)[j]
  BY <1>1, <1>2, <1>3, <1>4
<1> QED
  BY <1>5, SeqEqual

LEMMA Decode64ReturnsStep ==
    ASSUME EncoderInv, Decode64Returns
    PROVE  EncoderInv'
<1> DEFINE M == Len(message)
           c == Count64(source)
           h == Held(src_len)
           d == Decode64(SubSeq(source, 4 * group + 1, c))
<1>0. TypeOK /\ message \in Seq(Byte) /\ M \in Nat \ {0}
  BY MessageIs DEF EncoderInv, WithinOutput
<1>1. /\ pc = "decode" /\ encoding = "base64" /\ c - 4 * group < 4
      /\ output' = output \o d
      /\ pc' = "idle" /\ result' = 0 /\ result_len' = result_len
      /\ UNCHANGED <<message, encoding, fn, source, src_len, capacity, text, group, dest_size>>
  BY DEF Decode64Returns, input, Returns
<1>2. /\ fn = "decode" /\ Agrees(output, message)
      /\ src_len % 4 = 0 /\ capacity >= h /\ result_len = h
      /\ Len(output) = 3 * group /\ 4 * group <= c
  BY <1>1 DEF EncoderInv, DecodeInv
<1>3. group \in Nat /\ output \in Seq(Byte) /\ capacity \in Nat \cup {Null} /\ src_len \in Nat
  BY <1>0 DEF TypeOK
<1>4. /\ Text64(text, message) /\ Starts(source, text) /\ src_len \in 1 .. Len(text)
      /\ source \in Seq(Byte)
  BY <1>1, <1>2 DEF EncoderInv, TextInv, SourceInv, Starts
<1>5. c \in 0 .. Len(source) /\ c \in Nat
  BY <1>4, Count64Is
<1>6. PICK q \in Nat : src_len = 4 * q /\ h = IF 3 * q <= M THEN 3 * q ELSE M
  BY <1>1, <1>2, <1>3, Held64
<1>7. PICK k \in Nat : Len(text) = 4 * k + 4 /\ 3 * k < M /\ M <= 3 * k + 3
  BY <1>0, <1>4, Len64 DEF Text64
<1> HIDE DEF M, c, h
<1>8. d \in Seq(Byte) /\ Len(d) = IF c - 4 * group <= 1 THEN 0 ELSE c - 4 * group - 1
  <2> DEFINE a == 4 * group
             x == SubSeq(source, a + 1, c)
             n == c - 4 * group
  <2>1. a \in Nat /\ a <= c /\ c <= Len(source) /\ c - a = n /\ n \in 0 .. 4
    BY <1>1, <1>2, <1>3, <1>5
  <2> HIDE DEF a, n
  <2>2. x \in Seq(Byte) /\ Len(x) = c - a
    BY <1>4, <1>5, <2>1, WithinIs
  <2>3. x \in Seq(Byte) /\ Len(x) = n
    BY <2>1, <2>2
  <2> HIDE DEF x
  <2>4. Decode64(x) \in Seq(Byte) /\ Len(Decode64(x)) = IF n <= 1 THEN 0 ELSE n - 1
    BY <2>1, <2>3, Decode64Type
  <2> QED
    BY <2>4 DEF x, a, n
<1>9. ASSUME 3 * group < M
      PROVE  /\ M - 3 * group \in 1 .. 2 /\ c = 4 * group + (M - 3 * group) + 1
             /\ \A j \in 1 .. M - 3 * group : d[j] = message[3 * group + j]
  <2> DEFINE n == Size(message, group, 3)
             p == Piece(message, 3 * group, 3)
  <2>1. /\ n \in 1 .. 3
        /\ c >= 4 * group + n + 1
        /\ n < 3 => c = 4 * group + n + 1
        /\ Decode64(SubSeq(source, 4 * group + 1, 4 * group + n + 1)) = p
    <3>1. 3 * group < Len(message) /\ 4 * group <= Count64(source) /\ n = Size(message, group, 3)
      BY <1>2, <1>9 DEF M, c
    <3> HIDE DEF n, p
    <3>2. /\ n \in 1 .. 3
          /\ Count64(source) >= 4 * group + n + 1
          /\ n < 3 => Count64(source) = 4 * group + n + 1
          /\ Decode64(SubSeq(source, 4 * group + 1, 4 * group + n + 1)) = Piece(message, 3 * group, 3)
      BY <1>0, <1>3, <1>4, <3>1, Finds64
    <3> QED
      BY <3>2 DEF c, p
  <2>2. \A j \in 1 .. n : p[j] = message[3 * group + j]
    BY <1>0, <1>3, <1>9, Piece3 DEF M
  <2>3. n = IF 3 * group + 3 <= M THEN 3 ELSE M - 3 * group
    BY DEF Size, M
  <2> HIDE DEF n, p
  <2>4. n < 3
    BY <1>1, <1>3, <1>5, <2>1
  <2>5. n = M - 3 * group
    BY <1>0, <1>3, <2>1, <2>3, <2>4
  <2>6. d = p
    BY <2>1, <2>4
  <2> QED
    BY <2>1, <2>2, <2>4, <2>5, <2>6
<1> HIDE DEF d
<1>10. /\ output' \in Seq(Byte) /\ Agrees(output', message)
       /\ Len(output') = IF c - 4 * group <= 1 THEN 3 * group ELSE 3 * group + (c - 4 * group - 1)
  <2>1. \A j \in 1 .. Len(d) : Len(output) + j <= Len(message) => d[j] = message[Len(output) + j]
    <3> SUFFICES ASSUME NEW j \in Nat \ {0}, 3 * group + j <= M PROVE d[j] = message[3 * group + j]
      BY <1>2, <1>8 DEF M
    <3>1. 3 * group < M /\ j \in 1 .. M - 3 * group
      BY <1>0, <1>3
    <3> QED
      BY <1>9, <3>1
  <2>2. /\ output \o d \in Seq(Byte) /\ Len(output \o d) = Len(output) + Len(d)
        /\ Agrees(output \o d, message)
    BY <1>0, <1>2, <1>3, <1>8, <2>1, Agreement
  <2>3. Len(output') = 3 * group + (IF c - 4 * group <= 1 THEN 0 ELSE c - 4 * group - 1)
    BY <1>1, <1>2, <1>8, <2>2
  <2>4. Len(output') = IF c - 4 * group <= 1 THEN 3 * group ELSE 3 * group + (c - 4 * group - 1)
    BY <1>3, <1>5, <2>3
  <2> QED
    BY <1>1, <2>2, <2>4
<1>11. h \in Nat /\ h <= M /\ h <= Len(output')
  <2>1. CASE 3 * group < M
    BY <1>0, <1>3, <1>6, <1>9, <1>10, <2>1
  <2>2. CASE ~ (3 * group < M)
    BY <1>0, <1>3, <1>5, <1>6, <1>10, <2>2
  <2> QED
    BY <2>1, <2>2
<1>12. TypeOK'
  <2>1. result_len' \in Nat
    BY <1>1, <1>2, <1>11
  <2> QED
    BY <1>0, <1>1, <1>10, <2>1 DEF TypeOK
<1>13. WithinOutput'
  <2> SUFFICES ASSUME c <= src_len
               PROVE  Len(output') <= (IF capacity' = Null THEN 0 ELSE capacity')
    <3>1. ~ RunsOn' => ~ (c > src_len)
      BY <1>1, <1>2 DEF RunsOn, c
    <3>2. ~ (c > src_len) => c <= src_len
      BY <1>3, <1>5
    <3> QED
      BY <1>12, <3>1, <3>2 DEF WithinOutput
  <2>1. CASE c - 4 * group <= 1
    <3>1. ~ RunsOn
      BY <1>3, <1>5 DEF RunsOn, c
    <3>2. Len(output) <= (IF capacity = Null THEN 0 ELSE capacity)
      BY <3>1 DEF EncoderInv, WithinOutput
    <3> QED
      BY <1>1, <1>2, <1>10, <2>1, <3>2
  <2>2. CASE c - 4 * group > 1
    <3>1. group < q /\ 3 * group < M
      BY <1>0, <1>3, <1>4, <1>5, <1>6, <1>7, <2>2
    <3>2. Len(output') = M
      BY <1>0, <1>3, <1>5, <1>9, <1>10, <2>2, <3>1
    <3>3. h = M
      BY <1>0, <1>3, <1>6, <1>9, <3>1
    <3> QED
      BY <1>0, <1>1, <1>2, <1>3, <3>2, <3>3 DEF Null
  <2> QED
    BY <1>3, <1>5, <2>1, <2>2
<1>14. RoundTrip'
  <2>1. Held(src_len)' = h
    BY <1>1, HeldKept DEF h
  <2>2. SubSeq(output', 1, h) = SubSeq(message, 1, h)
    BY <1>0, <1>10, <1>11, SameStart DEF M
  <2> QED
    BY <1>1, <1>2, <2>1, <2>2 DEF RoundTrip
<1>15. TextInv' /\ SourceInv'
  BY <1>1, TextKept, SourceKept DEF EncoderInv
<1>16. EncodeInv' /\ DecodeInv' /\ FailsForRoom'
  BY <1>1, <1>2 DEF EncodeInv, DecodeInv, FailsForRoom
<1> QED
  BY <1>13, <1>14, <1>15, <1>16 DEF EncoderInv

\* Base 32 reads a group of the text as long as one is left, and behind it the
\* bytes of the message are all there.
LEMMA Decode32GroupStep ==
    ASSUME EncoderInv, Decode32Group
    PROVE  EncoderInv'
<1> DEFINE M == Len(message)
           chars == Chunk(source, 8)
           v == [j \in 1 .. 8 |-> Value32(chars[j])]
           d == Decode32(v)
           stops == (\E j \in 1 .. 8 : chars[j] >= 128) \/ dest_size + 5 > AllocationLen
<1>0. TypeOK /\ message \in Seq(Byte) /\ M \in Nat \ {0}
  BY MessageIs DEF EncoderInv, WithinOutput
<1>1. /\ pc = "decode" /\ encoding = "base32"
      /\ 8 * group < Len(source) /\ dest_size + 1 < AllocationLen
      /\ UNCHANGED <<message, encoding, fn, source, src_len, capacity, text>>
      /\ IF stops
         THEN /\ pc' = "idle" /\ result' = -1 /\ result_len' = AllocationLen
              /\ UNCHANGED <<output, group, dest_size>>
         ELSE /\ output' = output \o d
              /\ group' = group + 1
              /\ dest_size' = dest_size + 5 - Padding(v)
              /\ result_len' = dest_size' /\ result' = 0
              /\ pc' = pc
  BY Zenon DEF Decode32Group, Decoding32, MoreOf32, Returns, input
<1>2. /\ fn = "decode" /\ Agrees(output, message)
      /\ src_len % 8 = 0 /\ capacity >= AllocationLen
      /\ Len(output) = 5 * group /\ 8 * group <= src_len
      /\ dest_size = IF 5 * group <= M THEN 5 * group ELSE M
  BY <1>1 DEF EncoderInv, DecodeInv
<1>3. group \in Nat /\ output \in Seq(Byte) /\ capacity \in Nat \cup {Null} /\ src_len \in Nat
  BY <1>0 DEF TypeOK
<1>4. /\ Text32(text, message) /\ Starts(source, text) /\ src_len \in 1 .. Len(text)
      /\ source \in Seq(Byte)
  BY <1>1, <1>2 DEF EncoderInv, TextInv, SourceInv, Starts
<1>5. PICK q \in Nat : /\ src_len = 8 * q /\ Held(src_len) = IF 5 * q <= M THEN 5 * q ELSE M
                       /\ AllocationLen = 5 * q
  <2>1. PICK q \in Nat : /\ src_len = 8 * q
                         /\ Held(src_len) = IF 5 * q <= M THEN 5 * q ELSE M
                         /\ \A s : DecodingLen(s, src_len, "base32") = 5 * q
    BY <1>1, <1>2, <1>3, Held32
  <2> QED
    BY <2>1, Zenon DEF AllocationLen
<1>6. PICK k \in Nat : Len(text) = 8 * k + 8 /\ 5 * k < M /\ M <= 5 * k + 5
  BY <1>0, <1>4, Len32 DEF Text32
<1> HIDE DEF M, chars, v, d, stops
<1>7. group <= q /\ q <= k + 1
  BY <1>2, <1>3, <1>4, <1>5, <1>6
<1>8. ASSUME group < q
      PROVE  /\ ~ stops /\ 5 * group < M /\ dest_size = 5 * group
             /\ Padding(v) = 5 - Size(message, group, 5) /\ Size(message, group, 5) \in 1 .. 5
             /\ \A j \in 1 .. Size(message, group, 5) : d[j] = message[5 * group + j]
  <2> DEFINE n == Size(message, group, 5)
             p == Piece(message, 5 * group, 5)
  <2>1. 5 * group < M
    BY <1>0, <1>3, <1>6, <1>7, <1>8
  <2>2. /\ n \in 1 .. 5 /\ p \in Seq(Byte) /\ Len(p) = n
        /\ \A j \in 1 .. n : p[j] = message[5 * group + j]
    BY <1>0, <1>3, <2>1, Piece5 DEF M
  <2>3. /\ 8 * group + 8 <= Len(source)
        /\ \A j \in 1 .. 8 : source[8 * group + j] = Encode32(p)[j] /\ source[8 * group + j] < 128
    BY <1>0, <1>3, <1>4, <2>1, Finds32 DEF M
  <2>4. \A j \in 1 .. 8 : chars[j] = source[8 * group + j]
    <3> DEFINE a == 8 * group
               b == 8 * group + 8
    <3>1. a \in Nat /\ b \in Nat /\ a <= b /\ b <= Len(source) /\ b - a = 8
      BY <1>3, <1>4, <2>3
    <3>2. group * 8 = a /\ group * 8 + 8 = b
      BY <1>3
    <3> HIDE DEF a, b
    <3>3. chars = SubSeq(source, a + 1, b)
      BY <3>1, <3>2 DEF chars, Chunk
    <3>4. \A j \in 1 .. b - a : SubSeq(source, a + 1, b)[j] = source[a + j]
      BY <1>4, <3>1, WithinIs
    <3> QED
      BY <3>1, <3>3, <3>4 DEF a
  <2>5. \A j \in 1 .. 8 : chars[j] = Encode32(p)[j] /\ ~ (chars[j] >= 128)
    <3>1. \A j \in 1 .. 8 : source[8 * group + j] \in Nat
      <4>1. \A j \in 1 .. 8 : 8 * group + j \in 1 .. Len(source)
        BY <1>3, <1>4, <2>3, SMTT(30)
      <4>2. \A j \in 1 .. 8 : source[8 * group + j] \in Byte
        BY <1>4, <4>1, SMTT(30)
      <4> QED
        BY <4>2, BytesAreNat, Zenon
    <3> HIDE DEF n, p
    <3> SUFFICES ASSUME NEW j \in 1 .. 8 PROVE chars[j] = Encode32(p)[j] /\ ~ (chars[j] >= 128)
      OBVIOUS
    <3>2. source[8 * group + j] \in Nat /\ source[8 * group + j] < 128
      BY <2>3, <3>1
    <3>3. ASSUME NEW x \in Nat, x < 128 PROVE ~ (x >= 128)
      BY <3>3
    <3>4. ~ (source[8 * group + j] >= 128)
      BY <3>2, <3>3
    <3> QED
      BY <2>3, <2>4, <3>4, Zenon
  <2>6. \A j \in 1 .. 8 : v[j] = Value32(chars[j])
    BY DEF v
  <2> HIDE DEF n, p
  <2>7. Padding(v) = 5 - n /\ \A j \in 1 .. n : Decode32(v)[j] = p[j]
    <3>1. \A j \in 1 .. 8 : v[j] = Value32(Encode32(p)[j])
      BY <2>5, <2>6, Zenon
    <3>2. n \in 1 .. 5 /\ p \in Seq(Byte) /\ Len(p) = n
      BY <2>2
    <3> QED
      BY <3>1, <3>2, Group32
  <2>8. dest_size = 5 * group /\ dest_size + 5 <= AllocationLen
    BY <1>0, <1>2, <1>3, <1>5, <1>8, <2>1
  <2>9. ~ stops
    <3>1. AllocationLen \in Nat /\ dest_size \in Nat
      BY <1>3, <1>5, <2>8
    <3> QED
      BY <2>5, <2>8, <3>1 DEF stops
  <2> QED
    BY <2>1, <2>2, <2>7, <2>8, <2>9 DEF n, d
<1>9. ASSUME ~ (group < q)
      PROVE  /\ stops /\ group = q /\ Held(src_len) = M /\ 5 * q - M >= 2 /\ Len(source) > src_len
  <2>1. group = q /\ q \in Nat
    BY <1>3, <1>7, <1>9
  <2>2. dest_size = M /\ 5 * q - M >= 2 /\ M < 5 * q
    BY <1>0, <1>1, <1>2, <1>5, <2>1
  <2>3. dest_size + 5 > AllocationLen
    BY <1>0, <1>5, <1>6, <1>7, <2>2
  <2>4. Held(src_len) = M
    BY <1>0, <1>5, <2>2
  <2>5. Len(source) > src_len
    BY <1>1, <1>4, <1>5, <2>1
  <2> QED
    BY <2>1, <2>2, <2>3, <2>4, <2>5 DEF stops
<1>10. CASE stops
  <2>1. /\ ~ (group < q) /\ Held(src_len) = M /\ 5 * q - M >= 2 /\ Len(source) > src_len
    BY <1>8, <1>9, <1>10
  <2>2. /\ pc' = "idle" /\ result' = -1 /\ result_len' = 5 * q
        /\ UNCHANGED <<output, group, dest_size>>
    BY <1>1, <1>5, <1>10
  <2>3. TypeOK'
    <3>1. result_len' \in Nat
      BY <2>2
    <3> QED
      BY <1>0, <1>1, <2>2, <3>1 DEF TypeOK
  <2>4. WithinOutput'
    <3>1. ~ RunsOn
      BY <1>1 DEF RunsOn
    <3>2. Len(output) <= (IF capacity = Null THEN 0 ELSE capacity)
      BY <3>1 DEF EncoderInv, WithinOutput
    <3> QED
      BY <1>1, <2>2, <2>3, <3>2 DEF WithinOutput
  <2>5. FailsForRoom'
    <3>1. Held(src_len)' = Held(src_len)
      BY <1>1, HeldKept
    <3>2. src_len \div 8 = q
      BY <1>5
    <3>3. Stumbles'
      BY <1>1, <2>1, <3>1, <3>2 DEF Stumbles
    <3> QED
      BY <1>1, <1>2, <3>3 DEF FailsForRoom
  <2>6. TextInv' /\ SourceInv'
    BY <1>1, TextKept, SourceKept DEF EncoderInv
  <2>7. EncodeInv' /\ DecodeInv' /\ RoundTrip'
    BY <2>2 DEF EncodeInv, DecodeInv, RoundTrip, Answered
  <2> QED
    BY <2>4, <2>5, <2>6, <2>7 DEF EncoderInv
<1>11. CASE ~ stops
  <2> DEFINE n == Size(message, group, 5)
  <2>1. group < q
    BY <1>9, <1>11
  <2>2. /\ 5 * group < M /\ dest_size = 5 * group /\ Padding(v) = 5 - n /\ n \in 1 .. 5
        /\ \A j \in 1 .. n : d[j] = message[5 * group + j]
    BY <1>8, <2>1
  <2>3. n = IF 5 * group + 5 <= M THEN 5 ELSE M - 5 * group
    BY DEF Size, M
  <2> HIDE DEF n
  <2>4. /\ output' = output \o d /\ group' = group + 1 /\ dest_size' = dest_size + 5 - Padding(v)
        /\ result_len' = dest_size' /\ result' = 0 /\ pc' = pc
    BY <1>1, <1>11
  <2>5. dest_size' = IF 5 * group' <= M THEN 5 * group' ELSE M
    <3>1. dest_size' = 5 * group + n
      BY <1>3, <2>2, <2>4
    <3> QED
      BY <1>0, <1>3, <2>2, <2>3, <2>4, <3>1
  <2>6. d \in Seq(Byte) /\ Len(d) = 5
    <3>1. \A j \in 1 .. 8 : v[j] \in 0 .. 255
      <4>1. \A j \in 1 .. 8 : v[j] = Value32(chars[j])
        BY DEF v
      <4>2. \A x : Value32(x) \in 0 .. 255
        BY DEF Value32, Equal
      <4> QED
        BY <4>1, <4>2
    <3> QED
      BY <3>1, Decode32Type DEF d
  <2>7. output' \in Seq(Byte) /\ Len(output') = 5 * group + 5 /\ Agrees(output', message)
    <3>1. \A j \in 1 .. Len(d) : Len(output) + j <= Len(message) => d[j] = message[Len(output) + j]
      <4> SUFFICES ASSUME NEW j \in 1 .. 5, 5 * group + j <= M PROVE d[j] = message[5 * group + j]
        BY <1>2, <2>6 DEF M
      <4>1. j \in 1 .. n
        BY <1>0, <1>3, <2>2, <2>3
      <4> QED
        BY <2>2, <4>1
    <3>2. /\ output \o d \in Seq(Byte) /\ Len(output \o d) = Len(output) + Len(d)
          /\ Agrees(output \o d, message)
      BY <1>0, <1>2, <1>3, <2>6, <3>1, Agreement
    <3> QED
      BY <1>2, <2>4, <2>6, <3>2
  <2>8. TypeOK'
    <3>1. group' \in Nat /\ dest_size' \in Nat
      BY <1>0, <1>3, <2>4, <2>5
    <3> QED
      BY <1>0, <1>1, <2>4, <2>7, <3>1 DEF TypeOK
  <2>9. WithinOutput'
    <3>1. capacity >= 5 * group + 5
      BY <1>2, <1>3, <1>5, <2>1 DEF Null
    <3>2. Len(output') <= (IF capacity' = Null THEN 0 ELSE capacity')
      BY <1>1, <1>3, <2>7, <3>1 DEF Null
    <3> QED
      BY <2>8, <3>2 DEF WithinOutput
  <2>10. DecodeInv'
    <3>1. AllocationLen' = AllocationLen
      BY <1>1 DEF AllocationLen
    <3>2. Len(output') = 5 * group' /\ 8 * group' <= src_len
      BY <1>3, <1>5, <2>1, <2>4, <2>7
    <3> QED
      BY <1>1, <1>2, <2>4, <2>5, <2>7, <3>1, <3>2 DEF DecodeInv, M
  <2>11. TextInv' /\ SourceInv'
    BY <1>1, TextKept, SourceKept DEF EncoderInv
  <2>12. EncodeInv' /\ RoundTrip' /\ FailsForRoom'
    BY <1>1, <2>4 DEF EncodeInv, RoundTrip, Answered, FailsForRoom
  <2> QED
    BY <2>9, <2>10, <2>11, <2>12 DEF EncoderInv
<1> QED
  BY <1>10, <1>11

LEMMA Decode32ReturnsStep ==
    ASSUME EncoderInv, Decode32Returns
    PROVE  EncoderInv'
<1> DEFINE M == Len(message)
           h == Held(src_len)
<1>0. TypeOK /\ message \in Seq(Byte) /\ M \in Nat \ {0}
  BY MessageIs DEF EncoderInv, WithinOutput
<1>1. /\ pc = "decode" /\ encoding = "base32"
      /\ ~ (8 * group < Len(source) /\ dest_size + 1 < AllocationLen)
      /\ pc' = "idle" /\ result' = 0 /\ result_len' = result_len
      /\ UNCHANGED <<message, encoding, fn, source, src_len, capacity, text, output, group, dest_size>>
  BY DEF Decode32Returns, Decoding32, MoreOf32, Returns, input
<1>2. /\ fn = "decode" /\ Agrees(output, message)
      /\ src_len % 8 = 0 /\ Len(output) = 5 * group /\ 8 * group <= src_len
      /\ dest_size = IF 5 * group <= M THEN 5 * group ELSE M
      /\ group > 0 => result = 0 /\ result_len = dest_size
  BY <1>1 DEF EncoderInv, DecodeInv
<1>3. group \in Nat /\ output \in Seq(Byte) /\ src_len \in Nat
  BY <1>0 DEF TypeOK
<1>4. Starts(source, text) /\ src_len \in 1 .. Len(text) /\ source \in Seq(Byte) /\ text \in Seq(Byte)
  BY <1>0, <1>1, <1>2 DEF EncoderInv, SourceInv, TypeOK
<1>5. PICK q \in Nat : /\ src_len = 8 * q /\ h = IF 5 * q <= M THEN 5 * q ELSE M
                       /\ AllocationLen = 5 * q
  <2>1. PICK q \in Nat : /\ src_len = 8 * q
                         /\ h = IF 5 * q <= M THEN 5 * q ELSE M
                         /\ \A s : DecodingLen(s, src_len, "base32") = 5 * q
    BY <1>1, <1>2, <1>3, Held32
  <2> QED
    BY <2>1, Zenon DEF AllocationLen
<1> HIDE DEF M, h
<1>6. Len(source) \in Nat /\ Len(source) >= src_len
  BY <1>4 DEF Starts
<1>7. group = q /\ q > 0
  <2>1. q > 0 /\ group <= q
    BY <1>2, <1>3, <1>4, <1>5
  <2>2. CASE ~ (8 * group < Len(source))
    BY <1>3, <1>5, <1>6, <2>1, <2>2
  <2>3. CASE ~ (dest_size + 1 < AllocationLen)
    BY <1>0, <1>2, <1>3, <1>5, <2>1, <2>3
  <2> QED
    BY <1>1, <2>1, <2>2, <2>3
<1>8. result_len' = h /\ h \in Nat /\ h <= M /\ h <= Len(output)
  BY <1>0, <1>1, <1>2, <1>3, <1>5, <1>7
<1>9. TypeOK'
  BY <1>0, <1>1, <1>8 DEF TypeOK
<1>10. WithinOutput'
  <2>1. ~ RunsOn
    BY <1>1 DEF RunsOn
  <2>2. Len(output) <= (IF capacity = Null THEN 0 ELSE capacity)
    BY <2>1 DEF EncoderInv, WithinOutput
  <2> QED
    BY <1>1, <1>9, <2>2 DEF WithinOutput
<1>11. RoundTrip'
  <2>1. Held(src_len)' = h
    BY <1>1, HeldKept DEF h
  <2>2. SubSeq(output, 1, h) = SubSeq(message, 1, h)
    BY <1>0, <1>2, <1>3, <1>8, SameStart DEF M
  <2> QED
    BY <1>1, <1>8, <2>1, <2>2 DEF RoundTrip
<1>12. TextInv' /\ SourceInv'
  BY <1>1, TextKept, SourceKept DEF EncoderInv
<1>13. EncodeInv' /\ DecodeInv' /\ FailsForRoom'
  BY <1>1, <1>2 DEF EncodeInv, DecodeInv, FailsForRoom
<1> QED
  BY <1>10, <1>11, <1>12, <1>13 DEF EncoderInv

LEMMA EncoderStutters ==
    ASSUME EncoderInv, UNCHANGED vars
    PROVE  EncoderInv'
<1>1. UNCHANGED <<message, encoding, fn, source, src_len, capacity, text, pc, output, group,
                  dest_size, result, result_len>>
  BY DEF vars, input
<1>2. Held(src_len)' = Held(src_len)
  BY <1>1, HeldKept
<1>3. TextInv' /\ SourceInv'
  BY <1>1, TextKept, SourceKept DEF EncoderInv
<1>4. EncodeInv'
  BY <1>1 DEF EncoderInv, EncodeInv
<1>5. DecodeInv'
  <2>1. AllocationLen' = AllocationLen
    BY <1>1 DEF AllocationLen
  <2> QED
    BY <1>1, <1>2, <2>1 DEF EncoderInv, DecodeInv
<1>6. RoundTrip'
  BY <1>1, <1>2 DEF EncoderInv, RoundTrip, Answered
<1>7. WithinOutput'
  BY <1>1 DEF EncoderInv, WithinOutput, TypeOK, RunsOn
<1>8. FailsForRoom'
  BY <1>1, <1>2 DEF EncoderInv, FailsForRoom, Stumbles, AnswersZero
<1> QED
  BY <1>3, <1>4, <1>5, <1>6, <1>7, <1>8 DEF EncoderInv

LEMMA EncoderStep == EncoderInv /\ [Next]_vars => EncoderInv'
<1> SUFFICES ASSUME EncoderInv, [Next]_vars PROVE EncoderInv'
  OBVIOUS
<1>1. ASSUME NEW type \in {"base32", "base64"}, NEW cap \in Capacities, Encode(type, cap)
      PROVE  EncoderInv'
  BY <1>1, EncodeStep
<1>2. CASE Encode32Group
  BY <1>2, Encode32GroupStep
<1>3. CASE Encode32Returns
  BY <1>3, Encode32ReturnsStep
<1>4. CASE Encode64Group
  BY <1>4, Encode64GroupStep
<1>5. CASE Encode64Returns
  BY <1>5, Encode64ReturnsStep
<1>6. ASSUME NEW n \in 1 .. Len(text), NEW trailer \in Trailers, NEW cap \in Capacities,
             Decode(n, trailer, cap)
      PROVE  EncoderInv'
  BY <1>6, DecodeStep
<1>7. CASE Decode32Group
  BY <1>7, Decode32GroupStep
<1>8. CASE Decode32Returns
  BY <1>8, Decode32ReturnsStep
<1>9. CASE Decode64Group
  BY <1>9, Decode64GroupStep
<1>10. CASE Decode64Returns
  BY <1>10, Decode64ReturnsStep
<1>11. CASE UNCHANGED vars
  BY <1>11, EncoderStutters
<1> QED
  BY <1>1, <1>2, <1>3, <1>4, <1>5, <1>6, <1>7, <1>8, <1>9, <1>10, <1>11 DEF Next

LEMMA EncoderInvariant == Spec => []EncoderInv
BY EncoderInit, EncoderStep, PTL DEF Spec

\* A decode that answers 0 gives the bytes that were encoded in the characters it
\* was given, for every message, length and trailer.
THEOREM DecodesWhatWasEncoded == Spec => []RoundTrip
<1>1. EncoderInv => RoundTrip
  BY DEF EncoderInv
<1> QED
  BY <1>1, EncoderInvariant, PTL

\* No call writes past the capacity of its output, but for a decode of base 64
\* whose text goes on behind the length it was given.
THEOREM WritesWithinOutput == Spec => []WithinOutput
<1>1. EncoderInv => WithinOutput
  BY DEF EncoderInv
<1> QED
  BY <1>1, EncoderInvariant, PTL

\* Calls on whole groups fail only for want of room, but for a decode of base 32
\* with a trailer behind a padded group of fewer than four bytes.
THEOREM FailsOnlyForRoom == Spec => []FailsForRoom
<1>1. EncoderInv => FailsForRoom
  BY DEF EncoderInv
<1> QED
  BY <1>1, EncoderInvariant, PTL

=============================================================================
