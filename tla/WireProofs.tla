------------------------------ MODULE WireProofs ------------------------------
(***************************************************************************)
(* What holds of Wire for any requests, frames, caps and timeouts.         *)
(***************************************************************************)
EXTENDS Wire, TLAPS, WellFoundedInduction

------------------------------------------------------------------------------
(* Bytes and their bits.                                                   *)
BitOf == 0..1

(* A number is its lowest bit and twice the rest of it.                    *)
LEMMA HalfIs ==
    ASSUME NEW n \in Nat
    PROVE  n \div 2 \in Nat /\ n % 2 \in BitOf /\ n = (n % 2) + (n \div 2) * 2
  BY DEF BitOf

LEMMA Halves ==
    ASSUME NEW n \in Nat
    PROVE  /\ (n \div 2) \div 2 = n \div 4 /\ (n \div 4) \div 2 = n \div 8
           /\ (n \div 8) \div 2 = n \div 16 /\ (n \div 16) \div 2 = n \div 32
           /\ (n \div 32) \div 2 = n \div 64 /\ (n \div 64) \div 2 = n \div 128
  <1>1. (n \div 2) \div 2 = n \div 4 OBVIOUS
  <1>2. (n \div 4) \div 2 = n \div 8 OBVIOUS
  <1>3. (n \div 8) \div 2 = n \div 16 OBVIOUS
  <1>4. (n \div 16) \div 2 = n \div 32 OBVIOUS
  <1>5. (n \div 32) \div 2 = n \div 64 OBVIOUS
  <1>6. (n \div 64) \div 2 = n \div 128 OBVIOUS
  <1> QED BY <1>1, <1>2, <1>3, <1>4, <1>5, <1>6

LEMMA Chain ==
    ASSUME NEW a0 \in Nat, NEW a1 \in Nat, NEW a2 \in Nat, NEW a3 \in Nat, NEW a4 \in Nat,
           NEW a5 \in Nat, NEW a6 \in Nat, NEW a7 \in Nat,
           NEW b0 \in Nat, NEW b1 \in Nat, NEW b2 \in Nat, NEW b3 \in Nat, NEW b4 \in Nat,
           NEW b5 \in Nat, NEW b6 \in Nat,
           a0 = b0 + a1 * 2, a1 = b1 + a2 * 2, a2 = b2 + a3 * 2, a3 = b3 + a4 * 2,
           a4 = b4 + a5 * 2, a5 = b5 + a6 * 2, a6 = b6 + a7 * 2
    PROVE  a0 = b0 + b1 * 2 + b2 * 4 + b3 * 8 + b4 * 16 + b5 * 32 + b6 * 64 + a7 * 128
  OBVIOUS

(* A byte has eight bits, Bit(b, 0) to Bit(b, 7), and is what they are     *)
(* worth.                                                                  *)
LEMMA BitsAre ==
    ASSUME NEW b \in Byte
    PROVE  /\ \A i \in 1..8 : Bit(b, i - 1) \in BitOf
           /\ b = Sum([i \in 1..8 |-> Bit(b, i - 1)])
  <1> DEFINE B(i) == Bit(b, i)
  <1>1. /\ B(0) = b % 2 /\ B(1) = (b \div 2) % 2 /\ B(2) = (b \div 4) % 2
        /\ B(3) = (b \div 8) % 2 /\ B(4) = (b \div 16) % 2 /\ B(5) = (b \div 32) % 2
        /\ B(6) = (b \div 64) % 2 /\ B(7) = (b \div 128) % 2
    BY DEF Bit, Worth, Byte
  <1>2. b \in 0..255
    BY DEF Byte
  <1> HIDE DEF B
  <1>3. /\ B(0) \in BitOf /\ B(1) \in BitOf /\ B(2) \in BitOf /\ B(3) \in BitOf
        /\ B(4) \in BitOf /\ B(5) \in BitOf /\ B(6) \in BitOf /\ B(7) \in BitOf
    BY <1>1, <1>2 DEF BitOf
  <1>4. b = B(0) + B(1) * 2 + B(2) * 4 + B(3) * 8 + B(4) * 16 + B(5) * 32 + B(6) * 64
              + B(7) * 128
    <2>1. b \in Nat
      BY <1>2
    <2> DEFINE p1 == b \div 2  p2 == b \div 4  p3 == b \div 8  p4 == b \div 16
               p5 == b \div 32  p6 == b \div 64  p7 == b \div 128
    <2>2. p1 \in Nat /\ p2 \in Nat /\ p3 \in Nat /\ p4 \in Nat /\ p5 \in Nat /\ p6 \in Nat
          /\ p7 \in Nat /\ p7 = B(7)
      BY <1>1, <1>2
    <2>3. /\ p1 \div 2 = p2 /\ p2 \div 2 = p3 /\ p3 \div 2 = p4 /\ p4 \div 2 = p5
          /\ p5 \div 2 = p6 /\ p6 \div 2 = p7
      BY <2>1, Halves
    <2>4. /\ b \div 2 = p1
          /\ B(0) = b % 2 /\ B(1) = p1 % 2 /\ B(2) = p2 % 2 /\ B(3) = p3 % 2
          /\ B(4) = p4 % 2 /\ B(5) = p5 % 2 /\ B(6) = p6 % 2
      BY <1>1
    <2> HIDE DEF p1, p2, p3, p4, p5, p6, p7
    <2>5. /\ b = B(0) + p1 * 2 /\ p1 = B(1) + p2 * 2 /\ p2 = B(2) + p3 * 2
          /\ p3 = B(3) + p4 * 2 /\ p4 = B(4) + p5 * 2 /\ p5 = B(5) + p6 * 2
          /\ p6 = B(6) + p7 * 2
      BY <2>1, <2>2, <2>3, <2>4, HalfIs
    <2>6. /\ B(0) \in Nat /\ B(1) \in Nat /\ B(2) \in Nat /\ B(3) \in Nat
          /\ B(4) \in Nat /\ B(5) \in Nat /\ B(6) \in Nat
      BY <1>3 DEF BitOf
    <2> QED
      BY <2>1, <2>2, <2>5, <2>6, Chain
  <1>5. \A i \in 1..8 : B(i - 1) \in BitOf
    BY <1>3
  <1>6. Sum([i \in 1..8 |-> B(i - 1)])
          = B(0) + B(1) * 2 + B(2) * 4 + B(3) * 8 + B(4) * 16 + B(5) * 32 + B(6) * 64
              + B(7) * 128
    BY DEF Sum
  <1> QED
    BY <1>4, <1>5, <1>6 DEF B

Digits2(s, a, b, c, d, e, f, g, h) ==
    /\ s \in Byte
    /\ s % 2 = a /\ (s \div 2) % 2 = b /\ (s \div 4) % 2 = c /\ (s \div 8) % 2 = d
    /\ (s \div 16) % 2 = e /\ (s \div 32) % 2 = f /\ (s \div 64) % 2 = g
    /\ (s \div 128) % 2 = h

(* What eight bits add up to has these bits.                               *)
LEMMA SumIs ==
    ASSUME NEW x, \A i \in 1..8 : x[i] \in BitOf
    PROVE  /\ Sum(x) \in Byte
           /\ \A i \in 1..8 : Bit(Sum(x), i - 1) = x[i]
  <1>1. /\ x[1] \in BitOf /\ x[2] \in BitOf /\ x[3] \in BitOf /\ x[4] \in BitOf
        /\ x[5] \in BitOf /\ x[6] \in BitOf /\ x[7] \in BitOf /\ x[8] \in BitOf
    OBVIOUS
  <1>2. ASSUME NEW a \in BitOf, NEW b \in BitOf, NEW c \in BitOf, NEW d \in BitOf,
               NEW e \in BitOf, NEW f \in BitOf, NEW g \in BitOf, NEW h \in BitOf,
               NEW s, s = a + b * 2 + c * 4 + d * 8 + e * 16 + f * 32 + g * 64 + h * 128
        PROVE  Digits2(s, a, b, c, d, e, f, g, h)
    BY <1>2 DEF BitOf, Byte, Digits2
  <1> DEFINE s == Sum(x)
  <1>3. s = x[1] + x[2] * 2 + x[3] * 4 + x[4] * 8 + x[5] * 16 + x[6] * 32 + x[7] * 64
              + x[8] * 128
    BY DEF Sum
  <1> HIDE DEF s
  <1>4. Digits2(s, x[1], x[2], x[3], x[4], x[5], x[6], x[7], x[8])
    BY <1>1, <1>2, <1>3
  <1>5. /\ Bit(s, 0) = s % 2 /\ Bit(s, 1) = (s \div 2) % 2 /\ Bit(s, 2) = (s \div 4) % 2
        /\ Bit(s, 3) = (s \div 8) % 2 /\ Bit(s, 4) = (s \div 16) % 2 /\ Bit(s, 5) = (s \div 32) % 2
        /\ Bit(s, 6) = (s \div 64) % 2 /\ Bit(s, 7) = (s \div 128) % 2
    BY <1>4 DEF Bit, Worth, Byte, Digits2
  <1>6. \A i \in 1..8 : Bit(s, i - 1) = x[i]
    <2> SUFFICES ASSUME NEW i \in 1..8 PROVE Bit(s, i - 1) = x[i]
      OBVIOUS
    <2>1. i \in {1, 2, 3, 4, 5, 6, 7, 8}
      OBVIOUS
    <2> QED
      BY <1>4, <1>5, <2>1 DEF Digits2
  <1> QED
    BY <1>4, <1>6 DEF s, Digits2

(* What was masked and is unmasked with the same key is what it was.       *)
LEMMA XorIs ==
    ASSUME NEW a \in Byte, NEW b \in Byte
    PROVE  Xor(a, b) \in Byte /\ Xor(Xor(a, b), b) = a
  <1> DEFINE x == [i \in 1..8 |-> (Bit(a, i - 1) + Bit(b, i - 1)) % 2]
             y == [i \in 1..8 |-> (Bit(Xor(a, b), i - 1) + Bit(b, i - 1)) % 2]
             z == [i \in 1..8 |-> Bit(a, i - 1)]
  <1>0. \A p, q \in BitOf : (p + q) % 2 \in BitOf /\ (((p + q) % 2) + q) % 2 = p
    BY DEF BitOf
  <1>1. \A i \in 1..8 : x[i] \in BitOf
    BY <1>0, BitsAre
  <1>2. Xor(a, b) = Sum(x)
    BY DEF Xor
  <1>3. Xor(a, b) \in Byte /\ \A i \in 1..8 : Bit(Xor(a, b), i - 1) = x[i]
    <2> HIDE DEF x
    <2> QED
      BY <1>1, <1>2, SumIs
  <1>4. \A i \in 1..8 : y[i] = z[i]
    <2> SUFFICES ASSUME NEW i \in 1..8 PROVE y[i] = z[i]
      OBVIOUS
    <2>1. Bit(a, i - 1) \in BitOf /\ Bit(b, i - 1) \in BitOf
      BY BitsAre
    <2>2. x[i] = (Bit(a, i - 1) + Bit(b, i - 1)) % 2
      OBVIOUS
    <2>3. y[i] = (x[i] + Bit(b, i - 1)) % 2
      BY <1>3
    <2>4. z[i] = Bit(a, i - 1)
      OBVIOUS
    <2> HIDE DEF x, y, z
    <2> QED
      BY <1>0, <2>1, <2>2, <2>3, <2>4
  <1>5. y = z
    <2>1. DOMAIN y = 1..8 /\ DOMAIN z = 1..8
      OBVIOUS
    <2> QED
      BY <1>4
  <1>6. Xor(Xor(a, b), b) = Sum(y)
    BY DEF Xor
  <1> QED
    BY <1>3, <1>5, <1>6, BitsAre

------------------------------------------------------------------------------
(* The bytes of a frame, one after the other.                              *)
LEMMA ByteIs ==
    ASSUME NEW b \in Byte
    PROVE  b \in Nat /\ b <= 255
  BY DEF Byte

(* b is laid out as f is: the first two bytes, the size, the key and the   *)
(* payload (RFC 6455, 5.2).                                                *)
Laid(f, b) ==
    LET e == Len(f.size) - 1
    IN  /\ b \in Seq(Byte)
        /\ Len(b) = 2 + e + (IF f.masked THEN 4 ELSE 0) + Len(f.payload)
        /\ b[1] = (IF f.fin THEN 128 ELSE 0) + f.reserved * 16 + f.opcode
        /\ b[2] = f.size[1] + (IF f.masked THEN 128 ELSE 0)
        /\ \A i \in 2..Len(f.size) : b[i + 1] = f.size[i]
        /\ f.masked =>
             /\ \A i \in 1..4 : b[2 + e + i] = f.key[i]
             /\ \A i \in 1..Len(f.payload) :
                  b[6 + e + i] = Xor(f.payload[i], f.key[((i - 1) % 4) + 1])

LEMMA ElementsAre ==
    ASSUME NEW s \in Seq(Byte)
    PROVE  Len(s) \in Nat /\ DOMAIN s = 1..Len(s) /\ \A i \in 1..Len(s) : s[i] \in Byte
  OBVIOUS

(* c is s and then t.                                                      *)
Followed(c, s, t) ==
    /\ c \in Seq(Byte) /\ Len(c) = Len(s) + Len(t)
    /\ \A i \in 1..Len(s) : c[i] = s[i]
    /\ \A i \in 1..Len(t) : c[Len(s) + i] = t[i]

LEMMA FollowedBy ==
    ASSUME NEW s \in Seq(Byte), NEW t \in Seq(Byte)
    PROVE  Followed(s \o t, s, t)
  BY DEF Followed

(* unmask gives bytes, as many as it got, each with its byte of the key.   *)
LEMMA UnmaskIs ==
    ASSUME NEW p \in Seq(Byte), NEW key \in Seq(Byte), Len(key) = 4
    PROVE  /\ unmask(p, key) \in Seq(Byte) /\ Len(unmask(p, key)) = Len(p)
           /\ \A i \in 1..Len(p) : /\ unmask(p, key)[i] = Xor(p[i], key[((i - 1) % 4) + 1])
                                    /\ p[i] \in Byte /\ key[((i - 1) % 4) + 1] \in Byte
  <1> DEFINE u == [i \in 1..Len(p) |-> Xor(p[i], key[((i - 1) % 4) + 1])]
  <1>1. DOMAIN p = 1..Len(p) /\ Len(p) \in Nat
    OBVIOUS
  <1>2. \A i \in 1..Len(p) : ((i - 1) % 4) + 1 \in 1..4
    BY <1>1
  <1>3. \A i \in 1..4 : key[i] \in Byte
    <2>1. \A i \in 1..Len(key) : key[i] \in Byte
      BY ElementsAre
    <2> QED
      BY <2>1
  <1>4. \A i \in 1..Len(p) : p[i] \in Byte /\ key[((i - 1) % 4) + 1] \in Byte
    BY <1>2, <1>3
  <1>5. \A i \in 1..Len(p) : Xor(p[i], key[((i - 1) % 4) + 1]) \in Byte
    BY <1>4, XorIs
  <1>6. u \in Seq(Byte) /\ Len(u) = Len(p)
    BY <1>1, <1>5
  <1>7. unmask(p, key) = u
    BY <1>1 DEF unmask
  <1> QED
    BY <1>4, <1>6, <1>7

(* The size field, with the bit that says whether the frame is masked.     *)
LEMMA ReplacedIs ==
    ASSUME NEW s \in Seq(Byte), NEW v \in Byte, Len(s) >= 1
    PROVE  LET z == [s EXCEPT ![1] = v]
           IN  /\ z \in Seq(Byte) /\ Len(z) = Len(s) /\ z[1] = v
               /\ \A i \in 2..Len(s) : z[i] = s[i]
  <1>1. 1 \in 1..Len(s) /\ DOMAIN s = 1..Len(s)
    OBVIOUS
  <1>2. [s EXCEPT ![1] = v] = [i \in 1..Len(s) |-> IF i = 1 THEN v ELSE s[i]]
    BY <1>1
  <1>3. \A i \in 1..Len(s) : (IF i = 1 THEN v ELSE s[i]) \in Byte
    OBVIOUS
  <1>4. PICK n \in Nat : n = Len(s)
    OBVIOUS
  <1>5. PICK z : z = [i \in 1..n |-> IF i = 1 THEN v ELSE s[i]]
    OBVIOUS
  <1>6. z \in Seq(Byte) /\ Len(z) = n /\ z[1] = v /\ \A i \in 2..n : z[i] = s[i]
    <2>1. z \in [1..n -> Byte]
      BY <1>3, <1>4, <1>5
    <2>2. z \in Seq(Byte) /\ Len(z) = n
      BY <2>1
    <2>3. z[1] = v /\ \A i \in 2..n : z[i] = s[i]
      BY <1>1, <1>4, <1>5
    <2> QED
      BY <2>2, <2>3
  <1> QED
    BY <1>2, <1>4, <1>5, <1>6

MaskBit(masked) == IF masked THEN 128 ELSE 0

(* z is the size field as it goes on the wire.                             *)
SizeLaid(z, size, masked) ==
    /\ Len(size) \in {1, 3, 9} /\ size[1] \in 0..127
    /\ z \in Seq(Byte) /\ Len(z) = Len(size)
    /\ z[1] = size[1] + MaskBit(masked)
    /\ \A i \in 2..Len(size) : z[i] = size[i]

LEMMA SizeIs ==
    ASSUME NEW size \in Seq(Byte), SizeFits(size), NEW masked \in BOOLEAN
    PROVE  SizeLaid([size EXCEPT ![1] = @ + (IF masked THEN 128 ELSE 0)], size, masked)
  <1>1. Len(size) \in {1, 3, 9}
    BY DEF SizeFits
  <1>2. size[1] \in Byte
    BY <1>1
  <1>3. PICK n \in Nat : n = size[1]
    BY <1>2, ByteIs
  <1>4. n < 126 \/ n = 126 \/ n = 127
    BY <1>1, <1>3 DEF SizeFits
  <1>5. n \in 0..127 /\ MaskBit(masked) \in {0, 128}
    BY <1>4 DEF MaskBit
  <1>6. n + MaskBit(masked) \in Byte
    <2>1. \A x \in 0..127, y \in {0, 128} : x + y \in 0..255
      OBVIOUS
    <2> QED
      BY <1>5, <2>1 DEF Byte
  <1>7. [size EXCEPT ![1] = @ + (IF masked THEN 128 ELSE 0)]
          = [size EXCEPT ![1] = n + MaskBit(masked)]
    BY <1>1, <1>3 DEF MaskBit
  <1>8. Len(size) >= 1
    BY <1>1
  <1> QED
    BY <1>1, <1>3, <1>5, <1>6, <1>7, <1>8, ReplacedIs DEF SizeLaid

(* b is the byte a, and then z, and then t.                                *)
JoinedLaid(b, a, z, t) ==
    /\ b \in Seq(Byte) /\ Len(b) = 1 + Len(z) + Len(t) /\ b[1] = a
    /\ \A i \in 1..Len(z) : b[i + 1] = z[i]
    /\ \A i \in 1..Len(t) : b[1 + Len(z) + i] = t[i]

LEMMA JoinedBytes ==
    ASSUME NEW a \in Byte, NEW z \in Seq(Byte), NEW t \in Seq(Byte)
    PROVE  JoinedLaid(<<a>> \o z \o t, a, z, t)
  <1>1. <<a>> \in Seq(Byte) /\ Len(<<a>>) = 1 /\ <<a>>[1] = a
    OBVIOUS
  <1>2. PICK h \in Seq(Byte) : h = <<a>> /\ Len(h) = 1 /\ h[1] = a
    BY <1>1
  <1>3. PICK c \in Seq(Byte) : c = h \o z
    <2>1. h \o z \in Seq(Byte)
      BY <1>2
    <2> QED
      BY <2>1
  <1>4. /\ Len(c) = 1 + Len(z) /\ c[1] = a
        /\ \A i \in 1..Len(z) : c[i + 1] = z[i]
    BY <1>2, <1>3
  <1>5. PICK b \in Seq(Byte) : b = c \o t
    <2>1. c \o t \in Seq(Byte)
      BY <1>3
    <2> QED
      BY <2>1
  <1>6. /\ Len(b) = Len(c) + Len(t)
        /\ \A i \in 1..Len(c) : b[i] = c[i]
        /\ \A i \in 1..Len(t) : b[Len(c) + i] = t[i]
    BY <1>5
  <1>7. /\ Len(z) \in Nat /\ Len(t) \in Nat
    OBVIOUS
  <1>8. b[1] = a /\ \A i \in 1..Len(z) : b[i + 1] = z[i]
    BY <1>4, <1>6, <1>7
  <1>9. b = <<a>> \o z \o t
    BY <1>2, <1>3, <1>5
  <1>10. JoinedLaid(b, a, z, t)
    BY <1>4, <1>6, <1>7, <1>8 DEF JoinedLaid
  <1> QED
    BY <1>9, <1>10

(* What the first byte of a frame is made of can be read from it.          *)
FirstByte(fin, reserved, opcode) == (IF fin THEN 128 ELSE 0) + reserved * 16 + opcode

FirstSays(a, fin, reserved, opcode) ==
    /\ a \in Byte
    /\ a % 16 = opcode /\ (a \div 16) % 8 = reserved
    /\ (Bit(a, 7) = 1 <=> fin) /\ (Bit(a, 3) = 1 <=> opcode >= 8)

LEMMA FirstIs ==
    ASSUME NEW fin \in BOOLEAN, NEW reserved \in 0..7, NEW opcode \in 0..15
    PROVE  FirstSays(FirstByte(fin, reserved, opcode), fin, reserved, opcode)
  <1> DEFINE a == (IF fin THEN 128 ELSE 0) + reserved * 16 + opcode
  <1>1. a \in 0..255
    OBVIOUS
  <1>2. a % 16 = opcode /\ (a \div 16) % 8 = reserved
    OBVIOUS
  <1>3. Bit(a, 7) = (a \div 128) % 2 /\ Bit(a, 3) = (a \div 8) % 2
    BY DEF Bit, Worth
  <1>4. ((a \div 128) % 2 = 1) <=> fin
    OBVIOUS
  <1>5. ((a \div 8) % 2 = 1) <=> opcode >= 8
    OBVIOUS
  <1> QED
    BY <1>1, <1>2, <1>3, <1>4, <1>5 DEF Byte, FirstByte, FirstSays

(* Bytes lays a frame out.                                                 *)
LEMMA BytesLaid ==
    ASSUME NEW f, IsFrame(f)
    PROVE  Laid(f, Bytes(f))
  <1> DEFINE e == Len(f.size) - 1
             a == (IF f.fin THEN 128 ELSE 0) + f.reserved * 16 + f.opcode
             z == [f.size EXCEPT ![1] = @ + (IF f.masked THEN 128 ELSE 0)]
             u == unmask(f.payload, f.key)
             t == IF f.masked THEN f.key \o u ELSE f.payload
             b == <<a>> \o z \o t
  <1>1. a \in Byte
    <2>1. f.fin \in BOOLEAN /\ f.reserved \in 0..7 /\ f.opcode \in 0..15
      BY DEF IsFrame
    <2> QED
      BY <2>1, FirstIs DEF FirstByte, FirstSays
  <1>2. SizeLaid(z, f.size, f.masked)
    BY SizeIs DEF IsFrame
  <1>3. /\ f.payload \in Seq(Byte) /\ f.key \in Seq(Byte) /\ Len(f.key) = 4
        /\ f.masked \in BOOLEAN
    BY DEF IsFrame
  <1>4. /\ u \in Seq(Byte) /\ Len(u) = Len(f.payload) /\ Len(f.payload) \in Nat
        /\ \A i \in 1..Len(f.payload) : u[i] = Xor(f.payload[i], f.key[((i - 1) % 4) + 1])
    BY <1>3, UnmaskIs
  <1>5. Bytes(f) = b
    BY DEF Bytes
  <1> HIDE DEF u
  <1>6. /\ t \in Seq(Byte)
        /\ Len(t) = (IF f.masked THEN 4 ELSE 0) + Len(f.payload)
        /\ f.masked => /\ \A i \in 1..4 : t[i] = f.key[i]
                       /\ \A i \in 1..Len(f.payload) : t[4 + i] = u[i]
    <2>1. CASE f.masked
      <3>1. PICK k \in Seq(Byte) : k = f.key /\ Len(k) = 4
        BY <1>3
      <3>2. t = k \o u
        BY <2>1, <3>1
      <3> HIDE DEF t
      <3>4. Followed(t, k, u)
        BY <1>4, <3>2, FollowedBy
      <3>3. /\ t \in Seq(Byte) /\ Len(t) = 4 + Len(u)
            /\ \A i \in 1..4 : t[i] = k[i]
            /\ \A i \in 1..Len(u) : t[4 + i] = u[i]
        BY <3>1, <3>4 DEF Followed
      <3> QED
        BY <1>4, <2>1, <3>1, <3>3
    <2>2. CASE ~f.masked
      <3>1. t = f.payload /\ (IF f.masked THEN 4 ELSE 0) = 0
        BY <2>2
      <3> HIDE DEF t
      <3> QED
        BY <1>3, <1>4, <2>2, <3>1
    <2> QED
      BY <2>1, <2>2
  <1> HIDE DEF z, t
  <1>7. JoinedLaid(b, a, z, t)
    <2> HIDE DEF a
    <2> QED
      BY <1>1, <1>2, <1>6, JoinedBytes DEF SizeLaid
  <1>8. b[1] = (IF f.fin THEN 128 ELSE 0) + f.reserved * 16 + f.opcode
    <2> HIDE DEF b
    <2> QED
      BY <1>7 DEF JoinedLaid
  <1> HIDE DEF b, a
  <1>9. e \in {0, 2, 8} /\ Len(z) = e + 1
    BY <1>2 DEF SizeLaid
  <1>10. Len(b) = 2 + e + (IF f.masked THEN 4 ELSE 0) + Len(f.payload)
    <2>1. Len(b) = 1 + Len(z) + Len(t)
      BY <1>7 DEF JoinedLaid
    <2>2. PICK n \in Nat, k \in {0, 4} : n = Len(f.payload) /\ k = IF f.masked THEN 4 ELSE 0
      BY <1>4
    <2>3. Len(b) = 1 + (e + 1) + (k + n)
      BY <1>6, <1>9, <2>1, <2>2
    <2>4. \A x \in {0, 2, 8} : 1 + (x + 1) + (k + n) = 2 + x + k + n
      OBVIOUS
    <2> HIDE DEF e
    <2>5. Len(b) = 2 + e + k + n
      BY <1>9, <2>3, <2>4
    <2> QED
      BY <2>2, <2>5
  <1>11. b[2] = f.size[1] + (IF f.masked THEN 128 ELSE 0)
    <2>1. 1 \in 1..Len(z) /\ 1 + 1 = 2
      <3>1. \A x \in {0, 2, 8} : 1 \in 1..(x + 1)
        OBVIOUS
      <3> HIDE DEF e
      <3> QED
        BY <1>9, <3>1
    <2>2. b[1 + 1] = z[1]
      BY <1>7, <2>1 DEF JoinedLaid
    <2> QED
      BY <1>2, <2>1, <2>2 DEF SizeLaid, MaskBit
  <1>12. \A i \in 2..Len(f.size) : b[i + 1] = f.size[i]
    <2> SUFFICES ASSUME NEW i \in 2..Len(f.size) PROVE b[i + 1] = f.size[i]
      OBVIOUS
    <2>1. i \in 1..Len(z) /\ z[i] = f.size[i]
      BY <1>2 DEF SizeLaid
    <2> QED
      BY <1>7, <2>1 DEF JoinedLaid
  <1>13. ASSUME f.masked
         PROVE  /\ \A i \in 1..4 : b[2 + e + i] = f.key[i]
                /\ \A i \in 1..Len(f.payload) :
                     b[6 + e + i] = Xor(f.payload[i], f.key[((i - 1) % 4) + 1])
    <2> HIDE DEF e
    <2>1. PICK n \in Nat : n = Len(f.payload)
      BY <1>4
    <2>2. Len(t) = 4 + n /\ 1 + Len(z) = 2 + e
      BY <1>6, <1>9, <1>13, <2>1
    <2>3. ASSUME NEW i \in 1..4 PROVE b[2 + e + i] = f.key[i]
      <3>1. i \in 1..Len(t)
        BY <2>1, <2>2
      <3>2. b[1 + Len(z) + i] = t[i]
        BY <1>7, <3>1 DEF JoinedLaid
      <3> QED
        BY <1>6, <1>13, <2>2, <3>2
    <2>4. ASSUME NEW i \in 1..Len(f.payload)
          PROVE  b[6 + e + i] = Xor(f.payload[i], f.key[((i - 1) % 4) + 1])
      <3>1. i \in 1..n /\ 4 + i \in 1..Len(t)
        BY <2>1, <2>2
      <3>2. b[1 + Len(z) + (4 + i)] = t[4 + i]
        BY <1>7, <3>1 DEF JoinedLaid
      <3>3. 1 + Len(z) + (4 + i) = 6 + e + i
        BY <1>9, <2>2, <3>1
      <3>4. t[4 + i] = u[i]
        BY <1>6, <1>13
      <3> QED
        BY <1>4, <3>2, <3>3, <3>4
    <2> QED
      BY <2>3, <2>4
  <1>14. b \in Seq(Byte)
    BY <1>7 DEF JoinedLaid
  <1> QED
    BY <1>5, <1>8, <1>10, <1>11, <1>12, <1>13, <1>14 DEF Laid

------------------------------------------------------------------------------
(* What the board makes of the first bytes of a frame.                     *)
Agrees(d, f) ==
    /\ d \in Seq(Byte)
    /\ \A i \in 1..Len(d) : i <= Len(Bytes(f)) => d[i] = Bytes(f)[i]

(* How many bytes of size and of key follow the first two, and what the    *)
(* first two say.                                                          *)
SizeOf(f) == Len(f.size) - 1

MaskLen(masked) == IF masked THEN 4 ELSE 0

FirstTwo(d, f) ==
    /\ d[1] % 16 = f.opcode /\ (d[1] \div 16) % 8 = f.reserved
    /\ (Bit(d[1], 7) = 1 <=> f.fin) /\ (Bit(d[1], 3) = 1 <=> f.opcode >= 8)
    /\ d[2] % 128 = f.size[1] /\ (Masked(d) <=> f.masked)
    /\ Extra(d) = SizeOf(f)
    /\ HeaderLen(d) = 2 + SizeOf(f) + MaskLen(f.masked)

(* What the second byte is made of can be read from it.                    *)
SecondByte(n, masked) == n + (IF masked THEN 128 ELSE 0)

SecondSays(a, n, masked) == a % 128 = n /\ (Bit(a, 7) = 1 <=> masked)

LEMMA SecondIs ==
    ASSUME NEW n \in 0..127, NEW masked \in BOOLEAN
    PROVE  SecondSays(SecondByte(n, masked), n, masked)
  <1> DEFINE a == n + (IF masked THEN 128 ELSE 0)
  <1>1. a \in 0..255
    OBVIOUS
  <1>2. a % 128 = n
    OBVIOUS
  <1>3. Bit(a, 7) = (a \div 128) % 2
    BY DEF Bit, Worth
  <1>4. ((a \div 128) % 2 = 1) <=> masked
    OBVIOUS
  <1> QED
    BY <1>2, <1>3, <1>4 DEF SecondByte, SecondSays

(* A frame's size takes none, two or eight bytes, as its first byte says.  *)
LEMMA SizesAre ==
    ASSUME NEW f, IsFrame(f)
    PROVE  /\ SizeOf(f) \in {0, 2, 8} /\ Len(f.size) = SizeOf(f) + 1
           /\ f.size[1] \in 0..127 /\ Len(f.payload) \in Nat
           /\ SizeOf(f) = 0 <=> f.size[1] < 126
           /\ SizeOf(f) = 2 <=> f.size[1] = 126
           /\ SizeOf(f) = 8 <=> f.size[1] = 127
           /\ \A i \in 1..Len(f.size) : f.size[i] \in Nat /\ f.size[i] <= 255
  <1>1. f.size \in Seq(Byte) /\ f.payload \in Seq(Byte) /\ SizeFits(f.size)
    BY DEF IsFrame
  <1>2. Len(f.size) \in {1, 3, 9} /\ f.size[1] \in 0..127
    BY <1>1, SizeIs DEF SizeLaid
  <1>3. \A i \in 1..Len(f.size) : f.size[i] \in Nat /\ f.size[i] <= 255
    BY <1>1, ElementsAre, ByteIs
  <1>4. PICK n \in 0..127 : n = f.size[1]
    BY <1>2
  <1>5. /\ Len(f.size) = 1 <=> n < 126
        /\ Len(f.size) = 3 <=> n = 126
        /\ Len(f.size) = 9 <=> n = 127
    <2>1. CASE Len(f.size) = 1
      BY <1>1, <1>4, <2>1 DEF SizeFits
    <2>2. CASE Len(f.size) = 3
      BY <1>1, <1>4, <2>2 DEF SizeFits
    <2>3. CASE Len(f.size) = 9
      BY <1>1, <1>4, <2>3 DEF SizeFits
    <2> QED
      BY <1>2, <2>1, <2>2, <2>3
  <1>6. SizeOf(f) \in {0, 2, 8} /\ Len(f.size) = SizeOf(f) + 1
    BY <1>2 DEF SizeOf
  <1>7. /\ SizeOf(f) = 0 <=> Len(f.size) = 1
        /\ SizeOf(f) = 2 <=> Len(f.size) = 3
        /\ SizeOf(f) = 8 <=> Len(f.size) = 9
    BY <1>2 DEF SizeOf
  <1>8. Len(f.payload) \in Nat
    BY <1>1
  <1> QED
    BY <1>3, <1>4, <1>5, <1>6, <1>7, <1>8

(* Of a frame whose first two bytes are there, the board reads what they   *)
(* say.                                                                    *)
LEMMA FirstTwoRead ==
    ASSUME NEW f, IsFrame(f), NEW d, Agrees(d, f), Len(d) >= 2
    PROVE  FirstTwo(d, f)
  <1>1. Laid(f, Bytes(f))
    BY BytesLaid
  <1>2. Len(Bytes(f)) >= 2 /\ Len(Bytes(f)) \in Nat
    <2>1. PICK n \in Nat, k \in {0, 4}, e \in {0, 2, 8} :
            n = Len(f.payload) /\ k = (IF f.masked THEN 4 ELSE 0) /\ e = SizeOf(f)
      BY SizesAre
    <2>2. Len(Bytes(f)) = 2 + e + k + n
      BY <1>1, <2>1 DEF Laid, SizeOf
    <2> QED
      BY <2>2
  <1>3. d[1] = Bytes(f)[1] /\ d[2] = Bytes(f)[2]
    <2>1. 1 \in 1..Len(d) /\ 2 \in 1..Len(d)
      BY ElementsAre DEF Agrees
    <2> QED
      BY <1>2, <2>1 DEF Agrees
  <1>4. /\ d[1] = (IF f.fin THEN 128 ELSE 0) + f.reserved * 16 + f.opcode
        /\ d[2] = f.size[1] + (IF f.masked THEN 128 ELSE 0)
    BY <1>1, <1>3 DEF Laid
  <1>5. /\ d[1] % 16 = f.opcode /\ (d[1] \div 16) % 8 = f.reserved
        /\ (Bit(d[1], 7) = 1 <=> f.fin) /\ (Bit(d[1], 3) = 1 <=> f.opcode >= 8)
    <2>1. f.fin \in BOOLEAN /\ f.reserved \in 0..7 /\ f.opcode \in 0..15
      BY DEF IsFrame
    <2>2. FirstSays(FirstByte(f.fin, f.reserved, f.opcode), f.fin, f.reserved, f.opcode)
      BY <2>1, FirstIs
    <2>3. d[1] = FirstByte(f.fin, f.reserved, f.opcode)
      BY <1>4 DEF FirstByte
    <2> QED
      BY <2>2, <2>3 DEF FirstSays
  <1>6. d[2] % 128 = f.size[1] /\ (Bit(d[2], 7) = 1 <=> f.masked)
    <2>1. f.masked \in BOOLEAN
      BY DEF IsFrame
    <2>2. f.size[1] \in 0..127
      BY SizesAre
    <2>3. d[2] = SecondByte(f.size[1], f.masked)
      BY <1>4 DEF SecondByte
    <2>4. SecondSays(SecondByte(f.size[1], f.masked), f.size[1], f.masked)
      BY <2>1, <2>2, SecondIs
    <2> QED
      BY <2>3, <2>4 DEF SecondSays
  <1>7. Extra(d) = SizeOf(f)
    BY <1>6, SizesAre DEF Extra
  <1>8. HeaderLen(d) = 2 + SizeOf(f) + MaskLen(f.masked)
    BY <1>6, <1>7 DEF HeaderLen, Masked, MaskLen
  <1> QED
    BY <1>5, <1>6, <1>7, <1>8 DEF FirstTwo, Masked

(* ... and once all of the size is there, of that too.                     *)
LEMMA SizeRead ==
    ASSUME NEW f, IsFrame(f), NEW d, Agrees(d, f), Len(d) >= 2 + SizeOf(f)
    PROVE  /\ PayloadLen(d) = Announced(f.size)
           /\ \A i \in 2..Len(f.size) : d[i + 1] = f.size[i]
  <1>1. Laid(f, Bytes(f))
    BY BytesLaid
  <1>2. SizeOf(f) \in {0, 2, 8} /\ Len(f.size) = SizeOf(f) + 1 /\ Len(d) \in Nat
    BY SizesAre, ElementsAre DEF Agrees
  <1>3. Len(Bytes(f)) \in Nat /\ Len(Bytes(f)) >= 2 + SizeOf(f)
    <2>1. PICK n \in Nat, k \in {0, 4}, e \in {0, 2, 8} :
            n = Len(f.payload) /\ k = (IF f.masked THEN 4 ELSE 0) /\ e = SizeOf(f)
      BY SizesAre
    <2>2. Len(Bytes(f)) = 2 + e + k + n
      BY <1>1, <2>1 DEF Laid, SizeOf
    <2> QED
      BY <2>1, <2>2
  <1>4. \A i \in 2..Len(f.size) : d[i + 1] = f.size[i]
    <2> SUFFICES ASSUME NEW i \in 2..Len(f.size) PROVE d[i + 1] = f.size[i]
      OBVIOUS
    <2>1. i + 1 \in 1..Len(d) /\ i + 1 <= Len(Bytes(f))
      BY <1>2, <1>3
    <2>2. d[i + 1] = Bytes(f)[i + 1]
      BY <2>1 DEF Agrees
    <2> QED
      BY <1>1, <2>2 DEF Laid
  <1>5. Len(d) >= 2
    BY <1>2
  <1>6. FirstTwo(d, f)
    BY <1>5, FirstTwoRead
  <1>7. d[2] % 128 = f.size[1] /\ Extra(d) = SizeOf(f)
    BY <1>6 DEF FirstTwo
  <1>8. CASE SizeOf(f) = 0
    BY <1>2, <1>7, <1>8 DEF PayloadLen, Announced
  <1>9. CASE SizeOf(f) = 2
    <2>1. d[3] = f.size[2] /\ d[4] = f.size[3] /\ Len(f.size) = 3
      BY <1>2, <1>4, <1>9
    <2> QED
      BY <1>7, <1>9, <2>1 DEF PayloadLen, Announced
  <1>10. CASE SizeOf(f) = 8
    <2>1. /\ d[3] = f.size[2] /\ d[4] = f.size[3] /\ d[5] = f.size[4] /\ d[6] = f.size[5]
          /\ d[7] = f.size[6] /\ d[8] = f.size[7] /\ d[9] = f.size[8] /\ d[10] = f.size[9]
          /\ Len(f.size) = 9
      BY <1>2, <1>4, <1>10
    <2>2. (\E i \in 3..7 : d[i] # 0) <=> (\E i \in 2..6 : f.size[i] # 0)
      <3>1. (\E i \in 3..7 : d[i] # 0)
              <=> \/ d[3] # 0 \/ d[4] # 0 \/ d[5] # 0 \/ d[6] # 0 \/ d[7] # 0
        <4>1. 3..7 = {3, 4, 5, 6, 7}
          OBVIOUS
        <4> QED
          BY <4>1
      <3>2. (\E i \in 2..6 : f.size[i] # 0)
              <=> \/ f.size[2] # 0 \/ f.size[3] # 0 \/ f.size[4] # 0 \/ f.size[5] # 0
                  \/ f.size[6] # 0
        <4>1. 2..6 = {2, 3, 4, 5, 6}
          OBVIOUS
        <4> QED
          BY <4>1
      <3> QED
        BY <2>1, <3>1, <3>2
    <2> QED
      BY <1>7, <1>10, <2>1, <2>2 DEF PayloadLen, Announced
  <1> QED
    BY <1>2, <1>4, <1>8, <1>9, <1>10

(* s is n bytes of d, those behind the a-th.                               *)
Sliced(s, d, a, n) ==
    s \in Seq(Byte) /\ Len(s) = n /\ \A i \in 1..n : s[i] = d[a + i]

LEMMA SliceIs ==
    ASSUME NEW d \in Seq(Byte), NEW a \in Nat, NEW n \in Nat, a + n <= Len(d)
    PROVE  Sliced(SubSeq(d, a + 1, a + n), d, a, n)
  <1>1. /\ SubSeq(d, a + 1, a + n) \in Seq(Byte) /\ Len(SubSeq(d, a + 1, a + n)) = n
    OBVIOUS
  <1>2. \A i \in 1..n : SubSeq(d, a + 1, a + n)[i] = d[a + i]
    OBVIOUS
  <1> QED
    BY <1>1, <1>2 DEF Sliced

LEMMA FarIsNat == FarTooLong \in Nat
  BY SMT DEF FarTooLong

(* A good frame is neither refused nor too big, as far as it can be told.  *)
LEMMA FormedIsTaken ==
    ASSUME NEW f, IsFrame(f), Formed(f), InboundCap \in Nat, InboundCap <= FarTooLong,
           NEW d, Agrees(d, f), Len(d) >= 2
    PROVE  /\ parseHeader(d) \in {"ok", "incomplete"}
           /\ parseHeader(d) = "ok" =>
                /\ FrameHeader(d).masked
                /\ FrameHeader(d).payloadLen <= InboundCap - FrameHeader(d).headerLen
                /\ FrameHeader(d).opcode \notin {Continuation, Binary, Close}
  <1>1. FirstTwo(d, f)
    BY FirstTwoRead
  <1>2. PICK e \in {0, 2, 8}, n \in Nat : e = SizeOf(f) /\ n = Len(f.payload)
    BY SizesAre
  <1>3. /\ f.masked /\ f.reserved = 0 /\ Len(Bytes(f)) < InboundCap
        /\ Announced(f.size) = n /\ f.opcode \notin {Continuation, Binary, Close}
        /\ f.opcode >= 8 => f.fin /\ n <= 125
    BY <1>2 DEF Formed, WholeFrame
  <1>4. Len(Bytes(f)) = 2 + e + 4 + n
    <2>1. Len(Bytes(f)) = 2 + SizeOf(f) + 4 + Len(f.payload)
      BY <1>3, BytesLaid DEF Laid, SizeOf
    <2> QED
      BY <1>2, <2>1
  <1>5. Extra(d) = e /\ Masked(d) /\ HeaderLen(d) = 2 + e + 4 /\ Len(d) \in Nat
    BY <1>1, <1>2, <1>3, ElementsAre DEF FirstTwo, Agrees, MaskLen
  <1>6. ~Reserved(d)
    BY <1>1, <1>3 DEF FirstTwo, Reserved
  <1>7. ASSUME Len(d) >= 2 + e PROVE PayloadLen(d) = n
    BY <1>2, <1>3, <1>7, SizeRead
  <1>8. ASSUME Len(d) >= 2 + e, e = 8 PROVE Bit(d[3], 7) # 1
    <2>1. Len(f.size) = 9 /\ d[3] = f.size[2]
      <3>1. Len(f.size) = 9 /\ 2 \in 2..9 /\ 2 + 1 = 3
        <4>1. Len(f.size) = e + 1
          BY <1>2, SizesAre
        <4> QED
          BY <1>8, <4>1
      <3>2. \A i \in 2..Len(f.size) : d[i + 1] = f.size[i]
        BY <1>2, <1>8, SizeRead
      <3>3. d[2 + 1] = f.size[2]
        BY <3>1, <3>2
      <3> QED
        BY <3>1, <3>3
    <2>2. n < FarTooLong /\ n # FarTooLong
      BY <1>2, <1>3, <1>4, FarIsNat
    <2>3. f.size[2] = 0
      <3>1. ~(\E i \in 2..6 : f.size[i] # 0)
        BY <1>3, <2>1, <2>2 DEF Announced
      <3>2. 2 \in 2..6
        OBVIOUS
      <3> QED
        BY <3>1, <3>2
    <2>4. Bit(0, 7) = 0
      BY DEF Bit, Worth
    <2> QED
      BY <2>1, <2>3, <2>4
  <1>9. ASSUME Len(d) >= 2 + e PROVE ~(Control(d) /\ (PayloadLen(d) > 125 \/ Bit(d[1], 7) = 0))
    <2>1. Control(d) => f.opcode >= 8
      BY <1>1 DEF FirstTwo, Control
    <2>2. f.fin => Bit(d[1], 7) # 0
      BY <1>1 DEF FirstTwo
    <2> QED
      BY <1>2, <1>3, <1>7, <1>9, <2>1, <2>2
  <1>10. parseHeader(d) \in {"ok", "incomplete"}
    BY <1>2, <1>5, <1>6, <1>8, <1>9 DEF parseHeader
  <1>11. ASSUME parseHeader(d) = "ok"
         PROVE  /\ FrameHeader(d).masked
                /\ FrameHeader(d).payloadLen <= InboundCap - FrameHeader(d).headerLen
                /\ FrameHeader(d).opcode \notin {Continuation, Binary, Close}
    <2>1. ~(Len(d) < HeaderLen(d))
      BY <1>11 DEF parseHeader
    <2>2. Len(d) >= 2 + e
      BY <1>2, <1>5, <2>1
    <2>3. /\ FrameHeader(d).masked = Masked(d) /\ FrameHeader(d).payloadLen = PayloadLen(d)
          /\ FrameHeader(d).headerLen = HeaderLen(d) /\ FrameHeader(d).opcode = d[1] % 16
      BY DEF FrameHeader
    <2>4. n <= InboundCap - (2 + e + 4)
      BY <1>2, <1>3, <1>4
    <2>5. d[1] % 16 = f.opcode
      BY <1>1 DEF FirstTwo
    <2> QED
      BY <1>3, <1>5, <1>7, <2>2, <2>3, <2>4, <2>5
  <1> QED
    BY <1>10, <1>11

(* Conversely, what the board takes is a good frame, and what it reads is  *)
(* what its client wrote.                                                  *)
Taken(d, f) ==
    LET h == FrameHeader(d)
    IN  /\ Formed(f) /\ h.opcode = f.opcode
        /\ h.headerLen + h.payloadLen = Len(Bytes(f))
        /\ unmask(SubSeq(d, h.headerLen + 1, h.headerLen + h.payloadLen), h.maskKey) = f.payload

(* What is neither refused nor too big and has arrived whole is good, and  *)
(* taken for what it is: its length is what it announces, or it would not  *)
(* fit.                                                                    *)
LEMMA TakenIsFormed ==
    ASSUME NEW f, IsFrame(f), InboundCap \in Nat, WholeFrame(f) \/ Announced(f.size) >= InboundCap,
           NEW d, Agrees(d, f), Len(d) < InboundCap, parseHeader(d) = "ok",
           FrameHeader(d).masked,
           FrameHeader(d).payloadLen <= InboundCap - FrameHeader(d).headerLen,
           Len(d) >= FrameHeader(d).headerLen + FrameHeader(d).payloadLen,
           FrameHeader(d).opcode \notin {Continuation, Binary, Close}
    PROVE  Taken(d, f)
  <1>1. Len(d) \in Nat /\ Len(d) >= 2
    BY ElementsAre DEF Agrees, parseHeader
  <1>2. FirstTwo(d, f)
    BY <1>1, FirstTwoRead
  <1>3. PICK e \in {0, 2, 8}, n \in Nat : e = SizeOf(f) /\ n = Len(f.payload)
    BY SizesAre
  <1>4. /\ FrameHeader(d).masked = Masked(d) /\ FrameHeader(d).payloadLen = PayloadLen(d)
        /\ FrameHeader(d).headerLen = HeaderLen(d) /\ FrameHeader(d).opcode = d[1] % 16
        /\ Masked(d) => FrameHeader(d).maskKey = SubSeq(d, 3 + Extra(d), 6 + Extra(d))
    BY DEF FrameHeader
  <1>5. /\ f.masked /\ Extra(d) = e /\ HeaderLen(d) = 6 + e /\ d[1] % 16 = f.opcode
    <2>1. f.masked /\ Extra(d) = e /\ d[1] % 16 = f.opcode
      BY <1>2, <1>3, <1>4 DEF FirstTwo
    <2>2. HeaderLen(d) = 2 + e + 4
      BY <1>2, <1>3, <2>1 DEF FirstTwo, MaskLen
    <2>3. 2 + e + 4 = 6 + e
      BY <1>3
    <2> QED
      BY <2>1, <2>2, <2>3
  <1>6. ~Reserved(d) /\ ~(Control(d) /\ (PayloadLen(d) > 125 \/ Bit(d[1], 7) = 0))
        /\ ~(Len(d) < HeaderLen(d))
    BY DEF parseHeader
  <1>7. Len(d) >= 6 + e /\ Len(d) >= 2 + e
    BY <1>1, <1>3, <1>5, <1>6
  <1>8. PayloadLen(d) = Announced(f.size)
    BY <1>3, <1>7, SizeRead
  <1>9. Announced(f.size) = n
    <2>1. WholeFrame(f) => Announced(f.size) = n
      BY <1>3 DEF WholeFrame
    <2>2. Announced(f.size) <= InboundCap - (6 + e)
      BY <1>4, <1>5, <1>8
    <2>3. Announced(f.size) \in Nat
      <3>1. /\ \A i \in 1..Len(f.size) : f.size[i] \in Nat
            /\ Len(f.size) = e + 1
        BY <1>3, SizesAre
      <3>2. CASE e = 0
        BY <3>1, <3>2 DEF Announced
      <3>3. CASE e = 2
        <4>1. f.size[2] \in Nat /\ f.size[3] \in Nat /\ Len(f.size) = 3
          BY <3>1, <3>3
        <4> QED
          BY <4>1 DEF Announced
      <3>4. CASE e = 8
        <4>1. f.size[7] \in Nat /\ f.size[8] \in Nat /\ f.size[9] \in Nat /\ Len(f.size) = 9
          BY <3>1, <3>4
        <4>2. (f.size[7] * 256 + f.size[8]) * 256 + f.size[9] \in Nat /\ FarTooLong \in Nat
          BY <4>1, FarIsNat
        <4> QED
          BY <4>1, <4>2 DEF Announced
      <3> QED
        BY <1>3, <3>2, <3>3, <3>4
    <2> QED
      BY <1>3, <2>1, <2>2, <2>3
  <1>10. Laid(f, Bytes(f)) /\ Len(Bytes(f)) = 6 + e + n
    <2>1. Len(Bytes(f)) = 2 + SizeOf(f) + 4 + Len(f.payload)
      BY <1>5, BytesLaid DEF Laid, SizeOf
    <2> QED
      BY <1>3, <2>1, BytesLaid
  <1>11. Len(d) >= 6 + e + n /\ Len(Bytes(f)) < InboundCap
    BY <1>1, <1>3, <1>4, <1>5, <1>8, <1>9, <1>10
  <1>12. Formed(f)
    <2>1. f.reserved = 0
      BY <1>2, <1>6 DEF FirstTwo, Reserved
    <2>2. f.opcode >= 8 => f.fin /\ Len(f.payload) <= 125
      <3>1. f.opcode >= 8 => Control(d)
        BY <1>2 DEF FirstTwo, Control
      <3>2. ~f.fin => Bit(d[1], 7) = 0
        <4>1. d[1] \in Byte
          BY <1>1, ElementsAre DEF Agrees
        <4>2. Bit(d[1], 7) = (d[1] \div 128) % 2
          BY DEF Bit, Worth
        <4>3. (d[1] \div 128) % 2 \in {0, 1}
          <5>1. \A b \in 0..255 : (b \div 128) % 2 \in {0, 1}
            OBVIOUS
          <5> QED
            BY <4>1, <5>1 DEF Byte
        <4> QED
          BY <1>2, <4>2, <4>3 DEF FirstTwo
      <3>3. ~(n > 125) => Len(f.payload) <= 125
        BY <1>3
      <3> QED
        BY <1>6, <1>8, <1>9, <3>1, <3>2, <3>3
    <2> QED
      BY <1>3, <1>4, <1>5, <1>9, <1>11, <2>1, <2>2 DEF Formed, WholeFrame
  <1>13. unmask(SubSeq(d, 7 + e, 6 + e + n), SubSeq(d, 3 + e, 6 + e)) = f.payload
    <2>1. /\ f.payload \in Seq(Byte) /\ f.key \in Seq(Byte) /\ Len(f.key) = 4
      BY DEF IsFrame
    <2>2. \A i \in 1..(6 + e + n) : d[i] = Bytes(f)[i]
      BY <1>1, <1>3, <1>10, <1>11 DEF Agrees
    <2>3. SubSeq(d, 3 + e, 6 + e) = f.key
      <3> DEFINE k == SubSeq(d, 3 + e, 6 + e)
      <3>1. k \in Seq(Byte) /\ Len(k) = 4 /\ \A i \in 1..4 : k[i] = d[2 + e + i]
        <4>1. /\ 2 + e \in Nat /\ 4 \in Nat /\ (2 + e) + 4 <= Len(d)
              /\ (2 + e) + 1 = 3 + e /\ (2 + e) + 4 = 6 + e
          BY <1>1, <1>3, <1>7
        <4>2. Sliced(SubSeq(d, (2 + e) + 1, (2 + e) + 4), d, 2 + e, 4)
          <5> HIDE DEF k
          <5> QED
            BY <4>1, SliceIs DEF Agrees
        <4> QED
          BY <4>1, <4>2 DEF Sliced
      <3>2. \A i \in 1..4 : d[2 + e + i] = f.key[i]
        <4> SUFFICES ASSUME NEW i \in 1..4 PROVE d[2 + e + i] = f.key[i]
          OBVIOUS
        <4>1. 2 + e + i \in 1..(6 + e + n)
          <5>1. \A x \in {0, 2, 8}, y \in 1..4 : 2 + x + y \in 1..(6 + x + n)
            OBVIOUS
          <5> HIDE DEF k
          <5> QED
            BY <5>1
        <4>2. d[2 + e + i] = Bytes(f)[2 + e + i]
          BY <2>2, <4>1
        <4>3. Bytes(f)[2 + (Len(f.size) - 1) + i] = f.key[i]
          BY <1>5, <1>10 DEF Laid
        <4> QED
          BY <1>3, <4>2, <4>3 DEF SizeOf
      <3> HIDE DEF k
      <3>3. k = f.key
        BY <2>1, <3>1, <3>2
      <3> QED
        BY <3>3 DEF k
    <2> DEFINE m == SubSeq(d, 7 + e, 6 + e + n)
    <2>4. m \in Seq(Byte) /\ Len(m) = n /\ \A i \in 1..n : m[i] = d[6 + e + i]
      <3>1. /\ 6 + e \in Nat /\ (6 + e) + n <= Len(d)
            /\ (6 + e) + 1 = 7 + e /\ (6 + e) + n = 6 + e + n
        BY <1>1, <1>3, <1>11
      <3>2. Sliced(SubSeq(d, (6 + e) + 1, (6 + e) + n), d, 6 + e, n)
        <4> HIDE DEF m
        <4> QED
          BY <3>1, SliceIs DEF Agrees
      <3> QED
        BY <3>1, <3>2 DEF Sliced
    <2> HIDE DEF m
    <2>5. \A i \in 1..n : m[i] = Xor(f.payload[i], f.key[((i - 1) % 4) + 1])
      <3> SUFFICES ASSUME NEW i \in 1..n
                   PROVE  m[i] = Xor(f.payload[i], f.key[((i - 1) % 4) + 1])
        OBVIOUS
      <3>1. 6 + e + i \in 1..(6 + e + n)
        BY <1>3
      <3>2. m[i] = Bytes(f)[6 + e + i]
        BY <2>2, <2>4, <3>1
      <3>3. Bytes(f)[6 + (Len(f.size) - 1) + i] = Xor(f.payload[i], f.key[((i - 1) % 4) + 1])
        BY <1>3, <1>5, <1>10 DEF Laid
      <3> QED
        BY <1>3, <3>2, <3>3 DEF SizeOf
    <2> DEFINE u == unmask(m, f.key)
    <2>6. /\ u \in Seq(Byte) /\ Len(u) = n
          /\ \A i \in 1..n : u[i] = Xor(m[i], f.key[((i - 1) % 4) + 1])
      BY <2>1, <2>4, UnmaskIs
    <2>7. \A i \in 1..n : f.payload[i] \in Byte /\ f.key[((i - 1) % 4) + 1] \in Byte
      BY <1>3, <2>1, UnmaskIs
    <2> HIDE DEF u
    <2>8. \A i \in 1..n : u[i] = f.payload[i]
      BY <2>5, <2>6, <2>7, XorIs
    <2>9. u = f.payload
      BY <1>3, <2>1, <2>6, <2>8
    <2> QED
      BY <2>3, <2>9 DEF u, m
  <1>14. /\ FrameHeader(d).headerLen = 6 + e /\ FrameHeader(d).payloadLen = n
         /\ FrameHeader(d).maskKey = SubSeq(d, 3 + e, 6 + e) /\ FrameHeader(d).opcode = f.opcode
    BY <1>4, <1>5, <1>8, <1>9
  <1>15. (6 + e) + 1 = 7 + e /\ (6 + e) + n = 6 + e + n
    BY <1>3
  <1> QED
    BY <1>10, <1>12, <1>13, <1>14, <1>15 DEF Taken

(* The answer to a ping can be read, and says what the ping said.          *)
LEMMA PongIs ==
    ASSUME NEW p \in Seq(Byte), NEW m \in 0..125, m = Len(p)
    PROVE  LET made == encodePong(p)
           IN  /\ parseHeader(made) = "ok" /\ FrameHeader(made).opcode = Pong
               /\ SubSeq(made, HeaderLen(made) + 1, Len(made)) = p
  <1> DEFINE n == Len(p)
             h == <<138, n>>
             d == h \o p
  <1>1. n \in 0..125 /\ n \in Byte /\ 138 \in Byte /\ n # 126 /\ n # 127
    <2>2. Len(p) \in 0..125
      OBVIOUS
    <2>3. \A k \in 0..125 : k \in Byte /\ k # 126 /\ k # 127
      BY DEF Byte
    <2>4. 138 \in Byte
      BY DEF Byte
    <2> QED
      BY <2>2, <2>3, <2>4
  <1>2. encodePong(p) = d
    BY DEF encodePong, Pong
  <1>3. h \in Seq(Byte) /\ Len(h) = 2 /\ h[1] = 138 /\ h[2] = n
    BY <1>1
  <1> HIDE DEF h, n
  <1>4. Followed(d, h, p)
    BY <1>3, FollowedBy
  <1> HIDE DEF d
  <1>5. /\ d \in Seq(Byte) /\ Len(d) = 2 + n /\ d[1] = 138 /\ d[2] = n
        /\ \A i \in 1..n : d[2 + i] = p[i]
    BY <1>3, <1>4 DEF Followed, n
  <1>6. n % 128 = n /\ (n \div 128) % 2 = 0
    BY <1>1
  <1>7. /\ Bit(d[1], 7) = 1 /\ Bit(d[2], 7) = 0 /\ d[1] % 16 = 10 /\ (d[1] \div 16) % 8 = 0
        /\ d[2] % 128 = n
    <2>1. Bit(138, 7) = 1 /\ 138 % 16 = 10 /\ (138 \div 16) % 8 = 0
      BY DEF Bit, Worth
    <2>2. Bit(n, 7) = 0
      BY <1>6 DEF Bit, Worth
    <2> QED
      BY <1>5, <1>6, <2>1, <2>2
  <1>8. Extra(d) = 0
    BY <1>1, <1>7 DEF Extra
  <1>9. ~Masked(d) /\ HeaderLen(d) = 2 /\ PayloadLen(d) = n
    BY <1>7, <1>8 DEF Masked, HeaderLen, PayloadLen
  <1>10. Len(d) >= 2 /\ ~(n > 125)
    BY <1>1, <1>5
  <1>11. parseHeader(d) = "ok"
    <2>1. ~Reserved(d)
      BY <1>7 DEF Reserved
    <2>2. ~(Len(d) < 2) /\ ~(Len(d) < 2 + Extra(d)) /\ ~(Len(d) < HeaderLen(d))
      BY <1>1, <1>5, <1>8, <1>9
    <2>3. ~(Control(d) /\ (PayloadLen(d) > 125 \/ Bit(d[1], 7) = 0))
      BY <1>7, <1>9, <1>10
    <2> QED
      BY <1>8, <2>1, <2>2, <2>3 DEF parseHeader
  <1>12. FrameHeader(d).opcode = Pong
    BY <1>7 DEF FrameHeader, Pong
  <1>13. SubSeq(d, HeaderLen(d) + 1, Len(d)) = p
    <2>1. Sliced(SubSeq(d, 2 + 1, 2 + n), d, 2, n)
      BY <1>1, <1>5, SliceIs
    <2> DEFINE s == SubSeq(d, 2 + 1, 2 + n)
    <2>2. s \in Seq(Byte) /\ Len(s) = n /\ \A i \in 1..n : s[i] = p[i]
      BY <1>5, <2>1 DEF Sliced
    <2> HIDE DEF s
    <2>3. s = p
      BY <2>2 DEF n
    <2> QED
      BY <1>5, <1>9, <2>3 DEF s
  <1> QED
    BY <1>2, <1>11, <1>12, <1>13

------------------------------------------------------------------------------
(* The bytes of the first frames of a talk.                                *)
JoinsTo(g, parts, n) ==
    g = [i \in 0..n |-> IF i = 0 THEN <<>> ELSE g[i - 1] \o parts[i]]

(* Numbers have a least one; so a set with 0 in it, and with every number  *)
(* the next, has them all.                                                 *)
LEMMA LeastNatural ==
    ASSUME NEW T, T \subseteq Nat, T # {}
    PROVE  \E x \in T : \A y \in T : x <= y
  <1> DEFINE R == OpToRel(<, Nat)
  <1>1. IsWellFoundedOn(R, Nat) /\ \A a, b \in Nat : a < b => <<a, b>> \in R
    BY NatLessThanWellFounded DEF OpToRel
  <1> HIDE DEF R
  <1>2. \E x \in T : \A y \in T : ~ (<<y, x>> \in R)
    <2>1. IsWellFoundedOn(R, Nat)
      BY <1>1
    <2> QED
      BY <2>1, WFMin, Zenon
  <1>3. PICK x \in T : \A y \in T : ~ (<<y, x>> \in R)
    BY <1>2
  <1>4. ASSUME NEW y \in T PROVE x <= y
    <2>1. x \in Nat /\ y \in Nat
      OBVIOUS
    <2>2. ~(y < x)
      BY <1>1, <1>3, <2>1
    <2> QED
      BY <2>1, <2>2
  <1> QED
    BY <1>4

LEMMA SetInduction ==
    ASSUME NEW S, 0 \in S, \A n \in Nat : n \in S => n + 1 \in S
    PROVE  Nat \subseteq S
  <1> SUFFICES ASSUME Nat \ S # {} PROVE FALSE
    OBVIOUS
  <1>1. PICK x \in Nat \ S : \A y \in Nat \ S : x <= y
    BY LeastNatural
  <1>2. x - 1 \in Nat /\ ~(x <= x - 1) /\ (x - 1) + 1 = x
    BY <1>1
  <1>3. x - 1 \in S
    BY <1>1, <1>2
  <1> QED
    BY <1>1, <1>2, <1>3

(* The recursion of JoinedTo defines a function, so JoinedTo is what it    *)
(* says.                                                                   *)
LEMMA JoinsToExists ==
    ASSUME NEW parts, NEW n \in Nat
    PROVE  \E g : JoinsTo(g, parts, n)
  <1> DEFINE S == {m \in Nat : \E g : JoinsTo(g, parts, m)}
  <1>1. 0 \in S
    <2>1. JoinsTo([i \in 0..0 |-> <<>>], parts, 0)
      BY DEF JoinsTo
    <2> QED
      BY <2>1
  <1>2. ASSUME NEW m \in Nat, m \in S PROVE m + 1 \in S
    <2>1. PICK f : JoinsTo(f, parts, m)
      BY <1>2
    <2> DEFINE g == [i \in 0..(m + 1) |-> IF i <= m THEN f[i] ELSE f[m] \o parts[m + 1]]
               h == [i \in 0..(m + 1) |-> IF i = 0 THEN <<>> ELSE g[i - 1] \o parts[i]]
    <2>2. \A i \in 0..(m + 1) : g[i] = h[i]
      <3> SUFFICES ASSUME NEW i \in 0..(m + 1) PROVE g[i] = h[i]
        OBVIOUS
      <3>1. CASE i = m + 1
        <4>1. i # 0 /\ i - 1 = m /\ g[m] = f[m] /\ ~(i <= m)
          BY <3>1
        <4> QED
          BY <3>1, <4>1
      <3>2. CASE i # m + 1
        <4>1. i \in 0..m /\ i <= m /\ (i # 0 => i - 1 \in 0..m /\ i - 1 <= m)
          BY <3>2
        <4>2. g[i] = f[i] /\ (i # 0 => g[i - 1] = f[i - 1])
          BY <4>1
        <4> HIDE DEF g
        <4> QED
          BY <2>1, <4>1, <4>2 DEF JoinsTo
      <3> QED
        BY <3>1, <3>2
    <2>3. g = h
      BY <2>2
    <2>4. JoinsTo(g, parts, m + 1)
      BY <2>3 DEF JoinsTo
    <2> QED
      BY <2>4
  <1> HIDE DEF S
  <1>3. n \in S
    BY <1>1, <1>2, SetInduction
  <1> QED
    BY <1>3 DEF S

LEMMA JoinedIs ==
    ASSUME NEW parts, NEW n \in Nat
    PROVE  \E g : JoinsTo(g, parts, n) /\ JoinedTo(parts, n) = g[n]
  <1> DEFINE g == CHOOSE f : JoinsTo(f, parts, n)
  <1>1. JoinsTo(g, parts, n)
    BY JoinsToExists
  <1>2. JoinedTo(parts, n) = g[n]
    BY DEF JoinedTo, JoinsTo
  <1> HIDE DEF g
  <1> QED
    BY <1>1, <1>2

(* It depends on the parts up to there only.                               *)
SameTo(parts, more, k) == \A i \in 1..k : parts[i] = more[i]

LEMMA JoinedSame ==
    ASSUME NEW parts, NEW more, NEW f, NEW g, NEW n \in Nat, NEW m \in Nat,
           JoinsTo(f, parts, n), JoinsTo(g, more, m),
           NEW k \in Nat, k <= n, k <= m, SameTo(parts, more, k)
    PROVE  f[k] = g[k]
  <1> DEFINE S == {i \in Nat : i <= k => f[i] = g[i]}
  <1>1. 0 \in S
    <2>1. f[0] = <<>> /\ g[0] = <<>>
      BY DEF JoinsTo
    <2> QED
      BY <2>1
  <1>2. ASSUME NEW i \in Nat, i \in S PROVE i + 1 \in S
    <2> SUFFICES ASSUME i + 1 <= k PROVE f[i + 1] = g[i + 1]
      OBVIOUS
    <2>1. i + 1 \in 0..n /\ i + 1 \in 0..m /\ i + 1 # 0 /\ (i + 1) - 1 = i /\ i + 1 \in 1..k
      OBVIOUS
    <2>2. f[i + 1] = f[i] \o parts[i + 1] /\ g[i + 1] = g[i] \o more[i + 1]
      BY <2>1 DEF JoinsTo
    <2>4. parts[i + 1] = more[i + 1]
      BY <2>1 DEF SameTo
    <2>3. f[i] = g[i]
      <3>1. i <= k
        OBVIOUS
      <3> QED
        BY <1>2, <3>1
    <2> QED
      BY <2>2, <2>3, <2>4
  <1> HIDE DEF S
  <1>3. k \in S
    BY <1>1, <1>2, SetInduction
  <1> QED
    BY <1>3 DEF S

LEMMA JoinedAgree ==
    ASSUME NEW parts, NEW more, NEW k \in Nat, SameTo(parts, more, k)
    PROVE  JoinedTo(parts, k) = JoinedTo(more, k)
  <1>1. PICK f : JoinsTo(f, parts, k) /\ JoinedTo(parts, k) = f[k]
    BY JoinedIs
  <1>2. PICK g : JoinsTo(g, more, k) /\ JoinedTo(more, k) = g[k]
    BY JoinedIs
  <1>3. k <= k
    OBVIOUS
  <1>4. f[k] = g[k]
    BY <1>1, <1>2, <1>3, JoinedSame
  <1> QED
    BY <1>1, <1>2, <1>4

(* One more part comes behind those before it.                             *)
LEMMA OneMorePart ==
    ASSUME NEW parts, NEW k \in Nat
    PROVE  JoinedTo(parts, 0) = <<>> /\ JoinedTo(parts, k + 1) = JoinedTo(parts, k) \o parts[k + 1]
  <1>1. PICK f : JoinsTo(f, parts, k) /\ JoinedTo(parts, k) = f[k]
    BY JoinedIs
  <1>2. k + 1 \in Nat
    OBVIOUS
  <1>3. PICK g : JoinsTo(g, parts, k + 1) /\ JoinedTo(parts, k + 1) = g[k + 1]
    BY <1>2, JoinedIs
  <1>7. k <= k /\ k <= k + 1 /\ SameTo(parts, parts, k)
    BY DEF SameTo
  <1>4. f[k] = g[k]
    BY <1>1, <1>2, <1>3, <1>7, JoinedSame
  <1>5. g[k + 1] = g[k] \o parts[k + 1]
    BY <1>3 DEF JoinsTo
  <1>6. JoinedTo(parts, 0) = <<>>
    <2>1. PICK h : JoinsTo(h, parts, 0) /\ JoinedTo(parts, 0) = h[0]
      BY JoinedIs
    <2> QED
      BY <2>1 DEF JoinsTo
  <1> QED
    BY <1>1, <1>3, <1>4, <1>5, <1>6

Sequence(s) == \E S : s \in Seq(S)

(* The frames a client may send are frames, and their bytes bytes.         *)
LEMMA FramesAre ==
    ASSUME NEW f \in Frames
    PROVE  /\ IsFrame(f) /\ Bytes(f) \in Seq(Byte)
           /\ WholeFrame(f) \/ Announced(f.size) >= InboundCap
  BY ConstantsAssumption, BytesLaid DEF ConstantsAssumption, Laid

LEMMA SentNext ==
    ASSUME NEW t \in Seq(Frames), NEW k \in Nat
    PROVE  /\ SentTo(t, 0) = <<>>
           /\ k < Len(t) => SentTo(t, k + 1) = SentTo(t, k) \o Bytes(t[k + 1])
  <1> DEFINE parts == [i \in DOMAIN t |-> Bytes(t[i])]
  <1>1. DOMAIN t = 1..Len(t) /\ Len(t) \in Nat
    OBVIOUS
  <1>2. k < Len(t) => parts[k + 1] = Bytes(t[k + 1])
    BY <1>1
  <1>3. \A n : SentTo(t, n) = JoinedTo(parts, n)
    BY DEF SentTo
  <1> HIDE DEF parts
  <1> QED
    BY <1>2, <1>3, OneMorePart

(* What is sent is bytes, the first frames come first, and another frame   *)
(* behind all.                                                             *)
LEMMA SentIsBytes ==
    ASSUME NEW t \in Seq(Frames), NEW k \in 0..Len(t)
    PROVE  SentTo(t, k) \in Seq(Byte)
  <1> DEFINE S == {n \in Nat : n <= Len(t) => SentTo(t, n) \in Seq(Byte)}
  <1>1. 0 \in S
    <2>1. SentTo(t, 0) = <<>>
      BY SentNext
    <2>2. <<>> \in Seq(Byte)
      OBVIOUS
    <2>3. SentTo(t, 0) \in Seq(Byte)
      BY <2>1, <2>2
    <2> QED
      BY <2>3
  <1>2. ASSUME NEW n \in Nat, n \in S PROVE n + 1 \in S
    <2> SUFFICES ASSUME n + 1 <= Len(t) PROVE SentTo(t, n + 1) \in Seq(Byte)
      OBVIOUS
    <2>1. n < Len(t) /\ n <= Len(t) /\ n + 1 \in 1..Len(t)
      OBVIOUS
    <2>2. t[n + 1] \in Frames
      BY <2>1
    <2>3. SentTo(t, n + 1) = SentTo(t, n) \o Bytes(t[n + 1])
      BY <2>1, SentNext
    <2>4. SentTo(t, n) \in Seq(Byte) /\ Bytes(t[n + 1]) \in Seq(Byte)
      BY <1>2, <2>1, <2>2, FramesAre
    <2> QED
      BY <2>3, <2>4, FollowedBy DEF Followed
  <1> HIDE DEF S
  <1>3. k \in S
    BY <1>1, <1>2, SetInduction
  <1> QED
    BY <1>3 DEF S

(* a is the beginning of b.                                                *)
Begins(a, b) ==
    /\ a \in Seq(Byte) /\ b \in Seq(Byte) /\ Len(a) <= Len(b)
    /\ \A i \in 1..Len(a) : b[i] = a[i]

LEMMA BeginsWith ==
    ASSUME NEW a, NEW b, NEW c, Begins(a, b), NEW d \in Seq(Byte), c = b \o d
    PROVE  Begins(a, c)
  <1>1. Followed(c, b, d)
    BY FollowedBy DEF Begins
  <1>2. Len(a) \in Nat /\ Len(b) \in Nat /\ Len(d) \in Nat
    BY ElementsAre DEF Begins
  <1>3. Len(a) <= Len(c)
    BY <1>1, <1>2 DEF Begins, Followed
  <1>4. \A i \in 1..Len(a) : c[i] = a[i]
    <2> SUFFICES ASSUME NEW i \in 1..Len(a) PROVE c[i] = a[i]
      OBVIOUS
    <2>1. i \in 1..Len(b)
      BY <1>2 DEF Begins
    <2> QED
      BY <1>1, <2>1 DEF Begins, Followed
  <1> QED
    BY <1>1, <1>3, <1>4 DEF Begins, Followed

LEMMA SentBegins ==
    ASSUME NEW t \in Seq(Frames), NEW k \in 0..Len(t)
    PROVE  Begins(SentTo(t, k), Sent(t))
  <1> DEFINE S == {n \in Nat : k + n <= Len(t) => Begins(SentTo(t, k), SentTo(t, k + n))}
  <1>0. Len(t) \in Nat
    OBVIOUS
  <1>1. 0 \in S
    <2>1. k + 0 = k /\ SentTo(t, k) \in Seq(Byte)
      BY SentIsBytes
    <2>2. Begins(SentTo(t, k), SentTo(t, k))
      BY <2>1 DEF Begins
    <2> QED
      BY <2>1, <2>2
  <1>2. ASSUME NEW n \in Nat, n \in S PROVE n + 1 \in S
    <2> SUFFICES ASSUME k + (n + 1) <= Len(t)
                 PROVE  Begins(SentTo(t, k), SentTo(t, k + (n + 1)))
      OBVIOUS
    <2> DEFINE m == k + n
    <2>1. m \in Nat /\ m < Len(t) /\ m <= Len(t) /\ k + (n + 1) = m + 1 /\ m + 1 \in 1..Len(t)
      BY <1>0
    <2>2. Begins(SentTo(t, k), SentTo(t, m))
      BY <1>2, <2>1
    <2> HIDE DEF m
    <2>3. t[m + 1] \in Frames
      BY <2>1
    <2>4. SentTo(t, m + 1) = SentTo(t, m) \o Bytes(t[m + 1])
      BY <2>1, SentNext
    <2>5. Bytes(t[m + 1]) \in Seq(Byte)
      BY <2>3, FramesAre
    <2> QED
      BY <2>1, <2>2, <2>4, <2>5, BeginsWith
  <1>3. Len(t) - k \in Nat /\ k + (Len(t) - k) = Len(t)
    BY <1>0
  <1> HIDE DEF S
  <1>4. Len(t) - k \in S
    BY <1>1, <1>2, <1>3, SetInduction
  <1> QED
    BY <1>3, <1>4 DEF S, Sent

LEMMA SentAppend ==
    ASSUME NEW t \in Seq(Frames), NEW f \in Frames, NEW k \in 0..Len(t)
    PROVE  /\ SentTo(Append(t, f), k) = SentTo(t, k)
           /\ Sent(Append(t, f)) = Sent(t) \o Bytes(f)
  <1> DEFINE u == Append(t, f)
  <1>1. /\ u \in Seq(Frames) /\ Len(u) = Len(t) + 1 /\ u[Len(t) + 1] = f /\ Len(t) \in Nat
        /\ DOMAIN u = 1..Len(u) /\ DOMAIN t = 1..Len(t)
        /\ \A i \in 1..Len(t) : u[i] = t[i]
    OBVIOUS
  <1> HIDE DEF u
  <1>2. ASSUME NEW n \in 0..Len(t) PROVE SentTo(u, n) = SentTo(t, n)
    <2> DEFINE p == [i \in DOMAIN u |-> Bytes(u[i])]
               q == [i \in DOMAIN t |-> Bytes(t[i])]
    <2>1. SameTo(p, q, n)
      <3> SUFFICES ASSUME NEW i \in 1..n PROVE p[i] = q[i]
        BY DEF SameTo
      <3>1. i \in DOMAIN u /\ i \in DOMAIN t /\ u[i] = t[i]
        BY <1>1
      <3> QED
        BY <3>1
    <2>2. SentTo(u, n) = JoinedTo(p, n) /\ SentTo(t, n) = JoinedTo(q, n)
      BY DEF SentTo
    <2> HIDE DEF p, q
    <2>3. JoinedTo(p, n) = JoinedTo(q, n)
      BY <2>1, JoinedAgree
    <2> QED
      BY <2>2, <2>3
  <1>3. Sent(u) = Sent(t) \o Bytes(f)
    <2>1. Len(t) \in 0..Len(t) /\ Len(t) < Len(u)
      BY <1>1
    <2>2. SentTo(u, Len(t)) = SentTo(t, Len(t))
      BY <1>2, <2>1
    <2>3. SentTo(u, Len(t) + 1) = SentTo(u, Len(t)) \o Bytes(u[Len(t) + 1])
      BY <1>1, <2>1, SentNext
    <2> QED
      BY <1>1, <2>2, <2>3 DEF Sent
  <1> QED
    BY <1>2, <1>3 DEF u

------------------------------------------------------------------------------
(* What of a talk is where: t was sent, its first k frames are dealt with, *)
(* b is in the buffer and r still to come; of a peer that is gone, bytes   *)
(* may be lost.                                                            *)
Holds(b, s, at) == \A i \in 1..Len(b) : b[i] = s[at + i]

Stream(t, k, b, r, lost) ==
    /\ t \in Seq(Frames) /\ k \in 0..Len(t) /\ b \in Seq(Byte) /\ r \in Seq(Byte)
    /\ Len(SentTo(t, k)) + Len(b) + Len(r) <= Len(Sent(t))
    /\ ~lost => Len(SentTo(t, k)) + Len(b) + Len(r) = Len(Sent(t))
    /\ Holds(b, Sent(t), Len(SentTo(t, k)))
    /\ Holds(r, Sent(t), Len(SentTo(t, k)) + Len(b))

LEMMA StreamLens ==
    ASSUME NEW t, NEW k, NEW b, NEW r, NEW lost, Stream(t, k, b, r, lost)
    PROVE  /\ Len(SentTo(t, k)) \in Nat /\ Len(Sent(t)) \in Nat /\ Len(b) \in Nat
           /\ Len(r) \in Nat /\ Len(t) \in Nat /\ Sent(t) \in Seq(Byte)
  <1>1. t \in Seq(Frames) /\ k \in 0..Len(t) /\ b \in Seq(Byte) /\ r \in Seq(Byte)
    BY DEF Stream
  <1>2. Len(t) \in Nat /\ Len(t) \in 0..Len(t)
    BY <1>1
  <1>3. SentTo(t, k) \in Seq(Byte) /\ Sent(t) \in Seq(Byte)
    BY <1>1, <1>2, SentIsBytes DEF Sent
  <1> QED
    BY <1>1, <1>2, <1>3, ElementsAre

(* A talk begins with nothing sent and nothing held; the client sends, the *)
(* board polls what has arrived, and what has not is lost when the peer    *)
(* goes.                                                                   *)
LEMMA StreamStarts ==
    ASSUME NEW lost
    PROVE  Stream(<<>>, 0, <<>>, <<>>, lost)
  <1>1. <<>> \in Seq(Frames) /\ <<>> \in Seq(Byte) /\ Len(<<>>) = 0
    OBVIOUS
  <1>2. SentTo(<<>>, 0) = <<>> /\ Sent(<<>>) = <<>>
    BY <1>1, SentNext DEF Sent
  <1> QED
    BY <1>1, <1>2 DEF Stream, Holds

LEMMA StreamSends ==
    ASSUME NEW t, NEW k, NEW b, NEW r, Stream(t, k, b, r, FALSE), NEW f \in Frames
    PROVE  Stream(Append(t, f), k, b, r \o Bytes(f), FALSE)
  <1> DEFINE u == Append(t, f)  p == Len(SentTo(t, k))  S == Sent(t)  q == r \o Bytes(f)
             U == Sent(u)
  <1>1. /\ t \in Seq(Frames) /\ k \in 0..Len(t) /\ b \in Seq(Byte) /\ r \in Seq(Byte)
        /\ p + Len(b) + Len(r) = Len(S)
        /\ Holds(b, S, p) /\ Holds(r, S, p + Len(b))
    BY DEF Stream
  <1>2. u \in Seq(Frames) /\ Len(u) = Len(t) + 1 /\ k \in 0..Len(u)
    BY <1>1
  <1>3. SentTo(u, k) = SentTo(t, k) /\ U = S \o Bytes(f)
    BY <1>1, SentAppend
  <1>4. Bytes(f) \in Seq(Byte)
    BY FramesAre
  <1>5. p \in Nat /\ Len(S) \in Nat /\ Len(b) \in Nat /\ Len(r) \in Nat /\ S \in Seq(Byte)
    BY StreamLens
  <1>6. Followed(U, S, Bytes(f)) /\ Followed(q, r, Bytes(f)) /\ Len(Bytes(f)) \in Nat
    BY <1>1, <1>3, <1>4, <1>5, FollowedBy, ElementsAre
  <1>7. Len(SentTo(u, k)) = p
    BY <1>3
  <1> HIDE DEF u, p, S, q, U
  <1>8. p + Len(b) + Len(q) = Len(U) /\ q \in Seq(Byte)
    BY <1>1, <1>5, <1>6 DEF Followed
  <1>9. Holds(b, U, p)
    <2> SUFFICES ASSUME NEW i \in 1..Len(b) PROVE b[i] = U[p + i]
      BY DEF Holds
    <2>1. p + i \in 1..Len(S)
      BY <1>1, <1>5
    <2> QED
      BY <1>1, <1>6, <2>1 DEF Holds, Followed
  <1>10. Holds(q, U, p + Len(b))
    <2> SUFFICES ASSUME NEW i \in 1..Len(q) PROVE q[i] = U[p + Len(b) + i]
      BY DEF Holds
    <2>1. CASE i <= Len(r)
      <3>1. i \in 1..Len(r) /\ p + Len(b) + i \in 1..Len(S)
        BY <1>1, <1>5, <2>1
      <3> QED
        BY <1>1, <1>6, <3>1 DEF Holds, Followed
    <2>2. CASE ~(i <= Len(r))
      <3>1. PICK j \in 1..Len(Bytes(f)) : i = Len(r) + j
        <4>1. Len(q) = Len(r) + Len(Bytes(f))
          BY <1>6 DEF Followed
        <4>2. i - Len(r) \in 1..Len(Bytes(f)) /\ i = Len(r) + (i - Len(r))
          BY <1>5, <1>6, <2>2, <4>1
        <4> QED
          BY <4>2
      <3>2. p + Len(b) + i = Len(S) + j
        <4>1. j \in Nat
          BY <1>6
        <4>2. p + Len(b) + (Len(r) + j) = (p + Len(b) + Len(r)) + j
          BY <1>5, <4>1
        <4> QED
          BY <1>1, <3>1, <4>2
      <3>3. q[Len(r) + j] = Bytes(f)[j] /\ U[Len(S) + j] = Bytes(f)[j]
        BY <1>6 DEF Followed
      <3> QED
        BY <3>1, <3>2, <3>3
    <2> QED
      BY <2>1, <2>2
  <1>11. Stream(u, k, b, q, FALSE)
    BY <1>1, <1>2, <1>7, <1>8, <1>9, <1>10, <1>5 DEF Stream, U
  <1> QED
    BY <1>11 DEF u, q

LEMMA StreamPolled ==
    ASSUME NEW t, NEW k, NEW b, NEW r, NEW lost, Stream(t, k, b, r, lost), NEW n \in 0..Len(r)
    PROVE  Stream(t, k, b \o SubSeq(r, 1, n), SubSeq(r, n + 1, Len(r)), lost)
  <1> DEFINE p == Len(SentTo(t, k))  S == Sent(t)  h == SubSeq(r, 1, n)
             c == b \o h  q == SubSeq(r, n + 1, Len(r))
  <1>1. /\ t \in Seq(Frames) /\ k \in 0..Len(t) /\ b \in Seq(Byte) /\ r \in Seq(Byte)
        /\ p + Len(b) + Len(r) <= Len(S) /\ (~lost => p + Len(b) + Len(r) = Len(S))
        /\ Holds(b, S, p) /\ Holds(r, S, p + Len(b))
    BY DEF Stream
  <1>2. p \in Nat /\ Len(S) \in Nat /\ Len(b) \in Nat /\ Len(r) \in Nat
    BY StreamLens
  <1>3. Sliced(h, r, 0, n) /\ Sliced(q, r, n, Len(r) - n)
    <2>1. 0 + n <= Len(r) /\ 0 + 1 = 1 /\ 0 + n = n /\ n \in Nat /\ n + (Len(r) - n) = Len(r)
          /\ Len(r) - n \in Nat /\ n + (Len(r) - n) <= Len(r)
      BY <1>2
    <2>2. Sliced(SubSeq(r, 0 + 1, 0 + n), r, 0, n)
      BY <1>1, <2>1, SliceIs
    <2>3. Sliced(SubSeq(r, n + 1, n + (Len(r) - n)), r, n, Len(r) - n)
      BY <1>1, <2>1, SliceIs
    <2> QED
      BY <2>1, <2>2, <2>3
  <1> HIDE DEF p, S, h, q
  <1>4. Followed(c, b, h)
    BY <1>1, <1>3, FollowedBy DEF Sliced
  <1> HIDE DEF c
  <1>5. /\ c \in Seq(Byte) /\ q \in Seq(Byte) /\ Len(c) = Len(b) + n /\ Len(q) = Len(r) - n
        /\ p + Len(c) + Len(q) = p + Len(b) + Len(r)
    BY <1>2, <1>3, <1>4 DEF Followed, Sliced
  <1>6. Holds(c, S, p)
    <2> SUFFICES ASSUME NEW i \in 1..Len(c) PROVE c[i] = S[p + i]
      BY DEF Holds
    <2>1. CASE i <= Len(b)
      <3>1. i \in 1..Len(b)
        BY <1>2, <2>1
      <3> QED
        BY <1>1, <1>4, <3>1 DEF Holds, Followed
    <2>2. CASE ~(i <= Len(b))
      <3>1. PICK j \in 1..n : i = Len(b) + j
        <4>1. i - Len(b) \in 1..n /\ i = Len(b) + (i - Len(b))
          BY <1>2, <1>5, <2>2
        <4> QED
          BY <4>1
      <3>2. /\ Len(h) = n /\ j \in 1..Len(r) /\ p + i = p + Len(b) + j /\ 0 + j = j
        BY <1>2, <1>3, <3>1 DEF Sliced
      <3>3. c[i] = h[j] /\ h[j] = r[j]
        BY <1>3, <1>4, <3>1, <3>2 DEF Followed, Sliced
      <3>4. r[j] = S[p + Len(b) + j]
        BY <1>1, <3>2 DEF Holds
      <3> QED
        BY <3>2, <3>3, <3>4
    <2> QED
      BY <2>1, <2>2
  <1>7. Holds(q, S, p + Len(c))
    <2> SUFFICES ASSUME NEW i \in 1..Len(q) PROVE q[i] = S[p + Len(c) + i]
      BY DEF Holds
    <2>1. i \in 1..(Len(r) - n) /\ n + i \in 1..Len(r)
          /\ p + Len(b) + (n + i) = p + Len(c) + i
      BY <1>2, <1>5
    <2>2. q[i] = r[n + i]
      BY <1>3, <2>1 DEF Sliced
    <2>3. r[n + i] = S[p + Len(b) + (n + i)]
      BY <1>1, <2>1 DEF Holds
    <2> QED
      BY <2>1, <2>2, <2>3
  <1>8. Stream(t, k, c, q, lost)
    BY <1>1, <1>5, <1>6, <1>7 DEF Stream, p, S
  <1> QED
    BY <1>8 DEF c, q, h

LEMMA StreamCloses ==
    ASSUME NEW t, NEW k, NEW b, NEW r, NEW lost, Stream(t, k, b, r, lost)
    PROVE  Stream(t, k, b, r, TRUE) /\ Stream(t, k, b, <<>>, TRUE)
  <1>1. Stream(t, k, b, r, TRUE)
    BY DEF Stream
  <1>2. Len(SentTo(t, k)) + Len(b) + Len(<<>>) <= Len(Sent(t))
    <2>1. Len(<<>>) = 0
      OBVIOUS
    <2> QED
      BY <2>1, StreamLens DEF Stream
  <1>3. <<>> \in Seq(Byte) /\ Holds(<<>>, Sent(t), Len(SentTo(t, k)) + Len(b))
    BY DEF Holds
  <1> QED
    BY <1>1, <1>2, <1>3 DEF Stream

(* What is in the buffer is the frame that is next.                        *)
LEMMA NextFrame ==
    ASSUME NEW t, NEW k, NEW b, NEW r, NEW lost, Stream(t, k, b, r, lost), k < Len(t)
    PROVE  /\ t[k + 1] \in Frames /\ k + 1 \in 0..Len(t)
           /\ Followed(SentTo(t, k + 1), SentTo(t, k), Bytes(t[k + 1]))
           /\ Begins(SentTo(t, k + 1), Sent(t))
  <1>1. t \in Seq(Frames) /\ k \in 0..Len(t) /\ Len(t) \in Nat
    BY StreamLens DEF Stream
  <1>2. k + 1 \in 1..Len(t) /\ k + 1 \in 0..Len(t) /\ k \in Nat
    BY <1>1
  <1>3. t[k + 1] \in Frames
    BY <1>1, <1>2
  <1>4. SentTo(t, k + 1) = SentTo(t, k) \o Bytes(t[k + 1])
    BY <1>1, <1>2, SentNext
  <1>5. SentTo(t, k) \in Seq(Byte) /\ Bytes(t[k + 1]) \in Seq(Byte)
    BY <1>1, <1>3, SentIsBytes, FramesAre
  <1> QED
    BY <1>1, <1>2, <1>3, <1>4, <1>5, FollowedBy, SentBegins

(* As soon as there are two bytes they are those of the frame that is      *)
(* next, and when it is dealt with the one behind it is next.              *)
LEMMA StreamAgrees ==
    ASSUME NEW t, NEW k, NEW b, NEW r, NEW lost, Stream(t, k, b, r, lost), Len(b) >= 2
    PROVE  k < Len(t) /\ Agrees(b, t[k + 1])
  <1> DEFINE p == Len(SentTo(t, k))  S == Sent(t)
  <1>1. p \in Nat /\ Len(S) \in Nat /\ Len(b) \in Nat /\ Len(r) \in Nat /\ Len(t) \in Nat
    BY StreamLens
  <1>2. p + Len(b) + Len(r) <= Len(S) /\ k \in 0..Len(t) /\ b \in Seq(Byte) /\ Holds(b, S, p)
    BY DEF Stream
  <1>3. k < Len(t)
    <2>1. k = Len(t) => p = Len(S)
      BY DEF Sent
    <2> HIDE DEF p, S
    <2>2. p # Len(S)
      BY <1>1, <1>2
    <2> QED
      BY <1>1, <1>2, <2>1, <2>2
  <1>4. ASSUME NEW i \in 1..Len(b), i <= Len(Bytes(t[k + 1]))
        PROVE  b[i] = Bytes(t[k + 1])[i]
    <2>1. /\ t[k + 1] \in Frames
          /\ Followed(SentTo(t, k + 1), SentTo(t, k), Bytes(t[k + 1]))
          /\ Begins(SentTo(t, k + 1), S)
      BY <1>3, NextFrame
    <2>2. Len(Bytes(t[k + 1])) \in Nat
      BY <2>1, FramesAre, ElementsAre
    <2>3. SentTo(t, k + 1)[p + i] = Bytes(t[k + 1])[i]
      BY <1>1, <1>4, <2>1, <2>2 DEF Followed
    <2>4. p + i \in 1..Len(SentTo(t, k + 1))
      <3>1. Len(SentTo(t, k + 1)) = p + Len(Bytes(t[k + 1]))
        BY <2>1 DEF Followed
      <3> HIDE DEF p
      <3> QED
        BY <1>1, <1>4, <2>2, <3>1
    <2>5. S[p + i] = SentTo(t, k + 1)[p + i]
      BY <2>1, <2>4 DEF Begins
    <2>6. b[i] = S[p + i]
      BY <1>2 DEF Holds
    <2> QED
      BY <2>3, <2>5, <2>6
  <1> QED
    BY <1>2, <1>3, <1>4 DEF Agrees

LEMMA StreamMoves ==
    ASSUME NEW t, NEW k, NEW b, NEW r, NEW lost, Stream(t, k, b, r, lost), k < Len(t),
           NEW n, n = Len(Bytes(t[k + 1])), n <= Len(b)
    PROVE  Stream(t, k + 1, SubSeq(b, n + 1, Len(b)), r, lost)
  <1> DEFINE p == Len(SentTo(t, k))  S == Sent(t)  q == Len(SentTo(t, k + 1))
             c == SubSeq(b, n + 1, Len(b))
  <1>1. p \in Nat /\ Len(S) \in Nat /\ Len(b) \in Nat /\ Len(r) \in Nat
    BY StreamLens
  <1>2. /\ t \in Seq(Frames) /\ k \in 0..Len(t) /\ b \in Seq(Byte) /\ r \in Seq(Byte)
        /\ p + Len(b) + Len(r) <= Len(S) /\ (~lost => p + Len(b) + Len(r) = Len(S))
        /\ Holds(b, S, p) /\ Holds(r, S, p + Len(b))
    BY DEF Stream
  <1>3. /\ t[k + 1] \in Frames /\ k + 1 \in 0..Len(t)
        /\ Followed(SentTo(t, k + 1), SentTo(t, k), Bytes(t[k + 1]))
    BY NextFrame
  <1>4. n \in Nat
    BY <1>3, FramesAre, ElementsAre
  <1>5. q = p + n
    BY <1>3 DEF Followed
  <1>6. Sliced(c, b, n, Len(b) - n)
    <2>1. Len(b) - n \in Nat /\ n + (Len(b) - n) = Len(b) /\ n + (Len(b) - n) <= Len(b)
      BY <1>1, <1>4
    <2>2. Sliced(SubSeq(b, n + 1, n + (Len(b) - n)), b, n, Len(b) - n)
      BY <1>2, <1>4, <2>1, SliceIs
    <2> QED
      BY <2>1, <2>2
  <1> HIDE DEF p, S, q, c
  <1>7. /\ c \in Seq(Byte) /\ Len(c) = Len(b) - n
        /\ q + Len(c) + Len(r) = p + Len(b) + Len(r) /\ q + Len(c) = p + Len(b)
    BY <1>1, <1>4, <1>5, <1>6 DEF Sliced
  <1>8. Holds(c, S, q)
    <2> SUFFICES ASSUME NEW i \in 1..Len(c) PROVE c[i] = S[q + i]
      BY DEF Holds
    <2>1. i \in 1..(Len(b) - n) /\ n + i \in 1..Len(b) /\ p + (n + i) = q + i
      BY <1>1, <1>4, <1>5, <1>7
    <2>2. c[i] = b[n + i]
      BY <1>6, <2>1 DEF Sliced
    <2>3. b[n + i] = S[p + (n + i)]
      BY <1>2, <2>1 DEF Holds
    <2> QED
      BY <2>1, <2>2, <2>3
  <1>9. Holds(r, S, q + Len(c))
    BY <1>2, <1>7
  <1>10. Stream(t, k + 1, c, r, lost)
    BY <1>2, <1>3, <1>7, <1>8, <1>9 DEF Stream, q, S
  <1> QED
    BY <1>10 DEF c

------------------------------------------------------------------------------
(* What was done for the frames dealt with, and the good ones there are.   *)
Right(f, made) ==
    /\ made[1] = Kind(f)
    /\ IF Kind(f) # "pong" THEN made[2] = f.payload
       ELSE /\ parseHeader(made[2]) = "ok" /\ FrameHeader(made[2]).opcode = Pong
            /\ SubSeq(made[2], HeaderLen(made[2]) + 1, Len(made[2])) = f.payload

(* The frames dealt with were good, and each dealt with rightly.           *)
Done(t, d) ==
    /\ Sequence(d) /\ t \in Seq(Frames) /\ Len(d) \in 0..Len(t)
    /\ \A i \in 1..Len(d) : Formed(t[i]) /\ Right(t[i], d[i])

(* One more is dealt with, or one more sent.                               *)
LEMMA DoneAppend ==
    ASSUME NEW t, NEW d, Done(t, d), Len(d) < Len(t), NEW made,
           Formed(t[Len(d) + 1]), Right(t[Len(d) + 1], made)
    PROVE  Done(t, Append(d, made)) /\ Len(Append(d, made)) = Len(d) + 1
  <1> DEFINE e == Append(d, made)
  <1>1. PICK T : d \in Seq(T)
    BY DEF Done, Sequence
  <1>2. PICK U : U = T \cup {made}
    OBVIOUS
  <1>3. d \in Seq(U) /\ made \in U
    BY <1>1, <1>2
  <1>4. /\ e \in Seq(U) /\ Len(e) = Len(d) + 1 /\ e[Len(d) + 1] = made /\ Len(d) \in Nat
        /\ \A i \in 1..Len(d) : e[i] = d[i]
    BY <1>3
  <1> HIDE DEF e
  <1>5. Sequence(e)
    BY <1>4 DEF Sequence
  <1>6. t \in Seq(Frames) /\ Len(t) \in Nat /\ Len(e) \in 0..Len(t)
    BY <1>4 DEF Done
  <1>7. \A i \in 1..Len(e) : Formed(t[i]) /\ Right(t[i], e[i])
    <2> SUFFICES ASSUME NEW i \in 1..Len(e) PROVE Formed(t[i]) /\ Right(t[i], e[i])
      OBVIOUS
    <2>1. CASE i = Len(d) + 1
      BY <1>4, <2>1
    <2>2. CASE i # Len(d) + 1
      <3>1. i \in 1..Len(d)
        BY <1>4, <2>2
      <3> QED
        BY <1>4, <3>1 DEF Done
    <2> QED
      BY <2>1, <2>2
  <1> QED
    BY <1>4, <1>5, <1>6, <1>7 DEF Done, e

LEMMA DoneSends ==
    ASSUME NEW t, NEW d, Done(t, d), NEW f \in Frames
    PROVE  Done(Append(t, f), d)
  <1> DEFINE u == Append(t, f)
  <1>1. t \in Seq(Frames) /\ Len(d) \in 0..Len(t)
    BY DEF Done
  <1>2. /\ u \in Seq(Frames) /\ Len(u) = Len(t) + 1 /\ Len(t) \in Nat
        /\ \A i \in 1..Len(t) : u[i] = t[i]
    BY <1>1
  <1> HIDE DEF u
  <1>3. Len(d) \in 0..Len(u) /\ \A i \in 1..Len(d) : u[i] = t[i]
    BY <1>1, <1>2
  <1> QED
    BY <1>2, <1>3 DEF Done, u

(* What is done rightly, and a cause to close.                             *)
Heeded(t, d, c, r, lost) ==
    /\ Done(t, d)
    /\ CloseCode(c) \in {ProtocolError, TooBig} =>
         \/ Len(d) < Len(t) /\ ~Formed(t[Len(d) + 1])
         \/ /\ CloseCode(c) = TooBig
            /\ lost \/ Len(Sent(t)) - Len(r) - Len(SentTo(t, Len(d))) >= InboundCap

LEMMA HeededIs ==
    ASSUME Heeded(talk, did, closed, inbox, gone)
    PROVE  FramesHeeded
  <1>1. /\ DOMAIN did = 1..Len(did) /\ Len(did) <= Len(talk)
        /\ \A i \in 1..Len(did) : Formed(talk[i]) /\ Right(talk[i], did[i])
    BY DEF Heeded, Done, Sequence
  <1>2. InOrder
    BY <1>1 DEF InOrder, Right
  <1>3. ClosedForCause
    BY DEF Heeded, ClosedForCause, AtAWrongFrame, Good, Pending
  <1> QED
    BY <1>2, <1>3 DEF FramesHeeded

(* What a close frame says is what was put in it.                          *)
LEMMA CodeIs ==
    ASSUME NEW n, NEW h, NEW l, n \div 256 = h, n % 256 = l
    PROVE  CloseCode(encodeClose(n)) = h * 256 + l
  <1>1. encodeClose(n) # <<>> /\ encodeClose(n)[3] = h /\ encodeClose(n)[4] = l
    BY DEF encodeClose
  <1> QED
    BY <1>1 DEF CloseCode

LEMMA CodesAre ==
    /\ CloseCode(<<>>) = 0 /\ CloseCode(encodeClose(Normal)) = Normal
    /\ CloseCode(encodeClose(ProtocolError)) = ProtocolError
    /\ CloseCode(encodeClose(TooBig)) = TooBig
    /\ 0 \notin {ProtocolError, TooBig} /\ Normal \notin {ProtocolError, TooBig}
  <1>1. CloseCode(<<>>) = 0
    BY DEF CloseCode
  <1>2. CloseCode(encodeClose(Normal)) = Normal
    <2>1. 1000 \div 256 = 3 /\ 1000 % 256 = 232
      OBVIOUS
    <2>2. CloseCode(encodeClose(1000)) = 3 * 256 + 232
      BY <2>1, CodeIs
    <2> QED
      BY <2>2 DEF Normal
  <1>3. CloseCode(encodeClose(ProtocolError)) = ProtocolError
    <2>1. 1002 \div 256 = 3 /\ 1002 % 256 = 234
      OBVIOUS
    <2>2. CloseCode(encodeClose(1002)) = 3 * 256 + 234
      BY <2>1, CodeIs
    <2> QED
      BY <2>2 DEF ProtocolError
  <1>4. CloseCode(encodeClose(TooBig)) = TooBig
    <2>1. 1009 \div 256 = 3 /\ 1009 % 256 = 241
      OBVIOUS
    <2>2. CloseCode(encodeClose(1009)) = 3 * 256 + 241
      BY <2>1, CodeIs
    <2> QED
      BY <2>2 DEF TooBig
  <1>5. 0 \notin {ProtocolError, TooBig} /\ Normal \notin {ProtocolError, TooBig}
    BY DEF Normal, ProtocolError, TooBig
  <1> QED
    BY <1>1, <1>2, <1>3, <1>4, <1>5

(* What makes FramesHeeded inductive: while it listens the board holds a   *)
(* piece of the client's bytes, from the end of the frames it has dealt    *)
(* with.                                                                   *)
FramesInv ==
    /\ pc \notin {"open", "drain", "done"} =>
         talk = <<>> /\ inbox = <<>> /\ buf = <<>> /\ did = <<>> /\ closed = <<>>
    /\ pc \in {"open", "drain"} =>
         Stream(talk, Len(did), buf, inbox, gone) /\ Done(talk, did) /\ closed = <<>>
    /\ pc = "done" => Heeded(talk, did, closed, inbox, gone)
    /\ pc # "done" => gone \in BOOLEAN

(* Nothing has been heard and nothing done: nothing is wrong.              *)
LEMMA NothingIsFine ==
    ASSUME NEW lost
    PROVE  /\ Stream(<<>>, Len(<<>>), <<>>, <<>>, lost) /\ Done(<<>>, <<>>)
           /\ Heeded(<<>>, <<>>, <<>>, <<>>, lost)
  <1>1. Len(<<>>) = 0 /\ <<>> \in Seq(Frames) /\ Len(<<>>) \in 0..Len(<<>>)
    OBVIOUS
  <1>2. Done(<<>>, <<>>)
    BY <1>1 DEF Done, Sequence
  <1>3. Stream(<<>>, Len(<<>>), <<>>, <<>>, lost)
    BY <1>1, StreamStarts
  <1>4. CloseCode(<<>>) \notin {ProtocolError, TooBig}
    BY CodesAre
  <1> QED
    BY <1>2, <1>3, <1>4 DEF Heeded

(* A connection that ends while it is listened to.                         *)
LEMMA Ends ==
    ASSUME FramesInv, pc \in {"open", "drain"}, pc' = "done", UNCHANGED <<talk, did, gone>>,
           \/ CloseCode(closed') \notin {ProtocolError, TooBig}
           \/ Len(did) < Len(talk) /\ ~Formed(talk[Len(did) + 1])
           \/ /\ CloseCode(closed') = TooBig
              /\ gone \/ Len(Sent(talk)) - Len(inbox') - Len(SentTo(talk, Len(did))) >= InboundCap
    PROVE  FramesInv'
  <1>1. Done(talk, did)
    BY DEF FramesInv
  <1>2. Heeded(talk, did, closed', inbox', gone)
    BY <1>1 DEF Heeded
  <1> QED
    BY <1>2 DEF FramesInv

(* The frame the loop of drainFrames is at.                                *)
LEMMA FrameIsNext ==
    ASSUME FramesInv, pc = "drain", parseHeader(buf) # "incomplete"
    PROVE  /\ Stream(talk, Len(did), buf, inbox, gone) /\ Done(talk, did) /\ closed = <<>>
           /\ Len(buf) >= 2 /\ Len(did) < Len(talk)
           /\ talk[Len(did) + 1] \in Frames /\ Agrees(buf, talk[Len(did) + 1])
  <1>1. Stream(talk, Len(did), buf, inbox, gone) /\ Done(talk, did) /\ closed = <<>>
    BY DEF FramesInv
  <1>2. Len(buf) >= 2
    <2>1. ~(Len(buf) < 2)
      BY DEF parseHeader
    <2>2. Len(buf) \in Nat
      BY <1>1, StreamLens
    <2> QED
      BY <2>1, <2>2
  <1>3. Len(did) < Len(talk) /\ Agrees(buf, talk[Len(did) + 1])
    BY <1>1, <1>2, StreamAgrees
  <1>4. talk[Len(did) + 1] \in Frames
    BY <1>1, <1>3, NextFrame
  <1> QED
    BY <1>1, <1>2, <1>3, <1>4

(* A frame that is whole and fits is that of the talk, and dealing with it *)
(* leaves the invariant as it is.                                          *)
LEMMA WholeIsTaken ==
    ASSUME FramesInv, Whole, Len(buf) < InboundCap,
           header.opcode \notin {Continuation, Binary, Close}
    PROVE  /\ Taken(buf, talk[Len(did) + 1])
           /\ total = Len(Bytes(talk[Len(did) + 1]))
           /\ payload = talk[Len(did) + 1].payload
           /\ header.opcode = talk[Len(did) + 1].opcode
  <1> DEFINE f == talk[Len(did) + 1]
  <1>1. parseHeader(buf) = "ok" /\ pc = "drain"
    BY DEF Whole
  <1>2. f \in Frames /\ Agrees(buf, f)
    BY <1>1, FrameIsNext
  <1>3. IsFrame(f) /\ (WholeFrame(f) \/ Announced(f.size) >= InboundCap)
    BY <1>2, FramesAre
  <1> HIDE DEF f
  <1>4. /\ FrameHeader(buf).masked
        /\ FrameHeader(buf).payloadLen <= InboundCap - FrameHeader(buf).headerLen
        /\ Len(buf) >= FrameHeader(buf).headerLen + FrameHeader(buf).payloadLen
        /\ FrameHeader(buf).opcode \notin {Continuation, Binary, Close}
    BY DEF Whole, FrameFits, header, total
  <1>5. InboundCap \in Nat
    BY ConstantsAssumption DEF ConstantsAssumption
  <1>6. Taken(buf, f)
    BY <1>1, <1>2, <1>3, <1>4, <1>5, TakenIsFormed
  <1> QED
    BY <1>6 DEF Taken, header, total, payload, f

LEMMA FrameDone ==
    ASSUME FramesInv, Whole, Len(buf) < InboundCap,
           header.opcode \notin {Continuation, Binary, Close},
           NEW made, Right(talk[Len(did) + 1], made), did' = Append(did, made), Shift,
           UNCHANGED <<pc, talk, inbox, gone, closed>>
    PROVE  FramesInv'
  <1> DEFINE f == talk[Len(did) + 1]
  <1>1. pc = "drain" /\ parseHeader(buf) = "ok"
    BY DEF Whole
  <1>2. /\ Stream(talk, Len(did), buf, inbox, gone) /\ Done(talk, did) /\ closed = <<>>
        /\ Len(did) < Len(talk)
    BY <1>1, FrameIsNext
  <1>3. Formed(f) /\ total = Len(Bytes(f))
    BY WholeIsTaken DEF Taken
  <1>4. Done(talk, did') /\ Len(did') = Len(did) + 1
    BY <1>2, <1>3, DoneAppend
  <1>5. total <= Len(buf)
    <2>1. Len(buf) >= total
      BY DEF Whole
    <2>2. Len(buf) \in Nat /\ total \in Nat
      BY <1>1, <1>2, <1>3, FrameIsNext, FramesAre, ElementsAre, StreamLens
    <2> QED
      BY <2>1, <2>2
  <1>6. buf' = SubSeq(buf, total + 1, Len(buf))
    BY DEF Shift
  <1> HIDE DEF f
  <1>7. Stream(talk, Len(did) + 1, SubSeq(buf, total + 1, Len(buf)), inbox, gone)
    BY <1>2, <1>3, <1>5, StreamMoves DEF f
  <1>8. Stream(talk, Len(did'), buf', inbox, gone)
    BY <1>4, <1>6, <1>7
  <1> QED
    BY <1>1, <1>2, <1>4, <1>8 DEF FramesInv

(* Every step keeps it.                                                    *)
LEMMA FramesStep ==
    ASSUME FramesInv, Len(buf) < InboundCap, [Next]_vars
    PROVE  FramesInv'
  <1>0. InboundCap \in Nat
    BY ConstantsAssumption DEF ConstantsAssumption
  <1>1. ASSUME NEW n \in 0..Len(inbox), Poll(n) PROVE FramesInv'
    <2>1. /\ pc = "open" /\ UNCHANGED <<talk, did, gone>>
          /\ inbox' = SubSeq(inbox, n + 1, Len(inbox))
      BY <1>1 DEF Poll
    <2>2. Stream(talk, Len(did), buf, inbox, gone) /\ Done(talk, did) /\ closed = <<>>
      BY <2>1 DEF FramesInv
    <2>3. Stream(talk, Len(did), buf \o SubSeq(inbox, 1, n), inbox', gone)
      BY <2>1, <2>2, StreamPolled
    <2>4. CASE Full(Len(buf) + n)
      <3>1. pc' = "done" /\ CloseCode(closed') = TooBig
        BY <1>1, <2>4, CodesAre DEF Poll, closeConnection
      <3>2. ~gone => Len(Sent(talk)) - Len(inbox') - Len(SentTo(talk, Len(did))) >= InboundCap
        <4> DEFINE p == Len(SentTo(talk, Len(did)))  m == Len(Sent(talk))
        <4>1. /\ p \in Nat /\ m \in Nat /\ Len(buf) \in Nat /\ Len(inbox) \in Nat
              /\ (~gone => p + Len(buf) + Len(inbox) = m) /\ inbox \in Seq(Byte)
          BY <2>2, StreamLens DEF Stream
        <4>2. Len(inbox') = Len(inbox) - n
          BY <2>1, <4>1
        <4>3. Len(buf) + n >= InboundCap
          BY <2>4 DEF Full
        <4> HIDE DEF p, m
        <4>4. ~gone => m - Len(inbox') - p >= InboundCap
          BY <1>0, <4>1, <4>2, <4>3
        <4> QED
          BY <4>4 DEF p, m
      <3> QED
        BY <2>1, <3>1, <3>2, Ends
    <2>5. CASE ~Full(Len(buf) + n)
      <3>1. pc' = "drain" /\ closed' = closed /\ buf' = buf \o SubSeq(inbox, 1, n)
        BY <1>1, <2>5 DEF Poll
      <3> QED
        BY <2>1, <2>2, <2>3, <3>1 DEF FramesInv
    <2> QED
      BY <2>4, <2>5
  <1>2. CASE PollFindsGone \/ BroadcastFails
    <2>1. pc = "open" /\ pc' = "done" /\ UNCHANGED <<talk, did, gone, closed>>
      BY <1>2 DEF PollFindsGone, BroadcastFails
    <2>2. CloseCode(closed') \notin {ProtocolError, TooBig}
      BY <2>1, CodesAre DEF FramesInv
    <2> QED
      BY <2>1, <2>2, Ends
  <1>3. CASE FrameWaits
    <2>1. pc = "drain" /\ pc' = "open" /\ UNCHANGED <<talk, did, gone, closed, buf, inbox>>
      BY <1>3 DEF FrameWaits, hub
    <2> QED
      BY <2>1 DEF FramesInv
  <1>4. CASE FrameRefused
    <2>1. pc = "drain" /\ pc' = "done" /\ UNCHANGED <<talk, did, gone, inbox>>
      BY <1>4 DEF FrameRefused, closeConnection
    <2>2. parseHeader(buf) # "incomplete"
      BY <1>4 DEF FrameRefused
    <2> DEFINE f == talk[Len(did) + 1]
    <2>3. Len(did) < Len(talk) /\ f \in Frames /\ Agrees(buf, f) /\ Len(buf) >= 2
      BY <2>1, <2>2, FrameIsNext
    <2>4. IsFrame(f)
      BY <2>3, FramesAre
    <2> HIDE DEF f
    <2>5. InboundCap <= FarTooLong
      BY ConstantsAssumption DEF ConstantsAssumption
    <2>6. ASSUME Formed(f)
          PROVE  /\ parseHeader(buf) \in {"ok", "incomplete"}
                 /\ parseHeader(buf) = "ok" =>
                      /\ FrameHeader(buf).masked
                      /\ FrameHeader(buf).payloadLen <= InboundCap - FrameHeader(buf).headerLen
      BY <1>0, <2>3, <2>4, <2>5, <2>6, FormedIsTaken
    <2>7. ~Formed(f)
      BY <1>4, <2>6 DEF FrameRefused, FrameFits, header
    <2> QED
      BY <2>1, <2>3, <2>7, Ends DEF f
  <1>5. CASE FrameText
    <2>1. /\ Whole /\ header.opcode = Text /\ Shift /\ did' = Append(did, <<"text", payload>>)
          /\ UNCHANGED <<pc, talk, inbox, gone, closed>>
      BY <1>5 DEF FrameText, Did
    <2>2. header.opcode \notin {Continuation, Binary, Close}
      BY <2>1 DEF Text, Continuation, Binary, Close
    <2>3. /\ payload = talk[Len(did) + 1].payload /\ talk[Len(did) + 1].opcode = Text
      BY <2>1, <2>2, WholeIsTaken
    <2>4. Kind(talk[Len(did) + 1]) = "text"
      BY <2>3 DEF Kind, Text, Ping
    <2>5. Right(talk[Len(did) + 1], <<"text", payload>>)
      BY <2>3, <2>4 DEF Right
    <2> QED
      BY <2>1, <2>2, <2>5, FrameDone
  <1>6. CASE FramePing
    <2> DEFINE f == talk[Len(did) + 1]
    <2>1. /\ Whole /\ header.opcode = Ping /\ Shift
          /\ did' = Append(did, <<"pong", encodePong(payload)>>)
          /\ UNCHANGED <<pc, talk, inbox, gone, closed>>
      BY <1>6 DEF FramePing
    <2>2. header.opcode \notin {Continuation, Binary, Close}
      BY <2>1 DEF Ping, Continuation, Binary, Close
    <2>3. payload = f.payload /\ f.opcode = Ping /\ Formed(f)
      BY <2>1, <2>2, WholeIsTaken DEF Taken
    <2>4. f \in Frames
      BY <2>1, FrameIsNext DEF Whole
    <2> HIDE DEF f
    <2>5. f.payload \in Seq(Byte) /\ Len(f.payload) <= 125
      BY <2>3, <2>4, FramesAre DEF Formed, IsFrame, Ping
    <2>6. PICK m \in 0..125 : m = Len(f.payload)
      <3>1. PICK m \in Nat : m = Len(f.payload)
        BY <2>5, ElementsAre
      <3>2. m <= 125
        BY <2>5, <3>1
      <3>3. m \in 0..125
        BY <3>2
      <3> QED
        BY <3>1, <3>3
    <2>7. /\ parseHeader(encodePong(f.payload)) = "ok"
          /\ FrameHeader(encodePong(f.payload)).opcode = Pong
          /\ SubSeq(encodePong(f.payload), HeaderLen(encodePong(f.payload)) + 1,
                    Len(encodePong(f.payload))) = f.payload
      BY <2>5, <2>6, PongIs
    <2>8. Kind(f) = "pong"
      BY <2>3 DEF Kind, Ping, Text
    <2>9. Right(f, <<"pong", encodePong(payload)>>)
      BY <2>3, <2>7, <2>8 DEF Right
    <2> QED
      BY <2>1, <2>2, <2>9, FrameDone DEF f
  <1>7. CASE FramePassed
    <2>1. /\ Whole /\ header.opcode \notin {Continuation, Text, Binary, Close, Ping} /\ Shift
          /\ did' = Append(did, <<"nothing", payload>>)
          /\ UNCHANGED <<pc, talk, inbox, gone, closed>>
      BY <1>7 DEF FramePassed, Did
    <2>2. header.opcode \notin {Continuation, Binary, Close}
      BY <2>1
    <2>3. /\ payload = talk[Len(did) + 1].payload
          /\ talk[Len(did) + 1].opcode \notin {Text, Ping}
      BY <2>1, <2>2, WholeIsTaken
    <2>4. Right(talk[Len(did) + 1], <<"nothing", payload>>)
      BY <2>3 DEF Right, Kind
    <2> QED
      BY <2>1, <2>2, <2>4, FrameDone
  <1>8. CASE FrameEnds
    <2> DEFINE f == talk[Len(did) + 1]
    <2>1. pc = "drain" /\ pc' = "done" /\ UNCHANGED <<talk, did, gone, inbox>>
          /\ parseHeader(buf) = "ok"
      BY <1>8 DEF FrameEnds, Whole, closeConnection
    <2>2. CASE header.opcode = Close /\ closeConnection(Normal)
      <3>1. CloseCode(closed') \notin {ProtocolError, TooBig}
        BY <2>2, CodesAre DEF closeConnection
      <3> QED
        BY <2>1, <3>1, Ends
    <2>3. CASE header.opcode \in {Continuation, Binary}
      <3>1. Len(did) < Len(talk) /\ f \in Frames /\ Agrees(buf, f) /\ Len(buf) >= 2
        BY <2>1, FrameIsNext
      <3>2. IsFrame(f) /\ InboundCap <= FarTooLong
        BY <3>1, FramesAre, ConstantsAssumption DEF ConstantsAssumption
      <3> HIDE DEF f
      <3>3. Formed(f) => FrameHeader(buf).opcode \notin {Continuation, Binary, Close}
        BY <1>0, <2>1, <3>1, <3>2, FormedIsTaken
      <3>4. ~Formed(f)
        BY <2>3, <3>3 DEF header
      <3> QED
        BY <2>1, <3>1, <3>4, Ends DEF f
    <2> QED
      BY <1>8, <2>2, <2>3 DEF FrameEnds
  <1>9. ASSUME NEW f \in Frames, PeerSends(f) PROVE FramesInv'
    <2>1. /\ pc \in {"open", "drain"} /\ ~gone /\ UNCHANGED <<pc, gone, buf, did, closed>>
          /\ talk' = Append(talk, f) /\ inbox' = inbox \o Bytes(f)
      BY <1>9 DEF PeerSends
    <2>2. /\ Stream(talk, Len(did), buf, inbox, gone) /\ Done(talk, did) /\ closed = <<>>
          /\ gone \in BOOLEAN /\ gone = FALSE
      BY <2>1 DEF FramesInv
    <2>3. Stream(talk', Len(did), buf, inbox', FALSE)
      BY <2>1, <2>2, StreamSends
    <2>4. Done(talk', did)
      BY <2>1, <2>2, DoneSends
    <2> QED
      BY <2>1, <2>2, <2>3, <2>4 DEF FramesInv
  <1>10. CASE PeerCloses
    <2>1. /\ pc # "done" /\ gone' = TRUE /\ UNCHANGED <<pc, talk, buf, did, closed>>
          /\ inbox' = inbox \/ inbox' = <<>>
      BY <1>10 DEF PeerCloses
    <2>2. CASE pc \in {"open", "drain"}
      <3>1. Stream(talk, Len(did), buf, inbox, gone) /\ Done(talk, did) /\ closed = <<>>
        BY <2>2 DEF FramesInv
      <3>2. Stream(talk, Len(did), buf, inbox', TRUE)
        BY <2>1, <3>1, StreamCloses
      <3> QED
        BY <2>1, <2>2, <3>1, <3>2 DEF FramesInv
    <2>3. CASE pc \notin {"open", "drain"}
      BY <2>1, <2>3 DEF FramesInv
    <2> QED
      BY <2>2, <2>3
  <1>11. CASE /\ pc \notin {"open", "drain", "done"}
              /\ UNCHANGED <<talk, inbox, buf, did, closed, gone>>
    <2>1. /\ talk = <<>> /\ inbox = <<>> /\ buf = <<>> /\ did = <<>> /\ closed = <<>>
          /\ gone \in BOOLEAN
      BY <1>11 DEF FramesInv
    <2>2. Stream(<<>>, Len(<<>>), <<>>, <<>>, gone) /\ Done(<<>>, <<>>)
          /\ Heeded(<<>>, <<>>, <<>>, <<>>, gone)
      BY NothingIsFine
    <2> QED
      BY <1>11, <2>1, <2>2 DEF FramesInv
  <1>12. CASE Finish
    BY <1>12 DEF Finish, FramesInv
  <1>13. CASE UNCHANGED <<pc, talk, inbox, buf, did, closed, gone>>
    BY <1>13 DEF FramesInv
  <1>14. CASE Reads \/ FindRoute \/ Handle \/ UpgradeRefused \/ Upgraded
    <2>1. UNCHANGED <<talk, inbox, buf, did, closed, gone>>
      BY <1>14 DEF Reads, ReadChar, RequestLineRead, HeaderRead, HeadersEnd, BodyChar, LineWaits,
                   LineGivesUp, BodyWaits, BodyGivesUp, Drain, Fail, FindRoute, Handle,
                   UpgradeRefused, Upgraded, hub
    <2>2. pc \notin {"open", "drain", "done"}
      BY <1>14 DEF Reads, ReadChar, RequestLineRead, HeaderRead, HeadersEnd, BodyChar, LineWaits,
                   LineGivesUp, BodyWaits, BodyGivesUp, Drain, FindRoute, Handle,
                   UpgradeRefused, Upgraded, Upgrading, LineRead, Reading
    <2> QED
      BY <1>11, <2>1, <2>2
  <1>15. ASSUME NEW s \in Scripts, Accept(s) PROVE FramesInv'
    BY <1>11, <1>15 DEF Accept, hub
  <1>16. CASE Between \/ Relisten \/ ClockComes \/ Radio
    BY <1>13, <1>16 DEF Between, Relisten, ClockComes, Radio, hub
  <1>17. CASE UNCHANGED vars
    BY <1>13, <1>17 DEF vars, hub
  <1> QED
    BY <1>1, <1>2, <1>3, <1>4, <1>5, <1>6, <1>7, <1>8, <1>9, <1>10, <1>12, <1>14, <1>15, <1>16,
       <1>17 DEF Next, Serves, Listens

------------------------------------------------------------------------------
USE ConstantsAssumption DEF ConstantsAssumption
USE DEF http, hub, env, link, vars

------------------------------------------------------------------------------
(* Every socket the server holds is its listener or the one connection.    *)

LEMMA HeldIsNat == \A l : Held(l) \in {0, 1}
  BY DEF Held

LEMMA BetweenLeaks ==
    ASSUME NoSocketLeaks, pc = "idle", pc' = "idle",
           \/ openListenSocket
           \/ UNCHANGED <<listening, fds>>
           \/ AcceptFails
           \/ Wedges
    PROVE  NoSocketLeaks'
  <1>1. CASE openListenSocket
    BY <1>1, HeldIsNat DEF NoSocketLeaks, openListenSocket
  <1>2. CASE UNCHANGED <<listening, fds>>
    BY <1>2 DEF NoSocketLeaks
  <1>3. CASE AcceptFails
    BY <1>3, HeldIsNat DEF NoSocketLeaks, AcceptFails, ClosesIt
  <1>4. CASE Wedges
    BY <1>4 DEF NoSocketLeaks, Wedges, Held
  <1> QED
    BY <1>1, <1>2, <1>3, <1>4

LEMMA LeakStep ==
    ASSUME NoSocketLeaks, [Next]_vars
    PROVE  NoSocketLeaks'
  <1>1. ASSUME NEW s \in Scripts, Accept(s) PROVE NoSocketLeaks'
    BY <1>1, HeldIsNat DEF NoSocketLeaks, Accept, acceptClient
  <1>2. CASE Between \/ Relisten \/ Radio
    BY <1>2, BetweenLeaks DEF Between, maintain, Relisten, Recycle, Radio, LinkChanges
  <1>3. CASE Finish
    BY <1>3, HeldIsNat DEF NoSocketLeaks, Finish, Closes, ClosesIt
  <1>4. CASE UNCHANGED link /\ (pc = "idle" <=> pc' = "idle")
    BY <1>4, HeldIsNat DEF NoSocketLeaks
  <1>5. CASE Reads
    <2>1. UNCHANGED link
      BY <1>5 DEF Reads, ReadChar, RequestLineRead, HeaderRead, HeadersEnd, BodyChar, LineWaits,
                  LineGivesUp, BodyWaits, BodyGivesUp, Drain, Fail
    <2>2. pc # "idle" /\ pc' # "idle"
      BY <1>5 DEF Reads, ReadChar, RequestLineRead, HeaderRead, HeadersEnd, BodyChar, LineWaits,
                  LineGivesUp, BodyWaits, BodyGivesUp, Drain, Fail, Answer, Reading
    <2> QED
      BY <1>4, <2>1, <2>2
  <1>6. CASE FindRoute \/ Handle \/ UpgradeRefused \/ Upgraded
    <2>1. UNCHANGED link
      BY <1>6 DEF FindRoute, Handle, UpgradeRefused, Upgraded
    <2>2. pc # "idle" /\ pc' # "idle"
      BY <1>6 DEF FindRoute, Handle, UpgradeRefused, Upgraded, Upgrading, Answer, Runs
    <2> QED
      BY <1>4, <2>1, <2>2
  <1>7. CASE Listens
    <2>1. UNCHANGED link
      BY <1>7 DEF Listens, Poll, PollFindsGone, FrameWaits, FrameRefused, FrameText, FramePing,
                  FramePassed, FrameEnds, BroadcastFails
    <2>2. pc # "idle" /\ pc' # "idle"
      BY <1>7 DEF Listens, Poll, PollFindsGone, FrameWaits, FrameRefused, FrameText, FramePing,
                  FramePassed, FrameEnds, BroadcastFails, Whole, closeConnection
    <2> QED
      BY <1>4, <2>1, <2>2
  <1>8. ASSUME NEW f \in Frames, PeerSends(f) PROVE NoSocketLeaks'
    BY <1>4, <1>8 DEF PeerSends
  <1>9. CASE PeerCloses \/ ClockComes \/ UNCHANGED vars
    BY <1>4, <1>9 DEF PeerCloses, ClockComes
  <1> QED
    BY <1>1, <1>2, <1>3, <1>5, <1>6, <1>7, <1>8, <1>9 DEF Next, Serves

------------------------------------------------------------------------------
(* How long a peer stays: a timeout for every line it has ended, what it   *)
(* has waited in this one, and in the body also a tick for every byte.     *)

LEMMA AppendedIs ==
    ASSUME NEW s, Sequence(s), NEW e
    PROVE  Sequence(Append(s, e)) /\ Len(Append(s, e)) = Len(s) + 1 /\ Len(s) \in Nat
  <1>1. PICK S : s \in Seq(S)
    BY DEF Sequence
  <1>2. s \in Seq(S \cup {e})
    BY <1>1
  <1> QED
    BY <1>2 DEF Sequence

Lines(n) == n * ReadTimeout

LEMMA LinesAre ==
    ASSUME NEW n \in Nat
    PROVE  /\ Lines(n) \in Nat
           /\ Lines(n + 1) = Lines(n) + ReadTimeout
           /\ n <= MaxHeaders + 1 => Lines(n) <= Lines(MaxHeaders + 1)
  <1>1. ReadTimeout \in Nat
    OBVIOUS
  <1>2. n * ReadTimeout \in Nat /\ (n + 1) * ReadTimeout = n * ReadTimeout + ReadTimeout
    BY <1>1
  <1>3. ASSUME n <= MaxHeaders + 1 PROVE n * ReadTimeout <= (MaxHeaders + 1) * ReadTimeout
    BY <1>1, <1>3
  <1> QED
    BY <1>2, <1>3 DEF Lines

(* What the reader of headers keeps of a request, as far as it is counted. *)
Empty(r) ==
    /\ r.length \in Nat /\ r.body = <<>>
    /\ DOMAIN r = DOMAIN NoRequest

LEMMA NoRequestIsEmpty == Empty(NoRequest)
  BY DEF Empty, NoRequest

LEMMA FieldKeepsEmpty ==
    ASSUME NEW r, Empty(r), NEW v
    PROVE  /\ Empty([r EXCEPT !.method = v])
           /\ Empty([r EXCEPT !.target = v])
           /\ Empty([r EXCEPT !.authorization = v])
           /\ Empty([r EXCEPT !.key = v])
           /\ v \in Nat => Empty([r EXCEPT !.length = v])
  <1>1. DOMAIN r = {"method", "target", "authorization", "key", "length", "body"}
    BY DEF Empty, NoRequest
  <1> QED
    BY <1>1 DEF Empty

LEMMA RequestLineIsEmpty ==
    ASSUME NEW text
    PROVE  Empty(RequestLine(text).request)
  <1>1. ASSUME NEW m, NEW t
        PROVE  Empty([NoRequest EXCEPT !.method = m, !.target = t])
    <2>1. Empty([[NoRequest EXCEPT !.method = m] EXCEPT !.target = t])
      BY NoRequestIsEmpty, FieldKeepsEmpty
    <2> QED
      BY <2>1
  <1> QED
    BY <1>1, NoRequestIsEmpty DEF RequestLine

LEMMA HeaderKeepsEmpty ==
    ASSUME NEW r, Empty(r), NEW text, NEW long
    PROVE  Empty(Header(r, text, long).request)
  <1> DEFINE plain == [status |-> "ok", request |-> r]
             value == HeaderValue(text)
             number == Number(value, LengthLimit)
  <1>1. plain.request = r
    OBVIOUS
  <1>2. ASSUME NEW v
        PROVE  /\ [plain EXCEPT !.request.authorization = v].request = [r EXCEPT !.authorization = v]
               /\ [plain EXCEPT !.request.key = v].request = [r EXCEPT !.key = v]
               /\ [plain EXCEPT !.request.length = v].request = [r EXCEPT !.length = v]
               /\ [plain EXCEPT !.status = v].request = r
    OBVIOUS
  <1> HIDE DEF plain, value, number
  <1>3. \/ Header(r, text, long) = plain
        \/ Header(r, text, long) = [plain EXCEPT !.request.authorization = value]
        \/ Header(r, text, long) = [plain EXCEPT !.request.key = value]
        \/ number \in Nat /\ Header(r, text, long) = [plain EXCEPT !.request.length = number]
        \/ Header(r, text, long) = [plain EXCEPT !.status = "malformed"]
        \/ Header(r, text, long) = [plain EXCEPT !.status = "body_too_large"]
    <2> DEFINE taken == CASE number \in Nat      -> [plain EXCEPT !.request.length = number]
                          [] number = NotANumber -> [plain EXCEPT !.status = "malformed"]
                          [] OTHER               -> [plain EXCEPT !.status = "body_too_large"]
    <2>1. Header(r, text, long) =
            IF long THEN plain
            ELSE IF Named(text, "authorization") /\ Fits(value, AuthorizationCap)
               THEN [plain EXCEPT !.request.authorization = value]
            ELSE IF Named(text, "sec-websocket-key") /\ Fits(value, KeyCap)
               THEN [plain EXCEPT !.request.key = value]
            ELSE IF Named(text, "content-length") THEN taken
            ELSE plain
      BY DEF Header, plain, value, number
    <2>2. \/ number \in Nat /\ taken = [plain EXCEPT !.request.length = number]
          \/ taken = [plain EXCEPT !.status = "malformed"]
          \/ taken = [plain EXCEPT !.status = "body_too_large"]
      <3>1. number \in Nat => number # NotANumber
        BY DEF NotANumber
      <3> QED
        BY <3>1
    <2> HIDE DEF taken
    <2> QED
      BY <2>1, <2>2
  <1>4. ASSUME NEW q, Empty(q), Header(r, text, long).request = q
        PROVE  Empty(Header(r, text, long).request)
    BY <1>4
  <1>5. /\ Empty([r EXCEPT !.authorization = value])
        /\ Empty([r EXCEPT !.key = value])
        /\ number \in Nat => Empty([r EXCEPT !.length = number])
    BY FieldKeepsEmpty
  <1>6. CASE Header(r, text, long) = [plain EXCEPT !.request.authorization = value]
    BY <1>2, <1>4, <1>5, <1>6
  <1>7. CASE Header(r, text, long) = [plain EXCEPT !.request.key = value]
    BY <1>2, <1>4, <1>5, <1>7
  <1>8. CASE number \in Nat /\ Header(r, text, long) = [plain EXCEPT !.request.length = number]
    BY <1>2, <1>4, <1>5, <1>8
  <1>9. CASE \/ Header(r, text, long) = plain
             \/ Header(r, text, long) = [plain EXCEPT !.status = "malformed"]
             \/ Header(r, text, long) = [plain EXCEPT !.status = "body_too_large"]
    <2>1. Header(r, text, long).request = r
      BY <1>1, <1>2, <1>9
    <2> QED
      BY <2>1
  <1> QED
    BY <1>3, <1>6, <1>7, <1>8, <1>9

Counted ==
    /\ stay \in Nat /\ waited \in 0..ReadTimeout /\ stay <= LongestStay
    /\ pc \in {"idle", "line"} => count = 0
    /\ pc \in {"idle", "line", "headers"} =>
         Empty(request) /\ count \in 0..MaxHeaders /\ stay <= Lines(count) + waited
    /\ pc = "body" =>
         /\ "body" \in DOMAIN request /\ "length" \in DOMAIN request
         /\ request.length \in 0..BodyCap
         /\ Sequence(request.body) /\ Len(request.body) \in 0..request.length
         /\ stay <= Lines(MaxHeaders + 1) + waited + Len(request.body)

LEMMA LongestIs ==
    /\ Lines(MaxHeaders + 1) \in Nat /\ LongestStay \in Nat
    /\ LongestStay = Lines(MaxHeaders + 1) + ReadTimeout + BodyCap + DrainTimeout
  <1>1. MaxHeaders + 1 \in Nat
    OBVIOUS
  <1> QED
    BY <1>1, LinesAre DEF LongestStay, Lines

LEMMA WithinLongest ==
    ASSUME NEW a \in Nat, NEW l \in Nat, NEW w \in 0..ReadTimeout, NEW b \in 0..BodyCap,
           l <= Lines(MaxHeaders + 1), a <= l + w + b
    PROVE  a <= LongestStay
  <1> DEFINE k == Lines(MaxHeaders + 1)  m == LongestStay
  <1>1. k \in Nat /\ m = k + ReadTimeout + BodyCap + DrainTimeout
    BY LongestIs
  <1>2. l <= k
    OBVIOUS
  <1> HIDE DEF k, m
  <1>3. ReadTimeout \in Nat /\ BodyCap \in Nat /\ DrainTimeout \in Nat
    OBVIOUS
  <1>4. a <= m
    BY <1>1, <1>2, <1>3
  <1> QED
    BY <1>4 DEF m

LEMMA StaysIs ==
    ASSUME stay \in Nat, NEW t \in Nat, Stays(t)
    PROVE  stay' \in Nat /\ stay' <= stay + t
  BY LongestIs DEF Stays, UpTo

LEMMA WaitsIs ==
    ASSUME waited \in 0..ReadTimeout, waited < ReadTimeout, Waits
    PROVE  waited' = waited + 1
  <1> DEFINE n == waited + 1  m == ReadTimeout + 1
  <1>1. n \in Nat /\ m \in Nat \ {0} /\ n < m
    OBVIOUS
  <1> HIDE DEF n, m
  <1>2. n % m = n
    BY <1>1
  <1> QED
    BY <1>2 DEF Waits, n, m

LEMMA TakesIs ==
    ASSUME waited \in 0..ReadTimeout, NEW t \in 0..1, Takes(t)
    PROVE  /\ waited' \in 0..ReadTimeout
           /\ waited < ReadTimeout => waited' = waited + t
           /\ waited' >= waited
  BY DEF Takes, UpTo

LEMMA OneMore ==
    ASSUME NEW a \in Nat, NEW w \in Nat, NEW w2 \in Nat, NEW n \in Nat, NEW u \in Nat,
           NEW u2 \in Nat, NEW t \in 0..1, u <= a + w + n, w <= w2, u2 <= u + t
    PROVE  u2 <= a + w2 + (n + 1)
  OBVIOUS

LEMMA CountedStep ==
    ASSUME Counted, [Next]_vars
    PROVE  Counted'
  <1>0. /\ stay \in Nat /\ waited \in 0..ReadTimeout /\ stay <= LongestStay
        /\ ReadTimeout \in Nat \ {0} /\ MaxHeaders \in Nat /\ BodyCap \in Nat
        /\ DrainTimeout \in Nat
    BY DEF Counted
  <1>a. ASSUME stay' \in Nat, stay' <= LongestStay, waited' \in 0..ReadTimeout,
               pc' \notin {"idle", "line", "headers", "body"}
        PROVE  Counted'
    BY <1>a DEF Counted
  <1>b. ASSUME Reading PROVE /\ Empty(request) /\ count \in 0..MaxHeaders
                             /\ Lines(count) \in Nat /\ stay <= Lines(count) + waited
                             /\ Lines(count + 1) = Lines(count) + ReadTimeout
                             /\ Lines(count + 1) \in Nat
                             /\ Lines(count + 1) <= Lines(MaxHeaders + 1)
                             /\ Lines(count) <= Lines(MaxHeaders + 1)
    <2>1. Empty(request) /\ count \in 0..MaxHeaders /\ stay <= Lines(count) + waited
      BY <1>b DEF Counted, Reading
    <2>2. count \in Nat /\ count + 1 \in Nat /\ count + 1 <= MaxHeaders + 1
      BY <2>1
    <2> QED
      BY <2>1, <2>2, LinesAre, <1>0
  <1>c. ASSUME NEW t \in 0..1, LineRead(t), NextLine
        PROVE  /\ waited' = 0 /\ count' = count + 1 /\ stay' \in Nat
               /\ stay' <= Lines(count') /\ stay' <= LongestStay
    <2>1. stay' \in Nat /\ stay' <= stay + t
      BY <1>0, <1>c, StaysIs DEF LineRead
    <2>2. waited < ReadTimeout /\ waited' = 0 /\ count' = count + 1
      BY <1>c DEF LineRead, InTime, NextLine
    <2>3. stay' <= Lines(count + 1)
      BY <1>0, <1>b, <1>c, <2>1, <2>2 DEF LineRead
    <2>4. Lines(count + 1) \in Nat /\ Lines(count + 1) <= Lines(MaxHeaders + 1)
      BY <1>b, <1>c DEF LineRead
    <2>5. stay' <= Lines(count + 1) + 0 + 0 /\ 0 \in 0..ReadTimeout /\ 0 \in 0..BodyCap
      BY <1>0, <2>1, <2>3, <2>4
    <2>6. stay' <= LongestStay
      BY <2>1, <2>4, <2>5, WithinLongest
    <2> QED
      BY <2>1, <2>2, <2>3, <2>6
  <1>1. ASSUME NEW t \in 0..1, ReadChar(t) PROVE Counted'
    <2>1. /\ Reading /\ waited < ReadTimeout /\ Takes(t) /\ UNCHANGED <<pc, request, count>>
      BY <1>1 DEF ReadChar, InTime, TakesForLine
    <2>2. stay' \in Nat /\ stay' <= stay + t /\ waited' = waited + t /\ waited' \in 0..ReadTimeout
      BY <1>0, <2>1, StaysIs, TakesIs DEF Takes
    <2>3. stay' <= Lines(count) + waited'
      BY <1>0, <1>b, <2>1, <2>2
    <2>4. Lines(count) \in Nat /\ Lines(count) <= Lines(MaxHeaders + 1) /\ 0 \in 0..BodyCap
      BY <1>0, <1>b, <2>1
    <2>5. stay' <= Lines(count) + waited' + 0
      BY <2>2, <2>3, <2>4
    <2>6. stay' <= LongestStay
      BY <2>2, <2>4, <2>5, WithinLongest
    <2> QED
      BY <2>1, <2>2, <2>3, <2>6 DEF Counted, Reading
  <1>2. ASSUME NEW t \in 0..1, RequestLineRead(t) PROVE Counted'
    <2>1. LineRead(t) /\ NextLine /\ Empty(request')
      <3>1. Empty(NoRequest) /\ Empty(RequestLine(Stripped).request)
        BY NoRequestIsEmpty, RequestLineIsEmpty
      <3> QED
        BY <1>2, <3>1 DEF RequestLineRead
    <2>2. pc' \in {"headers", "done"}
      BY <1>2 DEF RequestLineRead, Answer
    <2>3. count = 0
      BY <1>2 DEF RequestLineRead, Counted
    <2>4. /\ waited' = 0 /\ count' = 1 /\ stay' \in Nat
          /\ stay' <= Lines(count') /\ stay' <= LongestStay
      BY <1>c, <2>1, <2>3
    <2>5. Lines(1) \in Nat /\ stay' <= Lines(1) + 0 /\ 1 \in 0..MaxHeaders
      BY <1>0, <2>4, LinesAre
    <2> QED
      BY <1>0, <2>1, <2>2, <2>4, <2>5 DEF Counted
  <1>3. ASSUME NEW t \in 0..1, HeaderRead(t) PROVE Counted'
    <2>1. LineRead(t) /\ NextLine /\ pc = "headers"
      BY <1>3 DEF HeaderRead
    <2>2. Empty(request')
      BY <1>3, <1>b, HeaderKeepsEmpty DEF HeaderRead, Reading
    <2>3. pc' = "done" \/ (pc' = "headers" /\ count + 1 <= MaxHeaders)
      BY <1>3, <1>b DEF HeaderRead, Answer, Reading
    <2>4. /\ waited' = 0 /\ count' = count + 1 /\ stay' \in Nat
          /\ stay' <= Lines(count') /\ stay' <= LongestStay
      BY <1>c, <2>1
    <2>5. count \in 0..MaxHeaders
      BY <2>1 DEF Counted
    <2>6. Lines(count + 1) \in Nat
      BY <1>b, <2>1 DEF Reading
    <2> QED
      BY <1>0, <2>2, <2>3, <2>4, <2>5, <2>6 DEF Counted
  <1>4. ASSUME NEW t \in 0..1, HeadersEnd(t) PROVE Counted'
    <2>1. LineRead(t) /\ NextLine /\ pc = "headers" /\ request' = request
      BY <1>4 DEF HeadersEnd
    <2>2. pc' = "done" \/ (pc' = "body" /\ ~(request.length > BodyCap))
      BY <1>4 DEF HeadersEnd, Answer, HeadersTaken
    <2>3. /\ waited' = 0 /\ count' = count + 1 /\ stay' \in Nat
          /\ stay' <= Lines(count') /\ stay' <= LongestStay
      BY <1>c, <2>1
    <2>4. Empty(request) /\ Lines(count + 1) <= Lines(MaxHeaders + 1) /\ Lines(count + 1) \in Nat
      BY <1>b, <2>1 DEF Reading
    <2>5. /\ "body" \in DOMAIN request /\ "length" \in DOMAIN request
          /\ request.length \in Nat /\ request.body = <<>>
      BY <2>4 DEF Empty, NoRequest
    <2>6. Sequence(<<>>) /\ Len(<<>>) = 0
      BY DEF Sequence
    <2>7. CASE pc' = "done"
      BY <1>0, <1>a, <2>3, <2>7
    <2>8. CASE pc' = "body"
      <3>1. request.length \in 0..BodyCap
        BY <1>0, <2>2, <2>5, <2>8
      <3>2. stay' <= Lines(MaxHeaders + 1) + waited' + Len(request.body)
        BY <2>3, <2>4, <2>5, <2>6, LongestIs
      <3> QED
        BY <1>0, <2>1, <2>3, <2>5, <2>6, <2>8, <3>1, <3>2 DEF Counted
    <2> QED
      BY <2>2, <2>7, <2>8
  <1>5. ASSUME NEW t \in 0..1, BodyChar(t) PROVE Counted'
    <2>1. /\ pc = "body" /\ pc' = "body" /\ Takes(t)
          /\ Len(request.body) < request.length
          /\ request' = [request EXCEPT !.body = Append(@, Head(unread))]
      BY <1>5 DEF BodyChar, Wanted
    <2>2. /\ "body" \in DOMAIN request /\ "length" \in DOMAIN request
          /\ request.length \in 0..BodyCap
          /\ Sequence(request.body) /\ Len(request.body) \in 0..request.length
          /\ stay <= Lines(MaxHeaders + 1) + waited + Len(request.body)
      BY <2>1 DEF Counted
    <2>3. /\ DOMAIN request' = DOMAIN request /\ request'.length = request.length
          /\ request'.body = Append(request.body, Head(unread))
      BY <2>1, <2>2
    <2>4. /\ Sequence(request'.body) /\ Len(request'.body) = Len(request.body) + 1
      BY <2>2, <2>3, AppendedIs
    <2>5. stay' \in Nat /\ stay' <= stay + t /\ waited' \in 0..ReadTimeout /\ waited' >= waited
      <3>1. Stays(t) /\ t \in Nat
        BY <2>1 DEF Takes
      <3>2. stay' \in Nat /\ stay' <= stay + t
        BY ONLY <1>0, <3>1, StaysIs
      <3>3. waited' \in 0..ReadTimeout /\ waited' >= waited
        BY ONLY <1>0, <2>1, TakesIs, t \in 0..1
      <3> QED
        BY <3>2, <3>3
    <2>6. /\ stay' <= Lines(MaxHeaders + 1) + waited' + Len(request'.body)
          /\ Len(request'.body) \in 0..request.length
      <3> DEFINE a == Lines(MaxHeaders + 1)  n == Len(request.body)  m == Len(request'.body)
      <3>1. a \in Nat /\ n \in 0..request.length /\ n < request.length /\ m = n + 1
        BY <2>1, <2>2, <2>4, LongestIs
      <3>2. stay <= a + waited + n /\ request.length \in Nat
        BY <1>0, <2>2
      <3> HIDE DEF a, n, m
      <3>3. m \in 0..request.length
        BY <3>1, <3>2
      <3>4. t \in Nat /\ t <= 1 /\ waited \in Nat /\ waited' \in Nat /\ n \in Nat
        BY <1>0, <2>5, <3>1, <3>2
      <3>5. stay' <= a + waited' + m
        BY <1>0, <2>5, <3>1, <3>2, <3>4, OneMore
      <3> QED
        BY <3>3, <3>5 DEF a, m
    <2>7. stay' <= LongestStay
      <3> DEFINE a == Lines(MaxHeaders + 1)  m == Len(request'.body)
      <3>1. m \in 0..BodyCap
        BY <1>0, <2>2, <2>6
      <3>2. a \in Nat /\ a <= Lines(MaxHeaders + 1) /\ stay' <= a + waited' + m
        BY <2>6, LongestIs
      <3> HIDE DEF a, m
      <3> QED
        BY <2>5, <3>1, <3>2, WithinLongest
    <2> QED
      BY <2>1, <2>2, <2>3, <2>4, <2>5, <2>6, <2>7 DEF Counted
  <1>6. CASE LineWaits
    <2>1. /\ Reading /\ waited < ReadTimeout /\ Waits /\ UNCHANGED <<pc, request, count>>
      BY <1>6 DEF LineWaits, InTime
    <2>2. stay' \in Nat /\ stay' <= stay + 1 /\ waited' = waited + 1 /\ waited' \in 0..ReadTimeout
      BY <1>0, <2>1, StaysIs, WaitsIs DEF Waits
    <2>3. stay' <= Lines(count) + waited'
      BY <1>0, <1>b, <2>1, <2>2
    <2>4. Lines(count) \in Nat /\ Lines(count) <= Lines(MaxHeaders + 1) /\ 0 \in 0..BodyCap
      BY <1>0, <1>b, <2>1
    <2>5. stay' <= Lines(count) + waited' + 0
      BY <2>2, <2>3, <2>4
    <2>6. stay' <= LongestStay
      BY <2>2, <2>4, <2>5, WithinLongest
    <2> QED
      BY <2>1, <2>2, <2>3, <2>6 DEF Counted, Reading
  <1>7. CASE BodyWaits
    <2>1. /\ pc = "body" /\ waited < ReadTimeout /\ Waits /\ UNCHANGED <<pc, request, count>>
      BY <1>0, <1>7 DEF BodyWaits, GivesUp
    <2>2. stay' \in Nat /\ stay' <= stay + 1 /\ waited' = waited + 1 /\ waited' \in 0..ReadTimeout
      BY <1>0, <2>1, StaysIs, WaitsIs DEF Waits
    <2>3. /\ request.length \in 0..BodyCap /\ Len(request.body) \in 0..request.length
          /\ stay <= Lines(MaxHeaders + 1) + waited + Len(request.body)
      BY <2>1 DEF Counted
    <2>4. stay' <= Lines(MaxHeaders + 1) + waited' + Len(request.body)
      <3> DEFINE a == Lines(MaxHeaders + 1)  n == Len(request.body)
      <3>1. a \in Nat /\ n \in Nat /\ stay <= a + waited + n
        BY <1>0, <2>3, LongestIs
      <3> HIDE DEF a, n
      <3>2. stay' <= a + waited' + n
        BY <1>0, <2>2, <3>1
      <3> QED
        BY <3>2 DEF a, n
    <2>5. stay' <= LongestStay
      <3>1. Len(request.body) \in 0..BodyCap
        BY <1>0, <2>3
      <3> QED
        BY <2>2, <2>4, <3>1, LongestIs, WithinLongest
    <2> QED
      BY <2>1, <2>2, <2>4, <2>5 DEF Counted
  <1>8. CASE LineGivesUp \/ BodyGivesUp
    BY <1>0, <1>8, <1>a DEF LineGivesUp, BodyGivesUp, Fail, Answer
  <1>9. ASSUME NEW n \in 0..Len(unread), NEW t \in 0..DrainTimeout, Drain(n, t)
        PROVE  Counted'
    <2>1. pc = "body" /\ pc' = "route" /\ Stays(t) /\ waited' = waited
      BY <1>9 DEF Drain
    <2>2. stay' \in Nat /\ stay' <= stay + t
      BY <1>0, <2>1, StaysIs
    <2>3. stay <= Lines(MaxHeaders + 1) + ReadTimeout + BodyCap
      BY <1>0, <2>1, LongestIs DEF Counted
    <2> QED
      BY <1>0, <1>a, <2>1, <2>2, <2>3, LongestIs
  <1>10. CASE FindRoute \/ Handle \/ UpgradeRefused
    <2>1. pc' \in {"handle", "done"} /\ UNCHANGED <<stay, waited>>
      BY <1>10 DEF FindRoute, Handle, UpgradeRefused, Answer, Runs
    <2> QED
      BY <1>0, <1>a, <2>1
  <1>11. CASE Upgraded \/ Finish
    <2>1. /\ stay' = 0 /\ waited' = 0 /\ count' = 0 /\ Empty(request')
          /\ pc' \in {"open", "idle"}
      BY <1>11, NoRequestIsEmpty DEF Upgraded, Finish, Forgotten
    <2>2. Lines(0) \in Nat /\ 0 <= Lines(0) + 0 /\ 0 <= LongestStay
      BY LinesAre, LongestIs
    <2> QED
      BY <1>0, <2>1, <2>2 DEF Counted
  <1>12. CASE UNCHANGED http /\ (pc' = pc \/ pc' \notin {"idle", "line", "headers", "body"}
                                 \/ (pc = "idle" /\ pc' = "line"))
    BY <1>0, <1>12 DEF Counted
  <1>13. ASSUME NEW s \in Scripts, Accept(s) PROVE Counted'
    BY <1>12, <1>13 DEF Accept
  <1>14. CASE Listens
    <2>1. UNCHANGED http
      BY <1>14 DEF Listens, Poll, PollFindsGone, FrameWaits, FrameRefused, FrameText, FramePing,
                   FramePassed, FrameEnds, BroadcastFails
    <2>2. pc' = pc \/ pc' \notin {"idle", "line", "headers", "body"}
      BY <1>14 DEF Listens, Poll, PollFindsGone, FrameWaits, FrameRefused, FrameText, FramePing,
                   FramePassed, FrameEnds, BroadcastFails, closeConnection
    <2> QED
      BY <1>12, <2>1, <2>2
  <1>15. ASSUME NEW f \in Frames, PeerSends(f) PROVE Counted'
    BY <1>12, <1>15 DEF PeerSends
  <1>16. CASE Between \/ Relisten \/ PeerCloses \/ ClockComes \/ Radio \/ UNCHANGED vars
    BY <1>12, <1>16 DEF Between, Relisten, PeerCloses, ClockComes, Radio
  <1> QED
    BY <1>1, <1>2, <1>3, <1>4, <1>5, <1>6, <1>7, <1>8, <1>9, <1>10, <1>11, <1>13, <1>14, <1>15,
       <1>16 DEF Next, Serves, Reads

(* Whatever a peer sends, and however slowly, the net task is done with it *)
(* after a time that the caps and timeouts add up to, and no socket is     *)
(* lost on the way (readHttpRequest, acceptClient, finishRequest).         *)
THEOREM NextIsServedCorrect == Spec => []NextIsServed
  <1>1. Init => NoSocketLeaks
    BY DEF Init, Idle, LinkInit, NoSocketLeaks, Held
  <1>2. Init => Counted
    <2>1. Init => Empty(request) /\ pc = "idle" /\ stay = 0 /\ waited = 0 /\ count = 0
      BY NoRequestIsEmpty DEF Init, Idle
    <2> QED
      BY <2>1, LinesAre, LongestIs DEF Counted
  <1>3. NoSocketLeaks /\ Counted /\ [Next]_vars => NoSocketLeaks' /\ Counted'
    BY LeakStep, CountedStep
  <1>4. NoSocketLeaks /\ Counted => NextIsServed
    BY DEF NextIsServed, BoundedStay, Counted
  <1> QED
    BY <1>1, <1>2, <1>3, <1>4, PTL DEF Spec

------------------------------------------------------------------------------
(* What the hub writes to the buffer of a connection stays inside it.      *)

LEMMA SeqIs ==
    ASSUME NEW a \in Seq(Byte), NEW b \in Seq(Byte), NEW n \in 0..Len(b)
    PROVE  /\ a \o b \in Seq(Byte)
           /\ SubSeq(b, n + 1, Len(b)) \in Seq(Byte)
           /\ SubSeq(b, 1, n) \in Seq(Byte)
           /\ Len(SubSeq(b, n + 1, Len(b))) <= Len(b)
           /\ Len(SubSeq(b, n + 1, Len(b))) \in Nat
           /\ Len(SubSeq(b, 1, n)) = n
           /\ Len(a \o b) = Len(a) + Len(b)
  OBVIOUS

LEMMA ModIs ==
    ASSUME NEW n \in Nat
    PROVE  n % 128 \in Nat
  OBVIOUS

LEMMA WordIs ==
    ASSUME NEW a \in Nat, NEW b \in Nat
    PROVE  a * 256 + b \in Nat
  OBVIOUS

LEMMA BytesAre ==
    ASSUME NEW s \in Seq(Byte)
    PROVE  Len(s) \in Nat /\ \A i \in 1..Len(s) : s[i] \in Nat
  <1>1. \A i \in 1..Len(s) : s[i] \in Byte
    OBVIOUS
  <1>2. Byte \subseteq Nat
    BY DEF Byte
  <1>3. Len(s) \in Nat
    OBVIOUS
  <1> QED
    BY <1>1, <1>2, <1>3

(* The lengths in a header are numbers, once all of it has arrived.        *)
LEMMA TotalIs ==
    ASSUME buf \in Seq(Byte), parseHeader(buf) = "ok"
    PROVE  total \in Nat
  <1>1. Len(buf) \in Nat /\ \A i \in 1..Len(buf) : buf[i] \in Nat
    BY BytesAre
  <1>2. Extra(buf) \in {0, 2, 8}
    BY DEF Extra
  <1>3. HeaderLen(buf) \in Nat /\ HeaderLen(buf) >= 2 + Extra(buf)
    BY <1>2 DEF HeaderLen
  <1>4. Len(buf) >= 2 /\ Len(buf) >= HeaderLen(buf)
    <2>1. ~(Len(buf) < 2) /\ ~(Len(buf) < HeaderLen(buf))
      BY DEF parseHeader
    <2> QED
      BY <1>1, <1>3, <2>1
  <1>5. PayloadLen(buf) \in Nat
    <2>1. CASE Extra(buf) = 0
      <3>1. buf[2] \in Nat
        BY <1>1, <1>4
      <3> QED
        BY <2>1, <3>1, ModIs DEF PayloadLen
    <2>2. CASE Extra(buf) = 2
      <3>1. buf[3] \in Nat /\ buf[4] \in Nat
        BY <1>1, <1>3, <1>4, <2>2
      <3>2. buf[3] * 256 + buf[4] \in Nat
        BY <3>1, WordIs
      <3>3. PayloadLen(buf) = buf[3] * 256 + buf[4]
        BY <2>2 DEF PayloadLen
      <3> QED
        BY <3>2, <3>3
    <2>3. CASE Extra(buf) = 8
      <3>1. buf[8] \in Nat /\ buf[9] \in Nat /\ buf[10] \in Nat
        BY <1>1, <1>3, <1>4, <2>3
      <3>2. (buf[8] * 256 + buf[9]) * 256 + buf[10] \in Nat
        BY <3>1
      <3>3. FarTooLong \in Nat
        BY DEF FarTooLong
      <3> QED
        BY <2>3, <3>2, <3>3 DEF PayloadLen
    <2> QED
      BY <1>2, <2>1, <2>2, <2>3
  <1>6. total = HeaderLen(buf) + PayloadLen(buf)
    BY DEF total, header, FrameHeader
  <1> QED
    BY <1>3, <1>5, <1>6

Framed ==
    /\ buf \in Seq(Byte) /\ inbox \in Seq(Byte)
    /\ Len(buf) < InboundCap
    /\ written <= InboundCap

LEMMA FramedStep ==
    ASSUME Framed, [Next]_vars
    PROVE  Framed'
  <1> USE DEF Framed
  <1>0. <<>> \in Seq(Byte) /\ Len(<<>>) < InboundCap /\ 0 <= InboundCap
    OBVIOUS
  <1>1. ASSUME NEW n \in 0..Len(inbox), Poll(n) PROVE Framed'
    <2>1. inbox' \in Seq(Byte) /\ written' = written
      BY <1>1, SeqIs DEF Poll
    <2>2. CASE Full(Len(buf) + n)
      BY <1>0, <1>1, <2>1, <2>2 DEF Poll, closeConnection
    <2>3. CASE ~Full(Len(buf) + n)
      <3>1. SubSeq(inbox, 1, n) \in Seq(Byte) /\ Len(SubSeq(inbox, 1, n)) = n
        BY SeqIs
      <3>2. buf' = buf \o SubSeq(inbox, 1, n)
        BY <1>1, <2>3 DEF Poll
      <3>3. buf' \in Seq(Byte) /\ Len(buf') = Len(buf) + n /\ Len(buf) \in Nat
        BY <3>1, <3>2
      <3> QED
        BY <2>1, <2>3, <3>3 DEF Full
    <2> QED
      BY <2>2, <2>3
  <1>2. CASE Whole /\ Shift /\ inbox' = inbox /\ written' \in {written, total + 1}
    <2>1. total \in Nat /\ total <= Len(buf) /\ Len(buf) \in Nat
      BY <1>2, TotalIs DEF Whole
    <2>2. buf' \in Seq(Byte) /\ Len(buf') <= Len(buf) /\ Len(buf') \in Nat
      BY <1>2, <2>1, SeqIs DEF Shift
    <2>3. total + 1 <= InboundCap
      BY <2>1
    <2> QED
      BY <1>2, <2>1, <2>2, <2>3
  <1>3. CASE FrameText \/ FramePing \/ FramePassed
    BY <1>2, <1>3 DEF FrameText, FramePing, FramePassed
  <1>4. CASE UNCHANGED <<inbox, written>> /\ (buf' = buf \/ buf' = <<>>)
    BY <1>0, <1>4
  <1>5. CASE PollFindsGone \/ FrameWaits \/ FrameRefused \/ FrameEnds \/ BroadcastFails
    BY <1>4, <1>5 DEF PollFindsGone, FrameWaits, FrameRefused, FrameEnds, BroadcastFails,
                      closeConnection
  <1>6. CASE Reads
    BY <1>4, <1>6 DEF Reads, ReadChar, RequestLineRead, HeaderRead, HeadersEnd, BodyChar,
                      LineWaits, LineGivesUp, BodyWaits, BodyGivesUp, Drain, Fail
  <1>7. CASE FindRoute \/ Handle \/ UpgradeRefused \/ Upgraded
    BY <1>4, <1>7 DEF FindRoute, Handle, UpgradeRefused, Upgraded
  <1>8. CASE Finish
    BY <1>0, <1>8 DEF Finish
  <1>9. ASSUME NEW f \in Frames, PeerSends(f) PROVE Framed'
    <2>1. Bytes(f) \in Seq(Byte)
      BY FramesAre
    <2>2. inbox' \in Seq(Byte)
      BY <1>9, <2>1 DEF PeerSends
    <2> QED
      BY <1>9, <2>2 DEF PeerSends
  <1>10. CASE PeerCloses
    BY <1>0, <1>10 DEF PeerCloses
  <1>11. ASSUME NEW s \in Scripts, Accept(s) PROVE Framed'
    BY <1>4, <1>11 DEF Accept
  <1>12. CASE Between \/ Relisten \/ ClockComes \/ Radio \/ UNCHANGED vars
    BY <1>4, <1>12 DEF Between, Relisten, ClockComes, Radio
  <1> QED
    BY <1>1, <1>3, <1>5, <1>6, <1>7, <1>8, <1>9, <1>10, <1>11, <1>12 DEF Next, Serves, Listens

(* The terminator behind a text is inside the buffer, whatever the frames  *)
(* claim about their lengths and however their bytes arrive (WsHub::poll,  *)
(* drainFrames).                                                           *)
THEOREM TerminatorFitsCorrect == Spec => []TerminatorFits
  <1>1. Init => Framed
    BY DEF Init, Idle, Framed
  <1>2. Framed /\ [Next]_vars => Framed'
    BY FramedStep
  <1> QED
    BY <1>1, <1>2, PTL DEF Spec, Framed, TerminatorFits

(* Every frame is taken for what it is, however its bytes arrive and       *)
(* whatever comes behind it: texts reach the handler and pings are         *)
(* answered in order, each once and with what the client wrote, and the    *)
(* board closes with an error only at a frame it has to refuse, or because *)
(* its buffer is full or the peer is gone (WsHub::drainFrames).            *)
THEOREM FramesHeededCorrect == Spec => []FramesHeeded
  <1>1. Init => Framed /\ FramesInv
    <2>1. ASSUME Init PROVE Framed
      BY <2>1 DEF Init, Idle, Framed
    <2>2. ASSUME Init PROVE FramesInv
      <3>1. /\ pc = "idle" /\ talk = <<>> /\ inbox = <<>> /\ buf = <<>> /\ did = <<>>
            /\ closed = <<>> /\ gone = FALSE
        BY <2>2 DEF Init, Idle
      <3> QED
        BY <3>1 DEF FramesInv
    <2> QED
      BY <2>1, <2>2
  <1>2. ASSUME Framed, FramesInv, [Next]_vars
        PROVE  (Framed /\ FramesInv)'
    <2>1. Framed'
      BY <1>2, FramedStep
    <2>2. Len(buf) < InboundCap
      BY <1>2 DEF Framed
    <2>3. FramesInv'
      BY <1>2, <2>2, FramesStep
    <2> QED
      BY <2>1, <2>3
  <1>3. ASSUME FramesInv PROVE FramesHeeded
    <2>1. CASE pc \in {"open", "drain"}
      <3>1. Done(talk, did) /\ closed = <<>>
        BY <1>3, <2>1 DEF FramesInv
      <3>2. CloseCode(closed) \notin {ProtocolError, TooBig}
        BY <3>1, CodesAre
      <3>3. Heeded(talk, did, closed, inbox, gone)
        BY <3>1, <3>2 DEF Heeded
      <3> QED
        BY <3>3, HeededIs
    <2>2. CASE pc \notin {"open", "drain", "done"}
      <3>1. talk = <<>> /\ inbox = <<>> /\ did = <<>> /\ closed = <<>>
        BY <1>3, <2>2 DEF FramesInv
      <3>2. Heeded(talk, did, closed, inbox, gone)
        BY <3>1, NothingIsFine
      <3> QED
        BY <3>2, HeededIs
    <2>3. CASE pc = "done"
      BY <1>3, <2>3, HeededIs DEF FramesInv
    <2> QED
      BY <2>1, <2>2, <2>3
  <1> QED
    BY <1>1, <1>2, <1>3, PTL DEF Spec

------------------------------------------------------------------------------
(* A handler gets the request that was sent.  While a line is read, the    *)
(* cells kept are the first of that line of the script and what is unread  *)
(* is what comes behind; after so many lines the request is what those     *)
(* lines say, unless a header was cut; after the last it is what the whole *)
(* script says, and then the body grows by the cells of the body.          *)

(* How many cells the first k lines of a script are, each with its CR LF.  *)
Off(s, k) == Len(JoinedTo(Ended(s), k))

LastLine(s) == Len(s.lines) + 1

(* u is a piece of what the script has behind its first p cells.           *)
Rest(u, s, p) ==
    /\ u \in Seq(Cell) /\ p \in Nat /\ p + Len(u) <= Len(Cells(s))
    /\ \A i \in 1..Len(u) : u[i] = Cells(s)[p + i]

(* n cells of the k-th line have been read, those it has room for kept.    *)
SoFar(s, k, n, kept, more) ==
    /\ k \in 1..LastLine(s) /\ n \in 0..(Len(LineOf(s, k)) + 1)
    /\ kept \in Seq(Cell) /\ Len(kept) = (IF n < LineCap THEN n ELSE LineCap - 1)
    /\ more <=> n >= LineCap
    /\ \A i \in 1..Len(kept) : kept[i] = Cells(s)[Off(s, k - 1) + i]

LineInv ==
    \E n \in 0..(Len(LineOf(script, count + 1)) + 1) : 
        SoFar(script, count + 1, n, line, over)
        /\ Rest(unread, script, Off(script, count) + n)

(* The value of the last header of this name in the first c lines.         *)
ValueBy(s, name, c) == LastOf(s, {i \in HeaderLines(s, name) : i <= c})

(* What is known of the request after c lines.                             *)
Started(s, r) ==
    /\ r.method \in Seq(Cell) /\ r.target \in Seq(Cell)
    /\ IsPrefix(r.method \o <<"SP">> \o r.target \o <<"SP">>, LineOf(s, 1))
    /\ ~Contains(r.method, "SP") /\ ~Contains(r.target, "SP")

Authorized(s, r, c) ==
    /\ r.authorization = ValueBy(s, "authorization", c)
    /\ \A i \in 2..Len(s.lines) : i <= c /\ Named(s.lines[i], "authorization") =>
         FitsLine(s.lines[i]) /\ Len(HeaderValue(s.lines[i])) < AuthorizationCap

Keyed(s, r) ==
    r.key # <<>> => \E i \in DOMAIN s.lines : /\ Named(s.lines[i], "sec-websocket-key")
                                              /\ r.key = HeaderValue(s.lines[i])

Told(s, r, c, short) ==
    /\ DOMAIN r = DOMAIN NoRequest /\ Started(s, r) /\ Keyed(s, r)
    /\ (~short => Authorized(s, r, c))
    /\ r.length \in Nat /\ r.length = Number(ValueBy(s, "content-length", c), LengthLimit)

(* b begins with a.                                                        *)
Opens(a, b) ==
    /\ a \in Seq(Cell) /\ b \in Seq(Cell) /\ Len(a) <= Len(b)
    /\ \A i \in 1..Len(a) : b[i] = a[i]

BodyInv(s, r) ==
    Len(r.body) <= r.length /\ Opens(r.body, s.body)

Handed(s, r) ==
    /\ Told(s, r, LastLine(s), FALSE) /\ BodyInv(s, r) /\ Len(r.body) = r.length

(* w is the piece of the path that stands for the star, if there is one.   *)
Stands(pattern, path, w) ==
    /\ w \in Seq(Cell)
    /\ path = IF Contains(pattern, "*") THEN Before(pattern, "*") \o w \o After(pattern, "*")
                                        ELSE pattern
    /\ After(pattern, "*") # <<>> => ~Contains(w, "/")

Fitting(f, r) ==
    f.route # 0 =>
        /\ f.route \in DOMAIN kRoutes /\ kRoutes[f.route].method = r.method
        /\ Stands(kRoutes[f.route].pattern, Path(r.target), f.wildcard)

ReadingInv ==
    /\ pc # "idle" => script \in Scripts
    /\ pc = "idle" => count = 0 /\ line = <<>> /\ over = FALSE
    /\ pc = "line" => count = 0 /\ LineInv
    /\ pc = "headers" => /\ count \in 1..Len(script.lines) /\ LineInv
                         /\ Told(script, request, count, cut) /\ request.body = <<>>
    /\ pc = "body" => /\ Told(script, request, LastLine(script), FALSE)
                      /\ BodyInv(script, request)
                      /\ Rest(unread, script, Off(script, LastLine(script)) + Len(request.body))
    /\ pc \in {"route", "handle"} => Handed(script, request)

ServedInv ==
    /\ pc = "handle" => Fitting(found, request)
    /\ pc \notin {"done", "open", "drain"} => ran = NotRun /\ reply = NoReply
    /\ pc \in {"open", "drain"} => reply.code = 101
    /\ pc = "done" /\ ran.route # 0 /\ reply.code # 101 =>
         Handed(script, request) /\ Fitting(ran, request)
    /\ AppIsThere /\ KeyIsAnswered

HandledInv == ReadingInv /\ ServedInv

------------------------------------------------------------------------------
(* Pieces of a text, and where a cell is in it.                            *)
Piece(p, S, d, a, n) ==
    p \in Seq(S) /\ Len(p) = n /\ \A i \in 1..n : p[i] = d[a + i]

LEMMA PieceIs ==
    ASSUME NEW S, NEW d \in Seq(S), NEW a \in Nat, NEW n \in Nat, a + n <= Len(d)
    PROVE  Piece(SubSeq(d, a + 1, a + n), S, d, a, n)
  <1>1. /\ SubSeq(d, a + 1, a + n) \in Seq(S) /\ Len(SubSeq(d, a + 1, a + n)) = n
    OBVIOUS
  <1>2. \A i \in 1..n : SubSeq(d, a + 1, a + n)[i] = d[a + i]
    OBVIOUS
  <1> QED
    BY <1>1, <1>2 DEF Piece

Found(s, c, p) ==
    /\ p \in 1..(Len(s) + 1) /\ \A j \in 1..(p - 1) : s[j] # c
    /\ p <= Len(s) => s[p] = c
    /\ p <= Len(s) <=> Contains(s, c)

LEMMA PlaceIs ==
    ASSUME NEW S, NEW s \in Seq(S), NEW c
    PROVE  Found(s, c, Place(s, c))
  <1>0. Len(s) \in Nat /\ DOMAIN s = 1..Len(s)
    OBVIOUS
  <1>1. CASE Contains(s, c)
    <2> DEFINE T == {i \in 1..Len(s) : s[i] = c}
    <2>1. T \subseteq Nat /\ T # {}
      BY <1>0, <1>1 DEF Contains
    <2>2. PICK x \in T : \A y \in T : x <= y
      BY <2>1, LeastNatural
    <2>3. x \in DOMAIN s /\ s[x] = c /\ \A j \in 1..(x - 1) : s[j] # c
      <3>1. ASSUME NEW j \in 1..(x - 1), s[j] = c PROVE FALSE
        <4>1. j \in 1..Len(s)
          BY <1>0, <2>2
        <4> QED
          BY <2>2, <3>1, <4>1
      <3> QED
        BY <1>0, <2>2, <3>1
    <2>4. /\ Place(s, c) \in DOMAIN s /\ s[Place(s, c)] = c
          /\ \A j \in 1..(Place(s, c) - 1) : s[j] # c
      BY <1>1, <2>3 DEF Place
    <2>5. PICK p : p = Place(s, c)
      OBVIOUS
    <2> QED
      BY <1>0, <1>1, <2>4, <2>5 DEF Found
  <1>2. CASE ~Contains(s, c)
    <2>1. Place(s, c) = Len(s) + 1
      BY <1>2 DEF Place
    <2>2. \A j \in 1..Len(s) : s[j] # c
      BY <1>2 DEF Contains
    <2> QED
      BY <1>0, <1>2, <2>1, <2>2 DEF Found
  <1> QED
    BY <1>1, <1>2

(* What comes before a cell does not have it.                              *)
LEMMA BeforeIs ==
    ASSUME NEW S, NEW s \in Seq(S), NEW c
    PROVE  /\ Piece(Before(s, c), S, s, 0, Place(s, c) - 1)
           /\ ~Contains(Before(s, c), c)
  <1>1. PICK p : p = Place(s, c)
    OBVIOUS
  <1>2. Found(s, c, p) /\ Len(s) \in Nat
    BY <1>1, PlaceIs
  <1>3. p - 1 \in Nat /\ 0 + (p - 1) <= Len(s) /\ 0 \in Nat /\ 0 + 1 = 1 /\ 0 + (p - 1) = p - 1
    BY <1>2 DEF Found
  <1>4. Piece(SubSeq(s, 0 + 1, 0 + (p - 1)), S, s, 0, p - 1)
    <2>1. PICK n : n = p - 1
      OBVIOUS
    <2>2. Piece(SubSeq(s, 0 + 1, 0 + n), S, s, 0, n)
      BY <1>3, <2>1, PieceIs
    <2> QED
      BY <2>1, <2>2
  <1>5. Piece(Before(s, c), S, s, 0, p - 1)
    BY <1>1, <1>3, <1>4 DEF Before
  <1>6. ~Contains(Before(s, c), c)
    <2>1. \A i \in 1..(p - 1) : Before(s, c)[i] = s[0 + i]
      BY <1>5 DEF Piece
    <2>2. \A i \in 1..(p - 1) : s[0 + i] = s[i]
      BY <1>2 DEF Found
    <2>3. Len(Before(s, c)) = p - 1
      BY <1>5 DEF Piece
    <2> QED
      BY <1>2, <2>1, <2>2, <2>3 DEF Contains, Found
  <1> QED
    BY <1>1, <1>5, <1>6

(* Texts are their cells.                                                  *)
LEMMA TextsAgree ==
    ASSUME NEW S, NEW a \in Seq(S), NEW b \in Seq(S), Len(a) = Len(b),
           \A i \in 1..Len(b) : a[i] = b[i]
    PROVE  a = b
  <1>1. a = [i \in 1..Len(a) |-> a[i]] /\ b = [i \in 1..Len(b) |-> b[i]]
    OBVIOUS
  <1> QED
    BY <1>1

(* Before and from, or before, the cell and after, are all of it.          *)
LEMMA FromIs ==
    ASSUME NEW S, NEW s \in Seq(S), NEW c
    PROVE  /\ Before(s, c) \in Seq(S) /\ From(s, c) \in Seq(S)
           /\ Before(s, c) \o From(s, c) = s
  <1>1. PICK p : p = Place(s, c)
    OBVIOUS
  <1>2. Found(s, c, p) /\ Len(s) \in Nat
    BY <1>1, PlaceIs
  <1>3. p \in 1..(Len(s) + 1)
    BY <1>2 DEF Found
  <1>4. SubSeq(s, 1, p - 1) \in Seq(S) /\ SubSeq(s, p, Len(s)) \in Seq(S)
    BY <1>3
  <1>5. SubSeq(s, 1, p - 1) \o SubSeq(s, p, Len(s)) = s
    <2>1. PICK a \in Seq(S) : a = SubSeq(s, 1, p - 1)
      BY <1>4
    <2>2. PICK b \in Seq(S) : b = SubSeq(s, p, Len(s))
      BY <1>4
    <2>3. Len(a) = p - 1 /\ \A i \in 1..(p - 1) : a[i] = s[i]
      BY <1>2, <1>3, <2>1
    <2>4. Len(b) = Len(s) + 1 - p /\ \A i \in 1..(Len(s) + 1 - p) : b[i] = s[p - 1 + i]
      BY <1>2, <1>3, <2>2
    <2>5. a \o b \in Seq(S) /\ Len(a \o b) = Len(s)
      BY <1>2, <1>3, <2>3, <2>4
    <2>6. \A i \in 1..Len(s) : (a \o b)[i] = s[i]
      <3> SUFFICES ASSUME NEW i \in 1..Len(s) PROVE (a \o b)[i] = s[i]
        OBVIOUS
      <3>1. CASE i <= p - 1
        BY <1>2, <1>3, <2>3, <3>1
      <3>2. CASE ~(i <= p - 1)
        <4>1. i - (p - 1) \in 1..Len(b) /\ p - 1 + (i - (p - 1)) = i
          BY <1>2, <1>3, <2>4, <3>2
        <4>2. (a \o b)[i] = b[i - (p - 1)]
          BY <1>2, <1>3, <2>3, <3>2, <4>1
        <4> QED
          BY <2>4, <4>1, <4>2
      <3> QED
        BY <3>1, <3>2
    <2>7. a \o b = s
      BY <2>5, <2>6, TextsAgree
    <2> QED
      BY <2>1, <2>2, <2>7
  <1> QED
    BY <1>1, <1>4, <1>5 DEF Before, From

LEMMA AfterIs ==
    ASSUME NEW S, NEW s \in Seq(S), NEW c
    PROVE  /\ Place(s, c) \in 1..(Len(s) + 1) /\ After(s, c) \in Seq(S)
           /\ Contains(s, c) => Piece(After(s, c), S, s, Place(s, c), Len(s) - Place(s, c))
           /\ ~Contains(s, c) => After(s, c) = <<>>
  <1>1. PICK p : p = Place(s, c)
    OBVIOUS
  <1>2. Found(s, c, p) /\ Len(s) \in Nat
    BY <1>1, PlaceIs
  <1>3. /\ p \in 1..(Len(s) + 1)
        /\ Contains(s, c) => p <= Len(s)
        /\ ~Contains(s, c) => p = Len(s) + 1
    BY <1>2 DEF Found
  <1>4. CASE Contains(s, c)
    <2>1. PICK n : n = Len(s) - p
      OBVIOUS
    <2>2. n \in Nat /\ p \in Nat /\ p + n <= Len(s) /\ p + n = Len(s)
      BY <1>2, <1>3, <1>4, <2>1
    <2>3. Piece(SubSeq(s, p + 1, p + n), S, s, p, n)
      BY <2>2, PieceIs
    <2>4. Piece(After(s, c), S, s, p, n)
      BY <1>1, <2>2, <2>3 DEF After
    <2> QED
      BY <1>1, <1>3, <1>4, <2>1, <2>4 DEF Piece
  <1>5. CASE ~Contains(s, c)
    <2>1. After(s, c) = <<>>
      BY <1>1, <1>2, <1>3, <1>5 DEF After
    <2> QED
      BY <1>1, <1>3, <1>5, <2>1
  <1> QED
    BY <1>4, <1>5

LEMMA PrefixIs ==
    ASSUME NEW S, NEW a \in Seq(S), NEW b \in Seq(S), IsPrefix(a, b)
    PROVE  /\ SubSeq(b, Len(a) + 1, Len(b)) \in Seq(S)
           /\ b = a \o SubSeq(b, Len(a) + 1, Len(b))
  <1>1. /\ Len(a) \in Nat /\ Len(b) \in Nat /\ Len(a) <= Len(b)
        /\ SubSeq(a, 1, Len(a)) = SubSeq(b, 1, Len(a))
    BY DEF IsPrefix
  <1>2. PICK c \in Seq(S) : c = SubSeq(b, Len(a) + 1, Len(b))
    <2>1. PICK n \in Nat : n = Len(a) /\ n <= Len(b)
      BY <1>1
    <2>2. SubSeq(b, n + 1, Len(b)) \in Seq(S)
      BY <1>1, <2>1
    <2> QED
      BY <2>1, <2>2
  <1>3. Len(c) = Len(b) - Len(a) /\ \A i \in 1..(Len(b) - Len(a)) : c[i] = b[Len(a) + i]
    BY <1>1, <1>2
  <1>4. \A i \in 1..Len(a) : a[i] = b[i]
    <2> SUFFICES ASSUME NEW i \in 1..Len(a) PROVE a[i] = b[i]
      OBVIOUS
    <2>1. SubSeq(a, 1, Len(a))[i] = a[i] /\ SubSeq(b, 1, Len(a))[i] = b[i]
      BY <1>1
    <2> QED
      BY <1>1, <2>1
  <1>5. a \o c \in Seq(S) /\ Len(a \o c) = Len(b)
    BY <1>1, <1>3
  <1>6. \A i \in 1..Len(b) : (a \o c)[i] = b[i]
    <2> SUFFICES ASSUME NEW i \in 1..Len(b) PROVE (a \o c)[i] = b[i]
      OBVIOUS
    <2>1. CASE i <= Len(a)
      BY <1>1, <1>4, <2>1
    <2>2. CASE ~(i <= Len(a))
      <3>1. i - Len(a) \in 1..Len(c) /\ Len(a) + (i - Len(a)) = i
        BY <1>1, <1>3, <2>2
      <3>2. (a \o c)[i] = c[i - Len(a)]
        BY <1>1, <1>3, <2>2, <3>1
      <3> QED
        BY <1>3, <3>1, <3>2
    <2> QED
      BY <2>1, <2>2
  <1>7. a \o c = b
    BY <1>5, <1>6, TextsAgree
  <1> QED
    BY <1>2, <1>7

LEMMA ThreeTexts ==
    ASSUME NEW p \in Seq(Cell), NEW q \in Seq(Cell), NEW r \in Seq(Cell)
    PROVE  p \o q \o r = p \o (q \o r)
  OBVIOUS

(* What a pattern makes of a path it matches.                              *)
LEMMA MatchIs ==
    ASSUME NEW pattern \in Seq(Cell), NEW path \in Seq(Cell), matchPath(pattern, path).matches
    PROVE  Stands(pattern, path, matchPath(pattern, path).wildcard)
  <1> DEFINE prefix == Before(pattern, "*")
             rest   == SubSeq(path, Len(prefix) + 1, Len(path))
             suffix == After(pattern, "*")
             w      == matchPath(pattern, path).wildcard
  <1>1. prefix \in Seq(Cell) /\ suffix \in Seq(Cell)
    BY FromIs, AfterIs
  <1>2. matchPath(pattern, path) =
          IF ~Contains(pattern, "*") THEN [matches |-> path = pattern, wildcard |-> <<>>]
          ELSE IF ~IsPrefix(prefix, path) THEN NoMatch
          ELSE IF suffix = <<>> THEN Capture(rest)
          ELSE IF Contains(rest, "/") /\ From(rest, "/") = suffix THEN Capture(Before(rest, "/"))
          ELSE NoMatch
    BY DEF matchPath
  <1>3. ~NoMatch.matches /\ \A x : Capture(x).matches => Capture(x).wildcard = x
    BY DEF NoMatch, Capture
  <1>4. IsPrefix(prefix, path) => rest \in Seq(Cell) /\ path = prefix \o rest
    BY <1>1, PrefixIs
  <1>5. Contains(pattern, "*") \/ suffix = <<>>
    BY AfterIs
  <1> HIDE DEF prefix, rest, suffix
  <1>6. CASE ~Contains(pattern, "*")
    <2>1. matchPath(pattern, path) = [matches |-> path = pattern, wildcard |-> <<>>]
      BY <1>2, <1>6
    <2>2. ASSUME path # pattern PROVE FALSE
      <3>1. (path = pattern) = FALSE
        BY <2>2
      <3>2. matchPath(pattern, path) = [matches |-> FALSE, wildcard |-> <<>>]
        BY <2>1, <3>1
      <3> QED
        BY <3>2
    <2>3. w = <<>> /\ <<>> \in Seq(Cell)
      BY <2>1
    <2> QED
      BY <1>5, <1>6, <2>2, <2>3 DEF Stands, suffix
  <1>7. CASE Contains(pattern, "*") /\ suffix = <<>>
    <2>1. IsPrefix(prefix, path)
      BY <1>2, <1>3, <1>7
    <2>2. w = rest
      BY <1>2, <1>3, <1>7, <2>1
    <2>3. prefix \o rest \o <<>> = prefix \o rest
      BY <1>1, <1>4, <2>1
    <2> QED
      BY <1>4, <1>7, <2>1, <2>2, <2>3 DEF Stands, suffix, prefix
  <1>8. CASE Contains(pattern, "*") /\ suffix # <<>>
    <2>1. IsPrefix(prefix, path)
      BY <1>2, <1>3, <1>8
    <2>2. From(rest, "/") = suffix /\ w = Before(rest, "/")
      BY <1>2, <1>3, <1>8, <2>1
    <2>3. rest \in Seq(Cell) /\ path = prefix \o rest
      BY <1>4, <2>1
    <2>4. w \in Seq(Cell) /\ w \o suffix = rest /\ ~Contains(w, "/")
      BY <2>2, <2>3, FromIs, BeforeIs
    <2>5. prefix \o w \o suffix = prefix \o (w \o suffix)
      <3>1. PICK u, v \in Seq(Cell) : u = prefix /\ v = w
        BY <1>1, <2>4
      <3>2. PICK x \in Seq(Cell) : x = suffix
        BY <1>1
      <3>3. u \o v \o x = u \o (v \o x)
        BY ONLY ThreeTexts, u \in Seq(Cell), v \in Seq(Cell), x \in Seq(Cell)
      <3> QED
        BY <3>1, <3>2, <3>3
    <2> QED
      BY <1>8, <2>3, <2>4, <2>5 DEF Stands, suffix, prefix
  <1> QED
    BY <1>6, <1>7, <1>8

(* The table, and the route that is found in it.                           *)
LEMMA TableIs ==
    /\ DOMAIN kRoutes = 1..14
    /\ \A i \in 1..14 : kRoutes[i].pattern \in Seq(Cell)
  <1>1. DOMAIN kRoutes = 1..14
    BY DEF kRoutes
  <1> QED
    BY <1>1, CellAssumption

LEMMA RouteIs ==
    ASSUME NEW method, NEW path \in Seq(Cell), NEW r, r = findRoute(kRoutes, method, path)
    PROVE  \/ r = 0
           \/ /\ r \in 1..14 /\ kRoutes[r].method = method
              /\ matchPath(kRoutes[r].pattern, path).matches
  <1> DEFINE Fit(i) == kRoutes[i].method = method /\ matchPath(kRoutes[i].pattern, path).matches
             T == {i \in 1..14 : Fit(i)}
  <1>1. r = IF \E i \in DOMAIN kRoutes : Fit(i)
            THEN CHOOSE i \in DOMAIN kRoutes : Fit(i) /\ \A j \in 1..(i - 1) : ~Fit(j)
            ELSE 0
    BY DEF findRoute
  <1> HIDE DEF Fit
  <1>2. ASSUME T # {} PROVE \E i \in 1..14 : Fit(i) /\ \A j \in 1..(i - 1) : ~Fit(j)
    <2>1. T \subseteq Nat
      OBVIOUS
    <2>2. PICK x \in T : \A y \in T : x <= y
      BY <1>2, <2>1, LeastNatural
    <2>3. ASSUME NEW j \in 1..(x - 1), Fit(j) PROVE FALSE
      <3>1. j \in 1..14 /\ ~(x <= j)
        BY <2>2
      <3> QED
        BY <2>2, <2>3, <3>1
    <2> QED
      BY <2>2, <2>3
  <1>3. r = 0 \/ (r \in 1..14 /\ Fit(r))
    BY <1>1, <1>2, TableIs
  <1> QED
    BY <1>3 DEF Fit

LEMMA FitsRoute ==
    ASSUME NEW r, r.target \in Seq(Cell),
           NEW f, f.route = findRoute(kRoutes, r.method, Path(r.target)),
           f.route # 0 => f.wildcard = matchPath(kRoutes[f.route].pattern, Path(r.target)).wildcard
    PROVE  Fitting(f, r)
  <1>1. PICK path : path = Path(r.target)
    OBVIOUS
  <1>2. path \in Seq(Cell)
    BY <1>1, FromIs DEF Path
  <1> SUFFICES ASSUME f.route # 0
               PROVE  /\ f.route \in DOMAIN kRoutes /\ kRoutes[f.route].method = r.method
                      /\ Stands(kRoutes[f.route].pattern, Path(r.target), f.wildcard)
    BY DEF Fitting
  <1>3. PICK k : k = f.route
    OBVIOUS
  <1>4. k \in 1..14 /\ kRoutes[k].method = r.method /\ matchPath(kRoutes[k].pattern, path).matches
    BY <1>1, <1>2, <1>3, RouteIs
  <1>5. PICK pattern \in Seq(Cell) : pattern = kRoutes[k].pattern
    BY <1>4, TableIs
  <1>6. Stands(pattern, path, matchPath(pattern, path).wildcard)
    BY <1>2, <1>4, <1>5, MatchIs
  <1> QED
    BY <1>1, <1>3, <1>4, <1>5, <1>6, TableIs

------------------------------------------------------------------------------
(* A number, if there is one, is a natural number.                         *)
OneDigit(n, c, limit) ==
    IF n < 0 THEN n
    ELSE IF ~Digit(c) THEN NotANumber
    ELSE IF n * 10 + Value(c) > limit THEN TooMuch
    ELSE n * 10 + Value(c)

ReadsTo(g, s, limit, m) ==
    g = [i \in 0..m |-> IF i = 0 THEN 0 ELSE OneDigit(g[i - 1], s[i], limit)]

Numeric(n) == n \in Nat \/ n = -1 \/ n = -2

LEMMA DigitIs ==
    ASSUME NEW n, Numeric(n), NEW c, NEW limit
    PROVE  Numeric(OneDigit(n, c, limit))
  <1>1. CASE n < 0 \/ ~Digit(c)
    BY <1>1 DEF OneDigit, Numeric, NotANumber
  <1>2. CASE ~(n < 0) /\ Digit(c)
    <2>1. \E i \in DOMAIN Digits : Digits[i] = c
      <3>1. Len(Digits) = 10 /\ DOMAIN Digits = 1..10
        BY DEF Digits
      <3> QED
        BY <1>2, <3>1 DEF Digit, Contains
    <2>2. PICK i \in DOMAIN Digits : i = CHOOSE j \in DOMAIN Digits : Digits[j] = c
      BY <2>1
    <2>3. DOMAIN Digits = 1..10
      BY DEF Digits
    <2>4. Value(c) \in Nat
      <3>1. Value(c) = i - 1
        BY <2>2, Zenon DEF Value
      <3>2. i \in 1..10
        BY <2>3
      <3> QED
        BY <3>1, <3>2
    <2>5. PICK v \in Nat : v = Value(c)
      BY <2>4
    <2>6. n * 10 + v \in Nat
      BY <1>2 DEF Numeric
    <2> QED
      BY <1>2, <2>5, <2>6 DEF OneDigit, Numeric, TooMuch
  <1> QED
    BY <1>1, <1>2

LEMMA ReadsToExists ==
    ASSUME NEW s, NEW limit, NEW n \in Nat
    PROVE  \E g : ReadsTo(g, s, limit, n) /\ Numeric(g[n])
  <1> DEFINE S == {m \in Nat : \E g : ReadsTo(g, s, limit, m) /\ Numeric(g[m])}
  <1>1. 0 \in S
    <2>1. ReadsTo([i \in 0..0 |-> 0], s, limit, 0) /\ Numeric([i \in 0..0 |-> 0][0])
      BY DEF ReadsTo, Numeric
    <2> QED
      BY <2>1
  <1>2. ASSUME NEW m \in Nat, m \in S PROVE m + 1 \in S
    <2>1. PICK f : ReadsTo(f, s, limit, m) /\ Numeric(f[m])
      BY <1>2
    <2> DEFINE g == [i \in 0..(m + 1) |-> IF i <= m THEN f[i] ELSE OneDigit(f[m], s[m + 1], limit)]
               h == [i \in 0..(m + 1) |-> IF i = 0 THEN 0 ELSE OneDigit(g[i - 1], s[i], limit)]
    <2>2. \A i \in 0..(m + 1) : g[i] = h[i]
      <3> SUFFICES ASSUME NEW i \in 0..(m + 1) PROVE g[i] = h[i]
        OBVIOUS
      <3>1. CASE i = m + 1
        <4>1. i # 0 /\ i - 1 = m /\ g[m] = f[m] /\ ~(i <= m)
          BY <3>1
        <4> QED
          BY <3>1, <4>1
      <3>2. CASE i # m + 1
        <4>1. i \in 0..m /\ i <= m /\ (i # 0 => i - 1 \in 0..m /\ i - 1 <= m)
          BY <3>2
        <4>2. g[i] = f[i] /\ (i # 0 => g[i - 1] = f[i - 1])
          BY <4>1
        <4> HIDE DEF g
        <4> QED
          BY <2>1, <4>1, <4>2 DEF ReadsTo
      <3> QED
        BY <3>1, <3>2
    <2>3. g = h
      BY <2>2
    <2>4. ReadsTo(g, s, limit, m + 1)
      BY <2>3 DEF ReadsTo
    <2>5. g[m + 1] = OneDigit(f[m], s[m + 1], limit)
      OBVIOUS
    <2>6. Numeric(g[m + 1])
      BY <2>1, <2>5, DigitIs
    <2> QED
      BY <2>4, <2>6
  <1> HIDE DEF S
  <1>3. n \in S
    BY <1>1, <1>2, SetInduction
  <1> QED
    BY <1>3 DEF S

(* The recursion says what its function is at every place.                 *)
LEMMA ReadsAgree ==
    ASSUME NEW s, NEW limit, NEW n \in Nat, NEW f, NEW g,
           ReadsTo(f, s, limit, n), ReadsTo(g, s, limit, n)
    PROVE  f[n] = g[n]
  <1> DEFINE S == {i \in Nat : i <= n => f[i] = g[i]}
  <1>1. 0 \in S
    BY DEF ReadsTo
  <1>2. ASSUME NEW i \in Nat, i \in S PROVE i + 1 \in S
    <2> SUFFICES ASSUME i + 1 <= n PROVE f[i + 1] = g[i + 1]
      OBVIOUS
    <2>1. i + 1 \in 0..n /\ i + 1 # 0 /\ (i + 1) - 1 = i /\ i <= n
      OBVIOUS
    <2>2. /\ f[i + 1] = OneDigit(f[i], s[i + 1], limit)
          /\ g[i + 1] = OneDigit(g[i], s[i + 1], limit)
      BY <2>1 DEF ReadsTo
    <2>3. f[i] = g[i]
      BY <1>2, <2>1
    <2> QED
      BY <2>2, <2>3
  <1> HIDE DEF S
  <1>3. n \in S
    BY <1>1, <1>2, SetInduction
  <1> QED
    BY <1>3 DEF S

LEMMA NumberIs ==
    ASSUME NEW S, NEW s \in Seq(S), NEW limit
    PROVE  Numeric(Number(s, limit)) /\ Number(<<>>, limit) = 0
  <1>0. \A x : Number(x, limit) = (CHOOSE f : ReadsTo(f, x, limit, Len(x)))[Len(x)]
    BY DEF Number, ReadsTo, OneDigit
  <1>1. Numeric(Number(s, limit))
    <2>1. PICK n \in Nat : n = Len(s)
      OBVIOUS
    <2>2. PICK g : ReadsTo(g, s, limit, n) /\ Numeric(g[n])
      BY ReadsToExists
    <2>3. PICK f : ReadsTo(f, s, limit, n) /\ f = CHOOSE h : ReadsTo(h, s, limit, n)
      BY <2>2
    <2>4. f[n] = g[n]
      BY <2>2, <2>3, ReadsAgree
    <2> QED
      BY <1>0, <2>1, <2>2, <2>3, <2>4
  <1>2. Number(<<>>, limit) = 0
    <2>1. Len(<<>>) = 0
      OBVIOUS
    <2>2. PICK g : ReadsTo(g, <<>>, limit, 0)
      BY ReadsToExists
    <2>3. PICK f : ReadsTo(f, <<>>, limit, 0) /\ f = CHOOSE h : ReadsTo(h, <<>>, limit, 0)
      BY <2>2
    <2>4. f[0] = 0
      BY <2>3 DEF ReadsTo
    <2> QED
      BY <1>0, <2>1, <2>3, <2>4
  <1> QED
    BY <1>1, <1>2

------------------------------------------------------------------------------
(* Where the lines and the body of a script are among its cells.           *)
ALine(l) ==
    /\ l \in Seq(Cell) /\ \A i \in 1..Len(l) : l[i] # "LF"
    /\ l # <<>> => l[Len(l)] # "CR"

LineEnds(e, l) ==
    /\ e \in Seq(Cell) /\ Len(e) = Len(l) + 2 /\ e[Len(l) + 1] = "CR" /\ e[Len(l) + 2] = "LF"
    /\ \A i \in 1..Len(l) : e[i] = l[i]

LEMMA ScriptIs ==
    ASSUME NEW s \in Scripts
    PROVE  /\ Len(s.lines) \in Nat /\ LastLine(s) = Len(s.lines) + 1 /\ s.body \in Seq(Cell)
           /\ DOMAIN s.lines = 1..Len(s.lines)
           /\ \A i \in 1..Len(s.lines) : ALine(s.lines[i]) /\ s.lines[i] # <<>>
  <1>1. IsScript(s)
    BY ConstantsAssumption DEF ConstantsAssumption
  <1>2. s.lines \in Seq(Seq(Cell)) /\ s.body \in Seq(Cell)
    BY <1>1 DEF IsScript
  <1>3. Len(s.lines) \in Nat /\ DOMAIN s.lines = 1..Len(s.lines)
    BY <1>2
  <1>4. ASSUME NEW i \in 1..Len(s.lines) PROVE ALine(s.lines[i]) /\ s.lines[i] # <<>>
    <2>1. IsLine(s.lines[i])
      BY <1>1, <1>3, <1>4 DEF IsScript
    <2> QED
      BY <2>1 DEF IsLine, ALine, Contains
  <1> QED
    BY <1>2, <1>3, <1>4 DEF LastLine

LEMMA LineIs ==
    ASSUME NEW s \in Scripts, NEW k \in 1..LastLine(s)
    PROVE  /\ ALine(LineOf(s, k)) /\ (LineOf(s, k) = <<>> <=> k = LastLine(s))
           /\ k < LastLine(s) => k \in 1..Len(s.lines) /\ LineOf(s, k) = s.lines[k]
  <1>1. /\ Len(s.lines) \in Nat /\ LastLine(s) = Len(s.lines) + 1
        /\ \A i \in 1..Len(s.lines) : ALine(s.lines[i]) /\ s.lines[i] # <<>>
    BY ScriptIs
  <1>2. CASE k <= Len(s.lines)
    <2>1. LineOf(s, k) = s.lines[k] /\ k \in 1..Len(s.lines) /\ k < LastLine(s)
      BY <1>1, <1>2 DEF LineOf
    <2> QED
      BY <1>1, <2>1
  <1>3. CASE ~(k <= Len(s.lines))
    <2>1. LineOf(s, k) = <<>> /\ k = LastLine(s) /\ ~(k < LastLine(s))
      BY <1>1, <1>3 DEF LineOf
    <2>2. ALine(<<>>)
      BY DEF ALine
    <2> QED
      BY <2>1, <2>2
  <1> QED
    BY <1>2, <1>3

(* c is s and then t.                                                      *)
Behind(c, s, t) ==
    /\ c \in Seq(Cell) /\ Len(c) = Len(s) + Len(t) /\ Opens(s, c)
    /\ \A i \in 1..Len(t) : c[Len(s) + i] = t[i]

LEMMA BehindBy ==
    ASSUME NEW s \in Seq(Cell), NEW t \in Seq(Cell)
    PROVE  Behind(s \o t, s, t)
  BY DEF Behind, Opens

LEMMA SequenceBy ==
    ASSUME NEW S, NEW n \in Nat, NEW f \in [1..n -> S]
    PROVE  f \in Seq(S) /\ Len(f) = n
  OBVIOUS

LEMMA EndedIs ==
    ASSUME NEW s \in Scripts
    PROVE  /\ Len(Ended(s)) = LastLine(s)
           /\ \A k \in 1..LastLine(s) : LineEnds(Ended(s)[k], LineOf(s, k))
  <1>1. Len(s.lines) \in Nat /\ LastLine(s) = Len(s.lines) + 1
    BY ScriptIs
  <1>2. PICK n \in Nat : n = Len(s.lines) + 1
    BY <1>1
  <1>3. "CR" \in Cell /\ "LF" \in Cell
    BY CellAssumption
  <1>4. PICK e : e = <<"CR", "LF">>
    OBVIOUS
  <1>5. e \in Seq(Cell) /\ Len(e) = 2 /\ e[1] = "CR" /\ e[2] = "LF"
    BY <1>3, <1>4
  <1>6. Ended(s) = [k \in 1..n |-> LineOf(s, k) \o e]
    BY <1>2, <1>4 DEF Ended
  <1>7. ASSUME NEW k \in 1..n PROVE LineEnds(Ended(s)[k], LineOf(s, k))
    <2>1. PICK l : l = LineOf(s, k)
      OBVIOUS
    <2>2. k \in 1..LastLine(s)
      BY <1>1, <1>2
    <2>3. l \in Seq(Cell)
      BY <2>1, <2>2, LineIs DEF ALine
    <2>4. Ended(s)[k] = l \o e
      BY <1>6, <2>1
    <2>5. /\ l \o e \in Seq(Cell) /\ Len(l \o e) = Len(l) + 2
          /\ (l \o e)[Len(l) + 1] = e[1] /\ (l \o e)[Len(l) + 2] = e[2]
      <3>1. /\ l \o e \in Seq(Cell) /\ Len(l \o e) = Len(l) + Len(e)
            /\ \A i \in 1..Len(e) : (l \o e)[Len(l) + i] = e[i]
        BY <1>5, <2>3, BehindBy DEF Behind
      <3>2. 1 \in 1..Len(e) /\ 2 \in 1..Len(e) /\ Len(l) \in Nat
        BY <1>5, <2>3
      <3> QED
        BY <1>5, <3>1, <3>2
    <2>6. \A i \in 1..Len(l) : (l \o e)[i] = l[i]
      BY <1>5, <2>3
    <2> QED
      BY <1>5, <2>1, <2>4, <2>5, <2>6 DEF LineEnds
  <1>8. Ended(s) \in Seq(Seq(Cell)) /\ Len(Ended(s)) = n
    <2>1. \A k \in 1..n : Ended(s)[k] \in Seq(Cell)
      BY <1>7 DEF LineEnds
    <2>2. PICK f : f = Ended(s)
      OBVIOUS
    <2>3. f \in [1..n -> Seq(Cell)]
      BY <1>6, <2>1, <2>2
    <2>4. f \in Seq(Seq(Cell)) /\ Len(f) = n
      BY <2>3, SequenceBy
    <2> QED
      BY <2>2, <2>4
  <1> QED
    BY <1>1, <1>2, <1>7, <1>8

LEMMA OpensBy ==
    ASSUME NEW a, NEW b, NEW c, Opens(a, b), Opens(b, c)
    PROVE  Opens(a, c)
  <1>1. Len(a) \in Nat /\ Len(b) \in Nat /\ Len(c) \in Nat
    BY DEF Opens
  <1> QED
    BY <1>1 DEF Opens

HeadOf(s, k) == JoinedTo(Ended(s), k)

LEMMA HeadIs ==
    ASSUME NEW s \in Scripts, NEW k \in 0..LastLine(s)
    PROVE  HeadOf(s, k) \in Seq(Cell)
  <1>1. LastLine(s) \in Nat
    BY ScriptIs
  <1> DEFINE S == {m \in Nat : m <= LastLine(s) => HeadOf(s, m) \in Seq(Cell)}
  <1>2. 0 \in S
    <2>1. HeadOf(s, 0) = <<>>
      BY OneMorePart DEF HeadOf
    <2>2. <<>> \in Seq(Cell)
      OBVIOUS
    <2>3. HeadOf(s, 0) \in Seq(Cell)
      BY <2>1, <2>2
    <2> QED
      BY <2>3
  <1>3. ASSUME NEW m \in Nat, m \in S PROVE m + 1 \in S
    <2> SUFFICES ASSUME m + 1 <= LastLine(s) PROVE HeadOf(s, m + 1) \in Seq(Cell)
      OBVIOUS
    <2>1. HeadOf(s, m + 1) = HeadOf(s, m) \o Ended(s)[m + 1]
      BY OneMorePart DEF HeadOf
    <2>2. m <= LastLine(s) /\ m + 1 \in 1..LastLine(s)
      BY <1>1
    <2>3. PICK h \in Seq(Cell) : h = HeadOf(s, m)
      BY <1>3, <2>2
    <2>4. PICK e \in Seq(Cell) : e = Ended(s)[m + 1]
      BY <2>2, EndedIs DEF LineEnds
    <2>5. h \o e \in Seq(Cell)
      OBVIOUS
    <2> QED
      BY <2>1, <2>3, <2>4, <2>5
  <1> HIDE DEF S
  <1>4. k \in S /\ k <= LastLine(s)
    BY <1>1, <1>2, <1>3, SetInduction
  <1> QED
    BY <1>4 DEF S

LEMMA HeadNext ==
    ASSUME NEW s \in Scripts, NEW k \in 1..LastLine(s)
    PROVE  Behind(HeadOf(s, k), HeadOf(s, k - 1), Ended(s)[k])
  <1>1. LastLine(s) \in Nat
    BY ScriptIs
  <1>2. PICK m \in Nat : m = k - 1
    BY <1>1
  <1>3. m \in 0..LastLine(s) /\ m + 1 = k
    BY <1>1, <1>2
  <1>4. HeadOf(s, m + 1) = HeadOf(s, m) \o Ended(s)[m + 1]
    BY OneMorePart DEF HeadOf
  <1>5. HeadOf(s, m) \in Seq(Cell)
    BY <1>3, HeadIs
  <1>6. Ended(s)[k] \in Seq(Cell)
    BY EndedIs DEF LineEnds
  <1> QED
    BY <1>2, <1>3, <1>4, <1>5, <1>6, BehindBy

LEMMA HeadOpens ==
    ASSUME NEW s \in Scripts, NEW k \in 0..LastLine(s)
    PROVE  Opens(HeadOf(s, k), Cells(s))
  <1>1. LastLine(s) \in Nat
    BY ScriptIs
  <1> DEFINE S == {d \in Nat : k + d <= LastLine(s) => Opens(HeadOf(s, k), HeadOf(s, k + d))}
  <1>2. 0 \in S
    <2>1. k + 0 = k /\ HeadOf(s, k) \in Seq(Cell)
      BY <1>1, HeadIs
    <2> QED
      BY <2>1 DEF Opens
  <1>3. ASSUME NEW d \in Nat, d \in S PROVE d + 1 \in S
    <2> SUFFICES ASSUME k + (d + 1) <= LastLine(s)
                 PROVE  Opens(HeadOf(s, k), HeadOf(s, k + (d + 1)))
      OBVIOUS
    <2>1. PICK m : m = k + (d + 1)
      OBVIOUS
    <2>2. m \in 1..LastLine(s) /\ m - 1 = k + d /\ k + d <= LastLine(s)
      BY <1>1, <2>1
    <2>3. Opens(HeadOf(s, k), HeadOf(s, k + d))
      BY <1>3, <2>2
    <2>4. Opens(HeadOf(s, m - 1), HeadOf(s, m))
      BY <2>2, HeadNext DEF Behind
    <2> QED
      BY <2>1, <2>2, <2>3, <2>4, OpensBy
  <1> HIDE DEF S
  <1>4. PICK d \in Nat : k + d = LastLine(s)
    <2>1. LastLine(s) - k \in Nat /\ k + (LastLine(s) - k) = LastLine(s)
      BY <1>1
    <2> QED
      BY <2>1
  <1>5. d \in S /\ k + d <= LastLine(s)
    BY <1>1, <1>2, <1>3, <1>4, SetInduction
  <1>6. Opens(HeadOf(s, k), HeadOf(s, LastLine(s)))
    BY <1>4, <1>5 DEF S
  <1>7. Cells(s) = HeadOf(s, LastLine(s)) \o s.body
    BY EndedIs DEF Cells, Joined, HeadOf
  <1>8. HeadOf(s, LastLine(s)) \in Seq(Cell) /\ s.body \in Seq(Cell)
    <2>1. LastLine(s) \in 0..LastLine(s)
      BY <1>1
    <2> QED
      BY <2>1, HeadIs, ScriptIs
  <1>9. Opens(HeadOf(s, LastLine(s)), Cells(s))
    BY <1>7, <1>8, BehindBy DEF Behind
  <1> QED
    BY <1>6, <1>9, OpensBy

(* The cells of the k-th line, and those of the body.                      *)
Placed(c, p, q, l) ==
    /\ p \in Nat /\ q = p + Len(l) + 2 /\ q <= Len(c) /\ Len(c) \in Nat
    /\ \A i \in 1..Len(l) : c[p + i] = l[i]
    /\ c[p + (Len(l) + 1)] = "CR" /\ c[p + (Len(l) + 2)] = "LF"

LinePlaced(s, k) == Placed(Cells(s), Off(s, k - 1), Off(s, k), LineOf(s, k))

LEMMA LineThere ==
    ASSUME NEW s \in Scripts, NEW k \in 1..LastLine(s)
    PROVE  LinePlaced(s, k) /\ Cells(s) \in Seq(Cell)
  <1>1. PICK h : h = HeadOf(s, k)
    OBVIOUS
  <1>2. PICK a : a = HeadOf(s, k - 1)
    OBVIOUS
  <1>3. PICK e : e = Ended(s)[k]
    OBVIOUS
  <1>4. PICK c : c = Cells(s)
    OBVIOUS
  <1>5. PICK l : l = LineOf(s, k)
    OBVIOUS
  <1>6. LastLine(s) \in Nat /\ k \in 0..LastLine(s)
    BY ScriptIs
  <1>7. Behind(h, a, e) /\ Opens(h, c) /\ LineEnds(e, l) /\ l \in Seq(Cell)
    BY <1>1, <1>2, <1>3, <1>4, <1>5, <1>6, HeadNext, HeadOpens, EndedIs, LineIs DEF ALine
  <1>8. Len(a) \in Nat /\ Len(h) \in Nat /\ Len(c) \in Nat /\ Len(l) \in Nat /\ Len(e) = Len(l) + 2
    BY <1>7 DEF Behind, Opens, LineEnds
  <1>9. /\ Len(h) = Len(a) + Len(e) /\ Len(h) <= Len(c)
        /\ \A i \in 1..Len(e) : h[Len(a) + i] = e[i]
        /\ \A i \in 1..Len(h) : c[i] = h[i]
    BY <1>7 DEF Behind, Opens
  <1>10. \A i \in 1..Len(e) : c[Len(a) + i] = e[i]
    <2> SUFFICES ASSUME NEW i \in 1..Len(e) PROVE c[Len(a) + i] = e[i]
      OBVIOUS
    <2>1. Len(a) + i \in 1..Len(h)
      BY <1>8, <1>9
    <2> QED
      BY <1>9, <2>1
  <1>11. \A i \in 1..Len(l) : c[Len(a) + i] = l[i]
    <2> SUFFICES ASSUME NEW i \in 1..Len(l) PROVE c[Len(a) + i] = l[i]
      OBVIOUS
    <2>1. i \in 1..Len(e)
      BY <1>8
    <2> QED
      BY <1>7, <1>10, <2>1 DEF LineEnds
  <1>12. c[Len(a) + (Len(l) + 1)] = "CR" /\ c[Len(a) + (Len(l) + 2)] = "LF"
    <2>1. Len(l) + 1 \in 1..Len(e) /\ Len(l) + 2 \in 1..Len(e)
      BY <1>8
    <2>2. e[Len(l) + 1] = "CR" /\ e[Len(l) + 2] = "LF"
      BY <1>7 DEF LineEnds
    <2> QED
      BY <1>10, <2>1, <2>2
  <1>13. Off(s, k - 1) = Len(a) /\ Off(s, k) = Len(h) /\ c \in Seq(Cell)
    BY <1>1, <1>2, <1>7 DEF Off, HeadOf, Opens
  <1>14. Placed(c, Len(a), Len(h), l)
    BY <1>8, <1>9, <1>11, <1>12 DEF Placed
  <1> QED
    BY <1>4, <1>5, <1>13, <1>14 DEF LinePlaced

LEMMA BodyThere ==
    ASSUME NEW s \in Scripts
    PROVE  /\ Off(s, LastLine(s)) \in Nat /\ s.body \in Seq(Cell)
           /\ Len(Cells(s)) = Off(s, LastLine(s)) + Len(s.body)
           /\ \A i \in 1..Len(s.body) : Cells(s)[Off(s, LastLine(s)) + i] = s.body[i]
  <1>1. LastLine(s) \in 0..LastLine(s) /\ s.body \in Seq(Cell)
    BY ScriptIs
  <1>2. PICK h \in Seq(Cell) : h = HeadOf(s, LastLine(s))
    BY <1>1, HeadIs
  <1>3. Cells(s) = h \o s.body
    BY <1>2, EndedIs DEF Cells, Joined, HeadOf
  <1>4. Behind(Cells(s), h, s.body)
    BY <1>1, <1>3, BehindBy
  <1>5. Off(s, LastLine(s)) = Len(h) /\ Len(h) \in Nat
    BY <1>2 DEF Off, HeadOf
  <1> QED
    BY <1>1, <1>4, <1>5 DEF Behind

------------------------------------------------------------------------------
(* The last header of a name, as the lines go by.                          *)
LEMMA ValueNext ==
    ASSUME NEW s \in Scripts, NEW name, NEW c \in 1..Len(s.lines)
    PROVE  /\ c \in HeaderLines(s, name) => ValueBy(s, name, c) = HeaderValue(s.lines[c])
           /\ c \notin HeaderLines(s, name) => ValueBy(s, name, c) = ValueBy(s, name, c - 1)
           /\ ValueBy(s, name, 1) = <<>>
  <1>1. PICK L \in Nat : L = Len(s.lines)
    BY ScriptIs
  <1>2. PICK H : H = HeaderLines(s, name)
    OBVIOUS
  <1>3. H \subseteq 2..L
    BY <1>1, <1>2 DEF HeaderLines
  <1>4. \A d : ValueBy(s, name, d) = LastOf(s, {i \in H : i <= d})
    BY <1>2 DEF ValueBy
  <1>5. ASSUME c \in H PROVE ValueBy(s, name, c) = HeaderValue(s.lines[c])
    <2> DEFINE is == {i \in H : i <= c}
    <2>1. c \in is /\ \A j \in is : j <= c
      BY <1>1, <1>3, <1>5
    <2>2. \A i \in is : (\A j \in is : j <= i) => i = c
      <3> SUFFICES ASSUME NEW i \in is, \A j \in is : j <= i PROVE i = c
        OBVIOUS
      <3>1. c <= i /\ i <= c /\ i \in Int /\ c \in Int
        BY <1>1, <1>3, <2>1
      <3> QED
        BY <3>1
    <2> HIDE DEF is
    <2>3. (CHOOSE i \in is : \A j \in is : j <= i) = c
      BY <2>1, <2>2
    <2>4. ValueBy(s, name, c) = IF is = {} THEN <<>>
                                ELSE HeaderValue(s.lines[CHOOSE i \in is : \A j \in is : j <= i])
      BY <1>4 DEF is, LastOf
    <2> QED
      BY <2>1, <2>3, <2>4
  <1>6. ASSUME c \notin H PROVE ValueBy(s, name, c) = ValueBy(s, name, c - 1)
    <2>1. {i \in H : i <= c} = {i \in H : i <= c - 1}
      <3>1. ASSUME NEW i \in H PROVE i <= c <=> i <= c - 1
        <4>1. i \in Int /\ c \in Int /\ i # c
          BY <1>1, <1>3, <1>6
        <4> QED
          BY <4>1
      <3> QED
        BY <3>1
    <2> QED
      BY <1>4, <2>1
  <1>7. ValueBy(s, name, 1) = <<>>
    <2>1. {i \in H : i <= 1} = {}
      <3>1. ASSUME NEW i \in H PROVE ~(i <= 1)
        BY <1>1, <1>3
      <3> QED
        BY <3>1
    <2> QED
      BY <1>4, <2>1 DEF LastOf
  <1> QED
    BY <1>2, <1>5, <1>6, <1>7

LEMMA ValueLast ==
    ASSUME NEW s \in Scripts, NEW name
    PROVE  ValueBy(s, name, LastLine(s)) = LastHeader(s, name)
  <1>1. PICK L \in Nat : L = Len(s.lines) /\ LastLine(s) = L + 1
    BY ScriptIs
  <1>2. HeaderLines(s, name) \subseteq 2..L
    BY <1>1 DEF HeaderLines
  <1>3. {i \in HeaderLines(s, name) : i <= LastLine(s)} = HeaderLines(s, name)
    <2>1. ASSUME NEW i \in HeaderLines(s, name) PROVE i <= LastLine(s)
      BY <1>1, <1>2
    <2> QED
      BY <2>1
  <1> QED
    BY <1>3 DEF ValueBy, LastHeader

(* What is left of a line without the CRs at its end.                      *)
LEMMA StripsTo ==
    ASSUME NEW l \in Seq(Cell), line \in Seq(Cell), Len(line) = Len(l) + 1,
           \A i \in 1..Len(l) : line[i] = l[i], line[Len(l) + 1] = "CR",
           l # <<>> => l[Len(l)] # "CR"
    PROVE  Stripped = l
  <1>1. PICK m \in Nat : m = Len(l)
    OBVIOUS
  <1> DEFINE Cut(n) == /\ \A i \in (n + 1)..Len(line) : line[i] = "CR"
                       /\ n > 0 => line[n] # "CR"
  <1>2. m \in 0..Len(line) /\ Cut(m)
    <2>1. \A i \in (m + 1)..Len(line) : i = m + 1
      BY <1>1
    <2>2. m > 0 => line[m] = l[m] /\ l # <<>>
      BY <1>1
    <2> QED
      BY <1>1, <2>1, <2>2
  <1>3. \A n \in 0..Len(line) : Cut(n) => n = m
    <2> SUFFICES ASSUME NEW n \in 0..Len(line), Cut(n) PROVE n = m
      OBVIOUS
    <2>1. CASE n > m
      BY <1>1, <2>1
    <2>2. CASE n < m
      <3>1. m \in (n + 1)..Len(line) /\ m > 0
        BY <1>1, <2>2
      <3> QED
        BY <1>2, <3>1
    <2> QED
      BY <1>1, <2>1, <2>2
  <1> HIDE DEF Cut
  <1>4. (CHOOSE n \in 0..Len(line) : Cut(n)) = m
    BY <1>2, <1>3
  <1>5. Stripped = SubSeq(line, 1, m)
    BY <1>4 DEF Stripped, Cut
  <1>6. SubSeq(line, 1, m) = l
    <2>1. PICK p \in Seq(Cell) : p = SubSeq(line, 1, m)
      BY <1>1
    <2>2. Len(p) = m /\ \A i \in 1..m : p[i] = line[i]
      BY <1>1, <2>1
    <2>3. p = l
      BY <1>1, <2>2, TextsAgree
    <2> QED
      BY <2>1, <2>3
  <1> QED
    BY <1>5, <1>6

LEMMA StripsBehind ==
    ASSUME line \in Seq(Cell), Len(line) >= 2, line[2] = ":"
    PROVE  Len(Stripped) >= 2 /\ Stripped[1] = line[1] /\ Stripped[2] = line[2]
  <1> DEFINE Crs(n) == \A i \in (n + 1)..Len(line) : line[i] = "CR"
             T == {n \in 0..Len(line) : Crs(n)}
  <1>1. T \subseteq Nat /\ Len(line) \in T
    OBVIOUS
  <1>2. PICK m \in T : \A n \in T : m <= n
    <2>1. T # {} /\ T \subseteq Nat
      BY <1>1
    <2> HIDE DEF T
    <2> QED
      BY <2>1, LeastNatural
  <1>3. m > 0 => line[m] # "CR"
    <2> SUFFICES ASSUME m > 0, line[m] = "CR" PROVE FALSE
      OBVIOUS
    <2>1. /\ m - 1 \in 0..Len(line)
          /\ \A i \in ((m - 1) + 1)..Len(line) : i = m \/ i \in (m + 1)..Len(line)
      BY <1>2
    <2>3. \A i \in ((m - 1) + 1)..Len(line) : line[i] = "CR"
      BY <1>2, <2>1
    <2>2. m - 1 \in T
      BY <2>1, <2>3
    <2>4. m \in Nat
      BY <1>1, <1>2
    <2> HIDE DEF T
    <2>5. m <= m - 1
      BY <1>2, <2>2
    <2> QED
      BY <2>4, <2>5
  <1> DEFINE q == CHOOSE n \in 0..Len(line) : Crs(n) /\ (n > 0 => line[n] # "CR")
  <1>4. q \in 0..Len(line) /\ Crs(q)
    <2>1. \E n \in 0..Len(line) : Crs(n) /\ (n > 0 => line[n] # "CR")
      BY <1>2, <1>3
    <2> HIDE DEF Crs
    <2> QED
      BY <2>1
  <1>5. Stripped = SubSeq(line, 1, q)
    BY DEF Stripped
  <1>6. PICK k : k = q
    OBVIOUS
  <1> HIDE DEF q
  <1>7. k >= 2
    <2> SUFFICES ASSUME ~(k >= 2) PROVE FALSE
      OBVIOUS
    <2>1. 2 \in (k + 1)..Len(line)
      BY <1>4, <1>6
    <2> QED
      BY <1>4, <1>6, <2>1
  <1>8. k \in 2..Len(line)
    BY <1>4, <1>6, <1>7
  <1>9. /\ Len(SubSeq(line, 1, k)) = k /\ SubSeq(line, 1, k)[1] = line[1]
        /\ SubSeq(line, 1, k)[2] = line[2]
    BY <1>8
  <1> QED
    BY <1>5, <1>6, <1>8, <1>9

(* A script gives out its cells in order.                                  *)
LEMMA RestNext ==
    ASSUME NEW s \in Scripts, NEW u, NEW p, Rest(u, s, p), u # <<>>
    PROVE  /\ p \in Nat /\ Len(Cells(s)) \in Nat /\ p + 1 <= Len(Cells(s))
           /\ Head(u) = Cells(s)[p + 1] /\ Head(u) \in Cell
           /\ Tail(u) \in Seq(Cell) /\ Rest(Tail(u), s, p + 1)
  <1>1. PICK c : c = Cells(s)
    OBVIOUS
  <1>2. u \in Seq(Cell) /\ p \in Nat /\ Len(u) \in Nat /\ Len(u) > 0 /\ p + Len(u) <= Len(c)
    BY <1>1 DEF Rest
  <1>3. c \in Seq(Cell) /\ Len(c) \in Nat
    <2>1. LastLine(s) \in 1..LastLine(s)
      BY ScriptIs
    <2> QED
      BY <1>1, <2>1, LineThere
  <1>4. Head(u) = u[1] /\ 1 \in 1..Len(u) /\ Head(u) \in Cell
    BY <1>2
  <1>5. /\ Tail(u) \in Seq(Cell) /\ Len(Tail(u)) = Len(u) - 1
        /\ \A i \in 1..(Len(u) - 1) : Tail(u)[i] = u[i + 1]
    BY <1>2
  <1>6. \A i \in 1..Len(u) : u[i] = c[p + i]
    BY <1>1 DEF Rest
  <1>7. \A i \in 1..(Len(u) - 1) : Tail(u)[i] = c[(p + 1) + i]
    <2> SUFFICES ASSUME NEW i \in 1..(Len(u) - 1) PROVE Tail(u)[i] = c[(p + 1) + i]
      OBVIOUS
    <2>1. i + 1 \in 1..Len(u) /\ p + (i + 1) = (p + 1) + i
      BY <1>2
    <2> QED
      BY <1>5, <1>6, <2>1
  <1>8. Rest(Tail(u), s, p + 1)
    <2>1. PICK v : v = Tail(u)
      OBVIOUS
    <2>2. v \in Seq(Cell) /\ p + 1 \in Nat /\ p + 1 + Len(v) <= Len(c) /\ Len(v) = Len(u) - 1
      BY <1>2, <1>5, <2>1
    <2>3. \A i \in 1..Len(v) : v[i] = c[(p + 1) + i]
      BY <1>7, <2>1, <2>2
    <2> QED
      BY <1>1, <2>1, <2>2, <2>3 DEF Rest
  <1>9. p + 1 <= Len(c)
    BY <1>2, <1>3
  <1> QED
    BY <1>1, <1>2, <1>3, <1>4, <1>5, <1>6, <1>8, <1>9

------------------------------------------------------------------------------
(* What the request line and a header add to the request.                  *)
LEMMA PrefixBy ==
    ASSUME NEW a, NEW b, Opens(a, b)
    PROVE  IsPrefix(a, b)
  <1>1. a \in Seq(Cell) /\ b \in Seq(Cell) /\ Len(a) \in Nat /\ Len(b) \in Nat /\ Len(a) <= Len(b)
    BY DEF Opens
  <1>2. PICK p \in Seq(Cell) : p = SubSeq(a, 1, Len(a))
    BY <1>1
  <1>3. PICK q \in Seq(Cell) : q = SubSeq(b, 1, Len(a))
    <2>1. PICK n \in Nat : n = Len(a) /\ n <= Len(b)
      BY <1>1
    <2>2. SubSeq(b, 1, n) \in Seq(Cell)
      BY <1>1, <2>1
    <2> QED
      BY <2>1, <2>2
  <1>4. Len(p) = Len(a) /\ Len(q) = Len(a) /\ \A i \in 1..Len(a) : p[i] = a[i] /\ q[i] = b[i]
    BY <1>1, <1>2, <1>3
  <1>5. \A i \in 1..Len(q) : p[i] = q[i]
    BY <1>4 DEF Opens
  <1>6. p = q
    BY <1>4, <1>5, TextsAgree
  <1> QED
    BY <1>1, <1>2, <1>3, <1>6 DEF IsPrefix

LEMMA GrowsBy ==
    ASSUME NEW a, NEW l, Opens(a, l), NEW b \in Seq(Cell), Len(a) + Len(b) <= Len(l),
           \A i \in 1..Len(b) : b[i] = l[Len(a) + i]
    PROVE  Opens(a \o b, l) /\ Len(a \o b) = Len(a) + Len(b)
  <1>1. a \in Seq(Cell) /\ l \in Seq(Cell) /\ Len(a) \in Nat /\ Len(b) \in Nat /\ Len(l) \in Nat
    BY DEF Opens
  <1>2. PICK c : c = a \o b
    OBVIOUS
  <1>3. Behind(c, a, b)
    BY <1>1, <1>2, BehindBy
  <1>4. \A i \in 1..Len(c) : l[i] = c[i]
    <2> SUFFICES ASSUME NEW i \in 1..Len(c) PROVE l[i] = c[i]
      OBVIOUS
    <2>1. CASE i <= Len(a)
      <3>1. i \in 1..Len(a)
        BY <2>1
      <3> QED
        BY <1>3, <3>1 DEF Behind, Opens
    <2>2. CASE ~(i <= Len(a))
      <3>1. i - Len(a) \in 1..Len(b) /\ Len(a) + (i - Len(a)) = i
        BY <1>1, <1>3, <2>2 DEF Behind
      <3>2. c[Len(a) + (i - Len(a))] = b[i - Len(a)]
        BY <1>3, <3>1 DEF Behind
      <3> QED
        BY <3>1, <3>2
    <2> QED
      BY <2>1, <2>2
  <1> QED
    BY <1>1, <1>2, <1>3, <1>4 DEF Behind, Opens

LEMMA SpaceIs ==
    /\ <<"SP">> \in Seq(Cell) /\ Len(<<"SP">>) = 1 /\ <<"SP">>[1] = "SP"
  <1>1. "SP" \in Cell
    BY CellAssumption
  <1> QED
    BY <1>1

FirstLine(r, l) ==
    /\ DOMAIN r = DOMAIN NoRequest /\ r.method \in Seq(Cell) /\ r.target \in Seq(Cell)
    /\ IsPrefix(r.method \o <<"SP">> \o r.target \o <<"SP">>, l)
    /\ ~Contains(r.method, "SP") /\ ~Contains(r.target, "SP")
    /\ r.authorization = <<>> /\ r.key = <<>> /\ r.length = 0 /\ r.body = <<>>

LEMMA LineSays ==
    ASSUME NEW l \in Seq(Cell), RequestLine(l).status = "ok"
    PROVE  FirstLine(RequestLine(l).request, l) /\ l # <<>>
  <1>1. PICK rest : rest = After(l, "SP")
    OBVIOUS
  <1>2. PICK m : m = Before(l, "SP")
    OBVIOUS
  <1>3. PICK t : t = Before(rest, "SP")
    OBVIOUS
  <1>4. RequestLine(l) =
          IF ~Contains(l, "SP") \/ ~Fits(m, MethodCap)
             THEN [status |-> "malformed", request |-> NoRequest]
          ELSE IF ~Contains(rest, "SP") THEN [status |-> "malformed", request |-> NoRequest]
          ELSE IF ~Fits(t, TargetCap)
             THEN [status |-> "target_too_long", request |-> NoRequest]
          ELSE [status |-> "ok", request |-> [NoRequest EXCEPT !.method = m, !.target = t]]
    BY <1>1, <1>2, <1>3 DEF RequestLine
  <1>5. /\ Contains(l, "SP") /\ Contains(rest, "SP")
        /\ RequestLine(l).request = [NoRequest EXCEPT !.method = m, !.target = t]
    BY <1>4
  <1>6. PICK p : p = Place(l, "SP")
    OBVIOUS
  <1>7. Found(l, "SP", p) /\ p \in 1..Len(l) /\ l[p] = "SP" /\ Len(l) \in Nat
    <2>1. Found(l, "SP", p)
      BY <1>6, PlaceIs
    <2> QED
      BY <1>5, <2>1 DEF Found
  <1>8. Piece(m, Cell, l, 0, p - 1) /\ ~Contains(m, "SP")
    BY <1>2, <1>6, BeforeIs
  <1>9. Piece(rest, Cell, l, p, Len(l) - p)
    BY <1>1, <1>5, <1>6, AfterIs
  <1>10. /\ rest \in Seq(Cell) /\ Len(rest) = Len(l) - p
         /\ \A i \in 1..(Len(l) - p) : rest[i] = l[p + i]
    BY <1>9 DEF Piece
  <1>11. PICK q : q = Place(rest, "SP")
    OBVIOUS
  <1>12. q \in 1..Len(rest) /\ rest[q] = "SP"
    <2>1. Found(rest, "SP", q)
      BY <1>10, <1>11, PlaceIs
    <2> QED
      BY <1>5, <1>10, <2>1 DEF Found
  <1>13. Piece(t, Cell, rest, 0, q - 1) /\ ~Contains(t, "SP")
    BY <1>3, <1>10, <1>11, BeforeIs
  <1>14. PICK sp : sp = <<"SP">>
    OBVIOUS
  <1>15. sp \in Seq(Cell) /\ Len(sp) = 1 /\ sp[1] = "SP"
    BY <1>14, SpaceIs
  <1>16. m \in Seq(Cell) /\ Len(m) = p - 1 /\ Opens(m, l)
    <2>1. m \in Seq(Cell) /\ Len(m) = p - 1 /\ \A i \in 1..(p - 1) : m[i] = l[0 + i]
      BY <1>8 DEF Piece
    <2>2. \A i \in 1..(p - 1) : 0 + i = i
      OBVIOUS
    <2> QED
      BY <1>7, <2>1, <2>2 DEF Opens
  <1>17. t \in Seq(Cell) /\ Len(t) = q - 1 /\ \A i \in 1..(q - 1) : t[i] = l[p + i]
    <2>1. t \in Seq(Cell) /\ Len(t) = q - 1 /\ \A i \in 1..(q - 1) : t[i] = rest[0 + i]
      BY <1>13 DEF Piece
    <2>2. \A i \in 1..(q - 1) : 0 + i = i /\ i \in 1..(Len(l) - p)
      BY <1>7, <1>10, <1>12
    <2> QED
      BY <1>10, <2>1, <2>2
  <1>18. Opens(m \o sp, l) /\ Len(m \o sp) = p
    <2>1. Len(m) + Len(sp) <= Len(l) /\ Len(m) + Len(sp) = p
      BY <1>7, <1>15, <1>16
    <2>2. \A i \in 1..Len(sp) : sp[i] = l[Len(m) + i]
      <3>1. \A i \in 1..Len(sp) : i = 1 /\ Len(m) + i = p
        BY <1>7, <1>15, <1>16
      <3> QED
        BY <1>7, <1>15, <3>1
    <2> QED
      BY <1>15, <1>16, <2>1, <2>2, GrowsBy
  <1>19. PICK a : a = m \o sp
    OBVIOUS
  <1>20. Opens(a \o t, l) /\ Len(a \o t) = p + (q - 1)
    <2>1. Opens(a, l) /\ Len(a) = p
      BY <1>18, <1>19
    <2>2. p + Len(t) <= Len(l) /\ p + Len(t) = p + (q - 1)
      BY <1>7, <1>10, <1>12, <1>17
    <2>3. \A i \in 1..Len(t) : t[i] = l[p + i]
      BY <1>17
    <2> QED
      BY <1>17, <2>1, <2>2, <2>3, GrowsBy
  <1>21. PICK b : b = a \o t
    OBVIOUS
  <1>22. Opens(b \o sp, l)
    <2>1. Opens(b, l) /\ Len(b) = p + (q - 1)
      BY <1>20, <1>21
    <2>2. Len(b) + Len(sp) <= Len(l) /\ Len(b) + 1 = p + q
      BY <1>7, <1>10, <1>12, <1>15, <2>1
    <2>3. l[p + q] = "SP"
      BY <1>10, <1>12
    <2>4. \A i \in 1..Len(sp) : sp[i] = l[Len(b) + i]
      <3>1. \A i \in 1..Len(sp) : i = 1
        BY <1>15
      <3> QED
        BY <1>15, <2>2, <2>3, <3>1
    <2> QED
      BY <1>15, <2>1, <2>2, <2>4, GrowsBy
  <1>23. IsPrefix(m \o <<"SP">> \o t \o <<"SP">>, l)
    BY <1>14, <1>19, <1>21, <1>22, PrefixBy
  <1>24. PICK r : r = [NoRequest EXCEPT !.method = m, !.target = t]
    OBVIOUS
  <1>25. /\ DOMAIN r = DOMAIN NoRequest /\ r.method = m /\ r.target = t
         /\ r.authorization = <<>> /\ r.key = <<>> /\ r.length = 0 /\ r.body = <<>>
    BY <1>24 DEF NoRequest
  <1>26. FirstLine(r, l)
    BY <1>8, <1>13, <1>16, <1>17, <1>23, <1>25 DEF FirstLine
  <1>27. l # <<>>
    BY <1>7
  <1> QED
    BY <1>5, <1>24, <1>26, <1>27

HeaderTaken(r, q, text, long) ==
    /\ DOMAIN q = DOMAIN NoRequest /\ q.method = r.method /\ q.target = r.target /\ q.body = r.body
    /\ q.authorization = IF ~long /\ Named(text, "authorization")
                            /\ Fits(HeaderValue(text), AuthorizationCap)
                         THEN HeaderValue(text) ELSE r.authorization
    /\ \/ q.key = r.key
       \/ ~long /\ Named(text, "sec-websocket-key") /\ q.key = HeaderValue(text)
    /\ IF ~long /\ Named(text, "content-length")
       THEN q.length \in Nat /\ q.length = Number(HeaderValue(text), LengthLimit)
       ELSE q.length = r.length

LEMMA HeaderTakes ==
    ASSUME NEW r, DOMAIN r = DOMAIN NoRequest, NEW text, NEW long,
           Header(r, text, long).status = "ok"
    PROVE  HeaderTaken(r, Header(r, text, long).request, text, long)
  <1>1. PICK v : v = HeaderValue(text)
    OBVIOUS
  <1>2. PICK n : n = Number(v, LengthLimit)
    OBVIOUS
  <1>3. PICK plain : plain = [status |-> "ok", request |-> r]
    OBVIOUS
  <1>4. PICK taken : taken = CASE n \in Nat      -> [plain EXCEPT !.request.length = n]
                               [] n = NotANumber -> [plain EXCEPT !.status = "malformed"]
                               [] OTHER          -> [plain EXCEPT !.status = "body_too_large"]
    OBVIOUS
  <1>5. Header(r, text, long) =
          IF long THEN plain
          ELSE IF Named(text, "authorization") /\ Fits(v, AuthorizationCap)
             THEN [plain EXCEPT !.request.authorization = v]
          ELSE IF Named(text, "sec-websocket-key") /\ Fits(v, KeyCap)
             THEN [plain EXCEPT !.request.key = v]
          ELSE IF Named(text, "content-length") THEN taken
          ELSE plain
    BY <1>1, <1>2, <1>3, <1>4 DEF Header
  <1>6. /\ n \in Nat => taken = [plain EXCEPT !.request.length = n]
        /\ n \notin Nat => \/ taken = [plain EXCEPT !.status = "malformed"]
                           \/ taken = [plain EXCEPT !.status = "body_too_large"]
    <2>1. n \in Nat => n # NotANumber
      BY DEF NotANumber
    <2> QED
      BY <1>4, <2>1
  <1>7. ASSUME NEW x
        PROVE  /\ [plain EXCEPT !.request.authorization = x].request = [r EXCEPT !.authorization = x]
               /\ [plain EXCEPT !.request.key = x].request = [r EXCEPT !.key = x]
               /\ [plain EXCEPT !.request.length = x].request = [r EXCEPT !.length = x]
               /\ [plain EXCEPT !.status = x].status = x
               /\ plain.request = r
    BY <1>3
  <1>8. n \notin Nat => taken.status # "ok"
    <2>1. "malformed" # "ok" /\ "body_too_large" # "ok"
      OBVIOUS
    <2> QED
      BY <1>6, <1>7, <2>1
  <1>9. /\ Named(text, "authorization") => /\ ~Named(text, "sec-websocket-key")
                                           /\ ~Named(text, "content-length")
        /\ Named(text, "sec-websocket-key") => ~Named(text, "content-length")
    BY DEF Named
  <1>10. DOMAIN r = {"method", "target", "authorization", "key", "length", "body"}
    BY DEF NoRequest
  <1>11. PICK q : q = Header(r, text, long).request
    OBVIOUS
  <1>12. CASE long
    <2>1. q = r
      BY <1>5, <1>7, <1>11, <1>12
    <2> QED
      BY <1>11, <1>12, <2>1 DEF HeaderTaken
  <1>13. CASE ~long /\ Named(text, "authorization") /\ Fits(v, AuthorizationCap)
    <2>1. q = [r EXCEPT !.authorization = v]
      BY <1>5, <1>7, <1>11, <1>13
    <2>2. /\ q.authorization = v /\ q.key = r.key /\ q.length = r.length /\ q.method = r.method
          /\ q.target = r.target /\ q.body = r.body /\ DOMAIN q = DOMAIN r
      BY <1>10, <2>1
    <2> QED
      BY <1>1, <1>9, <1>11, <1>13, <2>2 DEF HeaderTaken
  <1>14. CASE ~long /\ Named(text, "sec-websocket-key") /\ Fits(v, KeyCap)
    <2>1. q = [r EXCEPT !.key = v]
      BY <1>5, <1>7, <1>9, <1>11, <1>14
    <2>2. /\ q.authorization = r.authorization /\ q.key = v /\ q.length = r.length
          /\ q.method = r.method /\ q.target = r.target /\ q.body = r.body /\ DOMAIN q = DOMAIN r
      BY <1>10, <2>1
    <2> QED
      BY <1>1, <1>9, <1>11, <1>14, <2>2 DEF HeaderTaken
  <1>15. CASE ~long /\ Named(text, "content-length")
    <2>1. Header(r, text, long) = taken
      BY <1>5, <1>9, <1>15
    <2>2. n \in Nat /\ q = [r EXCEPT !.length = n]
      BY <1>6, <1>7, <1>8, <1>11, <2>1
    <2>3. /\ q.authorization = r.authorization /\ q.key = r.key /\ q.length = n
          /\ q.method = r.method /\ q.target = r.target /\ q.body = r.body /\ DOMAIN q = DOMAIN r
      BY <1>10, <2>2
    <2> QED
      BY <1>1, <1>2, <1>9, <1>11, <1>15, <2>2, <2>3 DEF HeaderTaken
  <1>16. CASE /\ ~long /\ ~Named(text, "content-length")
              /\ ~(Named(text, "authorization") /\ Fits(v, AuthorizationCap))
              /\ ~(Named(text, "sec-websocket-key") /\ Fits(v, KeyCap))
    <2>1. q = r
      BY <1>5, <1>7, <1>11, <1>16
    <2> QED
      BY <1>1, <1>11, <1>16, <2>1 DEF HeaderTaken
  <1> QED
    BY <1>12, <1>13, <1>14, <1>15, <1>16

LEMMA ToldNext ==
    ASSUME NEW s \in Scripts, NEW k \in 2..Len(s.lines), NEW r, NEW q, NEW text, NEW long,
           NEW short, NEW more, Told(s, r, k - 1, short), HeaderTaken(r, q, text, long),
           long <=> ~FitsLine(s.lines[k]), ~long => text = s.lines[k],
           long /\ Named(s.lines[k], "authorization") => Named(text, "authorization"),
           ~more => ~short /\ ~CutShort(r, text, long)
    PROVE  Told(s, q, k, more)
  <1>1. PICK L \in Nat : L = Len(s.lines) /\ DOMAIN s.lines = 1..L
    BY ScriptIs
  <1>2. k \in 1..Len(s.lines) /\ k \in 2..L
    BY <1>1
  <1>3. \A name : k \in HeaderLines(s, name) <=> ~long /\ Named(text, name)
    BY <1>1, <1>2 DEF HeaderLines
  <1>4. \A name : ValueBy(s, name, k) = IF ~long /\ Named(text, name) THEN HeaderValue(text)
                                        ELSE ValueBy(s, name, k - 1)
    <2> SUFFICES ASSUME NEW name
                 PROVE  ValueBy(s, name, k) = IF ~long /\ Named(text, name) THEN HeaderValue(text)
                                              ELSE ValueBy(s, name, k - 1)
      OBVIOUS
    <2>1. CASE k \in HeaderLines(s, name)
      BY <1>2, <1>3, <2>1, ValueNext
    <2>2. CASE k \notin HeaderLines(s, name)
      BY <1>2, <1>3, <2>2, ValueNext
    <2> QED
      BY <2>1, <2>2
  <1>5. DOMAIN q = DOMAIN NoRequest /\ Started(s, q)
    BY DEF Told, Started, HeaderTaken
  <1>6. Keyed(s, q)
    <2>1. CASE q.key = r.key
      BY <2>1 DEF Told, Keyed
    <2>2. CASE ~long /\ Named(text, "sec-websocket-key") /\ q.key = HeaderValue(text)
      BY <1>1, <1>2, <2>2 DEF Keyed
    <2> QED
      BY <2>1, <2>2 DEF HeaderTaken
  <1>7. ASSUME ~more PROVE Authorized(s, q, k)
    <2>1. Authorized(s, r, k - 1) /\ ~CutShort(r, text, long)
      BY <1>7 DEF Told
    <2>2. ~(Named(text, "authorization") /\ (long \/ ~Fits(HeaderValue(text), AuthorizationCap)))
      BY <2>1 DEF CutShort
    <2>3. q.authorization = ValueBy(s, "authorization", k)
      <3>1. r.authorization = ValueBy(s, "authorization", k - 1)
        BY <2>1 DEF Authorized
      <3>2. q.authorization = IF ~long /\ Named(text, "authorization")
                                 /\ Fits(HeaderValue(text), AuthorizationCap)
                              THEN HeaderValue(text) ELSE r.authorization
        BY DEF HeaderTaken
      <3> QED
        BY <1>4, <2>2, <3>1, <3>2
    <2>4. ASSUME NEW i \in 2..Len(s.lines), i <= k, Named(s.lines[i], "authorization")
          PROVE  FitsLine(s.lines[i]) /\ Len(HeaderValue(s.lines[i])) < AuthorizationCap
      <3>1. CASE i = k
        <4>1. ~long
          BY <2>2, <2>4, <3>1
        <4> QED
          BY <2>2, <2>4, <3>1, <4>1 DEF Fits
      <3>2. CASE i # k
        <4>1. i <= k - 1
          BY <1>1, <1>2, <2>4, <3>2
        <4> QED
          BY <2>1, <2>4, <4>1 DEF Authorized
      <3> QED
        BY <3>1, <3>2
    <2> QED
      BY <2>3, <2>4 DEF Authorized
  <1>8. q.length \in Nat /\ q.length = Number(ValueBy(s, "content-length", k), LengthLimit)
    <2>1. CASE ~long /\ Named(text, "content-length")
      BY <1>4, <2>1 DEF HeaderTaken
    <2>2. CASE ~(~long /\ Named(text, "content-length"))
      <3>1. q.length = r.length
        BY <2>2 DEF HeaderTaken
      <3>2. ValueBy(s, "content-length", k) = ValueBy(s, "content-length", k - 1)
        BY <1>4, <2>2
      <3> QED
        BY <3>1, <3>2 DEF Told
    <2> QED
      BY <2>1, <2>2
  <1> QED
    BY <1>5, <1>6, <1>7, <1>8 DEF Told

(* The empty line has nothing to say.                                      *)
LEMMA ToldLast ==
    ASSUME NEW s \in Scripts, NEW r, Told(s, r, Len(s.lines), FALSE)
    PROVE  Told(s, r, LastLine(s), FALSE)
  <1>1. PICK L \in Nat : L = Len(s.lines) /\ LastLine(s) = L + 1
    BY ScriptIs
  <1>2. \A name : ValueBy(s, name, LastLine(s)) = ValueBy(s, name, Len(s.lines))
    <2> SUFFICES ASSUME NEW name
                 PROVE  ValueBy(s, name, LastLine(s)) = ValueBy(s, name, Len(s.lines))
      OBVIOUS
    <2>1. {i \in HeaderLines(s, name) : i <= L + 1} = {i \in HeaderLines(s, name) : i <= L}
      <3>1. HeaderLines(s, name) \subseteq 2..L
        BY <1>1 DEF HeaderLines
      <3>2. ASSUME NEW i \in HeaderLines(s, name) PROVE i <= L + 1 /\ i <= L
        BY <1>1, <3>1
      <3> QED
        BY <3>2
    <2> QED
      BY <1>1, <2>1 DEF ValueBy
  <1>3. Authorized(s, r, LastLine(s))
    <2>1. Authorized(s, r, L)
      BY <1>1 DEF Told
    <2>2. \A i \in 2..L : i <= L
      BY <1>1
    <2> QED
      BY <1>1, <1>2, <2>1, <2>2 DEF Authorized
  <1> QED
    BY <1>2, <1>3 DEF Told

------------------------------------------------------------------------------
(* Reading a line.                                                         *)
LEMMA CapIs == LineCap \in Nat /\ LineCap >= 4
  BY ConstantsAssumption DEF ConstantsAssumption

LEMMA CharKept ==
    ASSUME NEW s \in Scripts, NEW k, NEW n, SoFar(s, k, n, line, over),
           NEW u, Rest(u, s, Off(s, k - 1) + n), u # <<>>, Head(u) # "LF",
           IF Len(line) + 1 < LineCap THEN line' = Append(line, Head(u)) /\ UNCHANGED over
                                      ELSE over' = TRUE /\ UNCHANGED line
    PROVE  /\ n + 1 \in 0..(Len(LineOf(s, k)) + 1)
           /\ SoFar(s, k, n + 1, line', over') /\ Rest(Tail(u), s, Off(s, k - 1) + (n + 1))
  <1>1. /\ k \in 1..LastLine(s) /\ n \in 0..(Len(LineOf(s, k)) + 1)
        /\ line \in Seq(Cell) /\ Len(line) = (IF n < LineCap THEN n ELSE LineCap - 1)
        /\ over <=> n >= LineCap
        /\ \A i \in 1..Len(line) : line[i] = Cells(s)[Off(s, k - 1) + i]
    BY DEF SoFar
  <1>2. PICK c : c = Cells(s)
    OBVIOUS
  <1>3. PICK p : p = Off(s, k - 1)
    OBVIOUS
  <1>4. PICK l : l = LineOf(s, k)
    OBVIOUS
  <1>5. Placed(c, p, Off(s, k), l) /\ ALine(l)
    BY <1>1, <1>2, <1>3, <1>4, LineThere, LineIs DEF LinePlaced
  <1>6. p \in Nat /\ l \in Seq(Cell) /\ Len(l) \in Nat /\ n \in 0..(Len(l) + 1)
    BY <1>1, <1>4, <1>5 DEF Placed, ALine
  <1>7. Head(u) = c[(p + n) + 1] /\ Head(u) \in Cell /\ Rest(Tail(u), s, (p + n) + 1)
    BY <1>2, <1>3, RestNext
  <1>8. (p + n) + 1 = p + (n + 1)
    BY <1>6
  <1>9. n # Len(l) + 1
    <2>1. c[p + (Len(l) + 2)] = "LF"
      BY <1>5 DEF Placed
    <2>2. n = Len(l) + 1 => n + 1 = Len(l) + 2
      BY <1>6
    <2> QED
      BY <1>7, <1>8, <2>1, <2>2
  <1>10. n + 1 \in 0..(Len(l) + 1)
    BY <1>6, <1>9
  <1>11. PICK h \in Cell : h = Head(u) /\ h = c[p + (n + 1)]
    BY <1>7, <1>8
  <1>12. /\ line' \in Seq(Cell) /\ Len(line') = (IF n + 1 < LineCap THEN n + 1 ELSE LineCap - 1)
         /\ over' <=> n + 1 >= LineCap
         /\ \A i \in 1..Len(line') : line'[i] = c[p + i]
    <2>1. CASE n + 1 < LineCap
      <3>1. Len(line) = n /\ Len(line) + 1 < LineCap /\ ~(n >= LineCap) /\ n < LineCap
        BY <1>1, <1>6, <2>1, CapIs
      <3>2. line' = Append(line, h) /\ over' = over
        BY <1>11, <3>1
      <3>3. /\ Append(line, h) \in Seq(Cell) /\ Len(Append(line, h)) = n + 1
            /\ \A i \in 1..n : Append(line, h)[i] = line[i]
            /\ Append(line, h)[n + 1] = h
        BY <1>1, <1>6, <3>1
      <3>4. \A i \in 1..(n + 1) : i \in 1..n \/ i = n + 1
        BY <1>6
      <3>5. \A i \in 1..(n + 1) : line'[i] = c[p + i]
        BY <1>1, <1>2, <1>3, <1>11, <3>1, <3>2, <3>3, <3>4
      <3>6. ~(n + 1 >= LineCap)
        BY <1>6, <2>1, CapIs
      <3> QED
        BY <1>1, <2>1, <3>1, <3>2, <3>3, <3>5, <3>6
    <2>2. CASE ~(n + 1 < LineCap)
      <3>1. Len(line) = LineCap - 1 /\ ~(Len(line) + 1 < LineCap) /\ n + 1 >= LineCap
        BY <1>1, <1>6, <2>2, CapIs
      <3>2. line' = line /\ over' = TRUE
        BY <3>1
      <3> QED
        BY <1>1, <1>2, <1>3, <2>2, <3>1, <3>2
    <2> QED
      BY <2>1, <2>2
  <1>13. SoFar(s, k, n + 1, line', over')
    BY <1>1, <1>2, <1>3, <1>4, <1>10, <1>12 DEF SoFar
  <1> QED
    BY <1>3, <1>4, <1>7, <1>8, <1>10, <1>13

(* At its LF all of a line has been read; what was kept is the line, or is *)
(* known to be too short.                                                  *)
LineKept(l) ==
    /\ over <=> ~FitsLine(l)
    /\ ~over => Stripped = l
    /\ \A name : over /\ Named(l, name) => Named(Stripped, name)

LEMMA LineDone ==
    ASSUME NEW s \in Scripts, NEW k, NEW n, SoFar(s, k, n, line, over),
           NEW u, Rest(u, s, Off(s, k - 1) + n), u # <<>>, Head(u) = "LF"
    PROVE  k \in 1..LastLine(s) /\ LineKept(LineOf(s, k)) /\ Rest(Tail(u), s, Off(s, k))
  <1>1. /\ k \in 1..LastLine(s) /\ n \in 0..(Len(LineOf(s, k)) + 1)
        /\ line \in Seq(Cell) /\ Len(line) = (IF n < LineCap THEN n ELSE LineCap - 1)
        /\ over <=> n >= LineCap
        /\ \A i \in 1..Len(line) : line[i] = Cells(s)[Off(s, k - 1) + i]
    BY DEF SoFar
  <1>2. PICK c : c = Cells(s)
    OBVIOUS
  <1>3. PICK p : p = Off(s, k - 1)
    OBVIOUS
  <1>4. PICK l : l = LineOf(s, k)
    OBVIOUS
  <1>5. Placed(c, p, Off(s, k), l) /\ ALine(l)
    BY <1>1, <1>2, <1>3, <1>4, LineThere, LineIs DEF LinePlaced
  <1>6. p \in Nat /\ l \in Seq(Cell) /\ Len(l) \in Nat /\ n \in 0..(Len(l) + 1)
    BY <1>1, <1>4, <1>5 DEF Placed, ALine
  <1>7. Head(u) = c[(p + n) + 1] /\ Rest(Tail(u), s, (p + n) + 1)
    BY <1>2, <1>3, RestNext
  <1>8. (p + n) + 1 = p + (n + 1)
    BY <1>6
  <1>9. n = Len(l) + 1
    <2>1. c[p + (Len(l) + 1)] = "CR" /\ \A i \in 1..Len(l) : c[p + i] = l[i] /\ l[i] # "LF"
      BY <1>5 DEF Placed, ALine
    <2>2. n + 1 \in 1..Len(l) \/ n + 1 = Len(l) + 1 \/ n = Len(l) + 1
      BY <1>6
    <2> QED
      BY <1>7, <1>8, <2>1, <2>2
  <1>10. Off(s, k) = (p + n) + 1
    <2>1. Off(s, k) = p + Len(l) + 2
      BY <1>5 DEF Placed
    <2> QED
      BY <1>6, <1>9, <2>1
  <1>11. over <=> ~FitsLine(l)
    BY <1>1, <1>6, <1>9, CapIs DEF FitsLine
  <1>12. ASSUME ~over PROVE Stripped = l
    <2>1. Len(line) = Len(l) + 1
      BY <1>1, <1>6, <1>9, <1>12, CapIs
    <2>2. /\ \A i \in 1..Len(l) : c[p + i] = l[i]
          /\ c[p + (Len(l) + 1)] = "CR"
      BY <1>5 DEF Placed
    <2>3. \A i \in 1..Len(l) : line[i] = l[i]
      <3>1. \A i \in 1..Len(l) : i \in 1..Len(line)
        BY <1>6, <2>1
      <3> QED
        BY <1>1, <1>2, <1>3, <2>2, <3>1
    <2>4. line[Len(l) + 1] = "CR"
      <3>1. Len(l) + 1 \in 1..Len(line)
        BY <1>6, <2>1
      <3> QED
        BY <1>1, <1>2, <1>3, <2>2, <3>1
    <2>5. l # <<>> => l[Len(l)] # "CR"
      BY <1>5 DEF ALine
    <2> QED
      BY <1>1, <1>6, <2>1, <2>3, <2>4, <2>5, StripsTo
  <1>13. ASSUME over, NEW name, Named(l, name) PROVE Named(Stripped, name)
    <2>1. Len(line) = LineCap - 1 /\ Len(l) + 1 >= LineCap
      BY <1>1, <1>6, <1>9, <1>13, CapIs
    <2>2. /\ Len(line) >= 2 /\ 1 \in 1..Len(line) /\ 2 \in 1..Len(line)
          /\ 1 \in 1..Len(l) /\ 2 \in 1..Len(l)
      BY <1>6, <2>1, CapIs
    <2>3. \A i \in 1..Len(l) : c[p + i] = l[i]
      BY <1>5 DEF Placed
    <2>4. line[1] = l[1] /\ line[2] = l[2]
      BY <1>1, <1>2, <1>3, <2>2, <2>3
    <2>5. l[1] = name /\ l[2] = ":"
      BY <1>13 DEF Named
    <2>6. Len(Stripped) >= 2 /\ Stripped[1] = line[1] /\ Stripped[2] = line[2]
      BY <1>1, <2>2, <2>4, <2>5, StripsBehind
    <2> QED
      BY <2>4, <2>5, <2>6 DEF Named
  <1> QED
    BY <1>1, <1>3, <1>4, <1>7, <1>10, <1>11, <1>12, <1>13 DEF LineKept

------------------------------------------------------------------------------
(* Reading keeps to the script.                                            *)
LEMMA ReadingSame ==
    ASSUME ReadingInv, UNCHANGED <<pc, script, unread, line, over, count, cut, request>>
    PROVE  ReadingInv'
  BY DEF ReadingInv, LineInv

LEMMA ReadingEnds ==
    ASSUME ReadingInv, pc # "idle", script' = script, pc' \in {"done", "open", "drain"}
    PROVE  ReadingInv'
  BY DEF ReadingInv

LEMMA ReadingLost ==
    ASSUME ReadingInv, UNCHANGED <<pc, script, line, over, count, cut, request>>, unread' = <<>>
    PROVE  ReadingInv'
  <1>1. ASSUME NEW s \in Scripts, NEW u, NEW p, Rest(u, s, p)
        PROVE  Rest(<<>>, s, p)
    <2>1. Len(<<>>) = 0 /\ <<>> \in Seq(Cell) /\ Len(Cells(s)) \in Nat
      <3>1. LastLine(s) \in 1..LastLine(s)
        BY ScriptIs
      <3> QED
        BY <3>1, LineThere DEF LinePlaced, Placed
    <2>2. p \in Nat /\ p + Len(u) <= Len(Cells(s)) /\ Len(u) \in Nat
      BY <1>1 DEF Rest
    <2>3. p + 0 <= Len(Cells(s))
      BY <2>1, <2>2
    <2> QED
      BY <2>1, <2>2, <2>3 DEF Rest
  <1>2. pc \in {"line", "headers", "body"} => script \in Scripts
    BY DEF ReadingInv
  <1>3. pc \in {"line", "headers"} /\ LineInv => LineInv'
    BY <1>1, <1>2 DEF LineInv
  <1> QED
    BY <1>1, <1>2, <1>3 DEF ReadingInv

(* Where a line starts nothing of it has been read.                        *)
LEMMA NextStarts ==
    ASSUME NEW s \in Scripts, NEW k \in 0..(LastLine(s) - 1), script' = s, count' = k,
           line' = <<>>, over' = FALSE, Rest(unread', s, Off(s, k))
    PROVE  LineInv'
  <1>1. /\ k + 1 \in 1..LastLine(s) /\ (k + 1) - 1 = k
    BY ScriptIs
  <1>2. PICK p \in Nat : p = Off(s, k)
    BY DEF Rest
  <1>3. p + 0 = p
    OBVIOUS
  <1>4. 0 \in 0..(Len(LineOf(s, k + 1)) + 1) /\ 0 < LineCap /\ ~(0 >= LineCap)
    <2>1. LineOf(s, k + 1) \in Seq(Cell)
      BY <1>1, LineIs DEF ALine
    <2> QED
      BY <2>1, CapIs
  <1>5. SoFar(s, k + 1, 0, <<>>, FALSE)
    <2>1. <<>> \in Seq(Cell) /\ Len(<<>>) = 0
      OBVIOUS
    <2> QED
      BY <1>1, <1>4, <2>1 DEF SoFar
  <1>6. /\ SoFar(script', count' + 1, 0, line', over')
        /\ Rest(unread', script', Off(script', count') + 0)
    BY <1>2, <1>3, <1>5
  <1>7. 0 \in 0..(Len(LineOf(script', count' + 1)) + 1)
    BY <1>4
  <1> QED
    BY <1>6, <1>7 DEF LineInv

LEMMA AcceptReads ==
    ASSUME ReadingInv, NEW s \in Scripts, Accept(s)
    PROVE  ReadingInv'
  <1>1. /\ pc' = "line" /\ script' = s /\ unread' = Cells(s) /\ count' = 0 /\ line' = <<>>
        /\ over' = FALSE
    BY DEF Accept, ReadingInv, http
  <1>2. 1 \in 1..LastLine(s) /\ 0 \in 0..(LastLine(s) - 1)
    BY ScriptIs
  <1>3. Off(s, 0) = 0
    <2>1. JoinedTo(Ended(s), 0) = <<>>
      BY OneMorePart
    <2> QED
      BY <2>1 DEF Off
  <1>4. PICK c : c = Cells(s)
    OBVIOUS
  <1>5. c \in Seq(Cell) /\ Len(c) \in Nat
    BY <1>2, <1>4, LineThere
  <1>6. Rest(c, s, 0)
    <2>1. \A i \in 1..Len(c) : c[i] = c[0 + i]
      BY <1>5
    <2> QED
      BY <1>4, <1>5, <2>1 DEF Rest
  <1>7. Rest(unread', s, Off(s, 0))
    BY <1>1, <1>3, <1>4, <1>6
  <1>8. LineInv'
    BY <1>1, <1>2, <1>7, NextStarts
  <1> QED
    BY <1>1, <1>8 DEF ReadingInv

LEMMA CharReads ==
    ASSUME ReadingInv, NEW t, ReadChar(t)
    PROVE  ReadingInv'
  <1>1. /\ pc \in {"line", "headers"} /\ unread # <<>> /\ Head(unread) # "LF"
        /\ unread' = Tail(unread)
        /\ UNCHANGED <<pc, script, count, cut, request>>
        /\ IF Len(line) + 1 < LineCap THEN line' = Append(line, Head(unread)) /\ UNCHANGED over
                                      ELSE over' = TRUE /\ UNCHANGED line
    BY DEF ReadChar, Reading
  <1>2. script \in Scripts /\ LineInv /\ count \in Nat
    <2>1. Len(script.lines) \in Nat
      BY <1>1, ScriptIs DEF ReadingInv
    <2> QED
      BY <1>1, <2>1 DEF ReadingInv
  <1>3. PICK k : k = count + 1
    OBVIOUS
  <1>4. k - 1 = count
    BY <1>2, <1>3
  <1>5. PICK n \in 0..(Len(LineOf(script, k)) + 1) :
               SoFar(script, k, n, line, over) /\ Rest(unread, script, Off(script, k - 1) + n)
    BY <1>2, <1>3, <1>4 DEF LineInv
  <1>6. /\ n + 1 \in 0..(Len(LineOf(script, k)) + 1)
        /\ SoFar(script, k, n + 1, line', over')
        /\ Rest(Tail(unread), script, Off(script, k - 1) + (n + 1))
    BY <1>1, <1>2, <1>5, CharKept
  <1>7. LineInv'
    BY <1>1, <1>3, <1>4, <1>6 DEF LineInv
  <1> QED
    BY <1>1, <1>7 DEF ReadingInv

LEMMA LineFinished ==
    ASSUME ReadingInv, NEW t, LineRead(t)
    PROVE  /\ script \in Scripts /\ count \in Nat /\ count + 1 \in 1..LastLine(script)
           /\ LineKept(LineOf(script, count + 1))
           /\ Rest(unread', script, Off(script, count + 1))
  <1>1. /\ pc \in {"line", "headers"} /\ unread # <<>> /\ Head(unread) = "LF"
        /\ unread' = Tail(unread)
    BY DEF LineRead, Reading
  <1>2. script \in Scripts /\ LineInv /\ count \in Nat
    <2>1. Len(script.lines) \in Nat
      BY <1>1, ScriptIs DEF ReadingInv
    <2> QED
      BY <1>1, <2>1 DEF ReadingInv
  <1>3. PICK k : k = count + 1
    OBVIOUS
  <1>4. k - 1 = count
    BY <1>2, <1>3
  <1>5. PICK n \in 0..(Len(LineOf(script, k)) + 1) :
               SoFar(script, k, n, line, over) /\ Rest(unread, script, Off(script, k - 1) + n)
    BY <1>2, <1>3, <1>4 DEF LineInv
  <1>6. /\ k \in 1..LastLine(script) /\ LineKept(LineOf(script, k))
        /\ Rest(Tail(unread), script, Off(script, k))
    BY <1>1, <1>2, <1>5, LineDone
  <1> QED
    BY <1>1, <1>2, <1>3, <1>6

LEMMA FirstTold ==
    ASSUME NEW s \in Scripts, 1 \in 1..Len(s.lines), NEW r, FirstLine(r, LineOf(s, 1)), NEW short
    PROVE  Told(s, r, 1, short)
  <1>1. \A name : ValueBy(s, name, 1) = <<>>
    BY ValueNext
  <1>2. Number(<<>>, LengthLimit) = 0
    <2>1. <<>> \in Seq(Cell)
      OBVIOUS
    <2> QED
      BY <2>1, NumberIs
  <1>3. DOMAIN r = DOMAIN NoRequest /\ Started(s, r) /\ Keyed(s, r)
    BY DEF FirstLine, Started, Keyed
  <1>4. Authorized(s, r, 1)
    <2>1. \A i \in 2..Len(s.lines) : ~(i <= 1)
      BY ScriptIs
    <2> QED
      BY <1>1, <2>1 DEF FirstLine, Authorized
  <1>5. r.length \in Nat /\ r.length = Number(ValueBy(s, "content-length", 1), LengthLimit)
    BY <1>1, <1>2 DEF FirstLine
  <1> QED
    BY <1>3, <1>4, <1>5 DEF Told

LEMMA RequestLineReads ==
    ASSUME ReadingInv, NEW t, RequestLineRead(t)
    PROVE  ReadingInv'
  <1>1. /\ pc = "line" /\ LineRead(t) /\ NextLine /\ script' = script /\ cut' = cut
        /\ pc' \in {"headers", "done"}
    BY DEF RequestLineRead, Answer
  <1>2. PICK read : /\ read = IF over THEN [status |-> "target_too_long", request |-> NoRequest]
                                      ELSE RequestLine(Stripped)
                    /\ request' = read.request /\ (read.status # "ok" => pc' = "done")
    <2> DEFINE rd == IF over THEN [status |-> "target_too_long", request |-> NoRequest]
                             ELSE RequestLine(Stripped)
    <2>1. request' = rd.request /\ (rd.status # "ok" => pc' = "done")
      BY DEF RequestLineRead, Answer
    <2> HIDE DEF rd
    <2>2. rd = IF over THEN [status |-> "target_too_long", request |-> NoRequest]
                       ELSE RequestLine(Stripped)
      BY DEF rd
    <2> QED
      BY <2>1, <2>2
  <1>3. CASE pc' = "done"
    BY <1>1, <1>3, ReadingEnds
  <1>4. CASE pc' = "headers"
    <2>1. read.status = "ok"
      BY <1>2, <1>4
    <2>2. ~over /\ read = RequestLine(Stripped)
      BY <1>2, <2>1
    <2>3. count = 0
      BY <1>1 DEF ReadingInv
    <2>4. /\ script \in Scripts /\ 1 \in 1..LastLine(script) /\ LineKept(LineOf(script, 1))
          /\ Rest(unread', script, Off(script, 1))
      <3>1. count + 1 = 1
        BY <2>3
      <3> QED
        BY <1>1, <3>1, LineFinished
    <2>5. PICK l : l = LineOf(script, 1)
      OBVIOUS
    <2>6. l \in Seq(Cell) /\ Stripped = l /\ (l = <<>> <=> 1 = LastLine(script))
      BY <2>2, <2>4, <2>5, LineIs DEF LineKept, ALine
    <2>7. FirstLine(request', l) /\ l # <<>>
      <3>1. RequestLine(l).status = "ok" /\ request' = RequestLine(l).request
        BY <1>2, <2>1, <2>2, <2>6
      <3> QED
        BY <2>6, <3>1, LineSays
    <2>8. 1 \in 1..Len(script.lines) /\ 1 \in 0..(LastLine(script) - 1)
      BY <2>4, <2>6, <2>7, ScriptIs
    <2>9. Told(script, request', 1, cut')
      BY <2>4, <2>5, <2>7, <2>8, FirstTold
    <2>10. count' = 1 /\ line' = <<>> /\ over' = FALSE
      BY <1>1, <2>3 DEF NextLine
    <2>11. LineInv'
      BY <1>1, <2>4, <2>8, <2>10, NextStarts
    <2>12. request'.body = <<>>
      BY <2>7 DEF FirstLine
    <2> QED
      BY <1>1, <1>4, <2>4, <2>8, <2>9, <2>10, <2>11, <2>12 DEF ReadingInv
  <1> QED
    BY <1>1, <1>3, <1>4

LEMMA HeaderReads ==
    ASSUME ReadingInv, NEW t, HeaderRead(t)
    PROVE  ReadingInv'
  <1>1. /\ pc = "headers" /\ LineRead(t) /\ NextLine /\ script' = script
        /\ over \/ Stripped # <<>>
        /\ cut' = (cut \/ CutShort(request, Stripped, over))
    BY DEF HeaderRead
  <1>2. PICK read : /\ read = Header(request, Stripped, over) /\ request' = read.request
                    /\ \/ read.status # "ok" /\ pc' = "done"
                       \/ read.status = "ok" /\ pc' \in {"headers", "done"}
    BY <1>1 DEF HeaderRead, Answer
  <1>3. CASE pc' = "done"
    BY <1>1, <1>3, ReadingEnds
  <1>4. CASE pc' = "headers"
    <2>1. read.status = "ok"
      BY <1>2, <1>4
    <2>2. PICK k : k = count + 1
      OBVIOUS
    <2>3. /\ script \in Scripts /\ count \in Nat /\ k \in 1..LastLine(script)
          /\ LineKept(LineOf(script, k)) /\ Rest(unread', script, Off(script, k))
      BY <1>1, <2>2, LineFinished
    <2>4. k # LastLine(script)
      <3>1. ASSUME k = LastLine(script) PROVE FALSE
        <4>1. LineOf(script, k) = <<>>
          BY <2>3, <3>1, LineIs
        <4>2. FitsLine(<<>>)
          BY CapIs DEF FitsLine
        <4>3. ~over /\ Stripped = <<>>
          BY <2>3, <4>1, <4>2 DEF LineKept
        <4> QED
          BY <1>1, <4>3
      <3> QED
        BY <3>1
    <2>5. PICK L \in Nat : L = Len(script.lines) /\ LastLine(script) = L + 1
      BY <2>3, ScriptIs
    <2>6. count \in 1..L /\ Told(script, request, count, cut) /\ request.body = <<>>
      BY <1>1, <2>5 DEF ReadingInv
    <2>7. /\ k \in 2..Len(script.lines) /\ k - 1 = count /\ k \in 1..Len(script.lines)
          /\ k \in 0..(LastLine(script) - 1) /\ k < LastLine(script)
      BY <2>2, <2>3, <2>4, <2>5, <2>6
    <2>8. LineOf(script, k) = script.lines[k]
      BY <2>3, <2>7, LineIs
    <2>9. HeaderTaken(request, request', Stripped, over)
      <3>1. DOMAIN request = DOMAIN NoRequest
        BY <2>6 DEF Told
      <3> QED
        BY <1>2, <2>1, <3>1, HeaderTakes
    <2>10. /\ over <=> ~FitsLine(script.lines[k])
           /\ ~over => Stripped = script.lines[k]
           /\ over /\ Named(script.lines[k], "authorization") => Named(Stripped, "authorization")
      BY <2>3, <2>8 DEF LineKept
    <2>11. ~cut' => ~cut /\ ~CutShort(request, Stripped, over)
      BY <1>1
    <2>12. Told(script, request', k, cut')
      <3>1. Told(script, request, k - 1, cut)
        BY <2>6, <2>7
      <3> QED
        BY <2>3, <2>7, <2>9, <2>10, <2>11, <3>1, ToldNext
    <2>13. count' = k /\ line' = <<>> /\ over' = FALSE
      BY <1>1, <2>2 DEF NextLine
    <2>14. LineInv'
      BY <1>1, <2>3, <2>7, <2>13, NextStarts
    <2>15. request'.body = <<>>
      BY <2>6, <2>9 DEF HeaderTaken
    <2> QED
      BY <1>1, <1>4, <2>3, <2>7, <2>12, <2>13, <2>14, <2>15 DEF ReadingInv
  <1> QED
    BY <1>2, <1>3, <1>4

LEMMA HeadersEndReads ==
    ASSUME ReadingInv, NEW t, HeadersEnd(t)
    PROVE  ReadingInv'
  <1>1. /\ pc = "headers" /\ LineRead(t) /\ ~over /\ Stripped = <<>>
        /\ script' = script /\ request' = request /\ cut' = cut
        /\ \/ HeadersTaken(request, cut) = "ok" /\ pc' = "body"
           \/ pc' = "done"
    BY DEF HeadersEnd, Answer
  <1>2. CASE pc' = "done"
    BY <1>1, <1>2, ReadingEnds
  <1>3. CASE HeadersTaken(request, cut) = "ok" /\ pc' = "body"
    <2>1. ~cut
      BY <1>3 DEF HeadersTaken
    <2>2. PICK k : k = count + 1
      OBVIOUS
    <2>3. /\ script \in Scripts /\ count \in Nat /\ k \in 1..LastLine(script)
          /\ LineKept(LineOf(script, k)) /\ Rest(unread', script, Off(script, k))
      BY <1>1, <2>2, LineFinished
    <2>4. k = LastLine(script)
      BY <1>1, <2>3, LineIs DEF LineKept
    <2>5. PICK L \in Nat : L = Len(script.lines) /\ LastLine(script) = L + 1
      BY <2>3, ScriptIs
    <2>6. count = L /\ Told(script, request, count, cut) /\ request.body = <<>>
      BY <1>1, <2>2, <2>3, <2>4, <2>5 DEF ReadingInv
    <2>7. Told(script, request, Len(script.lines), FALSE)
      BY <2>1, <2>5, <2>6 DEF Told
    <2>8. Told(script, request, LastLine(script), FALSE)
      BY <2>3, <2>7, ToldLast
    <2>9. BodyInv(script, request)
      <3>1. Len(<<>>) = 0 /\ <<>> \in Seq(Cell) /\ script.body \in Seq(Cell) /\ request.length \in Nat
        BY <2>3, <2>8, BodyThere DEF Told
      <3>2. 0 <= Len(script.body) /\ 0 <= request.length
        BY <3>1
      <3> QED
        BY <2>6, <3>1, <3>2 DEF BodyInv, Opens
    <2>10. Rest(unread', script, Off(script, LastLine(script)) + Len(request.body))
      <3>1. PICK p \in Nat : p = Off(script, LastLine(script))
        BY <2>3, BodyThere
      <3>2. p + Len(request.body) = p
        BY <2>6
      <3> QED
        BY <2>3, <2>4, <3>1, <3>2
    <2> QED
      BY <1>1, <1>3, <2>3, <2>8, <2>9, <2>10 DEF ReadingInv
  <1> QED
    BY <1>1, <1>2, <1>3

LEMMA BodyReads ==
    ASSUME ReadingInv, NEW t, BodyChar(t)
    PROVE  ReadingInv'
  <1>1. /\ pc = "body" /\ pc' = "body" /\ Len(request.body) < request.length /\ unread # <<>>
        /\ request' = [request EXCEPT !.body = Append(request.body, Head(unread))]
        /\ unread' = Tail(unread) /\ script' = script
    BY DEF BodyChar, Wanted
  <1>2. PICK s \in Scripts : s = script
    BY <1>1 DEF ReadingInv
  <1>3. PICK b : b = request.body
    OBVIOUS
  <1>4. PICK p : p = Off(s, LastLine(s))
    OBVIOUS
  <1>5. PICK r : r = request
    OBVIOUS
  <1>6. /\ Told(s, r, LastLine(s), FALSE) /\ BodyInv(s, r) /\ Rest(unread, s, p + Len(b))
    BY <1>1, <1>2, <1>3, <1>4, <1>5 DEF ReadingInv
  <1>7. /\ b \in Seq(Cell) /\ Len(b) \in Nat /\ Len(b) < r.length /\ r.length \in Nat
        /\ \A i \in 1..Len(b) : s.body[i] = b[i]
    BY <1>1, <1>3, <1>5, <1>6 DEF BodyInv, Opens, Told
  <1>8. /\ p \in Nat /\ s.body \in Seq(Cell) /\ Len(Cells(s)) = p + Len(s.body)
        /\ \A i \in 1..Len(s.body) : Cells(s)[p + i] = s.body[i]
    BY <1>4, BodyThere
  <1>9. /\ (p + Len(b)) + 1 <= Len(Cells(s)) /\ Head(unread) = Cells(s)[(p + Len(b)) + 1]
        /\ Head(unread) \in Cell /\ Rest(Tail(unread), s, (p + Len(b)) + 1)
    BY <1>1, <1>6, RestNext
  <1>10. PICK n \in Nat : n = Len(b) + 1
    BY <1>7
  <1>11. (p + Len(b)) + 1 = p + n /\ n \in 1..Len(s.body) /\ n <= r.length
    BY <1>7, <1>8, <1>9, <1>10
  <1>12. PICK h \in Cell : h = Head(unread) /\ h = s.body[n]
    BY <1>8, <1>9, <1>11
  <1>13. PICK a : a = Append(b, h)
    OBVIOUS
  <1>14. /\ a \in Seq(Cell) /\ Len(a) = n /\ a[n] = h /\ \A i \in 1..Len(b) : a[i] = b[i]
    BY <1>7, <1>10, <1>13
  <1>15. Opens(a, s.body)
    <2>1. \A i \in 1..n : i = n \/ i \in 1..Len(b)
      BY <1>7, <1>10
    <2>2. \A i \in 1..n : s.body[i] = a[i]
      BY <1>7, <1>12, <1>14, <2>1
    <2> QED
      BY <1>8, <1>11, <1>14, <2>2 DEF Opens
  <1>16. PICK q : q = [r EXCEPT !.body = a]
    OBVIOUS
  <1>17. /\ q.body = a /\ q.method = r.method /\ q.target = r.target /\ q.key = r.key
         /\ q.authorization = r.authorization /\ q.length = r.length /\ DOMAIN q = DOMAIN r
    <2>1. DOMAIN r = {"method", "target", "authorization", "key", "length", "body"}
      BY <1>6 DEF Told, NoRequest
    <2> QED
      BY <1>16, <2>1
  <1>18. Told(s, q, LastLine(s), FALSE)
    BY <1>6, <1>17 DEF Told, Started, Keyed, Authorized
  <1>19. BodyInv(s, q)
    BY <1>11, <1>14, <1>15, <1>17 DEF BodyInv
  <1>20. request' = q /\ Len(request'.body) = n
    BY <1>1, <1>3, <1>5, <1>12, <1>13, <1>14, <1>16, <1>17
  <1>21. Rest(unread', s, p + Len(request'.body))
    BY <1>1, <1>9, <1>11, <1>20
  <1> QED
    BY <1>1, <1>2, <1>4, <1>18, <1>19, <1>20, <1>21 DEF ReadingInv

LEMMA DrainReads ==
    ASSUME ReadingInv, NEW n, NEW t, Drain(n, t)
    PROVE  ReadingInv'
  <1>1. /\ pc = "body" /\ pc' = "route" /\ ~(Len(request.body) < request.length)
        /\ script' = script /\ request' = request
    BY DEF Drain, Wanted
  <1>2. /\ Told(script, request, LastLine(script), FALSE) /\ BodyInv(script, request)
        /\ script \in Scripts
    BY <1>1 DEF ReadingInv
  <1>3. Len(request.body) = request.length
    <2>1. Len(request.body) \in Nat /\ request.length \in Nat /\ Len(request.body) <= request.length
      BY <1>2 DEF Told, BodyInv, Opens
    <2> QED
      BY <1>1, <2>1
  <1> QED
    BY <1>1, <1>2, <1>3 DEF ReadingInv, Handed

LEMMA ReadingStep ==
    ASSUME ReadingInv, [Next]_vars
    PROVE  ReadingInv'
  <1>1. ASSUME NEW s \in Scripts, Accept(s) PROVE ReadingInv'
    BY <1>1, AcceptReads
  <1>2. ASSUME Between \/ Relisten \/ ClockComes \/ Radio \/ (\E f \in Frames : PeerSends(f))
        PROVE  ReadingInv'
    <2>1. UNCHANGED <<pc, script, unread, line, over, count, cut, request>>
      BY <1>2 DEF Between, Relisten, ClockComes, Radio, PeerSends, http
    <2> QED
      BY <2>1, ReadingSame
  <1>3. ASSUME Reads PROVE ReadingInv'
    <2>1. ASSUME NEW t \in 0..1, ReadChar(t) PROVE ReadingInv'
      BY <2>1, CharReads
    <2>2. ASSUME NEW t \in 0..1, RequestLineRead(t) PROVE ReadingInv'
      BY <2>2, RequestLineReads
    <2>3. ASSUME NEW t \in 0..1, HeaderRead(t) PROVE ReadingInv'
      BY <2>3, HeaderReads
    <2>4. ASSUME NEW t \in 0..1, HeadersEnd(t) PROVE ReadingInv'
      BY <2>4, HeadersEndReads
    <2>5. ASSUME NEW t \in 0..1, BodyChar(t) PROVE ReadingInv'
      BY <2>5, BodyReads
    <2>6. ASSUME LineWaits \/ BodyWaits PROVE ReadingInv'
      BY <2>6, ReadingSame DEF LineWaits, BodyWaits
    <2>7. ASSUME LineGivesUp \/ BodyGivesUp PROVE ReadingInv'
      <3>1. pc # "idle" /\ script' = script /\ pc' = "done"
        BY <2>7 DEF LineGivesUp, BodyGivesUp, Reading, Fail, Answer
      <3> QED
        BY <3>1, ReadingEnds
    <2>8. ASSUME NEW n, NEW t, Drain(n, t) PROVE ReadingInv'
      BY <2>8, DrainReads
    <2> QED
      BY <1>3, <2>1, <2>2, <2>3, <2>4, <2>5, <2>6, <2>7, <2>8 DEF Reads
  <1>4. ASSUME FindRoute PROVE ReadingInv'
    BY <1>4 DEF FindRoute, ReadingInv
  <1>5. ASSUME Handle \/ UpgradeRefused \/ Upgraded PROVE ReadingInv'
    <2>1. ASSUME Handle PROVE pc # "idle" /\ script' = script /\ pc' = "done"
      <3>1. pc = "handle" /\ script' = script
        BY <2>1 DEF Handle
      <3>2. pc' = "done"
        BY <2>1 DEF Handle, Runs, Answer
      <3> QED
        BY <3>1, <3>2
    <2>2. ASSUME UpgradeRefused PROVE pc # "idle" /\ script' = script /\ pc' = "done"
      BY <2>2 DEF UpgradeRefused, Upgrading, Answer
    <2>3. ASSUME Upgraded PROVE pc # "idle" /\ script' = script /\ pc' = "open"
      BY <2>3 DEF Upgraded, Upgrading
    <2> QED
      BY <1>5, <2>1, <2>2, <2>3, ReadingEnds
  <1>6. ASSUME Finish PROVE ReadingInv'
    BY <1>6 DEF Finish, Forgotten, ReadingInv
  <1>7. ASSUME Listens PROVE ReadingInv'
    <2>1. pc \in {"open", "drain"} /\ script' = script /\ pc' \in {"done", "open", "drain"}
      BY <1>7 DEF Listens, Poll, PollFindsGone, FrameWaits, FrameRefused, FrameText, FramePing,
                  FramePassed, FrameEnds, BroadcastFails, Whole, closeConnection
    <2> QED
      BY <2>1, ReadingEnds
  <1>8. ASSUME PeerCloses PROVE ReadingInv'
    <2>1. /\ UNCHANGED <<pc, script, line, over, count, cut, request>>
          /\ unread' = unread \/ unread' = <<>>
      BY <1>8 DEF PeerCloses, http
    <2> QED
      BY <2>1, ReadingSame, ReadingLost
  <1>9. ASSUME UNCHANGED vars PROVE ReadingInv'
    BY <1>9, ReadingSame DEF vars, http
  <1> QED
    BY <1>1, <1>2, <1>3, <1>4, <1>5, <1>6, <1>7, <1>8, <1>9 DEF Next, Serves

------------------------------------------------------------------------------
(* Serving what was read.                                                  *)
Before101 == pc \notin {"done", "open", "drain"}

LEMMA ServedSame ==
    ASSUME ServedInv, UNCHANGED <<pc, script, found, request, ran, reply>>
    PROVE  ServedInv'
  BY DEF ServedInv, AppIsThere, KeyIsAnswered

LEMMA ServedQuiet ==
    ASSUME ServedInv, Before101, ran' = ran, reply' = reply,
           pc' \notin {"done", "open", "drain", "handle"}
    PROVE  ServedInv'
  BY DEF ServedInv, Before101, AppIsThere, KeyIsAnswered, NotRun, NoReply

LEMMA ServedFails ==
    ASSUME ServedInv, Before101, ran' = ran, reply'.code # 101, pc' = "done"
    PROVE  ServedInv'
  BY DEF ServedInv, Before101, AppIsThere, KeyIsAnswered, NotRun

LEMMA ServedListens ==
    ASSUME ServedInv, pc \in {"open", "drain"}, ran' = ran, reply' = reply, script' = script,
           pc' \in {"open", "drain", "done"}
    PROVE  ServedInv'
  BY DEF ServedInv, AppIsThere, KeyIsAnswered

(* What is answered without a handler.                                     *)
LEMMA AnswerIs ==
    ASSUME NEW code, Answer(code), code # 101
    PROVE  reply'.code # 101 /\ reply'.code = code /\ pc' = "done"
  BY DEF Answer, NoReply

LEMMA StatusIs ==
    ASSUME NEW status \in {"timeout", "malformed", "target_too_long", "header_too_long",
                           "body_too_large"}
    PROVE  Status[status] # 101
  BY DEF Status

(* A handler for an app is not called for one that is not there.           *)
LEMMA HeaderStatus ==
    ASSUME NEW r, NEW text, NEW long
    PROVE  Header(r, text, long).status \in {"ok", "malformed", "body_too_large"}
  <1>1. PICK v : v = HeaderValue(text)
    OBVIOUS
  <1>2. PICK n : n = Number(v, LengthLimit)
    OBVIOUS
  <1>3. PICK plain : plain = [status |-> "ok", request |-> r]
    OBVIOUS
  <1>4. PICK taken : taken = CASE n \in Nat      -> [plain EXCEPT !.request.length = n]
                               [] n = NotANumber -> [plain EXCEPT !.status = "malformed"]
                               [] OTHER          -> [plain EXCEPT !.status = "body_too_large"]
    OBVIOUS
  <1>5. Header(r, text, long) =
          IF long THEN plain
          ELSE IF Named(text, "authorization") /\ Fits(v, AuthorizationCap)
             THEN [plain EXCEPT !.request.authorization = v]
          ELSE IF Named(text, "sec-websocket-key") /\ Fits(v, KeyCap)
             THEN [plain EXCEPT !.request.key = v]
          ELSE IF Named(text, "content-length") THEN taken
          ELSE plain
    BY <1>1, <1>2, <1>3, <1>4 DEF Header
  <1>6. \/ taken = [plain EXCEPT !.request.length = n]
        \/ taken = [plain EXCEPT !.status = "malformed"]
        \/ taken = [plain EXCEPT !.status = "body_too_large"]
    <2>1. n \in Nat => n # NotANumber
      BY DEF NotANumber
    <2> QED
      BY <1>4, <2>1
  <1>7. ASSUME NEW x
        PROVE  /\ [plain EXCEPT !.request.authorization = x].status = "ok"
               /\ [plain EXCEPT !.request.key = x].status = "ok"
               /\ [plain EXCEPT !.request.length = x].status = "ok"
               /\ [plain EXCEPT !.status = x].status = x
               /\ plain.status = "ok"
    BY <1>3
  <1>8. taken.status \in {"ok", "malformed", "body_too_large"}
    <2>1. CASE taken = [plain EXCEPT !.request.length = n]
      <3>1. [plain EXCEPT !.request.length = n].status = "ok"
        BY <1>7
      <3> QED
        BY <2>1, <3>1
    <2>2. ASSUME NEW x \in {"malformed", "body_too_large"}, taken = [plain EXCEPT !.status = x]
          PROVE  taken.status \in {"ok", "malformed", "body_too_large"}
      <3>1. [plain EXCEPT !.status = x].status = x
        BY <1>7
      <3> QED
        BY <2>2, <3>1
    <2> QED
      BY <1>6, <2>1, <2>2
  <1> QED
    BY <1>5, <1>7, <1>8

LEMMA AppNumber ==
    ASSUME NEW w \in Seq(Cell), resolveAppIndex(w) # NoAppIndex
    PROVE  \E i \in 0..(Apps - 1) : Number(w, 255) = i
  <1>1. Apps \in Nat
    BY ConstantsAssumption DEF ConstantsAssumption
  <1>2. PICK n : n = Number(w, 255)
    OBVIOUS
  <1>3. n \in Int
    BY <1>2, NumberIs DEF Numeric
  <1>4. ~(n < 0) /\ ~(n >= Apps)
    BY <1>2 DEF resolveAppIndex
  <1> QED
    BY <1>1, <1>2, <1>3, <1>4

LEMMA AnswersAre ==
    ASSUME NEW name, NEW w, NEW code \in Answers(name, w)
    PROVE  /\ code # 101
           /\ name \in {"settings", "set"} /\ code = 200 => resolveAppIndex(w) # NoAppIndex
  <1>1. \A body : \A c \in SetCodes(body) : c # 101
    BY DEF SetCodes
  <1>2. \A x : \A c \in Revoked(x) : c # 101
    BY DEF Revoked
  <1>3. ASSUME NEW codes, NEW c \in AppSettings(w, codes)
        PROVE  (c \in codes /\ resolveAppIndex(w) # NoAppIndex) \/ c = 404
    BY <1>3 DEF AppSettings
  <1>4. CASE name = "settings"
    <2>1. code \in AppSettings(w, {200})
      BY <1>4 DEF Answers
    <2> QED
      BY <1>3, <2>1
  <1>5. CASE name = "set"
    <2>1. code \in AppSettings(w, SetCodes(request.body))
      BY <1>5 DEF Answers
    <2> QED
      BY <1>1, <1>3, <2>1
  <1>6. CASE name \in {"led", "switch"}
    <2>1. code \in SetCodes(request.body)
      BY <1>6 DEF Answers
    <2> QED
      BY <1>1, <1>6, <2>1
  <1>7. CASE name = "revoke"
    <2>1. code \in Revoked(w)
      BY <1>7 DEF Answers
    <2> QED
      BY <1>2, <1>7, <2>1
  <1>8. CASE name \in {"root", "pair", "status", "list", "ticket", "metrics"}
    <2>1. code \in {200, 401, 409, 500, 501}
      BY <1>8 DEF Answers, Discovered, Listed, Measured
    <2> QED
      BY <1>8, <2>1
  <1>9. CASE name \notin {"root", "pair", "status", "list", "ticket", "led", "switch", "settings",
                          "set", "metrics", "revoke"}
    <2>1. code \in {}
      BY <1>9 DEF Answers
    <2> QED
      BY <2>1
  <1> QED
    BY <1>4, <1>5, <1>6, <1>7, <1>8, <1>9

LEMMA RunsServe ==
    ASSUME ReadingInv, ServedInv, pc = "handle", Runs, script' = script, request' = request
    PROVE  ServedInv'
  <1>1. Handed(script, request) /\ Fitting(found, request)
    BY DEF ReadingInv, ServedInv
  <1>2. PICK code \in Answers(handler, found.wildcard) : Answer(code)
    BY DEF Runs
  <1>3. code # 101 /\ (handler \in {"settings", "set"} /\ code = 200 =>
                         resolveAppIndex(found.wildcard) # NoAppIndex)
    BY AnswersAre
  <1>4. reply'.code # 101 /\ reply'.code = code /\ pc' = "done" /\ ran' = found
    BY <1>2, <1>3, AnswerIs DEF Runs
  <1>5. AppIsThere'
    <2> SUFFICES ASSUME found.route # 0, handler \in {"settings", "set"}, code = 200
                 PROVE  \E i \in 0..(Apps - 1) : Number(found.wildcard, 255) = i
      BY <1>4 DEF AppIsThere, handler
    <2>1. found.wildcard \in Seq(Cell)
      BY <1>1 DEF Fitting, Stands
    <2> QED
      BY <1>3, <2>1, AppNumber
  <1>6. KeyIsAnswered'
    BY <1>4 DEF KeyIsAnswered
  <1> QED
    BY <1>1, <1>4, <1>5, <1>6 DEF ServedInv

LEMMA UpgradesServe ==
    ASSUME ReadingInv, ServedInv, UpgradeRefused \/ Upgraded
    PROVE  ServedInv'
  <1>1. pc = "handle" /\ ran' = found /\ script' = script /\ handler = "upgrade"
    BY DEF UpgradeRefused, Upgraded, Upgrading
  <1>2. Handed(script, request) /\ Fitting(found, request)
    BY <1>1 DEF ReadingInv, ServedInv
  <1>3. AppIsThere'
    BY <1>1 DEF AppIsThere, handler
  <1>4. CASE UpgradeRefused
    <2>1. reply'.code # 101 /\ pc' = "done" /\ request' = request
      BY <1>4, AnswerIs DEF UpgradeRefused, http
    <2>2. KeyIsAnswered'
      BY <2>1 DEF KeyIsAnswered
    <2> QED
      BY <1>1, <1>2, <1>3, <2>1, <2>2 DEF ServedInv
  <1>5. CASE Upgraded
    <2>1. /\ request.key # <<>> /\ reply' = [code |-> 101, accept |-> acceptKey(request.key)]
          /\ pc' = "open"
      BY <1>5 DEF Upgraded
    <2>2. reply'.code = 101 /\ reply'.accept = acceptKey(request.key)
      BY <2>1
    <2>3. \E i \in DOMAIN script.lines : /\ Named(script.lines[i], "sec-websocket-key")
                                         /\ request.key = HeaderValue(script.lines[i])
      BY <1>2, <2>1 DEF Handed, Told, Keyed
    <2>4. KeyIsAnswered'
      BY <1>1, <2>2, <2>3 DEF KeyIsAnswered
    <2> QED
      BY <1>1, <1>3, <2>1, <2>2, <2>4 DEF ServedInv
  <1> QED
    BY <1>4, <1>5

LEMMA FindServes ==
    ASSUME ReadingInv, ServedInv, FindRoute
    PROVE  ServedInv'
  <1>1. /\ pc = "route" /\ pc' = "handle" /\ script' = script /\ request' = request
        /\ ran' = ran /\ reply' = reply
    BY DEF FindRoute
  <1>2. PICK r : r = findRoute(kRoutes, request.method, Path(request.target))
    OBVIOUS
  <1>3. found' = [route    |-> r,
                  wildcard |-> IF r = 0 THEN <<>>
                               ELSE matchPath(kRoutes[r].pattern, Path(request.target)).wildcard]
    BY <1>2 DEF FindRoute
  <1>4. /\ found'.route = r
        /\ r # 0 => found'.wildcard = matchPath(kRoutes[r].pattern, Path(request.target)).wildcard
    BY <1>3
  <1>5. request.target \in Seq(Cell)
    BY <1>1 DEF ReadingInv, Handed, Told, Started
  <1>6. Fitting(found', request)
    <2>1. /\ found'.route = findRoute(kRoutes, request.method, Path(request.target))
          /\ found'.route # 0 =>
               found'.wildcard = matchPath(kRoutes[found'.route].pattern, Path(request.target)).wildcard
      BY <1>2, <1>4
    <2> QED
      BY <1>5, <2>1, FitsRoute
  <1>7. ran = NotRun /\ reply = NoReply
    BY <1>1 DEF ServedInv
  <1> QED
    BY <1>1, <1>6, <1>7 DEF ServedInv, AppIsThere, KeyIsAnswered, NotRun, NoReply

LEMMA VerdictIs == Verdict \in {200, 401, 503}
  BY DEF Verdict

LEMMA HandleServes ==
    ASSUME ReadingInv, ServedInv, Handle
    PROVE  ServedInv'
  <1>1. pc = "handle" /\ script' = script /\ request' = request
    BY DEF Handle, http
  <1>2. CASE Runs
    BY <1>1, <1>2, RunsServe
  <1>3. ASSUME NEW code, Answer(code), code # 101, ran' = ran PROVE ServedInv'
    <2>1. reply'.code # 101 /\ pc' = "done"
      BY <1>3, AnswerIs
    <2> QED
      BY <1>1, <1>3, <2>1, ServedFails DEF Before101
  <1>4. \/ Runs
        \/ ran' = ran /\ (Answer(404) \/ Answer(200) \/ Answer(Verdict))
    BY DEF Handle
  <1>5. 404 # 101 /\ 200 # 101 /\ Verdict # 101
    BY VerdictIs
  <1> QED
    BY <1>2, <1>3, <1>4, <1>5

LEMMA ReadsServe ==
    ASSUME ServedInv, Reads
    PROVE  ServedInv'
  <1>0. ASSUME Before101, ran' = ran,
               \/ reply' = reply /\ pc' \notin {"done", "open", "drain", "handle"}
               \/ \E status \in {"timeout", "malformed", "target_too_long", "header_too_long",
                                 "body_too_large"} : Answer(Status[status])
        PROVE  ServedInv'
    <2>1. CASE reply' = reply /\ pc' \notin {"done", "open", "drain", "handle"}
      BY <1>0, <2>1, ServedQuiet
    <2>2. ASSUME NEW status \in {"timeout", "malformed", "target_too_long", "header_too_long",
                                 "body_too_large"}, Answer(Status[status])
          PROVE  ServedInv'
      <3>1. reply'.code # 101 /\ pc' = "done"
        BY <2>2, StatusIs, AnswerIs
      <3> QED
        BY <1>0, <3>1, ServedFails
    <2> QED
      BY <1>0, <2>1, <2>2
  <1>1. ASSUME NEW t, ReadChar(t) PROVE ServedInv'
    <2>1. Before101 /\ ran' = ran /\ reply' = reply /\ pc' \in {"line", "headers"}
      BY <1>1 DEF ReadChar, Reading, Before101
    <2> QED
      BY <2>1, <1>0
  <1>2. ASSUME NEW t, RequestLineRead(t) PROVE ServedInv'
    <2>1. Before101 /\ ran' = ran
      BY <1>2 DEF RequestLineRead, Before101
    <2> DEFINE read == IF over THEN [status |-> "target_too_long", request |-> NoRequest]
                               ELSE RequestLine(Stripped)
    <2>2. IF read.status = "ok" THEN pc' = "headers" /\ reply' = reply
                                ELSE Answer(Status[read.status])
      BY <1>2 DEF RequestLineRead
    <2>3. read.status \in {"ok", "malformed", "target_too_long"}
      BY DEF RequestLine
    <2> HIDE DEF read
    <2> QED
      BY <2>1, <2>2, <2>3, <1>0
  <1>3. ASSUME NEW t, HeaderRead(t) PROVE ServedInv'
    <2>1. Before101 /\ ran' = ran /\ pc = "headers"
      BY <1>3 DEF HeaderRead, Before101
    <2> DEFINE read == Header(request, Stripped, over)
    <2>2. IF read.status # "ok" THEN Answer(Status[read.status])
          ELSE IF count + 1 > MaxHeaders THEN Answer(Status["header_too_long"])
          ELSE pc' = pc /\ reply' = reply
      BY <1>3 DEF HeaderRead
    <2>3. read.status \in {"ok", "malformed", "body_too_large"}
      BY HeaderStatus
    <2> HIDE DEF read
    <2> QED
      BY <2>1, <2>2, <2>3, <1>0
  <1>4. ASSUME NEW t, HeadersEnd(t) PROVE ServedInv'
    <2>1. Before101 /\ ran' = ran
      BY <1>4 DEF HeadersEnd, Before101
    <2>2. \/ pc' = "body" /\ reply' = reply
          \/ HeadersTaken(request, cut) # "ok" /\ Answer(Status[HeadersTaken(request, cut)])
      BY <1>4 DEF HeadersEnd
    <2>3. HeadersTaken(request, cut) \in {"ok", "header_too_long", "body_too_large"}
      BY DEF HeadersTaken
    <2> QED
      BY <2>1, <2>2, <2>3, <1>0
  <1>5. ASSUME NEW t, BodyChar(t) PROVE ServedInv'
    <2>1. Before101 /\ ran' = ran /\ reply' = reply /\ pc' = "body"
      BY <1>5 DEF BodyChar, Before101
    <2> QED
      BY <2>1, <1>0
  <1>6. ASSUME LineWaits \/ BodyWaits PROVE ServedInv'
    BY <1>6, ServedSame DEF LineWaits, BodyWaits
  <1>7. ASSUME LineGivesUp \/ BodyGivesUp PROVE ServedInv'
    <2>1. Before101 /\ ran' = ran /\ Answer(Status["timeout"])
      BY <1>7 DEF LineGivesUp, BodyGivesUp, Reading, Fail, Before101
    <2> QED
      BY <2>1, <1>0
  <1>8. ASSUME NEW n, NEW t, Drain(n, t) PROVE ServedInv'
    <2>1. Before101 /\ ran' = ran /\ reply' = reply /\ pc' = "route"
      BY <1>8 DEF Drain, Before101
    <2> QED
      BY <2>1, <1>0
  <1> QED
    BY <1>1, <1>2, <1>3, <1>4, <1>5, <1>6, <1>7, <1>8 DEF Reads

LEMMA ServedStep ==
    ASSUME ReadingInv, ServedInv, [Next]_vars
    PROVE  ServedInv'
  <1>1. ASSUME NEW s \in Scripts, Accept(s) PROVE ServedInv'
    <2>1. Before101 /\ ran' = ran /\ reply' = reply /\ pc' = "line"
      BY <1>1 DEF Accept, Before101
    <2> QED
      BY <2>1, ServedQuiet
  <1>2. ASSUME Between \/ Relisten \/ ClockComes \/ Radio \/ (\E f \in Frames : PeerSends(f))
               \/ PeerCloses
        PROVE  ServedInv'
    <2>1. UNCHANGED <<pc, script, found, request, ran, reply>>
      BY <1>2 DEF Between, Relisten, ClockComes, Radio, PeerSends, PeerCloses, http
    <2> QED
      BY <2>1, ServedSame
  <1>3. ASSUME Finish PROVE ServedInv'
    <2>1. pc' = "idle" /\ ran' = NotRun /\ reply' = NoReply
      BY <1>3 DEF Finish
    <2> QED
      BY <2>1 DEF ServedInv, AppIsThere, KeyIsAnswered, NotRun, NoReply
  <1>4. ASSUME Listens PROVE ServedInv'
    <2>1. /\ pc \in {"open", "drain"} /\ script' = script /\ pc' \in {"done", "open", "drain"}
          /\ ran' = ran /\ reply' = reply
      BY <1>4 DEF Listens, Poll, PollFindsGone, FrameWaits, FrameRefused, FrameText, FramePing,
                  FramePassed, FrameEnds, BroadcastFails, Whole, closeConnection
    <2> QED
      BY <2>1, ServedListens
  <1>5. ASSUME UNCHANGED vars PROVE ServedInv'
    BY <1>5, ServedSame DEF vars, http
  <1> QED
    BY <1>1, <1>2, <1>3, <1>4, <1>5, ReadsServe, FindServes, HandleServes, UpgradesServe
       DEF Next, Serves

(* The request a handler gets is the one that was sent.                    *)
LEMMA HandedAsks ==
    ASSUME NEW s \in Scripts, NEW r, Handed(s, r)
    PROVE  /\ Asks(s, Signed(r)) /\ r.authorization = LastHeader(s, "authorization")
           /\ \A i \in 2..Len(s.lines) : Named(s.lines[i], "authorization") =>
                FitsLine(s.lines[i]) /\ Len(HeaderValue(s.lines[i])) < AuthorizationCap
  <1>1. Told(s, r, LastLine(s), FALSE) /\ BodyInv(s, r) /\ Len(r.body) = r.length
    BY DEF Handed
  <1>2. Started(s, r) /\ Authorized(s, r, LastLine(s))
        /\ r.length = Number(ValueBy(s, "content-length", LastLine(s)), LengthLimit)
    BY <1>1 DEF Told
  <1>3. PICK a : a = Signed(r)
    OBVIOUS
  <1>4. a[1] = r.method /\ a[2] = r.target /\ a[3] = r.body
    BY <1>3 DEF Signed
  <1>5. Len(r.body) = ContentLength(s)
    BY <1>1, <1>2, ValueLast DEF ContentLength
  <1>6. IsPrefix(r.body, s.body)
    BY <1>1, PrefixBy DEF BodyInv
  <1>7. Asks(s, a)
    BY <1>2, <1>4, <1>5, <1>6 DEF Asks, Started
  <1>8. r.authorization = LastHeader(s, "authorization")
    BY <1>2, ValueLast DEF Authorized
  <1>9. \A i \in 2..Len(s.lines) : i <= LastLine(s)
    BY ScriptIs
  <1> QED
    BY <1>2, <1>3, <1>7, <1>8, <1>9 DEF Authorized

(* A handler is called for what its client asked for, whole and as it was  *)
(* sent, and a 101 answers the key that was sent (readHttpRequest,         *)
(* handleRequest, handleWebSocketUpgrade).                                 *)
THEOREM HandledAsSentCorrect == Spec => []HandledAsSent
  <1>1. Init => HandledInv
    BY DEF Init, Idle, HandledInv, ReadingInv, ServedInv, AppIsThere, KeyIsAnswered, NotRun, NoReply
  <1>2. HandledInv /\ [Next]_vars => HandledInv'
    BY ReadingStep, ServedStep DEF HandledInv
  <1>3. HandledInv => HandledAsSent
    <2> SUFFICES ASSUME HandledInv PROVE HandledAsSent
      OBVIOUS
    <2>1. ReadingInv /\ ServedInv
      BY DEF HandledInv
    <2>2. WholeRequest
      <3> SUFFICES ASSUME pc = "done", ran.route # 0, reply.code # 101
                   PROVE  /\ Asks(script, Signed(request))
                          /\ request.authorization = LastHeader(script, "authorization")
                          /\ \A i \in 2..Len(script.lines) :
                               Named(script.lines[i], "authorization") =>
                                 /\ FitsLine(script.lines[i])
                                 /\ Len(HeaderValue(script.lines[i])) < AuthorizationCap
        BY DEF WholeRequest
      <3>1. script \in Scripts /\ Handed(script, request)
        BY <2>1 DEF ReadingInv, ServedInv
      <3> QED
        BY <3>1, HandedAsks
    <2>3. WildcardWhole
      BY <2>1 DEF WildcardWhole, ServedInv, Fitting, Stands
    <2>4. AppIsThere /\ KeyIsAnswered
      BY <2>1 DEF ServedInv
    <2> QED
      BY <2>2, <2>3, <2>4 DEF HandledAsSent
  <1> QED
    BY <1>1, <1>2, <1>3, PTL DEF Spec

(* A path under /api/ is one up to its '?', too.                           *)
LEMMA ApiPath ==
    ASSUME NEW t \in Seq(Cell), IsPrefix(<<"/", "api", "/">>, t)
    PROVE  /\ IsPrefix(<<"/", "api", "/">>, Path(t)) /\ Path(t) \in Seq(Cell)
           /\ Len(Path(t)) >= 3 /\ Path(t)[2] = "api"
  <1>1. PICK api : api = <<"/", "api", "/">>
    OBVIOUS
  <1>2. Len(api) = 3 /\ api[1] = "/" /\ api[2] = "api" /\ api[3] = "/"
    BY <1>1
  <1>3. Len(t) >= 3 /\ SubSeq(api, 1, 3) = SubSeq(t, 1, 3)
    <2>1. IsPrefix(api, t)
      BY <1>1
    <2> QED
      BY <1>2, <2>1 DEF IsPrefix
  <1>4. /\ SubSeq(t, 1, 3)[1] = t[1] /\ SubSeq(t, 1, 3)[2] = t[2] /\ SubSeq(t, 1, 3)[3] = t[3]
    BY <1>3
  <1>5. /\ SubSeq(api, 1, 3)[1] = "/" /\ SubSeq(api, 1, 3)[2] = "api" /\ SubSeq(api, 1, 3)[3] = "/"
    BY <1>1
  <1>6. t[1] = "/" /\ t[2] = "api" /\ t[3] = "/"
    BY <1>3, <1>4, <1>5
  <1>7. PICK p : p = Place(t, "?")
    OBVIOUS
  <1>8. Found(t, "?", p)
    BY <1>7, PlaceIs
  <1>9. p \in 1..(Len(t) + 1) /\ p >= 4
    <2>1. p \in 1..(Len(t) + 1) /\ (p <= Len(t) => t[p] = "?")
      BY <1>8 DEF Found
    <2>2. p # 1 /\ p # 2 /\ p # 3
      BY <1>3, <1>6, <2>1
    <2> QED
      BY <2>1, <2>2
  <1>10. PICK b : b = Path(t)
    OBVIOUS
  <1>11. Piece(b, Cell, t, 0, p - 1)
    BY <1>7, <1>10, BeforeIs DEF Path
  <1>12. b \in Seq(Cell) /\ Len(b) = p - 1 /\ \A i \in 1..(p - 1) : b[i] = t[0 + i]
    BY <1>11 DEF Piece
  <1>13. b[1] = "/" /\ b[2] = "api" /\ b[3] = "/"
    <2>1. 1 \in 1..(p - 1) /\ 2 \in 1..(p - 1) /\ 3 \in 1..(p - 1) /\ 0 + 1 = 1 /\ 0 + 2 = 2 /\ 0 + 3 = 3
      BY <1>9
    <2> QED
      BY <1>6, <1>12, <2>1
  <1>14. Len(b) >= 3
    BY <1>9, <1>12
  <1>15. "/" \in Cell /\ "api" \in Cell
    <2>1. t[1] \in Cell /\ t[2] \in Cell
      BY <1>3
    <2> QED
      BY <1>6, <2>1
  <1>16. IsPrefix(api, b)
    <2>1. api \in Seq(Cell)
      BY <1>1, <1>15
    <2>2. \A i \in 1..3 : b[i] = api[i]
      BY <1>2, <1>13
    <2>3. Opens(api, b)
      BY <1>2, <1>12, <1>14, <2>1, <2>2 DEF Opens
    <2> QED
      BY <2>3, PrefixBy
  <1> QED
    BY <1>1, <1>10, <1>12, <1>13, <1>14, <1>16

(* Of the three routes that are for everybody only the upgrade is there.   *)
LEMMA PublicIs ==
    ASSUME NEW r, r.target \in Seq(Cell), NamesApi(r), ~Upgrade(r), Fitting(found, r), Public
    PROVE  FALSE
  <1>1. PICK k : k = found.route
    OBVIOUS
  <1>2. /\ k \in 1..14 /\ kRoutes[k].method = r.method
        /\ Stands(kRoutes[k].pattern, Path(r.target), found.wildcard) /\ ~kRoutes[k].auth
    BY <1>1, TableIs DEF Public, Known, Fitting
  <1>3. PICK b : b = Path(r.target)
    OBVIOUS
  <1>4. Len(b) >= 3 /\ b[2] = "api"
    BY <1>3, ApiPath DEF NamesApi
  <1>5. k \in {1, 2, 5}
    BY <1>2 DEF kRoutes, Route
  <1>6. kRoutes[1].pattern = <<"/">> /\ kRoutes[2].pattern = <<"/", "pair">>
    BY DEF kRoutes, Route
  <1>7. kRoutes[5].pattern = <<"/", "api", "/", "ws">> /\ kRoutes[5].method = <<"GET">>
    BY DEF kRoutes, Route
  <1>8. /\ ~Contains(<<"/">>, "*") /\ ~Contains(<<"/", "pair">>, "*")
        /\ ~Contains(<<"/", "api", "/", "ws">>, "*")
    BY DEF Contains
  <1>9. b = kRoutes[k].pattern
    <2>1. ~Contains(kRoutes[k].pattern, "*")
      BY <1>5, <1>6, <1>7, <1>8
    <2> QED
      BY <1>2, <1>3, <2>1 DEF Stands
  <1>10. CASE k = 1
    BY <1>4, <1>6, <1>9, <1>10
  <1>11. CASE k = 2
    BY <1>4, <1>6, <1>9, <1>11
  <1>12. CASE k = 5
    BY <1>2, <1>3, <1>7, <1>9, <1>12 DEF Upgrade
  <1> QED
    BY <1>5, <1>10, <1>11, <1>12

(* Whoever has not signed what is asked for gets 401, or 503 as long as    *)
(* the clock is not set, for every path under /api/ but the upgrade, and   *)
(* no handler runs (handleRequest, authenticate).                          *)
THEOREM NotEnumerableCorrect == Spec => NotEnumerable
  <1> DEFINE Refuses ==
        /\ pc = "handle" /\ pc' = "done" /\ NamesApi(request) /\ ~Upgrade(request)
        /\ \/ ~parseAuthHeader(LastHeader(script, "authorization"))
           \/ ~Asks(script, script.signs)
        => reply'.code \in {401, 503} /\ ran' = NotRun
  <1>1. Init => HandledInv
    BY DEF Init, Idle, HandledInv, ReadingInv, ServedInv, AppIsThere, KeyIsAnswered, NotRun, NoReply
  <1>2. HandledInv /\ [Next]_vars => HandledInv'
    BY ReadingStep, ServedStep DEF HandledInv
  <1>3. HandledInv /\ [Next]_vars => [Refuses]_vars
    <2> SUFFICES ASSUME HandledInv, Next, pc = "handle", pc' = "done", NamesApi(request),
                        ~Upgrade(request),
                        \/ ~parseAuthHeader(LastHeader(script, "authorization"))
                        \/ ~Asks(script, script.signs)
                 PROVE  reply'.code \in {401, 503} /\ ran' = NotRun
      OBVIOUS
    <2>1. script \in Scripts /\ Handed(script, request) /\ Fitting(found, request) /\ ran = NotRun
      BY DEF HandledInv, ReadingInv, ServedInv
    <2>2. Asks(script, Signed(request)) /\ request.authorization = LastHeader(script, "authorization")
      BY <2>1, HandedAsks
    <2>3. request.target \in Seq(Cell)
      BY <2>1 DEF Handed, Told, Started
    <2>4. ~Public
      BY <2>1, <2>3, PublicIs
    <2>5. UnderApi
      BY <2>3, ApiPath DEF UnderApi, NamesApi
    <2>6. Verdict \in {401, 503}
      <3>1. parseAuthHeader(request.authorization) => Signed(request) # script.signs
        BY <2>2
      <3> QED
        BY <3>1 DEF Verdict
    <2>7. Handle
      BY <2>4 DEF Next, Accept, Between, Relisten, Serves, Reads, ReadChar, RequestLineRead,
                  HeaderRead, HeadersEnd, LineWaits, LineGivesUp, BodyChar, BodyWaits, BodyGivesUp,
                  Drain, Reading, FindRoute, UpgradeRefused, Upgraded, Upgrading, Finish, Listens,
                  Poll, PollFindsGone, FrameWaits, FrameRefused, FrameText, FramePing, FramePassed,
                  FrameEnds, BroadcastFails, Whole, PeerSends, PeerCloses, ClockComes, Radio
    <2>8. Answer(Verdict) /\ ran' = ran
      <3>1. Verdict # 200
        BY <2>6
      <3> QED
        BY <2>4, <2>5, <2>7, <3>1 DEF Handle
    <2>9. reply'.code = Verdict
      <3>1. Verdict # 101
        BY <2>6
      <3> QED
        BY <2>8, <3>1, AnswerIs
    <2> QED
      BY <2>1, <2>6, <2>8, <2>9
  <1>4. [][Refuses]_vars => NotEnumerable
    BY DEF NotEnumerable
  <1> QED
    BY <1>1, <1>2, <1>3, <1>4, PTL DEF Spec

==============================================================================
