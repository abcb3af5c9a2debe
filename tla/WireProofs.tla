------------------------------ MODULE WireProofs ------------------------------
(***************************************************************************)
(* A connection that is not damaged, for any calls, replies and sizes of a  *)
(* read, and wherever it is lost: no decoder refuses the stream, the        *)
(* coordinator acts on what was sent, and a call returns its own answer.    *)
(* One frame travels at a time, so what a decoder holds is always a first   *)
(* part of it.  The last section is about a worker's connection, where they *)
(* follow one another, and where the stream may be refused.                 *)
(***************************************************************************)
EXTENDS WireExchange, WirePush, SequenceTheorems, TLAPS

------------------------------------------------------------------------------
(* Sequences. *)

\* A piece of a sequence.
LEMMA PieceOf ==
    ASSUME NEW S, NEW s \in Seq(S), NEW a \in Nat \ {0}, NEW b \in Nat,
           a <= b + 1, b <= Len(s)
    PROVE  /\ SubSeq(s, a, b) \in Seq(S)
           /\ Len(SubSeq(s, a, b)) = b + 1 - a
           /\ \A i \in 1..(b + 1 - a) : SubSeq(s, a, b)[i] = s[a + i - 1]
  <1>1. \A i \in a..b : s[i] \in S  OBVIOUS
  <1>2. a \in Int /\ b \in Int  OBVIOUS
  <1>3. /\ SubSeq(s, a, b) \in Seq(S)
        /\ Len(SubSeq(s, a, b)) = IF a <= b THEN b - a + 1 ELSE 0
        /\ \A i \in 1..(b - a + 1) : SubSeq(s, a, b)[i] = s[a + i - 1]
    BY <1>1, <1>2, SubSeqProperties
  <1> QED  BY <1>3

LEMMA PieceIs ==
    ASSUME NEW S, NEW s \in Seq(S), NEW t \in Seq(S), NEW a \in Nat \ {0}, NEW b \in Nat,
           b <= Len(s), Len(t) = b + 1 - a, \A i \in 1..Len(t) : s[a + i - 1] = t[i]
    PROVE  SubSeq(s, a, b) = t
  <1>1. a <= b + 1
    <2>1. Len(t) \in Nat  OBVIOUS
    <2> QED  BY <2>1
  <1>2. SubSeq(s, a, b) \in Seq(S) /\ Len(SubSeq(s, a, b)) = b + 1 - a
        /\ \A i \in 1..(b + 1 - a) : SubSeq(s, a, b)[i] = s[a + i - 1]
    BY <1>1, PieceOf
  <1> QED  BY <1>2, SeqEqual

\* One sequence after another.
LEMMA PieceBefore ==
    ASSUME NEW S, NEW s \in Seq(S), NEW t \in Seq(S), NEW a \in Nat \ {0}, NEW b \in Nat,
           a <= b + 1, b <= Len(s)
    PROVE  SubSeq(s \o t, a, b) = SubSeq(s, a, b)
  <1>1. /\ s \o t \in Seq(S) /\ Len(s \o t) = Len(s) + Len(t)
        /\ \A i \in 1..(Len(s) + Len(t)) :
              (s \o t)[i] = IF i <= Len(s) THEN s[i] ELSE t[i - Len(s)]
    BY ConcatProperties
  <1>2. b <= Len(s \o t) /\ Len(s) \in Nat /\ Len(t) \in Nat  BY <1>1
  <1>3. /\ SubSeq(s, a, b) \in Seq(S) /\ Len(SubSeq(s, a, b)) = b + 1 - a
        /\ \A i \in 1..(b + 1 - a) : SubSeq(s, a, b)[i] = s[a + i - 1]
    BY PieceOf
  <1>4. \A i \in 1..Len(SubSeq(s, a, b)) : (s \o t)[a + i - 1] = SubSeq(s, a, b)[i]
    BY <1>1, <1>2, <1>3
  <1> QED  BY <1>1, <1>2, <1>3, <1>4, PieceIs

LEMMA PieceAfter ==
    ASSUME NEW S, NEW s \in Seq(S), NEW t \in Seq(S)
    PROVE  SubSeq(s \o t, Len(s) + 1, Len(s) + Len(t)) = t
  <1> DEFINE a == Len(s) + 1
             b == Len(s) + Len(t)
  <1>1. /\ s \o t \in Seq(S) /\ Len(s \o t) = Len(s) + Len(t)
        /\ \A i \in 1..(Len(s) + Len(t)) :
              (s \o t)[i] = IF i <= Len(s) THEN s[i] ELSE t[i - Len(s)]
    BY ConcatProperties
  <1>2. Len(s) \in Nat /\ Len(t) \in Nat  OBVIOUS
  <1>3. a \in Nat \ {0} /\ b \in Nat /\ b <= Len(s \o t) /\ Len(t) = b + 1 - a
    BY <1>1, <1>2
  <1>4. \A i \in 1..Len(t) : (s \o t)[a + i - 1] = t[i]  BY <1>1, <1>2
  <1> HIDE DEF a, b
  <1>5. SubSeq(s \o t, a, b) = t  BY <1>1, <1>3, <1>4, PieceIs
  <1> QED  BY <1>5 DEF a, b

LEMMA Joined ==
    ASSUME NEW S, NEW s \in Seq(S), NEW t \in Seq(S)
    PROVE  s \o t \in Seq(S) /\ Len(s \o t) = Len(s) + Len(t)
  BY ConcatProperties

\* A piece of a piece.
LEMMA PieceOfPiece ==
    ASSUME NEW S, NEW s \in Seq(S), NEW a \in Nat \ {0}, NEW b \in Nat,
           a <= b + 1, b <= Len(s),
           NEW c \in Nat \ {0}, NEW d \in Nat, c <= d + 1, a + d - 1 <= b
    PROVE  SubSeq(SubSeq(s, a, b), c, d) = SubSeq(s, a + c - 1, a + d - 1)
  <1> DEFINE p == SubSeq(s, a, b)
             q == SubSeq(p, c, d)
             r == SubSeq(s, a + c - 1, a + d - 1)
  <1>1. p \in Seq(S) /\ Len(p) = b + 1 - a
        /\ \A i \in 1..(b + 1 - a) : p[i] = s[a + i - 1]
    BY PieceOf
  <1>2. d <= Len(p)  BY <1>1
  <1> HIDE DEF p
  <1>3. q \in Seq(S) /\ Len(q) = d + 1 - c
        /\ \A i \in 1..(d + 1 - c) : q[i] = p[c + i - 1]
    BY <1>1, <1>2, PieceOf
  <1>4. /\ a + c - 1 \in Nat \ {0} /\ a + d - 1 \in Nat
        /\ a + c - 1 <= (a + d - 1) + 1 /\ a + d - 1 <= Len(s)
    OBVIOUS
  <1>5. r \in Seq(S) /\ Len(r) = d + 1 - c
        /\ \A i \in 1..(d + 1 - c) : r[i] = s[(a + c - 1) + i - 1]
    <2>1. r \in Seq(S) /\ Len(r) = (a + d - 1) + 1 - (a + c - 1)
          /\ \A i \in 1..((a + d - 1) + 1 - (a + c - 1)) : r[i] = s[(a + c - 1) + i - 1]
      BY <1>4, PieceOf
    <2> QED  BY <2>1
  <1>6. ASSUME NEW i \in 1..(d + 1 - c) PROVE q[i] = r[i]
    <2>1. c + i - 1 \in 1..(b + 1 - a) /\ a + (c + i - 1) - 1 = (a + c - 1) + i - 1
      OBVIOUS
    <2> QED  BY <1>1, <1>3, <1>5, <2>1
  <1> HIDE DEF q, r
  <1>7. q = r  BY <1>3, <1>5, <1>6, SeqEqual
  <1> QED  BY <1>7 DEF p, q, r

LEMMA PieceOfPrefix ==
    ASSUME NEW S, NEW s \in Seq(S), NEW k \in Nat, k <= Len(s),
           NEW a \in Nat \ {0}, NEW b \in Nat, a <= b + 1, b <= k
    PROVE  SubSeq(SubSeq(s, 1, k), a, b) = SubSeq(s, a, b)
  <1>1. /\ 1 \in Nat \ {0} /\ 1 <= k + 1 /\ 1 + b - 1 <= k
        /\ 1 + a - 1 = a /\ 1 + b - 1 = b
    OBVIOUS
  <1>2. SubSeq(SubSeq(s, 1, k), a, b) = SubSeq(s, 1 + a - 1, 1 + b - 1)
    BY <1>1, PieceOfPiece
  <1> QED  BY <1>1, <1>2

LEMMA TakeOfPiece ==
    ASSUME NEW S, NEW s \in Seq(S), NEW a \in Nat \ {0}, NEW b \in Nat,
           a <= b + 1, b <= Len(s), NEW n \in 0..(b + 1 - a)
    PROVE  Take(SubSeq(s, a, b), n) = SubSeq(s, a, a + n - 1)
  <1>1. n \in Nat /\ 1 <= n + 1 /\ a + n - 1 <= b /\ 1 \in Nat \ {0} /\ a + 1 - 1 = a
    OBVIOUS
  <1>2. SubSeq(SubSeq(s, a, b), 1, n) = SubSeq(s, a + 1 - 1, a + n - 1)
    BY <1>1, PieceOfPiece
  <1> QED  BY <1>1, <1>2 DEF Take

LEMMA DropOfPiece ==
    ASSUME NEW S, NEW s \in Seq(S), NEW a \in Nat \ {0}, NEW b \in Nat,
           a <= b + 1, b <= Len(s), NEW n \in 0..(b + 1 - a)
    PROVE  Drop(SubSeq(s, a, b), n) = SubSeq(s, a + n, b)
  <1>1. Len(SubSeq(s, a, b)) = b + 1 - a  BY PieceOf
  <1>2. /\ n + 1 \in Nat \ {0} /\ b + 1 - a \in Nat /\ n + 1 <= (b + 1 - a) + 1
        /\ a + (b + 1 - a) - 1 <= b
        /\ a + (n + 1) - 1 = a + n /\ a + (b + 1 - a) - 1 = b
    OBVIOUS
  <1>3. SubSeq(SubSeq(s, a, b), n + 1, b + 1 - a)
           = SubSeq(s, a + (n + 1) - 1, a + (b + 1 - a) - 1)
    BY <1>2, PieceOfPiece
  <1> QED  BY <1>1, <1>2, <1>3 DEF Drop

------------------------------------------------------------------------------
(* Numbers and frames. *)

LEMMA LittleEndianIs ==
    ASSUME NEW n \in Nat, NEW w \in {2, 4}
    PROVE  /\ LittleEndian(n, w) \in Seq(Byte) /\ Len(LittleEndian(n, w)) = w
           /\ LittleEndian(n, w)[1] = n % 256
           /\ LittleEndian(n, w)[2] = (n \div 256) % 256
           /\ w = 4 => /\ LittleEndian(n, w)[3] = (n \div 65536) % 256
                       /\ LittleEndian(n, w)[4] = (n \div Huge) % 256
  <1> DEFINE e == LittleEndian(n, w)
  <1>1. Huge = 16777216  BY DEF Huge
  <1>2. \A i \in 1..w : e[i] \in Byte  BY <1>1 DEF LittleEndian, Byte
  <1>3. e = [i \in 1..w |-> e[i]]  BY DEF LittleEndian
  <1>4. e \in [1..w -> Byte]
    <2> HIDE DEF e
    <2> QED  BY <1>2, <1>3
  <1>5. e \in Seq(Byte) /\ Len(e) = w
    <2> HIDE DEF e
    <2> QED  BY <1>4
  <1> QED  BY <1>1, <1>5 DEF LittleEndian

LEMMA NumberOfTwo ==
    ASSUME NEW s, DOMAIN s = 1..2
    PROVE  Number(s) = s[1] + 256 * s[2] + 65536 * 0
  BY DEF Number

LEMMA NumberOfFour ==
    ASSUME NEW s, DOMAIN s = 1..4, s[4] = 0
    PROVE  Number(s) = s[1] + 256 * s[2] + 65536 * s[3]
  BY DEF Number

\* Reading a number undoes writing it.
LEMMA TwoBytes ==
    ASSUME NEW n \in Nat, n < 65536
    PROVE  Number(LittleEndian(n, 2)) = n
  <1> DEFINE e == LittleEndian(n, 2)
  <1>1. DOMAIN e = 1..2  BY DEF LittleEndian
  <1>2. e[1] = n % 256 /\ e[2] = (n \div 256) % 256  BY DEF LittleEndian
  <1> HIDE DEF e
  <1>3. Number(e) = e[1] + 256 * e[2] + 65536 * 0  BY <1>1, NumberOfTwo
  <1>4. (n % 256) + 256 * ((n \div 256) % 256) + 65536 * 0 = n  OBVIOUS
  <1>5. Number(e) = n  BY <1>2, <1>3, <1>4
  <1> QED  BY <1>5 DEF e

LEMMA FourBytes ==
    ASSUME NEW n \in Nat, n < Huge
    PROVE  Number(LittleEndian(n, 4)) = n
  <1> DEFINE e == LittleEndian(n, 4)
  <1>1. DOMAIN e = 1..4  BY DEF LittleEndian
  <1>2. Huge = 16777216  BY DEF Huge
  <1>3. /\ e[1] = n % 256 /\ e[2] = (n \div 256) % 256
        /\ e[3] = (n \div 65536) % 256 /\ e[4] = (n \div Huge) % 256
    BY LittleEndianIs
  <1>4. (n \div Huge) % 256 = 0  BY <1>2
  <1>5. (n % 256) + 256 * ((n \div 256) % 256) + 65536 * ((n \div 65536) % 256) = n
    BY <1>2
  <1> HIDE DEF e
  <1>6. Number(e) = e[1] + 256 * e[2] + 65536 * e[3]  BY <1>1, <1>3, <1>4, NumberOfFour
  <1>7. Number(e) = n  BY <1>3, <1>5, <1>6
  <1> QED  BY <1>7 DEF e

\* The header, field by field.
LEMMA HeaderIs ==
    ASSUME NEW type \in Nat, NEW length \in Nat
    PROVE  /\ Header(type, length) \in Seq(Byte) /\ Len(Header(type, length)) = 16
           /\ SubSeq(Header(type, length), 1, 4) = Magic
           /\ SubSeq(Header(type, length), 5, 6) = LittleEndian(Version, 2)
           /\ SubSeq(Header(type, length), 7, 8) = LittleEndian(type, 2)
           /\ SubSeq(Header(type, length), 13, 16) = LittleEndian(length, 4)
  <1> DEFINE v == LittleEndian(Version, 2)
             t == LittleEndian(type, 2)
             z == LittleEndian(0, 4)
             l == LittleEndian(length, 4)
             h2 == Magic \o v
             h3 == h2 \o t
             h4 == h3 \o z
             h == h4 \o l
  <1>1. Magic \in Seq(Byte) /\ Len(Magic) = 4  BY DEF Magic, Byte
  <1>2. Version \in Nat  BY DEF Version
  <1>3. /\ v \in Seq(Byte) /\ Len(v) = 2 /\ t \in Seq(Byte) /\ Len(t) = 2
        /\ z \in Seq(Byte) /\ Len(z) = 4 /\ l \in Seq(Byte) /\ Len(l) = 4
    BY <1>2, LittleEndianIs
  <1>4. Header(type, length) = h  BY DEF Header
  <1> HIDE DEF v, t, z, l
  <1>5. Magic \in Seq(Byte) /\ v \in Seq(Byte) /\ t \in Seq(Byte) /\ z \in Seq(Byte)
        /\ l \in Seq(Byte)
    BY <1>1, <1>3
  <1>6. h2 \in Seq(Byte) /\ Len(h2) = Len(Magic) + Len(v)  BY <1>5, Joined
  <1>7. SubSeq(h2, 1, 4) = Magic
    <2>1. 4 <= Len(Magic)  BY <1>1
    <2>2. SubSeq(h2, 1, 4) = SubSeq(Magic, 1, 4)  BY <1>5, <2>1, PieceBefore
    <2> QED  BY <1>1, <2>2, SubSeqFull
  <1>8. SubSeq(h2, 5, 6) = v
    <2>1. 5 = Len(Magic) + 1 /\ 6 = Len(Magic) + Len(v)  BY <1>1, <1>3
    <2>2. SubSeq(Magic \o v, Len(Magic) + 1, Len(Magic) + Len(v)) = v
      BY <1>5, PieceAfter
    <2> QED  BY <2>1, <2>2
  <1> HIDE DEF h2
  <1>9. Len(h2) = 6 /\ 6 <= Len(h2)  BY <1>1, <1>3, <1>6
  <1>10. h3 \in Seq(Byte) /\ Len(h3) = Len(h2) + Len(t)  BY <1>5, <1>6, Joined
  <1>11. SubSeq(h3, 1, 4) = SubSeq(h2, 1, 4) /\ SubSeq(h3, 5, 6) = SubSeq(h2, 5, 6)
    <2>1. 4 <= Len(h2) /\ 6 <= Len(h2)  BY <1>9
    <2> QED  BY <1>5, <1>6, <2>1, PieceBefore
  <1>12. SubSeq(h3, 7, 8) = t
    <2>1. 7 = Len(h2) + 1 /\ 8 = Len(h2) + Len(t)  BY <1>3, <1>9
    <2>2. SubSeq(h2 \o t, Len(h2) + 1, Len(h2) + Len(t)) = t
      BY <1>5, <1>6, PieceAfter
    <2> QED  BY <2>1, <2>2
  <1> HIDE DEF h3
  <1>13. Len(h3) = 8  BY <1>3, <1>9, <1>10
  <1>14. h4 \in Seq(Byte) /\ Len(h4) = Len(h3) + Len(z)  BY <1>5, <1>10, Joined
  <1>15. /\ SubSeq(h4, 1, 4) = SubSeq(h3, 1, 4)
         /\ SubSeq(h4, 5, 6) = SubSeq(h3, 5, 6)
         /\ SubSeq(h4, 7, 8) = SubSeq(h3, 7, 8)
    <2>1. 4 <= Len(h3) /\ 6 <= Len(h3) /\ 8 <= Len(h3)  BY <1>13
    <2> QED  BY <1>5, <1>10, <2>1, PieceBefore
  <1> HIDE DEF h4
  <1>16. Len(h4) = 12  BY <1>3, <1>13, <1>14
  <1>17. h \in Seq(Byte) /\ Len(h) = Len(h4) + Len(l)  BY <1>5, <1>14, Joined
  <1>18. /\ SubSeq(h, 1, 4) = SubSeq(h4, 1, 4)
         /\ SubSeq(h, 5, 6) = SubSeq(h4, 5, 6)
         /\ SubSeq(h, 7, 8) = SubSeq(h4, 7, 8)
    <2>1. 4 <= Len(h4) /\ 6 <= Len(h4) /\ 8 <= Len(h4)  BY <1>16
    <2> QED  BY <1>5, <1>14, <2>1, PieceBefore
  <1>19. SubSeq(h, 13, 16) = l
    <2>1. 13 = Len(h4) + 1 /\ 16 = Len(h4) + Len(l)  BY <1>3, <1>16
    <2>2. SubSeq(h4 \o l, Len(h4) + 1, Len(h4) + Len(l)) = l
      BY <1>5, <1>14, PieceAfter
    <2> QED  BY <2>1, <2>2
  <1> HIDE DEF h
  <1>20. Len(h) = 16  BY <1>3, <1>16, <1>17
  <1> QED
    BY <1>4, <1>7, <1>8, <1>11, <1>12, <1>15, <1>17, <1>18, <1>19, <1>20 DEF v, t, l

\* The frame, field by field; its symbols are bytes and those of the trailer.
Symbols(F) == {F[i] : i \in 1..Len(F)}

IsFrame(F, type, payload) ==
  /\ F \in Seq(Symbols(F)) /\ Len(F) = Len(payload) + 20
  /\ SubSeq(F, 1, 4) = Magic
  /\ SubSeq(F, 5, 6) = LittleEndian(Version, 2)
  /\ SubSeq(F, 7, 8) = LittleEndian(type, 2)
  /\ SubSeq(F, 13, 16) = LittleEndian(Len(payload), 4)
  /\ SubSeq(F, 17, Len(payload) + 16) = payload
  /\ SubSeq(F, Len(payload) + 17, Len(payload) + 20)
       = LittleEndian(crc32(SubSeq(F, 1, Len(payload) + 16)), 4)

LEMMA FrameIs ==
    ASSUME NEW type \in Nat, NEW payload \in Seq(Byte)
    PROVE  IsFrame(EncodedFrame(type, payload), type, payload)
  <1> DEFINE L == Len(payload)
             h == Header(type, L)
             b == h \o payload
             c == LittleEndian(crc32(b), 4)
             T == Byte \cup {c[i] : i \in 1..4}
             F == b \o c
  <1>1. L \in Nat  OBVIOUS
  <1>2. F = EncodedFrame(type, payload)
    BY DEF EncodedFrame, Sealed, kFrameTrailerSize
  <1>3. /\ h \in Seq(Byte) /\ Len(h) = 16
        /\ SubSeq(h, 1, 4) = Magic
        /\ SubSeq(h, 5, 6) = LittleEndian(Version, 2)
        /\ SubSeq(h, 7, 8) = LittleEndian(type, 2)
        /\ SubSeq(h, 13, 16) = LittleEndian(L, 4)
    <2> HIDE DEF L
    <2> QED  BY <1>1, HeaderIs
  <1>4. c \in Seq(T) /\ Len(c) = 4
    <2> HIDE DEF b
    <2>1. c = [i \in 1..4 |-> c[i]]  BY DEF LittleEndian
    <2>2. c \in [1..4 -> T]
      <3> HIDE DEF c
      <3> QED  BY <2>1
    <2> HIDE DEF c, T
    <2>3. \A n \in Nat : c \in [1..n -> T] => c \in Seq(T) /\ Len(c) = n  OBVIOUS
    <2> QED  BY <2>2, <2>3
  <1>5. h \in Seq(T) /\ payload \in Seq(T)
    <2> HIDE DEF c, h
    <2> QED  BY <1>3, SeqMonotonic
  <1> HIDE DEF h, c, T
  <1>6. b \in Seq(T) /\ Len(b) = Len(h) + L  BY <1>5, Joined
  <1>7. /\ SubSeq(b, 1, 4) = SubSeq(h, 1, 4)
        /\ SubSeq(b, 5, 6) = SubSeq(h, 5, 6)
        /\ SubSeq(b, 7, 8) = SubSeq(h, 7, 8)
        /\ SubSeq(b, 13, 16) = SubSeq(h, 13, 16)
    <2>1. 4 <= Len(h) /\ 6 <= Len(h) /\ 8 <= Len(h) /\ 16 <= Len(h)  BY <1>3
    <2> HIDE DEF L
    <2> QED  BY <1>5, <2>1, PieceBefore
  <1>8. SubSeq(b, Len(h) + 1, Len(h) + L) = payload  BY <1>5, PieceAfter
  <1>9. Len(h) + 1 = 17 /\ Len(h) + L = L + 16  BY <1>1, <1>3
  <1> HIDE DEF b
  <1>10. F \in Seq(T) /\ Len(F) = Len(b) + Len(c)  BY <1>4, <1>6, Joined
  <1>11. Len(b) = L + 16 /\ Len(F) = L + 20  BY <1>1, <1>4, <1>6, <1>9, <1>10
  <1>12. /\ SubSeq(F, 1, 4) = SubSeq(b, 1, 4)
         /\ SubSeq(F, 5, 6) = SubSeq(b, 5, 6)
         /\ SubSeq(F, 7, 8) = SubSeq(b, 7, 8)
         /\ SubSeq(F, 13, 16) = SubSeq(b, 13, 16)
    <2>1. 4 <= Len(b) /\ 6 <= Len(b) /\ 8 <= Len(b) /\ 16 <= Len(b)  BY <1>1, <1>11
    <2> QED  BY <1>4, <1>6, <2>1, PieceBefore
  <1>13. SubSeq(F, 17, L + 16) = payload
    <2>1. /\ 17 \in Nat \ {0} /\ L + 16 \in Nat /\ 17 <= (L + 16) + 1 /\ L + 16 <= Len(b)
      BY <1>1, <1>11
    <2>2. SubSeq(F, 17, L + 16) = SubSeq(b, 17, L + 16)
      BY <1>4, <1>6, <2>1, PieceBefore
    <2> QED  BY <1>8, <1>9, <2>2
  <1>14. SubSeq(F, 1, L + 16) = b
    <2>1. 1 \in Nat \ {0} /\ L + 16 \in Nat /\ 1 <= (L + 16) + 1 /\ L + 16 <= Len(b)
      BY <1>1, <1>11
    <2>2. SubSeq(F, 1, L + 16) = SubSeq(b, 1, L + 16)
      BY <1>4, <1>6, <2>1, PieceBefore
    <2>3. SubSeq(b, 1, Len(b)) = b  BY <1>6, SubSeqFull
    <2> QED  BY <1>11, <2>2, <2>3
  <1>15. SubSeq(F, L + 17, L + 20) = c
    <2>1. SubSeq(F, Len(b) + 1, Len(b) + Len(c)) = c  BY <1>4, <1>6, PieceAfter
    <2>2. Len(b) + 1 = L + 17 /\ Len(b) + Len(c) = L + 20  BY <1>1, <1>4, <1>11
    <2> QED  BY <2>1, <2>2
  <1> HIDE DEF F
  <1>16. F \in Seq(Symbols(F))
    <2>1. F \in [1..Len(F) -> T] /\ Len(F) \in Nat  BY <1>10, LenProperties
    <2>2. F \in [1..Len(F) -> Symbols(F)]  BY <2>1 DEF Symbols
    <2> QED  BY <2>1, <2>2, SeqDef
  <1>17. c = LittleEndian(crc32(SubSeq(F, 1, L + 16)), 4)  BY <1>14 DEF c
  <1> QED
    BY <1>2, <1>3, <1>7, <1>11, <1>12, <1>13, <1>15, <1>16, <1>17 DEF IsFrame

LEMMA PayloadLimit == MaxPayload \in Nat /\ MaxPayload < Huge /\ Huge \in Nat
  BY ExchangeAssumption, MaxPayloadAssumption DEF Huge

\* The prefix of a frame that a reader has: it asks for more until it has all of it, and
\* takes what was sent when it has.
LEMMA PrefixDecodes ==
    ASSUME NEW type \in 1..kMessageTypeCount, NEW payload \in Seq(Byte),
           Len(payload) <= MaxPayload, NEW F, IsFrame(F, type, payload), NEW k \in 0..Len(F)
    PROVE  decode_frame(SubSeq(F, 1, k))
             = IF k = Len(F)
               THEN [status |-> "Ok", type |-> type, payload |-> payload, consumed |-> Len(F)]
               ELSE NoFrame("NeedMoreData")
  <1> DEFINE p == SubSeq(F, 1, k)
             L == Len(payload)
  <1>1. L \in Nat /\ L <= MaxPayload /\ L < Huge  BY PayloadLimit
  <1>2. F \in Seq(Symbols(F)) /\ Len(F) = L + 20  BY DEF IsFrame
  <1>3. 1 \in Nat \ {0} /\ k \in Nat /\ 1 <= k + 1 /\ k <= Len(F)  BY <1>1, <1>2
  <1>4. p \in Seq(Symbols(F)) /\ Len(p) = k
    <2>1. p \in Seq(Symbols(F)) /\ Len(p) = k + 1 - 1  BY <1>2, <1>3, PieceOf
    <2> QED  BY <1>3, <2>1
  <1>6. CASE k < 16
    <2>1. decode_frame(p) = NoFrame("NeedMoreData")
      <3> HIDE DEF p
      <3> QED  BY <1>3, <1>4, <1>6 DEF decode_frame, kFrameHeaderSize
    <2> QED  BY <1>1, <1>2, <1>6, <2>1
  <1>7. CASE 16 <= k
    <2>1. /\ SubSeq(p, 1, 4) = Magic
          /\ SubSeq(p, 5, 6) = LittleEndian(Version, 2)
          /\ SubSeq(p, 7, 8) = LittleEndian(type, 2)
          /\ SubSeq(p, 13, 16) = LittleEndian(L, 4)
      <3>1. 4 <= k /\ 6 <= k /\ 8 <= k /\ 16 <= k  BY <1>3, <1>7
      <3>2. /\ SubSeq(p, 1, 4) = SubSeq(F, 1, 4) /\ SubSeq(p, 5, 6) = SubSeq(F, 5, 6)
            /\ SubSeq(p, 7, 8) = SubSeq(F, 7, 8) /\ SubSeq(p, 13, 16) = SubSeq(F, 13, 16)
        BY <1>2, <1>3, <3>1, PieceOfPrefix
      <3> QED  BY <3>2 DEF IsFrame
    <2>2. /\ Take(p, 4) = Magic /\ Number(SubSeq(p, 5, 6)) = Version
          /\ Number(SubSeq(p, 7, 8)) = type /\ Number(SubSeq(p, 13, 16)) = L
      <3>1. Number(LittleEndian(Version, 2)) = Version
        <4>1. Version \in Nat /\ Version < 65536  BY DEF Version
        <4> QED  BY <4>1, TwoBytes
      <3>2. Number(LittleEndian(type, 2)) = type
        <4>1. type \in Nat /\ type < 65536  BY DEF kMessageTypeCount
        <4> QED  BY <4>1, TwoBytes
      <3>3. Number(LittleEndian(L, 4)) = L
        <4> HIDE DEF L
        <4> QED  BY <1>1, FourBytes
      <3> QED  BY <2>1, <3>1, <3>2, <3>3 DEF Take
    <2>3. ~(type = 0 \/ type > kMessageTypeCount) /\ ~(L > MaxPayload)
      BY <1>1, MaxPayloadAssumption DEF kMessageTypeCount
    <2>4. ~(Len(p) < kFrameHeaderSize)  BY <1>3, <1>4, <1>7 DEF kFrameHeaderSize
    <2>5. kFrameHeaderSize + L + kFrameTrailerSize = Len(F) /\ kFrameHeaderSize + L = L + 16
          /\ kFrameHeaderSize + L + 1 = L + 17
      BY <1>1, <1>2 DEF kFrameHeaderSize, kFrameTrailerSize
    <2>6. CASE k # Len(F)
      <3>1. Len(p) < kFrameHeaderSize + L + kFrameTrailerSize  BY <1>1, <1>2, <1>3, <1>4, <2>5, <2>6
      <3>2. decode_frame(p) = NoFrame("NeedMoreData")
        <4> HIDE DEF p, L
        <4> QED  BY <2>2, <2>3, <2>4, <3>1 DEF decode_frame
      <3> QED  BY <2>6, <3>2
    <2>7. CASE k = Len(F)
      <3>1. p = F  BY <1>2, <2>7, SubSeqFull
      <3>2. ~(Len(p) < kFrameHeaderSize + L + kFrameTrailerSize)  BY <1>1, <1>2, <2>5, <3>1
      <3>3. SubSeq(p, kFrameHeaderSize + L + 1, kFrameHeaderSize + L + kFrameTrailerSize)
              = LittleEndian(crc32(SubSeq(p, 1, kFrameHeaderSize + L)), kFrameTrailerSize)
        <4>1. SubSeq(F, L + 17, L + 20) = LittleEndian(crc32(SubSeq(F, 1, L + 16)), 4)
          BY DEF IsFrame
        <4> QED  BY <1>2, <2>5, <3>1, <4>1 DEF kFrameTrailerSize
      <3>4. Drop(SubSeq(p, 1, kFrameHeaderSize + L), kFrameHeaderSize) = payload
        <4>1. SubSeq(F, 17, L + 16) = payload  BY DEF IsFrame
        <4>2. /\ 1 <= (L + 16) + 1 /\ L + 16 \in Nat /\ L + 16 <= Len(F)
              /\ 16 \in 0..((L + 16) + 1 - 1) /\ 1 + 16 = 17
          BY <1>1, <1>2
        <4>3. Drop(SubSeq(F, 1, L + 16), 16) = SubSeq(F, 1 + 16, L + 16)
          <5> DEFINE a == 1
                     b == L + 16
                     n == 16
          <5>1. a \in Nat \ {0} /\ b \in Nat /\ a <= b + 1 /\ b <= Len(F)
                /\ n \in 0..(b + 1 - a)
            BY <4>2
          <5> HIDE DEF L, a, b, n
          <5>2. Drop(SubSeq(F, a, b), n) = SubSeq(F, a + n, b)
            BY <1>2, <5>1, DropOfPiece
          <5> QED  BY <5>2 DEF a, b, n
        <4> QED  BY <2>5, <3>1, <4>1, <4>2, <4>3 DEF kFrameHeaderSize
      <3>5. decode_frame(p) = [status |-> "Ok", type |-> type, payload |-> payload,
                               consumed |-> kFrameHeaderSize + L + kFrameTrailerSize]
        <4> HIDE DEF p, L
        <4> QED  BY <2>2, <2>3, <2>4, <3>2, <3>3, <3>4 DEF decode_frame
      <3> QED  BY <2>5, <2>7, <3>5
    <2> QED  BY <2>6, <2>7
  <1> QED  BY <1>3, <1>6, <1>7

------------------------------------------------------------------------------
(* A decoder and the bytes in flight to it. *)

\* Nothing is underway.
Still(decoder, flight) == decoder = NewDecoder /\ flight = <<>>

Holding(F, k) == [buffer |-> SubSeq(F, 1, k), position |-> 0, failure |-> "Ok"]

\* The decoder holds a first part of F, and the next part of it is in flight: all of the
\* rest as long as nothing was lost.
Carried(decoder, flight, F, whole) ==
  \E k \in 0..Len(F), m \in 0..Len(F) :
    /\ k <= m
    /\ decoder = Holding(F, k) /\ flight = SubSeq(F, k + 1, m)
    /\ whole => m = Len(F)

LEMMA StillPeek == Peek(NewDecoder) = NoFrame("NeedMoreData")
  <1>1. Drop(<<>>, 0) = <<>>
    <2>1. 0 < 0 + 1 /\ 0 \in Int /\ 0 + 1 \in Int /\ Len(<<>>) = 0  OBVIOUS
    <2>2. SubSeq(<<>>, 0 + 1, 0) = <<>>  BY <2>1, SubSeqEmpty
    <2> QED  BY <2>1, <2>2 DEF Drop
  <1>2. Len(<<>>) < kFrameHeaderSize  BY DEF kFrameHeaderSize
  <1>3. decode_frame(<<>>) = NoFrame("NeedMoreData")  BY <1>2 DEF decode_frame
  <1> QED  BY <1>1, <1>3 DEF Peek, NewDecoder

LEMMA StillAfter == After(NewDecoder) = NewDecoder
  BY StillPeek DEF After, Advanced, NoFrame

\* A frame was sent over a connection on which nothing was underway.
LEMMA SentIsCarried ==
    ASSUME NEW S, NEW F \in Seq(S), NEW whole
    PROVE  Carried(NewDecoder, <<>> \o F, F, whole)
  <1>1. <<>> \o F = F  BY ConcatEmptySeq
  <1>2. SubSeq(F, 0 + 1, Len(F)) = F  BY SubSeqFull
  <1>3. SubSeq(F, 1, 0) = <<>>
    <2>1. 0 < 1 /\ 0 \in Int /\ 1 \in Int  OBVIOUS
    <2> QED  BY <2>1, SubSeqEmpty
  <1>4. 0 \in 0..Len(F) /\ Len(F) \in 0..Len(F) /\ 0 <= Len(F)  OBVIOUS
  <1>5. NewDecoder = Holding(F, 0)  BY <1>3 DEF NewDecoder, Holding
  <1> QED  BY <1>1, <1>2, <1>4, <1>5 DEF Carried

\* The bytes in flight are cut off somewhere.
LEMMA LossIsCarried ==
    ASSUME NEW S, NEW F \in Seq(S), NEW d, NEW u, NEW whole, Carried(d, u, F, whole),
           NEW n \in 0..Len(u)
    PROVE  Carried(d, Take(u, n), F, FALSE)
  <1>1. PICK k \in 0..Len(F), m \in 0..Len(F) :
            k <= m /\ d = Holding(F, k) /\ u = SubSeq(F, k + 1, m)
    BY DEF Carried
  <1>2. /\ Len(F) \in Nat /\ k + 1 \in Nat \ {0} /\ m \in Nat /\ k + 1 <= m + 1
        /\ m <= Len(F)
    BY <1>1
  <1>3. Len(u) = m + 1 - (k + 1)  BY <1>1, <1>2, PieceOf
  <1>4. n \in 0..(m + 1 - (k + 1))  BY <1>3
  <1>5. Take(u, n) = SubSeq(F, k + 1, (k + 1) + n - 1)  BY <1>1, <1>2, <1>4, TakeOfPiece
  <1>6. /\ (k + 1) + n - 1 = k + n /\ k + n \in 0..Len(F) /\ k <= k + n
    BY <1>2, <1>4
  <1> QED  BY <1>1, <1>5, <1>6 DEF Carried

\* Pieces of a frame never overrun the decoder.
LEMMA ReadIsCarried ==
    ASSUME NEW S, NEW F \in Seq(S), Len(F) <= MaxFrame, NEW d, NEW u, NEW whole,
           Carried(d, u, F, whole), NEW n \in 0..Len(u)
    PROVE  Carried(Feed(d, Take(u, n)), Drop(u, n), F, whole)
  <1>1. PICK k \in 0..Len(F), m \in 0..Len(F) :
            /\ k <= m /\ d = Holding(F, k) /\ u = SubSeq(F, k + 1, m)
            /\ whole => m = Len(F)
    BY DEF Carried
  <1>2. /\ Len(F) \in Nat /\ k + 1 \in Nat \ {0} /\ m \in Nat /\ k + 1 <= m + 1
        /\ m <= Len(F)
    BY <1>1
  <1>3. Len(u) = m + 1 - (k + 1)  BY <1>1, <1>2, PieceOf
  <1>4. n \in 0..(m + 1 - (k + 1)) /\ n \in Nat  BY <1>3
  <1>5. /\ (k + 1) + n - 1 = k + n /\ (k + 1) + n = (k + n) + 1
        /\ k + n \in 0..Len(F) /\ k + n \in Nat /\ k + n <= m
    BY <1>2, <1>4
  <1> DEFINE chunk == SubSeq(F, k + 1, k + n)
             held == SubSeq(F, 1, k)
  <1>6. Take(u, n) = chunk
    <2>1. Take(u, n) = SubSeq(F, k + 1, (k + 1) + n - 1)
      BY <1>1, <1>2, <1>4, TakeOfPiece
    <2> QED  BY <1>5, <2>1
  <1>7. Drop(u, n) = SubSeq(F, (k + n) + 1, m)  BY <1>1, <1>2, <1>4, <1>5, DropOfPiece
  <1>8. Len(chunk) = n
    <2>1. k + 1 <= (k + n) + 1 /\ k + n <= Len(F)  BY <1>2, <1>4, <1>5
    <2>2. Len(chunk) = (k + n) + 1 - (k + 1)  BY <1>2, <1>5, <2>1, PieceOf
    <2> QED  BY <1>4, <1>5, <2>2
  <1>9. Len(held) = k
    <2>1. 1 \in Nat \ {0} /\ k \in Nat /\ 1 <= k + 1 /\ k <= Len(F)  BY <1>2
    <2>2. Len(held) = k + 1 - 1  BY <2>1, PieceOf
    <2> QED  BY <2>1, <2>2
  <1>10. held \o chunk = SubSeq(F, 1, k + n)
    <2>1. 1 \in 1..(Len(F) + 1) /\ k \in (1 - 1)..Len(F) /\ k + n \in k..Len(F)
      BY <1>2, <1>4, <1>5
    <2> QED  BY <2>1, ConcatAdjacentSubSeq
  <1>11. ~(Len(chunk) > MaxFrame \/ Len(held) + Len(chunk) > MaxFrame)
    <2>1. MaxFrame \in Nat
      BY PayloadLimit DEF MaxFrame, kFrameHeaderSize, kFrameTrailerSize
    <2> HIDE DEF chunk, held
    <2> QED  BY <1>2, <1>4, <1>5, <1>8, <1>9, <2>1
  <1> HIDE DEF chunk, held
  <1>12. Feed(d, chunk) = Holding(F, k + n)
    <2>1. d = [buffer |-> held, position |-> 0, failure |-> "Ok"]
      BY <1>1 DEF Holding, held
    <2>2. CASE 0 = Len(held)
      <3>1. k = 0  BY <1>9, <2>2
      <3>2. chunk = SubSeq(F, 1, k + n)
        <4>1. k + 1 = 1  BY <3>1
        <4> QED  BY <4>1 DEF chunk
      <3>3. Feed(d, chunk) = [buffer |-> chunk, position |-> 0, failure |-> "Ok"]
        BY <1>11, <2>1, <2>2 DEF Feed
      <3> QED  BY <3>2, <3>3 DEF Holding
    <2>3. CASE 0 # Len(held)
      <3>1. Feed(d, chunk) = [buffer |-> held \o chunk, position |-> 0, failure |-> "Ok"]
        BY <1>11, <2>1, <2>3 DEF Feed
      <3> QED  BY <1>10, <3>1 DEF Holding
    <2> QED  BY <2>2, <2>3
  <1> QED  BY <1>1, <1>5, <1>6, <1>7, <1>12 DEF Carried

\* A decoder waits for the rest of the frame, or returns it and is as new.
LEMMA CarriedPeek ==
    ASSUME NEW type \in 1..kMessageTypeCount, NEW payload \in Seq(Byte),
           Len(payload) <= MaxPayload, NEW F, IsFrame(F, type, payload),
           NEW d, NEW u, NEW whole, Carried(d, u, F, whole)
    PROVE  \/ Peek(d) = NoFrame("NeedMoreData") /\ After(d) = d
           \/ /\ Peek(d) = [status |-> "Ok", type |-> type, payload |-> payload,
                            consumed |-> Len(F)]
              /\ After(d) = NewDecoder /\ u = <<>>
  <1>1. PICK k \in 0..Len(F), m \in 0..Len(F) :
            k <= m /\ d = Holding(F, k) /\ u = SubSeq(F, k + 1, m)
    BY DEF Carried
  <1>2. F \in Seq(Symbols(F)) /\ Len(F) \in Nat /\ k \in Nat /\ k <= Len(F)
    BY <1>1 DEF IsFrame
  <1> DEFINE held == SubSeq(F, 1, k)
  <1>3. held \in Seq(Symbols(F)) /\ Len(held) = k
    <2>1. 1 \in Nat \ {0} /\ 1 <= k + 1  BY <1>2
    <2>2. held \in Seq(Symbols(F)) /\ Len(held) = k + 1 - 1  BY <1>2, <2>1, PieceOf
    <2> QED  BY <1>2, <2>2
  <1>4. decode_frame(held) = IF k = Len(F)
                             THEN [status |-> "Ok", type |-> type, payload |-> payload,
                                   consumed |-> Len(F)]
                             ELSE NoFrame("NeedMoreData")
    BY PrefixDecodes
  <1> HIDE DEF held
  <1>5. d = [buffer |-> held, position |-> 0, failure |-> "Ok"]
    BY <1>1 DEF Holding, held
  <1>6. Drop(held, 0) = held
    <2>1. SubSeq(held, 1, Len(held)) = held  BY <1>3, SubSeqFull
    <2>2. 0 + 1 = 1  OBVIOUS
    <2> QED  BY <2>1, <2>2 DEF Drop
  <1>7. Peek(d) = decode_frame(held)  BY <1>5, <1>6 DEF Peek
  <1>8. CASE k = Len(F)
    <2>1. Peek(d) = [status |-> "Ok", type |-> type, payload |-> payload,
                     consumed |-> Len(F)]
      BY <1>4, <1>7, <1>8
    <2>2. 0 + Len(F) = Len(held)  BY <1>2, <1>3, <1>8
    <2>3. After(d) = NewDecoder  BY <1>5, <2>1, <2>2 DEF After, Advanced
    <2>4. u = <<>>
      <3>1. k + 1 \in Int /\ m \in Int /\ m < k + 1  BY <1>1, <1>2, <1>8
      <3> QED  BY <1>1, <3>1, SubSeqEmpty
    <2> QED  BY <2>1, <2>3, <2>4
  <1>9. CASE k # Len(F)
    <2>1. Peek(d) = NoFrame("NeedMoreData")  BY <1>4, <1>7, <1>9
    <2>2. After(d) = d  BY <2>1 DEF After, Advanced, NoFrame
    <2> QED  BY <2>1, <2>2
  <1> QED  BY <1>8, <1>9

LEMMA CarriedFailure ==
    ASSUME NEW d, NEW u, NEW F, NEW whole, Carried(d, u, F, whole)
    PROVE  d.failure = "Ok"
  BY DEF Carried, Holding

------------------------------------------------------------------------------
(* The invariant of a connection that is not damaged. *)

RequestPayload(r) == Encode(r.structure, r.message).value
RequestFrame(r) == EncodedFrame(TypeOf[r.structure], RequestPayload(r))
ReplyPayload(reply) == Encode("Reply", reply).value
ReplyFrame(reply) == EncodedFrame(TypeOf["Reply"], ReplyPayload(reply))

\* The requests and the replies that travel.
Sent(r) == (\E n \in DOMAIN Requests : r \in Requests[n]) /\ Encode(r.structure, r.message).ok
Answered(reply) == reply \in Replies \cup {Rejection} /\ Encode("Reply", reply).ok

\* To the session: the frame of the one call it has not taken yet.
Upward ==
  /\ link => open
  /\ open => IF pending = <<>> THEN Still(session, up)
             ELSE /\ pending = <<pending[1]>> /\ Sent(pending[1])
                  /\ Carried(session, up, RequestFrame(pending[1]), link)
  /\ ~open => pending = <<>>
  /\ session.failure = "Ok"

\* To the client: the frame of the answer to the call it waits for.
Downward ==
  /\ waiting => \/ Still(channel, down)
                \/ /\ answer.to = request /\ Answered(answer.reply) /\ pending = <<>>
                   /\ Carried(channel, down, ReplyFrame(answer.reply), link)
  /\ link /\ ~waiting => Still(channel, down)
  /\ channel.failure = "Ok"

\* A call is over before the next is sent.
OneCall ==
  /\ waiting /\ pending # <<>> => pending[1] = request
  /\ link /\ ~waiting => pending = <<>>
  /\ result.kind = "reply" => pending = <<>>

Sound == Upward /\ Downward /\ OneCall /\ ReplyIsTheAnswer
WireInv == ~damaged => Sound

\* What travels is a frame.
LEMMA RequestIsFrame ==
    ASSUME NEW r, Sent(r)
    PROVE  /\ r.structure \in Structures /\ TypeOf[r.structure] \in 1..kMessageTypeCount
           /\ RequestPayload(r) \in Seq(Byte) /\ Len(RequestPayload(r)) <= MaxPayload
           /\ IsFrame(RequestFrame(r), TypeOf[r.structure], RequestPayload(r))
  <1>1. r.structure \in Structures /\ Sendable(r.structure, r.message)
    BY ExchangeAssumption DEF Sent
  <1>2. RequestPayload(r) \in Seq(Byte) /\ Len(RequestPayload(r)) <= MaxPayload
    BY <1>1 DEF Sent, Sendable, RequestPayload
  <1>3. TypeOf[r.structure] \in 1..kMessageTypeCount  BY <1>1, CodecAssumption
  <1>4. TypeOf[r.structure] \in Nat  BY <1>3 DEF kMessageTypeCount
  <1>5. IsFrame(RequestFrame(r), TypeOf[r.structure], RequestPayload(r))
    BY <1>2, <1>4, FrameIs DEF RequestFrame
  <1> QED  BY <1>1, <1>2, <1>3, <1>5

LEMMA ReplyIsFrame ==
    ASSUME NEW reply, Answered(reply)
    PROVE  /\ TypeOf["Reply"] \in 1..kMessageTypeCount
           /\ ReplyPayload(reply) \in Seq(Byte) /\ Len(ReplyPayload(reply)) <= MaxPayload
           /\ IsFrame(ReplyFrame(reply), TypeOf["Reply"], ReplyPayload(reply))
           /\ LET read == Decode("Reply", ReplyPayload(reply))
              IN read.ok => read.value = reply
  <1>1. /\ Sendable("Reply", reply)
        /\ LET read == Decode("Reply", ReplyPayload(reply))
           IN read.ok => read.value = reply
    BY CodecAssumption DEF Answered, ReplyPayload
  <1>2. ReplyPayload(reply) \in Seq(Byte) /\ Len(ReplyPayload(reply)) <= MaxPayload
    BY <1>1 DEF Answered, Sendable, ReplyPayload
  <1>3. TypeOf["Reply"] \in 1..kMessageTypeCount  BY CodecAssumption
  <1>4. TypeOf["Reply"] \in Nat  BY <1>3 DEF kMessageTypeCount
  <1>5. IsFrame(ReplyFrame(reply), TypeOf["Reply"], ReplyPayload(reply))
    BY <1>2, <1>4, FrameIs DEF ReplyFrame
  <1> QED  BY <1>1, <1>2, <1>3, <1>5

\* A frame is a sequence that fits into a decoder.
LEMMA FrameFits ==
    ASSUME NEW type, NEW payload \in Seq(Byte), Len(payload) <= MaxPayload,
           NEW F, IsFrame(F, type, payload)
    PROVE  F \in Seq(Symbols(F)) /\ Len(F) <= MaxFrame
  <1>1. Len(payload) \in Nat  OBVIOUS
  <1> QED  BY <1>1, PayloadLimit DEF IsFrame, MaxFrame, kFrameHeaderSize, kFrameTrailerSize

LEMMA PieceSize ==
    ASSUME NEW S, NEW u \in Seq(S), NEW size \in ReadSizes
    PROVE  Piece(u, size) \in 0..Len(u)
  <1>1. size \in Nat /\ Len(u) \in Nat  BY ExchangeAssumption
  <1> QED  BY <1>1 DEF Piece

\* What is in flight is a sequence.
LEMMA FlightIsSeq ==
    ASSUME NEW S, NEW F \in Seq(S), NEW d, NEW u, NEW whole, Carried(d, u, F, whole)
    PROVE  u \in Seq(S)
  <1>1. PICK k \in 0..Len(F), m \in 0..Len(F) : k <= m /\ u = SubSeq(F, k + 1, m)
    BY DEF Carried
  <1>2. k + 1 \in Nat \ {0} /\ m \in Nat /\ k + 1 <= m + 1 /\ m <= Len(F)  BY <1>1
  <1> QED  BY <1>1, <1>2, PieceOf

\* The session finds a whole frame, the pending one, or waits.
LEMMA SessionPeek ==
    ASSUME Sound, open
    PROVE  /\ pending = <<>> => Peek(session) = NoFrame("NeedMoreData")
           /\ pending # <<>> =>
                \/ Peek(session) = NoFrame("NeedMoreData")
                \/ /\ Peek(session).status = "Ok"
                   /\ Peek(session).type = TypeOf[pending[1].structure]
                   /\ Peek(session).payload = RequestPayload(pending[1])
                   /\ After(session) = NewDecoder /\ up = <<>>
  <1>1. CASE pending = <<>>
    <2>1. session = NewDecoder  BY <1>1 DEF Sound, Upward, Still
    <2> QED  BY <1>1, <2>1, StillPeek
  <1>2. CASE pending # <<>>
    <2> DEFINE r == pending[1]
    <2>1. Sent(r) /\ Carried(session, up, RequestFrame(r), link)
      BY <1>2 DEF Sound, Upward
    <2>2. /\ TypeOf[r.structure] \in 1..kMessageTypeCount
          /\ RequestPayload(r) \in Seq(Byte) /\ Len(RequestPayload(r)) <= MaxPayload
          /\ IsFrame(RequestFrame(r), TypeOf[r.structure], RequestPayload(r))
      BY <2>1, RequestIsFrame
    <2>3. \/ Peek(session) = NoFrame("NeedMoreData")
          \/ /\ Peek(session) = [status |-> "Ok", type |-> TypeOf[r.structure],
                                 payload |-> RequestPayload(r),
                                 consumed |-> Len(RequestFrame(r))]
             /\ After(session) = NewDecoder /\ up = <<>>
      BY <2>1, <2>2, CarriedPeek
    <2> HIDE DEF r
    <2>4. \/ Peek(session) = NoFrame("NeedMoreData")
          \/ /\ Peek(session).status = "Ok"
             /\ Peek(session).type = TypeOf[r.structure]
             /\ Peek(session).payload = RequestPayload(r)
             /\ After(session) = NewDecoder /\ up = <<>>
      BY <2>3
    <2> QED  BY <1>2, <2>4 DEF r
  <1> QED  BY <1>1, <1>2

\* The client finds the whole answer to its call, or waits.
LEMMA ClientPeek ==
    ASSUME Sound, waiting
    PROVE  \/ Peek(channel) = NoFrame("NeedMoreData") /\ After(channel) = channel
           \/ /\ Peek(channel).status = "Ok"
              /\ Peek(channel).payload = ReplyPayload(answer.reply)
              /\ Answered(answer.reply) /\ answer.to = request /\ pending = <<>>
              /\ After(channel) = NewDecoder /\ down = <<>>
  <1>1. CASE Still(channel, down)
    BY <1>1, StillPeek, StillAfter DEF Still
  <1>2. CASE ~Still(channel, down)
    <2>1. /\ answer.to = request /\ Answered(answer.reply) /\ pending = <<>>
          /\ Carried(channel, down, ReplyFrame(answer.reply), link)
      BY <1>2 DEF Sound, Downward
    <2>2. /\ TypeOf["Reply"] \in 1..kMessageTypeCount
          /\ ReplyPayload(answer.reply) \in Seq(Byte)
          /\ Len(ReplyPayload(answer.reply)) <= MaxPayload
          /\ IsFrame(ReplyFrame(answer.reply), TypeOf["Reply"], ReplyPayload(answer.reply))
      BY <2>1, ReplyIsFrame
    <2>3. \/ Peek(channel) = NoFrame("NeedMoreData") /\ After(channel) = channel
          \/ /\ Peek(channel) = [status |-> "Ok", type |-> TypeOf["Reply"],
                                 payload |-> ReplyPayload(answer.reply),
                                 consumed |-> Len(ReplyFrame(answer.reply))]
             /\ After(channel) = NewDecoder /\ down = <<>>
      BY <2>1, <2>2, CarriedPeek
    <2>4. \/ Peek(channel) = NoFrame("NeedMoreData") /\ After(channel) = channel
          \/ /\ Peek(channel).status = "Ok"
             /\ Peek(channel).payload = ReplyPayload(answer.reply)
             /\ After(channel) = NewDecoder /\ down = <<>>
      BY <2>3
    <2> QED  BY <2>1, <2>4
  <1> QED  BY <1>1, <1>2

------------------------------------------------------------------------------
(* The steps. *)

LEMMA WireInit == Init => WireInv
  <1>1. SUFFICES ASSUME Init PROVE Sound  BY DEF WireInv
  <1>2. Upward  BY <1>1 DEF Init, Upward, Still, NewDecoder
  <1>3. Downward  BY <1>1 DEF Init, Downward, Still, NewDecoder
  <1>4. OneCall /\ ReplyIsTheAnswer
    BY <1>1 DEF Init, OneCall, ReplyIsTheAnswer, NoResult
  <1> QED  BY <1>2, <1>3, <1>4 DEF Sound

LEMMA CallKeeps ==
    ASSUME Sound, NEW n \in DOMAIN Requests, NEW r \in Requests[n], Call(r)
    PROVE  Sound'
  <1>1. /\ ~waiting /\ request' = r
        /\ UNCHANGED <<open, session, down, link, channel>>
    BY DEF Call
  <1>2. CASE Encode(r.structure, r.message).ok /\ link
    <2>1. open /\ pending = <<>> /\ Still(session, up) /\ Still(channel, down)
      BY <1>1, <1>2 DEF Sound, Upward, Downward, OneCall
    <2>2. waiting' = TRUE /\ result' = NoResult
      BY <1>2 DEF Call
    <2>3. up' = up \o RequestFrame(r) /\ pending' = Append(pending, r)
      BY <1>2, <2>1 DEF Call, RequestFrame, RequestPayload
    <2>4. Sent(r)  BY <1>2 DEF Sent
    <2>5. RequestFrame(r) \in Seq(Symbols(RequestFrame(r)))
      BY <2>4, RequestIsFrame, FrameFits
    <2>6. Carried(session', up', RequestFrame(r), link')
      <3>1. Carried(NewDecoder, <<>> \o RequestFrame(r), RequestFrame(r), link')
        BY <2>5, SentIsCarried
      <3> QED  BY <1>1, <2>1, <2>3, <3>1 DEF Still
    <2>7. pending' = <<r>> /\ pending'[1] = r  BY <2>1, <2>3
    <2>8. session.failure = "Ok" /\ channel.failure = "Ok"
      BY DEF Sound, Upward, Downward
    <2>9. Upward'
      <3>1. pending' # <<>> /\ pending' = <<pending'[1]>>  BY <2>7
      <3>2. Carried(session, up, RequestFrame(pending[1]), link)'
        BY <2>6, <2>7 DEF RequestFrame, RequestPayload
      <3>3. Sent(pending[1])'  BY <2>4, <2>7 DEF Sent
      <3> QED  BY <1>1, <2>1, <2>8, <3>1, <3>2, <3>3 DEF Upward
    <2>10. Downward'  BY <1>1, <2>1, <2>2, <2>8 DEF Downward, Still
    <2>11. OneCall' /\ ReplyIsTheAnswer'
      BY <1>1, <2>2, <2>7 DEF OneCall, ReplyIsTheAnswer, NoResult
    <2> QED  BY <2>9, <2>10, <2>11 DEF Sound
  <1>3. CASE ~(Encode(r.structure, r.message).ok /\ link)
    <2>1. waiting' = FALSE /\ result' = [kind |-> "rejected", reply |-> <<>>]
          /\ UNCHANGED <<up, pending>>
      BY <1>3 DEF Call, Returns
    <2>2. Upward'  BY <1>1, <2>1 DEF Sound, Upward, Still
    <2>3. Downward'  BY <1>1, <2>1 DEF Sound, Downward, Still
    <2>4. OneCall' /\ ReplyIsTheAnswer'
      BY <1>1, <2>1 DEF Sound, OneCall, ReplyIsTheAnswer
    <2> QED  BY <2>2, <2>3, <2>4 DEF Sound
  <1> QED  BY <1>2, <1>3

LEMMA ClientReadKeeps ==
    ASSUME Sound, NEW size \in ReadSizes, ClientRead(size)
    PROVE  Sound'
  <1>1. /\ waiting /\ down # <<>>
        /\ channel' = Feed(channel, Take(down, Piece(down, size)))
        /\ down' = Drop(down, Piece(down, size))
        /\ UNCHANGED <<calls, request, waiting, result, open, session, pending, handled,
                       answer, up, link>>
    BY DEF ClientRead, server
  <1>2. /\ answer.to = request /\ Answered(answer.reply) /\ pending = <<>>
        /\ Carried(channel, down, ReplyFrame(answer.reply), link)
    BY <1>1 DEF Sound, Downward, Still
  <1> DEFINE F == ReplyFrame(answer.reply)
  <1>3. F \in Seq(Symbols(F)) /\ Len(F) <= MaxFrame  BY <1>2, ReplyIsFrame, FrameFits
  <1> HIDE DEF F
  <1>4. Carried(channel, down, F, link)  BY <1>2 DEF F
  <1>5. Piece(down, size) \in 0..Len(down)  BY <1>3, <1>4, FlightIsSeq, PieceSize
  <1>6. Carried(channel', down', F, link)  BY <1>1, <1>3, <1>4, <1>5, ReadIsCarried
  <1>7. channel'.failure = "Ok"  BY <1>6, CarriedFailure
  <1>8. Carried(channel, down, ReplyFrame(answer.reply), link)'
    BY <1>1, <1>6 DEF F, ReplyFrame, ReplyPayload
  <1>9. Downward'  BY <1>1, <1>2, <1>7, <1>8 DEF Downward, Answered
  <1>10. Upward'  BY <1>1, <1>2 DEF Sound, Upward, Still
  <1>11. OneCall' /\ ReplyIsTheAnswer'  BY <1>1 DEF Sound, OneCall, ReplyIsTheAnswer
  <1> QED  BY <1>9, <1>10, <1>11 DEF Sound

LEMMA ClientReturnKeeps ==
    ASSUME Sound, ClientReturn
    PROVE  Sound'
  <1> DEFINE read == Decode("Reply", Peek(channel).payload)
  <1>1. /\ waiting /\ waiting' = FALSE /\ channel' = After(channel)
        /\ Peek(channel).status = "NeedMoreData" => down = <<>> /\ ~(link /\ open)
        /\ \/ Peek(channel).status = "Ok" /\ read.ok
              /\ result' = [kind |-> "reply", reply |-> read.value]
           \/ result' = [kind |-> "rejected", reply |-> <<>>]
        /\ UNCHANGED <<calls, request, open, session, pending, handled, answer, up, down, link>>
    BY DEF ClientReturn, Returns, server
  <1>2. Upward'
    <2>1. UNCHANGED <<open, session, pending, up, link>>  BY <1>1
    <2>2. Upward  BY DEF Sound
    <2> QED  BY <2>1, <2>2 DEF Upward, Still, Sent, Carried, RequestFrame, RequestPayload
  <1>3. CASE Peek(channel) = NoFrame("NeedMoreData") /\ After(channel) = channel
    <2>1. Peek(channel).status = "NeedMoreData"  BY <1>3 DEF NoFrame
    <2>2. ~link /\ result' = [kind |-> "rejected", reply |-> <<>>]
      BY <1>1, <2>1 DEF Sound, Upward
    <2>3. Downward'  BY <1>1, <1>3, <2>2 DEF Sound, Downward
    <2>4. OneCall' /\ ReplyIsTheAnswer'
      BY <1>1, <2>2 DEF OneCall, ReplyIsTheAnswer
    <2> QED  BY <1>2, <2>3, <2>4 DEF Sound
  <1>4. CASE /\ Peek(channel).payload = ReplyPayload(answer.reply)
             /\ Answered(answer.reply) /\ answer.to = request /\ pending = <<>>
             /\ After(channel) = NewDecoder /\ down = <<>>
    <2>1. read.ok => read.value = answer.reply  BY <1>4, ReplyIsFrame
    <2>2. Downward'  BY <1>1, <1>4 DEF Downward, Still, NewDecoder
    <2>3. OneCall'  BY <1>1, <1>4 DEF OneCall
    <2>4. ReplyIsTheAnswer'
      <3> HIDE DEF read
      <3> QED  BY <1>1, <1>4, <2>1 DEF ReplyIsTheAnswer
    <2> QED  BY <1>2, <2>2, <2>3, <2>4 DEF Sound
  <1> QED  BY <1>1, <1>3, <1>4, ClientPeek

LEMMA SessionReadKeeps ==
    ASSUME Sound, NEW size \in ReadSizes, SessionRead(size)
    PROVE  Sound'
  <1>1. /\ open /\ up # <<>>
        /\ session' = Feed(session, Take(up, Piece(up, size)))
        /\ up' = Drop(up, Piece(up, size))
        /\ UNCHANGED <<calls, request, waiting, result, channel, down, link, open, pending,
                       handled, answer>>
    BY DEF SessionRead, client
  <1>2. /\ pending # <<>> /\ pending = <<pending[1]>> /\ Sent(pending[1])
        /\ Carried(session, up, RequestFrame(pending[1]), link)
    BY <1>1 DEF Sound, Upward, Still
  <1> DEFINE F == RequestFrame(pending[1])
  <1>3. F \in Seq(Symbols(F)) /\ Len(F) <= MaxFrame  BY <1>2, RequestIsFrame, FrameFits
  <1> HIDE DEF F
  <1>4. Carried(session, up, F, link)  BY <1>2 DEF F
  <1>5. Piece(up, size) \in 0..Len(up)  BY <1>3, <1>4, FlightIsSeq, PieceSize
  <1>6. Carried(session', up', F, link)  BY <1>1, <1>3, <1>4, <1>5, ReadIsCarried
  <1>7. session'.failure = "Ok"  BY <1>6, CarriedFailure
  <1>8. Carried(session, up, RequestFrame(pending[1]), link)'
    BY <1>1, <1>6 DEF F, RequestFrame, RequestPayload
  <1>9. Sent(pending[1])'  BY <1>1, <1>2 DEF Sent
  <1>10. link => open  BY DEF Sound, Upward
  <1>11. Upward'  BY <1>1, <1>2, <1>7, <1>8, <1>9, <1>10 DEF Upward
  <1>12. Downward'
    <2>1. UNCHANGED <<request, waiting, channel, down, link, pending, answer>>  BY <1>1
    <2>2. Downward  BY DEF Sound
    <2> QED  BY <2>1, <2>2 DEF Downward, Still, Answered, Carried, ReplyFrame, ReplyPayload
  <1>13. OneCall' /\ ReplyIsTheAnswer'  BY <1>1 DEF Sound, OneCall, ReplyIsTheAnswer
  <1> QED  BY <1>11, <1>12, <1>13 DEF Sound

\* Nothing of it was sent.
LEMMA NothingIsCarried ==
    ASSUME NEW S, NEW F \in Seq(S)
    PROVE  Carried(NewDecoder, <<>>, F, FALSE)
  <1>1. SubSeq(F, 1, 0) = <<>>
    <2>1. 0 < 1 /\ 0 \in Int /\ 1 \in Int  OBVIOUS
    <2> QED  BY <2>1, SubSeqEmpty
  <1>2. NewDecoder = Holding(F, 0)  BY <1>1 DEF NewDecoder, Holding
  <1>3. 0 \in 0..Len(F) /\ 0 <= 0 /\ 0 + 1 = 1  OBVIOUS
  <1> QED  BY <1>1, <1>2, <1>3 DEF Carried

LEMMA SessionHandleKeeps ==
    ASSUME Sound, SessionHandle
    PROVE  Sound'
  <1>1. /\ open /\ Peek(session).status = "Ok"
        /\ session' = After(session) /\ pending' = Tail(pending)
        /\ UNCHANGED <<calls, request, waiting, result, channel, up, link, open>>
    BY DEF SessionHandle, client
  <1>2. NoFrame("NeedMoreData").status # "Ok"  BY DEF NoFrame
  <1>3. /\ pending # <<>> /\ session' = NewDecoder /\ up = <<>>
        /\ pending = <<pending[1]>>
    <2>1. pending # <<>> => pending = <<pending[1]>>  BY <1>1 DEF Sound, Upward
    <2> QED  BY <1>1, <1>2, <2>1, SessionPeek
  <1>4. pending' = <<>> /\ Head(pending) = pending[1]  BY <1>1, <1>3
  <1>5. PICK reply \in Replies \cup {Rejection} : Answer(reply)  BY DEF SessionHandle
  <1>6. Upward'
    <2>1. link => open  BY DEF Sound, Upward
    <2>2. NewDecoder.failure = "Ok"  BY DEF NewDecoder
    <2> QED  BY <1>1, <1>3, <1>4, <2>1, <2>2 DEF Upward, Still
  <1>7. (link => waiting) /\ (waiting => Still(channel, down) /\ pending[1] = request)
    BY <1>3 DEF Sound, Downward, OneCall
  <1>8. Downward'
    <2>1. channel'.failure = "Ok"  BY <1>1 DEF Sound, Downward
    <2>2. CASE Encode("Reply", reply).ok
      <3>1. /\ answer' = [to |-> pending[1], reply |-> reply]
            /\ down' = IF link THEN down \o ReplyFrame(reply) ELSE down
        BY <1>4, <1>5, <2>2 DEF Answer, ReplyFrame, ReplyPayload
      <3>2. Answered(reply)  BY <2>2 DEF Answered
      <3>3. ReplyFrame(reply) \in Seq(Symbols(ReplyFrame(reply)))
        BY <3>2, ReplyIsFrame, FrameFits
      <3>4. ASSUME waiting PROVE Carried(channel, down', ReplyFrame(reply), link)
        <4>1. channel = NewDecoder /\ down = <<>>  BY <1>7, <3>4 DEF Still
        <4>2. CASE link
          <5>1. Carried(NewDecoder, <<>> \o ReplyFrame(reply), ReplyFrame(reply), link)
            BY <3>3, SentIsCarried
          <5> QED  BY <3>1, <4>1, <4>2, <5>1
        <4>3. CASE ~link
          <5>1. Carried(NewDecoder, <<>>, ReplyFrame(reply), FALSE)
            BY <3>3, NothingIsCarried
          <5> QED  BY <3>1, <4>1, <4>3, <5>1 DEF Carried
        <4> QED  BY <4>2, <4>3
      <3>5. answer'.to = pending[1] /\ answer'.reply = reply  BY <3>1
      <3>6. waiting' => Carried(channel, down, ReplyFrame(answer.reply), link)'
        BY <1>1, <3>4, <3>5 DEF ReplyFrame, ReplyPayload
      <3>7. Answered(answer.reply)'  BY <3>2, <3>5 DEF Answered
      <3> QED  BY <1>1, <1>4, <1>7, <2>1, <3>5, <3>6, <3>7 DEF Downward
    <2>3. CASE ~Encode("Reply", reply).ok
      <3>1. down' = down  BY <1>5, <2>3 DEF Answer
      <3> QED  BY <1>1, <1>7, <2>1, <3>1 DEF Downward, Still
    <2> QED  BY <2>2, <2>3
  <1>9. OneCall'  BY <1>4 DEF OneCall
  <1>10. ReplyIsTheAnswer'
    <2>1. result'.kind # "reply"  BY <1>1, <1>3 DEF Sound, OneCall
    <2> QED  BY <2>1 DEF ReplyIsTheAnswer
  <1> QED  BY <1>6, <1>8, <1>9, <1>10 DEF Sound

\* The session finds no framing violation.
LEMMA NothingIsRefused ==
    ASSUME Sound, SessionRefuse
    PROVE  FALSE
  <1>1. open /\ Peek(session).status \notin {"Ok", "NeedMoreData"}  BY DEF SessionRefuse
  <1>2. NoFrame("NeedMoreData").status = "NeedMoreData"  BY DEF NoFrame
  <1> QED  BY <1>1, <1>2, SessionPeek

LEMMA SessionClosedKeeps ==
    ASSUME Sound, SessionClosed
    PROVE  Sound'
  <1>1. /\ ~link /\ open' = FALSE /\ pending' = <<>>
        /\ UNCHANGED <<calls, request, waiting, result, channel, up, down, link, session,
                       handled, answer>>
    BY DEF SessionClosed, client
  <1>2. Upward'
    <2>1. session.failure = "Ok"  BY DEF Sound, Upward
    <2> QED  BY <1>1, <2>1 DEF Upward
  <1>3. Downward'
    <2>1. UNCHANGED <<request, waiting, channel, down, link, answer>>  BY <1>1
    <2>2. Downward  BY DEF Sound
    <2> QED  BY <1>1, <2>1, <2>2
         DEF Downward, Still, Answered, Carried, ReplyFrame, ReplyPayload
  <1>4. OneCall' /\ ReplyIsTheAnswer'  BY <1>1 DEF Sound, OneCall, ReplyIsTheAnswer
  <1> QED  BY <1>2, <1>3, <1>4 DEF Sound

\* Where the bytes in flight are cut.
LEMMA CutIsWithin ==
    ASSUME NEW S, NEW u \in Seq(S), NEW n \in {0, Len(u) \div 2, Len(u)}
    PROVE  n \in 0..Len(u)
  <1>1. Len(u) \in Nat  OBVIOUS
  <1> QED  BY <1>1

LEMMA LoseKeeps ==
    ASSUME Sound, Lose
    PROVE  Sound'
  <1>1. /\ link /\ link' = FALSE
        /\ UNCHANGED <<calls, request, waiting, result, channel, open, session, pending,
                       handled, answer>>
    BY DEF Lose, client, server
  <1>2. PICK a \in {0, Len(up) \div 2, Len(up)}, b \in {0, Len(down) \div 2, Len(down)} :
            up' = Take(up, a) /\ down' = Take(down, b)
    BY DEF Lose
  <1>3. <<>> \in Seq({}) /\ Len(<<>>) = 0 /\ \A n \in 0..0 : Take(<<>>, n) = <<>>
    <2>1. 0 < 1 /\ 0 \in Int /\ 1 \in Int  OBVIOUS
    <2>2. SubSeq(<<>>, 1, 0) = <<>>  BY <2>1, SubSeqEmpty
    <2> QED  BY <2>2 DEF Take
  <1>4. Upward'
    <2>1. session'.failure = "Ok"  BY <1>1 DEF Sound, Upward
    <2>2. open'  BY <1>1 DEF Sound, Upward
    <2>3. CASE pending = <<>>
      <3>1. session = NewDecoder /\ up = <<>>  BY <1>1, <2>2, <2>3 DEF Sound, Upward, Still
      <3>2. up' = <<>>  BY <1>2, <1>3, <3>1, CutIsWithin
      <3> QED  BY <1>1, <2>1, <2>2, <2>3, <3>1, <3>2 DEF Upward, Still
    <2>4. CASE pending # <<>>
      <3>1. /\ pending = <<pending[1]>> /\ Sent(pending[1])
            /\ Carried(session, up, RequestFrame(pending[1]), link)
        BY <1>1, <2>2, <2>4 DEF Sound, Upward
      <3> DEFINE F == RequestFrame(pending[1])
      <3>2. F \in Seq(Symbols(F))  BY <3>1, RequestIsFrame, FrameFits
      <3> HIDE DEF F
      <3>3. Carried(session, up, F, link)  BY <3>1 DEF F
      <3>4. a \in 0..Len(up)  BY <3>2, <3>3, FlightIsSeq, CutIsWithin
      <3>5. Carried(session, Take(up, a), F, FALSE)  BY <3>2, <3>3, <3>4, LossIsCarried
      <3>6. Carried(session, up, RequestFrame(pending[1]), link)'
        BY <1>1, <1>2, <3>5 DEF F, RequestFrame, RequestPayload
      <3>7. Sent(pending[1])'  BY <1>1, <3>1 DEF Sent
      <3> QED  BY <1>1, <2>1, <2>2, <2>4, <3>1, <3>6, <3>7 DEF Upward
    <2> QED  BY <2>3, <2>4
  <1>5. Downward'
    <2>1. channel'.failure = "Ok"  BY <1>1 DEF Sound, Downward
    <2>2. CASE Still(channel, down)
      <3>1. down' = <<>>  BY <1>2, <1>3, <2>2, CutIsWithin DEF Still
      <3>2. Still(channel, down)'  BY <1>1, <2>2, <3>1 DEF Still
      <3> QED  BY <1>1, <2>1, <3>2 DEF Downward
    <2>3. CASE waiting /\ ~Still(channel, down)
      <3>1. /\ answer.to = request /\ Answered(answer.reply) /\ pending = <<>>
            /\ Carried(channel, down, ReplyFrame(answer.reply), link)
        BY <2>3 DEF Sound, Downward
      <3> DEFINE F == ReplyFrame(answer.reply)
      <3>2. F \in Seq(Symbols(F))  BY <3>1, ReplyIsFrame, FrameFits
      <3> HIDE DEF F
      <3>3. Carried(channel, down, F, link)  BY <3>1 DEF F
      <3>4. b \in 0..Len(down)  BY <3>2, <3>3, FlightIsSeq, CutIsWithin
      <3>5. Carried(channel, Take(down, b), F, FALSE)  BY <3>2, <3>3, <3>4, LossIsCarried
      <3>6. Carried(channel, down, ReplyFrame(answer.reply), link)'
        BY <1>1, <1>2, <3>5 DEF F, ReplyFrame, ReplyPayload
      <3>7. Answered(answer.reply)'  BY <1>1, <3>1 DEF Answered
      <3> QED  BY <1>1, <2>1, <3>1, <3>6, <3>7 DEF Downward
    <2>4. CASE ~waiting  BY <1>1, <2>1, <2>4 DEF Downward
    <2> QED  BY <2>2, <2>3, <2>4
  <1>6. OneCall' /\ ReplyIsTheAnswer'  BY <1>1 DEF Sound, OneCall, ReplyIsTheAnswer
  <1> QED  BY <1>4, <1>5, <1>6 DEF Sound

LEMMA StillSound ==
    ASSUME Sound, UNCHANGED vars
    PROVE  Sound'
  <1>1. UNCHANGED <<open, session, pending, up, link, request, waiting, channel, down, answer,
                    result>>
    BY DEF vars
  <1>2. Upward /\ Downward  BY DEF Sound
  <1>3. Upward'  BY <1>1, <1>2 DEF Upward, Still, Sent, Carried, RequestFrame, RequestPayload
  <1>4. Downward'
    BY <1>1, <1>2 DEF Downward, Still, Answered, Carried, ReplyFrame, ReplyPayload
  <1>5. OneCall' /\ ReplyIsTheAnswer'  BY <1>1 DEF Sound, OneCall, ReplyIsTheAnswer
  <1> QED  BY <1>3, <1>4, <1>5 DEF Sound

LEMMA WireStep == WireInv /\ [Next]_vars => WireInv'
  <1> SUFFICES ASSUME WireInv, [Next]_vars, ~damaged' PROVE Sound'  BY DEF WireInv
  <1>1. CASE UNCHANGED vars
    <2>1. Sound  BY <1>1 DEF WireInv, vars
    <2> QED  BY <1>1, <2>1, StillSound
  <1>2. ASSUME NEW n \in DOMAIN Requests, NEW r \in Requests[n], Call(r) PROVE Sound'
    <2>1. Sound  BY <1>2 DEF WireInv, Call
    <2> QED  BY <1>2, <2>1, CallKeeps
  <1>3. ASSUME NEW size \in ReadSizes, ClientRead(size) PROVE Sound'
    <2>1. Sound  BY <1>3 DEF WireInv, ClientRead
    <2> QED  BY <1>3, <2>1, ClientReadKeeps
  <1>4. ASSUME NEW size \in ReadSizes, SessionRead(size) PROVE Sound'
    <2>1. Sound  BY <1>4 DEF WireInv, SessionRead
    <2> QED  BY <1>4, <2>1, SessionReadKeeps
  <1>5. CASE ClientReturn
    <2>1. Sound  BY <1>5 DEF WireInv, ClientReturn
    <2> QED  BY <1>5, <2>1, ClientReturnKeeps
  <1>6. CASE SessionHandle
    <2>1. Sound  BY <1>6 DEF WireInv, SessionHandle
    <2> QED  BY <1>6, <2>1, SessionHandleKeeps
  <1>7. CASE SessionRefuse
    <2>1. Sound  BY <1>7 DEF WireInv, SessionRefuse
    <2> QED  BY <1>7, <2>1, NothingIsRefused
  <1>8. CASE SessionClosed
    <2>1. Sound  BY <1>8 DEF WireInv, SessionClosed
    <2> QED  BY <1>8, <2>1, SessionClosedKeeps
  <1>9. CASE Lose
    <2>1. Sound  BY <1>9 DEF WireInv, Lose
    <2> QED  BY <1>9, <2>1, LoseKeeps
  <1>10. CASE Damage  BY <1>10 DEF Damage
  <1>11. CASE Finished  BY <1>1, <1>11 DEF Finished
  <1> QED
    BY <1>1, <1>2, <1>3, <1>4, <1>5, <1>6, <1>7, <1>8, <1>9, <1>10, <1>11
    DEF Next, Progress

LEMMA WireAlways == Spec => []WireInv
  BY WireInit, WireStep, PTL DEF Spec

------------------------------------------------------------------------------
(* What the exchange promises. *)

\* On a client's connection, where one frame travels at a time, neither FrameDecoder
\* refuses the stream before it was damaged: in whatever pieces recv_some returns a
\* frame, the bytes buffered by feed() stay within its limit and next() finds no
\* violation in them.
THEOREM CallIsNotRefused == Spec => []RefusesOnlyDamage
  <1>1. WireInv => RefusesOnlyDamage
    BY DEF WireInv, Sound, Upward, Downward, RefusesOnlyDamage
  <1> QED  BY <1>1, WireAlways, PTL

\* Until a byte is damaged, what LifecycleClient::call returns is the reply the session
\* sent to that very call: a connection lost at any byte makes it a rejection, never the
\* reply to an earlier call or a part of one.
THEOREM AnswersAreOwn == Spec => [](~damaged => ReplyIsTheAnswer)
  <1>1. WireInv => (~damaged => ReplyIsTheAnswer)  BY DEF WireInv, Sound
  <1> QED  BY <1>1, WireAlways, PTL

\* No payload of a request is read as another message.
CodecIsFaithful ==
  \A n \in DOMAIN Requests : \A r \in Requests[n], s \in Served :
    /\ Sent(r) /\ TypeOf[s] = TypeOf[r.structure]
    /\ Decode(s, RequestPayload(r)).ok
    => r = [structure |-> s, message |-> Decode(s, RequestPayload(r)).value]

LEMMA HandledAsSent ==
    ASSUME CodecIsFaithful, Sound, SessionHandle
    PROVE  TakenAsSent
  <1> DEFINE frame == Peek(session)
             r == pending[1]
  <1>1. /\ open /\ frame.status = "Ok" /\ pending' = Tail(pending)
        /\ \/ handled' = handled
           \/ \E s \in StructureOf(frame.type) \cap Served :
                /\ Decode(s, frame.payload).ok
                /\ handled' = [structure |-> s, message |-> Decode(s, frame.payload).value]
    BY DEF SessionHandle
  <1>2. NoFrame("NeedMoreData").status # "Ok"  BY DEF NoFrame
  <1>3. /\ pending # <<>> /\ frame.type = TypeOf[r.structure]
        /\ frame.payload = RequestPayload(r)
    BY <1>1, <1>2, SessionPeek
  <1>4. pending = <<r>> /\ Sent(r)  BY <1>1, <1>3 DEF Sound, Upward
  <1> HIDE DEF frame, r
  <1>5. handled' = handled \/ handled' = r
    <2>1. PICK n \in DOMAIN Requests : r \in Requests[n]  BY <1>4 DEF Sent
    <2> QED  BY <1>1, <1>3, <1>4, <2>1 DEF CodecIsFaithful, StructureOf
  <1> QED  BY <1>1, <1>3, <1>4, <1>5 DEF TakenAsSent, r

LEMMA OthersTakeNothing ==
    ASSUME [Next]_vars, ~SessionHandle
    PROVE  TakenAsSent
  <1>1. CASE UNCHANGED vars  BY <1>1 DEF vars, TakenAsSent
  <1>2. ASSUME NEW n \in DOMAIN Requests, NEW r \in Requests[n], Call(r) PROVE TakenAsSent
    BY <1>2 DEF Call, TakenAsSent
  <1>3. ASSUME NEW size \in ReadSizes, ClientRead(size) PROVE TakenAsSent
    BY <1>3 DEF ClientRead, server, TakenAsSent
  <1>4. ASSUME NEW size \in ReadSizes, SessionRead(size) PROVE TakenAsSent
    BY <1>4 DEF SessionRead, TakenAsSent
  <1>5. CASE ClientReturn  BY <1>5 DEF ClientReturn, server, TakenAsSent
  <1>6. CASE SessionRefuse  BY <1>6 DEF SessionRefuse, TakenAsSent
  <1>7. CASE SessionClosed  BY <1>7 DEF SessionClosed, TakenAsSent
  <1>8. CASE Lose  BY <1>8 DEF Lose, server, TakenAsSent
  <1>9. CASE Damage  BY <1>9 DEF Damage, server, TakenAsSent
  <1>10. CASE Finished  BY <1>1, <1>10 DEF Finished
  <1> QED
    BY <1>1, <1>2, <1>3, <1>4, <1>5, <1>6, <1>7, <1>8, <1>9, <1>10 DEF Next, Progress

\* Until a byte is damaged, handle_frame acts on the one call it has not taken yet, as it
\* was sent, and on nothing else: not on a part of it, not twice, and not on the frame of
\* another type, provided that no decode() reads a request as another message.
THEOREM CallsTakenAsSent ==
    CodecIsFaithful =>
      (Spec => /\ [][~damaged => TakenAsSent]_vars
               /\ [](~damaged) => InterpretedAsSent)
  <1> SUFFICES ASSUME CodecIsFaithful
               PROVE  Spec => /\ [][~damaged => TakenAsSent]_vars
                              /\ [](~damaged) => InterpretedAsSent
    OBVIOUS
  <1>1. WireInv /\ [Next]_vars => [~damaged => TakenAsSent]_vars
    BY HandledAsSent, OthersTakeNothing DEF WireInv
  <1> QED  BY <1>1, WireAlways, PTL DEF Spec, InterpretedAsSent

------------------------------------------------------------------------------
(* Frames that follow one another. *)

\* A decoder that holds a whole frame takes it, whatever it holds behind it.
LEMMA LongerDecodes ==
    ASSUME NEW type \in 1..kMessageTypeCount, NEW payload \in Seq(Byte),
           Len(payload) <= MaxPayload, NEW F, IsFrame(F, type, payload),
           NEW T, NEW p \in Seq(T), Len(F) <= Len(p), SubSeq(p, 1, Len(F)) = F
    PROVE  decode_frame(p)
             = [status |-> "Ok", type |-> type, payload |-> payload, consumed |-> Len(F)]
  <1> DEFINE L == Len(payload)
  <1>1. L \in Nat /\ L <= MaxPayload /\ L < Huge  BY PayloadLimit
  <1>2. Len(F) = L + 20 /\ Len(F) \in Nat /\ L + 16 \in Nat /\ L + 20 \in Nat
    BY <1>1 DEF IsFrame
  <1>3. \A a \in Nat \ {0}, b \in Nat : a <= b + 1 /\ b <= L + 20 =>
            SubSeq(p, a, b) = SubSeq(F, a, b)
    <2>1. SUFFICES ASSUME NEW a \in Nat \ {0}, NEW b \in Nat, a <= b + 1, b <= L + 20
                   PROVE  SubSeq(p, a, b) = SubSeq(F, a, b)
      OBVIOUS
    <2> DEFINE k == Len(F)
    <2>2. k \in Nat /\ k <= Len(p) /\ b <= k  BY <1>2, <2>1
    <2>3. SubSeq(p, 1, k) = F  OBVIOUS
    <2> HIDE DEF k, L
    <2>4. SubSeq(SubSeq(p, 1, k), a, b) = SubSeq(p, a, b)  BY <2>1, <2>2, PieceOfPrefix
    <2> QED  BY <2>3, <2>4
  <1>4. /\ SubSeq(p, 1, 4) = Magic
        /\ SubSeq(p, 5, 6) = LittleEndian(Version, 2)
        /\ SubSeq(p, 7, 8) = LittleEndian(type, 2)
        /\ SubSeq(p, 13, 16) = LittleEndian(L, 4)
        /\ SubSeq(p, 17, L + 16) = payload
        /\ SubSeq(p, L + 17, L + 20) = SubSeq(F, L + 17, L + 20)
        /\ SubSeq(p, 1, L + 16) = SubSeq(F, 1, L + 16)
    <2>1. /\ SubSeq(p, 1, 4) = SubSeq(F, 1, 4) /\ SubSeq(p, 5, 6) = SubSeq(F, 5, 6)
          /\ SubSeq(p, 7, 8) = SubSeq(F, 7, 8) /\ SubSeq(p, 13, 16) = SubSeq(F, 13, 16)
      <3>1. 4 <= L + 20 /\ 6 <= L + 20 /\ 8 <= L + 20 /\ 16 <= L + 20  BY <1>1
      <3>2. /\ 1 <= 4 + 1 /\ 5 <= 6 + 1 /\ 7 <= 8 + 1 /\ 13 <= 16 + 1
            /\ 1 \in Nat \ {0} /\ 5 \in Nat \ {0} /\ 7 \in Nat \ {0} /\ 13 \in Nat \ {0}
            /\ 4 \in Nat /\ 6 \in Nat /\ 8 \in Nat /\ 16 \in Nat
        OBVIOUS
      <3> HIDE DEF L
      <3>3. SubSeq(p, 1, 4) = SubSeq(F, 1, 4)  BY <1>3, <3>1, <3>2
      <3>4. SubSeq(p, 5, 6) = SubSeq(F, 5, 6)  BY <1>3, <3>1, <3>2
      <3>5. SubSeq(p, 7, 8) = SubSeq(F, 7, 8)  BY <1>3, <3>1, <3>2
      <3>6. SubSeq(p, 13, 16) = SubSeq(F, 13, 16)  BY <1>3, <3>1, <3>2
      <3> QED  BY <3>3, <3>4, <3>5, <3>6
    <2>2. /\ SubSeq(p, 17, L + 16) = SubSeq(F, 17, L + 16)
          /\ SubSeq(p, L + 17, L + 20) = SubSeq(F, L + 17, L + 20)
          /\ SubSeq(p, 1, L + 16) = SubSeq(F, 1, L + 16)
      <3>1. /\ 17 \in Nat \ {0} /\ L + 17 \in Nat \ {0} /\ 1 \in Nat \ {0}
            /\ 17 <= (L + 16) + 1 /\ L + 17 <= (L + 20) + 1 /\ 1 <= (L + 16) + 1
            /\ L + 16 <= L + 20 /\ L + 20 <= L + 20
        BY <1>1
      <3> HIDE DEF L
      <3> QED  BY <1>2, <1>3, <3>1
    <2> QED  BY <2>1, <2>2 DEF IsFrame
  <1>5. /\ Take(p, 4) = Magic /\ Number(SubSeq(p, 5, 6)) = Version
        /\ Number(SubSeq(p, 7, 8)) = type /\ Number(SubSeq(p, 13, 16)) = L
    <2>1. Number(LittleEndian(Version, 2)) = Version
      <3>1. Version \in Nat /\ Version < 65536  BY DEF Version
      <3> QED  BY <3>1, TwoBytes
    <2>2. Number(LittleEndian(type, 2)) = type
      <3>1. type \in Nat /\ type < 65536  BY DEF kMessageTypeCount
      <3> QED  BY <3>1, TwoBytes
    <2>3. Number(LittleEndian(L, 4)) = L
      <3> HIDE DEF L
      <3> QED  BY <1>1, FourBytes
    <2> QED  BY <1>4, <2>1, <2>2, <2>3 DEF Take
  <1>6. /\ ~(type = 0 \/ type > kMessageTypeCount) /\ ~(L > MaxPayload)
        /\ kFrameHeaderSize + L + kFrameTrailerSize = Len(F) /\ kFrameHeaderSize + L = L + 16
        /\ kFrameHeaderSize + L + 1 = L + 17
    BY <1>1, <1>2, MaxPayloadAssumption
       DEF kMessageTypeCount, kFrameHeaderSize, kFrameTrailerSize
  <1>7. ~(Len(p) < kFrameHeaderSize) /\ ~(Len(p) < kFrameHeaderSize + L + kFrameTrailerSize)
    <2>1. Len(p) \in Nat  OBVIOUS
    <2> QED  BY <1>1, <1>2, <1>6, <2>1 DEF kFrameHeaderSize
  <1>8. SubSeq(p, kFrameHeaderSize + L + 1, kFrameHeaderSize + L + kFrameTrailerSize)
          = LittleEndian(crc32(SubSeq(p, 1, kFrameHeaderSize + L)), kFrameTrailerSize)
    <2>1. SubSeq(F, L + 17, L + 20) = LittleEndian(crc32(SubSeq(F, 1, L + 16)), 4)
      BY DEF IsFrame
    <2> QED  BY <1>2, <1>4, <1>6, <2>1 DEF kFrameTrailerSize
  <1>9. Drop(SubSeq(p, 1, kFrameHeaderSize + L), kFrameHeaderSize) = payload
    <2> DEFINE a == 1
               b == L + 16
               n == 16
    <2>1. a \in Nat \ {0} /\ b \in Nat /\ a <= b + 1 /\ b <= Len(p) /\ n \in 0..(b + 1 - a)
          /\ a + n = 17
      BY <1>1, <1>2
    <2> HIDE DEF L, a, b, n
    <2>2. Drop(SubSeq(p, a, b), n) = SubSeq(p, a + n, b)  BY <2>1, DropOfPiece
    <2>3. Drop(SubSeq(p, 1, L + 16), 16) = SubSeq(p, 17, L + 16)
      BY <2>1, <2>2 DEF a, b, n
    <2> QED  BY <1>4, <1>6, <2>3 DEF kFrameHeaderSize
  <1>10. decode_frame(p) = [status |-> "Ok", type |-> type, payload |-> payload,
                            consumed |-> kFrameHeaderSize + L + kFrameTrailerSize]
    <2> HIDE DEF L
    <2> QED  BY <1>5, <1>6, <1>7, <1>8, <1>9 DEF decode_frame
  <1> QED  BY <1>6, <1>10

\* S is what was sent, and ends[i] the number of bytes up to the end of the i-th frame.
Stream(S, ends) ==
  /\ S \in Seq(Symbols(S))
  /\ ends \in [0..Len(sent) -> Nat] /\ ends[0] = 0 /\ ends[Len(sent)] = Len(S)
  /\ \A i, j \in 0..Len(sent) : i <= j => ends[i] <= ends[j]
  /\ \A i \in 1..Len(sent) :
       /\ ends[i] = ends[i - 1] + FrameSize(sent[i])
       /\ SubSeq(S, ends[i - 1] + 1, ends[i]) = EncodedFrame(sent[i].type, sent[i].payload)

\* The decoder holds what was read of S since it was last empty, and what is in flight
\* is the rest.
Flowing(S, ends) ==
  /\ Stream(S, ends)
  /\ emptied <= handed /\ handed <= received /\ received <= Len(S)
  /\ handed = ends[Len(taken)]
  /\ handed = received => emptied = received
  /\ worker = [buffer |-> SubSeq(S, emptied + 1, received), position |-> handed - emptied,
               failure |-> "Ok"]
  /\ stream = SubSeq(S, received + 1, Len(S))
  /\ received - emptied <= MaxFrame

\* A refused stream stays as it was; until then it flows.
PushInv ==
  /\ sent \in Seq(Outgoing) /\ taken \in Seq(Outgoing) /\ Len(taken) <= Len(sent)
  /\ \A i \in 1..Len(taken) : taken[i] = sent[i]
  /\ received \in Nat /\ handed \in Nat /\ emptied \in Nat
  /\ IF worker.failure = "Ok" THEN \E S, ends : Flowing(S, ends)
     ELSE worker.failure = "Oversized" /\ received - emptied > MaxFrame

\* A frame that is sent is a frame of its size.
LEMMA OutgoingIsFrame ==
    ASSUME NEW frame \in Outgoing
    PROVE  /\ frame.type \in 1..kMessageTypeCount /\ frame.type \in Nat
           /\ frame.payload \in Seq(Byte) /\ Len(frame.payload) <= MaxPayload
           /\ frame = [type |-> frame.type, payload |-> frame.payload]
           /\ IsFrame(EncodedFrame(frame.type, frame.payload), frame.type, frame.payload)
           /\ Len(EncodedFrame(frame.type, frame.payload)) = FrameSize(frame)
           /\ FrameSize(frame) \in Nat /\ FrameSize(frame) > 0
  <1>1. /\ frame.type \in 1..kMessageTypeCount /\ frame.payload \in Seq(Byte)
        /\ frame = [type |-> frame.type, payload |-> frame.payload]
        /\ Len(frame.payload) <= MaxPayload
    BY PushAssumption
  <1>2. frame.type \in Nat
    <2>1. \A t \in 1..kMessageTypeCount : t \in Nat  BY DEF kMessageTypeCount
    <2> QED  BY <1>1, <2>1
  <1>3. IsFrame(EncodedFrame(frame.type, frame.payload), frame.type, frame.payload)
    BY <1>1, <1>2, FrameIs
  <1>4. Len(frame.payload) \in Nat  BY <1>1
  <1>5. Len(EncodedFrame(frame.type, frame.payload)) = Len(frame.payload) + 20
    BY <1>3 DEF IsFrame
  <1>6. FrameSize(frame) = Len(frame.payload) + 20
    <2>1. \A n \in Nat : 16 + n + 4 = n + 20  OBVIOUS
    <2> QED  BY <1>4, <2>1 DEF FrameSize, kFrameHeaderSize, kFrameTrailerSize
  <1>7. FrameSize(frame) \in Nat /\ FrameSize(frame) > 0
    <2>1. \A n \in Nat : n + 20 \in Nat /\ n + 20 > 0  OBVIOUS
    <2> QED  BY <1>4, <1>6, <2>1
  <1> QED  BY <1>1, <1>2, <1>3, <1>5, <1>6, <1>7

LEMMA FrameLimit == MaxFrame \in Nat
  BY PayloadLimit DEF MaxFrame, kFrameHeaderSize, kFrameTrailerSize

LEMMA PushInits == PushInit => PushInv
  <1> SUFFICES ASSUME PushInit PROVE PushInv  OBVIOUS
  <1> DEFINE ends == [i \in 0..0 |-> 0]
  <1>1. /\ sent = <<>> /\ taken = <<>> /\ stream = <<>> /\ worker = NewDecoder
        /\ received = 0 /\ handed = 0 /\ emptied = 0
    BY DEF PushInit
  <1>2. Len(sent) = 0 /\ Len(taken) = 0 /\ Len(<<>>) = 0 /\ <<>> \in Seq(Symbols(<<>>))
    BY <1>1
  <1>3. Stream(<<>>, ends)
    <2>1. ends \in [0..Len(sent) -> Nat] /\ ends[0] = 0 /\ ends[Len(sent)] = Len(<<>>)
      BY <1>2
    <2>2. \A i, j \in 0..Len(sent) : i <= j => ends[i] <= ends[j]  BY <1>2
    <2>3. \A i \in 1..Len(sent) : FALSE  BY <1>2
    <2> HIDE DEF ends
    <2> QED  BY <1>2, <2>1, <2>2, <2>3 DEF Stream
  <1>4. SubSeq(<<>>, 0 + 1, 0) = <<>>
    <2>1. 0 < 0 + 1 /\ 0 \in Int /\ 0 + 1 \in Int  OBVIOUS
    <2> QED  BY <2>1, SubSeqEmpty
  <1>5. ends[0] = 0 /\ 0 - 0 = 0 /\ 0 <= MaxFrame  BY FrameLimit
  <1> HIDE DEF ends
  <1>6. Flowing(<<>>, ends)  BY <1>1, <1>2, <1>3, <1>4, <1>5 DEF Flowing, NewDecoder
  <1>7. worker.failure = "Ok"  BY <1>1 DEF NewDecoder
  <1> QED  BY <1>1, <1>2, <1>6, <1>7 DEF PushInv

\* What a worker does that reads on, or finds the next frame.
LEMMA FlowingPeek ==
    ASSUME PushInv, NEW S, NEW ends, Flowing(S, ends)
    PROVE  \/ Peek(worker) = NoFrame("NeedMoreData")
           \/ /\ Len(taken) < Len(sent)
              /\ Peek(worker) = [status |-> "Ok", type |-> sent[Len(taken) + 1].type,
                                 payload |-> sent[Len(taken) + 1].payload,
                                 consumed |-> FrameSize(sent[Len(taken) + 1])]
              /\ handed + FrameSize(sent[Len(taken) + 1]) <= received
              /\ handed + FrameSize(sent[Len(taken) + 1]) = ends[Len(taken) + 1]
  <1> DEFINE k == Len(taken)
             held == SubSeq(S, handed + 1, received)
             h == received - handed
  <1>1. /\ received \in Nat /\ handed \in Nat /\ emptied \in Nat
        /\ emptied <= handed /\ handed <= received /\ received <= Len(S)
        /\ S \in Seq(Symbols(S)) /\ Len(S) \in Nat
        /\ k \in Nat /\ Len(sent) \in Nat /\ k <= Len(sent)
        /\ worker = [buffer |-> SubSeq(S, emptied + 1, received), position |-> handed - emptied,
                     failure |-> "Ok"]
    BY DEF PushInv, Flowing, Stream
  <1>2. Peek(worker) = decode_frame(held)
    <2>1. /\ emptied + 1 \in Nat \ {0} /\ emptied + 1 <= received + 1
          /\ handed - emptied \in 0..(received + 1 - (emptied + 1))
          /\ (emptied + 1) + (handed - emptied) = handed + 1
      BY <1>1
    <2>2. Drop(SubSeq(S, emptied + 1, received), handed - emptied)
            = SubSeq(S, (emptied + 1) + (handed - emptied), received)
      BY <1>1, <2>1, DropOfPiece
    <2> QED  BY <1>1, <2>1, <2>2 DEF Peek
  <1>3. held \in Seq(Symbols(S)) /\ Len(held) = h /\ h \in Nat
    <2>1. handed + 1 \in Nat \ {0} /\ handed + 1 <= received + 1  BY <1>1
    <2>2. held \in Seq(Symbols(S)) /\ Len(held) = received + 1 - (handed + 1)
      BY <1>1, <2>1, PieceOf
    <2> QED  BY <1>1, <2>2
  <1>4. CASE k = Len(sent)
    <2>1. handed = Len(S)  BY <1>4 DEF Flowing, Stream
    <2>2. Len(held) = 0  BY <1>1, <1>3, <2>1
    <2>3. Len(held) < kFrameHeaderSize
      <3>1. 0 < 16  OBVIOUS
      <3> QED  BY <2>2, <3>1 DEF kFrameHeaderSize
    <2> HIDE DEF held
    <2>4. decode_frame(held) = NoFrame("NeedMoreData")  BY <2>3 DEF decode_frame
    <2> QED  BY <1>2, <2>4
  <1>5. CASE k < Len(sent)
    <2> DEFINE f == sent[k + 1]
               F == EncodedFrame(f.type, f.payload)
               e == ends[k + 1]
    <2>1. k + 1 \in 1..Len(sent) /\ (k + 1) - 1 = k /\ k + 1 \in 0..Len(sent)
          /\ Len(sent) \in 0..Len(sent) /\ k + 1 <= Len(sent)
      BY <1>1, <1>5
    <2>2. f \in Outgoing  BY <2>1 DEF PushInv
    <2>3. /\ f.type \in 1..kMessageTypeCount /\ f.payload \in Seq(Byte)
          /\ Len(f.payload) <= MaxPayload /\ IsFrame(F, f.type, f.payload)
          /\ Len(F) = FrameSize(f) /\ FrameSize(f) \in Nat
      BY <2>2, OutgoingIsFrame
    <2>4. /\ e = handed + FrameSize(f) /\ e <= Len(S) /\ e \in Nat
          /\ SubSeq(S, handed + 1, e) = F
      <3>1. handed = ends[k]  BY DEF Flowing
      <3>2. ends[k + 1] = ends[k] + FrameSize(f) /\ SubSeq(S, ends[k] + 1, ends[k + 1]) = F
        BY <2>1 DEF Flowing, Stream
      <3>3. ends[k + 1] <= ends[Len(sent)] /\ ends[Len(sent)] = Len(S)
        BY <2>1 DEF Flowing, Stream
      <3>4. ends[k + 1] \in Nat  BY <2>1 DEF Flowing, Stream
      <3> HIDE DEF f, F, k
      <3> QED  BY <3>1, <3>2, <3>3, <3>4
    <2> DEFINE n == FrameSize(f)
    <2> HIDE DEF f, F, e, n
    <2>n. e = handed + n /\ n \in Nat /\ Len(F) = n  BY <2>3, <2>4 DEF n
    <2>5. CASE received < e
      <3>1. /\ handed + 1 \in Nat \ {0} /\ handed + 1 <= e + 1 /\ h \in 0..(e + 1 - (handed + 1))
            /\ (handed + 1) + h - 1 = received
        BY <1>1, <2>4, <2>5
      <3>2. Take(SubSeq(S, handed + 1, e), h) = SubSeq(S, handed + 1, (handed + 1) + h - 1)
        <4> HIDE DEF h
        <4> QED  BY <1>1, <2>4, <3>1, TakeOfPiece
      <3>3. held = SubSeq(F, 1, h)  BY <2>4, <3>1, <3>2 DEF Take
      <3>4. h \in 0..Len(F) /\ h # Len(F)
        <4>1. h \in 0..n /\ h # n  BY <1>1, <2>n, <2>5
        <4> QED  BY <2>n, <4>1
      <3>5. decode_frame(SubSeq(F, 1, h)) = NoFrame("NeedMoreData")
        <4> HIDE DEF h
        <4> QED  BY <2>3, <3>4, PrefixDecodes
      <3> QED  BY <1>2, <3>3, <3>5
    <2>6. CASE e <= received
      <3>1. /\ handed + 1 \in Nat \ {0} /\ handed + 1 <= received + 1
            /\ n \in 0..(received + 1 - (handed + 1))
            /\ (handed + 1) + n - 1 = e
        BY <1>1, <2>n, <2>6
      <3>2. Take(held, n) = SubSeq(S, handed + 1, (handed + 1) + n - 1)
        BY <1>1, <3>1, TakeOfPiece
      <3>3. SubSeq(held, 1, Len(F)) = F  BY <2>n, <2>4, <3>1, <3>2 DEF Take
      <3>4. Len(F) <= Len(held)
        <4>1. n <= h  BY <1>1, <2>n, <2>6
        <4> QED  BY <1>3, <2>n, <4>1
      <3> HIDE DEF held
      <3>5. decode_frame(held) = [status |-> "Ok", type |-> f.type, payload |-> f.payload,
                                  consumed |-> Len(F)]
        BY <1>3, <2>3, <3>3, <3>4, LongerDecodes
      <3>6. Len(taken) < Len(sent)  BY <1>5
      <3> QED  BY <1>2, <2>3, <2>4, <2>6, <3>5, <3>6 DEF f, e
    <2>7. received < e \/ e <= received  BY <1>1, <2>4
    <2> QED  BY <2>5, <2>6, <2>7
  <1> QED  BY <1>1, <1>4, <1>5

LEMMA OwnSymbols ==
    ASSUME NEW T, NEW S \in Seq(T)
    PROVE  S \in Seq(Symbols(S))
  <1>1. S \in [1..Len(S) -> T] /\ Len(S) \in Nat  BY LenProperties
  <1>2. S \in [1..Len(S) -> Symbols(S)]  BY <1>1 DEF Symbols
  <1> QED  BY <1>1, <1>2, SeqDef

LEMMA PiecesJoin ==
    ASSUME NEW T, NEW s \in Seq(T), NEW a \in Nat \ {0}, NEW b \in Nat, NEW c \in Nat,
           a <= b + 1, b <= c, c <= Len(s)
    PROVE  SubSeq(s, a, b) \o SubSeq(s, b + 1, c) = SubSeq(s, a, c)
  <1> DEFINE n == Len(s)
  <1>1. n \in Nat  OBVIOUS
  <1>2. a \in 1..(n + 1) /\ b \in (a - 1)..n /\ c \in b..n
    <2>1. c <= n  OBVIOUS
    <2> HIDE DEF n
    <2> QED  BY <1>1, <2>1
  <1> QED  BY <1>2, ConcatAdjacentSubSeq

\* A frame that is sent goes behind what is in flight.
LEMMA PushKeeps ==
    ASSUME PushInv, NEW frame \in Outgoing, Push(frame)
    PROVE  PushInv'
  <1> DEFINE F == EncodedFrame(frame.type, frame.payload)
             n == Len(sent)
             size == FrameSize(frame)
  <1>1. /\ worker.failure = "Ok" /\ sent' = Append(sent, frame) /\ stream' = stream \o F
        /\ UNCHANGED <<taken, worker, received, handed, emptied>>
    BY DEF Push
  <1>2. /\ F \in Seq(Symbols(F)) /\ Len(F) = size /\ size \in Nat
    BY OutgoingIsFrame DEF IsFrame
  <1>3. PICK S, ends : Flowing(S, ends)  BY <1>1 DEF PushInv
  <1> DEFINE T == Symbols(S) \cup Symbols(F)
             S2 == S \o F
             m == Len(S)
             ends2 == [i \in 0..(n + 1) |-> IF i <= n THEN ends[i] ELSE m + size]
  <1>4. /\ S \in Seq(Symbols(S)) /\ m \in Nat /\ n \in Nat
        /\ ends \in [0..n -> Nat] /\ ends[0] = 0 /\ ends[n] = m
        /\ \A i, j \in 0..n : i <= j => ends[i] <= ends[j]
        /\ \A i \in 1..n :
             /\ ends[i] = ends[i - 1] + FrameSize(sent[i])
             /\ SubSeq(S, ends[i - 1] + 1, ends[i])
                  = EncodedFrame(sent[i].type, sent[i].payload)
    BY <1>3 DEF Flowing, Stream, PushInv
  <1>5. /\ received \in Nat /\ handed \in Nat /\ emptied \in Nat
        /\ emptied <= handed /\ handed <= received /\ received <= m
        /\ handed = ends[Len(taken)] /\ (handed = received => emptied = received)
        /\ worker = [buffer |-> SubSeq(S, emptied + 1, received),
                     position |-> handed - emptied, failure |-> "Ok"]
        /\ stream = SubSeq(S, received + 1, m) /\ received - emptied <= MaxFrame
        /\ Len(taken) \in Nat /\ Len(taken) <= n
    BY <1>3 DEF Flowing, PushInv
  <1> HIDE DEF F, size
  <1>6. S \in Seq(T) /\ F \in Seq(T)
    <2> HIDE DEF m, n
    <2> QED  BY <1>2, <1>4, SeqMonotonic
  <1> HIDE DEF T
  <1>7. S2 \in Seq(T) /\ Len(S2) = m + size /\ S2 \in Seq(Symbols(S2))
    <2>1. S2 \in Seq(T) /\ Len(S2) = Len(S) + Len(F)  BY <1>6, Joined
    <2>2. S2 \in Seq(Symbols(S2))
      <3> HIDE DEF S2
      <3> QED  BY <2>1, OwnSymbols
    <2> QED  BY <1>2, <2>1, <2>2
  <1>8. sent' \in Seq(Outgoing) /\ Len(sent') = n + 1
        /\ \A i \in 1..n : sent'[i] = sent[i]
        /\ sent'[n + 1] = frame
    BY <1>1, AppendProperties DEF PushInv
  <1>9. \A a \in Nat \ {0}, b \in Nat : a <= b + 1 /\ b <= m =>
            SubSeq(S2, a, b) = SubSeq(S, a, b)
    BY <1>6, PieceBefore
  <1>10. SubSeq(S2, m + 1, m + size) = F  BY <1>2, <1>6, PieceAfter
  <1> HIDE DEF m, n, S2
  <1>11. /\ n + 1 \in Nat /\ m + size \in Nat /\ m <= m + size
         /\ \A i \in 0..(n + 1) : i <= n \/ i = n + 1
         /\ \A i \in 0..(n + 1) : i <= n => i \in 0..n
         /\ \A i \in 1..(n + 1) : i \in 1..n \/ i = n + 1
         /\ ~(n + 1 <= n) /\ n \in 0..(n + 1) /\ n + 1 \in 0..(n + 1) /\ 0 \in 0..n
         /\ n \in 0..n /\ n <= n /\ (n + 1) - 1 = n
         /\ \A i \in 0..n : i \in 0..(n + 1) /\ i <= n
         /\ \A i \in 1..n : i \in 0..n /\ i - 1 \in 0..n /\ i - 1 <= i
    BY <1>2, <1>4
  <1>12. (\A i \in 0..n : ends2[i] = ends[i]) /\ ends2[n + 1] = m + size
    BY <1>11
  <1>13. ends2 \in [0..(n + 1) -> Nat]
    <2>1. \A i \in 0..(n + 1) : (IF i <= n THEN ends[i] ELSE m + size) \in Nat
      BY <1>4, <1>11
    <2> QED  BY <2>1
  <1> HIDE DEF ends2
  <1>14. ASSUME NEW i \in 0..(n + 1), NEW j \in 0..(n + 1), i <= j
         PROVE  ends2[i] <= ends2[j]
    <2>1. CASE j \in 0..n
      <3>1. i \in 0..n  BY <1>4, <1>14, <2>1
      <3> QED  BY <1>4, <1>12, <1>14, <2>1, <3>1
    <2>2. CASE j = n + 1 /\ i = n + 1
      <3>1. \A x \in Nat : x <= x  OBVIOUS
      <3> QED  BY <1>11, <1>12, <2>2, <3>1
    <2>3. CASE j = n + 1 /\ i \in 0..n
      <3>1. i <= n  BY <2>3, <1>11
      <3>2. ends[i] <= m /\ ends[i] \in Nat  BY <1>4, <1>11, <2>3, <3>1
      <3>3. ends[i] <= m + size  BY <1>2, <1>4, <3>2
      <3> QED  BY <1>12, <2>3, <3>3
    <2> QED  BY <1>11, <2>1, <2>2, <2>3
  <1>15. ASSUME NEW i \in 1..(n + 1)
         PROVE  /\ ends2[i] = ends2[i - 1] + FrameSize(sent'[i])
                /\ SubSeq(S2, ends2[i - 1] + 1, ends2[i])
                     = EncodedFrame(sent'[i].type, sent'[i].payload)
    <2>1. CASE i \in 1..n
      <3>1. /\ ends2[i] = ends[i] /\ ends2[i - 1] = ends[i - 1] /\ sent'[i] = sent[i]
            /\ i \in 0..n /\ i - 1 \in 0..n /\ i - 1 <= i
        BY <1>8, <1>11, <1>12, <2>1
      <3>2. ends[i - 1] \in Nat /\ ends[i] \in Nat /\ ends[i - 1] <= ends[i] /\ ends[i] <= m
        <4>1. i <= n  BY <1>11, <3>1
        <4> QED  BY <1>4, <1>11, <3>1, <4>1
      <3>3. ends[i - 1] + 1 \in Nat \ {0} /\ ends[i - 1] + 1 <= ends[i] + 1  BY <3>2
      <3>4. SubSeq(S2, ends[i - 1] + 1, ends[i]) = SubSeq(S, ends[i - 1] + 1, ends[i])
        BY <1>9, <3>2, <3>3
      <3> QED  BY <1>4, <2>1, <3>1, <3>4
    <2>2. CASE i = n + 1
      <3>1. ends2[i] = m + size /\ ends2[i - 1] = m /\ sent'[i] = frame
        BY <1>4, <1>8, <1>11, <1>12, <2>2
      <3> QED  BY <1>10, <3>1 DEF F, size
    <2> QED  BY <1>11, <2>1, <2>2
  <1>16. ASSUME NEW X, NEW e, X = S2, e = ends2
         PROVE  Flowing(X, e)'
    <2>1. e[0] = 0 /\ e[n + 1] = Len(X) /\ e \in [0..(n + 1) -> Nat]
      BY <1>4, <1>7, <1>11, <1>12, <1>13, <1>16
    <2>2. \A i, j \in 0..(n + 1) : i <= j => e[i] <= e[j]  BY <1>14, <1>16
    <2>3. \A i \in 1..(n + 1) :
            /\ e[i] = e[i - 1] + FrameSize(sent'[i])
            /\ SubSeq(X, e[i - 1] + 1, e[i]) = EncodedFrame(sent'[i].type, sent'[i].payload)
      BY <1>15, <1>16
    <2>4. Stream(X, e)'
      <3>1. X \in Seq(Symbols(X))  BY <1>7, <1>16
      <3>2. \A i : FrameSize(sent'[i])
                     = kFrameHeaderSize + Len(sent'[i].payload) + kFrameTrailerSize
        BY DEF FrameSize
      <3> QED  BY <1>8, <2>1, <2>2, <2>3, <3>1, <3>2 DEF Stream, FrameSize
    <2>5. handed = e[Len(taken)]
      <3>1. Len(taken) \in 0..n  BY <1>4, <1>5
      <3> QED  BY <1>5, <1>12, <1>16, <3>1
    <2>6. SubSeq(X, emptied + 1, received) = SubSeq(S, emptied + 1, received)
      <3>1. emptied + 1 \in Nat \ {0} /\ emptied + 1 <= received + 1  BY <1>5
      <3> QED  BY <1>5, <1>9, <1>16, <3>1
    <2>7. stream' = SubSeq(X, received + 1, Len(X))
      <3>1. received + 1 \in Nat \ {0} /\ received + 1 <= m + 1  BY <1>4, <1>5
      <3>2. SubSeq(S2, received + 1, m) = stream
        <4>1. m <= m /\ m \in Nat  BY <1>4
        <4>2. SubSeq(S2, received + 1, m) = SubSeq(S, received + 1, m)  BY <1>9, <3>1, <4>1
        <4> QED  BY <1>5, <4>2
      <3>3. m + size <= Len(S2)  BY <1>2, <1>4, <1>7
      <3>4. SubSeq(S2, received + 1, m) \o SubSeq(S2, m + 1, m + size)
              = SubSeq(S2, received + 1, m + size)
        <4> DEFINE c == m + size
        <4>1. m \in Nat /\ c \in Nat /\ m <= c /\ c <= Len(S2) /\ S2 \in Seq(T)
          BY <1>4, <1>7, <1>11, <3>3
        <4> HIDE DEF c
        <4>2. SubSeq(S2, received + 1, m) \o SubSeq(S2, m + 1, c) = SubSeq(S2, received + 1, c)
          BY <3>1, <4>1, PiecesJoin
        <4> QED  BY <4>2 DEF c
      <3> QED  BY <1>1, <1>7, <1>10, <1>16, <3>2, <3>4
    <2>8. received <= Len(X)  BY <1>2, <1>4, <1>5, <1>7, <1>16
    <2> QED  BY <1>1, <1>5, <2>4, <2>5, <2>6, <2>7, <2>8 DEF Flowing
  <1>17. (\E X, e : Flowing(X, e))'  BY <1>16
  <1>18. taken' \in Seq(Outgoing) /\ Len(taken') <= Len(sent')
    <2>1. Len(taken) <= n + 1  BY <1>4, <1>5
    <2> QED  BY <1>1, <1>8, <2>1 DEF PushInv
  <1>19. \A i \in 1..Len(taken') : taken'[i] = sent'[i]
    <2>1. \A i \in 1..Len(taken) : i \in 1..n  BY <1>4, <1>5
    <2> QED  BY <1>1, <1>8, <2>1 DEF PushInv, n
  <1> QED  BY <1>1, <1>5, <1>8, <1>17, <1>18, <1>19 DEF PushInv

LEMMA RefusedPeek ==
    ASSUME worker.failure # "Ok"
    PROVE  Peek(worker) = NoFrame(worker.failure)
  BY DEF Peek

\* The worker reads on: the bytes join those it holds, or are one too many.
LEMMA WorkerReadKeeps ==
    ASSUME PushInv, NEW size \in PieceSizes, WorkerRead(size)
    PROVE  PushInv'
  <1> DEFINE n == Piece(stream, size)
             chunk == Take(stream, n)
  <1>1. /\ stream # <<>> /\ Peek(worker).status = "NeedMoreData"
        /\ worker' = Feed(worker, chunk) /\ stream' = Drop(stream, n)
        /\ received' = received + n /\ UNCHANGED <<sent, taken, handed, emptied>>
    BY DEF WorkerRead
  <1>2. worker.failure = "Ok"
    <2>1. CASE worker.failure # "Ok"
      <3>1. Peek(worker).status = worker.failure  BY <2>1, RefusedPeek DEF NoFrame
      <3>2. worker.failure = "Oversized"  BY <2>1 DEF PushInv
      <3> QED  BY <1>1, <3>1, <3>2
    <2> QED  BY <2>1
  <1>3. PICK S, ends : Flowing(S, ends)  BY <1>2 DEF PushInv
  <1> DEFINE m == Len(S)
  <1>4. /\ S \in Seq(Symbols(S)) /\ m \in Nat
        /\ received \in Nat /\ handed \in Nat /\ emptied \in Nat
        /\ emptied <= handed /\ handed <= received /\ received <= m
        /\ handed = ends[Len(taken)] /\ (handed = received => emptied = received)
        /\ worker = [buffer |-> SubSeq(S, emptied + 1, received),
                     position |-> handed - emptied, failure |-> "Ok"]
        /\ stream = SubSeq(S, received + 1, m) /\ received - emptied <= MaxFrame
    BY <1>3 DEF Flowing, Stream, PushInv
  <1>5. stream \in Seq(Symbols(S)) /\ Len(stream) = m - received
    <2> DEFINE a == received + 1
    <2>1. a \in Nat \ {0} /\ a <= m + 1 /\ m <= Len(S) /\ m + 1 - a = m - received  BY <1>4
    <2> HIDE DEF a, m
    <2>2. SubSeq(S, a, m) \in Seq(Symbols(S)) /\ Len(SubSeq(S, a, m)) = m + 1 - a
      BY <1>4, <2>1, PieceOf
    <2> QED  BY <1>4, <2>1, <2>2 DEF a
  <1>6. n \in Nat /\ n > 0 /\ n <= m - received
    <2>1. size \in Nat /\ size > 0  BY PushAssumption
    <2>2. m - received > 0
      <3>1. Len(stream) # 0  BY <1>1, <1>5, EmptySeq
      <3> QED  BY <1>4, <1>5, <3>1
    <2>3. n = IF m - received < size THEN m - received ELSE size  BY <1>5 DEF Piece
    <2> HIDE DEF n, m
    <2> QED  BY <1>4, <2>1, <2>2, <2>3
  <1> HIDE DEF n, m
  <1>7. received + n \in Nat /\ received + n <= m /\ received < received + n
    BY <1>4, <1>6
  <1>8. chunk = SubSeq(S, received + 1, received + n) /\ Len(chunk) = n
        /\ stream' = SubSeq(S, received + n + 1, m)
    <2>1. /\ received + 1 \in Nat \ {0} /\ received + 1 <= m + 1 /\ m <= Len(S)
          /\ n \in 0..(m + 1 - (received + 1)) /\ (received + 1) + n - 1 = received + n
          /\ (received + 1) + n = received + n + 1
          /\ received + 1 <= (received + n) + 1 /\ received + n <= Len(S)
          /\ received + n + 1 - (received + 1) = n
      BY <1>4, <1>6, <1>7 DEF m
    <2>2. chunk = SubSeq(S, received + 1, (received + 1) + n - 1)
      BY <1>4, <2>1, TakeOfPiece
    <2>3. Drop(stream, n) = SubSeq(S, (received + 1) + n, m)
      BY <1>4, <2>1, DropOfPiece
    <2>4. Len(SubSeq(S, received + 1, received + n)) = received + n + 1 - (received + 1)
      BY <1>4, <1>7, <2>1, PieceOf
    <2> QED  BY <1>1, <2>1, <2>2, <2>3, <2>4
  <1>9. Len(worker.buffer) = received - emptied
    <2>1. emptied + 1 \in Nat \ {0} /\ emptied + 1 <= received + 1 /\ received <= Len(S)
      BY <1>4 DEF m
    <2>2. Len(SubSeq(S, emptied + 1, received)) = received + 1 - (emptied + 1)
      BY <1>4, <2>1, PieceOf
    <2> QED  BY <1>4, <2>2
  <1> HIDE DEF chunk
  <1>10. MaxFrame \in Nat  BY FrameLimit
  <1>11. sent' \in Seq(Outgoing) /\ taken' \in Seq(Outgoing) /\ Len(taken') <= Len(sent')
         /\ (\A i \in 1..Len(taken') : taken'[i] = sent'[i])
         /\ received' \in Nat /\ handed' \in Nat /\ emptied' \in Nat
    BY <1>1, <1>7 DEF PushInv
  <1>12. CASE Len(chunk) > MaxFrame \/ Len(worker.buffer) + Len(chunk) > MaxFrame
    <2>1. worker' = [worker EXCEPT !.failure = "Oversized"]  BY <1>1, <1>2, <1>12 DEF Feed
    <2>2. worker'.failure = "Oversized"  BY <1>4, <2>1
    <2>3. received' - emptied' > MaxFrame
      <3>1. n > MaxFrame \/ (received - emptied) + n > MaxFrame  BY <1>8, <1>9, <1>12
      <3> QED  BY <1>1, <1>4, <1>6, <1>10, <3>1
    <2> QED  BY <1>11, <2>2, <2>3 DEF PushInv
  <1>13. CASE ~(Len(chunk) > MaxFrame \/ Len(worker.buffer) + Len(chunk) > MaxFrame)
    <2>1. received' - emptied' <= MaxFrame
      <3>1. ~((received - emptied) + n > MaxFrame)  BY <1>8, <1>9, <1>13
      <3> QED  BY <1>1, <1>4, <1>6, <1>10, <3>1
    <2>2. worker' = [buffer |-> SubSeq(S, emptied + 1, received + n),
                     position |-> handed - emptied, failure |-> "Ok"]
      <3>1. CASE handed = received
        <4>1. worker.position = Len(worker.buffer)  BY <1>4, <1>9, <3>1
        <4>2. worker' = [worker EXCEPT !.buffer = chunk, !.position = 0]
          BY <1>1, <1>2, <1>13, <4>1 DEF Feed
        <4>3. emptied = received /\ handed - emptied = 0  BY <1>4, <3>1
        <4> QED  BY <1>4, <1>8, <4>2, <4>3
      <3>2. CASE handed # received
        <4>1. worker.position # Len(worker.buffer)
          <5>1. handed - emptied # received - emptied  BY <1>4, <3>2
          <5> QED  BY <1>4, <1>9, <5>1
        <4>2. worker' = [worker EXCEPT !.buffer = @ \o chunk]
          BY <1>1, <1>2, <1>13, <4>1 DEF Feed
        <4>3. SubSeq(S, emptied + 1, received) \o SubSeq(S, received + 1, received + n)
                = SubSeq(S, emptied + 1, received + n)
          <5> DEFINE c == received + n
          <5>1. /\ emptied + 1 \in Nat \ {0} /\ emptied + 1 <= received + 1
                /\ c \in Nat /\ received <= c /\ c <= Len(S)
            BY <1>4, <1>7 DEF m
          <5> HIDE DEF c
          <5>2. SubSeq(S, emptied + 1, received) \o SubSeq(S, received + 1, c)
                  = SubSeq(S, emptied + 1, c)
            BY <1>4, <5>1, PiecesJoin
          <5> QED  BY <5>2 DEF c
        <4> QED  BY <1>4, <1>8, <4>2, <4>3
      <3> QED  BY <3>1, <3>2
    <2>3. Flowing(S, ends)'
      <3>1. handed' <= received' /\ received' <= Len(S) /\ handed' # received'
        BY <1>1, <1>4, <1>7 DEF m
      <3>2. Stream(S, ends)'  BY <1>1, <1>3 DEF Flowing, Stream
      <3>3. stream' = SubSeq(S, received' + 1, Len(S))  BY <1>1, <1>8 DEF m
      <3> QED  BY <1>1, <1>4, <2>1, <2>2, <3>1, <3>2, <3>3 DEF Flowing
    <2>4. worker'.failure = "Ok"  BY <2>2
    <2>5. (\E X, e : Flowing(X, e))'  BY <2>3
    <2> QED  BY <1>11, <2>4, <2>5 DEF PushInv
  <1> QED  BY <1>12, <1>13

\* The worker takes the next frame of those sent.
LEMMA WorkerTakeKeeps ==
    ASSUME PushInv, WorkerTake
    PROVE  PushInv'
  <1> DEFINE k == Len(taken)
             f == sent[k + 1]
             n == FrameSize(f)
  <1>1. /\ Peek(worker).status = "Ok" /\ worker' = Advanced(worker, Peek(worker))
        /\ taken' = Append(taken, [type |-> Peek(worker).type,
                                   payload |-> Peek(worker).payload])
        /\ handed' = handed + FrameSize(Peek(worker))
        /\ emptied' = (IF handed' = received THEN received ELSE emptied)
        /\ UNCHANGED <<sent, stream, received>>
    BY DEF WorkerTake, After
  <1>2. worker.failure = "Ok"  BY <1>1, RefusedPeek DEF NoFrame
  <1>3. PICK S, ends : Flowing(S, ends)  BY <1>2 DEF PushInv
  <1>4. /\ k < Len(sent)
        /\ Peek(worker) = [status |-> "Ok", type |-> f.type, payload |-> f.payload,
                           consumed |-> n]
        /\ handed + n <= received /\ handed + n = ends[k + 1]
    <2>1. NoFrame("NeedMoreData").status # "Ok"  BY DEF NoFrame
    <2> QED  BY <1>1, <1>3, <2>1, FlowingPeek
  <1>5. k \in Nat /\ Len(sent) \in Nat /\ k + 1 \in 1..Len(sent) /\ k + 1 <= Len(sent)
    BY <1>4 DEF PushInv
  <1>6. f \in Outgoing  BY <1>5 DEF PushInv
  <1>7. /\ f = [type |-> f.type, payload |-> f.payload] /\ n \in Nat /\ n > 0
    BY <1>6, OutgoingIsFrame
  <1>8. taken' = Append(taken, f) /\ FrameSize(Peek(worker)) = n
    <2>1. Peek(worker).payload = f.payload /\ Peek(worker).type = f.type  BY <1>4
    <2> QED  BY <1>1, <1>7, <2>1 DEF FrameSize
  <1> HIDE DEF n
  <1>9. /\ received \in Nat /\ handed \in Nat /\ emptied \in Nat
        /\ emptied <= handed /\ handed <= received /\ received <= Len(S)
        /\ S \in Seq(Symbols(S)) /\ Len(S) \in Nat
        /\ worker = [buffer |-> SubSeq(S, emptied + 1, received),
                     position |-> handed - emptied, failure |-> "Ok"]
        /\ stream = SubSeq(S, received + 1, Len(S)) /\ received - emptied <= MaxFrame
    BY <1>3 DEF Flowing, Stream, PushInv
  <1>10. handed' = handed + n /\ handed' \in Nat
    <2>1. handed' = handed + n  BY <1>1, <1>8
    <2>2. handed + n \in Nat  BY <1>7, <1>9
    <2> QED  BY <2>1, <2>2
  <1>11. /\ taken' \in Seq(Outgoing) /\ Len(taken') = k + 1
         /\ (\A i \in 1..k : taken'[i] = taken[i]) /\ taken'[k + 1] = f
    BY <1>6, <1>8, AppendProperties DEF PushInv
  <1>12. \A i \in 1..Len(taken') : taken'[i] = sent'[i]
    <2>1. \A i \in 1..(k + 1) : i \in 1..k \/ i = k + 1  BY <1>5
    <2> HIDE DEF k
    <2> QED  BY <1>1, <1>11, <2>1 DEF PushInv, k
  <1>13. Len(worker.buffer) = received - emptied
    <2>1. emptied + 1 \in Nat \ {0} /\ emptied + 1 <= received + 1  BY <1>9
    <2>2. Len(SubSeq(S, emptied + 1, received)) = received + 1 - (emptied + 1)
      BY <1>9, <2>1, PieceOf
    <2> QED  BY <1>9, <2>2
  <1>14. Peek(worker).status = "Ok" /\ Peek(worker).consumed = n  BY <1>4
  <1>15. Stream(S, ends)'  BY <1>1, <1>3 DEF Flowing, Stream
  <1>16. handed' = ends[Len(taken')]  BY <1>4, <1>10, <1>11
  <1>19. sent' \in Seq(Outgoing) /\ taken' \in Seq(Outgoing) /\ Len(taken') <= Len(sent')
    BY <1>1, <1>5, <1>11 DEF PushInv
  <1>17. CASE handed' = received
    <2>1. worker.position + Peek(worker).consumed = Len(worker.buffer)
      <3>1. (handed - emptied) + n = received - emptied  BY <1>7, <1>9, <1>10, <1>17
      <3> QED  BY <1>9, <1>13, <1>14, <3>1
    <2>2. worker' = NewDecoder
      <3>1. "Ok" # "NeedMoreData"  OBVIOUS
      <3> QED  BY <1>1, <1>14, <2>1, <3>1 DEF Advanced
    <2>3. emptied' = received /\ handed' - emptied' = 0  BY <1>1, <1>9, <1>17
    <2>4. SubSeq(S, received + 1, received) = <<>>  BY <1>9, SubSeqEmpty
    <2>5. 0 <= MaxFrame /\ received - received = 0  BY <1>9, FrameLimit
    <2>6. worker' = [buffer |-> SubSeq(S, emptied' + 1, received'),
                     position |-> handed' - emptied', failure |-> "Ok"]
      BY <1>1, <2>2, <2>3, <2>4 DEF NewDecoder
    <2>7. Flowing(S, ends)'
      <3>1. emptied' <= handed' /\ handed' <= received'  BY <1>1, <1>9, <1>17, <2>3
      <3> QED  BY <1>1, <1>9, <1>15, <1>16, <1>17, <2>3, <2>5, <2>6, <3>1 DEF Flowing
    <2>8. worker'.failure = "Ok" /\ (\E X, e : Flowing(X, e))'  BY <2>6, <2>7
    <2>9. received' \in Nat /\ emptied' \in Nat  BY <1>1, <1>9, <2>3
    <2> QED  BY <1>10, <1>19, <1>12, <2>8, <2>9 DEF PushInv
  <1>18. CASE handed' # received
    <2>1. worker.position + Peek(worker).consumed # Len(worker.buffer)
      <3>1. (handed - emptied) + n # received - emptied  BY <1>7, <1>9, <1>10, <1>18
      <3> QED  BY <1>9, <1>13, <1>14, <3>1
    <2>2. worker' = [worker EXCEPT !.position = @ + n]
      <3>1. "Ok" # "NeedMoreData"  OBVIOUS
      <3> QED  BY <1>1, <1>14, <2>1, <3>1 DEF Advanced
    <2>3. emptied' = emptied  BY <1>1, <1>18
    <2>4. worker' = [buffer |-> SubSeq(S, emptied' + 1, received'),
                     position |-> handed' - emptied', failure |-> "Ok"]
      <3>1. (handed - emptied) + n = handed' - emptied  BY <1>7, <1>9, <1>10
      <3> QED  BY <1>1, <1>9, <2>2, <2>3, <3>1
    <2>5. Flowing(S, ends)'
      <3>1. emptied' <= handed' /\ handed' <= received'
        BY <1>1, <1>4, <1>7, <1>9, <1>10, <2>3
      <3> QED  BY <1>1, <1>9, <1>15, <1>16, <1>18, <2>3, <2>4, <3>1 DEF Flowing
    <2>8. worker'.failure = "Ok" /\ (\E X, e : Flowing(X, e))'  BY <2>4, <2>5
    <2>9. received' \in Nat /\ emptied' \in Nat  BY <1>1, <1>9, <2>3
    <2> QED  BY <1>10, <1>19, <1>12, <2>8, <2>9 DEF PushInv
  <1> QED  BY <1>17, <1>18

LEMMA PushStep == PushInv /\ [PushNext]_pushVars => PushInv'
  <1> SUFFICES ASSUME PushInv, [PushNext]_pushVars PROVE PushInv'  OBVIOUS
  <1>1. ASSUME NEW frame \in Outgoing, Push(frame) PROVE PushInv'  BY <1>1, PushKeeps
  <1>2. ASSUME NEW size \in PieceSizes, WorkerRead(size) PROVE PushInv'
    BY <1>2, WorkerReadKeeps
  <1>3. CASE WorkerTake  BY <1>3, WorkerTakeKeeps
  <1>4. CASE UNCHANGED pushVars
    <2>1. /\ sent' = sent /\ taken' = taken /\ stream' = stream /\ worker' = worker
          /\ received' = received /\ handed' = handed /\ emptied' = emptied
      BY <1>4 DEF pushVars
    <2> QED  BY <2>1 DEF PushInv, Flowing, Stream
  <1> QED  BY <1>1, <1>2, <1>3, <1>4 DEF PushNext, PushEnds

\* Whatever the coordinator sends a worker, and in whatever pieces the worker reads it:
\* the worker takes what was sent, in order, and its FrameDecoder refuses the stream
\* (protocol.cpp:288) exactly when it has read more than the largest frame without having
\* had nothing left over in between.
THEOREM PushedFramesAlwaysArrive == PushSpec => []PushedFramesArrive
  <1>1. PushInv => PushedFramesArrive
    <2> SUFFICES ASSUME PushInv PROVE PushedFramesArrive  OBVIOUS
    <2>1. DOMAIN taken = 1..Len(taken)  BY DEF PushInv
    <2>2. CASE worker.failure = "Ok"
      <3>1. PICK S, ends : Flowing(S, ends)  BY <2>2 DEF PushInv
      <3>2. received - emptied <= MaxFrame  BY <3>1 DEF Flowing
      <3>3. received - emptied \in Int /\ MaxFrame \in Nat  BY FrameLimit DEF PushInv
      <3>4. ~(received - emptied > MaxFrame)  BY <3>2, <3>3
      <3> QED  BY <2>1, <2>2, <3>4 DEF PushInv, PushedFramesArrive
    <2>3. CASE worker.failure # "Ok"
      BY <2>1, <2>3 DEF PushInv, PushedFramesArrive
    <2> QED  BY <2>2, <2>3
  <1> QED  BY <1>1, PushInits, PushStep, PTL DEF PushSpec
==============================================================================
