-------------------------- MODULE Connection_proofs --------------------------
(***************************************************************************)
(* The invariants of Connection hold for any header size, any lengths, any *)
(* number of messages in either direction and any amount of memory.        *)
(***************************************************************************)
EXTENDS Connection, SequenceTheorems, TLAPS

-----------------------------------------------------------------------------
(* The receiving half. *)

Byte == Nat \X Nat

\* The bytes of a message whose length is given in ls.
Sized(ls, i) == HeaderSize + ls[i]

\* The bytes w follow byte g of the c-th of the messages ls, and nothing is
\* missing between two of them or, unless the stream was cut (e), at the end.
Follows(w, ls, c, g) ==
    /\ w \in Seq(Byte) /\ ls \in Seq(Nat) /\ c \in 1..(Len(ls) + 1) /\ g \in Nat
    /\ \A k \in 1..Len(w) :
          w[k][1] \in 1..Len(ls) /\ w[k][2] \in 1..Sized(ls, w[k][1])
    /\ w # <<>> => w[1] = <<c, g + 1>>
    /\ \A k \in 1..Len(w), j \in Nat :
          k + j <= Len(w) /\ w[k][2] + j <= Sized(ls, w[k][1])
             => w[k + j] = <<w[k][1], w[k][2] + j>>
    /\ \A k \in 1..(Len(w) - 1) :
          w[k][2] = Sized(ls, w[k][1]) => w[k + 1] = <<w[k][1] + 1, 1>>
    /\ IF c <= Len(ls) THEN g < Sized(ls, c) ELSE g = 0 /\ w = <<>>
Reaches(w, ls, c) ==
    IF w = <<>> THEN c = Len(ls) + 1
    ELSE w[Len(w)] = <<Len(ls), Sized(ls, Len(ls))>>

LEMMA BytesAre ==
    ASSUME NEW i \in Nat, NEW first \in Nat, NEW last \in Nat, first <= last + 1
    PROVE  /\ In!Bytes(i, first, last) \in Seq(Byte)
           /\ Len(In!Bytes(i, first, last)) = last - first + 1
           /\ \A k \in 1..(last - first + 1) :
                 In!Bytes(i, first, last)[k] = <<i, first + k - 1>>
BY DEF In!Bytes, Byte

LEMMA FirstBytes ==
    ASSUME NEW i \in Nat, NEW n \in Nat
    PROVE  /\ In!Bytes(i, 1, n) \in Seq(Byte) /\ Len(In!Bytes(i, 1, n)) = n
           /\ \A k \in 1..n : In!Bytes(i, 1, n)[k] = <<i, k>>
BY DEF In!Bytes, Byte

LEMMA NoBytes ==
    ASSUME NEW i \in Nat, NEW n \in Nat
    PROVE  In!Bytes(i, n + 1, n) = <<>>
<1>1. n + 1 \in Nat /\ n + 1 <= n + 1 /\ n - (n + 1) + 1 = 0
  OBVIOUS
<1>2. In!Bytes(i, n + 1, n) \in Seq(Byte) /\ Len(In!Bytes(i, n + 1, n)) = 0
  BY <1>1, BytesAre
<1> QED
  BY <1>2

LEMMA BytesJoin ==
    ASSUME NEW i \in Nat, NEW first \in Nat, NEW mid \in Nat, NEW last \in Nat,
           first <= mid + 1, mid <= last
    PROVE  In!Bytes(i, first, mid) \o In!Bytes(i, mid + 1, last) = In!Bytes(i, first, last)
<1> DEFINE a == In!Bytes(i, first, mid)
           b == In!Bytes(i, mid + 1, last)
           c == In!Bytes(i, first, last)
<1>1. /\ a \in Seq(Byte) /\ Len(a) = mid - first + 1
      /\ \A k \in 1..(mid - first + 1) : a[k] = <<i, first + k - 1>>
  BY ZenonT(40), BytesAre
<1>2. /\ b \in Seq(Byte) /\ Len(b) = last - mid
      /\ \A k \in 1..(last - mid) : b[k] = <<i, mid + k>>
  <2> DEFINE f == mid + 1
  <2>1. f \in Nat /\ f <= last + 1
    OBVIOUS
  <2> HIDE DEF f
  <2>2. /\ In!Bytes(i, f, last) \in Seq(Byte)
        /\ Len(In!Bytes(i, f, last)) = last - f + 1
        /\ \A k \in 1..(last - f + 1) : In!Bytes(i, f, last)[k] = <<i, f + k - 1>>
    BY ZenonT(60), <2>1, BytesAre
  <2> QED
    BY <2>2 DEF f
<1>3. /\ c \in Seq(Byte) /\ Len(c) = last - first + 1
      /\ \A k \in 1..(last - first + 1) : c[k] = <<i, first + k - 1>>
  <2>1. first <= last + 1
    OBVIOUS
  <2> QED
    BY ZenonT(40), <2>1, BytesAre
<1> HIDE DEF a, b, c
<1>4. /\ a \o b \in Seq(Byte) /\ Len(a \o b) = Len(a) + Len(b)
      /\ \A k \in 1..(Len(a) + Len(b)) :
            (a \o b)[k] = IF k <= Len(a) THEN a[k] ELSE b[k - Len(a)]
  BY <1>1, <1>2, ConcatProperties
<1>5. Len(a \o b) = Len(c) /\ \A k \in 1..Len(a \o b) : (a \o b)[k] = c[k]
  <2>1. Len(a) + Len(b) = last - first + 1 /\ Len(a) \in Nat
    BY <1>1, <1>2
  <2> SUFFICES ASSUME NEW k \in 1..(last - first + 1) PROVE (a \o b)[k] = c[k]
    BY <1>3, <1>4, <2>1
  <2>2. CASE k <= Len(a)
    <3>1. k \in 1..(mid - first + 1) /\ k \in 1..(Len(a) + Len(b))
      BY <1>1, <2>1, <2>2
    <3>2. (a \o b)[k] = a[k]
      BY <1>4, <2>2, <3>1
    <3> QED
      BY <1>1, <1>3, <3>1, <3>2
  <2>3. CASE k > Len(a)
    <3> DEFINE d == k - Len(a)
    <3>1. /\ d \in 1..(last - mid) /\ mid + d = first + k - 1
          /\ k \in 1..(Len(a) + Len(b)) /\ ~(k <= Len(a))
      BY <1>1, <2>1, <2>3
    <3>2. (a \o b)[k] = b[d]
      BY <1>4, <3>1
    <3> HIDE DEF d
    <3>3. b[d] = <<i, mid + d>> /\ c[k] = <<i, first + k - 1>>
      BY <1>2, <1>3, <3>1
    <3> QED
      BY <3>1, <3>2, <3>3
  <2> QED
    BY <2>1, <2>2, <2>3
<1>6. a \o b = c
  BY <1>3, <1>4, <1>5, SeqEqual
<1> QED
  BY <1>6 DEF a, b, c

\* A piece that ends with the message, or earlier, is a piece of that message.
LEMMA ReadPiece ==
    ASSUME HeaderSize \in Nat, NEW w, NEW ls, NEW c, NEW g, Follows(w, ls, c, g),
           NEW n \in 1..Len(w), g + n <= Sized(ls, c)
    PROVE  /\ c <= Len(ls) /\ w[n] = <<c, g + n>>
           /\ SubSeq(w, 1, n) = In!Bytes(c, g + 1, g + n)
<1>1. c <= Len(ls) /\ w[1] = <<c, g + 1>> /\ Len(w) \in Nat /\ g \in Nat /\ c \in Nat
  BY DEF Follows
<1>2. Sized(ls, c) \in Nat
  BY SMTT(20), <1>1 DEF Follows, Sized
<1>3. ASSUME NEW k \in 1..n PROVE w[k] = <<c, g + k>>
  <2> DEFINE j == k - 1
  <2>1. 1 \in 1..Len(w) /\ j \in Nat /\ 1 + j <= Len(w)
        /\ (g + 1) + j <= Sized(ls, c) /\ 1 + j = k /\ (g + 1) + j = g + k
    <3>1. Len(w) \in Nat /\ g \in Nat
      BY <1>1
    <3>2. k \in Nat /\ n \in Nat /\ 1 <= k /\ k <= n /\ n <= Len(w)
      BY <3>1
    <3> QED
      BY <1>2, <3>1, <3>2
  <2> HIDE DEF j
  <2>2. w[1][1] = c /\ w[1][2] = g + 1
    BY <1>1
  <2>3. w[1 + j] = <<w[1][1], w[1][2] + j>>
    BY <2>1, <2>2 DEF Follows
  <2> QED
    BY <2>1, <2>2, <2>3
<1> DEFINE a == SubSeq(w, 1, n)
           b == In!Bytes(c, g + 1, g + n)
<1>4. a \in Seq(Byte) /\ Len(a) = n /\ \A k \in 1..n : a[k] = w[k]
  BY SMTT(20), <1>1 DEF Follows
<1>5. b \in Seq(Byte) /\ Len(b) = n /\ \A k \in 1..n : b[k] = <<c, g + k>>
  <2> DEFINE f == g + 1
             l == g + n
  <2>1. f \in Nat /\ l \in Nat /\ f <= l + 1
    BY <1>1
  <2>2. l - f + 1 = n /\ \A k \in 1..n : f + k - 1 = g + k
    BY <1>1
  <2> HIDE DEF f, l
  <2>3. /\ In!Bytes(c, f, l) \in Seq(Byte) /\ Len(In!Bytes(c, f, l)) = l - f + 1
        /\ \A k \in 1..(l - f + 1) : In!Bytes(c, f, l)[k] = <<c, f + k - 1>>
    BY ZenonT(20), <1>1, <2>1, BytesAre
  <2>4. /\ In!Bytes(c, f, l) \in Seq(Byte) /\ Len(In!Bytes(c, f, l)) = n
        /\ \A k \in 1..n : In!Bytes(c, f, l)[k] = <<c, g + k>>
    BY <2>2, <2>3
  <2> QED
    BY <2>4 DEF f, l
<1> HIDE DEF a, b
<1>6. a = b
  BY <1>3, <1>4, <1>5, SeqEqual
<1> QED
  BY <1>1, <1>3, <1>6 DEF a, b

\* What follows it, in the same message or at the start of the next.
LEMMA FollowsOn ==
    ASSUME HeaderSize \in Nat \ {0}, NEW w, NEW ls, NEW c, NEW g, Follows(w, ls, c, g),
           NEW n \in 1..Len(w), g + n <= Sized(ls, c)
    PROVE  LET rest == SubSeq(w, n + 1, Len(w)) IN
           /\ g + n < Sized(ls, c) =>
                 /\ Follows(rest, ls, c, g + n)
                 /\ Reaches(w, ls, c) => Reaches(rest, ls, c)
           /\ g + n = Sized(ls, c) =>
                 /\ Follows(rest, ls, c + 1, 0)
                 /\ Reaches(w, ls, c) => Reaches(rest, ls, c + 1)
<1> DEFINE rest == SubSeq(w, n + 1, Len(w))
<1>1. /\ w \in Seq(Byte) /\ ls \in Seq(Nat) /\ g \in Nat /\ c \in 1..Len(ls)
      /\ Len(ls) \in Nat /\ Len(w) \in Nat /\ w[n] = <<c, g + n>>
  <2>1. c <= Len(ls) /\ w[n] = <<c, g + n>>
    BY ReadPiece
  <2> QED
    BY <2>1 DEF Follows
<1>2. /\ rest \in Seq(Byte) /\ Len(rest) = Len(w) - n
      /\ \A k \in 1..Len(rest) : rest[k] = w[n + k] /\ n + k \in 1..Len(w)
  BY <1>1
<1> HIDE DEF rest
<1>3. \A k \in 1..Len(rest) :
         rest[k][1] \in 1..Len(ls) /\ rest[k][2] \in 1..Sized(ls, rest[k][1])
  BY <1>1, <1>2 DEF Follows
<1>4. \A k \in 1..Len(rest), j \in Nat :
         k + j <= Len(rest) /\ rest[k][2] + j <= Sized(ls, rest[k][1])
            => rest[k + j] = <<rest[k][1], rest[k][2] + j>>
  <2> SUFFICES ASSUME NEW k \in 1..Len(rest), NEW j \in Nat, k + j <= Len(rest),
                      rest[k][2] + j <= Sized(ls, rest[k][1])
               PROVE  rest[k + j] = <<rest[k][1], rest[k][2] + j>>
    OBVIOUS
  <2>1. /\ n + k \in 1..Len(w) /\ (n + k) + j <= Len(w) /\ rest[k] = w[n + k]
        /\ rest[k + j] = w[(n + k) + j]
    BY SMTT(20), <1>1, <1>2
  <2> QED
    BY <2>1 DEF Follows
<1>5. \A k \in 1..(Len(rest) - 1) :
         rest[k][2] = Sized(ls, rest[k][1]) => rest[k + 1] = <<rest[k][1] + 1, 1>>
  <2> SUFFICES ASSUME NEW k \in 1..(Len(rest) - 1), rest[k][2] = Sized(ls, rest[k][1])
               PROVE  rest[k + 1] = <<rest[k][1] + 1, 1>>
    OBVIOUS
  <2>0. Len(rest) \in Nat /\ Len(w) \in Nat /\ n \in Nat /\ Len(rest) = Len(w) - n
    BY <1>1, <1>2
  <2>1. k \in 1..Len(rest) /\ k + 1 \in 1..Len(rest) /\ n + (k + 1) = (n + k) + 1
    BY <2>0
  <2>2. /\ n + k \in 1..(Len(w) - 1) /\ rest[k] = w[n + k] /\ rest[k + 1] = w[(n + k) + 1]
    BY SMTT(20), <1>1, <1>2, <2>1
  <2> QED
    BY <2>2 DEF Follows
<1>6. Len(rest) > 0 <=> rest # <<>>
  BY <1>2
<1>7. Sized(ls, c) \in Nat /\ \A i \in 1..Len(ls) : Sized(ls, i) \in Nat \ {0}
  <2>1. \A i \in 1..Len(ls) : ls[i] \in Nat
    BY <1>1
  <2>2. \A i \in 1..Len(ls) : Sized(ls, i) \in Nat \ {0}
    BY <2>1 DEF Sized
  <2> QED
    BY <1>1, <2>2
<1>8. Reaches(w, ls, c) => w[Len(w)] = <<Len(ls), Sized(ls, Len(ls))>>
  BY <1>1 DEF Reaches
<1>9. ASSUME g + n < Sized(ls, c)
      PROVE  Follows(rest, ls, c, g + n) /\ (Reaches(w, ls, c) => Reaches(rest, ls, c))
  <2>1. rest # <<>> => rest[1] = <<c, (g + n) + 1>>
    <3> SUFFICES ASSUME rest # <<>> PROVE rest[1] = <<c, (g + n) + 1>>
      OBVIOUS
    <3>1. 1 \in 1..Len(rest) /\ rest[1] = w[n + 1] /\ n + 1 <= Len(w)
      BY <1>1, <1>2, <1>6
    <3>2. w[n][1] = c /\ w[n][2] = g + n
      BY <1>1
    <3>3. (g + n) + 1 <= Sized(ls, c) /\ 1 \in Nat
      BY <1>1, <1>7, <1>9
    <3>4. w[n + 1] = <<w[n][1], w[n][2] + 1>>
      BY <3>1, <3>2, <3>3 DEF Follows
    <3> QED
      BY <3>1, <3>2, <3>4
  <2>2. Follows(rest, ls, c, g + n)
    <3>1. g + n \in Nat /\ c \in 1..(Len(ls) + 1) /\ c <= Len(ls)
      BY <1>1
    <3> QED
      BY <1>1, <1>2, <1>3, <1>4, <1>5, <1>9, <2>1, <3>1 DEF Follows
  <2>3. Reaches(w, ls, c) => Reaches(rest, ls, c)
    <3>1. CASE n = Len(w)
      <4>1. Reaches(w, ls, c) => c = Len(ls) /\ g + n = Sized(ls, c)
        BY <1>1, <1>8, <3>1
      <4>2. g + n \in Nat
        BY <1>1
      <4> QED
        BY <1>7, <1>9, <4>1, <4>2
    <3>2. CASE n < Len(w)
      <4>1. Len(rest) \in 1..Len(rest) /\ n + Len(rest) = Len(w) /\ rest # <<>>
        BY <1>1, <1>2, <1>6, <3>2
      <4>2. rest[Len(rest)] = w[Len(w)]
        BY <1>2, <4>1
      <4> QED
        BY <1>8, <4>1, <4>2 DEF Reaches
    <3> QED
      BY <1>1, <3>1, <3>2
  <2> QED
    BY <2>2, <2>3
<1>10. ASSUME g + n = Sized(ls, c)
       PROVE  Follows(rest, ls, c + 1, 0) /\ (Reaches(w, ls, c) => Reaches(rest, ls, c + 1))
  <2>1. rest # <<>> => rest[1] = <<c + 1, 1>> /\ c + 1 <= Len(ls)
    <3> SUFFICES ASSUME rest # <<>> PROVE rest[1] = <<c + 1, 1>> /\ c + 1 <= Len(ls)
      OBVIOUS
    <3>1. rest[1] = w[n + 1] /\ n \in 1..(Len(w) - 1) /\ w[n][2] = Sized(ls, w[n][1])
          /\ 1 \in 1..Len(rest)
      BY <1>1, <1>2, <1>6, <1>10
    <3>2. rest[1] = <<c + 1, 1>>
      BY SMTT(20), <1>1, <3>1 DEF Follows
    <3> QED
      BY <1>1, <1>3, <3>1, <3>2
  <2>2. Follows(rest, ls, c + 1, 0)
    <3>1. c + 1 \in 1..(Len(ls) + 1) /\ 0 \in Nat /\ 0 + 1 = 1
      BY SMTT(20), <1>1
    <3>2. IF c + 1 <= Len(ls) THEN 0 < Sized(ls, c + 1) ELSE 0 = 0 /\ rest = <<>>
      BY <1>1, <1>7, <2>1
    <3> QED
      BY <1>1, <1>2, <1>3, <1>4, <1>5, <2>1, <3>1, <3>2 DEF Follows
  <2>3. Reaches(w, ls, c) => Reaches(rest, ls, c + 1)
    <3>1. CASE n = Len(w)
      BY <1>1, <1>2, <1>8, <3>1 DEF Reaches
    <3>2. CASE n < Len(w)
      <4>1. Len(rest) \in 1..Len(rest) /\ n + Len(rest) = Len(w) /\ rest # <<>>
        BY <1>1, <1>2, <1>6, <3>2
      <4>2. rest[Len(rest)] = w[Len(w)]
        BY <1>2, <4>1
      <4> QED
        BY <1>8, <4>1, <4>2 DEF Reaches
    <3> QED
      BY <1>1, <3>1, <3>2
  <2> QED
    BY <2>2, <2>3
<1> QED
  BY <1>9, <1>10 DEF rest

\* The peer sends a message more.
LEMMA FollowsSent ==
    ASSUME HeaderSize \in Nat \ {0}, NEW w, NEW ls, NEW c, NEW g, Follows(w, ls, c, g),
           Reaches(w, ls, c), NEW length \in Nat
    PROVE  LET more == w \o In!Bytes(Len(ls) + 1, 1, HeaderSize + length)
               longer == Append(ls, length)
           IN  Follows(more, longer, c, g) /\ Reaches(more, longer, c)
<1> DEFINE new == In!Bytes(Len(ls) + 1, 1, HeaderSize + length)
           more == w \o new
           longer == Append(ls, length)
           top == Len(ls) + 1
           size == HeaderSize + length
<1>1. /\ w \in Seq(Byte) /\ ls \in Seq(Nat) /\ g \in Nat /\ c \in 1..(Len(ls) + 1)
      /\ Len(ls) \in Nat /\ Len(w) \in Nat /\ top \in Nat /\ size \in Nat \ {0}
  BY DEF Follows
<1>2. /\ longer \in Seq(Nat) /\ Len(longer) = top /\ Sized(longer, top) = size
      /\ \A i \in 1..Len(ls) : longer[i] = ls[i] /\ Sized(longer, i) = Sized(ls, i)
  BY <1>1 DEF Sized
<1>3. /\ new \in Seq(Byte) /\ Len(new) = size
      /\ \A k \in 1..size : new[k] = <<top, k>>
  <2> HIDE DEF top, size
  <2>1. /\ In!Bytes(top, 1, size) \in Seq(Byte) /\ Len(In!Bytes(top, 1, size)) = size
        /\ \A k \in 1..size : In!Bytes(top, 1, size)[k] = <<top, k>>
    BY <1>1, FirstBytes
  <2> QED
    BY <2>1 DEF top, size
<1> HIDE DEF new, longer, top, size
<1>4. /\ more \in Seq(Byte) /\ Len(more) = Len(w) + size
      /\ \A k \in 1..(Len(w) + size) :
            more[k] = IF k <= Len(w) THEN w[k] ELSE new[k - Len(w)]
  BY <1>1, <1>3, ConcatProperties
<1> HIDE DEF more
<1>5. /\ \A k \in 1..Len(w) : k \in 1..Len(more) /\ more[k] = w[k]
      /\ \A k \in 1..Len(more) : k \notin 1..Len(w) =>
            k - Len(w) \in 1..size /\ more[k] = <<top, k - Len(w)>>
  <2>1. ASSUME NEW k \in 1..Len(w) PROVE k \in 1..Len(more) /\ more[k] = w[k]
    BY <1>1, <1>4
  <2>2. ASSUME NEW k \in 1..Len(more), k \notin 1..Len(w)
        PROVE  k - Len(w) \in 1..size /\ more[k] = <<top, k - Len(w)>>
    <3>1. k - Len(w) \in 1..size /\ ~(k <= Len(w))
      BY <1>1, <1>4, <2>2
    <3> QED
      BY <1>3, <1>4, <3>1
  <2> QED
    BY <2>1, <2>2
<1>6. ASSUME NEW k \in 1..Len(w)
      PROVE  /\ w[k] = <<w[k][1], w[k][2]>> /\ w[k][1] \in 1..Len(ls) /\ w[k][2] \in Nat
             /\ Sized(longer, w[k][1]) = Sized(ls, w[k][1]) /\ Sized(ls, w[k][1]) \in Nat
  <2>1. w[k] \in Byte /\ w[k][1] \in 1..Len(ls)
    BY <1>1 DEF Follows
  <2>2. \A i \in 1..Len(ls) : Sized(ls, i) \in Nat
    BY <1>1 DEF Sized
  <2> QED
    BY <1>2, <2>1, <2>2 DEF Byte
<1>7. \A k \in 1..Len(more) :
         more[k][1] \in 1..Len(longer) /\ more[k][2] \in 1..Sized(longer, more[k][1])
  <2> SUFFICES ASSUME NEW k \in 1..Len(more)
               PROVE  more[k][1] \in 1..Len(longer) /\ more[k][2] \in 1..Sized(longer, more[k][1])
    OBVIOUS
  <2>1. CASE k \in 1..Len(w)
    <3>1. w[k][2] \in 1..Sized(ls, w[k][1])
      BY <2>1 DEF Follows
    <3>2. w[k][1] \in 1..Len(longer)
      <4>1. w[k][1] \in 1..Len(ls)
        BY <1>6, <2>1
      <4>2. Len(longer) = Len(ls) + 1
        BY <1>2 DEF top
      <4> QED
        BY <1>1, <4>1, <4>2
    <3> QED
      BY <1>5, <1>6, <2>1, <3>1, <3>2
  <2>2. CASE k \notin 1..Len(w)
    <3>1. more[k][1] = top /\ more[k][2] \in 1..size
      BY <1>5, <2>2
    <3> QED
      BY <1>1, <1>2, <3>1 DEF top
  <2> QED
    BY <2>1, <2>2
<1>8. w # <<>> => w[Len(w)] = <<Len(ls), Sized(ls, Len(ls))>> /\ Len(w) \in 1..Len(w)
  BY <1>1 DEF Reaches
<1>9. Len(w) + 1 \in 1..Len(more) /\ more[Len(w) + 1] = <<top, 1>>
  <2>1. /\ Len(w) + 1 \in 1..Len(more) /\ Len(w) + 1 \notin 1..Len(w)
        /\ (Len(w) + 1) - Len(w) = 1
    BY <1>1, <1>4
  <2> QED
    BY <1>5, <2>1
<1>10. \A k \in 1..Len(more), j \in Nat :
          k + j <= Len(more) /\ more[k][2] + j <= Sized(longer, more[k][1])
             => more[k + j] = <<more[k][1], more[k][2] + j>>
  <2> SUFFICES ASSUME NEW k \in 1..Len(more), NEW j \in Nat, k + j <= Len(more),
                      more[k][2] + j <= Sized(longer, more[k][1])
               PROVE  more[k + j] = <<more[k][1], more[k][2] + j>>
    OBVIOUS
  <2>0. Len(more) \in Nat /\ k + j \in 1..Len(more)
    BY <1>1, <1>4
  <2>1. CASE k \in 1..Len(w) /\ k + j <= Len(w)
    <3>1. w[k][2] + j <= Sized(ls, w[k][1]) /\ more[k] = w[k]
      BY <1>5, <1>6, <2>1
    <3>2. w[k + j] = <<w[k][1], w[k][2] + j>>
      BY <2>1, <3>1 DEF Follows
    <3>3. k + j \in 1..Len(w)
      BY <1>1, <2>1
    <3> QED
      BY <1>5, <3>1, <3>2, <3>3
  <2>2. CASE k \in 1..Len(w) /\ k + j > Len(w)
    <3> DEFINE d == Len(w) - k
    <3>1. d \in Nat /\ d < j /\ k + d <= Len(w) /\ k + d = Len(w) /\ w # <<>>
      BY <1>1, <2>2
    <3> HIDE DEF d
    <3>2. w[k][2] + j <= Sized(ls, w[k][1]) /\ w[k][2] \in Nat /\ Sized(ls, w[k][1]) \in Nat
      BY <1>5, <1>6, <2>2
    <3>3. w[k][2] + d <= Sized(ls, w[k][1]) /\ w[k][2] + d < Sized(ls, w[k][1])
      BY SMTT(20), <3>1, <3>2
    <3>4. w[Len(w)] = <<w[k][1], w[k][2] + d>>
      BY <2>2, <3>1, <3>3 DEF Follows
    <3>5. w[k][1] = Len(ls) /\ w[k][2] + d = Sized(ls, Len(ls))
      BY <1>8, <3>1, <3>4
    <3> QED
      BY <3>2, <3>3, <3>5
  <2>3. CASE k \notin 1..Len(w)
    <3>1. k - Len(w) \in 1..size /\ more[k] = <<top, k - Len(w)>>
      BY <1>5, <2>3
    <3>2. k + j \notin 1..Len(w) /\ (k + j) - Len(w) = (k - Len(w)) + j
      BY <1>1, <2>0, <2>3
    <3>3. more[k + j] = <<top, (k + j) - Len(w)>>
      BY <1>5, <2>0, <3>2
    <3> QED
      BY <3>1, <3>2, <3>3
  <2> QED
    BY <1>1, <2>0, <2>1, <2>2, <2>3
<1>11. \A k \in 1..(Len(more) - 1) :
          more[k][2] = Sized(longer, more[k][1]) => more[k + 1] = <<more[k][1] + 1, 1>>
  <2> SUFFICES ASSUME NEW k \in 1..(Len(more) - 1), more[k][2] = Sized(longer, more[k][1])
               PROVE  more[k + 1] = <<more[k][1] + 1, 1>>
    OBVIOUS
  <2>0. Len(more) \in Nat /\ k \in 1..Len(more) /\ k + 1 \in 1..Len(more)
    BY <1>1, <1>4
  <2>1. CASE k \in 1..(Len(w) - 1)
    <3>1. k \in 1..Len(w) /\ k + 1 \in 1..Len(w)
      BY <1>1, <2>1
    <3>2. more[k] = w[k] /\ more[k + 1] = w[k + 1] /\ w[k][2] = Sized(ls, w[k][1])
      BY <1>5, <1>6, <3>1
    <3> QED
      BY <2>1, <3>2 DEF Follows
  <2>2. CASE k = Len(w)
    <3>1. k \in 1..Len(w) /\ w # <<>>
      BY <1>1, <2>2
    <3>2. more[k] = <<Len(ls), Sized(ls, Len(ls))>>
      BY <1>5, <1>8, <2>2, <3>1
    <3> QED
      BY <1>9, <2>2, <3>2 DEF top
  <2>3. CASE k > Len(w)
    <3>1. k \notin 1..Len(w) /\ k + 1 \notin 1..Len(w)
      BY <1>1, <2>0, <2>3
    <3>2. /\ k - Len(w) \in 1..size /\ more[k] = <<top, k - Len(w)>>
          /\ (k + 1) - Len(w) \in 1..size
      BY <1>5, <2>0, <3>1
    <3>3. k - Len(w) = size
      BY <1>2, <3>2
    <3> QED
      BY <1>1, <2>0, <3>2, <3>3
  <2> QED
    BY <1>1, <2>0, <2>1, <2>2, <2>3
<1>12. more # <<>> /\ more[1] = <<c, g + 1>> /\ c <= Len(longer) /\ c \in 1..(Len(longer) + 1)
       /\ g < Sized(longer, c)
  <2>1. CASE w # <<>>
    <3>1. 1 \in 1..Len(w) /\ w[1] = <<c, g + 1>> /\ c <= Len(ls) /\ g < Sized(ls, c)
      BY <1>1, <2>1 DEF Follows
    <3>2. more[1] = w[1] /\ 1 \in 1..Len(more)
      BY <1>5, <3>1
    <3> QED
      BY <1>1, <1>2, <1>4, <3>1, <3>2 DEF top
  <2>2. CASE w = <<>>
    <3>1. c = top /\ g = 0 /\ Len(w) = 0
      BY <1>1, <2>2 DEF Reaches, Follows, top
    <3> QED
      BY <1>1, <1>2, <1>4, <1>9, <3>1
  <2> QED
    BY <2>1, <2>2
<1>13. Follows(more, longer, c, g)
  BY <1>1, <1>2, <1>4, <1>7, <1>10, <1>11, <1>12 DEF Follows
<1>14. Reaches(more, longer, c)
  <2>1. /\ Len(more) \in 1..Len(more) /\ Len(more) \notin 1..Len(w)
        /\ Len(more) - Len(w) = size
    BY <1>1, <1>4
  <2>2. more[Len(more)] = <<top, size>>
    BY <1>5, <2>1
  <2> QED
    BY <1>2, <1>12, <2>2 DEF Reaches
<1> QED
  BY <1>13, <1>14 DEF more, new, longer

\* The end of what was sent is lost.
LEMMA FollowsCut ==
    ASSUME NEW w, NEW ls, NEW c, NEW g, Follows(w, ls, c, g), NEW lost \in 0..Len(w)
    PROVE  Follows(SubSeq(w, 1, Len(w) - lost), ls, c, g)
<1> DEFINE v == SubSeq(w, 1, Len(w) - lost)
<1>1. /\ w \in Seq(Byte) /\ Len(w) \in Nat
      /\ v \in Seq(Byte) /\ Len(v) = Len(w) - lost /\ \A k \in 1..Len(v) : v[k] = w[k]
  BY SMTT(20) DEF Follows
<1> HIDE DEF v
<1>2. /\ \A k \in 1..Len(v) : k \in 1..Len(w)
      /\ \A k \in 1..(Len(v) - 1) : k \in 1..(Len(w) - 1) /\ k + 1 \in 1..Len(v)
      /\ v # <<>> => 1 \in 1..Len(v) /\ w # <<>>
  BY <1>1
<1>3. \A k \in 1..Len(v), j \in Nat : k + j <= Len(v) => k + j \in 1..Len(v) /\ k + j <= Len(w)
  BY <1>1
<1>4. \A k \in 1..Len(v) :
         v[k][1] \in 1..Len(ls) /\ v[k][2] \in 1..Sized(ls, v[k][1])
  BY <1>1, <1>2 DEF Follows
<1>5. \A k \in 1..Len(v), j \in Nat :
         k + j <= Len(v) /\ v[k][2] + j <= Sized(ls, v[k][1])
            => v[k + j] = <<v[k][1], v[k][2] + j>>
  BY ZenonT(20), <1>1, <1>2, <1>3 DEF Follows
<1>6. \A k \in 1..(Len(v) - 1) :
         v[k][2] = Sized(ls, v[k][1]) => v[k + 1] = <<v[k][1] + 1, 1>>
  <2> SUFFICES ASSUME NEW k \in 1..(Len(v) - 1), v[k][2] = Sized(ls, v[k][1])
               PROVE  v[k + 1] = <<v[k][1] + 1, 1>>
    OBVIOUS
  <2>1. k \in 1..Len(v) /\ v[k] = w[k] /\ v[k + 1] = w[k + 1] /\ k \in 1..(Len(w) - 1)
    BY <1>1, <1>2
  <2> QED
    BY <2>1 DEF Follows
<1>7. /\ v # <<>> => v[1] = <<c, g + 1>>
      /\ IF c <= Len(ls) THEN g < Sized(ls, c) ELSE g = 0 /\ v = <<>>
  <2>1. v # <<>> => v[1] = w[1] /\ w # <<>>
    BY <1>1, <1>2
  <2> QED
    BY <2>1 DEF Follows
<1>8. Follows(v, ls, c, g)
  BY <1>1, <1>4, <1>5, <1>6, <1>7 DEF Follows
<1> QED
  BY <1>8 DEF v

-----------------------------------------------------------------------------
(* BufferManager::read between two calls: the message it is in, how many of *)
(* its bytes it has, and that these and the ones on their way are the rest  *)
(* of what was sent.                                                        *)

Current == Len(delivered) + 1
Got == IF m_bReadHead THEN m_iOffset ELSE HeaderSize + m_iOffset
InHeader ==
    /\ m_iOffset < HeaderSize /\ bodies = 0
    /\ m_bInit => m_iOffset = 0
    /\ ~m_bInit => m_msgHeader = In!Bytes(Current, 1, m_iOffset)
InBody ==
    /\ Current <= Len(lengths) /\ bodies = 1
    /\ m_msgHeader = In!Header(Current)
    /\ m_iLen = lengths[Current] /\ m_iOffset < m_iLen
    /\ ioBuf = In!Bytes(Current, HeaderSize + 1, HeaderSize + m_iOffset)

ReadInv ==
    /\ m_bReadHead \in BOOLEAN /\ m_bInit \in BOOLEAN /\ m_iOffset \in Nat
    /\ delivered \in Seq([header : Seq(Byte), body : Seq(Byte)])
    /\ Follows(arriving, lengths, Current, Got)
    /\ ~ended => Reaches(arriving, lengths, Current)
    /\ IF m_bReadHead THEN InHeader ELSE InBody
    /\ DeliveredAsSent

-----------------------------------------------------------------------------
(* The sending half. *)

Iov == [msg : Nat, buf : Buffers, off : Nat, left : Nat, m_bComplete : BOOLEAN]
WriteTypes ==
    /\ heap \subseteq Buffers
    /\ m_lIovList \in Seq(Iov)
    /\ m_pLastIov \in Buffers \cup {Null}
    /\ phase \in {"open", "retired", "destroyed"}
    /\ queued \in Seq(Nat)
    /\ wire \in Seq([msg : Nat, from : Nat, to : Nat])
    /\ answers \in Seq([msg : Nat, result : BOOLEAN])

\* How many buffers went out whole.
Sent == Len(queued) - Len(m_lIovList)

\* The list is the buffers queued last, and tells what is left of each.
ListIsRest ==
    /\ Len(m_lIovList) <= Len(queued)
    /\ \A i \in 1..Len(m_lIovList) :
          LET e == m_lIovList[i] IN
          /\ e.msg = Sent + i /\ e.left > 0 /\ e.off + e.left = queued[e.msg]
          /\ e.m_bComplete <=> e.off = 0

\* The last piece that the socket took ends where the list begins.
PartOut == m_lIovList # <<>> /\ m_lIovList[1].off > 0
WireMeetsList ==
    /\ wire = <<>> => Sent = 0 /\ ~PartOut
    /\ wire # <<>> =>
          LET last == wire[Len(wire)] IN
          IF PartOut THEN last.msg = Sent + 1 /\ last.to = m_lIovList[1].off
          ELSE last.msg = Sent /\ last.to = queued[Sent]
    /\ \A i \in 1..Len(wire) :
          \/ wire[i].msg \in 1..Sent
          \/ PartOut /\ wire[i].msg = Sent + 1 /\ wire[i].to <= m_lIovList[1].off
    /\ \A msg \in 1..Sent : SentWhole(msg)

\* While the connection is open exactly the senders of those were answered.
AnsweredSoFar ==
    phase = "open" =>
        /\ Len(answers) = Sent
        /\ \A i \in 1..Sent : answers[i] = [msg |-> i, result |-> TRUE]

WriteInv ==
    /\ WriteTypes
    /\ BuffersOwned
    /\ IF phase = "destroyed" THEN m_lIovList = <<>> ELSE ListIsRest /\ WireMeetsList
    /\ AnsweredSoFar
    /\ StreamInOrder
    /\ AnsweredOnce

Inv == ReadInv /\ WriteInv

-----------------------------------------------------------------------------
(* Each step of the receiving half. *)

LEMMA InInit == ASSUME ConnectionAssumption, In!Init PROVE ReadInv
<1>1. /\ lengths = <<>> /\ arriving = <<>> /\ delivered = <<>> /\ m_iOffset = 0
      /\ m_bReadHead = TRUE /\ m_bInit = TRUE /\ bodies = 0
      /\ HeaderSize \in Nat \ {0} /\ Len(<<>>) = 0
  BY DEF In!Init, ConnectionAssumption, In!FramerAssumption
<1>2. Current = 1 /\ Got = 0
  BY <1>1 DEF Current, Got
<1>3. Follows(arriving, lengths, Current, Got) /\ Reaches(arriving, lengths, Current)
  BY <1>1, <1>2 DEF Follows, Reaches
<1> QED
  BY <1>1, <1>3 DEF ReadInv, InHeader, DeliveredAsSent, In!DeliveredAsSent

\* The bytes that begin the stream's rest belong to the current message.
LEMMA InMessage ==
    ASSUME ConnectionAssumption, ReadInv, arriving # <<>>
    PROVE  /\ Current \in 1..Len(lengths) /\ lengths \in Seq(Nat) /\ Len(lengths) \in Nat
           /\ lengths[Current] \in Nat /\ Len(delivered) \in Nat
           /\ Sized(lengths, Current) = HeaderSize + lengths[Current]
           /\ HeaderSize \in Nat \ {0} /\ Len(arriving) \in Nat
<1>1. Follows(arriving, lengths, Current, Got) /\ HeaderSize \in Nat \ {0}
      /\ Len(delivered) \in Nat
  BY DEF ReadInv, ConnectionAssumption, In!FramerAssumption
<1>2. Current \in 1..Len(lengths) /\ lengths \in Seq(Nat) /\ Len(lengths) \in Nat
      /\ Len(arriving) \in Nat
  BY <1>1 DEF Follows
<1> QED
  BY <1>1, <1>2 DEF Sized

\* A header that has come whole means the length that was sent with it.
LEMMA LengthRead ==
    ASSUME ConnectionAssumption, lengths \in Seq(Nat), NEW c \in 1..Len(lengths)
    PROVE  In!LengthIn(In!Header(c)) = {lengths[c]}
<1>1. HeaderSize \in Nat \ {0} /\ Len(lengths) \in Nat
  BY DEF ConnectionAssumption, In!FramerAssumption
<1>2. \A i \in 1..Len(lengths) : In!Header(i)[1] = <<i, 1>>
  <2> SUFFICES ASSUME NEW i \in 1..Len(lengths) PROVE In!Header(i)[1] = <<i, 1>>
    OBVIOUS
  <2>1. i \in Nat /\ 1 \in 1..HeaderSize
    BY <1>1
  <2> QED
    BY <1>1, <2>1, FirstBytes DEF In!Header
<1>3. \A i \in 1..Len(lengths) : In!Header(c) = In!Header(i) <=> i = c
  <2> SUFFICES ASSUME NEW i \in 1..Len(lengths), In!Header(c) = In!Header(i) PROVE i = c
    OBVIOUS
  <2>1. <<i, 1>> = <<c, 1>>
    BY <1>2
  <2> QED
    BY <2>1
<1>4. {i \in 1..Len(lengths) : In!Header(c) = In!Header(i)} = {c}
  BY <1>3
<1> QED
  BY <1>4 DEF In!LengthIn

\* What was delivered stays delivered, and a message more is.
LEMMA DeliversNext ==
    ASSUME ConnectionAssumption, ReadInv, arriving # <<>>, lengths' = lengths,
           NEW body \in Seq(Byte), body = In!Body(Current),
           delivered' = Append(delivered, [header |-> In!Header(Current), body |-> body])
    PROVE  /\ DeliveredAsSent' /\ Current' = Current + 1
           /\ delivered' \in Seq([header : Seq(Byte), body : Seq(Byte)])
<1> DEFINE msg == [header |-> In!Header(Current), body |-> body]
<1>1. /\ delivered \in Seq([header : Seq(Byte), body : Seq(Byte)])
      /\ Current = Len(delivered) + 1 /\ Current <= Len(lengths) /\ Current \in Nat
      /\ HeaderSize \in Nat /\ Len(delivered) \in Nat
  BY InMessage DEF ReadInv, Current
<1>2. msg \in [header : Seq(Byte), body : Seq(Byte)]
  BY <1>1, FirstBytes DEF In!Header
<1> HIDE DEF msg
<1>3. /\ delivered' \in Seq([header : Seq(Byte), body : Seq(Byte)])
      /\ Len(delivered') = Len(delivered) + 1
      /\ \A i \in 1..Len(delivered) : delivered'[i] = delivered[i]
      /\ delivered'[Len(delivered) + 1] = msg
  BY <1>1, <1>2 DEF msg
<1>4. \A i : In!Header(i)' = In!Header(i) /\ In!Body(i)' = In!Body(i)
  BY DEF In!Header, In!Body, In!Bytes
<1>5. \A i \in 1..Len(delivered') :
         delivered'[i] = [header |-> In!Header(i), body |-> In!Body(i)]
  <2> SUFFICES ASSUME NEW i \in 1..Len(delivered')
               PROVE  delivered'[i] = [header |-> In!Header(i), body |-> In!Body(i)]
    OBVIOUS
  <2>1. CASE i \in 1..Len(delivered)
    BY <1>3, <2>1 DEF ReadInv, DeliveredAsSent, In!DeliveredAsSent
  <2>2. CASE i = Len(delivered) + 1
    BY <1>1, <1>3, <2>2 DEF msg
  <2> QED
    BY <1>1, <1>3, <2>1, <2>2
<1>6. DeliveredAsSent'
  BY <1>1, <1>3, <1>4, <1>5 DEF DeliveredAsSent, In!DeliveredAsSent
<1> QED
  BY <1>1, <1>3, <1>6 DEF Current

LEMMA DeliveredStays ==
    ASSUME DeliveredAsSent, UNCHANGED <<lengths, delivered>>
    PROVE  DeliveredAsSent' /\ Current' = Current
BY DEF DeliveredAsSent, In!DeliveredAsSent, In!Header, In!Body, In!Bytes, Current

\* The header, with what a read adds to it.
LEMMA HeaderFilled ==
    ASSUME ConnectionAssumption, ReadInv, m_bReadHead, NEW n \in 1..Len(arriving),
           n <= HeaderSize - m_iOffset
    PROVE  In!Fill(IF m_bInit THEN <<>> ELSE m_msgHeader, m_iOffset, SubSeq(arriving, 1, n))
              = In!Bytes(Current, 1, m_iOffset + n)
<1> DEFINE had == IF m_bInit THEN <<>> ELSE m_msgHeader
           old == In!Bytes(Current, 1, m_iOffset)
<1>1. /\ Current \in Nat /\ HeaderSize \in Nat /\ m_iOffset \in Nat /\ Got = m_iOffset
      /\ Got + n <= Sized(lengths, Current) /\ n \in Nat /\ n >= 1
      /\ Follows(arriving, lengths, Current, Got)
  <2>1. arriving # <<>>
    BY DEF ReadInv, Follows
  <2> QED
    BY SMTT(20), <2>1, InMessage DEF ReadInv, Got
<1>2. SubSeq(arriving, 1, n) = In!Bytes(Current, m_iOffset + 1, m_iOffset + n)
  <2>1. SubSeq(arriving, 1, n) = In!Bytes(Current, Got + 1, Got + n)
    BY <1>1, ReadPiece
  <2> QED
    BY <1>1, <2>1
<1>3. old \in Seq(Byte) /\ Len(old) = m_iOffset
  BY <1>1, FirstBytes
<1>4. SubSeq(had, 1, m_iOffset) = old
  <2>1. CASE m_bInit
    <3>1. m_iOffset = 0 /\ had = <<>>
      BY <2>1 DEF ReadInv, InHeader
    <3>2. SubSeq(had, 1, m_iOffset) = <<>>
      BY <3>1
    <3>3. old = <<>>
      BY <1>3, <3>1
    <3> QED
      BY <3>2, <3>3
  <2>2. CASE ~m_bInit
    <3>1. had = old
      BY <2>2 DEF ReadInv, InHeader
    <3>2. SubSeq(old, 1, Len(old)) = old
      BY <1>3, SubSeqFull
    <3> QED
      BY <1>3, <3>1, <3>2
  <2> QED
    BY <2>1, <2>2
<1>5. old \o In!Bytes(Current, m_iOffset + 1, m_iOffset + n)
         = In!Bytes(Current, 1, m_iOffset + n)
  <2> DEFINE l == m_iOffset + n
  <2>1. 1 \in Nat /\ l \in Nat /\ 1 <= m_iOffset + 1 /\ m_iOffset <= l
    BY <1>1
  <2> HIDE DEF l
  <2>2. In!Bytes(Current, 1, m_iOffset) \o In!Bytes(Current, m_iOffset + 1, l)
           = In!Bytes(Current, 1, l)
    BY ZenonT(60), <1>1, <2>1, BytesJoin
  <2> QED
    BY <2>2 DEF l
<1> QED
  BY <1>2, <1>4, <1>5 DEF In!Fill

LEMMA HeaderStep ==
    ASSUME ConnectionAssumption, ReadInv, NEW n \in 1..Len(arriving), In!ReadHeader(n)
    PROVE  ReadInv'
<1> DEFINE offset == m_iOffset + n
           header == In!Bytes(Current, 1, offset)
           rest == SubSeq(arriving, n + 1, Len(arriving))
<1>1. /\ arriving # <<>> /\ m_bReadHead /\ n <= HeaderSize - m_iOffset
      /\ lengths' = lengths /\ ended' = ended /\ arriving' = rest
  BY DEF In!ReadHeader, In!Arrive, ReadInv, Follows
<1>2. /\ Current \in 1..Len(lengths) /\ lengths \in Seq(Nat) /\ Len(lengths) \in Nat
      /\ lengths[Current] \in Nat /\ Sized(lengths, Current) = HeaderSize + lengths[Current]
      /\ HeaderSize \in Nat \ {0} /\ m_iOffset \in Nat /\ Got = m_iOffset
      /\ Follows(arriving, lengths, Current, Got)
      /\ n \in Nat /\ n > 0 /\ Current \in Nat
  BY <1>1, InMessage DEF ReadInv, Got
<1>3. /\ Got + n = offset /\ offset \in Nat /\ offset > 0 /\ offset <= HeaderSize
      /\ Got + n <= Sized(lengths, Current)
  BY <1>1, <1>2
<1>4. /\ offset < Sized(lengths, Current) =>
            /\ Follows(rest, lengths, Current, offset)
            /\ ~ended => Reaches(rest, lengths, Current)
      /\ offset = Sized(lengths, Current) =>
            /\ Follows(rest, lengths, Current + 1, 0)
            /\ ~ended => Reaches(rest, lengths, Current + 1)
  <2>1. ~ended => Reaches(arriving, lengths, Current)
    BY DEF ReadInv
  <2> HIDE DEF offset
  <2> QED
    BY <1>2, <1>3, <2>1, FollowsOn
<1>5. In!Fill(IF m_bInit THEN <<>> ELSE m_msgHeader, m_iOffset, SubSeq(arriving, 1, n)) = header
  BY <1>1, HeaderFilled
<1> HIDE DEF offset, header, rest
<1>6. CASE /\ offset < HeaderSize
           /\ m_bInit' = FALSE /\ m_iOffset' = offset /\ m_msgHeader' = header
           /\ UNCHANGED <<m_bReadHead, bodies, delivered>>
  <2>1. Current' = Current /\ Got' = offset /\ offset < Sized(lengths, Current)
        /\ DeliveredAsSent'
    <3>1. Current' = Current /\ DeliveredAsSent'
      BY <1>1, <1>6, DeliveredStays DEF ReadInv
    <3>2. Got' = offset
      BY <1>1, <1>6 DEF Got
    <3>3. offset < Sized(lengths, Current)
      BY <1>2, <1>3, <1>6
    <3> QED
      BY <3>1, <3>2, <3>3
  <2>2. InHeader'
    BY <1>1, <1>6, <2>1 DEF ReadInv, InHeader, header, In!Bytes
  <2> QED
    BY <1>1, <1>3, <1>4, <1>6, <2>1, <2>2 DEF ReadInv
<1>7. CASE /\ offset = HeaderSize /\ m_msgHeader' = header
           /\ \E length \in In!LengthIn(header) :
                 /\ ~In!Bodyless(length)
                 /\ m_bInit' = FALSE /\ m_iOffset' = 0 /\ m_iLen' = length
                 /\ m_bReadHead' = FALSE /\ ioBuf' = <<>> /\ bodies' = bodies + 1
                 /\ UNCHANGED delivered
  <2>1. header = In!Header(Current)
    BY <1>7 DEF header, In!Header
  <2>2. In!LengthIn(header) = {lengths[Current]}
    BY <1>2, <2>1, LengthRead
  <2>3. /\ lengths[Current] # 0 /\ m_iLen' = lengths[Current] /\ m_iOffset' = 0
        /\ m_bReadHead' = FALSE /\ m_bInit' = FALSE /\ ioBuf' = <<>>
        /\ bodies' = bodies + 1 /\ delivered' = delivered
    BY <1>7, <2>2 DEF In!Bodyless
  <2>4. Current' = Current /\ DeliveredAsSent'
    BY <1>1, <2>3, DeliveredStays DEF ReadInv
  <2>5. Got' = offset /\ offset < Sized(lengths, Current)
    BY <1>2, <1>7, <2>3 DEF Got
  <2>6. In!Bytes(Current, HeaderSize + 1, HeaderSize + 0) = <<>>
    <3>1. HeaderSize + 0 = HeaderSize
      BY <1>2
    <3> QED
      BY <1>2, <3>1, NoBytes
  <2>7. InBody'
    <3>1. m_msgHeader' = In!Header(Current)' /\ (In!Bytes(Current, HeaderSize + 1, HeaderSize + m_iOffset))' = <<>>
      BY <1>7, <2>1, <2>3, <2>4, <2>6 DEF In!Header, In!Bytes
    <3>2. bodies' = 1
      BY <1>1, <2>3 DEF ReadInv, InHeader
    <3>3. 0 < lengths[Current] /\ Current <= Len(lengths)
      BY <1>2, <2>3
    <3> QED
      BY <1>1, <2>3, <2>4, <3>1, <3>2, <3>3 DEF InBody
  <2> QED
    BY <1>1, <1>4, <2>3, <2>4, <2>5, <2>7 DEF ReadInv
<1>8. CASE /\ offset = HeaderSize /\ m_msgHeader' = header
           /\ \E length \in In!LengthIn(header) :
                 /\ In!Bodyless(length)
                 /\ m_bInit' = TRUE /\ m_iOffset' = 0
                 /\ In!readBack(header, <<>>)
                 /\ UNCHANGED <<m_bReadHead, bodies>>
  <2>1. header = In!Header(Current)
    BY <1>8 DEF header, In!Header
  <2>2. In!LengthIn(header) = {lengths[Current]}
    BY <1>2, <2>1, LengthRead
  <2>3. /\ lengths[Current] = 0 /\ m_iOffset' = 0 /\ m_bInit' = TRUE
        /\ m_bReadHead' = m_bReadHead /\ bodies' = bodies
        /\ delivered' = Append(delivered, [header |-> In!Header(Current), body |-> <<>>])
    BY <1>8, <2>1, <2>2 DEF In!Bodyless, In!readBack
  <2>4. <<>> \in Seq(Byte) /\ <<>> = In!Body(Current)
    <3>1. HeaderSize + lengths[Current] = HeaderSize
      BY <1>2, <2>3
    <3>2. In!Body(Current) = In!Bytes(Current, HeaderSize + 1, HeaderSize)
      BY <3>1 DEF In!Body
    <3> QED
      BY <1>2, <3>2, NoBytes
  <2>5. /\ DeliveredAsSent' /\ Current' = Current + 1
        /\ delivered' \in Seq([header : Seq(Byte), body : Seq(Byte)])
    BY <1>1, <2>3, <2>4, DeliversNext
  <2>6. Got' = 0 /\ offset = Sized(lengths, Current)
    BY <1>1, <1>2, <1>8, <2>3 DEF Got
  <2>7. InHeader'
    BY <1>1, <1>2, <2>3 DEF ReadInv, InHeader
  <2> QED
    BY <1>1, <1>4, <2>3, <2>5, <2>6, <2>7 DEF ReadInv
<1> QED
  BY <1>5, <1>6, <1>7, <1>8 DEF In!ReadHeader, offset

\* The body, with what a read adds to it.
LEMMA BodyFilled ==
    ASSUME ConnectionAssumption, ReadInv, ~m_bReadHead, NEW n \in 1..Len(arriving),
           n <= m_iLen - m_iOffset
    PROVE  In!Fill(ioBuf, m_iOffset, SubSeq(arriving, 1, n))
              = In!Bytes(Current, HeaderSize + 1, HeaderSize + m_iOffset + n)
<1> DEFINE f == HeaderSize + 1
           g == HeaderSize + m_iOffset
           old == In!Bytes(Current, f, g)
<1>1. /\ Current \in Nat /\ HeaderSize \in Nat /\ m_iOffset \in Nat /\ Got = g /\ ioBuf = old
      /\ Got + n <= Sized(lengths, Current) /\ n \in Nat /\ n >= 1
      /\ Follows(arriving, lengths, Current, Got)
  <2>1. arriving # <<>>
    BY DEF ReadInv, Follows
  <2>2. /\ Current \in Nat /\ HeaderSize \in Nat /\ lengths[Current] \in Nat
        /\ Sized(lengths, Current) = HeaderSize + lengths[Current]
        /\ n \in Nat /\ n >= 1
    BY <2>1, InMessage
  <2>3. /\ m_iOffset \in Nat /\ Got = g /\ ioBuf = old /\ m_iLen = lengths[Current]
        /\ Follows(arriving, lengths, Current, Got)
    BY DEF ReadInv, InBody, Got
  <2>4. g + n <= HeaderSize + lengths[Current]
    BY <2>2, <2>3
  <2> QED
    BY <2>2, <2>3, <2>4
<1>2. /\ f \in Nat /\ g \in Nat /\ f <= g + 1 /\ g - f + 1 = m_iOffset /\ g + n \in Nat
      /\ g <= g + n
  BY <1>1
<1> HIDE DEF f, g
<1>3. SubSeq(arriving, 1, n) = In!Bytes(Current, g + 1, g + n)
  <2>1. SubSeq(arriving, 1, n) = In!Bytes(Current, Got + 1, Got + n)
    BY <1>1, ReadPiece
  <2> QED
    BY <1>1, <2>1
<1>4. old \in Seq(Byte) /\ Len(old) = m_iOffset
  BY ZenonT(60), <1>1, <1>2, BytesAre
<1>5. SubSeq(ioBuf, 1, m_iOffset) = old
  <2>1. SubSeq(old, 1, Len(old)) = old
    BY <1>4, SubSeqFull
  <2> QED
    BY <1>1, <1>4, <2>1
<1>6. old \o In!Bytes(Current, g + 1, g + n) = In!Bytes(Current, f, g + n)
  <2> DEFINE l == g + n
  <2>1. l \in Nat /\ g <= l
    BY <1>2
  <2> HIDE DEF l
  <2>2. Current \in Nat /\ f \in Nat /\ g \in Nat /\ f <= g + 1
    BY <1>1, <1>2
  <2>3. In!Bytes(Current, f, g) \o In!Bytes(Current, g + 1, l) = In!Bytes(Current, f, l)
    BY <2>1, <2>2, BytesJoin
  <2> QED
    BY <2>3 DEF l
<1>7. In!Fill(ioBuf, m_iOffset, SubSeq(arriving, 1, n)) = In!Bytes(Current, f, g + n)
  BY <1>3, <1>5, <1>6 DEF In!Fill
<1> QED
  BY <1>7 DEF f, g

LEMMA BodyStep ==
    ASSUME ConnectionAssumption, ReadInv, NEW n \in 1..Len(arriving), In!ReadBody(n)
    PROVE  ReadInv'
<1> DEFINE offset == m_iOffset + n
           body == In!Bytes(Current, HeaderSize + 1, HeaderSize + m_iOffset + n)
           rest == SubSeq(arriving, n + 1, Len(arriving))
<1>1. /\ arriving # <<>> /\ ~m_bReadHead /\ n <= m_iLen - m_iOffset
      /\ lengths' = lengths /\ ended' = ended /\ arriving' = rest
      /\ m_msgHeader' = m_msgHeader
  BY DEF In!ReadBody, In!Arrive, ReadInv, Follows
<1>2. /\ Current \in 1..Len(lengths) /\ lengths \in Seq(Nat) /\ Len(lengths) \in Nat
      /\ lengths[Current] \in Nat /\ Sized(lengths, Current) = HeaderSize + lengths[Current]
      /\ HeaderSize \in Nat \ {0} /\ m_iOffset \in Nat /\ Got = HeaderSize + m_iOffset
      /\ Follows(arriving, lengths, Current, Got) /\ m_iLen = lengths[Current]
      /\ n \in Nat /\ n > 0 /\ Current \in Nat
      /\ bodies = 1 /\ m_msgHeader = In!Header(Current) /\ m_bReadHead \in BOOLEAN
  BY <1>1, InMessage DEF ReadInv, Got, InBody
<1>3. /\ Got + n = HeaderSize + offset /\ offset \in Nat /\ offset <= m_iLen
      /\ HeaderSize + m_iOffset + n = HeaderSize + offset
      /\ Got + n <= Sized(lengths, Current)
  <2>1. offset \in Nat /\ offset <= m_iLen
    BY <1>1, <1>2
  <2>2. Got + n = HeaderSize + offset /\ HeaderSize + m_iOffset + n = HeaderSize + offset
    BY <1>2
  <2>3. HeaderSize + offset <= Sized(lengths, Current)
    BY <1>2, <2>1
  <2> QED
    BY <2>1, <2>2, <2>3
<1>4. /\ offset < m_iLen =>
            /\ Follows(rest, lengths, Current, HeaderSize + offset)
            /\ ~ended => Reaches(rest, lengths, Current)
      /\ offset = m_iLen =>
            /\ Follows(rest, lengths, Current + 1, 0)
            /\ ~ended => Reaches(rest, lengths, Current + 1)
  <2>1. ~ended => Reaches(arriving, lengths, Current)
    BY DEF ReadInv
  <2>2. /\ offset < m_iLen => Got + n < Sized(lengths, Current)
        /\ offset = m_iLen => Got + n = Sized(lengths, Current)
    BY <1>2, <1>3
  <2>3. /\ Got + n < Sized(lengths, Current) =>
              /\ Follows(rest, lengths, Current, Got + n)
              /\ ~ended => Reaches(rest, lengths, Current)
        /\ Got + n = Sized(lengths, Current) =>
              /\ Follows(rest, lengths, Current + 1, 0)
              /\ ~ended => Reaches(rest, lengths, Current + 1)
    BY <1>2, <1>3, <2>1, FollowsOn
  <2> QED
    BY <1>3, <2>2, <2>3
<1>5. In!Fill(ioBuf, m_iOffset, SubSeq(arriving, 1, n)) = body
  BY <1>1, BodyFilled
<1>6. body = In!Bytes(Current, HeaderSize + 1, HeaderSize + offset)
  BY <1>3
<1> HIDE DEF offset, body, rest
<1>7. CASE /\ offset < m_iLen
           /\ m_iOffset' = offset /\ ioBuf' = body
           /\ UNCHANGED <<m_bInit, m_bReadHead, m_iLen, bodies, delivered>>
  <2>1. Current' = Current /\ DeliveredAsSent'
    BY <1>1, <1>7, DeliveredStays DEF ReadInv
  <2>2. Got' = HeaderSize + offset
    BY <1>1, <1>7 DEF Got
  <2>3. InBody'
    <3>1. m_msgHeader' = In!Header(Current)'
      BY <1>1, <1>2, <2>1 DEF In!Header, In!Bytes
    <3>2. ioBuf' = In!Bytes(Current, HeaderSize + 1, HeaderSize + m_iOffset)'
      BY <1>6, <1>7, <2>1 DEF In!Bytes
    <3> QED
      BY <1>1, <1>2, <1>7, <2>1, <3>1, <3>2 DEF InBody
  <2> QED
    BY <1>1, <1>3, <1>4, <1>7, <2>1, <2>2, <2>3 DEF ReadInv
<1>8. CASE /\ offset = m_iLen
           /\ m_iOffset' = 0 /\ m_bReadHead' = TRUE /\ m_bInit' = TRUE
           /\ In!deleteBody
           /\ In!readBack(m_msgHeader, body)
  <2>1. body \in Seq(Byte) /\ body = In!Body(Current)
    <3> DEFINE f == HeaderSize + 1
               l == HeaderSize + offset
    <3>1. f \in Nat /\ l \in Nat /\ f <= l + 1
      BY <1>2, <1>3
    <3>2. l = HeaderSize + lengths[Current]
      BY <1>2, <1>8
    <3> HIDE DEF f, l
    <3>3. In!Bytes(Current, f, l) \in Seq(Byte)
      BY <1>2, <3>1, BytesAre
    <3>4. body = In!Bytes(Current, f, l) /\ In!Body(Current) = In!Bytes(Current, f, l)
      BY <1>6, <3>2 DEF f, l, In!Body
    <3> QED
      BY <3>3, <3>4
  <2>2. delivered' = Append(delivered, [header |-> In!Header(Current), body |-> body])
    BY <1>2, <1>8 DEF In!readBack
  <2>3. /\ DeliveredAsSent' /\ Current' = Current + 1
        /\ delivered' \in Seq([header : Seq(Byte), body : Seq(Byte)])
    BY <1>1, <2>1, <2>2, DeliversNext
  <2>4. Got' = 0
    BY <1>8 DEF Got
  <2>5. InHeader'
    BY <1>2, <1>8 DEF InHeader, In!deleteBody
  <2> QED
    BY <1>1, <1>4, <1>8, <2>3, <2>4, <2>5 DEF ReadInv
<1> QED
  BY <1>5, <1>7, <1>8 DEF In!ReadBody, offset

LEMMA SendStep ==
    ASSUME ConnectionAssumption, ReadInv, NEW length \in BodyLengths, In!Send(length)
    PROVE  ReadInv'
<1>1. /\ ~ended /\ ended' = ended /\ lengths' = Append(lengths, length)
      /\ arriving' = arriving \o In!Bytes(Len(lengths) + 1, 1, HeaderSize + length)
      /\ UNCHANGED <<m_bInit, m_bReadHead, m_iOffset, m_iLen, m_msgHeader, ioBuf, bodies,
                     delivered>>
  BY DEF In!Send, In!bufferVars
<1>2. /\ Follows(arriving, lengths, Current, Got) /\ Reaches(arriving, lengths, Current)
      /\ HeaderSize \in Nat \ {0} /\ length \in Nat
      /\ lengths \in Seq(Nat) /\ Len(lengths) \in Nat /\ Len(delivered) \in Nat
  <2>1. HeaderSize \in Nat \ {0} /\ length \in Nat
    BY DEF ConnectionAssumption, In!FramerAssumption
  <2>2. Follows(arriving, lengths, Current, Got) /\ Reaches(arriving, lengths, Current)
    BY <1>1 DEF ReadInv
  <2>3. delivered \in Seq([header : Seq(Byte), body : Seq(Byte)])
    BY DEF ReadInv
  <2>4. lengths \in Seq(Nat)
    BY <2>2 DEF Follows
  <2> QED
    BY <2>1, <2>2, <2>3, <2>4
<1>3. Current' = Current /\ Got' = Got
  BY <1>1 DEF Current, Got
<1>4. Follows(arriving', lengths', Current', Got') /\ Reaches(arriving', lengths', Current')
  BY <1>1, <1>2, <1>3, FollowsSent
<1>5. /\ Len(lengths') = Len(lengths) + 1
      /\ \A i \in 1..Len(lengths) : lengths'[i] = lengths[i]
  BY <1>1, <1>2
<1>6. /\ \A i : In!Header(i)' = In!Header(i)
      /\ \A i \in 1..Len(lengths) : In!Body(i)' = In!Body(i)
  BY <1>5 DEF In!Header, In!Body, In!Bytes
<1>7. DeliveredAsSent'
  <2>1. \A i \in 1..Len(delivered) : i \in 1..Len(lengths)
    BY <1>2 DEF ReadInv, DeliveredAsSent, In!DeliveredAsSent
  <2> QED
    BY <1>1, <1>2, <1>5, <1>6, <2>1 DEF ReadInv, DeliveredAsSent, In!DeliveredAsSent
<1>8. CASE m_bReadHead
  <2>1. InHeader'
    BY <1>1, <1>3, <1>8 DEF ReadInv, InHeader, In!Bytes
  <2> QED
    BY <1>1, <1>3, <1>4, <1>7, <1>8, <2>1 DEF ReadInv
<1>9. CASE ~m_bReadHead
  <2>1. InBody /\ Current \in 1..Len(lengths)
    BY <1>2, <1>9 DEF ReadInv, InBody, Current
  <2>2. InBody'
    <3>1. lengths'[Current] = lengths[Current] /\ Current <= Len(lengths')
      BY <1>2, <1>5, <2>1
    <3>2. m_msgHeader' = In!Header(Current)'
          /\ ioBuf' = In!Bytes(Current, HeaderSize + 1, HeaderSize + m_iOffset)'
      BY <1>1, <1>3, <2>1 DEF InBody, In!Header, In!Bytes
    <3> QED
      BY <1>1, <1>3, <2>1, <3>1, <3>2 DEF InBody
  <2> QED
    BY <1>1, <1>3, <1>4, <1>7, <1>9, <2>2 DEF ReadInv
<1> QED
  BY <1>8, <1>9

LEMMA EndStep == ASSUME ReadInv, In!End PROVE ReadInv'
<1>1. /\ ended' /\ lengths' = lengths
      /\ UNCHANGED <<m_bInit, m_bReadHead, m_iOffset, m_iLen, m_msgHeader, ioBuf, bodies,
                     delivered>>
  BY DEF In!End, In!bufferVars
<1>2. PICK lost \in 0..Len(arriving) :
         arriving' = SubSeq(arriving, 1, Len(arriving) - lost)
  BY DEF In!End
<1>3. Current' = Current /\ Got' = Got /\ DeliveredAsSent'
  BY <1>1, DeliveredStays DEF Got, ReadInv
<1>4. Follows(arriving', lengths, Current, Got)
  BY <1>2, FollowsCut DEF ReadInv
<1>5. (m_bReadHead => InHeader') /\ (~m_bReadHead => InBody')
  BY <1>1, <1>3 DEF ReadInv, InHeader, InBody, In!Header, In!Bytes
<1> QED
  BY <1>1, <1>3, <1>4, <1>5 DEF ReadInv

LEMMA ReadStays == ASSUME ReadInv, UNCHANGED inVars PROVE ReadInv'
<1>1. /\ UNCHANGED <<arriving, lengths, ended>>
      /\ UNCHANGED <<m_bInit, m_bReadHead, m_iOffset, m_iLen, m_msgHeader, ioBuf, bodies,
                     delivered>>
  BY DEF inVars, peerVars
<1>2. Current' = Current /\ Got' = Got /\ DeliveredAsSent'
  BY <1>1, DeliveredStays DEF Got, ReadInv
<1>3. (m_bReadHead => InHeader') /\ (~m_bReadHead => InBody')
  BY <1>1, <1>2 DEF ReadInv, InHeader, InBody, In!Header, In!Bytes
<1> QED
  BY <1>1, <1>2, <1>3 DEF ReadInv

-----------------------------------------------------------------------------
(* Each step of the sending half. *)

LEMMA OutInit == ASSUME WriteBufferAssumption, Init PROVE WriteInv
<1>1. /\ heap = {} /\ m_lIovList = <<>> /\ m_pLastIov = Null /\ phase = "open"
      /\ queued = <<>> /\ wire = <<>> /\ answers = <<>> /\ Len(<<>>) = 0
  BY DEF Init
<1>2. Sent = 0 /\ ~PartOut /\ Whole = {}
  BY <1>1 DEF Sent, PartOut, Whole
<1>3. WriteTypes
  BY <1>1 DEF WriteTypes
<1>4. BuffersOwned
  BY <1>1, <1>2 DEF BuffersOwned
<1>5. ListIsRest /\ WireMeetsList /\ AnsweredSoFar
  BY <1>1, <1>2 DEF ListIsRest, WireMeetsList, AnsweredSoFar
<1>6. StreamInOrder /\ AnsweredOnce
  BY <1>1 DEF StreamInOrder, AnsweredOnce, SentWhole
<1> QED
  BY <1>1, <1>3, <1>4, <1>5, <1>6 DEF WriteInv

\* Lengths and entries as numbers.
LEMMA ListFacts ==
    ASSUME WriteInv
    PROVE  /\ Len(m_lIovList) \in Nat /\ Len(queued) \in Nat /\ Len(wire) \in Nat
           /\ Len(answers) \in Nat
           /\ \A i \in 1..Len(m_lIovList) : m_lIovList[i] \in Iov
           /\ m_lIovList # <<>> <=> Len(m_lIovList) > 0
           /\ wire # <<>> <=> Len(wire) > 0
           /\ phase # "destroyed" => Sent \in Nat /\ Len(queued) = Sent + Len(m_lIovList)
           /\ phase = "destroyed" => Len(m_lIovList) = 0
<1>1. WriteTypes
  BY DEF WriteInv
<1>2. /\ Len(m_lIovList) \in Nat /\ Len(queued) \in Nat /\ Len(wire) \in Nat
      /\ Len(answers) \in Nat
      /\ \A i \in 1..Len(m_lIovList) : m_lIovList[i] \in Iov
      /\ m_lIovList # <<>> <=> Len(m_lIovList) > 0
      /\ wire # <<>> <=> Len(wire) > 0
  BY <1>1 DEF WriteTypes
<1>3. phase # "destroyed" => Sent \in Nat /\ Len(queued) = Sent + Len(m_lIovList)
  BY <1>2 DEF WriteInv, ListIsRest, Sent
<1>4. phase = "destroyed" => Len(m_lIovList) = 0
  BY <1>2 DEF WriteInv
<1> QED
  BY <1>2, <1>3, <1>4

\* What was sent stays sent.
LEMMA WholeStays ==
    ASSUME UNCHANGED wire, NEW msg, queued'[msg] = queued[msg]
    PROVE  SentWhole(msg)' <=> SentWhole(msg)
BY DEF SentWhole

LEMMA QueueStep ==
    ASSUME WriteBufferAssumption, WriteInv, NEW b \in Buffers, NEW length \in Lengths,
           writeDynamic(b, length)
    PROVE  WriteInv'
<1> DEFINE n == Len(m_lIovList)
           e == IovReq(Len(queued) + 1, b, length)
<1>1. /\ phase = "open" /\ b \notin heap /\ heap' = heap \cup {b}
      /\ queued' = Append(queued, length) /\ m_lIovList' = Append(m_lIovList, e)
      /\ UNCHANGED <<m_pLastIov, phase, wire, answers>>
  BY DEF writeDynamic, push_back
<1>2. /\ WriteTypes /\ BuffersOwned /\ ListIsRest /\ WireMeetsList /\ AnsweredSoFar
      /\ StreamInOrder /\ AnsweredOnce
      /\ length \in Nat \ {0}
  BY <1>1 DEF WriteInv, WriteBufferAssumption
<1>3. /\ n \in Nat /\ Len(queued) \in Nat /\ Sent \in Nat /\ Len(queued) = Sent + n
      /\ Len(wire) \in Nat
      /\ m_lIovList # <<>> <=> n > 0
      /\ wire # <<>> <=> Len(wire) > 0
      /\ \A i \in 1..n : m_lIovList[i] \in Iov
  BY <1>1, ListFacts
<1>4. /\ e \in Iov /\ e.msg = Len(queued) + 1 /\ e.buf = b /\ e.off = 0 /\ e.left = length
      /\ e.m_bComplete = TRUE
  BY <1>2, <1>3 DEF IovReq, Iov
<1> HIDE DEF e
<1>5. /\ m_lIovList' \in Seq(Iov) /\ Len(m_lIovList') = n + 1 /\ m_lIovList'[n + 1] = e
      /\ \A i \in 1..n : m_lIovList'[i] = m_lIovList[i]
      /\ m_lIovList' # <<>>
  <2>1. m_lIovList \in Seq(Iov) /\ e \in Iov /\ m_lIovList' = Append(m_lIovList, e)
    BY <1>1, <1>2, <1>4 DEF WriteTypes
  <2> HIDE DEF n
  <2>2. /\ m_lIovList' \in Seq(Iov) /\ Len(m_lIovList') = Len(m_lIovList) + 1
        /\ m_lIovList'[Len(m_lIovList) + 1] = e /\ m_lIovList' # <<>>
        /\ \A i \in 1..Len(m_lIovList) : m_lIovList'[i] = m_lIovList[i]
    BY <2>1, AppendProperties
  <2> QED
    BY <2>2 DEF n
<1>6. /\ queued' \in Seq(Nat) /\ Len(queued') = Len(queued) + 1
      /\ queued'[Len(queued) + 1] = length
      /\ \A i \in 1..Len(queued) : queued'[i] = queued[i]
  BY <1>1, <1>2 DEF WriteTypes
<1> HIDE DEF n
<1>7. 1..(n + 1) = (1..n) \cup {n + 1} /\ n + 1 \notin 1..n
  BY <1>3
<1>8. Sent' = Sent
  BY <1>3, <1>5, <1>6 DEF Sent, n
<1>9. PartOut' <=> PartOut
  <2>1. CASE n = 0
    BY <1>3, <1>4, <1>5, <2>1 DEF PartOut
  <2>2. CASE n # 0
    <3>1. 1 \in 1..n
      BY <1>3, <2>2
    <3> QED
      BY <1>3, <1>5, <3>1 DEF PartOut
  <2> QED
    BY <2>1, <2>2
<1>10. PartOut => m_lIovList'[1] = m_lIovList[1]
  <2>1. PartOut => 1 \in 1..n
    BY <1>3 DEF PartOut
  <2> QED
    BY <1>5, <2>1
<1>11. WriteTypes'
  BY <1>1, <1>2, <1>5, <1>6 DEF WriteTypes
<1>12. BuffersOwned'
  <2>1. Whole' = Whole \cup {n + 1}
    BY <1>4, <1>5, <1>7 DEF Whole, n
  <2>2. \A i \in Whole : i \in 1..n
    BY DEF Whole, n
  <2>3. {m_lIovList'[i].buf : i \in Whole'} = {m_lIovList[i].buf : i \in Whole} \cup {b}
    BY <1>4, <1>5, <2>1, <2>2
  <2>4. \A i \in 1..n : m_lIovList[i].buf \in heap
    <3> SUFFICES ASSUME NEW i \in 1..n PROVE m_lIovList[i].buf \in heap
      OBVIOUS
    <3>1. CASE i \in Whole
      BY <1>2, <3>1 DEF BuffersOwned
    <3>2. CASE i \notin Whole
      <4>1. i = 1
        BY <1>2, <1>3, <3>2 DEF BuffersOwned, n
      <4>2. m_pLastIov # Null /\ m_pLastIov = m_lIovList[1].buf
        BY <1>2, <1>3, <3>2, <4>1 DEF BuffersOwned
      <4> QED
        BY <1>2, <4>1, <4>2 DEF BuffersOwned
    <3> QED
      BY <3>1, <3>2
  <2>5. heap' = {m_lIovList'[i].buf : i \in Whole'} \cup ({m_pLastIov'} \ {Null})
    BY <1>1, <1>2, <2>3 DEF BuffersOwned
  <2>6. \A i, j \in 1..(n + 1) : m_lIovList'[i].buf = m_lIovList'[j].buf => i = j
    <3>1. \A i, j \in 1..n : m_lIovList[i].buf = m_lIovList[j].buf => i = j
      BY <1>2 DEF BuffersOwned, n
    <3> QED
      BY <1>1, <1>4, <1>5, <1>7, <2>4, <3>1
  <2>7. \A i \in 2..(n + 1) : i \in Whole'
    <3>1. \A i \in 2..n : i \in Whole
      BY <1>2 DEF BuffersOwned, n
    <3>2. \A i \in 2..(n + 1) : i \in 2..n \/ i = n + 1
      BY <1>3
    <3> QED
      BY <2>1, <3>1, <3>2
  <2>8. m_pLastIov' # Null <=> m_lIovList' # <<>> /\ 1 \notin Whole'
    <3>1. CASE n = 0
      BY <1>1, <1>2, <1>3, <2>1, <3>1 DEF BuffersOwned
    <3>2. CASE n # 0
      <4>1. 1 # n + 1
        BY <1>3, <3>2
      <4> QED
        BY <1>1, <1>2, <1>3, <1>5, <2>1, <3>2, <4>1 DEF BuffersOwned
    <3> QED
      BY <3>1, <3>2
  <2>9. m_pLastIov' # Null => m_pLastIov' = m_lIovList'[1].buf
    <3>1. m_pLastIov # Null => m_pLastIov = m_lIovList[1].buf /\ 1 \in 1..n
      BY <1>2, <1>3 DEF BuffersOwned
    <3> QED
      BY <1>1, <1>5, <3>1
  <2> QED
    BY <1>5, <2>5, <2>6, <2>7, <2>8, <2>9 DEF BuffersOwned
<1>13. ListIsRest'
  <2>1. Len(m_lIovList') <= Len(queued')
    BY <1>3, <1>5, <1>6
  <2>2. ASSUME NEW i \in 1..n
        PROVE  LET x == m_lIovList'[i] IN
               /\ x.msg = Sent + i /\ x.left > 0 /\ x.off + x.left = queued'[x.msg]
               /\ x.m_bComplete <=> x.off = 0
    <3>1. Sent + i \in 1..Len(queued)
      BY <1>3
    <3>2. LET x == m_lIovList[i] IN
          /\ x.msg = Sent + i /\ x.left > 0 /\ x.off + x.left = queued[x.msg]
          /\ x.m_bComplete <=> x.off = 0
      BY <1>2 DEF ListIsRest, n
    <3>3. m_lIovList'[i] = m_lIovList[i] /\ queued'[Sent + i] = queued[Sent + i]
      BY <1>5, <1>6, <3>1
    <3> QED
      BY <3>2, <3>3
  <2>3. LET x == m_lIovList'[n + 1] IN
        /\ x.msg = Sent + (n + 1) /\ x.left > 0 /\ x.off + x.left = queued'[x.msg]
        /\ x.m_bComplete <=> x.off = 0
    BY <1>2, <1>3, <1>4, <1>5, <1>6
  <2> QED
    BY <1>5, <1>7, <1>8, <2>1, <2>2, <2>3 DEF ListIsRest
<1>14. \A msg \in 1..Len(queued) : SentWhole(msg)' <=> SentWhole(msg)
  BY <1>1, <1>6, WholeStays
<1>15. WireMeetsList'
  <2>1. \A msg \in 1..Sent : msg \in 1..Len(queued)
    BY <1>3
  <2>2. wire # <<>> /\ ~PartOut => Sent \in 1..Len(queued)
    BY <1>2, <1>3 DEF WireMeetsList
  <2> QED
    BY <1>1, <1>2, <1>6, <1>8, <1>9, <1>10, <1>14, <2>1, <2>2 DEF WireMeetsList
<1>16. AnsweredSoFar'
  BY <1>1, <1>2, <1>8 DEF AnsweredSoFar
<1>17. \A i \in 1..Len(wire) : wire[i].msg \in 1..Len(queued)
  <2> SUFFICES ASSUME NEW i \in 1..Len(wire) PROVE wire[i].msg \in 1..Len(queued)
    OBVIOUS
  <2>1. wire[i].msg \in 1..Sent \/ (PartOut /\ wire[i].msg = Sent + 1)
    BY <1>2 DEF WireMeetsList
  <2>2. PartOut => n > 0
    BY <1>3 DEF PartOut
  <2> QED
    BY <1>3, <2>1, <2>2
<1>18. StreamInOrder'
  <2>1. \A i \in 1..(Len(wire) - 1) : i \in 1..Len(wire)
    BY <1>3
  <2>2. \A i \in 1..Len(wire) : queued'[wire[i].msg] = queued[wire[i].msg]
    BY <1>6, <1>17
  <2> QED
    BY <1>1, <1>2, <2>1, <2>2 DEF StreamInOrder
<1>19. AnsweredOnce'
  <2>1. Len(answers) = Sent /\ \A i \in 1..Sent : answers[i] = [msg |-> i, result |-> TRUE]
    BY <1>1, <1>2 DEF AnsweredSoFar
  <2>2. \A i \in 1..Sent : i \in 1..Len(queued) /\ answers[i].msg = i /\ answers[i].result = TRUE
    BY <1>3, <2>1
  <2>3. ASSUME NEW msg, msg = Len(queued) + 1 PROVE ~SentWhole(msg)'
    <3>1. \A i \in 1..Len(wire) : wire[i].msg # Len(queued) + 1
      BY <1>3, <1>17
    <3>2. wire' = wire
      BY <1>1
    <3> QED
      BY <2>3, <3>1, <3>2 DEF SentWhole
  <2>4. 1..Len(queued') = (1..Len(queued)) \cup {Len(queued) + 1}
    BY <1>3, <1>6
  <2>5. answers' = answers
    BY <1>1
  <2>6. \A i, j \in 1..Len(answers) : answers[i].msg = answers[j].msg => i = j
    BY <2>1, <2>2
  <2>7. \A i \in 1..Len(answers) : answers[i].result <=> SentWhole(answers[i].msg)'
    <3> SUFFICES ASSUME NEW i \in 1..Len(answers)
                 PROVE  answers[i].result <=> SentWhole(answers[i].msg)'
      OBVIOUS
    <3>1. answers[i].msg = i /\ answers[i].result = TRUE /\ i \in 1..Len(queued)
      BY <2>1, <2>2
    <3>2. SentWhole(i)
      BY <1>2, <3>1 DEF AnsweredOnce
    <3>3. SentWhole(i)'
      BY <1>14, <3>1, <3>2
    <3> QED
      BY <2>5, <3>1, <3>3 DEF SentWhole
  <2>8. \A msg \in 1..Len(queued') :
           SentWhole(msg)' => \E i \in 1..Len(answers) : answers[i].msg = msg
    BY <1>2, <1>14, <2>3, <2>4 DEF AnsweredOnce
  <2> QED
    BY <2>5, <2>6, <2>7, <2>8 DEF AnsweredOnce
<1> QED
  BY <1>1, <1>11, <1>12, <1>13, <1>15, <1>16, <1>18, <1>19 DEF WriteInv

\* Properties of the history alone.
LEMMA HistoryStays ==
    ASSUME UNCHANGED <<queued, wire>>
    PROVE  /\ \A msg : SentWhole(msg)' <=> SentWhole(msg)
           /\ StreamInOrder => StreamInOrder'
           /\ AnsweredOnce /\ UNCHANGED answers => AnsweredOnce'
BY DEF StreamInOrder, AnsweredOnce, SentWhole

LEMMA WriteStays == ASSUME WriteInv, UNCHANGED vars PROVE WriteInv'
<1>1. UNCHANGED <<heap, m_lIovList, m_pLastIov, phase, queued, wire, answers>>
  BY DEF vars
<1>2. StreamInOrder' /\ AnsweredOnce' /\ \A msg : SentWhole(msg)' <=> SentWhole(msg)
  BY <1>1, HistoryStays DEF WriteInv
<1>3. WriteTypes' /\ BuffersOwned' /\ AnsweredSoFar'
  <2>1. WriteTypes'
    BY <1>1 DEF WriteInv, WriteTypes
  <2>2. BuffersOwned'
    BY <1>1 DEF WriteInv, BuffersOwned, Whole
  <2>3. AnsweredSoFar'
    BY <1>1 DEF WriteInv, AnsweredSoFar, Sent
  <2> QED
    BY <2>1, <2>2, <2>3
<1>4. ASSUME phase # "destroyed" PROVE ListIsRest' /\ WireMeetsList'
  <2>1. ListIsRest'
    BY <1>1, <1>4 DEF WriteInv, ListIsRest, Sent
  <2>2. WireMeetsList'
    BY <1>1, <1>2, <1>4 DEF WriteInv, WireMeetsList, Sent, PartOut
  <2> QED
    BY <2>1, <2>2
<1> QED
  BY <1>1, <1>2, <1>3, <1>4 DEF WriteInv

LEMMA RetiredStep == ASSUME WriteInv, Retired PROVE WriteInv'
<1>1. /\ phase = "open" /\ phase' = "retired"
      /\ UNCHANGED <<heap, m_lIovList, m_pLastIov, queued, wire, answers>>
  BY DEF Retired
<1>2. StreamInOrder' /\ AnsweredOnce' /\ \A msg : SentWhole(msg)' <=> SentWhole(msg)
  BY <1>1, HistoryStays DEF WriteInv
<1>3. WriteTypes' /\ BuffersOwned' /\ AnsweredSoFar'
  <2>1. WriteTypes'
    BY <1>1 DEF WriteInv, WriteTypes
  <2>2. BuffersOwned'
    BY <1>1 DEF WriteInv, BuffersOwned, Whole
  <2> QED
    BY <1>1, <2>1, <2>2 DEF AnsweredSoFar
<1>4. ListIsRest'
  BY <1>1 DEF WriteInv, ListIsRest, Sent
<1>5. WireMeetsList'
  BY <1>1, <1>2 DEF WriteInv, WireMeetsList, Sent, PartOut
<1> QED
  BY <1>1, <1>2, <1>3, <1>4, <1>5 DEF WriteInv

\* Exactly the buffers that left the list went out whole.
LEMMA SentIff ==
    ASSUME WriteTypes', ListIsRest', WireMeetsList'
    PROVE  /\ Sent' \in Nat /\ Len(queued') = Sent' + Len(m_lIovList')
           /\ \A msg \in 1..Len(queued') : SentWhole(msg)' <=> msg <= Sent'
<1>1. /\ Len(m_lIovList') \in Nat /\ Len(queued') \in Nat /\ Len(wire') \in Nat
      /\ m_lIovList' # <<>> => 1 \in 1..Len(m_lIovList') /\ m_lIovList'[1] \in Iov
  BY DEF WriteTypes
<1>2. Sent' \in Nat /\ Len(queued') = Sent' + Len(m_lIovList')
  BY <1>1 DEF ListIsRest, Sent
<1>3. ASSUME NEW msg \in 1..Len(queued'), msg <= Sent' PROVE SentWhole(msg)'
  BY <1>2, <1>3 DEF WireMeetsList
<1>4. ASSUME NEW msg \in 1..Len(queued'), SentWhole(msg)' PROVE msg <= Sent'
  <2>1. PICK i \in 1..Len(wire') : wire'[i].msg = msg /\ wire'[i].to = queued'[msg]
    BY <1>4 DEF SentWhole
  <2>2. CASE wire'[i].msg \in 1..Sent'
    BY <1>2, <2>1, <2>2
  <2>3. CASE PartOut' /\ wire'[i].msg = Sent' + 1 /\ wire'[i].to <= m_lIovList'[1].off
    <3>1. 1 \in 1..Len(m_lIovList') /\ m_lIovList'[1] \in Iov
      BY <1>1, <2>3 DEF PartOut
    <3>2. /\ m_lIovList'[1].msg = Sent' + 1 /\ m_lIovList'[1].left > 0
          /\ m_lIovList'[1].off + m_lIovList'[1].left = queued'[Sent' + 1]
      BY <3>1 DEF ListIsRest
    <3>3. m_lIovList'[1].off \in Nat /\ m_lIovList'[1].left \in Nat
      BY <3>1 DEF Iov
    <3>4. m_lIovList'[1].off < queued'[msg] /\ queued'[msg] <= m_lIovList'[1].off
      BY <2>1, <2>3, <3>2, <3>3
    <3>5. queued'[msg] \in Nat
      BY DEF WriteTypes
    <3> QED
      BY <3>3, <3>4, <3>5
  <2> QED
    BY <2>2, <2>3 DEF WireMeetsList
<1> QED
  BY <1>2, <1>3, <1>4

LEMMA ErrorStep == ASSUME WriteInv, handleWriteError PROVE WriteInv'
<1> DEFINE n == Len(m_lIovList)
           told == [i \in 1..n |-> [msg |-> m_lIovList[i].msg, result |-> FALSE]]
<1>1. /\ phase = "open" /\ phase' = "retired" /\ answers' = answers \o told
      /\ UNCHANGED <<heap, m_lIovList, m_pLastIov, queued, wire>>
  BY DEF handleWriteError
<1>2. /\ WriteTypes /\ BuffersOwned /\ ListIsRest /\ WireMeetsList /\ StreamInOrder
      /\ Len(answers) = Sent
      /\ \A i \in 1..Sent : answers[i] = [msg |-> i, result |-> TRUE]
  BY <1>1 DEF WriteInv, AnsweredSoFar
<1>3. /\ n \in Nat /\ Sent \in Nat /\ Len(queued) = Sent + n
      /\ \A i \in 1..n : m_lIovList[i] \in Iov /\ m_lIovList[i].msg = Sent + i
  BY <1>1, <1>2, ListFacts DEF ListIsRest
<1>4. StreamInOrder' /\ \A msg : SentWhole(msg)' <=> SentWhole(msg)
  BY <1>1, <1>2, HistoryStays
<1>5. BuffersOwned' /\ ListIsRest'
  BY <1>1, <1>2 DEF BuffersOwned, Whole, ListIsRest, Sent
<1>6. WireMeetsList'
  BY <1>1, <1>2, <1>4 DEF WireMeetsList, Sent, PartOut
<1> HIDE DEF n
<1>7. /\ told \in Seq([msg : Nat, result : BOOLEAN]) /\ Len(told) = n
      /\ \A i \in 1..n : told[i] = [msg |-> Sent + i, result |-> FALSE]
  <2>1. \A i \in 1..n : told[i] = [msg |-> Sent + i, result |-> FALSE]
    BY <1>3
  <2>2. \A i \in 1..n : [msg |-> Sent + i, result |-> FALSE] \in [msg : Nat, result : BOOLEAN]
    BY <1>3
  <2>3. told \in [1..n -> [msg : Nat, result : BOOLEAN]]
    <3> HIDE DEF told
    <3>1. told = [i \in 1..n |-> told[i]]
      BY DEF told
    <3> QED
      BY <2>1, <2>2, <3>1
  <2>4. told \in Seq([msg : Nat, result : BOOLEAN]) /\ Len(told) = n
    <3>1. told \in Seq([msg : Nat, result : BOOLEAN])
      BY <1>3, <2>3, SeqDef
    <3>2. DOMAIN told = 1..n
      BY <2>3
    <3> HIDE DEF told
    <3>3. Len(told) \in Nat /\ DOMAIN told = 1..Len(told)
      BY <3>1, LenProperties
    <3>4. Len(told) = n
      BY <1>3, <3>2, <3>3
    <3> QED
      BY <3>1, <3>4
  <2> QED
    BY <2>1, <2>4
<1> HIDE DEF told
<1>8. /\ answers' \in Seq([msg : Nat, result : BOOLEAN]) /\ Len(answers') = Sent + n
      /\ \A i \in 1..(Sent + n) : answers'[i] = IF i <= Sent THEN answers[i] ELSE told[i - Sent]
  <2>1. answers \in Seq([msg : Nat, result : BOOLEAN])
    BY <1>2 DEF WriteTypes
  <2>2. /\ answers \o told \in Seq([msg : Nat, result : BOOLEAN])
        /\ Len(answers \o told) = Len(answers) + Len(told)
        /\ \A i \in 1..(Len(answers) + Len(told)) :
              (answers \o told)[i] = IF i <= Len(answers) THEN answers[i]
                                     ELSE told[i - Len(answers)]
    BY <1>7, <2>1, ConcatProperties
  <2> QED
    BY <1>1, <1>2, <1>7, <2>2
<1>9. \A i \in 1..(Sent + n) : answers'[i].msg = i /\ (answers'[i].result <=> i <= Sent)
  <2> SUFFICES ASSUME NEW i \in 1..(Sent + n)
               PROVE  answers'[i].msg = i /\ (answers'[i].result <=> i <= Sent)
    OBVIOUS
  <2>1. CASE i <= Sent
    BY <1>2, <1>3, <1>8, <2>1
  <2>2. CASE ~(i <= Sent)
    <3>1. i - Sent \in 1..n /\ Sent + (i - Sent) = i
      BY <1>3, <2>2
    <3>2. answers'[i] = told[i - Sent]
      BY <1>8, <2>2
    <3>3. told[i - Sent] = [msg |-> i, result |-> FALSE]
      BY <1>7, <3>1
    <3> QED
      BY <2>2, <3>2, <3>3
  <2> QED
    BY <2>1, <2>2
<1>10. WriteTypes'
  BY <1>1, <1>2, <1>8 DEF WriteTypes
<1>11. AnsweredOnce'
  <2>1. /\ Sent' = Sent /\ Len(queued') = Sent + n
        /\ \A msg \in 1..(Sent + n) : SentWhole(msg)' <=> msg <= Sent
    BY <1>1, <1>3, <1>5, <1>6, <1>10, SentIff DEF Sent, n
  <2>2. \A i \in 1..Len(answers') : answers'[i].result <=> SentWhole(answers[i].msg)'
    <3> SUFFICES ASSUME NEW i \in 1..Len(answers')
                 PROVE  answers'[i].result <=> SentWhole(answers[i].msg)'
      OBVIOUS
    <3>1. i \in 1..(Sent + n) /\ answers'[i].msg = i /\ (answers'[i].result <=> i <= Sent)
      BY <1>8, <1>9
    <3>2. SentWhole(i)' <=> i <= Sent
      BY <2>1, <3>1
    <3> QED
      BY <3>1, <3>2 DEF SentWhole
  <2>3. \A i, j \in 1..Len(answers') : answers'[i].msg = answers'[j].msg => i = j
    BY <1>8, <1>9
  <2>4. \A msg \in 1..Len(queued') : \E i \in 1..Len(answers') : answers'[i].msg = msg
    BY <1>8, <1>9, <2>1
  <2> QED
    BY <2>2, <2>3, <2>4 DEF AnsweredOnce
<1> QED
  BY <1>1, <1>4, <1>5, <1>6, <1>10, <1>11 DEF WriteInv, AnsweredSoFar

LEMMA DestroyStep == ASSUME WriteInv, Destroy PROVE WriteInv'
<1>1. /\ phase' = "destroyed" /\ m_lIovList' = <<>> /\ m_pLastIov' = Null
      /\ UNCHANGED <<queued, wire, answers>>
      /\ heap' = heap \ ({e.buf : e \in {m_lIovList[i] : i \in {j \in 1..Len(m_lIovList) :
                                                m_lIovList[j].m_bComplete}}}
                       \cup {m_pLastIov})
  BY DEF Destroy
<1>2. heap' = {}
  <2>1. heap = {m_lIovList[i].buf : i \in Whole} \cup ({m_pLastIov} \ {Null})
    BY DEF WriteInv, BuffersOwned
  <2>2. ASSUME NEW i \in Whole PROVE m_lIovList[i].buf \notin heap'
    BY <1>1, <2>2 DEF Whole
  <2> QED
    BY <1>1, <2>1, <2>2
<1>3. StreamInOrder' /\ AnsweredOnce'
  BY <1>1, HistoryStays DEF WriteInv
<1>4. WriteTypes'
  BY <1>1, <1>2 DEF WriteInv, WriteTypes
<1>5. BuffersOwned'
  BY <1>1, <1>2 DEF BuffersOwned, Whole
<1> QED
  BY <1>1, <1>3, <1>4, <1>5 DEF WriteInv, AnsweredSoFar

-----------------------------------------------------------------------------
(* writev takes some whole entries and n bytes of the next. *)

\* What the entries of an open connection's list are.
LEMMA Entries ==
    ASSUME WriteInv, phase = "open", NEW i \in 1..Len(m_lIovList)
    PROVE  LET e == m_lIovList[i] IN
           /\ e \in Iov /\ e.msg = Sent + i /\ e.msg \in 1..Len(queued)
           /\ e.off \in Nat /\ e.left \in Nat \ {0} /\ queued[Sent + i] \in Nat
           /\ e.off + e.left = queued[Sent + i]
           /\ e.m_bComplete \in BOOLEAN /\ (e.m_bComplete <=> e.off = 0)
           /\ i > 1 => e.m_bComplete /\ e.off = 0
           /\ e.buf \in Buffers
<1>1. /\ m_lIovList[i] \in Iov /\ Sent \in Nat /\ Len(queued) = Sent + Len(m_lIovList)
      /\ Len(m_lIovList) \in Nat /\ Len(queued) \in Nat
  BY ListFacts
<1>2. LET e == m_lIovList[i] IN
      /\ e.msg = Sent + i /\ e.left > 0 /\ e.off + e.left = queued[e.msg]
      /\ e.m_bComplete <=> e.off = 0
  BY DEF WriteInv, ListIsRest
<1>3. Sent + i \in 1..Len(queued)
  BY <1>1
<1>4. queued[Sent + i] \in Nat
  BY <1>3 DEF WriteInv, WriteTypes
<1>5. i > 1 => i \in Whole
  <2>1. i > 1 => i \in 2..Len(m_lIovList)
    BY <1>1
  <2> QED
    BY <2>1 DEF WriteInv, BuffersOwned
<1>6. LET e == m_lIovList[i] IN
      e.off \in Nat /\ e.left \in Nat /\ e.m_bComplete \in BOOLEAN /\ e.buf \in Buffers
  BY <1>1 DEF Iov
<1> QED
  BY <1>1, <1>2, <1>3, <1>4, <1>5, <1>6 DEF Whole

LEMMA ListWritten ==
    ASSUME WriteInv, NEW whole \in 0..Len(m_lIovList), NEW n \in Nat, write(whole, n)
    PROVE  /\ m_lIovList' \in Seq(Iov) /\ Len(m_lIovList') = Len(m_lIovList) - whole
           /\ \A i \in 1..Len(m_lIovList') :
                 /\ whole + i \in 1..Len(m_lIovList)
                 /\ m_lIovList'[i] = IF i = 1 /\ n > 0 THEN Advanced(m_lIovList[whole + 1], n)
                                     ELSE m_lIovList[whole + i]
           /\ n > 0 => whole + 1 \in 1..Len(m_lIovList) /\ 1 \in 1..Len(m_lIovList')
                       /\ n < m_lIovList[whole + 1].left
           /\ Sent' = Sent + whole
<1> DEFINE len == Len(m_lIovList)
           rest == SubSeq(m_lIovList, whole + 1, Len(m_lIovList))
<1>1. /\ phase = "open" /\ whole + n > 0 /\ queued' = queued
      /\ n > 0 => whole < len /\ n < m_lIovList[whole + 1].left
      /\ m_lIovList' = IF n = 0 THEN rest ELSE [rest EXCEPT ![1] = Advanced(@, n)]
  BY DEF write, Written
<1>2. len \in Nat /\ m_lIovList \in Seq(Iov) /\ Len(queued) \in Nat
  BY ListFacts DEF WriteInv, WriteTypes
<1>3. /\ rest \in Seq(Iov) /\ Len(rest) = len - whole
      /\ \A i \in 1..Len(rest) : rest[i] = m_lIovList[whole + i] /\ whole + i \in 1..len
  BY SMTT(20), <1>2
<1>4. n > 0 => whole + 1 \in 1..len /\ 1 \in 1..Len(rest)
  BY <1>1, <1>2, <1>3
<1> HIDE DEF len, rest
<1>0. ASSUME Len(m_lIovList') = len - whole PROVE Sent' = Sent + whole
  BY <1>0, <1>1, <1>2 DEF Sent, len
<1>5. CASE n = 0
  <2>1. m_lIovList' = rest
    BY <1>1, <1>5
  <2>2. Len(m_lIovList') = len - whole
    BY <1>3, <2>1
  <2> QED
    BY <1>0, <1>3, <1>5, <2>1, <2>2 DEF len
<1>6. CASE n > 0
  <2> DEFINE e == m_lIovList[whole + 1]
  <2>0. rest[1] = m_lIovList[whole + 1]
    BY <1>3, <1>4, <1>6
  <2>1. rest[1] = e /\ e \in Iov /\ e.off \in Nat /\ e.left \in Nat /\ n < e.left
    <3>1. e \in Iov
      BY <1>2, <1>4, <1>6 DEF len
    <3> QED
      BY <1>1, <1>6, <2>0, <3>1 DEF Iov
  <2> HIDE DEF e, rest
  <2>2. Advanced(e, n) \in Iov
    <3>1. e.off + n \in Nat /\ e.left - n \in Nat
      BY <2>1
    <3>2. e \in Iov
      BY <2>1
    <3> QED
      BY <3>1, <3>2 DEF Advanced, Iov
  <2>3. m_lIovList' = [rest EXCEPT ![1] = Advanced(e, n)]
    BY <1>1, <1>6, <2>1
  <2>4. /\ m_lIovList' \in Seq(Iov) /\ Len(m_lIovList') = Len(rest)
        /\ \A i \in 1..Len(rest) : m_lIovList'[i] = IF i = 1 THEN Advanced(e, n) ELSE rest[i]
    BY <1>3, <1>4, <1>6, <2>2, <2>3, ExceptSeq
  <2>5. Sent' = Sent + whole
    BY <1>0, <1>3, <2>4
  <2>6. \A i \in 1..Len(rest) : i # 1 => m_lIovList'[i] = m_lIovList[whole + i]
    BY <1>3, <2>4
  <2>7. m_lIovList'[1] = Advanced(m_lIovList[whole + 1], n)
    BY <1>4, <1>6, <2>4 DEF e
  <2>8. \A i \in 1..Len(m_lIovList') :
           /\ whole + i \in 1..Len(m_lIovList)
           /\ m_lIovList'[i] = IF i = 1 /\ n > 0 THEN Advanced(m_lIovList[whole + 1], n)
                               ELSE m_lIovList[whole + i]
    BY <1>3, <1>6, <2>4, <2>6, <2>7 DEF len
  <2> QED
    BY <1>1, <1>3, <1>4, <1>6, <2>4, <2>5, <2>8 DEF len
<1> QED
  BY <1>5, <1>6

\* The pieces that the socket takes.
New(whole, n) == whole + (IF n > 0 THEN 1 ELSE 0)

LEMMA WireWritten ==
    ASSUME WriteInv, NEW whole \in 0..Len(m_lIovList), NEW n \in Nat, write(whole, n)
    PROVE  /\ New(whole, n) \in 1..Len(m_lIovList)
           /\ wire' \in Seq([msg : Nat, from : Nat, to : Nat])
           /\ Len(wire') = Len(wire) + New(whole, n)
           /\ \A i \in 1..Len(wire) : wire'[i] = wire[i]
           /\ \A j \in 1..New(whole, n) :
                 wire'[Len(wire) + j] =
                    [msg |-> Sent + j, from |-> m_lIovList[j].off + 1,
                     to |-> IF j <= whole THEN queued[Sent + j] ELSE m_lIovList[j].off + n]
<1> DEFINE len == Len(m_lIovList)
           W == Len(wire)
           P == [msg : Nat, from : Nat, to : Nat]
           rest == SubSeq(m_lIovList, whole + 1, Len(m_lIovList))
           a == [i \in 1..whole |-> Piece(m_lIovList[i], m_lIovList[i].left)]
           b == IF n = 0 THEN <<>> ELSE <<Piece(rest[1], n)>>
           extra == IF n > 0 THEN 1 ELSE 0
<1>1. /\ phase = "open" /\ whole + n > 0
      /\ n > 0 => whole < len /\ n < m_lIovList[whole + 1].left
      /\ wire' = (wire \o a) \o b
  BY DEF write, Written
<1>2. len \in Nat /\ m_lIovList \in Seq(Iov) /\ wire \in Seq(P) /\ W \in Nat /\ Sent \in Nat
  BY <1>1, ListFacts DEF WriteInv, WriteTypes
<1>3. New(whole, n) \in 1..len /\ New(whole, n) = whole + extra /\ extra \in Nat
  BY <1>1, <1>2 DEF New
<1>4. /\ a \in Seq(P) /\ Len(a) = whole
      /\ \A i \in 1..whole : a[i] = [msg |-> Sent + i, from |-> m_lIovList[i].off + 1,
                                     to |-> queued[Sent + i]]
  <2>1. ASSUME NEW i \in 1..whole
        PROVE  /\ a[i] = [msg |-> Sent + i, from |-> m_lIovList[i].off + 1,
                          to |-> queued[Sent + i]]
               /\ a[i] \in P
    <3>1. i \in 1..len
      BY <1>2
    <3>2. LET e == m_lIovList[i] IN
          /\ e.msg = Sent + i /\ e.off \in Nat /\ e.left \in Nat /\ queued[Sent + i] \in Nat
          /\ e.off + e.left = queued[Sent + i]
      BY <1>1, <3>1, Entries
    <3>3. a[i] = Piece(m_lIovList[i], m_lIovList[i].left)
      OBVIOUS
    <3> QED
      BY <1>2, <3>2, <3>3 DEF Piece
  <2>2. DOMAIN a = 1..whole /\ a = [i \in 1..whole |-> a[i]] /\ whole \in Nat
    BY <1>2
  <2> HIDE DEF a, P
  <2>3. a \in Seq(P)
    BY <2>1, <2>2, SeqDef
  <2>4. Len(a) \in Nat /\ DOMAIN a = 1..Len(a)
    BY <2>3, LenProperties
  <2> QED
    BY <2>1, <2>2, <2>3, <2>4
<1>5. /\ b \in Seq(P) /\ Len(b) = extra
      /\ n > 0 => b[1] = [msg |-> Sent + (whole + 1), from |-> m_lIovList[whole + 1].off + 1,
                          to |-> m_lIovList[whole + 1].off + n]
  <2>1. CASE n = 0
    BY <2>1
  <2>2. CASE n > 0
    <3>1. whole + 1 \in 1..len
      BY <1>1, <1>2, <2>2
    <3>8. n \in Nat \ {0} /\ extra = 1
      BY <2>2
    <3>2. rest[1] = m_lIovList[whole + 1]
      BY <1>2, <3>1
    <3> DEFINE k == whole + 1
    <3>0. k \in 1..Len(m_lIovList) /\ k \in Nat
      BY <3>1
    <3> HIDE DEF k
    <3>3. m_lIovList[k].msg = Sent + k /\ m_lIovList[k].off \in Nat
      BY <1>1, <3>0, Entries
    <3>5. Piece(m_lIovList[k], n) = [msg |-> Sent + k, from |-> m_lIovList[k].off + 1,
                                     to |-> m_lIovList[k].off + n]
      BY <3>3 DEF Piece
    <3>4. Piece(m_lIovList[k], n) \in P
      BY <1>2, <3>0, <3>3, <3>5
    <3> HIDE DEF P, rest
    <3>6. rest[1] = m_lIovList[k] /\ b = <<Piece(m_lIovList[k], n)>>
      BY <2>2, <3>2 DEF k
    <3>7. b \in Seq(P) /\ Len(b) = 1 /\ b[1] = Piece(m_lIovList[k], n)
      <4> DEFINE p == Piece(m_lIovList[k], n)
      <4>1. p \in P /\ b = <<p>>
        BY <3>4, <3>6
      <4> HIDE DEF p, b
      <4>2. b \in Seq(P) /\ Len(b) = 1 /\ b[1] = p
        BY <4>1
      <4> QED
        BY <4>2 DEF p
    <3> QED
      BY <3>5, <3>7, <3>8 DEF k
  <2> HIDE DEF b, extra, P
  <2> QED
    BY <2>1, <2>2
<1> HIDE DEF a, b, P
<1>6. /\ wire \o a \in Seq(P) /\ Len(wire \o a) = W + whole
      /\ \A i \in 1..(W + whole) : (wire \o a)[i] = IF i <= W THEN wire[i] ELSE a[i - W]
  <2>1. /\ wire \o a \in Seq(P) /\ Len(wire \o a) = Len(wire) + Len(a)
        /\ \A i \in 1..(Len(wire) + Len(a)) :
              (wire \o a)[i] = IF i <= Len(wire) THEN wire[i] ELSE a[i - Len(wire)]
    BY <1>2, <1>4, ConcatProperties
  <2> QED
    BY <1>4, <2>1
<1>7. /\ wire' \in Seq(P) /\ Len(wire') = (W + whole) + extra
      /\ \A i \in 1..((W + whole) + extra) :
            wire'[i] = IF i <= W + whole THEN (wire \o a)[i] ELSE b[i - (W + whole)]
  <2> DEFINE u == wire \o a
  <2>0. u \in Seq(P) /\ Len(u) = W + whole /\ wire' = u \o b
    BY <1>1, <1>6
  <2> HIDE DEF u
  <2>1. /\ u \o b \in Seq(P) /\ Len(u \o b) = Len(u) + Len(b)
        /\ \A i \in 1..(Len(u) + Len(b)) :
              (u \o b)[i] = IF i <= Len(u) THEN u[i] ELSE b[i - Len(u)]
    BY <1>5, <2>0, ConcatProperties
  <2>2. /\ wire' \in Seq(P) /\ Len(wire') = (W + whole) + extra
        /\ \A i \in 1..((W + whole) + extra) :
              wire'[i] = IF i <= W + whole THEN u[i] ELSE b[i - (W + whole)]
    BY <1>5, <2>0, <2>1
  <2> QED
    BY <2>2 DEF u
<1>8. Len(wire') = W + New(whole, n)
  <2> HIDE DEF extra, W
  <2> QED
    BY <1>2, <1>3, <1>7
<1>9. \A i \in 1..W : wire'[i] = wire[i]
  <2> SUFFICES ASSUME NEW i \in 1..W PROVE wire'[i] = wire[i]
    OBVIOUS
  <2>1. i \in 1..(W + whole) /\ i \in 1..((W + whole) + extra) /\ i <= W /\ i <= W + whole
    BY <1>2, <1>3
  <2> QED
    BY <1>6, <1>7, <2>1
<1>10. ASSUME NEW j \in 1..New(whole, n)
       PROVE  wire'[W + j] =
                 [msg |-> Sent + j, from |-> m_lIovList[j].off + 1,
                  to |-> IF j <= whole THEN queued[Sent + j] ELSE m_lIovList[j].off + n]
  <2>0. W + j \in 1..((W + whole) + extra)
    BY <1>2, <1>3
  <2>1. CASE j <= whole
    <3>1. W + j \in 1..(W + whole) /\ ~(W + j <= W) /\ W + j <= W + whole /\ j \in 1..whole
          /\ (W + j) - W = j
      BY <1>2, <1>3, <2>1
    <3>2. wire'[W + j] = a[j]
      BY <1>6, <1>7, <2>0, <3>1
    <3> QED
      BY <1>4, <2>1, <3>1, <3>2
  <2>2. CASE ~(j <= whole)
    <3>1. j = whole + 1 /\ n > 0 /\ ~(W + j <= W + whole) /\ (W + j) - (W + whole) = 1
      BY <1>2, <1>3, <2>2 DEF New
    <3>2. wire'[W + j] = b[1]
      BY <1>7, <2>0, <3>1
    <3> QED
      BY <1>5, <2>2, <3>1, <3>2
  <2> QED
    BY <2>1, <2>2
<1> QED
  BY <1>3, <1>7, <1>8, <1>9, <1>10 DEF P

\* On an open connection every entry owns an allocated buffer of its own.
LEMMA EntriesOwn ==
    ASSUME WriteInv, phase = "open"
    PROVE  /\ heap = {m_lIovList[i].buf : i \in 1..Len(m_lIovList)}
           /\ \A i \in 1..Len(m_lIovList) : Deleted(m_lIovList[i]) = m_lIovList[i].buf
<1>1. BuffersOwned /\ Len(m_lIovList) \in Nat /\ (m_lIovList # <<>> <=> Len(m_lIovList) > 0)
  BY ListFacts DEF WriteInv
<1>2. ASSUME NEW i \in 1..Len(m_lIovList), i \notin Whole
      PROVE  i = 1 /\ m_pLastIov # Null /\ m_pLastIov = m_lIovList[i].buf
  <2>1. i = 1
    BY <1>1, <1>2 DEF BuffersOwned
  <2>2. m_lIovList # <<>>
    BY <1>1
  <2> QED
    BY <1>1, <1>2, <2>1, <2>2 DEF BuffersOwned
<1>3. \A i \in 1..Len(m_lIovList) : Deleted(m_lIovList[i]) = m_lIovList[i].buf
  BY <1>2 DEF Deleted, Whole
<1>4. m_pLastIov # Null =>
         1 \in 1..Len(m_lIovList) /\ 1 \notin Whole /\ m_pLastIov = m_lIovList[1].buf
  BY <1>1 DEF BuffersOwned
<1>5. Whole \subseteq 1..Len(m_lIovList)
  BY DEF Whole
<1>6. heap = {m_lIovList[i].buf : i \in Whole} \cup ({m_pLastIov} \ {Null})
  BY <1>1 DEF BuffersOwned
<1>7. \A i \in 1..Len(m_lIovList) : m_lIovList[i].buf \in heap
  BY <1>2, <1>6
<1>8. \A b \in heap : \E i \in 1..Len(m_lIovList) : b = m_lIovList[i].buf
  BY <1>4, <1>5, <1>6
<1> QED
  BY <1>3, <1>7, <1>8

\* The converse, of a next state.
LEMMA OwnIfEach ==
    ASSUME Null \notin Buffers, m_lIovList' \in Seq(Iov),
           heap' = {m_lIovList'[i].buf : i \in 1..Len(m_lIovList')},
           \A i, j \in 1..Len(m_lIovList') : m_lIovList'[i].buf = m_lIovList'[j].buf => i = j,
           \A i \in 2..Len(m_lIovList') : m_lIovList'[i].m_bComplete,
           m_pLastIov' = IF m_lIovList' # <<>> /\ ~m_lIovList'[1].m_bComplete
                         THEN m_lIovList'[1].buf ELSE Null
    PROVE  BuffersOwned'
<1>1. /\ Len(m_lIovList') \in Nat /\ (m_lIovList' # <<>> <=> Len(m_lIovList') > 0)
      /\ \A i \in 1..Len(m_lIovList') : m_lIovList'[i].buf \in Buffers
  <2>1. Len(m_lIovList') \in Nat /\ (m_lIovList' # <<>> <=> Len(m_lIovList') > 0)
    OBVIOUS
  <2>2. \A i \in 1..Len(m_lIovList') : m_lIovList'[i] \in Iov
    OBVIOUS
  <2> QED
    BY <2>1, <2>2 DEF Iov
<1>2. Whole' = {i \in 1..Len(m_lIovList') : m_lIovList'[i].m_bComplete}
  BY DEF Whole
<1>3. m_lIovList' # <<>> <=> 1 \in 1..Len(m_lIovList')
  BY <1>1
<1>4. /\ m_pLastIov' # Null <=> m_lIovList' # <<>> /\ 1 \notin Whole'
      /\ m_pLastIov' # Null => m_pLastIov' = m_lIovList'[1].buf
  BY <1>1, <1>2, <1>3
<1>5. \A i \in 1..Len(m_lIovList') : i = 1 \/ i \in 2..Len(m_lIovList')
  BY <1>1
<1>6. heap' = {m_lIovList'[i].buf : i \in Whole'} \cup ({m_pLastIov'} \ {Null})
  <2>1. ASSUME NEW i \in 1..Len(m_lIovList'), i \notin Whole'
        PROVE  m_lIovList'[i].buf \in {m_pLastIov'} \ {Null}
    <3>1. i = 1
      BY <1>2, <1>5, <2>1
    <3> QED
      BY <1>3, <1>4, <2>1, <3>1
  <2>2. \A b \in heap' : b \in {m_lIovList'[i].buf : i \in Whole'} \cup ({m_pLastIov'} \ {Null})
    BY <2>1
  <2>3. Whole' \subseteq 1..Len(m_lIovList')
    BY <1>2
  <2>4. \A b \in {m_lIovList'[i].buf : i \in Whole'} \cup ({m_pLastIov'} \ {Null}) : b \in heap'
    BY <1>3, <1>4, <2>3
  <2> QED
    BY <2>2, <2>4
<1>7. \A i \in 2..Len(m_lIovList') : i \in Whole'
  <2>1. \A i \in 2..Len(m_lIovList') : i \in 1..Len(m_lIovList')
    BY <1>1
  <2> QED
    BY <1>2, <2>1
<1> QED
  BY <1>4, <1>6, <1>7 DEF BuffersOwned

LEMMA OwnedWritten ==
    ASSUME WriteBufferAssumption, WriteInv,
           NEW whole \in 0..Len(m_lIovList), NEW n \in Nat, write(whole, n)
    PROVE  BuffersOwned'
<1> DEFINE len == Len(m_lIovList)
           rest == SubSeq(m_lIovList, whole + 1, Len(m_lIovList))
           done == {m_lIovList[i] : i \in 1..whole}
<1>1. /\ phase = "open" /\ whole + n > 0
      /\ heap' = heap \ {Deleted(e) : e \in done}
      /\ m_pLastIov' = IF n > 0 /\ rest[1].m_bComplete THEN rest[1].buf ELSE LastAfter(done)
  BY DEF write, Written
<1>2. /\ len \in Nat /\ m_lIovList \in Seq(Iov) /\ whole \in 0..len
      /\ \A i \in 1..len : m_lIovList[i] \in Iov
  BY ListFacts DEF WriteInv, WriteTypes
<1>3. /\ heap = {m_lIovList[i].buf : i \in 1..len}
      /\ \A i \in 1..len : Deleted(m_lIovList[i]) = m_lIovList[i].buf
      /\ \A i, j \in 1..len : m_lIovList[i].buf = m_lIovList[j].buf => i = j
      /\ \A i \in 2..len : i \in Whole
  BY <1>1, EntriesOwn DEF WriteInv, BuffersOwned
<1>4. /\ m_lIovList' \in Seq(Iov) /\ Len(m_lIovList') = len - whole
      /\ \A i \in 1..Len(m_lIovList') :
            /\ whole + i \in 1..len
            /\ m_lIovList'[i] = IF i = 1 /\ n > 0 THEN Advanced(m_lIovList[whole + 1], n)
                                ELSE m_lIovList[whole + i]
      /\ n > 0 => whole + 1 \in 1..len /\ 1 \in 1..Len(m_lIovList')
  BY ListWritten
<1>5. n > 0 => rest[1] = m_lIovList[whole + 1]
  BY <1>2, <1>4
<1> HIDE DEF len, rest
<1>6. \A i \in 1..Len(m_lIovList') :
         /\ whole + i \in 1..len /\ m_lIovList'[i].buf = m_lIovList[whole + i].buf
         /\ ~(i = 1 /\ n > 0) => m_lIovList'[i] = m_lIovList[whole + i]
         /\ (i = 1 /\ n > 0) => m_lIovList'[i].m_bComplete = FALSE
  <2>1. \A e \in Iov : Advanced(e, n).buf = e.buf /\ Advanced(e, n).m_bComplete = FALSE
    BY DEF Advanced, Iov
  <2> QED
    BY <1>2, <1>4, <2>1
<1>7. heap' = {m_lIovList'[i].buf : i \in 1..Len(m_lIovList')}
  <2>1. 1..whole \subseteq 1..len
    BY <1>2
  <2>2. {Deleted(e) : e \in done} = {m_lIovList[i].buf : i \in 1..whole}
    BY <1>3, <2>1
  <2> HIDE DEF done
  <2>3. ASSUME NEW i \in 1..len PROVE m_lIovList[i].buf \in heap' <=> i \notin 1..whole
    BY ZenonT(20), <1>1, <1>3, <2>1, <2>2
  <2>4. \A i \in 1..Len(m_lIovList') : whole + i \in 1..len /\ whole + i \notin 1..whole
    BY <1>2, <1>4
  <2>5. ASSUME NEW i \in 1..len, i \notin 1..whole
        PROVE  i - whole \in 1..Len(m_lIovList') /\ whole + (i - whole) = i
    BY <1>2, <1>4, <2>5
  <2>6. \A i \in 1..Len(m_lIovList') : m_lIovList'[i].buf \in heap'
    BY <1>6, <2>3, <2>4
  <2>7. ASSUME NEW b \in heap' PROVE \E i \in 1..Len(m_lIovList') : b = m_lIovList'[i].buf
    <3>1. PICK i \in 1..len : b = m_lIovList[i].buf
      BY <1>1, <1>3
    <3>2. i \notin 1..whole
      BY <2>3, <3>1
    <3> QED
      BY <1>6, <2>5, <3>1, <3>2
  <2> QED
    BY <2>6, <2>7
<1>8. \A i, j \in 1..Len(m_lIovList') : m_lIovList'[i].buf = m_lIovList'[j].buf => i = j
  <2> SUFFICES ASSUME NEW i \in 1..Len(m_lIovList'), NEW j \in 1..Len(m_lIovList'),
                      m_lIovList'[i].buf = m_lIovList'[j].buf
               PROVE  i = j
    OBVIOUS
  <2>1. whole + i \in 1..len /\ whole + j \in 1..len
        /\ m_lIovList[whole + i].buf = m_lIovList[whole + j].buf
    BY <1>6
  <2>2. whole + i = whole + j
    BY <1>3, <2>1
  <2> QED
    BY <1>2, <1>4, <2>2
<1>9. ASSUME NEW i \in 1..Len(m_lIovList'), whole + i # 1, ~(i = 1 /\ n > 0)
      PROVE  m_lIovList'[i].m_bComplete
  <2>1. whole + i \in 2..len
    BY <1>2, <1>4, <1>9
  <2>2. m_lIovList[whole + i].m_bComplete
    BY <1>3, <2>1 DEF Whole
  <2> QED
    BY <1>6, <1>9, <2>2
<1>10. \A i \in 2..Len(m_lIovList') : m_lIovList'[i].m_bComplete
  <2> SUFFICES ASSUME NEW i \in 2..Len(m_lIovList') PROVE m_lIovList'[i].m_bComplete
    OBVIOUS
  <2>1. i \in 1..Len(m_lIovList') /\ whole + i # 1 /\ i # 1
    BY <1>2, <1>4
  <2> QED
    BY <1>9, <2>1
<1>11. m_lIovList' # <<>> <=> 1 \in 1..Len(m_lIovList')
  BY <1>4
<1>12. m_pLastIov # Null => 1 \in 1..len /\ ~m_lIovList[1].m_bComplete
  <2>1. BuffersOwned
    BY DEF WriteInv
  <2>2. m_lIovList # <<>> => 1 \in 1..len
    BY <1>2 DEF len
  <2> QED
    BY <2>1, <2>2 DEF BuffersOwned, Whole, len
<1>13. m_pLastIov' = IF m_lIovList' # <<>> /\ ~m_lIovList'[1].m_bComplete
                     THEN m_lIovList'[1].buf ELSE Null
  <2>1. CASE n > 0 /\ m_lIovList[whole + 1].m_bComplete
    BY <1>1, <1>4, <1>5, <1>6, <1>11, <2>1
  <2>2. CASE n > 0 /\ ~m_lIovList[whole + 1].m_bComplete
    <3>1. whole = 0
      <4>1. whole + 1 \in 1..len /\ whole + 1 \notin 2..len
        BY <1>3, <1>4, <2>2 DEF Whole
      <4> QED
        BY <1>2, <4>1
    <3>2. done = {}
      BY <3>1
    <3>3. m_pLastIov' = m_pLastIov
      BY <1>1, <1>5, <2>2, <3>2 DEF LastAfter
    <3>4. m_pLastIov = m_lIovList[1].buf
      <4>1. 1 \in 1..len /\ ~m_lIovList[1].m_bComplete /\ m_lIovList # <<>>
        BY <1>2, <1>4, <2>2, <3>1 DEF len
      <4> QED
        BY <4>1 DEF WriteInv, BuffersOwned, Whole
    <3> QED
      BY <1>4, <1>6, <1>11, <2>2, <3>1, <3>3, <3>4
  <2>3. CASE n = 0
    <3>1. whole > 0 /\ 1 \in 1..whole /\ whole \in Nat
      BY <1>1, <1>2, <2>3
    <3>2. m_lIovList' # <<>> => m_lIovList'[1].m_bComplete
      BY <1>9, <1>11, <2>3, <3>1
    <3>3. m_pLastIov' = LastAfter(done)
      BY <1>1, <2>3
    <3>4. m_pLastIov # Null => \E e \in done : ~e.m_bComplete
      BY <1>12, <3>1
    <3> QED
      BY <3>2, <3>3, <3>4 DEF LastAfter
  <2> QED
    BY <2>1, <2>2, <2>3
<1> QED
  BY <1>4, <1>7, <1>8, <1>10, <1>13, OwnIfEach DEF WriteBufferAssumption

LEMMA RestWritten ==
    ASSUME WriteInv, NEW whole \in 0..Len(m_lIovList), NEW n \in Nat, write(whole, n)
    PROVE  /\ ListIsRest' /\ (PartOut' <=> n > 0)
           /\ n > 0 => m_lIovList'[1].off = m_lIovList[whole + 1].off + n
<1> DEFINE len == Len(m_lIovList)
           len1 == Len(m_lIovList')
<1>1. phase = "open" /\ whole + n > 0 /\ queued' = queued
  BY DEF write
<1>2. /\ len \in Nat /\ Len(queued) \in Nat /\ Sent \in Nat /\ Len(queued) = Sent + len
      /\ whole \in Nat /\ whole <= len
      /\ \A i \in 1..len : m_lIovList[i] \in Iov
  BY <1>1, ListFacts
<1>3. /\ m_lIovList' \in Seq(Iov) /\ len1 = len - whole
      /\ \A i \in 1..len1 :
            /\ whole + i \in 1..len
            /\ m_lIovList'[i] = IF i = 1 /\ n > 0 THEN Advanced(m_lIovList[whole + 1], n)
                                ELSE m_lIovList[whole + i]
      /\ n > 0 => whole + 1 \in 1..len /\ 1 \in 1..len1 /\ n < m_lIovList[whole + 1].left
      /\ Sent' = Sent + whole
  BY ListWritten
<1>4. m_lIovList' # <<>> <=> 1 \in 1..len1
  BY <1>3
<1> HIDE DEF len, len1
<1>5. ASSUME NEW k \in 1..len
      PROVE  LET e == m_lIovList[k] IN
             /\ e \in Iov /\ e.msg = Sent + k /\ e.off \in Nat /\ e.left \in Nat \ {0}
             /\ queued[Sent + k] \in Nat /\ e.off + e.left = queued[Sent + k]
             /\ e.m_bComplete <=> e.off = 0
             /\ k > 1 => e.off = 0
  BY <1>1, Entries DEF len
<1>6. ASSUME n > 0
      PROVE  LET e == m_lIovList[whole + 1]
                 x == m_lIovList'[1]
             IN  /\ x.msg = Sent' + 1 /\ x.left > 0 /\ x.off + x.left = queued[Sent' + 1]
                 /\ x.off = e.off + n /\ x.m_bComplete = FALSE /\ x.off > 0
  <2> DEFINE k == whole + 1
             e == m_lIovList[k]
  <2>1. k \in 1..len /\ n < m_lIovList[whole + 1].left /\ Sent + k = Sent' + 1
    BY <1>2, <1>3, <1>6
  <2>2. m_lIovList'[1] = Advanced(m_lIovList[whole + 1], n)
    BY <1>3, <1>6
  <2>3. m_lIovList'[1] = Advanced(e, n) /\ n < e.left
    BY <2>1, <2>2
  <2> HIDE DEF k
  <2>4. /\ e \in Iov /\ e.msg = Sent + k /\ e.off \in Nat /\ e.left \in Nat \ {0}
        /\ e.off + e.left = queued[Sent + k]
    BY <1>5, <2>1
  <2> HIDE DEF e
  <2>5. LET x == Advanced(e, n) IN
        x.msg = e.msg /\ x.off = e.off + n /\ x.left = e.left - n /\ x.m_bComplete = FALSE
    BY <2>4 DEF Advanced, Iov
  <2>6. e.off + n + (e.left - n) = e.off + e.left /\ e.left - n > 0 /\ e.off + n > 0
    BY <1>6, <2>3, <2>4
  <2>7. e = m_lIovList[whole + 1]
    BY DEF e, k
  <2> QED
    BY <2>1, <2>3, <2>4, <2>5, <2>6, <2>7
<1>7. ASSUME NEW i \in 1..len1, ~(i = 1 /\ n > 0)
      PROVE  LET x == m_lIovList'[i] IN
             /\ x.msg = Sent' + i /\ x.left > 0 /\ x.off + x.left = queued[Sent' + i]
             /\ x.m_bComplete <=> x.off = 0
  <2> DEFINE k == whole + i
  <2>1. k \in 1..len /\ m_lIovList'[i] = m_lIovList[k] /\ Sent + k = Sent' + i
    <3>1. whole + i \in 1..len /\ m_lIovList'[i] = m_lIovList[whole + i]
      BY <1>3, <1>7
    <3>2. len1 \in Nat /\ i \in Nat /\ Sent' = Sent + whole
      BY <1>2, <1>3
    <3>3. Sent + (whole + i) = Sent' + i
      BY <1>2, <3>2
    <3> QED
      BY <3>1, <3>3
  <2> HIDE DEF k
  <2> QED
    BY <1>5, <2>1
<1>8. ListIsRest'
  <2>1. len1 <= Len(queued') /\ len1 \in Nat /\ Sent' \in Nat
    BY <1>1, <1>2, <1>3
  <2>2. ASSUME NEW i \in 1..len1
        PROVE  LET x == m_lIovList'[i] IN
               /\ x.msg = Sent' + i /\ x.left > 0 /\ x.off + x.left = queued'[x.msg]
               /\ x.m_bComplete <=> x.off = 0
    <3>1. CASE i = 1 /\ n > 0
      <4>1. /\ m_lIovList'[1].msg = Sent' + 1 /\ m_lIovList'[1].left > 0
            /\ m_lIovList'[1].off + m_lIovList'[1].left = queued[Sent' + 1]
            /\ m_lIovList'[1].m_bComplete = FALSE /\ m_lIovList'[1].off > 0
        BY <1>6, <3>1
      <4> QED
        BY <1>1, <3>1, <4>1
    <3>2. CASE ~(i = 1 /\ n > 0)
      BY <1>1, <1>7, <3>2
    <3> QED
      BY <3>1, <3>2
  <2> QED
    BY <2>1, <2>2 DEF ListIsRest, len1
<1>9. PartOut' <=> n > 0
  <2>1. CASE n > 0
    BY <1>3, <1>4, <1>6, <2>1 DEF PartOut
  <2>2. CASE ~(n > 0)
    <3>1. ASSUME 1 \in 1..len1 PROVE ~(m_lIovList'[1].off > 0)
      <4> DEFINE k == whole + 1
      <4>1. k \in 1..len /\ k > 1 /\ m_lIovList'[1] = m_lIovList[k]
        BY <1>1, <1>2, <1>3, <2>2, <3>1
      <4> HIDE DEF k
      <4>2. m_lIovList[k].off = 0
        BY <1>5, <4>1
      <4> QED
        BY <4>1, <4>2
    <3> QED
      BY <1>4, <2>2, <3>1 DEF PartOut
  <2> QED
    BY <2>1, <2>2
<1> QED
  BY <1>6, <1>8, <1>9

\* Field by field, where the new pieces lie.
LEMMA NewPieces ==
    ASSUME WriteInv, NEW whole \in 0..Len(m_lIovList), NEW n \in Nat, write(whole, n)
    PROVE  /\ New(whole, n) \in Nat \ {0} /\ Len(wire') = Len(wire) + New(whole, n)
           /\ \A j \in 1..New(whole, n) :
                 LET x == wire'[Len(wire) + j]
                     e == m_lIovList[j]
                 IN  /\ j \in 1..Len(m_lIovList)
                     /\ x.msg = Sent + j /\ x.from = e.off + 1 /\ x.from <= x.to
                     /\ e.off \in Nat /\ (j > 1 => e.off = 0)
                     /\ j <= whole => x.to = queued[Sent + j]
                     /\ j > whole => n > 0 /\ j = whole + 1 /\ x.to = e.off + n
<1>1. phase = "open" /\ Len(m_lIovList) \in Nat /\ Len(wire) \in Nat
  BY ListFacts DEF write
<1>2. /\ New(whole, n) \in 1..Len(m_lIovList)
      /\ Len(wire') = Len(wire) + New(whole, n)
      /\ \A j \in 1..New(whole, n) :
            wire'[Len(wire) + j] =
               [msg |-> Sent + j, from |-> m_lIovList[j].off + 1,
                to |-> IF j <= whole THEN queued[Sent + j] ELSE m_lIovList[j].off + n]
  BY WireWritten
<1>3. ASSUME NEW j \in 1..New(whole, n), j > whole PROVE n > 0 /\ j = whole + 1
  BY <1>1, <1>3 DEF New
<1>4. ASSUME NEW j \in 1..New(whole, n)
      PROVE  LET x == wire'[Len(wire) + j]
                 e == m_lIovList[j]
             IN  /\ j \in 1..Len(m_lIovList)
                 /\ x.msg = Sent + j /\ x.from = e.off + 1 /\ x.from <= x.to
                 /\ e.off \in Nat /\ (j > 1 => e.off = 0)
                 /\ j <= whole => x.to = queued[Sent + j]
                 /\ j > whole => n > 0 /\ j = whole + 1 /\ x.to = e.off + n
  <2> DEFINE x == wire'[Len(wire) + j]
             e == m_lIovList[j]
  <2>1. j \in 1..Len(m_lIovList) /\ j \in Nat
    BY <1>1, <1>2
  <2>2. /\ e.off \in Nat /\ e.left \in Nat \ {0} /\ queued[Sent + j] \in Nat
        /\ e.off + e.left = queued[Sent + j] /\ (j > 1 => e.off = 0)
    BY <1>1, <2>1, Entries
  <2>3. x = [msg |-> Sent + j, from |-> e.off + 1,
             to |-> IF j <= whole THEN queued[Sent + j] ELSE e.off + n]
    BY <1>2
  <2> HIDE DEF x, e
  <2>4. /\ x.msg = Sent + j /\ x.from = e.off + 1
        /\ j <= whole => x.to = queued[Sent + j]
        /\ ~(j <= whole) => x.to = e.off + n
    BY <2>3
  <2>5. j > whole <=> ~(j <= whole)
    BY <2>1
  <2>6. x.from <= x.to
    <3>1. CASE j <= whole
      BY <2>2, <2>4, <3>1
    <3>2. CASE j > whole
      BY <1>3, <2>2, <2>4, <2>5, <3>2
    <3> QED
      BY <2>5, <3>1, <3>2
  <2> QED
    BY <1>3, <2>1, <2>2, <2>4, <2>5, <2>6 DEF x, e
<1>5. New(whole, n) \in Nat \ {0}
  BY <1>1, <1>2
<1> QED
  BY <1>2, <1>4, <1>5

\* What the two lemmas below need of a write: the old pieces with their history,
\* and, for i = W + j, the j-th new one.
LEMMA OldPieces ==
    ASSUME WriteInv, NEW whole \in 0..Len(m_lIovList), NEW n \in Nat, write(whole, n)
    PROVE  /\ Len(wire) \in Nat /\ Sent \in Nat /\ Sent' = Sent + whole /\ whole \in Nat
           /\ queued' = queued /\ whole + n > 0
           /\ StreamInOrder /\ WireMeetsList
           /\ \A i \in 1..Len(wire) :
                 wire'[i] = wire[i] /\ wire[i].to \in Nat /\ wire[i].msg \in Nat
           /\ wire' \in Seq([msg : Nat, from : Nat, to : Nat])
           /\ \A i \in 1..Len(wire') :
                 i \in 1..Len(wire) \/ \E j \in 1..New(whole, n) : i = Len(wire) + j
           /\ PartOut => 1 \in 1..Len(m_lIovList) /\ m_lIovList[1].off \in Nat
           /\ m_lIovList # <<>> <=> Len(m_lIovList) > 0
<1>1. phase = "open" /\ queued' = queued /\ whole + n > 0
  BY DEF write
<1>2. /\ Len(wire) \in Nat /\ Sent \in Nat /\ StreamInOrder /\ WireMeetsList
      /\ Len(m_lIovList) \in Nat /\ (m_lIovList # <<>> <=> Len(m_lIovList) > 0)
      /\ wire \in Seq([msg : Nat, from : Nat, to : Nat])
  BY <1>1, ListFacts DEF WriteInv, WriteTypes
<1>3. PartOut => 1 \in 1..Len(m_lIovList) /\ m_lIovList[1].off \in Nat
  <2>1. PartOut => 1 \in 1..Len(m_lIovList)
    BY <1>2 DEF PartOut
  <2> QED
    BY <1>1, <2>1, Entries
<1>4. /\ wire' \in Seq([msg : Nat, from : Nat, to : Nat])
      /\ Len(wire') = Len(wire) + New(whole, n) /\ New(whole, n) \in Nat
      /\ \A i \in 1..Len(wire) : wire'[i] = wire[i]
  BY WireWritten, NewPieces
<1>5. \A i \in 1..Len(wire) : wire[i].to \in Nat /\ wire[i].msg \in Nat
  <2> DEFINE P == [msg : Nat, from : Nat, to : Nat]
  <2>0. wire \in Seq(P)
    BY <1>2
  <2> HIDE DEF P
  <2>1. \A i \in 1..Len(wire) : wire[i] \in P
    BY <2>0
  <2> QED
    BY <2>1 DEF P
<1>6. ASSUME NEW i \in 1..Len(wire'), i \notin 1..Len(wire)
      PROVE  \E j \in 1..New(whole, n) : i = Len(wire) + j
  <2>1. i - Len(wire) \in 1..New(whole, n) /\ i = Len(wire) + (i - Len(wire))
    BY SMTT(20), <1>2, <1>4, <1>6
  <2> QED
    BY <2>1
<1> QED
  BY <1>1, <1>2, <1>3, <1>4, <1>5, <1>6, ListWritten

LEMMA MeetsWritten ==
    ASSUME WriteInv, NEW whole \in 0..Len(m_lIovList), NEW n \in Nat, write(whole, n)
    PROVE  WireMeetsList'
<1> DEFINE W == Len(wire)
           k == New(whole, n)
<1>1. /\ W \in Nat /\ Sent \in Nat /\ Sent' = Sent + whole /\ whole \in Nat
      /\ queued' = queued /\ whole + n > 0 /\ WireMeetsList
      /\ \A i \in 1..W : wire'[i] = wire[i] /\ wire[i].to \in Nat /\ wire[i].msg \in Nat
      /\ \A i \in 1..Len(wire') : i \in 1..W \/ \E j \in 1..k : i = W + j
      /\ PartOut => 1 \in 1..Len(m_lIovList) /\ m_lIovList[1].off \in Nat
  BY OldPieces
<1>2. /\ k \in Nat \ {0} /\ Len(wire') = W + k
      /\ \A j \in 1..k : LET x == wire'[W + j]
                             e == m_lIovList[j]
                         IN  /\ x.msg = Sent + j /\ e.off \in Nat
                             /\ j <= whole => x.to = queued[Sent + j]
                             /\ j > whole => n > 0 /\ j = whole + 1 /\ x.to = e.off + n
  BY NewPieces
<1>3. k = IF n > 0 THEN whole + 1 ELSE whole
  BY <1>1 DEF New
<1>4. PartOut' <=> n > 0
  BY RestWritten
<1>5. n > 0 => m_lIovList'[1].off = m_lIovList[whole + 1].off + n
  BY RestWritten
<1> HIDE DEF W, k
<1>6. wire' # <<>> /\ Len(wire') \in Nat
  BY <1>1, <1>2
<1>7. IF PartOut' THEN wire'[W + k].msg = Sent' + 1 /\ wire'[W + k].to = m_lIovList'[1].off
      ELSE wire'[W + k].msg = Sent' /\ wire'[W + k].to = queued'[Sent']
  <2>1. k \in 1..k
    BY <1>2
  <2>2. CASE n > 0
    <3>1. k = whole + 1 /\ k > whole /\ Sent + k = Sent' + 1
      BY SMTT(20), <1>1, <1>3, <2>2
    <3>2. wire'[W + k].msg = Sent + k /\ wire'[W + k].to = m_lIovList[k].off + n
      BY <1>2, <2>1, <3>1
    <3> QED
      BY <1>4, <1>5, <2>2, <3>1, <3>2
  <2>3. CASE ~(n > 0)
    <3>1. k = whole /\ k <= whole /\ Sent + k = Sent'
      BY <1>1, <1>3, <2>3
    <3>2. wire'[W + k].msg = Sent + k /\ wire'[W + k].to = queued[Sent + k]
      BY <1>2, <2>1, <3>1
    <3> QED
      BY <1>1, <1>4, <2>3, <3>1, <3>2
  <2> QED
    BY <2>2, <2>3
<1>8. ASSUME NEW i \in 1..Len(wire')
      PROVE  \/ wire'[i].msg \in 1..Sent'
             \/ PartOut' /\ wire'[i].msg = Sent' + 1 /\ wire'[i].to <= m_lIovList'[1].off
  <2>1. CASE i \in 1..W
    <3>1. wire'[i] = wire[i] /\ wire[i].to \in Nat /\ wire[i].msg \in Nat
      BY <1>1, <2>1
    <3>2. \/ wire[i].msg \in 1..Sent
          \/ PartOut /\ wire[i].msg = Sent + 1 /\ wire[i].to <= m_lIovList[1].off
      BY <1>1, <2>1 DEF WireMeetsList, W
    <3>3. CASE wire[i].msg \in 1..Sent
      <4>1. \A msg \in 1..Sent : msg \in 1..Sent'
        BY <1>1
      <4> QED
        BY <3>1, <3>3, <4>1
    <3>4. CASE PartOut /\ wire[i].msg = Sent + 1 /\ wire[i].to <= m_lIovList[1].off
      <4>1. CASE whole = 0
        <5>1. n > 0 /\ Sent' = Sent /\ whole + 1 = 1 /\ n \in Nat
          BY <1>1, <4>1
        <5>2. m_lIovList'[1].off = m_lIovList[1].off + n
          BY <1>5, <5>1
        <5>3. wire[i].to <= m_lIovList'[1].off
          BY <1>1, <3>1, <3>4, <5>1, <5>2
        <5> QED
          BY <1>4, <3>1, <3>4, <5>1, <5>3
      <4>2. CASE whole # 0
        <5>1. Sent + 1 \in 1..Sent'
          BY <1>1, <4>2
        <5> QED
          BY <3>1, <3>4, <5>1
      <4> QED
        BY <4>1, <4>2
    <3> QED
      BY <3>2, <3>3, <3>4
  <2>2. CASE \E j \in 1..k : i = W + j
    <3>1. PICK j \in 1..k : i = W + j
      BY <2>2
    <3>2. wire'[i].msg = Sent + j
      BY <1>2, <3>1
    <3>3. CASE j <= whole
      <4>1. Sent + j \in 1..Sent'
        BY <1>1, <1>2, <3>3
      <4> QED
        BY <3>2, <4>1
    <3>4. CASE ~(j <= whole)
      <4>1. n > 0 /\ j = k
        BY <1>1, <1>2, <1>3, <3>4
      <4>2. m_lIovList'[1].off \in Nat
        <5>1. whole + 1 \in 1..k
          BY <1>1, <1>3, <4>1
        <5>2. m_lIovList[whole + 1].off \in Nat
          BY <1>2, <5>1
        <5> QED
          BY SMTT(20), <1>5, <4>1, <5>2
      <4>3. wire'[i].msg = Sent' + 1 /\ wire'[i].to = m_lIovList'[1].off
        BY <1>4, <1>7, <3>1, <4>1
      <4> QED
        BY <1>4, <4>1, <4>2, <4>3
    <3> QED
      BY <3>3, <3>4
  <2> QED
    BY <1>1, <2>1, <2>2
<1>9. ASSUME NEW msg \in 1..Sent' PROVE SentWhole(msg)'
  <2>0. \A i \in 1..W : i \in 1..Len(wire')
    BY <1>1, <1>2
  <2>1. CASE msg <= Sent
    <3>1. SentWhole(msg)
      BY <1>1, <2>1 DEF WireMeetsList
    <3>2. PICK i \in 1..W : wire[i].msg = msg /\ wire[i].to = queued[msg]
      BY <3>1 DEF SentWhole, W
    <3>3. i \in 1..Len(wire') /\ wire'[i] = wire[i]
      BY <1>1, <2>0
    <3> QED
      BY <1>1, <3>2, <3>3 DEF SentWhole
  <2>2. CASE ~(msg <= Sent)
    <3> DEFINE j == msg - Sent
    <3>1. j \in 1..k /\ j <= whole /\ Sent + j = msg /\ W + j \in 1..Len(wire')
      BY <1>1, <1>2, <1>3, <2>2
    <3> HIDE DEF j
    <3>2. wire'[W + j].msg = Sent + j /\ wire'[W + j].to = queued[Sent + j]
      BY <1>2, <3>1
    <3> QED
      BY <1>1, <3>1, <3>2 DEF SentWhole
  <2> QED
    BY <2>1, <2>2
<1>10. wire' # <<>> =>
         LET last == wire'[Len(wire')] IN
         IF PartOut' THEN last.msg = Sent' + 1 /\ last.to = m_lIovList'[1].off
         ELSE last.msg = Sent' /\ last.to = queued'[Sent']
  BY <1>2, <1>7
<1> QED
  BY <1>6, <1>8, <1>9, <1>10 DEF WireMeetsList

LEMMA OrderWritten ==
    ASSUME WriteInv, NEW whole \in 0..Len(m_lIovList), NEW n \in Nat, write(whole, n)
    PROVE  StreamInOrder'
<1> DEFINE W == Len(wire)
           k == New(whole, n)
<1>1. /\ W \in Nat /\ Sent \in Nat /\ whole \in Nat
      /\ queued' = queued /\ StreamInOrder /\ WireMeetsList
      /\ \A i \in 1..W : wire'[i] = wire[i]
      /\ \A i \in 1..Len(wire') : i \in 1..W \/ \E j \in 1..k : i = W + j
      /\ m_lIovList # <<>> <=> Len(m_lIovList) > 0
  BY OldPieces
<1>2. /\ k \in Nat \ {0} /\ Len(wire') = W + k
      /\ \A j \in 1..k : LET x == wire'[W + j]
                             e == m_lIovList[j]
                         IN  /\ j \in 1..Len(m_lIovList)
                             /\ x.msg = Sent + j /\ x.from = e.off + 1 /\ x.from <= x.to
                             /\ e.off \in Nat /\ (j > 1 => e.off = 0)
                             /\ j <= whole => x.to = queued[Sent + j]
                             /\ j > whole => j = whole + 1
  BY NewPieces
<1>3. /\ k <= whole + 1
      /\ W = 0 <=> wire = <<>>
  <2>1. W = 0 <=> wire = <<>>
    BY ListFacts
  <2> QED
    BY <1>1, <2>1 DEF New
<1>4. \A i \in 1..W : wire[i].from <= wire[i].to
  BY <1>1 DEF StreamInOrder, W
<1>5. /\ W # 0 => wire[1].msg = 1 /\ wire[1].from = 1
      /\ \A i \in 1..(W - 1) :
            \/ /\ wire[i + 1].msg = wire[i].msg
               /\ wire[i + 1].from = wire[i].to + 1
            \/ /\ wire[i].to = queued[wire[i].msg]
               /\ wire[i + 1].msg = wire[i].msg + 1 /\ wire[i + 1].from = 1
  BY <1>1, <1>3 DEF StreamInOrder, W
<1>6. /\ W = 0 => Sent = 0 /\ ~PartOut
      /\ W # 0 => IF PartOut
                  THEN wire[W].msg = Sent + 1 /\ wire[W].to = m_lIovList[1].off
                  ELSE wire[W].msg = Sent /\ wire[W].to = queued[Sent]
  BY <1>1, <1>3 DEF WireMeetsList, W
<1> HIDE DEF W, k
<1>7. /\ 1 \in 1..k /\ wire'[W + 1].msg = Sent + 1
      /\ wire'[W + 1].from = m_lIovList[1].off + 1 /\ m_lIovList[1].off \in Nat
      /\ PartOut <=> m_lIovList[1].off > 0
  <2>1. 1 \in 1..k /\ 1 \in 1..Len(m_lIovList)
    BY <1>2
  <2>2. m_lIovList # <<>>
    BY <1>1, <2>1
  <2> QED
    BY <1>2, <2>1, <2>2 DEF PartOut
<1>8. \A i \in 1..Len(wire') : wire'[i].from <= wire'[i].to
  BY <1>1, <1>2, <1>4
<1>9. wire'[1].msg = 1 /\ wire'[1].from = 1
  <2>1. CASE W = 0
    BY <1>6, <1>7, <2>1
  <2>2. CASE W # 0
    <3>1. 1 \in 1..W
      BY <1>1, <2>2
    <3> QED
      BY <1>1, <1>5, <2>2, <3>1
  <2> QED
    BY <2>1, <2>2
<1>10. ASSUME NEW i \in 1..(Len(wire') - 1)
       PROVE  \/ /\ wire'[i + 1].msg = wire'[i].msg
                 /\ wire'[i + 1].from = wire'[i].to + 1
              \/ /\ wire'[i].to = queued'[wire'[i].msg]
                 /\ wire'[i + 1].msg = wire'[i].msg + 1 /\ wire'[i + 1].from = 1
  <2>1. CASE i \in 1..(W - 1)
    <3>1. i \in 1..W /\ i + 1 \in 1..W
      BY <1>1, <2>1
    <3>2. wire'[i] = wire[i] /\ wire'[i + 1] = wire[i + 1]
      BY <1>1, <3>1
    <3> QED
      BY <1>1, <1>5, <2>1, <3>2
  <2>2. CASE i = W
    <3>1. W # 0 /\ W \in 1..W /\ wire'[W] = wire[W]
      BY <1>1, <2>2
    <3>2. CASE PartOut
      BY <1>6, <1>7, <2>2, <3>1, <3>2
    <3>3. CASE ~PartOut
      <4>1. wire'[W + 1].from = 1
        BY <1>7, <3>3
      <4> QED
        BY <1>1, <1>6, <1>7, <2>2, <3>1, <3>3, <4>1
    <3> QED
      BY <3>2, <3>3
  <2>3. CASE i > W
    <3> DEFINE j == i - W
               j1 == j + 1
    <3>1. /\ j \in 1..k /\ j1 \in 1..k /\ j <= whole /\ j1 > 1 /\ i = W + j /\ i + 1 = W + j1
          /\ Sent + j1 = (Sent + j) + 1
      BY <1>1, <1>2, <1>3, <2>3
    <3> HIDE DEF j, j1
    <3>2. wire'[i].msg = Sent + j /\ wire'[i].to = queued[Sent + j]
      BY <1>2, <3>1
    <3>3. wire'[i + 1].msg = Sent + j1 /\ wire'[i + 1].from = 1
      <4>1. /\ wire'[W + j1].msg = Sent + j1 /\ wire'[W + j1].from = m_lIovList[j1].off + 1
            /\ m_lIovList[j1].off = 0
        BY <1>2, <3>1
      <4> QED
        BY <3>1, <4>1
    <3> QED
      BY <1>1, <3>1, <3>2, <3>3
  <2> QED
    BY <1>1, <1>2, <2>1, <2>2, <2>3
<1> QED
  BY <1>8, <1>9, <1>10 DEF StreamInOrder

LEMMA AnsweredWritten ==
    ASSUME WriteInv, NEW whole \in 0..Len(m_lIovList), NEW n \in Nat, write(whole, n)
    PROVE  /\ answers' \in Seq([msg : Nat, result : BOOLEAN]) /\ Len(answers') = Sent'
           /\ \A i \in 1..Sent' : answers'[i] = [msg |-> i, result |-> TRUE]
<1> DEFINE R == [msg : Nat, result : BOOLEAN]
           a == [i \in 1..whole |-> [msg |-> m_lIovList[i].msg, result |-> TRUE]]
<1>1. phase = "open" /\ answers' = answers \o a
  BY DEF write, Written
<1>2. /\ Sent \in Nat /\ Sent' = Sent + whole /\ whole \in Nat /\ Len(m_lIovList) \in Nat
      /\ Len(answers) = Sent /\ answers \in Seq(R)
      /\ \A i \in 1..Sent : answers[i] = [msg |-> i, result |-> TRUE]
  <2>1. AnsweredSoFar /\ answers \in Seq(R)
    BY DEF WriteInv, WriteTypes
  <2> QED
    BY <1>1, <2>1, ListFacts, ListWritten DEF AnsweredSoFar
<1>3. ASSUME NEW i \in 1..whole
      PROVE  a[i] = [msg |-> Sent + i, result |-> TRUE] /\ a[i] \in R
  <2>1. i \in 1..Len(m_lIovList)
    BY <1>2
  <2>2. m_lIovList[i].msg = Sent + i
    BY <1>1, <2>1, Entries
  <2>3. a[i] = [msg |-> Sent + i, result |-> TRUE]
    BY <2>2
  <2>4. Sent + i \in Nat
    BY <1>2
  <2> HIDE DEF a
  <2> QED
    BY <2>3, <2>4
<1>4. a \in Seq(R) /\ Len(a) = whole
  <2>1. DOMAIN a = 1..whole /\ a = [i \in 1..whole |-> a[i]] /\ whole \in Nat
    BY <1>2
  <2>4. \A i \in 1..whole : a[i] \in R
    BY <1>3
  <2> HIDE DEF a, R
  <2>2. a \in Seq(R)
    BY <2>1, <2>4, SeqDef
  <2>3. Len(a) \in Nat /\ DOMAIN a = 1..Len(a)
    BY <2>2, LenProperties
  <2> QED
    BY <1>2, <2>1, <2>2, <2>3
<1> HIDE DEF a, R
<1>5. /\ answers \o a \in Seq(R) /\ Len(answers \o a) = Len(answers) + Len(a)
      /\ \A i \in 1..(Len(answers) + Len(a)) :
            (answers \o a)[i] = IF i <= Len(answers) THEN answers[i] ELSE a[i - Len(answers)]
  BY <1>2, <1>4, ConcatProperties
<1>6. /\ answers' \in Seq(R) /\ Len(answers') = Sent'
      /\ \A i \in 1..Sent' : answers'[i] = IF i <= Sent THEN answers[i] ELSE a[i - Sent]
  BY <1>1, <1>2, <1>4, <1>5
<1>7. ASSUME NEW i \in 1..Sent' PROVE answers'[i] = [msg |-> i, result |-> TRUE]
  <2>1. CASE i <= Sent
    <3>1. i \in 1..Sent
      BY <1>2, <2>1
    <3> QED
      BY <1>2, <1>6, <2>1, <3>1
  <2>2. CASE ~(i <= Sent)
    <3>1. i - Sent \in 1..whole /\ Sent + (i - Sent) = i
      BY <1>2, <2>2
    <3>2. a[i - Sent] = [msg |-> Sent + (i - Sent), result |-> TRUE]
      BY <1>3, <3>1
    <3> QED
      BY <1>6, <2>2, <3>1, <3>2
  <2> QED
    BY <2>1, <2>2
<1> QED
  BY <1>6, <1>7 DEF R

LEMMA WriteStep ==
    ASSUME WriteBufferAssumption, WriteInv,
           NEW whole \in 0..Len(m_lIovList), NEW n \in Nat, write(whole, n)
    PROVE  WriteInv'
<1>1. phase = "open" /\ phase' = "open" /\ queued' = queued
  BY DEF write
<1>2. /\ ListIsRest' /\ WireMeetsList' /\ StreamInOrder' /\ BuffersOwned'
      /\ m_lIovList' \in Seq(Iov) /\ wire' \in Seq([msg : Nat, from : Nat, to : Nat])
  BY RestWritten, MeetsWritten, OrderWritten, OwnedWritten, ListWritten, WireWritten
<1>3. /\ answers' \in Seq([msg : Nat, result : BOOLEAN]) /\ Len(answers') = Sent'
      /\ \A i \in 1..Sent' : answers'[i] = [msg |-> i, result |-> TRUE]
  BY AnsweredWritten
<1>4. WriteTypes'
  <2>1. heap' \subseteq heap /\ heap \subseteq Buffers /\ queued \in Seq(Nat)
    BY DEF write, Written, WriteInv, WriteTypes
  <2>2. m_pLastIov' \in Buffers \cup {Null}
    <3>1. Len(m_lIovList') \in Nat /\ \A i \in 1..Len(m_lIovList') : m_lIovList'[i] \in Iov
      BY <1>2
    <3>2. m_lIovList' # <<>> => m_lIovList'[1].buf \in Buffers
      <4>1. m_lIovList' # <<>> => 1 \in 1..Len(m_lIovList')
        BY <1>2, <3>1
      <4> QED
        BY <3>1, <4>1 DEF Iov
    <3> QED
      BY <1>2, <3>2 DEF BuffersOwned
  <2> QED
    BY <1>1, <1>2, <1>3, <2>1, <2>2 DEF WriteTypes
<1>5. AnsweredSoFar'
  BY <1>3 DEF AnsweredSoFar
<1>6. AnsweredOnce'
  <2>1. /\ Sent' \in Nat /\ Len(queued') = Sent' + Len(m_lIovList')
        /\ \A msg \in 1..Len(queued') : SentWhole(msg)' <=> msg <= Sent'
    BY <1>2, <1>4, SentIff
  <2>2. \A i \in 1..Sent' : answers'[i].msg = i /\ answers'[i].result = TRUE
    BY <1>3
  <2>3. Len(m_lIovList') \in Nat
    BY <1>2
  <2>4. ASSUME NEW i \in 1..Len(answers') PROVE answers'[i].result <=> SentWhole(answers[i].msg)'
    <3>1. answers'[i].msg = i /\ answers'[i].result = TRUE /\ i \in 1..Len(queued') /\ i <= Sent'
      BY <1>3, <2>1, <2>2, <2>3
    <3>2. SentWhole(i)'
      BY <2>1, <3>1
    <3> QED
      BY <3>1, <3>2 DEF SentWhole
  <2>5. \A msg \in 1..Len(queued') :
           SentWhole(msg)' => \E i \in 1..Len(answers') : answers'[i].msg = msg
    <3> SUFFICES ASSUME NEW msg \in 1..Len(queued'), SentWhole(msg)'
                 PROVE  \E i \in 1..Len(answers') : answers'[i].msg = msg
      OBVIOUS
    <3>1. msg \in 1..Sent'
      BY <2>1
    <3> QED
      BY <1>3, <2>2, <3>1
  <2>6. \A i, j \in 1..Len(answers') : answers'[i].msg = answers'[j].msg => i = j
    BY <1>3, <2>2
  <2> QED
    BY <2>4, <2>5, <2>6 DEF AnsweredOnce
<1> QED
  BY <1>1, <1>2, <1>4, <1>5, <1>6 DEF WriteInv

-----------------------------------------------------------------------------
(* The connection. *)

\* The first state is legal: a new agent with an empty BufferManager.
THEOREM InitInv == ASSUME WriteBufferAssumption, ConnectionAssumption, ConnInit PROVE Inv
BY InInit, OutInit DEF ConnInit, Inv

\* Every call of the loop and of the agent's timer keeps what Inv says of both
\* halves of BufferManager.
THEOREM NextInv ==
    ASSUME WriteBufferAssumption, ConnectionAssumption, Inv, [ConnNext]_connVars
    PROVE  Inv'
<1>1. CASE recvData
  BY <1>1, HeaderStep, BodyStep, WriteStays DEF recvData, Inv, In!Read
<1>2. CASE recvDataFails
  BY <1>2, ReadStays, RetiredStep DEF recvDataFails, In!ReadNothing, In!peerVars, In!bufferVars, Inv,
       inVars, peerVars
<1>3. CASE sendData
  BY <1>3, WriteStep, ReadStays DEF sendData, Inv, Write
<1>4. CASE sendDataFails
  BY <1>4, ErrorStep, ReadStays DEF sendDataFails, Inv
<1>5. CASE package
  BY <1>5, QueueStep, ReadStays DEF package, Inv
<1>6. CASE Deletion
  BY <1>6, DestroyStep, ReadStays DEF Deletion, Inv
<1>7. CASE Peer
  BY <1>7, SendStep, EndStep, WriteStays DEF Peer, Inv
<1>8. CASE UNCHANGED connVars
  BY <1>8, ReadStays, WriteStays DEF connVars, Inv
<1> QED
  BY <1>1, <1>2, <1>3, <1>4, <1>5, <1>6, <1>7, <1>8 DEF ConnNext

\* Inv holds throughout: whatever the pieces of the stream, the writes and the
\* errors, between two calls both halves of BufferManager are as Inv says.
THEOREM InvHolds ==
    ASSUME WriteBufferAssumption, ConnectionAssumption PROVE ConnSpec => []Inv
<1>1. ConnInit => Inv
  BY InitInv
<1>2. Inv /\ [ConnNext]_connVars => Inv'
  BY NextInv
<1> QED
  BY <1>1, <1>2, PTL DEF ConnSpec

\* The agent is given the messages that the peer sent, in order, each whole and
\* once, however the stream was cut (BufferManager.cpp:228-309).
THEOREM Delivery ==
    ASSUME WriteBufferAssumption, ConnectionAssumption
    PROVE  ConnSpec => []DeliveredAsSent
<1>1. Inv => DeliveredAsSent
  BY DEF Inv, ReadInv
<1> QED
  BY <1>1, InvHolds, PTL

\* BufferManager::read never asks readSocket for 0 bytes, whose result it would
\* take for the end of the stream (BufferManager.cpp:230, 254, 273, 281).
THEOREM NeverAsksNothing ==
    ASSUME WriteBufferAssumption, ConnectionAssumption
    PROVE  ConnSpec => [](In!Asked > 0)
<1>1. Inv => In!Asked > 0
  <2> SUFFICES ASSUME ReadInv PROVE In!Asked > 0
    BY DEF Inv
  <2>1. HeaderSize \in Nat /\ m_iOffset \in Nat /\ m_bReadHead \in BOOLEAN
    BY DEF ReadInv, ConnectionAssumption, In!FramerAssumption
  <2>2. CASE m_bReadHead
    BY <2>1, <2>2 DEF ReadInv, InHeader, In!Asked
  <2>3. CASE ~m_bReadHead
    <3>1. m_iLen = lengths[Current] /\ m_iOffset < m_iLen /\ m_iLen \in Nat
      <4>1. InBody /\ Current \in 1..Len(lengths) /\ lengths \in Seq(Nat)
        BY <2>3 DEF ReadInv, InBody, Follows
      <4>2. lengths[Current] \in Nat
        BY <4>1
      <4> QED
        BY <4>1, <4>2 DEF InBody
    <3> QED
      BY <2>1, <2>3, <3>1 DEF In!Asked
  <2> QED
    BY <2>1, <2>2, <2>3
<1> QED
  BY <1>1, InvHolds, PTL

\* Every allocated output buffer has one owner, so that none leaks and none is
\* deleted twice (BufferManager.cpp:170-205, 390-403, 416-429).
THEOREM Ownership ==
    ASSUME WriteBufferAssumption, ConnectionAssumption PROVE ConnSpec => []BuffersOwned
<1>1. Inv => BuffersOwned
  BY DEF Inv, WriteInv
<1> QED
  BY <1>1, InvHolds, PTL

\* The socket is given the bytes of the buffers in order, none missing and none
\* twice, wherever writev stopped (BufferManager.cpp:128-213).
THEOREM Stream ==
    ASSUME WriteBufferAssumption, ConnectionAssumption PROVE ConnSpec => []StreamInOrder
<1>1. Inv => StreamInOrder
  BY DEF Inv, WriteInv
<1> QED
  BY <1>1, InvHolds, PTL

\* writeBack is called once for a buffer, with true exactly when all of it went
\* out (BufferManager.cpp:170-225).
THEOREM Answers ==
    ASSUME WriteBufferAssumption, ConnectionAssumption PROVE ConnSpec => []AnsweredOnce
<1>1. Inv => AnsweredOnce
  BY DEF Inv, WriteInv
<1> QED
  BY <1>1, InvHolds, PTL

\* A connection that is gone leaves no output buffer behind, and no body but the
\* one it was in the middle of (BufferManager.cpp:247, 300, 408-433).
THEOREM Leftovers ==
    ASSUME WriteBufferAssumption, ConnectionAssumption PROVE ConnSpec => []LeavesOnlyBody
<1>1. Inv => LeavesOnlyBody
  <2> SUFFICES ASSUME Inv, phase = "destroyed"
               PROVE  /\ heap = {} /\ bodies \in {0, 1}
                      /\ bodies = 1 =>
                            /\ Len(delivered) < Len(lengths)
                            /\ m_msgHeader = In!Header(Len(delivered) + 1)
                            /\ Len(ioBuf) < lengths[Len(delivered) + 1]
    BY DEF LeavesOnlyBody
  <2>1. heap = {}
    <3>1. m_lIovList = <<>> /\ Whole = {} /\ BuffersOwned
      BY DEF Inv, WriteInv, Whole
    <3> QED
      BY <3>1 DEF BuffersOwned
  <2>2. /\ m_bReadHead \in BOOLEAN /\ m_iOffset \in Nat /\ HeaderSize \in Nat
        /\ Len(delivered) \in Nat /\ Len(lengths) \in Nat
    BY DEF Inv, ReadInv, Follows, ConnectionAssumption, In!FramerAssumption
  <2>3. CASE m_bReadHead
    BY <2>1, <2>3 DEF Inv, ReadInv, InHeader
  <2>4. CASE ~m_bReadHead
    <3>1. InBody
      BY <2>4 DEF Inv, ReadInv
    <3>2. Current <= Len(lengths) /\ Current = Len(delivered) + 1 /\ Current \in Nat
      BY <2>2, <3>1 DEF InBody, Current
    <3>3. Len(ioBuf) = m_iOffset
      <4>1. LET last == HeaderSize + m_iOffset
                first == HeaderSize + 1
            IN  last \in Nat /\ first \in Nat /\ first <= last + 1 /\ last - first + 1 = m_iOffset
        BY <2>2
      <4> QED
        BY <3>1, <3>2, <4>1, BytesAre DEF InBody
    <3>4. m_iOffset < lengths[Current]
      BY <3>1 DEF InBody
    <3> QED
      BY <2>1, <2>2, <3>1, <3>2, <3>3, <3>4 DEF InBody
  <2> QED
    BY <2>2, <2>3, <2>4
<1> QED
  BY <1>1, InvHolds, PTL
=============================================================================
