------------------------ MODULE FrameAlignmentProofs ------------------------
(***************************************************************************)
(* The receive loop of video_receive.py reassembles the frames correctly  *)
(* whatever the recv chunking: FramesAligned holds in every reachable     *)
(* state, for every number of frames, frame sizes, prefix length and recv *)
(* size.  The argument: `data \o net` is kept in strict stream order with  *)
(* exactly the unconsumed bytes as its elements; so its first bytes are   *)
(* those of the oldest frame not yet unpickled (lemma FirstBytes, a       *)
(* pigeonhole argument), which makes the size prefix decode to the frame's *)
(* size and the body unpickle to that frame.                               *)
(***************************************************************************)
EXTENDS FrameReceiverProofs, FiniteSetTheorems

USE ReceiverAssumption DEF ReceiverAssumption

\* A sequence of stream bytes in strict stream order.
Sorted(s) == \A i, j \in 1 .. Len(s) : i < j => Precedes(s[i], s[j])

\* Membership in Owed, position by position.
OwedByte(y, lo, skip, hi) ==
    /\ y = [f |-> y.f, k |-> y.k]
    /\ y.f \in lo .. hi
    /\ y.k \in (IF y.f = lo THEN skip + 1 ELSE 1) .. FrameEnd(y.f)

-----------------------------------------------------------------------------
(* Lemmas on intervals, orders and sequences.                              *)

LEMMA IntervalCard ==
    ASSUME NEW a \in Int, NEW b \in Int, a <= b + 1
    PROVE  IsFiniteSet(a .. b) /\ Cardinality(a .. b) = b - a + 1
BY FS_Interval

\* No function from 1..a into a smaller interval 1..b is one-to-one.
LEMMA Pigeonhole ==
    ASSUME NEW a \in Nat, NEW b \in Nat, b < a, NEW h \in [1 .. a -> 1 .. b]
    PROVE  \E x, y \in 1 .. a : x # y /\ h[x] = h[y]
<1>1. IsFiniteSet(1 .. a) /\ Cardinality(1 .. a) = a - 1 + 1
    <2>1. 1 \in Int /\ a \in Int /\ 1 <= a + 1
        OBVIOUS
    <2>2. QED
        BY <2>1, IntervalCard, Zenon
<1>2. IsFiniteSet(1 .. b) /\ Cardinality(1 .. b) = b - 1 + 1
    <2>1. 1 \in Int /\ b \in Int /\ 1 <= b + 1
        OBVIOUS
    <2>2. QED
        BY <2>1, IntervalCard, Zenon
<1>3. Cardinality(1 .. b) < Cardinality(1 .. a)
    BY <1>1, <1>2
<1>4. QED
    <2>1. IsFiniteSet(1 .. a) /\ IsFiniteSet(1 .. b)
          /\ Cardinality(1 .. b) < Cardinality(1 .. a)
        BY <1>1, <1>2, <1>3
    <2>2. QED
        BY <2>1, FS_PigeonHole

LEMMA OwedMember ==
    ASSUME NEW lo \in Int, NEW skip \in Int, NEW hi \in Int, NEW y
    PROVE  y \in Owed(lo, skip, hi) <=> OwedByte(y, lo, skip, hi)
<1>1. ASSUME y \in Owed(lo, skip, hi) PROVE OwedByte(y, lo, skip, hi)
    <2>1. PICK g \in lo .. hi :
              y \in {[f |-> g, k |-> p] : p \in (IF g = lo THEN skip + 1 ELSE 1) .. FrameEnd(g)}
        BY <1>1 DEF Owed
    <2>2. PICK p \in (IF g = lo THEN skip + 1 ELSE 1) .. FrameEnd(g) : y = [f |-> g, k |-> p]
        BY <2>1
    <2>3. QED
        BY <2>2 DEF OwedByte
<1>2. ASSUME OwedByte(y, lo, skip, hi) PROVE y \in Owed(lo, skip, hi)
    BY <1>2 DEF OwedByte, Owed
<1>3. QED
    BY <1>1, <1>2

LEMMA ByteFields ==
    ASSUME NEW z \in Byte
    PROVE  z.f \in Frames /\ z.k \in Nat \ {0} /\ z = [f |-> z.f, k |-> z.k]
BY Zenon DEF Byte

\* Stream order is a strict order on stream bytes.
LEMMA PrecedesStrict ==
    ASSUME NEW x \in Byte, NEW y \in Byte
    PROVE  /\ ~Precedes(x, x)
           /\ Precedes(x, y) => ~Precedes(y, x)
           /\ ~Precedes(x, y) /\ ~Precedes(y, x) => x = y
<1>1. x.f \in Int /\ x.k \in Int /\ y.f \in Int /\ y.k \in Int
    BY DEF Byte, Frames
<1>2. ~Precedes(x, y) /\ ~Precedes(y, x) => x.f = y.f /\ x.k = y.k
    BY <1>1 DEF Precedes
<1>3. x = [f |-> x.f, k |-> x.k] /\ y = [f |-> y.f, k |-> y.k]
    BY DEF Byte
<1>4. QED
    BY <1>1, <1>2, <1>3 DEF Precedes

\* In a sequence in stream order, an earlier byte sits at an earlier index,
\* and no byte occurs twice.
LEMMA SortedIndex ==
    ASSUME NEW s \in Seq(Byte), Sorted(s), NEW i \in 1 .. Len(s), NEW j \in 1 .. Len(s)
    PROVE  /\ Precedes(s[i], s[j]) => i < j
           /\ s[i] = s[j] => i = j
<1>1. s[i] \in Byte /\ s[j] \in Byte
    OBVIOUS
<1>2. i > j => Precedes(s[j], s[i])
    BY DEF Sorted
<1>3. i < j => Precedes(s[i], s[j])
    BY DEF Sorted
<1>4. QED
    BY <1>1, <1>2, <1>3, PrecedesStrict

\* Every byte owed is somewhere in the sequence, and every byte of the
\* sequence is owed.
LEMMA ToSetMember ==
    ASSUME NEW s \in Seq(Byte), NEW y
    PROVE  y \in ToSet(s) <=> \E i \in 1 .. Len(s) : s[i] = y
BY DEF ToSet

(* The key lemma: in a sequence in stream order whose elements are exactly  *)
(* the bytes owed, the j-th element is the j-th owed byte of the oldest     *)
(* frame, as long as that frame has a j-th owed byte.                       *)
LEMMA FirstBytes ==
    ASSUME NEW s \in Seq(Byte), Sorted(s),
           NEW n \in Nat, NEW hi \in Int, n + 1 <= hi, hi <= NumFrames,
           NEW skip \in Nat, ToSet(s) = Owed(n + 1, skip, hi),
           NEW j \in 1 .. Len(s), skip + j <= FrameEnd(n + 1)
    PROVE  s[j] = [f |-> n + 1, k |-> skip + j]
<1> DEFINE x == s[j]
           y == [f |-> n + 1, k |-> skip + j]
           Ow(z) == OwedByte(z, n + 1, skip, hi)
<1>0. n + 1 \in Frames /\ FrameEnd(n + 1) \in Nat
    BY DEF Frames, FrameEnd
<1>1. \A z : z \in ToSet(s) <=> Ow(z)
    BY OwedMember
<1>2. x \in Byte /\ Ow(x)
    BY <1>1, ToSetMember
<1>3. Ow(y)
    BY <1>0 DEF OwedByte
<1>4. y \in Byte
    BY <1>0 DEF Byte
<1>5. \A z : Ow(z) => \E i \in 1 .. Len(s) : s[i] = z
    BY <1>1, ToSetMember
<1>6. CASE Precedes(y, x)
    \* Then the j bytes skip+1 .. skip+j of frame n+1 all sit before index j.
    <2> DEFINE byteAt(q) == [f |-> n + 1, k |-> skip + q]
               idx == [q \in 1 .. j |-> CHOOSE i \in 1 .. Len(s) : s[i] = byteAt(q)]
    <2>1. \A q \in 1 .. j : Ow(byteAt(q))
        BY <1>0 DEF OwedByte
    <2>2. \A q \in 1 .. j : idx[q] \in 1 .. Len(s) /\ s[idx[q]] = byteAt(q)
        BY <2>1, <1>5
    <2>3. \A q \in 1 .. j : Precedes(byteAt(q), x)
        <3>1. x.f \in Int /\ x.k \in Int
            BY <1>2, ByteFields DEF Frames
        <3>2. x.f > n + 1 \/ (x.f = n + 1 /\ x.k > skip + j)
            BY <1>6, <3>1 DEF Precedes
        <3> TAKE q \in 1 .. j
        <3>3. byteAt(q).f = n + 1 /\ byteAt(q).k = skip + q
            OBVIOUS
        <3>4. QED
            BY <3>1, <3>2, <3>3 DEF Precedes
    <2>4. \A q \in 1 .. j : idx[q] \in 1 .. j - 1
        <3> TAKE q \in 1 .. j
        <3>1. Precedes(s[idx[q]], s[j]) /\ idx[q] \in 1 .. Len(s)
            BY <2>2, <2>3
        <3>2. idx[q] < j
            BY <3>1, SortedIndex
        <3>3. QED
            BY <3>1, <3>2
    <2>5. idx \in [1 .. j -> 1 .. j - 1]
        BY <2>4
    <2>6. \E a, b \in 1 .. j : a # b /\ idx[a] = idx[b]
        <3>1. j \in Nat /\ j - 1 \in Nat /\ j - 1 < j
            OBVIOUS
        <3> HIDE DEF idx
        <3>2. QED
            BY <2>5, <3>1, Pigeonhole
    <2>7. \A a, b \in 1 .. j : idx[a] = idx[b] => a = b
        <3> TAKE a, b \in 1 .. j
        <3>1. idx[a] = idx[b] => byteAt(a) = byteAt(b)
            BY <2>2
        <3> HIDE DEF idx
        <3>2. byteAt(a) = byteAt(b) => a = b
            OBVIOUS
        <3>3. QED
            BY <3>1, <3>2
    <2>8. QED
        BY <2>6, <2>7
<1>7. CASE Precedes(x, y)
    \* Then every byte before index j lies strictly between the first owed
    \* byte of frame n+1 and x, and there are fewer such bytes than j-1.
    <2>1. x.f = n + 1 /\ x.k \in skip + 1 .. skip + j - 1 /\ x = [f |-> n + 1, k |-> x.k]
        BY <1>2, <1>7 DEF OwedByte, Precedes
    <2> DEFINE pos == [i \in 1 .. j - 1 |-> s[i].k - skip]
               m == x.k - skip - 1
    <2>2. \A i \in 1 .. j - 1 : Precedes(s[i], x) /\ Ow(s[i]) /\ s[i] \in Byte
        BY <1>1, ToSetMember DEF Sorted
    <2>3. \A i \in 1 .. j - 1 : s[i] = [f |-> n + 1, k |-> s[i].k] /\ s[i].k \in skip + 1 .. x.k - 1
        <3> TAKE i \in 1 .. j - 1
        <3>1. s[i] \in Byte /\ Ow(s[i]) /\ Precedes(s[i], x)
            BY <2>2
        <3>2. s[i].f \in Int /\ s[i].k \in Int /\ s[i] = [f |-> s[i].f, k |-> s[i].k]
            <4>1. s[i].f \in Frames /\ s[i].k \in Nat \ {0} /\ s[i] = [f |-> s[i].f, k |-> s[i].k]
                BY <3>1, ByteFields
            <4>2. QED
                BY <4>1 DEF Frames
        <3>3. s[i].f >= n + 1
            BY <3>1 DEF OwedByte
        <3>4. s[i].f = n + 1 /\ s[i].k < x.k
            BY <2>1, <3>1, <3>2, <3>3 DEF Precedes
        <3>5. s[i].k >= skip + 1
            BY <3>1, <3>4 DEF OwedByte
        <3>6. QED
            BY <3>2, <3>4, <3>5, <2>1
    <2>4. pos \in [1 .. j - 1 -> 1 .. m]
        <3>1. x.k \in Int
            BY <1>2, ByteFields
        <3>2. \A i \in 1 .. j - 1 : s[i].k \in skip + 1 .. x.k - 1
            BY <2>3
        <3>3. \A i \in 1 .. j - 1 : pos[i] \in 1 .. m
            <4> TAKE i \in 1 .. j - 1
            <4>1. s[i].k \in skip + 1 .. x.k - 1 /\ pos[i] = s[i].k - skip
                BY <3>2
            <4> HIDE DEF pos
            <4>2. s[i].k \in Int /\ skip \in Int
                BY <4>1
            <4>3. s[i].k - skip \in 1 .. m
                BY <3>1, <4>1, <4>2, SMTT(30)
            <4>4. QED
                BY <4>1, <4>3
        <3>4. QED
            BY <3>3
    <2>5. m \in Nat /\ j - 1 \in Nat /\ m < j - 1
        <3>1. x.k \in Int
            BY <1>2, ByteFields
        <3>2. QED
            BY <2>1, <3>1
    <2>6. \E a, b \in 1 .. j - 1 : a # b /\ pos[a] = pos[b]
        <3> HIDE DEF pos, m
        <3>1. QED
            BY <2>4, <2>5, Pigeonhole
    <2>7. \A a, b \in 1 .. j - 1 : pos[a] = pos[b] => s[a] = s[b]
        <3> TAKE a, b \in 1 .. j - 1
        <3>1. s[a].k \in Int /\ s[b].k \in Int
            <4>1. s[a] \in Byte /\ s[b] \in Byte
                BY <2>2
            <4>2. s[a].k \in Nat \ {0} /\ s[b].k \in Nat \ {0}
                BY <4>1, ByteFields
            <4>3. QED
                BY <4>2
        <3>2. pos[a] = pos[b] => s[a].k = s[b].k
            BY <3>1
        <3>3. QED
            BY <2>3, <3>2
    <2>8. \A a, b \in 1 .. j - 1 : s[a] = s[b] => a = b
        BY SortedIndex
    <2>9. QED
        BY <2>6, <2>7, <2>8
<1>8. QED
    BY <1>2, <1>4, <1>6, <1>7, PrecedesStrict

-----------------------------------------------------------------------------
(* What the actions do to `data \o net`.                                   *)

LEMMA ConcatAssocBytes ==
    ASSUME NEW s \in Seq(Byte), NEW t \in Seq(Byte), NEW u \in Seq(Byte)
    PROVE  (s \o t) \o u = s \o (t \o u)
BY ConcatAssociative

\* A frame as the peer writes it (sendall of the size prefix and the
\* pickle): position p of frame g is byte [g, p].
LEMMA FrameBytes ==
    ASSUME NEW g \in Frames
    PROVE  /\ Hdr(g) \o Body(g) \in Seq(Byte)
           /\ Len(Hdr(g) \o Body(g)) = FrameEnd(g)
           /\ \A p \in 1 .. FrameEnd(g) : (Hdr(g) \o Body(g))[p] = [f |-> g, k |-> p]
<1>1. Hdr(g) \in Seq(Byte) /\ Body(g) \in Seq(Byte)
    BY FramePartsAreBytes
<1>2. Len(Hdr(g)) = HdrLen /\ Len(Body(g)) = FrameSize[g] /\ FrameSize[g] \in Nat
    BY DEF Hdr, Body
<1>3. /\ Hdr(g) \o Body(g) \in Seq(Byte)
      /\ Len(Hdr(g) \o Body(g)) = Len(Hdr(g)) + Len(Body(g))
      /\ \A p \in 1 .. Len(Hdr(g)) + Len(Body(g)) :
            (Hdr(g) \o Body(g))[p] = IF p <= Len(Hdr(g)) THEN Hdr(g)[p]
                                     ELSE Body(g)[p - Len(Hdr(g))]
    BY <1>1, ConcatProperties
<1>4. \A p \in 1 .. FrameEnd(g) :
         (IF p <= HdrLen THEN Hdr(g)[p] ELSE Body(g)[p - HdrLen]) = [f |-> g, k |-> p]
    BY <1>2 DEF Hdr, Body, FrameEnd
<1>5. QED
    BY <1>2, <1>3, <1>4 DEF FrameEnd

\* PeerSend: the new frame goes after everything buffered and in flight.
LEMMA AppendFrame ==
    ASSUME NEW d \in Seq(Byte), NEW t \in Seq(Byte), NEW g \in Frames
    PROVE  LET b  == d \o t
               b2 == d \o (t \o Hdr(g) \o Body(g))
           IN  /\ b2 \in Seq(Byte)
               /\ Len(b2) = Len(b) + FrameEnd(g)
               /\ \A i \in 1 .. Len(b2) :
                     b2[i] = IF i <= Len(b) THEN b[i] ELSE [f |-> g, k |-> i - Len(b)]
<1>1. Hdr(g) \in Seq(Byte) /\ Body(g) \in Seq(Byte)
    BY FramePartsAreBytes
<1> DEFINE h == Hdr(g)  y == Body(g)  fr == h \o y
<1>2. fr \in Seq(Byte) /\ Len(fr) = FrameEnd(g)
      /\ \A p \in 1 .. FrameEnd(g) : fr[p] = [f |-> g, k |-> p]
    BY FrameBytes
<1> HIDE DEF h, y
<1>3. (t \o h) \o y = t \o fr
    BY <1>1, ConcatAssocBytes
<1> HIDE DEF fr
<1>4. d \o (t \o fr) = (d \o t) \o fr
    BY <1>2, ConcatAssocBytes
<1>5. d \o t \in Seq(Byte) /\ Len(d \o t) = Len(d) + Len(t)
    BY ConcatProperties
<1>6. /\ (d \o t) \o fr \in Seq(Byte)
      /\ Len((d \o t) \o fr) = Len(d \o t) + Len(fr)
      /\ \A i \in 1 .. Len(d \o t) + Len(fr) :
            ((d \o t) \o fr)[i] = IF i <= Len(d \o t) THEN (d \o t)[i]
                                  ELSE fr[i - Len(d \o t)]
    BY <1>2, <1>5, ConcatProperties
<1>7. FrameEnd(g) \in Nat
    BY DEF FrameEnd
<1>8. d \o (t \o Hdr(g) \o Body(g)) = (d \o t) \o fr
    BY <1>3, <1>4 DEF h, y
<1> HIDE DEF FrameEnd
<1>9. \A i \in 1 .. Len(d \o t) + FrameEnd(g) :
         ((d \o t) \o fr)[i] = IF i <= Len(d \o t) THEN (d \o t)[i]
                               ELSE [f |-> g, k |-> i - Len(d \o t)]
    <2> TAKE i \in 1 .. Len(d \o t) + FrameEnd(g)
    <2>1. CASE i <= Len(d \o t)
        BY <2>1, <1>2, <1>5, <1>6, <1>7
    <2>2. CASE ~(i <= Len(d \o t))
        <3>1. i - Len(d \o t) \in 1 .. FrameEnd(g)
            BY <2>2, <1>5, <1>7
        <3>2. ((d \o t) \o fr)[i] = fr[i - Len(d \o t)]
            BY <2>2, <1>2, <1>5, <1>6, <1>7
        <3>3. QED
            BY <2>2, <3>1, <3>2, <1>2
    <2>3. QED
        BY <2>1, <2>2
<1>10. QED
    BY <1>2, <1>6, <1>8, <1>9

\* Recv: the chunk moves from the socket to the end of the buffer.
LEMMA RecvKeepsStream ==
    ASSUME NEW d \in Seq(Byte), NEW t \in Seq(Byte), NEW n \in 1 .. Len(t)
    PROVE  (d \o SubSeq(t, 1, n)) \o SubSeq(t, n + 1, Len(t)) = d \o t
<1>1. SubSeq(t, 1, n) \in Seq(Byte) /\ SubSeq(t, n + 1, Len(t)) \in Seq(Byte)
    BY SubSeqBytes
<1>2. SubSeq(t, 1, n) \o SubSeq(t, n + 1, Len(t)) = SubSeq(t, 1, Len(t))
    BY ConcatAdjacentSubSeq
<1>3. SubSeq(t, 1, Len(t)) = t
    BY SubSeqFull
<1> DEFINE u == SubSeq(t, 1, n)  v == SubSeq(t, n + 1, Len(t))
<1> HIDE DEF u, v
<1>4. u \in Seq(Byte) /\ v \in Seq(Byte)
    BY <1>1 DEF u, v
<1>5. (d \o u) \o v = d \o (u \o v)
    BY <1>4, ConcatAssocBytes
<1>6. QED
    BY <1>2, <1>3, <1>5 DEF u, v

\* Lines 30-31 and 36-37: cutting m bytes off the front of the buffer cuts
\* them off the front of the stream.
LEMMA DropFront ==
    ASSUME NEW d \in Seq(Byte), NEW t \in Seq(Byte), NEW m \in 0 .. Len(d)
    PROVE  LET b  == d \o t
               b2 == SubSeq(d, m + 1, Len(d)) \o t
           IN  /\ b2 \in Seq(Byte)
               /\ Len(b2) = Len(b) - m
               /\ \A i \in 1 .. Len(b2) : b2[i] = b[i + m]
<1> DEFINE r == SubSeq(d, m + 1, Len(d))
<1>1. r \in Seq(Byte)
    BY SubSeqBytes
<1>2. Len(r) = Len(d) - m /\ \A i \in 1 .. Len(r) : r[i] = d[m + i]
    BY <1>1, SubSeqProperties
<1> HIDE DEF r
<1>3. /\ r \o t \in Seq(Byte) /\ Len(r \o t) = Len(r) + Len(t)
      /\ \A i \in 1 .. Len(r) + Len(t) :
            (r \o t)[i] = IF i <= Len(r) THEN r[i] ELSE t[i - Len(r)]
    BY <1>1, ConcatProperties
<1>4. /\ d \o t \in Seq(Byte) /\ Len(d \o t) = Len(d) + Len(t)
      /\ \A i \in 1 .. Len(d) + Len(t) :
            (d \o t)[i] = IF i <= Len(d) THEN d[i] ELSE t[i - Len(d)]
    BY ConcatProperties
<1>5. Len(r \o t) = Len(d \o t) - m
    BY <1>2, <1>3, <1>4
<1>6. ASSUME NEW i \in 1 .. Len(r \o t) PROVE (r \o t)[i] = (d \o t)[i + m]
    <2>1. i + m \in 1 .. Len(d) + Len(t)
        BY <1>2, <1>3, <1>4
    <2>2. CASE i <= Len(r)
        BY <2>1, <2>2, <1>2, <1>3, <1>4
    <2>3. CASE ~(i <= Len(r))
        BY <2>1, <2>3, <1>2, <1>3, <1>4
    <2>4. QED
        BY <2>2, <2>3
<1>7. QED
    BY <1>3, <1>5, <1>6 DEF r

\* Cutting the first m bytes off a sequence in stream order leaves it in
\* stream order, with exactly the other bytes as its elements (no byte
\* occurs twice, so none of those cut is left).
LEMMA SortedShift ==
    ASSUME NEW b \in Seq(Byte), Sorted(b), NEW b2 \in Seq(Byte), NEW m \in Nat,
           Len(b2) = Len(b) - m, \A i \in 1 .. Len(b2) : b2[i] = b[i + m]
    PROVE  /\ Sorted(b2)
           /\ \A y : y \in ToSet(b2) <=> y \in ToSet(b) /\ \A i \in 1 .. m : y # b[i]
<1>1. Sorted(b2)
    <2> SUFFICES ASSUME NEW i \in 1 .. Len(b2), NEW j \in 1 .. Len(b2), i < j
                 PROVE  Precedes(b2[i], b2[j])
        BY DEF Sorted
    <2>1. i + m \in 1 .. Len(b) /\ j + m \in 1 .. Len(b) /\ i + m < j + m
        OBVIOUS
    <2>2. Precedes(b[i + m], b[j + m])
        BY <2>1 DEF Sorted
    <2>3. QED
        BY <2>2
<1>2. ASSUME NEW y, y \in ToSet(b2) PROVE y \in ToSet(b) /\ \A i \in 1 .. m : y # b[i]
    <2>1. PICK i \in 1 .. Len(b2) : b2[i] = y
        BY <1>2, ToSetMember
    <2>2. i + m \in 1 .. Len(b) /\ b[i + m] = y
        <3>1. Len(b) \in Nat /\ Len(b2) \in Nat
            OBVIOUS
        <3>2. i + m \in 1 .. Len(b)
            BY <3>1
        <3>3. b2[i] = b[i + m]
            OBVIOUS
        <3>4. QED
            BY <2>1, <3>2, <3>3
    <2>3. ASSUME NEW i2 \in 1 .. m, y = b[i2] PROVE FALSE
        <3>1. i2 \in 1 .. Len(b)
            BY <2>1
        <3>2. i2 = i + m
            BY <2>2, <2>3, <3>1, SortedIndex
        <3>3. QED
            BY <3>2
    <2>4. QED
        BY <2>2, <2>3, ToSetMember
<1>3. ASSUME NEW y, y \in ToSet(b), \A i \in 1 .. m : y # b[i] PROVE y \in ToSet(b2)
    <2>1. PICK i \in 1 .. Len(b) : b[i] = y
        BY <1>3, ToSetMember
    <2>2. i - m \in 1 .. Len(b2) /\ b2[i - m] = y
        BY <1>3, <2>1
    <2>3. QED
        BY <2>2, ToSetMember
<1>4. QED
    BY <1>1, <1>2, <1>3

\* A nonempty buffer is owed bytes of some frame lo..hi, so lo <= hi.
LEMMA OwedNonEmpty ==
    ASSUME NEW b \in Seq(Byte), Len(b) > 0, NEW lo \in Int, NEW skip \in Int, NEW hi \in Int,
           ToSet(b) = Owed(lo, skip, hi)
    PROVE  lo <= hi
<1>1. b[1] \in Owed(lo, skip, hi)
    BY ToSetMember
<1>2. b[1].f \in lo .. hi
    BY <1>1, OwedMember DEF OwedByte
<1>3. QED
    BY <1>2

\* handled is a set of frames, so its size is a natural number.
LEMMA HandledCard ==
    ASSUME NEW h \in SUBSET Frames
    PROVE  IsFiniteSet(h) /\ Cardinality(h) \in Nat
<1>1. IsFiniteSet(Frames)
    BY FS_Interval DEF Frames
<1>2. IsFiniteSet(h)
    BY <1>1, FS_Subset
<1>3. QED
    BY <1>2, FS_CardinalityType

-----------------------------------------------------------------------------
(* FramesAligned is kept by every step.                                    *)

\* Before the peer sends anything nothing is owed.
LEMMA InitAligned == Init => FramesAligned
<1> SUFFICES ASSUME Init PROVE FramesAligned
    OBVIOUS
<1>1. Cardinality(handled) = 0
    BY FS_EmptySet DEF Init
<1>2. data \o net = << >>
    BY DEF Init
<1>3. ToSet(<< >>) = {} /\ Owed(1, 0, 0) = {}
    BY DEF ToSet, Owed
<1>4. handled = 1 .. 0 /\ 0 <= sent /\ rpc # "body" /\ Len(data \o net) = 0
    BY <1>2 DEF Init
<1>5. ToSet(data \o net) = Owed(Cardinality(handled) + 1, IF rpc = "body" THEN HdrLen ELSE 0, sent)
    <2>1. Owed(Cardinality(handled) + 1, IF rpc = "body" THEN HdrLen ELSE 0, sent) = Owed(1, 0, 0)
        BY <1>1 DEF Init
    <2>2. QED
        BY <1>2, <1>3, <2>1
<1>6. \A i, j \in 1 .. Len(data \o net) : i < j => Precedes((data \o net)[i], (data \o net)[j])
    BY <1>4
<1>7. QED
    BY <1>1, <1>4, <1>5, <1>6 DEF FramesAligned

\* What FramesAligned says, with the buffer's order written as Sorted.
LEMMA AlignedFacts ==
    ASSUME TypeOK, FramesAligned, ~reset
    PROVE  LET n    == Cardinality(handled)
               b    == data \o net
               skip == IF rpc = "body" THEN HdrLen ELSE 0
           IN  /\ n \in Nat /\ handled = 1 .. n /\ n <= sent
               /\ rpc = "body" => n < sent /\ msgSize = FrameSize[n + 1]
               /\ b \in Seq(Byte) /\ Sorted(b)
               /\ ToSet(b) = Owed(n + 1, skip, sent)
<1>1. Cardinality(handled) \in Nat
    BY HandledCard DEF TypeOK
<1>2. data \o net \in Seq(Byte)
    BY ConcatProperties DEF TypeOK
<1>3. QED
    BY <1>1, <1>2 DEF FramesAligned, Sorted

\* FramesAligned after a step, from its parts.
LEMMA AlignedAfter ==
    ASSUME NEW m \in Nat, Cardinality(handled') = m, handled' = 1 .. m, m <= sent',
           rpc' = "body" => m < sent' /\ msgSize' = FrameSize[m + 1],
           ToSet(data' \o net') = Owed(m + 1, IF rpc' = "body" THEN HdrLen ELSE 0, sent'),
           Sorted(data' \o net')
    PROVE  FramesAligned'
BY DEF FramesAligned, Sorted

\* The peer's sendall (video_send side): the new frame's bytes come after
\* every byte owed, all of which belong to earlier frames.
LEMMA PeerSendAligned ==
    ASSUME TypeOK, FramesAligned, PeerSend
    PROVE  FramesAligned'
<1> DEFINE n    == Cardinality(handled)
           skip == IF rpc = "body" THEN HdrLen ELSE 0
           g    == sent + 1
           b    == data \o net
           b2   == data \o (net \o Hdr(g) \o Body(g))
           New  == {[f |-> g, k |-> p] : p \in 1 .. FrameEnd(g)}
<1>1. /\ n \in Nat /\ handled = 1 .. n /\ n <= sent
      /\ rpc = "body" => n < sent /\ msgSize = FrameSize[n + 1]
      /\ b \in Seq(Byte) /\ Sorted(b) /\ ToSet(b) = Owed(n + 1, skip, sent)
    BY AlignedFacts DEF PeerSend
<1>2. g \in Frames /\ sent \in Nat /\ FrameEnd(g) \in Nat /\ skip \in Nat
    BY DEF PeerSend, TypeOK, Frames, FrameEnd
<1> HIDE DEF n, skip, g, b
<1>3. /\ b2 \in Seq(Byte)
      /\ Len(b2) = Len(b) + FrameEnd(g)
      /\ \A i \in 1 .. Len(b2) : b2[i] = IF i <= Len(b) THEN b[i] ELSE [f |-> g, k |-> i - Len(b)]
    BY <1>2, AppendFrame DEF TypeOK, b, b2
<1>4. \A i \in 1 .. Len(b) : b[i] \in Byte /\ b[i].f \in 0 .. sent /\ b[i].k \in Int
    <2> TAKE i \in 1 .. Len(b)
    <2>1. b[i] \in Byte /\ b[i] \in Owed(n + 1, skip, sent)
        BY <1>1, ToSetMember
    <2>2. b[i].f \in n + 1 .. sent
        <3>1. b[i] \in Owed(n + 1, skip, sent) <=> OwedByte(b[i], n + 1, skip, sent)
            <4>1. n + 1 \in Int /\ skip \in Int /\ sent \in Int
                BY <1>1, <1>2
            <4>2. QED
                BY <4>1, OwedMember
        <3>2. QED
            BY <2>1, <3>1 DEF OwedByte
    <2>3. QED
        BY <2>1, <2>2, <1>1, ByteFields DEF Frames
<1> HIDE DEF b2
<1>5. Sorted(b2)
    <2> SUFFICES ASSUME NEW i \in 1 .. Len(b2), NEW j \in 1 .. Len(b2), i < j
                 PROVE  Precedes(b2[i], b2[j])
        BY DEF Sorted
    <2>1. CASE j <= Len(b)
        BY <2>1, <1>1, <1>3 DEF Sorted
    <2>2. CASE i <= Len(b) /\ j > Len(b)
        <3>1. b2[i] = b[i] /\ b2[j] = [f |-> g, k |-> j - Len(b)]
            BY <2>2, <1>3
        <3>2. b[i].f < g
            <4>1. i \in 1 .. Len(b)
                BY <2>2, <1>1, <1>3
            <4>2. b[i].f \in 0 .. sent
                BY <4>1, <1>4
            <4>3. QED
                BY <4>2, <1>2 DEF g
        <3>3. QED
            BY <3>1, <3>2 DEF Precedes
    <2>3. CASE i > Len(b)
        <3>1. b2[i] = [f |-> g, k |-> i - Len(b)] /\ b2[j] = [f |-> g, k |-> j - Len(b)]
            BY <2>3, <1>3
        <3>2. QED
            BY <3>1 DEF Precedes
    <2>4. QED
        BY <2>1, <2>2, <2>3
<1>6. \A y : y \in ToSet(b2) <=> y \in ToSet(b) \/ y \in New
    <2> TAKE y
    <2>1. ASSUME y \in ToSet(b2) PROVE y \in ToSet(b) \/ y \in New
        <3>1. PICK i \in 1 .. Len(b2) : b2[i] = y
            BY <2>1, <1>3, ToSetMember
        <3>2. CASE i <= Len(b)
            BY <3>1, <3>2, <1>1, <1>3, ToSetMember
        <3>3. CASE ~(i <= Len(b))
            BY <3>1, <3>3, <1>1, <1>2, <1>3
        <3>4. QED
            BY <3>2, <3>3
    <2>2. ASSUME y \in ToSet(b) PROVE y \in ToSet(b2)
        <3>1. PICK i \in 1 .. Len(b) : b[i] = y
            BY <2>2, <1>1, ToSetMember
        <3>2. i \in 1 .. Len(b2) /\ b2[i] = y
            BY <3>1, <1>1, <1>2, <1>3
        <3>3. QED
            BY <3>2, <1>3, ToSetMember
    <2>3. ASSUME y \in New PROVE y \in ToSet(b2)
        <3>1. PICK p \in 1 .. FrameEnd(g) : y = [f |-> g, k |-> p]
            BY <2>3
        <3>2. p + Len(b) \in 1 .. Len(b2) /\ b2[p + Len(b)] = y
            BY <3>1, <1>1, <1>2, <1>3
        <3>3. QED
            BY <3>2, <1>3, ToSetMember
    <2>4. QED
        BY <2>1, <2>2, <2>3
<1>7. g = n + 1 => skip = 0
    <2>1. CASE rpc = "body"
        <3>1. n < sent
            BY <2>1, <1>1
        <3>2. QED
            BY <3>1, <1>1, <1>2 DEF g
    <2>2. CASE rpc # "body"
        BY <2>2 DEF skip
    <2>3. QED
        BY <2>1, <2>2
<1>8. \A y : y \in Owed(n + 1, skip, g) <=> y \in Owed(n + 1, skip, sent) \/ y \in New
    <2> TAKE y
    <2>1. skip \in Int /\ n + 1 \in Int /\ g \in Int /\ sent \in Int
        BY <1>1, <1>2
    <2>2. y \in Owed(n + 1, skip, g) <=> OwedByte(y, n + 1, skip, g)
        BY <2>1, OwedMember
    <2>3. y \in Owed(n + 1, skip, sent) <=> OwedByte(y, n + 1, skip, sent)
        BY <2>1, OwedMember
    <2>4. OwedByte(y, n + 1, skip, g) <=> OwedByte(y, n + 1, skip, sent) \/ y \in New
        BY <1>1, <1>2, <1>7 DEF OwedByte, g
    <2>5. QED
        BY <2>2, <2>3, <2>4
<1>9. ToSet(b2) = Owed(n + 1, skip, g)
    BY <1>1, <1>6, <1>8
<1>10. b2 = data' \o net' /\ ~reset' /\ sent' = g /\ handled' = handled
       /\ rpc' = rpc /\ msgSize' = msgSize
    BY DEF b2, g, PeerSend
<1>11. Cardinality(handled') = n /\ (IF rpc' = "body" THEN HdrLen ELSE 0) = skip
    BY <1>10 DEF n, skip
<1>12. handled' = 1 .. n /\ n <= sent' /\ (rpc' = "body" => n < sent' /\ msgSize' = FrameSize[n + 1])
    BY <1>1, <1>2, <1>10 DEF g
<1>13. ToSet(data' \o net') = Owed(n + 1, IF rpc' = "body" THEN HdrLen ELSE 0, sent')
    BY <1>9, <1>10, <1>11
<1>14. Sorted(data' \o net')
    BY <1>5, <1>10
<1>15. QED
    BY <1>1, <1>11, <1>12, <1>13, <1>14, AlignedAfter

\* After a reset nothing is claimed.
LEMMA AlignedReset ==
    ASSUME reset'
    PROVE  FramesAligned'
BY DEF FramesAligned

\* A step that keeps the stream `data \o net`, the frame count, the loop,
\* msg_size and the frames handled keeps FramesAligned.
LEMMA AlignedSameBuffer ==
    ASSUME TypeOK, FramesAligned, ~reset, data' \o net' = data \o net,
           UNCHANGED <<sent, rpc, msgSize, handled>>
    PROVE  FramesAligned'
<1> DEFINE n == Cardinality(handled)
<1>1. /\ n \in Nat /\ handled = 1 .. n /\ n <= sent
      /\ rpc = "body" => n < sent /\ msgSize = FrameSize[n + 1]
      /\ Sorted(data \o net)
      /\ ToSet(data \o net) = Owed(n + 1, IF rpc = "body" THEN HdrLen ELSE 0, sent)
    BY AlignedFacts
<1> HIDE DEF n
<1>2. Cardinality(handled') = n
    BY DEF n
<1>3. QED
    BY <1>1, <1>2, AlignedAfter

\* One call of conn.recv (lines 28 and 35) moves the first bytes in flight
\* to the end of the buffer: the stream is the same, only cut elsewhere.
LEMMA RecvAligned ==
    ASSUME TypeOK, FramesAligned, NEW pos, NEW need, Recv(pos, need)
    PROVE  FramesAligned'
<1>1. UNCHANGED <<sent, msgSize, handled, reset>>
    BY DEF Recv
<1>2. CASE ~reset /\ net # << >>
           /\ \E n \in 1 .. ChunkMax :
                /\ n <= Len(net)
                /\ data' = data \o SubSeq(net, 1, n)
                /\ net' = SubSeq(net, n + 1, Len(net))
           /\ UNCHANGED rpc
    <2>1. PICK n \in 1 .. ChunkMax : /\ n <= Len(net)
                                     /\ data' = data \o SubSeq(net, 1, n)
                                     /\ net' = SubSeq(net, n + 1, Len(net))
        BY <1>2
    <2>2. data' \o net' = data \o net
        <3>1. n \in 1 .. Len(net) /\ net \in Seq(Byte) /\ data \in Seq(Byte)
            BY <2>1 DEF TypeOK
        <3>2. QED
            BY <2>1, <3>1, RecvKeepsStream
    <2>3. QED
        BY <1>1, <1>2, <2>2, AlignedSameBuffer
<1>3. CASE ~reset /\ net = << >> /\ closed /\ UNCHANGED <<data, net, rpc>>
    BY <1>1, <1>3, AlignedSameBuffer
<1>4. CASE reset
    BY <1>1, <1>4, AlignedReset
<1>5. QED
    BY <1>2, <1>3, <1>4 DEF Recv

\* The first m bytes of the stream lie in the buffer: slicing them off
\* `data` (lines 31 and 37) gives exactly those bytes.
LEMMA PrefixOfBuffer ==
    ASSUME NEW d \in Seq(Byte), NEW t \in Seq(Byte), NEW m \in 0 .. Len(d),
           NEW w \in Seq(Byte), Len(w) = m, \A p \in 1 .. m : (d \o t)[p] = w[p]
    PROVE  SubSeq(d, 1, m) = w
<1>1. /\ SubSeq(d, 1, m) \in Seq(Byte) /\ Len(SubSeq(d, 1, m)) = m
      /\ \A p \in 1 .. m : SubSeq(d, 1, m)[p] = d[p]
    <2>1. \A p \in 1 .. m : d[p] \in Byte
        OBVIOUS
    <2>2. QED
        BY <2>1, SubSeqProperties
<1>2. \A p \in 1 .. m : (d \o t)[p] = d[p]
    BY ConcatProperties
<1>3. QED
    BY <1>1, <1>2, SeqEqual

\* No two frames have the same size prefix, or the same pickle: their
\* first bytes differ.
LEMMA HdrInjective ==
    ASSUME NEW f \in Frames, NEW g \in Frames, Hdr(f) = Hdr(g)
    PROVE  f = g
<1>1. Hdr(f)[1] = [f |-> f, k |-> 1] /\ Hdr(g)[1] = [f |-> g, k |-> 1]
    BY DEF Hdr
<1>2. QED
    BY <1>1

LEMMA BodyInjective ==
    ASSUME NEW f \in Frames, NEW g \in Frames, Body(f)[1] = Body(g)[1]
    PROVE  f = g
<1>1. Body(f)[1] = [f |-> f, k |-> HdrLen + 1] /\ Body(g)[1] = [f |-> g, k |-> HdrLen + 1]
    BY DEF Body
<1>2. [f |-> f, k |-> HdrLen + 1].f = f /\ [f |-> g, k |-> HdrLen + 1].f = g
    OBVIOUS
<1>3. QED
    BY <1>1, <1>2, Zenon

\* Lines 30-33: the first HdrLen bytes of the buffer are the size prefix of
\* the oldest frame not yet unpickled, so msg_size becomes its size, and the
\* stream goes on with that frame's pickle.
LEMMA TakeHeaderAligned ==
    ASSUME TypeOK, FramesAligned, TakeHeader
    PROVE  FramesAligned'
<1>0. CASE reset
    BY <1>0, AlignedReset DEF TakeHeader
<1>1. CASE ~reset
    <2> DEFINE n  == Cardinality(handled)
               b  == data \o net
               b2 == SubSeq(data, HdrLen + 1, Len(data)) \o net
    <2>1. /\ n \in Nat /\ handled = 1 .. n /\ n <= sent
          /\ b \in Seq(Byte) /\ Sorted(b) /\ ToSet(b) = Owed(n + 1, 0, sent)
        BY <1>1, AlignedFacts DEF TakeHeader
    <2>2. data \in Seq(Byte) /\ net \in Seq(Byte) /\ HdrLen \in 1 .. Len(data)
          /\ Len(b) = Len(data) + Len(net)
        BY ConcatProperties DEF TypeOK, TakeHeader, Buffered
    <2> HIDE DEF n, b
    <2>3. n + 1 \in Frames /\ n < sent /\ FrameEnd(n + 1) \in Nat
        <3>1. n + 1 <= sent
            <4>1. Len(b) > 0 /\ n + 1 \in Int /\ 0 \in Int /\ sent \in Int
                BY <2>1, <2>2 DEF TypeOK
            <4>2. QED
                BY <2>1, <4>1, OwedNonEmpty
        <3>2. QED
            BY <2>1, <3>1 DEF TypeOK, Frames, FrameEnd
    <2>4. \A p \in 1 .. HdrLen : b[p] = [f |-> n + 1, k |-> p]
        <3> TAKE p \in 1 .. HdrLen
        <3>1. p \in 1 .. Len(b) /\ 0 + p <= FrameEnd(n + 1) /\ sent \in Int /\ sent <= NumFrames
            BY <2>2, <2>3 DEF TypeOK, FrameEnd
        <3>2. b[p] = [f |-> n + 1, k |-> 0 + p]
            <4>1. /\ b \in Seq(Byte) /\ Sorted(b) /\ n \in Nat /\ sent \in Int
                  /\ n + 1 <= sent /\ sent <= NumFrames /\ 0 \in Nat
                  /\ ToSet(b) = Owed(n + 1, 0, sent)
                  /\ p \in 1 .. Len(b) /\ 0 + p <= FrameEnd(n + 1)
                BY <2>1, <2>3, <3>1
            <4>2. QED
                BY <4>1, FirstBytes
        <3>3. QED
            BY <3>2
    <2>5. SubSeq(data, 1, HdrLen) = Hdr(n + 1)
        <3>1. Hdr(n + 1) \in Seq(Byte) /\ Len(Hdr(n + 1)) = HdrLen
            BY <2>3, FramePartsAreBytes DEF Hdr
        <3>2. \A p \in 1 .. HdrLen : b[p] = Hdr(n + 1)[p]
            BY <2>4 DEF Hdr
        <3>3. QED
            BY <2>2, <3>1, <3>2, PrefixOfBuffer DEF b
    <2>6. msgSize' = FrameSize[n + 1]
        <3>1. \A g \in Frames : Hdr(n + 1) = Hdr(g) => g = n + 1
            BY <2>3, HdrInjective
        <3>2. (CHOOSE g \in Frames : Hdr(n + 1) = Hdr(g)) = n + 1
            BY <2>3, <3>1
        <3>3. Unpack(Hdr(n + 1)) = {FrameSize[n + 1]}
            BY <2>3, <3>2 DEF Unpack
        <3>4. QED
            BY <2>5, <3>3 DEF TakeHeader
    <2>7. /\ b2 \in Seq(Byte) /\ Len(b2) = Len(b) - HdrLen
          /\ \A i \in 1 .. Len(b2) : b2[i] = b[i + HdrLen]
        BY <2>2, DropFront DEF b, b2
    <2> HIDE DEF b2
    <2>8. Sorted(b2) /\ \A y : y \in ToSet(b2) <=> y \in ToSet(b) /\ \A i \in 1 .. HdrLen : y # b[i]
        BY <2>1, <2>7, SortedShift
    <2>9. ToSet(b2) = Owed(n + 1, HdrLen, sent)
        <3> SUFFICES ASSUME NEW y
                     PROVE  y \in ToSet(b2) <=> y \in Owed(n + 1, HdrLen, sent)
            OBVIOUS
        <3>1. n + 1 \in Int /\ sent \in Int /\ HdrLen \in Int /\ 0 \in Int
            BY <2>1 DEF TypeOK
        <3>2. y \in Owed(n + 1, 0, sent) <=> OwedByte(y, n + 1, 0, sent)
            BY <3>1, OwedMember
        <3>3. y \in Owed(n + 1, HdrLen, sent) <=> OwedByte(y, n + 1, HdrLen, sent)
            BY <3>1, OwedMember
        <3>4. (\A i \in 1 .. HdrLen : y # b[i]) <=> (\A i \in 1 .. HdrLen : y # [f |-> n + 1, k |-> i])
            BY <2>4
        <3>5. OwedByte(y, n + 1, 0, sent) /\ (\A i \in 1 .. HdrLen : y # [f |-> n + 1, k |-> i])
              <=> OwedByte(y, n + 1, HdrLen, sent)
            BY <2>1, <2>3 DEF OwedByte, FrameEnd
        <3>6. QED
            BY <2>1, <2>8, <3>2, <3>3, <3>4, <3>5
    <2>10. /\ data' \o net' = b2 /\ rpc' = "body"
           /\ UNCHANGED <<sent, handled>>
        BY DEF TakeHeader, b2
    <2>11. Cardinality(handled') = n
        BY <2>10 DEF n
    <2>12. QED
        <3>1. Sorted(data' \o net') /\ ToSet(data' \o net') = Owed(n + 1, HdrLen, sent')
            BY <2>8, <2>9, <2>10
        <3>2. (IF rpc' = "body" THEN HdrLen ELSE 0) = HdrLen
            BY <2>10
        <3>3. QED
            BY <2>1, <2>3, <2>6, <2>10, <2>11, <3>1, <3>2, AlignedAfter
<1>2. QED
    BY <1>0, <1>1

LEMMA FramePartsLen ==
    ASSUME NEW f \in Frames
    PROVE  Len(Hdr(f)) = HdrLen /\ Len(Body(f)) = FrameSize[f] /\ FrameSize[f] \in Nat \ {0}
BY DEF Hdr, Body

\* pickle.loads of the pickle of frame f returns f: f's pickle starts with
\* itself, and any frame whose pickle it starts with has f's first byte.
LEMMA UnpickleBody ==
    ASSUME NEW f \in Frames
    PROVE  Unpickled(Body(f)) = {f}
<1>1. Body(f) \in Seq(Byte) /\ Len(Body(f)) = FrameSize[f]
    BY FramePartsAreBytes, FramePartsLen
<1>2. IsPrefix(Body(f), Body(f))
    BY DEF IsPrefix
<1>3. ASSUME NEW g \in Frames, IsPrefix(Body(g), Body(f)) PROVE g = f
    <2>1. Body(g) \in Seq(Byte) /\ Len(Body(g)) = FrameSize[g] /\ FrameSize[g] \in Nat \ {0}
        BY FramePartsAreBytes, FramePartsLen
    <2>2. FrameSize[g] <= FrameSize[f]
          /\ SubSeq(Body(g), 1, FrameSize[g]) = SubSeq(Body(f), 1, FrameSize[g])
        BY <1>1, <1>3, <2>1 DEF IsPrefix
    <2>3. SubSeq(Body(g), 1, FrameSize[g])[1] = Body(g)[1]
        <3>1. \A i \in 1 .. FrameSize[g] : Body(g)[i] \in Byte
            BY <2>1
        <3>2. QED
            BY <2>1, <3>1, SubSeqProperties
    <2>4. SubSeq(Body(f), 1, FrameSize[g])[1] = Body(f)[1]
        <3>1. \A i \in 1 .. FrameSize[g] : Body(f)[i] \in Byte
            BY <1>1, <2>2
        <3>2. QED
            BY <2>1, <3>1, SubSeqProperties
    <2>5. QED
        BY <2>2, <2>3, <2>4, BodyInjective
<1>4. QED
    BY <1>2, <1>3 DEF Unpickled

\* Lines 36-52: the first msg_size bytes of the buffer are the pickle of the
\* oldest frame not yet unpickled, so pickle.loads returns that frame, it is
\* the next one handled, and the stream goes on with the next frame.
LEMMA TakeFrameAligned ==
    ASSUME TypeOK, FramesAligned, TakeFrame
    PROVE  FramesAligned'
<1>0. CASE reset
    BY <1>0, AlignedReset DEF TakeFrame
<1>1. CASE ~reset
    <2> DEFINE n  == Cardinality(handled)
               b  == data \o net
               b2 == SubSeq(data, msgSize + 1, Len(data)) \o net
    <2>1. /\ n \in Nat /\ handled = 1 .. n /\ n < sent /\ msgSize = FrameSize[n + 1]
          /\ b \in Seq(Byte) /\ Sorted(b) /\ ToSet(b) = Owed(n + 1, HdrLen, sent)
        BY <1>1, AlignedFacts DEF TakeFrame
    <2>2. data \in Seq(Byte) /\ net \in Seq(Byte) /\ msgSize \in 0 .. Len(data)
          /\ Len(b) = Len(data) + Len(net) /\ sent \in Int /\ sent <= NumFrames
        BY ConcatProperties DEF TypeOK, TakeFrame, Buffered
    <2> HIDE DEF n, b
    <2>3. n + 1 \in Frames /\ FrameSize[n + 1] \in Nat \ {0}
        BY <2>1, <2>2 DEF Frames
    <2>4. \A p \in 1 .. FrameSize[n + 1] : b[p] = [f |-> n + 1, k |-> HdrLen + p]
        <3> TAKE p \in 1 .. FrameSize[n + 1]
        <3>1. p \in 1 .. Len(b) /\ HdrLen + p <= FrameEnd(n + 1) /\ n + 1 <= sent
            BY <2>1, <2>2, <2>3 DEF FrameEnd
        <3>2. /\ b \in Seq(Byte) /\ Sorted(b) /\ n \in Nat /\ sent \in Int
              /\ n + 1 <= sent /\ sent <= NumFrames /\ HdrLen \in Nat
              /\ ToSet(b) = Owed(n + 1, HdrLen, sent)
              /\ p \in 1 .. Len(b) /\ HdrLen + p <= FrameEnd(n + 1)
            BY <2>1, <2>2, <3>1
        <3>3. QED
            BY <3>2, FirstBytes
    <2>5. SubSeq(data, 1, msgSize) = Body(n + 1)
        <3>1. Body(n + 1) \in Seq(Byte) /\ Len(Body(n + 1)) = msgSize
            BY <2>1, <2>3, FramePartsAreBytes, FramePartsLen
        <3>2. \A p \in 1 .. msgSize : b[p] = Body(n + 1)[p]
            BY <2>1, <2>4 DEF Body
        <3>3. QED
            BY <2>2, <3>1, <3>2, PrefixOfBuffer DEF b
    <2>6. handled' = 1 .. n + 1 /\ Cardinality(handled') = n + 1
        <3>1. Unpickled(SubSeq(data, 1, msgSize)) = {n + 1}
            BY <2>3, <2>5, UnpickleBody
        <3>2. handled' = handled \cup {n + 1}
            BY <3>1 DEF TakeFrame
        <3>3. handled' = 1 .. n + 1
            BY <2>1, <3>2
        <3>4. Cardinality(1 .. n + 1) = n + 1
            <4> DEFINE c == n + 1
            <4>1. 1 \in Int /\ c \in Int /\ 1 <= c + 1
                BY <2>1
            <4> HIDE DEF c
            <4>2. Cardinality(1 .. c) = c - 1 + 1
                BY <4>1, IntervalCard, Zenon
            <4>3. QED
                BY <4>2, <2>1 DEF c
        <3>5. QED
            BY <3>3, <3>4
    <2>7. /\ b2 \in Seq(Byte) /\ Len(b2) = Len(b) - msgSize
          /\ \A i \in 1 .. Len(b2) : b2[i] = b[i + msgSize]
        BY <2>2, DropFront DEF b, b2
    <2> HIDE DEF b2
    <2>8. Sorted(b2) /\ \A y : y \in ToSet(b2) <=> y \in ToSet(b) /\ \A i \in 1 .. msgSize : y # b[i]
        <3>1. msgSize \in Nat /\ b \in Seq(Byte) /\ Sorted(b)
            BY <2>1, <2>2
        <3>2. QED
            BY <2>7, <3>1, SortedShift
    <2>9. ToSet(b2) = Owed(n + 2, 0, sent)
        <3> SUFFICES ASSUME NEW y
                     PROVE  y \in ToSet(b2) <=> y \in Owed(n + 2, 0, sent)
            OBVIOUS
        <3>1. n + 1 \in Int /\ n + 2 \in Int /\ sent \in Int /\ HdrLen \in Int /\ 0 \in Int
            BY <2>1, <2>2
        <3>2. y \in Owed(n + 1, HdrLen, sent) <=> OwedByte(y, n + 1, HdrLen, sent)
            BY <3>1, OwedMember
        <3>3. y \in Owed(n + 2, 0, sent) <=> OwedByte(y, n + 2, 0, sent)
            BY <3>1, OwedMember
        <3>4. (\A i \in 1 .. msgSize : y # b[i])
              <=> (\A i \in 1 .. FrameSize[n + 1] : y # [f |-> n + 1, k |-> HdrLen + i])
            BY <2>1, <2>4
        <3>5. OwedByte(y, n + 1, HdrLen, sent)
              /\ (\A i \in 1 .. FrameSize[n + 1] : y # [f |-> n + 1, k |-> HdrLen + i])
              <=> OwedByte(y, n + 2, 0, sent)
            <4>1. ASSUME OwedByte(y, n + 1, HdrLen, sent),
                         \A i \in 1 .. FrameSize[n + 1] : y # [f |-> n + 1, k |-> HdrLen + i]
                  PROVE  OwedByte(y, n + 2, 0, sent)
                <5>1. y.f # n + 1
                    <6>1. SUFFICES ASSUME y.f = n + 1 PROVE FALSE
                        OBVIOUS
                    <6>2. y.k - HdrLen \in 1 .. FrameSize[n + 1]
                          /\ y = [f |-> n + 1, k |-> HdrLen + (y.k - HdrLen)]
                        BY <4>1, <6>1, <2>1, <2>3 DEF OwedByte, FrameEnd
                    <6>3. QED
                        BY <4>1, <6>2
                <5>2. QED
                    BY <4>1, <5>1, <2>1 DEF OwedByte
            <4>2. ASSUME OwedByte(y, n + 2, 0, sent)
                  PROVE  /\ OwedByte(y, n + 1, HdrLen, sent)
                         /\ \A i \in 1 .. FrameSize[n + 1] : y # [f |-> n + 1, k |-> HdrLen + i]
                <5>1. y.f \in n + 2 .. sent /\ y = [f |-> y.f, k |-> y.k]
                    BY <4>2 DEF OwedByte
                <5>2. OwedByte(y, n + 1, HdrLen, sent)
                    BY <4>2, <5>1, <2>1 DEF OwedByte
                <5>3. \A i \in 1 .. FrameSize[n + 1] : y # [f |-> n + 1, k |-> HdrLen + i]
                    BY <5>1, <2>1
                <5>4. QED
                    BY <5>2, <5>3
            <4>3. QED
                BY <4>1, <4>2
        <3>6. QED
            BY <2>1, <2>8, <3>2, <3>3, <3>4, <3>5
    <2>10. /\ data' \o net' = b2 /\ rpc' = "hdr" /\ UNCHANGED sent
        BY DEF TakeFrame, b2
    <2>11. QED
        <3>0. n \in Nat /\ n < sent /\ Owed(n + 2, 0, sent) = Owed(n + 1 + 1, 0, sent)
            BY <2>1
        <3>1. Sorted(data' \o net') /\ ToSet(data' \o net') = Owed(n + 1 + 1, 0, sent')
            BY <2>8, <2>9, <2>10, <3>0
        <3>2. (IF rpc' = "body" THEN HdrLen ELSE 0) = 0
            BY <2>10
        <3>3. sent' = sent
            BY <2>10
        <3>4. n + 1 <= sent' /\ n + 1 \in Nat
            BY <3>0, <3>3, <2>2
        <3>5. QED
            BY <2>6, <2>10, <3>1, <3>2, <3>4, AlignedAfter
<1>2. QED
    BY <1>0, <1>1

\* The peer closing its end changes nothing owed.
LEMMA PeerCloseAligned ==
    ASSUME TypeOK, FramesAligned, PeerClose
    PROVE  FramesAligned'
<1>1. CASE reset
    BY <1>1, AlignedReset DEF PeerClose
<1>2. CASE ~reset
    BY <1>2, AlignedSameBuffer DEF PeerClose
<1>3. QED
    BY <1>1, <1>2

LEMMA NextAligned == TypeOK /\ FramesAligned /\ [Next]_vars => FramesAligned'
<1> SUFFICES ASSUME TypeOK, FramesAligned, [Next]_vars PROVE FramesAligned'
    OBVIOUS
<1>1. CASE PeerSend
    BY <1>1, PeerSendAligned
<1>2. CASE PeerClose
    BY <1>2, PeerCloseAligned
<1>3. CASE ConnReset
    BY <1>3, AlignedReset DEF ConnReset
<1>4. CASE RecvHeader \/ RecvBody
    BY <1>4, RecvAligned DEF RecvHeader, RecvBody
<1>5. CASE TakeHeader
    BY <1>5, TakeHeaderAligned
<1>6. CASE TakeFrame
    BY <1>6, TakeFrameAligned
<1>7. CASE UNCHANGED vars
    BY <1>7 DEF vars, FramesAligned
<1>8. QED
    BY <1>1, <1>2, <1>3, <1>4, <1>5, <1>6, <1>7 DEF Next, Peer, Receiver

\* The inductive invariant: FramesAligned needs the buffers to be sequences
\* of stream bytes, which TypeOK gives.
IInv == TypeOK /\ FramesAligned

\* Whatever the recv chunk sizes, until a reset the loop of video_receive.py
\* unpickles the frames in the order the peer sent them, with msg_size the
\* size of the frame it reads, and its buffer followed by the bytes in
\* flight is, in order, exactly the stream not yet consumed: for every
\* number of frames, frame sizes, prefix length and recv buffer size.
THEOREM FramesAlignedHold == Spec => []FramesAligned
<1>1. Init => IInv
    BY InitTypeOK, InitAligned DEF IInv
<1>2. IInv /\ [Next]_vars => IInv'
    BY NextTypeOK, NextAligned DEF IInv
<1>3. IInv => FramesAligned
    BY DEF IInv
<1>4. QED
    BY <1>1, <1>2, <1>3, PTL DEF Spec
=============================================================================
