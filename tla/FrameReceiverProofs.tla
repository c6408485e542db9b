------------------------- MODULE FrameReceiverProofs -------------------------
(***************************************************************************)
(* Proofs about FrameReceiver for every number of frames, frame sizes,    *)
(* prefix length and recv buffer size: the buffers stay sequences of      *)
(* stream bytes and msg_size a natural number, whatever the chunking and   *)
(* whatever a garbage size prefix decodes to.                             *)
(***************************************************************************)
EXTENDS FrameReceiver, SequenceTheorems, TLAPS

USE ReceiverAssumption DEF ReceiverAssumption

\* The size prefix and the body of a frame are sequences of stream bytes.
LEMMA FramePartsAreBytes ==
    ASSUME NEW f \in Frames
    PROVE  Hdr(f) \in Seq(Byte) /\ Body(f) \in Seq(Byte)
<1>1. Hdr(f) \in [1 .. HdrLen -> Byte]
    BY DEF Hdr, Byte
<1>2. Body(f) \in [1 .. FrameSize[f] -> Byte]
    BY DEF Body, Byte
<1>3. QED
    BY <1>1, <1>2, IsASeq

\* struct.unpack("Q", ...) yields a natural number, for a real size prefix
\* and for garbage alike.
LEMMA UnpackNat ==
    ASSUME NEW bytes
    PROVE  Unpack(bytes) \subseteq Nat
BY DEF Unpack, GarbageSizes

\* The bytes returned by recv and kept by the slicing of lines 30-31 and
\* 36-37 are bytes of the stream: every slice the loop takes starts inside
\* the buffer or just past its end, and ends inside it.
LEMMA SubSeqBytes ==
    ASSUME NEW s \in Seq(Byte), NEW m \in 1 .. Len(s) + 1, NEW n \in 0 .. Len(s)
    PROVE  SubSeq(s, m, n) \in Seq(Byte)
<1>1. \A j \in m .. n : s[j] \in Byte
    OBVIOUS
<1>2. QED
    BY <1>1, SubSeqProperties

LEMMA InitTypeOK == Init => TypeOK
<1> SUFFICES ASSUME Init PROVE TypeOK
    OBVIOUS
<1>1. << >> \in Seq(Byte) /\ << >> \in Seq(Frames)
    BY EmptySeq
<1>2. 0 \in 0 .. NumFrames
    OBVIOUS
<1>3. QED
    BY <1>1, <1>2 DEF Init, TypeOK

\* The peer's sendall of a whole frame (video_send side) appends bytes of
\* the stream.
LEMMA PeerSendTypeOK ==
    ASSUME TypeOK, PeerSend
    PROVE  TypeOK'
<1>1. sent + 1 \in Frames
    BY DEF PeerSend, TypeOK, Frames
<1>2. Hdr(sent + 1) \in Seq(Byte) /\ Body(sent + 1) \in Seq(Byte)
    BY <1>1, FramePartsAreBytes
<1>3. net' \in Seq(Byte)
    BY <1>2, ConcatProperties DEF PeerSend, TypeOK
<1>4. QED
    BY <1>3 DEF PeerSend, TypeOK

\* One call of conn.recv (lines 28 and 35) moves a prefix of what is in
\* flight to the end of the buffer, or changes neither.
LEMMA RecvTypeOK ==
    ASSUME TypeOK, NEW pos \in {"hdr", "body"}, NEW need, Recv(pos, need)
    PROVE  TypeOK'
<1>1. CASE ~reset /\ net # << >>
           /\ \E n \in 1 .. ChunkMax :
                /\ n <= Len(net)
                /\ data' = data \o SubSeq(net, 1, n)
                /\ net' = SubSeq(net, n + 1, Len(net))
    <2>1. PICK n \in 1 .. ChunkMax : /\ n <= Len(net)
                                     /\ data' = data \o SubSeq(net, 1, n)
                                     /\ net' = SubSeq(net, n + 1, Len(net))
        BY <1>1
    <2>2. net \in Seq(Byte) /\ data \in Seq(Byte)
        BY DEF TypeOK
    <2>3. SubSeq(net, 1, n) \in Seq(Byte) /\ SubSeq(net, n + 1, Len(net)) \in Seq(Byte)
        BY <2>1, <2>2, SubSeqBytes, LenProperties
    <2>4. data' \in Seq(Byte) /\ net' \in Seq(Byte)
        BY <2>1, <2>2, <2>3, ConcatProperties
    <2>5. QED
        BY <2>4 DEF Recv, TypeOK
<1>2. CASE ~(~reset /\ net # << >>
              /\ \E n \in 1 .. ChunkMax :
                   /\ n <= Len(net)
                   /\ data' = data \o SubSeq(net, 1, n)
                   /\ net' = SubSeq(net, n + 1, Len(net)))
    BY <1>2 DEF Recv, TypeOK
<1>3. QED
    BY <1>1, <1>2

\* Lines 30-33: what stays buffered after the size prefix is cut off is
\* bytes of the stream, and the decoded msg_size is a natural number.
LEMMA TakeHeaderTypeOK ==
    ASSUME TypeOK, TakeHeader
    PROVE  TypeOK'
<1>1. data \in Seq(Byte) /\ Len(data) >= HdrLen
    BY DEF TakeHeader, Buffered, TypeOK
<1>2. data' \in Seq(Byte)
    BY <1>1, SubSeqBytes, LenProperties DEF TakeHeader
<1>3. msgSize' \in Nat
    BY UnpackNat DEF TakeHeader
<1>4. QED
    BY <1>2, <1>3 DEF TakeHeader, TypeOK

\* Lines 36-52: the rest of the buffer after the frame is bytes of the
\* stream, and a frame put or handled is one that pickle.loads returned.
LEMMA TakeFrameTypeOK ==
    ASSUME TypeOK, TakeFrame
    PROVE  TypeOK'
<1> DEFINE frameData == SubSeq(data, 1, msgSize)
<1>1. data \in Seq(Byte) /\ msgSize \in Nat /\ Len(data) >= msgSize
    BY DEF TakeFrame, Buffered, TypeOK
<1>2. data' \in Seq(Byte)
    BY <1>1, SubSeqBytes, LenProperties DEF TakeFrame
<1>3. puts' \in Seq(Frames) /\ handled' \subseteq Frames
    <2>1. CASE Unpickled(frameData) = {}
        BY <2>1 DEF TakeFrame, TypeOK
    <2>2. CASE Unpickled(frameData) # {}
        <3> DEFINE f == CHOOSE g \in Unpickled(frameData) : TRUE
        <3>1. f \in Frames
            BY <2>2 DEF Unpickled
        <3>2. handled' = handled \cup {f} /\ (puts' = Append(puts, f) \/ puts' = puts)
            BY <2>2 DEF TakeFrame
        <3>3. Append(puts, f) \in Seq(Frames)
            BY <3>1, AppendProperties DEF TypeOK
        <3>4. QED
            BY <3>1, <3>2, <3>3 DEF TypeOK
    <2>3. QED
        BY <2>1, <2>2
<1>4. QED
    BY <1>2, <1>3 DEF TakeFrame, TypeOK

LEMMA NextTypeOK == TypeOK /\ [Next]_vars => TypeOK'
<1> SUFFICES ASSUME TypeOK, [Next]_vars PROVE TypeOK'
    OBVIOUS
<1>1. CASE PeerSend
    BY <1>1, PeerSendTypeOK
<1>2. CASE PeerClose \/ ConnReset
    BY <1>2, EmptySeq DEF PeerClose, ConnReset, TypeOK
<1>3. CASE RecvHeader \/ RecvBody
    BY <1>3, RecvTypeOK DEF RecvHeader, RecvBody
<1>4. CASE TakeHeader
    BY <1>4, TakeHeaderTypeOK
<1>5. CASE TakeFrame
    BY <1>5, TakeFrameTypeOK
<1>6. CASE UNCHANGED vars
    BY <1>6 DEF vars, TypeOK
<1>7. QED
    BY <1>1, <1>2, <1>3, <1>4, <1>5, <1>6 DEF Next, Peer, Receiver

\* The receive loop of video_receive.py keeps its buffers sequences of
\* stream bytes and msg_size a natural number, for every number of frames,
\* frame sizes, prefix length and recv size, whatever the chunking, a
\* reset, or a garbage size prefix decodes to.
THEOREM TypeCorrect == Spec => []TypeOK
BY InitTypeOK, NextTypeOK, PTL DEF Spec
=============================================================================
