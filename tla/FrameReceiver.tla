--------------------------- MODULE FrameReceiver ---------------------------
(***************************************************************************)
(* The frame loop of applications/standalone/dairy_farm/video_receive.py. *)
(* A peer writes length-prefixed frames to a TCP stream: an 8-byte size   *)
(* (struct "Q") followed by the pickled frame.  receive_frames_from_server *)
(* reassembles them from recv(4096) chunks of arbitrary length, unpickles *)
(* and decodes each frame and puts it to the store, catching every        *)
(* Exception at the bottom of the loop.                                    *)
(*                                                                         *)
(* A byte of the stream is a record [f |-> frame, k |-> position]; the    *)
(* size prefix of frame f is positions 1..HdrLen, its pickled body the    *)
(* next FrameSize[f] positions.  HdrLen stands for struct.calcsize("Q")   *)
(* and ChunkMax for the 4096 of recv.                                      *)
(***************************************************************************)
EXTENDS Integers, Sequences, SequencesExt, FiniteSets

CONSTANTS NumFrames,   \* frames the peer has to send
          FrameSize,   \* FrameSize[f]: length of the pickled body of frame f
          HdrLen,      \* struct.calcsize("Q")
          ChunkMax     \* the buffer size passed to conn.recv

Frames == 1 .. NumFrames

ASSUME ReceiverAssumption ==
    /\ NumFrames \in Nat
    /\ FrameSize \in [Frames -> Nat \ {0}]
    /\ HdrLen \in Nat \ {0}
    /\ ChunkMax \in Nat \ {0}

VARIABLES
    net,      \* bytes the peer has written that recv has not yet returned
    sent,     \* frames the peer has written
    closed,   \* the peer has closed its end
    reset,    \* the connection was reset: every recv raises
    rpc,      \* "hdr": size loop (26-33); "body": frame loop (34-52)
    data,     \* the receiver's buffer `data`
    msgSize,  \* msg_size of the frame being read
    puts,     \* frames given to capi.put, in order
    handled   \* frames unpickled (put or dropped by an exception after 38)

vars == <<net, sent, closed, reset, rpc, data, msgSize, puts, handled>>

Byte == [f : Frames, k : Nat \ {0}]

Hdr(f)  == [k \in 1 .. HdrLen |-> [f |-> f, k |-> k]]
Body(f) == [k \in 1 .. FrameSize[f] |-> [f |-> f, k |-> HdrLen + k]]

\* The values struct.unpack can return from bytes that are not a size
\* prefix: any 64-bit number; what matters is whether it is zero, at most
\* what is buffered, or more.
MaxSize == Max({FrameSize[f] : f \in Frames} \cup {0})
GarbageSizes == 0 .. (HdrLen + MaxSize + 1)

\* struct.unpack("q", ...): a signed size, negative for some garbage bytes.
UnpackSigned(bytes) ==
    IF \E f \in Frames : bytes = Hdr(f)
    THEN {FrameSize[CHOOSE f \in Frames : bytes = Hdr(f)]}
    ELSE -1 .. (HdrLen + MaxSize + 1)

\* struct.unpack("Q", packed_msg_size)[0]: the size written by the peer if
\* the bytes are a size prefix, an arbitrary number otherwise.
Unpack(bytes) ==
    IF \E f \in Frames : bytes = Hdr(f)
    THEN {FrameSize[CHOOSE f \in Frames : bytes = Hdr(f)]}
    ELSE GarbageSizes

\* pickle.loads stops at the STOP opcode and ignores trailing bytes: it
\* returns frame f if the bytes start with f's pickle and raises otherwise.
Unpickled(bytes) == {f \in Frames : IsPrefix(Body(f), bytes)}

(* The peer: it writes whole frames, may close, and the connection may be *)
(* reset, after which nothing more is delivered.                          *)
PeerSend ==
    /\ ~closed /\ ~reset /\ sent < NumFrames
    /\ net' = net \o Hdr(sent + 1) \o Body(sent + 1)
    /\ sent' = sent + 1
    /\ UNCHANGED <<closed, reset, rpc, data, msgSize, puts, handled>>

PeerClose ==
    /\ ~closed
    /\ closed' = TRUE
    /\ UNCHANGED <<net, sent, reset, rpc, data, msgSize, puts, handled>>

ConnReset ==
    /\ ~reset
    /\ reset' = TRUE /\ net' = << >>
    /\ UNCHANGED <<sent, closed, rpc, data, msgSize, puts, handled>>

(* Mutants of the loop, for the mutation runs.                            *)
\* `while len(data) <= need`: the loops want one byte more than the unit.
BufferedStrict(need) == Len(data) > need

\* The loop conditions of lines 26 and 34: the buffer holds `need` bytes.
Buffered(need) == Len(data) >= need

\* The frame is unpickled and put but `data = data[msg_size:]` is missing.
TakeFrameKeepsData ==
    /\ rpc = "body" /\ Buffered(msgSize)
    /\ LET frameData == SubSeq(data, 1, msgSize)
       IN  /\ UNCHANGED data
           /\ IF Unpickled(frameData) = {}
              THEN UNCHANGED <<puts, handled>>
              ELSE LET f == CHOOSE g \in Unpickled(frameData) : TRUE
                   IN  /\ handled' = handled \cup {f}
                       /\ \/ puts' = Append(puts, f)
                          \/ UNCHANGED puts
    /\ rpc' = "hdr"
    /\ UNCHANGED <<net, sent, closed, reset, msgSize>>

(* One call of conn.recv(4096) in the loop at `pos` (28 or 35): it blocks *)
(* while nothing is buffered, returns 1..4096 buffered bytes, returns b"" *)
(* forever once the peer has closed, and raises once the connection is    *)
(* reset; the exception is caught at 53 and the outer loop restarts.      *)
Recv(pos, need) ==
    /\ rpc = pos /\ ~Buffered(need)
    /\ \/ /\ ~reset /\ net # << >>
          /\ \E n \in 1 .. ChunkMax :
                /\ n <= Len(net)
                /\ data' = data \o SubSeq(net, 1, n)
                /\ net' = SubSeq(net, n + 1, Len(net))
          /\ UNCHANGED rpc
       \/ /\ ~reset /\ net = << >> /\ closed
          /\ UNCHANGED <<data, net, rpc>>
       \/ /\ reset
          /\ rpc' = "hdr"
          /\ UNCHANGED <<data, net>>
    /\ UNCHANGED <<sent, closed, reset, msgSize, puts, handled>>

RecvHeader == Recv("hdr", HdrLen)

\* Lines 30-33: cut the size prefix off the buffer and decode it.
TakeHeader ==
    /\ rpc = "hdr" /\ Buffered(HdrLen)
    /\ \E s \in Unpack(SubSeq(data, 1, HdrLen)) : msgSize' = s
    /\ data' = SubSeq(data, HdrLen + 1, Len(data))
    /\ rpc' = "body"
    /\ UNCHANGED <<net, sent, closed, reset, puts, handled>>

RecvBody == Recv("body", msgSize)

\* Lines 36-52: cut the frame off the buffer, unpickle it, decode and
\* resize the image and put it.  If pickle.loads raises, nothing is put;
\* imdecode/resize or the put itself may raise after a successful unpickle.
TakeFrame ==
    /\ rpc = "body" /\ Buffered(msgSize)
    /\ LET frameData == SubSeq(data, 1, msgSize)
       IN  /\ data' = SubSeq(data, msgSize + 1, Len(data))
           /\ IF Unpickled(frameData) = {}
              THEN UNCHANGED <<puts, handled>>
              ELSE LET f == CHOOSE g \in Unpickled(frameData) : TRUE
                   IN  /\ handled' = handled \cup {f}
                       /\ \/ puts' = Append(puts, f)
                          \/ UNCHANGED puts
    /\ rpc' = "hdr"
    /\ UNCHANGED <<net, sent, closed, reset, msgSize>>

Init ==
    /\ net = << >> /\ sent = 0 /\ closed = FALSE /\ reset = FALSE
    /\ rpc = "hdr" /\ data = << >> /\ msgSize = 0
    /\ puts = << >> /\ handled = {}

Peer == PeerSend \/ PeerClose \/ ConnReset

Receiver == RecvHeader \/ TakeHeader \/ RecvBody \/ TakeFrame

Next == Peer \/ Receiver

Spec == Init /\ [][Next]_vars

\* The receiver thread is never starved; the peer need not send anything.
FairSpec == Spec /\ WF_vars(Receiver)

-----------------------------------------------------------------------------
(* Properties.                                                             *)

TypeOK ==
    /\ net \in Seq(Byte) /\ data \in Seq(Byte)
    /\ sent \in 0 .. NumFrames
    /\ closed \in BOOLEAN /\ reset \in BOOLEAN
    /\ rpc \in {"hdr", "body"}
    /\ msgSize \in Nat
    /\ puts \in Seq(Frames) /\ handled \subseteq Frames

\* The bytes of frames lo..hi, as the peer writes them.
Stream(lo, hi) == FlattenSeq([j \in 1 .. hi - lo + 1 |-> Hdr(lo + j - 1) \o Body(lo + j - 1)])

\* Reassembly from arbitrary recv chunks: until a reset, whatever the chunk
\* boundaries, `data` starts where the first frame not yet unpickled starts
\* (or its body, in the frame loop, with msg_size its length), and `data`
\* followed by what is still in flight is exactly the frames not yet
\* unpickled; frames are unpickled in the order they were sent.
StreamAligned ==
    LET n == Cardinality(handled) IN
    ~reset =>
        /\ handled = 1 .. n
        /\ rpc = "hdr"  => data \o net = Stream(n + 1, sent)
        /\ rpc = "body" => /\ n < sent /\ msgSize = FrameSize[n + 1]
                           /\ data \o net = Body(n + 1) \o Stream(n + 2, sent)

\* Stream order of byte positions: by frame, then by position in the frame.
Precedes(x, y) == x.f < y.f \/ (x.f = y.f /\ x.k < y.k)

\* The last position of frame f: its size prefix and its body.
FrameEnd(f) == HdrLen + FrameSize[f]

\* The bytes of frames lo..hi that the receiver has still to consume, when
\* the first `skip` bytes of frame lo are consumed already.
Owed(lo, skip, hi) ==
    UNION {{[f |-> g, k |-> p] : p \in (IF g = lo THEN skip + 1 ELSE 1) .. FrameEnd(g)}
           : g \in lo .. hi}

\* Reassembly from arbitrary recv chunks, by positions: until a reset,
\* frames are unpickled in send order (handled is 1..n), the frame loop runs
\* only for a frame that was sent, with msg_size its length, and `data`
\* followed by what is in flight holds, in stream order, exactly the bytes
\* not yet consumed: those of frames n+1..sent, less frame n+1's size
\* prefix once lines 30-31 have cut it.  A strictly ordered sequence is
\* determined by its set of elements, so this is StreamAligned stated
\* without the fold of FlattenSeq.
FramesAligned ==
    LET n    == Cardinality(handled)
        buf  == data \o net
        skip == IF rpc = "body" THEN HdrLen ELSE 0
    IN  ~reset =>
            /\ handled = 1 .. n
            /\ n <= sent
            /\ rpc = "body" => n < sent /\ msgSize = FrameSize[n + 1]
            /\ ToSet(buf) = Owed(n + 1, skip, sent)
            /\ \A i, j \in 1 .. Len(buf) : i < j => Precedes(buf[i], buf[j])

\* Every frame the peer has written is eventually unpickled by the loop, even
\* when it arrives split over several recv calls and when the peer closes
\* right after it, unless the connection is reset.
FramesDelivered ==
    \A f \in Frames : (f <= sent) ~> (f \in handled \/ reset)

\* The socket is closed after the loop (line 55): once the peer has closed
\* and everything it sent was received, the receiver leaves the loop, that
\* is, stops calling recv.
ReceiverStops ==
    (closed /\ net = << >>) ~> ~ENABLED RecvHeader
=============================================================================
