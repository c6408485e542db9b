------------------------ MODULE CameraSamplerProofs ------------------------
(***************************************************************************)
(* Proofs about CameraSampler for every clock resolution, fps, rate,      *)
(* video length, jitter and clock bound: when the requested rate is at    *)
(* least the source's fps, simulated_camera.py trigger_puts every frame   *)
(* it reads, once and in order.                                           *)
(***************************************************************************)
EXTENDS CameraSampler, SequenceTheorems, TLAPS

\* The constants' ranges; the divisibility half of CameraAssumption is not
\* needed by the proofs.
LEMMA ConstantTypes ==
    /\ Ticks \in Nat \ {0}
    /\ FpsValues \subseteq Nat /\ RateValues \subseteq Int
    /\ NumFrames \in Nat /\ Jitter \in Nat /\ ClockBound \in Nat
BY CameraAssumption DEF CameraAssumption

USE ConstantTypes

Written == [idx : Nat, t : Int]

\* written is a sequence of trigger_put records; kept apart from TypeInv so
\* that only the steps about the sequence carry it.
WrittenSeq == written \in Seq(Written)

\* The variables' ranges that the arithmetic below needs.
TypeInv ==
    /\ pc \in {"setup", "pace", "read", "sample", "put", "release",
              "released", "crashed", "interrupted"}
    /\ clock \in Int /\ clock <= ClockBound
    /\ interval \in Int /\ sinterval \in Int
    /\ nxt \in Int /\ nxtSample \in Int
    /\ i \in Nat
    /\ WrittenSeq
    /\ pc = "setup" => written = << >> /\ i = 0

\* The loop runs at full rate: the sampling interval is at most the frame
\* interval (-r at least the fps, or negative).
FullRate ==
    /\ pc \in {"pace", "read", "sample", "put", "release", "released"}
    /\ sinterval <= interval

\* At full rate: the frames written are 1, 2, ... in order, all frames read
\* so far except the one in hand; and the next sample is due no later than
\* one frame interval from now, which only grows as the clock advances.
RateInv ==
    FullRate =>
        /\ \A j \in 1 .. Len(written) : written[j].idx = j
        /\ pc \in {"pace", "read"} => Len(written) = i /\ i <= NumFrames
        /\ pc \in {"sample", "put"} => Len(written) = i - 1 /\ i \in 1 .. NumFrames
        /\ pc \in {"release", "released"} =>
               Len(written) = NumFrames /\ i = NumFrames + 1
        /\ pc \in {"pace", "read", "sample", "put"} => nxtSample <= clock + interval

IInv == TypeInv /\ RateInv

\* Time never runs backwards: a step that waits from x >= clock ends at or
\* after the clock and within the bound.
LEMMA AfterMonotone ==
    ASSUME NEW c \in Int, NEW x \in Int, c <= x, c <= ClockBound,
           NEW t \in After(x)
    PROVE  t \in Int /\ c <= t /\ t <= ClockBound
BY DEF After, MinOf

\* A frame interval 1.0/fps is positive when fps is.
LEMMA PerPositive ==
    ASSUME NEW f \in Nat \ {0}
    PROVE  Per(f) \in Nat
BY DEF Per

\* A due-time bound kept while the clock advances and the interval stays.
LEMMA DueStaysBounded ==
    ASSUME NEW n \in Int, NEW c \in Int, NEW c2 \in Int, NEW d \in Int,
           n <= c + d, c <= c2
    PROVE  n <= c2 + d
OBVIOUS

LEMMA InitIInv == Init => IInv
BY DEF Init, IInv, TypeInv, WrittenSeq, RateInv, FullRate

\* Only trigger_put changes written, and it appends a record.
LEMMA WrittenSeqStep ==
    ASSUME WrittenSeq, i \in Nat, clock \in Int, [Next]_vars
    PROVE  WrittenSeq'
<1>1. CASE Put
    <2>1. [idx |-> i, t |-> clock] \in Written
        BY DEF Written
    <2>2. QED
        BY <1>1, <2>1, AppendProperties DEF Put, WrittenSeq
<1>2. CASE ~Put
    <2>1. written' = written
        BY <1>2 DEF Next, Camera, Setup, Pace, Read, Sample, Release,
                    Interrupt, Finished, vars
    <2>2. QED
        BY <2>1 DEF WrittenSeq
<1>3. QED
    BY <1>1, <1>2

LEMMA NextIInv == IInv /\ [Next]_vars => IInv'
<1> SUFFICES ASSUME IInv, [Next]_vars PROVE IInv'
    OBVIOUS
<1> USE DEF IInv, TypeInv
<1>0. WrittenSeq'
    BY WrittenSeqStep
<1> USE <1>0
<1>1. CASE Setup
    <2>1. PICK fps \in FpsValues, rate \in RateValues :
                LET sr == MinOf(rate, fps) IN
                IF fps = 0 \/ sr = 0
                THEN /\ pc' = "crashed"
                     /\ UNCHANGED <<interval, sinterval, nxt, nxtSample>>
                ELSE /\ interval' = Per(fps) /\ sinterval' = Per(sr)
                     /\ nxt' = clock /\ nxtSample' = clock
                     /\ pc' = "pace"
        BY <1>1 DEF Setup
    <2>2. CASE fps = 0 \/ MinOf(rate, fps) = 0
        BY <1>1, <2>1, <2>2 DEF Setup, RateInv, FullRate
    <2>3. CASE ~(fps = 0 \/ MinOf(rate, fps) = 0)
        <3>1. fps \in Nat \ {0} /\ MinOf(rate, fps) \in Int \ {0}
            BY <2>3 DEF MinOf
        <3>2. interval' = Per(fps) /\ sinterval' = Per(MinOf(rate, fps))
              /\ nxt' = clock /\ nxtSample' = clock /\ pc' = "pace"
            BY <2>1, <2>3
        <3>3. interval' \in Nat
            BY <3>1, <3>2, PerPositive
        <3>4. sinterval' \in Int
            BY <3>1, <3>2 DEF Per
        <3>5. written = << >> /\ i = 0
            BY <1>1 DEF Setup
        <3>6. QED
            BY <1>1, <3>2, <3>3, <3>4, <3>5 DEF Setup, RateInv, FullRate
    <2>4. QED
        BY <2>2, <2>3
<1>2. CASE Pace
    <2>1. PICK t \in After(IF clock < nxt THEN nxt ELSE clock) :
                clock' = t /\ nxt' = t + interval
        BY <1>2 DEF Pace
    <2>2. clock' \in Int /\ clock <= clock' /\ clock' <= ClockBound
        BY <2>1, AfterMonotone
    <2>3. QED
        BY <1>2, <2>1, <2>2 DEF Pace, RateInv, FullRate
<1>3. CASE Read
    <2>1. clock' \in Int /\ clock <= clock' /\ clock' <= ClockBound
        BY <1>3, AfterMonotone DEF Read
    <2>2. /\ interval' = interval /\ sinterval' = sinterval
          /\ nxtSample' = nxtSample /\ written' = written /\ i' = i + 1
        BY <1>3 DEF Read
    <2>3. TypeInv'
        BY <1>3, <2>1, <2>2 DEF Read
    <2>4. SUFFICES ASSUME FullRate' PROVE RateInv'
        BY <2>3 DEF RateInv
    <2>5. FullRate /\ pc = "read"
        BY <1>3, <2>2, <2>4 DEF Read, FullRate
    <2>6. Len(written) = i /\ i <= NumFrames /\ nxtSample <= clock + interval
          /\ \A j \in 1 .. Len(written) : written[j].idx = j
        BY <2>5 DEF RateInv
    <2>10. nxtSample' <= clock' + interval'
        <3>1. nxtSample <= clock + interval
            BY <2>6
        <3>2. QED
            BY <3>1, <2>1, <2>2, DueStaysBounded
    <2>7. CASE i < NumFrames
        <3>1. pc' = "sample"
            BY <1>3, <2>7 DEF Read
        <3>2. Len(written') = i' - 1 /\ i' \in 1 .. NumFrames
            BY <2>2, <2>6, <2>7
        <3>3. nxtSample' <= clock' + interval'
            BY <2>10
        <3>4. \A j \in 1 .. Len(written') : written'[j].idx = j
            BY <2>2, <2>6
        <3>5. QED
            BY <3>1, <3>2, <3>3, <3>4 DEF RateInv
    <2>8. CASE ~(i < NumFrames)
        <3>1. pc' = "release"
            BY <1>3, <2>8 DEF Read
        <3>2. QED
            BY <2>2, <2>6, <2>8, <3>1 DEF RateInv
    <2>9. QED
        BY <2>7, <2>8
<1>4. CASE Sample
    <2>1. CASE SampleNotDue
        <3>1. ~FullRate
            BY <1>4, <2>1 DEF Sample, SampleNotDue, RateInv
        <3>2. QED
            BY <1>4, <2>1, <3>1 DEF Sample, RateInv, FullRate
    <2>2. CASE ~SampleNotDue
        BY <1>4, <2>2 DEF Sample, RateInv, FullRate
    <2>3. QED
        BY <2>1, <2>2
<1>5. CASE Put
    <2>1. clock' \in Int /\ clock <= clock' /\ clock' <= ClockBound
        BY <1>5, AfterMonotone DEF Put
    <2>2. [idx |-> i, t |-> clock] \in Written
        BY DEF Written
    <2>3. Len(written') = Len(written) + 1
          /\ written'[Len(written) + 1].idx = i
          /\ \A j \in 1 .. Len(written) : written'[j] = written[j]
        BY <1>5, <2>2, AppendProperties DEF Put, WrittenSeq
    <2>4. /\ interval' = interval /\ sinterval' = sinterval
          /\ nxt' = nxt /\ nxtSample' = nxtSample /\ i' = i /\ pc' = "pace"
        BY <1>5 DEF Put
    <2>5. TypeInv'
        BY <2>1, <2>3, <2>4
    <2>6. RateInv'
        <3>1. SUFFICES ASSUME FullRate' PROVE RateInv'
            BY <2>4 DEF RateInv, FullRate
        <3>2. FullRate /\ pc = "put"
            BY <1>5, <2>4, <3>1 DEF Put, FullRate
        <3>3. Len(written) = i - 1 /\ i \in 1 .. NumFrames
              /\ nxtSample <= clock + interval
              /\ \A j \in 1 .. Len(written) : written[j].idx = j
            BY <3>2 DEF RateInv
        <3>4. \A j \in 1 .. Len(written') : written'[j].idx = j
            BY <2>3, <3>3
        <3>5. Len(written') = i' /\ i' <= NumFrames
            BY <2>3, <2>4, <3>3
        <3>6. nxtSample' <= clock' + interval'
            BY <2>1, <2>4, <3>3, DueStaysBounded
        <3>7. QED
            BY <2>4, <3>4, <3>5, <3>6 DEF RateInv
    <2>7. QED
        BY <2>5, <2>6
<1>6. CASE Release
    BY <1>6 DEF Release, RateInv, FullRate
<1>7. CASE Interrupt
    BY <1>7 DEF Interrupt, RateInv, FullRate
<1>8. CASE Finished
    BY <1>8 DEF Finished, vars, RateInv, FullRate
<1>9. CASE UNCHANGED vars
    BY <1>9 DEF vars, RateInv, FullRate
<1>10. QED
    BY <1>1, <1>2, <1>3, <1>4, <1>5, <1>6, <1>7, <1>8, <1>9 DEF Next, Camera

\* When -r is at least the fps the capture loop drops no frame: for every
\* fps, rate, video length and pacing delay, every frame cap.read()
\* returns is trigger_put exactly once and in order.
THEOREM FullRateLossless == Spec => []FullRateKeepsEveryFrame
<1>1. IInv => FullRateKeepsEveryFrame
    BY DEF IInv, RateInv, FullRate, FullRateKeepsEveryFrame, MinOf
<1>2. QED
    BY <1>1, InitIInv, NextIInv, PTL DEF Spec
=============================================================================
