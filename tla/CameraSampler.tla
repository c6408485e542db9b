---------------------------- MODULE CameraSampler ----------------------------
(***************************************************************************)
(* The capture loop of applications/demos/dairy_farm/simulated_camera.py. *)
(* It paces cap.read() to the source's frame rate with time.sleep and     *)
(* trigger_puts a frame whenever the sampling schedule is due.            *)
(*                                                                         *)
(* Time is discrete: Ticks ticks make one second, so interval_sec is      *)
(* Ticks \div fps ticks.  time.time() is `clock`.  A read, a put and an   *)
(* oversleep take 0..Jitter ticks each.  Beyond ClockBound the clock      *)
(* stops advancing; it is larger than any run of the loop at the given    *)
(* NumFrames.                                                             *)
(***************************************************************************)
EXTENDS Integers, Sequences

CONSTANTS Ticks,       \* clock ticks per second
          FpsValues,   \* what cap.get(CAP_PROP_FPS) may return
          RateValues,  \* what float(args.rate) may be
          NumFrames,   \* frames the video source holds
          Jitter,      \* the most ticks one read, put or oversleep takes
          ClockBound   \* the largest clock value the model reaches

ASSUME CameraAssumption ==
    /\ Ticks \in Nat \ {0}
    /\ FpsValues \subseteq Nat /\ RateValues \subseteq Int
    /\ \A f \in FpsValues \ {0} : Ticks % f = 0
    /\ \A r \in RateValues \ {0} : Ticks % (IF r < 0 THEN -r ELSE r) = 0
    /\ NumFrames \in Nat /\ Jitter \in Nat /\ ClockBound \in Nat

VARIABLES
    pc,         \* where the main program is
    clock,      \* time.time()
    interval,   \* interval_sec
    sinterval,  \* sampling_interval_sec
    nxt,        \* nxt: when the next read is due
    nxtSample,  \* nxt_sample: when the next sample is due
    i,          \* the frame counter i
    written     \* the trigger_puts made: [idx |-> i, t |-> cur]

vars == <<pc, clock, interval, sinterval, nxt, nxtSample, i, written>>

MinOf(a, b) == IF a <= b THEN a ELSE b

\* Time passes by 0..Jitter ticks from t, saturating at ClockBound.
After(t) == {MinOf(t + d, ClockBound) : d \in 0 .. Jitter}

\* 1.0 / x in ticks, negative for a negative x: ZeroDivisionError when x = 0.
Per(x) == IF x < 0 THEN -(Ticks \div (-x)) ELSE Ticks \div x

\* Lines 60-86: open the source, read its fps, derive the intervals (1.0/fps
\* and 1.0/min(rate, fps) raise ZeroDivisionError on 0), register the
\* SIGINT handler, connect, and start both schedules now.
Setup ==
    /\ pc = "setup"
    /\ \E fps \in FpsValues, rate \in RateValues :
          LET sr == MinOf(rate, fps) IN
          IF fps = 0 \/ sr = 0
          THEN /\ pc' = "crashed"
               /\ UNCHANGED <<interval, sinterval, nxt, nxtSample>>
          ELSE /\ interval' = Per(fps) /\ sinterval' = Per(sr)
               /\ nxt' = clock /\ nxtSample' = clock
               /\ pc' = "pace"
    /\ UNCHANGED <<clock, i, written>>

\* Lines 87-91: `while (cap.isOpened)` tests the bound method, which is
\* always true; sleep until nxt if it is still ahead, then schedule the
\* next read one interval from now.
Pace ==
    /\ pc = "pace"
    /\ \E t \in After(IF clock < nxt THEN nxt ELSE clock) :
          /\ clock' = t
          /\ nxt' = t + interval
    /\ pc' = "read"
    /\ UNCHANGED <<interval, sinterval, nxtSample, i, written>>

(* Mutants of the loop, for the mutation runs.                            *)
\* `if ret == False: continue`: a failed read does not end the loop.
ReadNoBreak ==
    /\ pc = "read"
    /\ clock' \in After(clock)
    /\ i' = i + 1
    /\ pc' = "sample"
    /\ UNCHANGED <<interval, sinterval, nxt, nxtSample, written>>

\* `cur + interval_sec <= nxt_sample`: a frame exactly due is skipped.
SampleNotDueInclusive == clock + interval <= nxtSample

\* Lines 92-95: cap.read(); i counts the attempt; a failed read (the video
\* has no frame left) ends the loop.
Read ==
    /\ pc = "read"
    /\ clock' \in After(clock)
    /\ i' = i + 1
    /\ pc' = IF i < NumFrames THEN "sample" ELSE "release"
    /\ UNCHANGED <<interval, sinterval, nxt, nxtSample, written>>

\* Lines 96-99: skip the frame unless the next sample is due within one
\* frame interval of now; otherwise schedule the following sample.
SampleNotDue == clock + interval < nxtSample

Sample ==
    /\ pc = "sample"
    /\ IF SampleNotDue
       THEN /\ pc' = "pace"
            /\ UNCHANGED nxtSample
       ELSE /\ pc' = "put"
            /\ nxtSample' = clock + sinterval
    /\ UNCHANGED <<clock, interval, sinterval, nxt, i, written>>

\* Lines 100-102: create_payload and capi.trigger_put of frame i.
Put ==
    /\ pc = "put"
    /\ written' = Append(written, [idx |-> i, t |-> clock])
    /\ clock' \in After(clock)
    /\ pc' = "pace"
    /\ UNCHANGED <<interval, sinterval, nxt, nxtSample, i>>

\* Lines 103-104: cap.release() and destroyAllWindows after the loop.
Release ==
    /\ pc = "release"
    /\ pc' = "released"
    /\ UNCHANGED <<clock, interval, sinterval, nxt, nxtSample, i, written>>

\* Lines 74-79: SIGINT at any point after the handler is registered
\* releases the capture and exits.
Interrupt ==
    /\ pc \in {"pace", "read", "sample", "put", "release"}
    /\ pc' = "interrupted"
    /\ UNCHANGED <<clock, interval, sinterval, nxt, nxtSample, i, written>>

Ended == pc \in {"released", "crashed", "interrupted"}

Finished == Ended /\ UNCHANGED vars

Init ==
    /\ pc = "setup" /\ clock = 0
    /\ interval = 0 /\ sinterval = 0 /\ nxt = 0 /\ nxtSample = 0
    /\ i = 0 /\ written = << >>

Camera == Setup \/ Pace \/ Read \/ Sample \/ Put \/ Release

Next == Camera \/ Interrupt \/ Finished

Spec == Init /\ [][Next]_vars

\* The loop never waits on anything but the clock; only SIGINT is external.
FairSpec == Spec /\ WF_vars(Camera)

-----------------------------------------------------------------------------
(* Properties.                                                             *)

TypeOK ==
    /\ pc \in {"setup", "pace", "read", "sample", "put", "release",
              "released", "crashed", "interrupted"}
    /\ clock \in 0 .. ClockBound - 1
    /\ i \in 0 .. NumFrames + 1
    /\ written \in Seq([idx : 1 .. NumFrames, t : 0 .. ClockBound])

\* When the requested rate is at least the source's fps (or negative), the
\* sampling interval is at most the frame interval, and every frame
\* cap.read() returns is trigger_put, in order, none twice: the slack
\* `cur + interval_sec` of line 97 must never make a frame look early.
FullRateKeepsEveryFrame ==
    (pc \in {"pace", "release", "released"} /\ sinterval <= interval) =>
        /\ Len(written) = MinOf(i, NumFrames)
        /\ \A j \in 1 .. Len(written) : written[j].idx = j

\* The -r option is the "frame sampling rate in fps": no Rate + 1 frames
\* are trigger_put within less than one second.
SamplingRateRespected ==
    sinterval > 0 =>
        \A j \in 1 .. Len(written) :
            j + Ticks \div sinterval <= Len(written) =>
                written[j + Ticks \div sinterval].t - written[j].t >= Ticks
=============================================================================
