-------------------------- MODULE PerfLedgerProofs --------------------------
(***************************************************************************)
(* Proofs about the ledger of perf_test.py, for every num_messages and     *)
(* max_pending_ops: send_tss and recv_tss pair up by message index, each   *)
(* entry is written once, print_statistics sees a complete ledger whose    *)
(* timespan covers every latency, and the throttle bounds what the store   *)
(* holds. All rest on LedgerInv (PerfHarness), which TLC checks as an      *)
(* invariant of the perf runs' instances before it is proved here.         *)
(***************************************************************************)
EXTENDS PerfHarnessProofs, FiniteSetTheorems, SequenceTheorems

USE ConfigAssumption DEF ConfigAssumption

-----------------------------------------------------------------------------
(* The initial state.                                                      *)

LEMMA InitLedger == Init => LedgerInv
<1> SUFFICES ASSUME Init PROVE LedgerInv
    OBVIOUS
<1>1. TypeInv
    BY InitTypeInv
<1>2. dpc \in {"acquire", "stamp", "join"} /\ (dpc = "join" => 0 >= NumMessages)
    BY DEF Init, LoopHead, SendEntry
<1>3. HandlesInOrder
    BY DEF Init, HandlesInOrder
<1>4. LedgerShape
    BY <1>2 DEF Init, LedgerShape, SendStamped, Msgs
<1>5. LedgerTimes
    BY DEF Init, LedgerTimes
<1>6. QED
    BY <1>1, <1>3, <1>4, <1>5 DEF LedgerInv

-----------------------------------------------------------------------------
(* HandlesInOrder: the batch and the queue hold counter .. i-1 in order.   *)

\* A step that leaves the loop index, the counter and both queues alone.
LEMMA HandlesFrame ==
    ASSUME HandlesInOrder, UNCHANGED <<i, counter, batch, fq>>
    PROVE  HandlesInOrder'
BY DEF HandlesInOrder

LEMMA HandlesStep == LedgerInv /\ [Next]_vars => HandlesInOrder'
<1> SUFFICES ASSUME LedgerInv, [Next]_vars PROVE HandlesInOrder'
    OBVIOUS
<1>0. HandlesInOrder /\ TypeInv
    BY DEF LedgerInv
<1>00. fq \in Seq(Msgs) /\ batch \in Seq(Msgs) /\ counter \in Nat /\ i \in Nat
    BY <1>0 DEF TypeInv, TypeOK
<1> USE <1>0
<1>1. CASE Enqueue
    <2>1. fq' = Append(fq, i) /\ i' = i + 1 /\ UNCHANGED <<counter, batch>>
        BY <1>1 DEF Enqueue
    <2>2. i \in Msgs
        BY <1>1 DEF Enqueue, TypeInv
    <2>3. /\ Len(fq') = Len(fq) + 1
          /\ \A j \in 1 .. Len(fq) : fq'[j] = fq[j]
          /\ fq'[Len(fq) + 1] = i
        BY <1>00, <2>1, <2>2, AppendProperties
    <2>4. Len(fq) \in Nat /\ Len(batch) \in Nat
        BY <1>00, LenProperties
    <2>5. \A j \in 1 .. Len(fq') : fq'[j] = counter' + Len(batch') + j - 1
        <3> SUFFICES ASSUME NEW j \in 1 .. Len(fq')
                     PROVE  fq'[j] = counter' + Len(batch') + j - 1
            OBVIOUS
        <3>1. CASE j \in 1 .. Len(fq)
            BY <2>1, <2>3, <3>1 DEF HandlesInOrder
        <3>2. CASE j = Len(fq) + 1
            BY <2>1, <2>3, <2>4, <3>2 DEF HandlesInOrder
        <3>3. QED
            BY <2>3, <2>4, <3>1, <3>2
    <2>6. counter' + Len(batch') + Len(fq') = i'
        BY <1>00, <2>1, <2>3, <2>4 DEF HandlesInOrder
    <2>7. QED
        BY <2>1, <2>5, <2>6 DEF HandlesInOrder
<1>2. CASE Swap
    <2>1. batch = << >> /\ batch' = fq /\ fq' = << >> /\ UNCHANGED <<i, counter>>
        BY <1>2 DEF Swap, TypeInv
    <2>2. Len(fq) \in Nat /\ Len(batch) = 0 /\ Len(fq') = 0
        BY <1>00, <2>1, LenProperties
    <2>3. \A j \in 1 .. Len(batch') : batch'[j] = counter' + j - 1
        BY <1>00, <2>1, <2>2 DEF HandlesInOrder
    <2>4. counter' + Len(batch') + Len(fq') = i'
        BY <1>00, <2>1, <2>2 DEF HandlesInOrder
    <2>5. QED
        BY <2>2, <2>3, <2>4 DEF HandlesInOrder
<1>3. CASE Resolve
    <2>1. batch # << >> /\ batch' = Tail(batch) /\ counter' = counter + 1
          /\ UNCHANGED <<i, fq>>
        BY <1>3 DEF Resolve, TypeInv
    <2>2. Len(batch') = Len(batch) - 1
        BY <1>00, <2>1, HeadTailProperties
    <2>3. \A j \in 1 .. Len(batch') : batch'[j] = batch[j + 1]
        BY <1>00, <2>1, HeadTailProperties
    <2>35. Len(batch) \in Nat
        BY <1>00, LenProperties
    <2>4. \A j \in 1 .. Len(batch') : batch'[j] = counter' + j - 1
        BY <1>00, <2>1, <2>2, <2>3, <2>35 DEF HandlesInOrder
    <2>5. counter' + Len(batch') + Len(fq') = i'
        BY <1>00, <2>1, <2>2 DEF HandlesInOrder
    <2>6. \A j \in 1 .. Len(fq') : fq'[j] = counter' + Len(batch') + j - 1
        BY <1>00, <2>1, <2>2, <2>35 DEF HandlesInOrder
    <2>7. QED
        BY <2>4, <2>5, <2>6 DEF HandlesInOrder
<1>4. CASE Acquire \/ StampSend \/ Put \/ Join \/ PrintStatistics \/ Exit
           \/ Release \/ (\E m \in Msgs : StoreComplete(m)) \/ Finished
           \/ UNCHANGED vars
    BY <1>4, HandlesFrame
       DEF Acquire, StampSend, Put, Join, PrintStatistics, Exit, Release,
           StoreComplete, Finished, vars
<1>5. QED
    BY <1>1, <1>2, <1>3, <1>4 DEF Next, Driver, Collector, Store
-----------------------------------------------------------------------------
(* LedgerShape: which entries are written and what the store has seen.     *)

\* A step that touches neither thread's position nor the ledger.
LEMMA ShapeFrame ==
    ASSUME LedgerShape,
           UNCHANGED <<dpc, i, cpc, counter, sendTs, recvTs, issued, doneAt>>
    PROVE  LedgerShape'
BY DEF LedgerShape, SendStamped

\* The function-valued variables have their types; no sequence is involved.
LedgerTypes ==
    /\ i \in Nat /\ counter \in Nat /\ clock \in Nat \ {0}
    /\ sendTs \in [Msgs -> Nat] /\ recvTs \in [Msgs -> Nat]
    /\ doneAt \in [Msgs -> Nat] /\ issued \subseteq Msgs

LEMMA LedgerTypesHold == TypeInv => LedgerTypes
BY DEF TypeInv, TypeOK, LedgerTypes

LEMMA ShapeStep == LedgerInv /\ [Next]_vars => LedgerShape'
<1> SUFFICES ASSUME LedgerInv, [Next]_vars PROVE LedgerShape'
    OBVIOUS
<1>0. LedgerShape /\ TypeInv /\ HandlesInOrder
    BY DEF LedgerInv
<1>1. LedgerTypes
    BY <1>0, LedgerTypesHold
<1> USE <1>0, <1>1 DEF LedgerTypes
<1>2. CASE Acquire
    BY <1>2 DEF Acquire, LedgerShape, SendStamped
<1>3. CASE StampSend
    <2>1. dpc = "stamp" /\ dpc' = "put" /\ i \in Msgs
          /\ sendTs' = [sendTs EXCEPT ![i] = clock]
          /\ UNCHANGED <<i, cpc, counter, recvTs, issued, doneAt>>
        BY <1>3 DEF StampSend, TypeInv
    <2>2. \A k \in Msgs : sendTs'[k] # 0 <=> SendStamped(k)'
        BY <2>1 DEF LedgerShape, SendStamped
    <2>3. QED
        BY <2>1, <2>2 DEF LedgerShape
<1>4. CASE Put
    <2>1. dpc = "put" /\ dpc' = "enqueue" /\ i \in Msgs /\ issued' = issued \cup {i}
          /\ UNCHANGED <<i, cpc, counter, sendTs, recvTs, doneAt>>
        BY <1>4 DEF Put, TypeInv
    <2>2. QED
        BY <2>1 DEF LedgerShape, SendStamped
<1>5. CASE Enqueue
    <2>1. dpc = "enqueue" /\ i \in Msgs /\ i' = i + 1 /\ dpc' = LoopHead(i + 1)
          /\ UNCHANGED <<cpc, counter, sendTs, recvTs, issued, doneAt>>
        BY <1>5 DEF Enqueue, TypeInv
    <2>2. dpc' \in {"acquire", "stamp", "join"} /\ (dpc' = "join" => i' >= NumMessages)
        BY <2>1 DEF LoopHead, SendEntry
    <2>3. \A k \in Msgs : SendStamped(k)' <=> SendStamped(k)
        BY <2>1, <2>2 DEF SendStamped
    <2>4. issued' = {k \in Msgs : k < i' \/ (k = i' /\ dpc' = "enqueue")}
        <3>1. issued = {k \in Msgs : k < i + 1}
            <4>1. issued = {k \in Msgs : k < i \/ (k = i /\ dpc = "enqueue")}
                BY DEF LedgerShape
            <4>2. \A k \in Msgs : (k < i \/ (k = i /\ dpc = "enqueue")) <=> k < i + 1
                BY <2>1 DEF Msgs
            <4>3. QED
                BY <4>1, <4>2
        <3>2. {k \in Msgs : k < i' \/ (k = i' /\ dpc' = "enqueue")} = {k \in Msgs : k < i + 1}
            BY <2>1, <2>2
        <3>3. QED
            BY <2>1, <3>1, <3>2
    <2>5. QED
        BY <2>1, <2>2, <2>3, <2>4 DEF LedgerShape
<1>6. CASE Join \/ PrintStatistics
    BY <1>6 DEF Join, PrintStatistics, LedgerShape, SendStamped
<1>7. CASE Swap \/ Release
    BY <1>7 DEF Swap, Release, AfterHandle, LedgerShape, SendStamped
<1>8. CASE Exit
    BY <1>8 DEF Exit, LedgerShape, SendStamped
<1>9. CASE Resolve
    <2>1. batch # << >> /\ batch \in Seq(Msgs)
        BY <1>9 DEF Resolve, TypeInv, TypeOK
    <2>2. counter = batch[1] /\ counter \in Msgs
        BY <2>1, LenProperties DEF HandlesInOrder
    <2>3. recvTs' = [recvTs EXCEPT ![counter] = clock] /\ counter' = counter + 1
          /\ cpc' # "exit" /\ cpc = "resolve"
          /\ UNCHANGED <<dpc, i, sendTs, issued, doneAt>>
        BY <1>9 DEF Resolve, AfterHandle
    <2>4. QED
        BY <2>2, <2>3 DEF LedgerShape, SendStamped
<1>10. ASSUME NEW m \in Msgs, StoreComplete(m)
       PROVE  LedgerShape'
    <2>1. m \in issued /\ doneAt' = [doneAt EXCEPT ![m] = clock]
          /\ UNCHANGED <<dpc, i, cpc, counter, sendTs, recvTs, issued>>
        BY <1>10 DEF StoreComplete
    <2>2. QED
        BY <2>1 DEF LedgerShape, SendStamped
<1>11. CASE Finished \/ UNCHANGED vars
    BY <1>11, ShapeFrame DEF Finished, vars
<1>12. QED
    BY <1>2, <1>3, <1>4, <1>5, <1>6, <1>7, <1>8, <1>9, <1>10, <1>11
       DEF Next, Driver, Collector, Store
-----------------------------------------------------------------------------
(* LedgerTimes: the order of the stamps.                                   *)

\* A step that stamps nothing and leaves the clock alone.
LEMMA TimesFrame ==
    ASSUME LedgerTimes, UNCHANGED <<sendTs, recvTs, doneAt, clock>>
    PROVE  LedgerTimes'
BY DEF LedgerTimes

\* The counter never passes the loop index.
LEMMA CounterBelowIndex ==
    ASSUME TypeInv, HandlesInOrder
    PROVE  counter <= i
<1>1. Len(batch) \in Nat /\ Len(fq) \in Nat
    BY LenProperties DEF TypeInv, TypeOK
<1>2. QED
    BY <1>1 DEF HandlesInOrder, TypeInv, TypeOK

LEMMA TimesStep == LedgerInv /\ [Next]_vars => LedgerTimes'
<1> SUFFICES ASSUME LedgerInv, [Next]_vars PROVE LedgerTimes'
    OBVIOUS
<1>0. LedgerTimes /\ LedgerShape /\ TypeInv /\ HandlesInOrder
    BY DEF LedgerInv
<1>1. LedgerTypes
    BY <1>0, LedgerTypesHold
<1> USE <1>0, <1>1 DEF LedgerTypes
<1>2. CASE StampSend
    <2>1. dpc = "stamp" /\ i \in Msgs /\ sendTs' = [sendTs EXCEPT ![i] = clock]
          /\ clock' = clock + 1 /\ UNCHANGED <<recvTs, doneAt>>
        BY <1>2 DEF StampSend, TypeInv
    <2>2. doneAt[i] = 0
        BY <2>1 DEF LedgerShape
    <2>3. \A l \in Msgs : l > i => sendTs[l] = 0
        BY <2>1 DEF LedgerShape, SendStamped
    <2>4. QED
        BY <2>1, <2>2, <2>3 DEF LedgerTimes
<1>3. CASE Resolve
    <2>1. batch # << >> /\ batch \in Seq(Msgs)
        BY <1>3 DEF Resolve, TypeInv, TypeOK
    <2>2. counter = Head(batch) /\ counter \in Msgs
        BY <2>1, LenProperties DEF HandlesInOrder
    <2>3. doneAt[counter] # 0
        BY <1>3, <2>2 DEF Resolve, Done
    <2>4. recvTs' = [recvTs EXCEPT ![counter] = clock] /\ clock' = clock + 1
          /\ UNCHANGED <<sendTs, doneAt>>
        BY <1>3 DEF Resolve
    <2>5. \A l \in Msgs : l > counter => recvTs[l] = 0
        BY <2>2 DEF LedgerShape, Msgs
    <2>6. QED
        BY <2>2, <2>3, <2>4, <2>5 DEF LedgerTimes
<1>4. ASSUME NEW m \in Msgs, StoreComplete(m)
      PROVE  LedgerTimes'
    <2>1. doneAt[m] = 0 /\ doneAt' = [doneAt EXCEPT ![m] = clock]
          /\ clock' = clock + 1 /\ UNCHANGED <<sendTs, recvTs>>
        BY <1>4 DEF StoreComplete, Done
    <2>2. recvTs[m] = 0
        BY <2>1 DEF LedgerTimes
    <2>3. QED
        BY <2>1, <2>2 DEF LedgerTimes
<1>5. CASE Acquire \/ Put \/ Enqueue \/ Join \/ PrintStatistics \/ Swap \/ Exit
           \/ Release \/ Finished \/ UNCHANGED vars
    BY <1>5, TimesFrame
       DEF Acquire, Put, Enqueue, Join, PrintStatistics, Swap, Exit, Release,
           Finished, vars
<1>6. QED
    BY <1>2, <1>3, <1>4, <1>5 DEF Next, Driver, Collector, Store

LEMMA NextLedger == LedgerInv /\ [Next]_vars => LedgerInv'
BY NextTypeInv, HandlesStep, ShapeStep, TimesStep DEF LedgerInv
THEOREM LedgerInvariant == Spec => []LedgerInv
BY InitLedger, NextLedger, PTL DEF Spec

-----------------------------------------------------------------------------
(* The ledger properties the perf runs check.                              *)

\* Spec §3: recv_tss is indexed by future_counter (line 99), not by the
\* handle's message; still, a receive stamp of message k always comes with
\* k's send stamp and the store's completion of k, in that order, for every
\* num_messages and max_pending_ops.
THEOREM LedgerPairsHold == Spec => []LedgerPairs
<1>1. LedgerInv => LedgerPairs
    <2> SUFFICES ASSUME LedgerInv, NEW k \in Msgs, recvTs[k] # 0
                 PROVE  /\ sendTs[k] # 0 /\ doneAt[k] # 0
                        /\ sendTs[k] < doneAt[k] /\ doneAt[k] < recvTs[k]
        BY DEF LedgerPairs
    <2>1. counter <= i /\ LedgerTypes
        BY CounterBelowIndex, LedgerTypesHold DEF LedgerInv
    <2>2. k < counter
        BY <2>1 DEF LedgerInv, LedgerShape, LedgerTypes
    <2>3. sendTs[k] # 0
        BY <2>1, <2>2 DEF LedgerInv, LedgerShape, SendStamped, LedgerTypes, Msgs
    <2>4. QED
        BY <2>3 DEF LedgerInv, LedgerTimes
<1>2. QED
    BY <1>1, LedgerInvariant, PTL

\* Once main() is past the join, every ledger entry is written.
LEMMA StatsLedger ==
    ASSUME LedgerInv, dpc \in {"stats", "complete"}, NEW k \in Msgs
    PROVE  sendTs[k] # 0 /\ recvTs[k] # 0
<1>1. LedgerTypes
    BY LedgerTypesHold DEF LedgerInv
<1>2. i >= NumMessages /\ counter = NumMessages
    BY DEF LedgerInv, LedgerShape
<1>3. QED
    BY <1>1, <1>2 DEF LedgerInv, LedgerShape, SendStamped, LedgerTypes, Msgs

\* Spec §4.4: print_statistics (line 216) reads a complete ledger: the join
\* of line 212 returns only once poll_results has stamped every recv_tss.
THEOREM LedgerCompleteAtStatsHold == Spec => []LedgerCompleteAtStats
<1>1. LedgerInv => LedgerCompleteAtStats
    BY StatsLedger DEF LedgerCompleteAtStats
<1>2. QED
    BY <1>1, LedgerInvariant, PTL

\* Lines 146-148: the timespan print_statistics divides by is positive,
\* and no message's latency (line 152) exceeds it.
THEOREM LatencyWithinTimespanHold == Spec => []LatencyWithinTimespan
<1>1. LedgerInv => LatencyWithinTimespan
    <2> SUFFICES ASSUME LedgerInv, dpc = "complete"
                 PROVE  /\ Timespan > 0
                        /\ \A k \in Msgs : 0 <= Latency(k) /\ Latency(k) <= Timespan
        BY DEF LatencyWithinTimespan
    <2>1. LedgerTypes /\ LedgerTimes /\ NumMessages >= 1
        BY LedgerTypesHold DEF LedgerInv, LedgerShape
    <2>2. \A k \in Msgs : sendTs[k] # 0 /\ recvTs[k] # 0
        BY StatsLedger
    <2>3. 0 \in Msgs /\ NumMessages - 1 \in Msgs
        BY <2>1 DEF Msgs
    <2>4. \A k \in Msgs : sendTs[k] < doneAt[k] /\ doneAt[k] < recvTs[k]
        BY <2>1, <2>2 DEF LedgerTimes
    <2>5. \A k \in Msgs : sendTs[0] <= sendTs[k] /\ recvTs[k] <= recvTs[NumMessages - 1]
        <3> TAKE k \in Msgs
        <3>1. sendTs[0] <= sendTs[k]
            <4>1. CASE k = 0
                BY <4>1, <2>1 DEF LedgerTypes
            <4>2. CASE k # 0
                <5>1. 0 < k
                    BY <4>2 DEF Msgs
                <5>2. \A a, b \in Msgs : a < b /\ sendTs[b] # 0 => sendTs[a] < sendTs[b]
                    BY <2>1 DEF LedgerTimes
                <5>3. sendTs[k] # 0
                    BY <2>2
                <5>4. QED
                    BY <5>1, <5>2, <5>3, <2>1, <2>3 DEF LedgerTypes
            <4>3. QED
                BY <4>1, <4>2
        <3>2. recvTs[k] <= recvTs[NumMessages - 1]
            <4>1. CASE k = NumMessages - 1
                BY <4>1, <2>1 DEF LedgerTypes
            <4>2. CASE k # NumMessages - 1
                <5>1. k < NumMessages - 1
                    BY <4>2 DEF Msgs
                <5>2. \A a, b \in Msgs : a < b /\ recvTs[b] # 0 => recvTs[a] < recvTs[b]
                    BY <2>1 DEF LedgerTimes
                <5>3. recvTs[NumMessages - 1] # 0
                    BY <2>2, <2>3
                <5>4. QED
                    BY <5>1, <5>2, <5>3, <2>1, <2>3 DEF LedgerTypes
            <4>3. QED
                BY <4>1, <4>2
        <3>3. QED
            BY <3>1, <3>2
    <2>6. QED
        BY <2>1, <2>3, <2>4, <2>5 DEF Timespan, Latency, LedgerTypes
<1>2. QED
    BY <1>1, LedgerInvariant, PTL
\* The step relation of StampsWrittenOnce.
StampsKept ==
    \A k \in Msgs :
        /\ (sendTs[k] # 0 => sendTs'[k] = sendTs[k])
        /\ (recvTs[k] # 0 => recvTs'[k] = recvTs[k])

\* Spec §3: do_send stamps send_tss[i] (line 127) and poll_results stamps
\* recv_tss[future_counter] (line 99) only where nothing was stamped yet:
\* no entry of either ledger is ever overwritten.
THEOREM StampsWrittenOnceHolds == Spec => StampsWrittenOnce
<1>1. LedgerInv /\ [Next]_vars => [StampsKept]_vars
    <2> SUFFICES ASSUME LedgerInv, [Next]_vars PROVE [StampsKept]_vars
        OBVIOUS
    <2>0. LedgerTypes /\ LedgerShape /\ TypeInv
        BY LedgerTypesHold DEF LedgerInv
    <2> USE <2>0 DEF LedgerTypes
    <2>1. CASE StampSend
        <3>1. dpc = "stamp" /\ i \in Msgs /\ sendTs' = [sendTs EXCEPT ![i] = clock]
              /\ UNCHANGED recvTs
            BY <2>1 DEF StampSend, TypeInv
        <3>2. sendTs[i] = 0
            BY <3>1 DEF LedgerShape, SendStamped
        <3>3. QED
            BY <3>1, <3>2 DEF StampsKept
    <2>2. CASE Resolve
        <3>1. batch # << >> /\ batch \in Seq(Msgs)
            BY <2>2 DEF Resolve, TypeInv, TypeOK
        <3>2. counter = batch[1] /\ counter \in Msgs
            BY <3>1, LenProperties DEF LedgerInv, HandlesInOrder
        <3>3. recvTs' = [recvTs EXCEPT ![counter] = clock] /\ UNCHANGED sendTs
            BY <2>2 DEF Resolve
        <3>4. recvTs[counter] = 0
            BY <3>2 DEF LedgerShape
        <3>5. QED
            BY <3>2, <3>3, <3>4 DEF StampsKept
    <2>3. CASE ~StampSend /\ ~Resolve
        <3>1. UNCHANGED <<sendTs, recvTs>>
            BY <2>3 DEF Next, Driver, Collector, Store, Acquire, Put, Enqueue,
                        Join, PrintStatistics, Swap, Exit, Release, StoreComplete,
                        Finished, vars
        <3>2. QED
            BY <3>1 DEF StampsKept
    <2>4. QED
        BY <2>1, <2>2, <2>3
<1>2. QED
    BY <1>1, LedgerInvariant, PTL DEF StampsWrittenOnce, StampsKept, Spec

-----------------------------------------------------------------------------
(* The store window.                                                       *)

\* The put issued by a do_send that has not appended its handle yet.
Unqueued == IF dpc = "enqueue" THEN 1 ELSE 0

\* The puts the store holds lie in counter .. i - 1, plus message i while
\* do_send is between client.put and the append: resolved messages below
\* counter are completed.
LEMMA OutstandingInterval ==
    ASSUME LedgerInv
    PROVE  Outstanding \subseteq counter .. (i - 1 + Unqueued)
<1> SUFFICES ASSUME LedgerInv, NEW k \in Outstanding
             PROVE  k \in counter .. (i - 1 + Unqueued)
    OBVIOUS
<1>1. LedgerTypes
    BY LedgerTypesHold DEF LedgerInv
<1>2. k \in Msgs /\ (k < i \/ (k = i /\ dpc = "enqueue")) /\ doneAt[k] = 0
    BY <1>1 DEF Outstanding, Done, LedgerInv, LedgerShape, LedgerTypes
<1>3. recvTs[k] = 0
    BY <1>2 DEF LedgerInv, LedgerTimes
<1>4. k >= counter
    BY <1>1, <1>2, <1>3 DEF LedgerInv, LedgerShape, LedgerTypes, Msgs
<1>5. QED
    BY <1>1, <1>2, <1>4 DEF Unqueued, LedgerTypes, Msgs

\* An interval a .. b with a <= b + 1 holds b - a + 1 numbers.
LEMMA IntervalCardinality ==
    ASSUME NEW a \in Int, NEW b \in Int, a <= b + 1
    PROVE  IsFiniteSet(a .. b) /\ Cardinality(a .. b) = b - a + 1
BY FS_Interval

\* Spec §4.3: with max_pending_ops > 0 the store never holds more than
\* max_pending_ops puts (line 131) that it has not completed, whatever
\* order it completes them in: a slot is given back (line 104) only after
\* get_result, and only for the oldest handle.
THEOREM StoreWindowHolds == Spec => []StoreWindow
<1>1. IInv /\ LedgerInv => StoreWindow
    <2> SUFFICES ASSUME IInv, LedgerInv, Bounded
                 PROVE  Cardinality(Outstanding) <= MaxPendingOps
        BY DEF StoreWindow
    <2>1. LedgerTypes /\ Len(fq) \in Nat /\ Len(batch) \in Nat
        BY LedgerTypesHold, LenProperties DEF LedgerInv, TypeInv, TypeOK
    <2>2. counter + Len(batch) + Len(fq) = i
        BY DEF LedgerInv, HandlesInOrder
    <2>3. cnt >= 0 /\ cnt + SlotsHeld = MaxPendingOps /\ SlotsHeld \in Nat /\ cnt \in Int
        BY SlotsHeldType DEF IInv, SlotAccounting, TypeInv, TypeOK
    <2>4. Len(fq) + Len(batch) + Unqueued <= SlotsHeld
        BY <2>1 DEF SlotsHeld, Unqueued
    <2>5. /\ IsFiniteSet(counter .. (i - 1 + Unqueued))
          /\ Cardinality(counter .. (i - 1 + Unqueued)) = i - counter + Unqueued
        <3>1. Unqueued \in {0, 1} /\ counter <= i
            BY <2>1, <2>2 DEF Unqueued, LedgerTypes
        <3>2. i - 1 + Unqueued \in Int /\ counter <= (i - 1 + Unqueued) + 1
            BY <2>1, <3>1 DEF LedgerTypes
        <3> DEFINE last == i - 1 + Unqueued
        <3>3. counter \in Int /\ last \in Int /\ counter <= last + 1
            BY <2>1, <3>2 DEF LedgerTypes
        <3>4. IsFiniteSet(counter .. last) /\ Cardinality(counter .. last) = last - counter + 1
            BY <3>3, IntervalCardinality, Zenon
        <3>5. QED
            BY <2>1, <3>1, <3>4 DEF LedgerTypes
    <2>6. Cardinality(Outstanding) <= i - counter + Unqueued
        <3>1. Outstanding \subseteq counter .. (i - 1 + Unqueued)
            BY OutstandingInterval
        <3>2. QED
            BY <2>5, <3>1, FS_Subset
    <2>65. Cardinality(Outstanding) \in Nat
        BY <2>5, OutstandingInterval, FS_Subset, FS_CardinalityType
    <2>7. Unqueued \in {0, 1}
        BY DEF Unqueued
    <2>8. QED
        BY <2>1, <2>2, <2>3, <2>4, <2>6, <2>65, <2>7 DEF LedgerTypes
<1>2. QED
    BY <1>1, PermitBoundsHold, LedgerInvariant, InitTypeInv, InitSlotAccounting,
       NextTypeInv, NextSlotAccounting, PTL DEF Spec, IInv
=============================================================================
