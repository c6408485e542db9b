-------------------------- MODULE PerfWindowProofs --------------------------
(***************************************************************************)
(* The perf harness implements the abstract bounded-window protocol of     *)
(* BoundedWindow under the mapping BW of PerfHarness, for every            *)
(* num_messages and max_pending_ops; and the protocol itself keeps the     *)
(* store's in-flight puts within the window.                               *)
(***************************************************************************)
EXTENDS PerfLedgerProofs

USE ConfigAssumption DEF ConfigAssumption

\* The mapped value of issuedCnt.
Issued == i + (IF dpc = "enqueue" THEN 1 ELSE 0)

-----------------------------------------------------------------------------
(* The refinement, step by step.                                           *)

LEMMA InitRefines == Init => BW!WInit
<1> SUFFICES ASSUME Init PROVE Issued = 0 /\ Done = {} /\ counter = 0
    BY DEF BW!WInit, Issued
<1>1. dpc # "enqueue"
    BY DEF Init, LoopHead, SendEntry
<1>2. QED
    BY <1>1 DEF Init, Issued, Done

\* A step that changes neither the mapped counts nor the store's
\* completions is a stuttering step of the protocol.
LEMMA StutterRefines ==
    ASSUME Issued' = Issued, Done' = Done, UNCHANGED counter
    PROVE  UNCHANGED BW!wvars
BY DEF BW!wvars, Issued

\* client.put (line 131) is the protocol's Issue: the message is below
\* num_messages, and with a window the slot wait of lines 117-124 has left
\* fewer than max_pending_ops puts unacknowledged.
LEMMA PutRefines ==
    ASSUME IInv, LedgerInv, Put
    PROVE  BW!Issue
<1>1. dpc = "put" /\ i \in Msgs /\ dpc' = "enqueue" /\ issued' = issued \cup {i}
      /\ UNCHANGED <<i, counter, doneAt>>
    BY DEF Put, IInv, TypeInv
<1>2. LedgerTypes /\ Len(fq) \in Nat /\ Len(batch) \in Nat
    <2>1. TypeInv
        BY DEF IInv
    <2>2. fq \in Seq(Msgs) /\ batch \in Seq(Msgs)
        BY <2>1 DEF TypeInv, TypeOK
    <2>3. QED
        BY <2>1, <2>2, LedgerTypesHold, LenProperties
<1>3. Issued = i /\ Issued' = i + 1
    BY <1>1, <1>2 DEF Issued, LedgerTypes
<1>4. Issued < NumMessages
    BY <1>1, <1>3 DEF Msgs
<1>5. MaxPendingOps > 0 => Issued - counter < MaxPendingOps
    <2> SUFFICES ASSUME MaxPendingOps > 0 PROVE i - counter < MaxPendingOps
        BY <1>3
    <2>1. cnt >= 0 /\ cnt + SlotsHeld = MaxPendingOps /\ cnt \in Int
        BY DEF IInv, SlotAccounting, Bounded, TypeInv, TypeOK
    <2>2. SlotsHeld >= Len(fq) + Len(batch) + 1
        BY <1>1, <1>2 DEF SlotsHeld
    <2>3. i - counter = Len(fq) + Len(batch)
        BY <1>2 DEF LedgerInv, HandlesInOrder, LedgerTypes
    <2>4. QED
        BY <1>2, <2>1, <2>2, <2>3, SlotsHeldType DEF IInv
<1>6. Done' = Done
    <2>1. doneAt[i] = 0
        BY <1>1, <1>2 DEF LedgerInv, LedgerShape, LedgerTypes
    <2>2. QED
        BY <1>1, <2>1 DEF Done
<1>7. QED
    BY <1>3, <1>4, <1>5, <1>6, <1>1 DEF BW!Issue, Issued

\* The store's completion of a put is the protocol's Complete.
LEMMA CompleteRefines ==
    ASSUME LedgerInv, NEW m \in Msgs, StoreComplete(m)
    PROVE  BW!Complete(m)
<1>1. m \in issued /\ doneAt[m] = 0 /\ doneAt' = [doneAt EXCEPT ![m] = clock]
      /\ UNCHANGED <<dpc, i, counter, issued>>
    BY DEF StoreComplete, Done
<1>2. LedgerTypes
    BY LedgerTypesHold DEF LedgerInv
<1>3. m \in 0 .. Issued - 1
    BY <1>1, <1>2 DEF LedgerInv, LedgerShape, Issued, LedgerTypes, Msgs
<1>4. Done' = Done \cup {m} /\ m \notin Done
    BY <1>1, <1>2 DEF Done, LedgerTypes
<1>5. QED
    BY <1>1, <1>3, <1>4 DEF BW!Complete, Issued

\* get_result's return for the head of the batch (lines 96-100) is the
\* protocol's Acknowledge: the head is message future_counter, issued and
\* completed.
LEMMA ResolveRefines ==
    ASSUME LedgerInv, Resolve
    PROVE  BW!Acknowledge
<1>0. TypeInv /\ HandlesInOrder
    BY DEF LedgerInv
<1>1. /\ batch # << >> /\ batch \in Seq(Msgs) /\ fq \in Seq(Msgs) /\ Head(batch) \in Done
      /\ counter' = counter + 1 /\ UNCHANGED <<dpc, i, issued, doneAt>>
    <2>1. cpc = "resolve"
        BY DEF Resolve
    <2>2. QED
        BY <1>0, <2>1 DEF Resolve, TypeInv, TypeOK
<1>2. LedgerTypes /\ Len(fq) \in Nat /\ Len(batch) \in Nat /\ Len(batch) > 0
    BY <1>0, <1>1, LedgerTypesHold, LenProperties, EmptySeq
<1>3. counter = Head(batch) /\ counter < i
    <2>1. Head(batch) = batch[1] /\ 1 \in 1 .. Len(batch)
        BY <1>2
    <2>2. QED
        BY <1>0, <1>2, <2>1 DEF HandlesInOrder, LedgerTypes
<1>4. counter < Issued /\ Issued' = Issued
    BY <1>1, <1>2, <1>3 DEF Issued, LedgerTypes
<1>5. QED
    BY <1>1, <1>3, <1>4 DEF BW!Acknowledge, Done, Issued

LEMMA NextRefines ==
    IInv /\ LedgerInv /\ [Next]_vars => [BW!WNext]_BW!wvars
<1> SUFFICES ASSUME IInv, LedgerInv, [Next]_vars PROVE [BW!WNext]_BW!wvars
    OBVIOUS
<1>1. CASE Put
    BY <1>1, PutRefines DEF BW!WNext
<1>2. ASSUME NEW m \in Msgs, StoreComplete(m)
      PROVE  [BW!WNext]_BW!wvars
    BY <1>2, CompleteRefines DEF BW!WNext, BW!Requests, Msgs
<1>3. CASE Resolve
    BY <1>3, ResolveRefines DEF BW!WNext
<1>4. CASE Enqueue
    <2>1. dpc = "enqueue" /\ i' = i + 1 /\ dpc' # "enqueue"
          /\ UNCHANGED <<counter, issued, doneAt>>
        BY <1>4 DEF Enqueue, LoopHead, SendEntry
    <2>2. i \in Nat
        BY LedgerTypesHold DEF LedgerInv, LedgerTypes
    <2>3. Issued' = Issued /\ Done' = Done
        BY <2>1, <2>2 DEF Issued, Done
    <2>4. QED
        BY <2>1, <2>3, StutterRefines
<1>5. CASE Acquire \/ StampSend \/ Join \/ PrintStatistics \/ Swap \/ Exit
           \/ Release \/ Finished \/ UNCHANGED vars
    <2>1. /\ UNCHANGED <<i, counter, issued, doneAt>>
          /\ (dpc' = "enqueue") = (dpc = "enqueue")
        BY <1>5 DEF Acquire, StampSend, Join, PrintStatistics, Swap, Exit,
                    Release, Finished, vars
    <2>2. Issued' = Issued /\ Done' = Done
        BY <2>1 DEF Issued, Done
    <2>3. QED
        BY <2>1, <2>2, StutterRefines
<1>6. QED
    BY <1>1, <1>2, <1>3, <1>4, <1>5 DEF Next, Driver, Collector, Store

\* Spec §2, §4.1-4.3: perf_test.py is a bounded-window put protocol: puts
\* are issued in index order, never more than max_pending_ops unacknowledged,
\* and acknowledged in issue order only once the store has completed them,
\* for every num_messages and max_pending_ops.
THEOREM HarnessImplementsWindow == Spec => WindowRefinement
<1>1. Init => BW!WInit
    BY InitRefines
<1>2. IInv /\ LedgerInv /\ [Next]_vars => [BW!WNext]_BW!wvars
    BY NextRefines
<1>3. Spec => [](IInv /\ LedgerInv)
    <2>1. Init => IInv
        BY InitTypeInv, InitSlotAccounting DEF IInv
    <2>2. IInv /\ [Next]_vars => IInv'
        BY NextTypeInv, NextSlotAccounting DEF IInv
    <2>3. QED
        BY <2>1, <2>2, LedgerInvariant, PTL DEF Spec
<1>4. QED
    BY <1>1, <1>2, <1>3, PTL DEF Spec, WindowRefinement, BW!WSpec
=============================================================================
