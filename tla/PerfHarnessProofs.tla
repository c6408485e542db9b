------------------------- MODULE PerfHarnessProofs -------------------------
(***************************************************************************)
(* Proofs about PerfHarness for every num_messages and max_pending_ops:    *)
(* the type invariant, and that the tx slot count of perf_test.py stays    *)
(* within 0 .. max_pending_ops under every interleaving of do_send and     *)
(* poll_results.                                                           *)
(***************************************************************************)
EXTENDS PerfHarness, TLAPS

USE ConfigAssumption DEF ConfigAssumption

\* The Driver-side program counters inside one call of do_send.
InSend == {"acquire", "stamp", "put", "enqueue"}

-----------------------------------------------------------------------------
(* Type correctness, strengthened by TypeInv.                              *)

LEMMA InitTypeInv == Init => TypeInv
<1> SUFFICES ASSUME Init PROVE TypeInv
    OBVIOUS
<1>1. dpc \in {"acquire", "stamp", "join"}
    BY DEF Init, LoopHead, SendEntry
<1>2. dpc \in InSend => i \in Msgs
    BY DEF Init, LoopHead, SendEntry, Msgs, InSend
<1>3. QED
    BY <1>1, <1>2 DEF Init, TypeInv, TypeOK, InSend

LEMMA NextTypeInv == TypeInv /\ [Next]_vars => TypeInv'
<1> SUFFICES ASSUME TypeInv, [Next]_vars PROVE TypeInv'
    OBVIOUS
<1> USE DEF TypeInv, TypeOK
<1>1. CASE Acquire
    BY <1>1 DEF Acquire
<1>2. CASE StampSend
    <2>1. i \in Msgs /\ clock \in Nat
        BY <1>2 DEF StampSend
    <2>2. sendTs' \in [Msgs -> Nat]
        BY <1>2, <2>1 DEF StampSend
    <2>3. QED
        BY <1>2, <2>1, <2>2 DEF StampSend
<1>3. CASE Put
    BY <1>3 DEF Put
<1>4. CASE Enqueue
    <2>1. dpc' \in {"acquire", "stamp", "join"}
        BY <1>4 DEF Enqueue, LoopHead, SendEntry
    <2>2. dpc' \in InSend => i' \in Msgs
        BY <1>4 DEF Enqueue, LoopHead, SendEntry, Msgs, InSend
    <2>3. i \in Msgs /\ fq \in Seq(Msgs)
        BY <1>4 DEF Enqueue, InSend
    <2>4. fq' \in Seq(Msgs) /\ i' \in Nat
        BY <1>4, <2>3 DEF Enqueue, Msgs
    <2>5. QED
        BY <1>4, <2>1, <2>2, <2>4 DEF Enqueue, InSend
<1>5. CASE Join
    BY <1>5 DEF Join
<1>6. CASE PrintStatistics
    BY <1>6 DEF PrintStatistics
<1>7. CASE Swap
    BY <1>7 DEF Swap
<1>8. CASE Exit
    BY <1>8 DEF Exit
<1>9. CASE Resolve
    <2>1. batch # << >> /\ batch \in Seq(Msgs)
        BY <1>9 DEF Resolve
    <2>2. Tail(batch) \in Seq(Msgs)
        BY <2>1
    <2>3. cpc' \in {"release", "top", "resolve"}
        BY <1>9 DEF Resolve, AfterHandle
    <2>4. cpc' = "resolve" => batch' # << >>
        BY <1>9 DEF Resolve, AfterHandle
    <2>5. recvTs' \in [Msgs -> Nat]
        BY <1>9 DEF Resolve
    <2>6. counter' \in Nat /\ clock' \in Nat \ {0}
        BY <1>9 DEF Resolve
    <2>7. cpc' \in {"top", "exit"} => batch' = << >>
        BY <1>9 DEF Resolve, AfterHandle
    <2>8. QED
        BY <1>9, <2>2, <2>3, <2>4, <2>5, <2>6, <2>7 DEF Resolve
<1>10. CASE Release
    BY <1>10 DEF Release, AfterHandle
<1>11. CASE \E m \in Msgs : StoreComplete(m)
    BY <1>11 DEF StoreComplete, Done
<1>12. CASE Finished
    BY <1>12 DEF Finished, vars
<1>13. CASE UNCHANGED vars
    BY <1>13 DEF vars
<1>14. QED
    BY <1>1, <1>2, <1>3, <1>4, <1>5, <1>6, <1>7, <1>8, <1>9, <1>10,
       <1>11, <1>12, <1>13 DEF Next, Driver, Collector, Store

\* Every reachable state of the harness is well typed: the queues hold
\* message indices, the ledgers and completion times are functions of the
\* message indices.
THEOREM TypeCorrect == Spec => []TypeOK
<1>1. Init => TypeInv
    BY InitTypeInv
<1>2. TypeInv /\ [Next]_vars => TypeInv'
    BY NextTypeInv
<1>3. TypeInv => TypeOK
    BY DEF TypeInv
<1>4. QED
    BY <1>1, <1>2, <1>3, PTL DEF Spec

-----------------------------------------------------------------------------
(* The tx slot count: SlotAccounting is inductive relative to TypeInv.     *)

\* The Driver-side program counters at which a slot is held.
InWindow == {"stamp", "put", "enqueue"}

\* The slot count held is a natural number in every well-typed state.
LEMMA SlotsHeldType == TypeInv => SlotsHeld \in Nat
    BY DEF TypeInv, TypeOK, SlotsHeld

\* The same, one step later.
LEMMA SlotsHeldTypePrime == TypeInv' => SlotsHeld' \in Nat
    BY DEF TypeInv, TypeOK, SlotsHeld

LEMMA InitSlotAccounting == Init => SlotAccounting
<1> SUFFICES ASSUME Init, Bounded PROVE cnt >= 0 /\ cnt + SlotsHeld = MaxPendingOps
    BY DEF SlotAccounting
<1>1. dpc \in {"acquire", "join"}
    BY DEF Init, LoopHead, SendEntry
<1>2. SlotsHeld = 0
    BY <1>1 DEF Init, SlotsHeld
<1>3. QED
    BY <1>2 DEF Init, Bounded

LEMMA NextSlotAccounting ==
    TypeInv /\ SlotAccounting /\ [Next]_vars => SlotAccounting'
<1> SUFFICES ASSUME TypeInv, SlotAccounting, [Next]_vars, Bounded
             PROVE  cnt' >= 0 /\ cnt' + SlotsHeld' = MaxPendingOps
    BY DEF SlotAccounting, Bounded
<1>0. cnt >= 0 /\ cnt + SlotsHeld = MaxPendingOps
    BY DEF SlotAccounting
<1>00. SlotsHeld \in Nat /\ SlotsHeld' \in Nat /\ cnt \in Int /\ cnt' \in Int
    BY SlotsHeldType, SlotsHeldTypePrime, NextTypeInv DEF TypeInv, TypeOK
<1> USE DEF TypeInv, TypeOK
<1>1. CASE Acquire
    <2>1. SlotsHeld' = SlotsHeld + 1
        BY <1>1 DEF Acquire, SlotsHeld
    <2>2. cnt' = cnt - 1 /\ cnt > 0
        BY <1>1 DEF Acquire
    <2>3. QED
        BY <1>0, <1>00, <2>1, <2>2
<1>2. CASE StampSend
    BY <1>0, <1>2 DEF StampSend, SlotsHeld
<1>3. CASE Put
    BY <1>0, <1>3 DEF Put, SlotsHeld
<1>4. CASE Enqueue
    <2>1. dpc' \in {"acquire", "join"}
        BY <1>4 DEF Enqueue, LoopHead, SendEntry
    <2>2. Len(fq') = Len(fq) + 1
        BY <1>4 DEF Enqueue, Msgs
    <2>3. /\ (IF dpc' \in InWindow THEN 1 ELSE 0) = 0
          /\ (IF dpc \in InWindow THEN 1 ELSE 0) = 1
        BY <1>4, <2>1 DEF Enqueue, InWindow
    <2>4. cpc' = cpc /\ batch' = batch /\ Len(fq) \in Nat /\ Len(batch) \in Nat
        BY <1>4 DEF Enqueue
    <2>5. SlotsHeld' = SlotsHeld
        BY <2>2, <2>3, <2>4 DEF SlotsHeld, InWindow
    <2>6. QED
        BY <1>0, <1>00, <1>4, <2>5 DEF Enqueue
<1>5. CASE Join
    BY <1>0, <1>5 DEF Join, SlotsHeld
<1>6. CASE PrintStatistics
    BY <1>0, <1>6 DEF PrintStatistics, SlotsHeld
<1>7. CASE Swap
    <2>1. batch = << >>
        BY <1>7 DEF Swap
    <2>2. Len(batch') + Len(fq') = Len(fq) + Len(batch)
        BY <1>7, <2>1 DEF Swap
    <2>3. QED
        BY <1>0, <1>7, <2>2 DEF Swap, SlotsHeld
<1>8. CASE Exit
    BY <1>0, <1>8 DEF Exit, SlotsHeld
<1>9. CASE Resolve
    <2>1. Len(batch') = Len(batch) - 1
        BY <1>9 DEF Resolve
    <2>2. cpc' = "release" /\ cpc = "resolve"
        BY <1>9 DEF Resolve
    <2>3. QED
        BY <1>0, <1>9, <2>1, <2>2 DEF Resolve, SlotsHeld
<1>10. CASE Release
    <2>1. cpc' # "release"
        BY <1>10 DEF Release, AfterHandle
    <2>2. QED
        BY <1>0, <1>10, <2>1 DEF Release, SlotsHeld
<1>11. CASE \E m \in Msgs : StoreComplete(m)
    BY <1>0, <1>11 DEF StoreComplete, SlotsHeld
<1>12. CASE Finished
    BY <1>0, <1>12 DEF Finished, vars, SlotsHeld
<1>13. CASE UNCHANGED vars
    BY <1>0, <1>13 DEF vars, SlotsHeld
<1>14. QED
    BY <1>1, <1>2, <1>3, <1>4, <1>5, <1>6, <1>7, <1>8, <1>9, <1>10,
       <1>11, <1>12, <1>13 DEF Next, Driver, Collector, Store

\* Spec §4.1: whatever the interleaving of do_send's slot wait and decrement
\* with poll_results's increment, idle_tx_slot_cnt stays within
\* 0 .. max_pending_ops, for every num_messages and max_pending_ops.
THEOREM PermitBoundsHold == Spec => []PermitBounds
<1>1. Init => IInv
    BY InitTypeInv, InitSlotAccounting DEF IInv
<1>2. IInv /\ [Next]_vars => IInv'
    BY NextTypeInv, NextSlotAccounting DEF IInv
<1>3. IInv => PermitBounds
    <2> SUFFICES ASSUME IInv, Bounded PROVE cnt \in 0 .. MaxPendingOps
        BY DEF PermitBounds
    <2>1. SlotsHeld \in Nat
        BY SlotsHeldType DEF IInv
    <2>2. cnt \in Int /\ cnt >= 0 /\ cnt + SlotsHeld = MaxPendingOps
        BY DEF IInv, SlotAccounting, TypeInv, TypeOK
    <2>3. QED
        BY <2>1, <2>2
<1>4. QED
    BY <1>1, <1>2, <1>3, PTL DEF Spec

=============================================================================
