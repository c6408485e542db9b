---------------------------- MODULE PerfHarness ----------------------------
(***************************************************************************)
(* The bounded-window put benchmark of src/service/python/perf_test.py.    *)
(*                                                                         *)
(* Three execution contexts share state:                                   *)
(*   - the main thread (the Driver): main() calls do_send(i, ...) for      *)
(*     i = 0 .. num_messages-1, joins poll_thread, prints statistics;      *)
(*   - poll_thread (the Collector): poll_results() swaps out the future    *)
(*     queue, blocks on every handle, stamps recv_tss[future_counter] and  *)
(*     gives a tx slot back;                                               *)
(*   - the remote store, which completes each submitted put at a time of  *)
(*     its own choosing (the external collaborator of the spec, §6).       *)
(*                                                                         *)
(* Each "with lock:" block of the code is one atomic action; a            *)
(* "while cond: cv.wait()" loop is the guard of the action that follows    *)
(* it. time.time() is a logical clock that advances at every stamp, so a   *)
(* timestamp orders the events it records. A handle is the index of the    *)
(* message whose put returned it.                                          *)
(***************************************************************************)
EXTENDS Integers, Sequences, FiniteSets

CONSTANTS
    NumMessages,    \* client_states.num_messages, int(sys.argv[2])
    MaxPendingOps   \* client_states.max_pending_ops; <= 0 means unlimited

\* main() parses both with int() and checks neither: any integer can occur.
ASSUME ConfigAssumption ==
    /\ NumMessages \in Int
    /\ MaxPendingOps \in Int

VARIABLES
    dpc,        \* program counter of the main thread (Driver)
    i,          \* the loop index of main(): the message being sent
    cnt,        \* idle_tx_slot_cnt._value
    fq,         \* future_queue (handles appended by do_send)
    cpc,        \* program counter of poll_thread (Collector)
    batch,      \* my_future_queue: the swapped-out handles still to resolve
    counter,    \* future_counter
    sendTs,     \* send_tss
    recvTs,     \* recv_tss
    issued,     \* handles whose put the remote store has accepted
    doneAt,     \* time at which the store completed each put (0: not yet)
    clock       \* time.time()

vars == <<dpc, i, cnt, fq, cpc, batch, counter, sendTs, recvTs,
          issued, doneAt, clock>>

\* The message indices of range(0, num_messages): empty when num_messages <= 0.
Msgs == 0 .. NumMessages - 1

\* do_send only touches the tx semaphore when max_pending_ops > 0.
Bounded == MaxPendingOps > 0

\* The first step of do_send: the slot wait when bounded, else the stamp.
SendEntry == IF Bounded THEN "acquire" ELSE "stamp"


\* The puts the store has completed.
Done == {m \in issued : doneAt[m] # 0}

\* Where the collector goes once it is done with one handle: the next handle
\* of the batch, or back to the while condition.
AfterHandle(rest) == IF rest = << >> THEN "top" ELSE "resolve"

-----------------------------------------------------------------------------
(* Mutants: plausible slips in the code, each breaking one property.       *)

\* main() loops over range(0, num_messages + 1).
LoopHeadInclusive(k) == IF k <= NumMessages THEN SendEntry ELSE "join"

\* do_send waits "while cnt < 0" instead of "<= 0" (line 119).
AcquireWaitNegative ==
    /\ dpc = "acquire"
    /\ cnt >= 0
    /\ cnt' = cnt - 1
    /\ dpc' = "stamp"
    /\ UNCHANGED <<i, fq, cpc, batch, counter, sendTs, recvTs,
                   issued, doneAt, clock>>

\* poll_results polls the handle without blocking in get_result (line 97).
ResolveNoWait ==
    /\ cpc = "resolve"
    /\ recvTs' = [recvTs EXCEPT ![counter] = clock]
    /\ clock' = clock + 1
    /\ counter' = counter + 1
    /\ batch' = Tail(batch)
    /\ cpc' = IF Bounded THEN "release" ELSE AfterHandle(Tail(batch))
    /\ UNCHANGED <<dpc, i, cnt, fq, sendTs, issued, doneAt>>

\* poll_results takes handles with my_future_queue.pop(), the last first.
ResolvePopLast ==
    LET rest == SubSeq(batch, 1, Len(batch) - 1) IN
    /\ cpc = "resolve"
    /\ batch[Len(batch)] \in Done
    /\ recvTs' = [recvTs EXCEPT ![counter] = clock]
    /\ clock' = clock + 1
    /\ counter' = counter + 1
    /\ batch' = rest
    /\ cpc' = IF Bounded THEN "release" ELSE AfterHandle(rest)
    /\ UNCHANGED <<dpc, i, cnt, fq, sendTs, issued, doneAt>>

\* main() prints the statistics without joining poll_thread (line 212).
JoinNoWait ==
    /\ dpc = "join"
    /\ dpc' = "stats"
    /\ UNCHANGED <<i, cnt, fq, cpc, batch, counter, sendTs, recvTs,
                   issued, doneAt, clock>>

\* The timespan measured from the last message's send, not the first's.
TimespanLastSend == recvTs[NumMessages - 1] - sendTs[NumMessages - 1]

\* future_counter is reset next to my_future_queue inside the while loop.
SwapResetCounter ==
    /\ cpc = "top"
    /\ counter # NumMessages
    /\ fq # << >>
    /\ batch' = fq
    /\ fq' = << >>
    /\ counter' = 0
    /\ cpc' = "resolve"
    /\ UNCHANGED <<dpc, i, cnt, sendTs, recvTs, issued, doneAt, clock>>

\* The tx slot is never given back after a handle resolves (line 104).
ReleaseSkipped ==
    /\ cpc = "release"
    /\ cpc' = AfterHandle(batch)
    /\ UNCHANGED <<dpc, i, cnt, fq, batch, counter, sendTs, recvTs,
                   issued, doneAt, clock>>

\* The loop of main(): send message k, or leave the loop and join.
LoopHead(k) == IF k < NumMessages THEN SendEntry ELSE "join"

-----------------------------------------------------------------------------
(* Initial state: client_states.__init__ and poll_thread.start().          *)
(* send_tss and recv_tss are lists of num_messages zeros; the semaphore    *)
(* counter starts at max_pending_ops.                                      *)

Init ==
    /\ dpc = LoopHead(0)
    /\ i = 0
    /\ cnt = MaxPendingOps
    /\ fq = << >>
    /\ cpc = "top"
    /\ batch = << >>
    /\ counter = 0
    /\ sendTs = [k \in Msgs |-> 0]
    /\ recvTs = [k \in Msgs |-> 0]
    /\ issued = {}
    /\ doneAt = [k \in Msgs |-> 0]
    /\ clock = 1

-----------------------------------------------------------------------------
(* Driver: one call of do_send(i, ...) per loop iteration of main().       *)

\* Lines 117-124: under idle_tx_slot_mutex wait while the count is <= 0,
\* then decrement it.
Acquire ==
    /\ dpc = "acquire"
    /\ cnt > 0
    /\ cnt' = cnt - 1
    /\ dpc' = "stamp"
    /\ UNCHANGED <<i, fq, cpc, batch, counter, sendTs, recvTs,
                   issued, doneAt, clock>>

\* Line 127: send_tss[msg_cnt] = time.time() * 10**6.
StampSend ==
    /\ dpc = "stamp"
    /\ sendTs' = [sendTs EXCEPT ![i] = clock]
    /\ clock' = clock + 1
    /\ dpc' = "put"
    /\ UNCHANGED <<i, cnt, fq, cpc, batch, counter, recvTs, issued, doneAt>>

\* Line 131: client.put submits the request and returns its handle at once.
Put ==
    /\ dpc = "put"
    /\ issued' = issued \cup {i}
    /\ dpc' = "enqueue"
    /\ UNCHANGED <<i, cnt, fq, cpc, batch, counter, sendTs, recvTs,
                   doneAt, clock>>

\* Lines 133-135: append the handle under future_queue_mutex and notify;
\* do_send returns and the for loop of main() (206-209) moves on.
Enqueue ==
    /\ dpc = "enqueue"
    /\ fq' = Append(fq, i)
    /\ i' = i + 1
    /\ dpc' = LoopHead(i + 1)
    /\ UNCHANGED <<cnt, cpc, batch, counter, sendTs, recvTs,
                   issued, doneAt, clock>>

\* Line 212: poll_thread.join() returns once poll_results has returned.
Join ==
    /\ dpc = "join"
    /\ cpc = "exit"
    /\ dpc' = "stats"
    /\ UNCHANGED <<i, cnt, fq, cpc, batch, counter, sendTs, recvTs,
                   issued, doneAt, clock>>

\* Line 216, print_statistics (139-165): a pure read of the ledger. With
\* num_messages <= 0, recv_tss[num_messages-1] indexes an empty list and
\* raises IndexError.
PrintStatistics ==
    /\ dpc = "stats"
    /\ dpc' = IF NumMessages >= 1 THEN "complete" ELSE "failed"
    /\ UNCHANGED <<i, cnt, fq, cpc, batch, counter, sendTs, recvTs,
                   issued, doneAt, clock>>

-----------------------------------------------------------------------------
(* Collector: poll_results (lines 81-108).                                 *)

\* Lines 84-94: while future_counter != num_messages, wait under
\* future_queue_mutex for a non-empty queue and swap it for an empty list.
Swap ==
    /\ cpc = "top"
    /\ counter # NumMessages
    /\ fq # << >>
    /\ batch' = fq
    /\ fq' = << >>
    /\ cpc' = "resolve"
    /\ UNCHANGED <<dpc, i, cnt, counter, sendTs, recvTs, issued, doneAt, clock>>

\* Line 84 (or 107-108): future_counter reached num_messages; the thread ends.
Exit ==
    /\ cpc = "top"
    /\ counter = NumMessages
    /\ cpc' = "exit"
    /\ UNCHANGED <<dpc, i, cnt, fq, batch, counter, sendTs, recvTs,
                   issued, doneAt, clock>>

\* Lines 96-100: qr.get_result() blocks until the store has completed the
\* put; then recv_tss[future_counter] is stamped and the counter advanced.
\* When bounded, lines 102-105 follow as the Release step.
Resolve ==
    /\ cpc = "resolve"
    /\ Head(batch) \in Done
    /\ recvTs' = [recvTs EXCEPT ![counter] = clock]
    /\ clock' = clock + 1
    /\ counter' = counter + 1
    /\ batch' = Tail(batch)
    /\ cpc' = IF Bounded THEN "release" ELSE AfterHandle(Tail(batch))
    /\ UNCHANGED <<dpc, i, cnt, fq, sendTs, issued, doneAt>>

\* Lines 102-105: under idle_tx_slot_mutex increment the count and notify.
Release ==
    /\ cpc = "release"
    /\ cnt' = cnt + 1
    /\ cpc' = AfterHandle(batch)
    /\ UNCHANGED <<dpc, i, fq, batch, counter, sendTs, recvTs,
                   issued, doneAt, clock>>

-----------------------------------------------------------------------------
(* The remote store completes an accepted put, in any order.               *)

StoreComplete(m) ==
    /\ m \in issued \ Done
    /\ doneAt' = [doneAt EXCEPT ![m] = clock]
    /\ clock' = clock + 1
    /\ UNCHANGED <<dpc, i, cnt, fq, cpc, batch, counter, sendTs, recvTs, issued>>

-----------------------------------------------------------------------------

Driver == Acquire \/ StampSend \/ Put \/ Enqueue \/ Join \/ PrintStatistics
Collector == Swap \/ Exit \/ Resolve \/ Release
Store == \E m \in Msgs : StoreComplete(m)

\* Both threads have ended: main() returned (or raised) after the join.
Finished ==
    /\ dpc \in {"complete", "failed"}
    /\ cpc = "exit"
    /\ UNCHANGED vars

Next == Driver \/ Collector \/ Store \/ Finished

Spec == Init /\ [][Next]_vars

(***************************************************************************)
(* Fairness. Every thread keeps running while it can: a blocked wait is    *)
(* re-enabled only by the other thread and then stays enabled until the    *)
(* waiter itself acts (only the Driver decrements the count, only the      *)
(* Collector drains the queue), so weak fairness suffices. The store is    *)
(* assumed to answer every put (a store that never answers hangs the       *)
(* harness: the spec's accepted failure mode, §4.4).                       *)
(***************************************************************************)
FairSpec ==
    /\ Spec
    /\ WF_vars(Driver)
    /\ WF_vars(Collector)
    /\ \A m \in Msgs : WF_vars(StoreComplete(m))

-----------------------------------------------------------------------------
(* Statistics of print_statistics (lines 141-159), over integers.          *)

\* Line 142/152: the latency of message k.
Latency(k) == recvTs[k] - sendTs[k]

\* Line 146: timespan_us, from the first send to the last receive; it divides
\* total_bytes and num_messages on lines 147-148.
Timespan == recvTs[NumMessages - 1] - sendTs[0]

-----------------------------------------------------------------------------
(* Properties.                                                              *)

\* The puts the store holds but has not completed.
Outstanding == issued \ Done

TypeOK ==
    /\ dpc \in {"acquire", "stamp", "put", "enqueue", "join", "stats",
                "complete", "failed"}
    /\ i \in Nat
    /\ cnt \in Int
    /\ fq \in Seq(Msgs)
    /\ cpc \in {"top", "resolve", "release", "exit"}
    /\ batch \in Seq(Msgs)
    /\ counter \in Nat
    /\ sendTs \in [Msgs -> Nat]
    /\ recvTs \in [Msgs -> Nat]
    /\ issued \subseteq Msgs
    /\ doneAt \in [Msgs -> Nat]
    /\ clock \in Nat \ {0}

-----------------------------------------------------------------------------
(* The strengthenings that make TypeOK and PermitBounds inductive; checked *)
(* by TLC as invariants of PerfBounded and proved in PerfHarnessProofs.    *)

\* The Driver's index is a real message while it is inside do_send, the
\* Collector's batch is non-empty while it resolves and empty between
\* batches.
TypeInv ==
    /\ TypeOK
    /\ dpc \in {"acquire", "stamp", "put", "enqueue"} => i \in Msgs
    /\ cpc = "resolve" => batch # << >>
    /\ cpc \in {"top", "exit"} => batch = << >>

\* The tx slots taken and not yet given back: one per queued or swapped-out
\* handle, one while the Driver is between the slot wait and the append,
\* one while the Collector is between a stamp and its increment.
SlotsHeld ==
    Len(fq) + Len(batch)
    + (IF dpc \in {"stamp", "put", "enqueue"} THEN 1 ELSE 0)
    + (IF cpc = "release" THEN 1 ELSE 0)

\* Slot accounting: every slot is either counted free or held.
SlotAccounting == Bounded => (cnt >= 0 /\ cnt + SlotsHeld = MaxPendingOps)

IInv == TypeInv /\ SlotAccounting

\* do_send has stamped send_tss[k] (line 127): every earlier message, and
\* message i itself once the Driver is past the stamp.
SendStamped(k) == k < i \/ (k = i /\ dpc \in {"put", "enqueue"})

\* The handles are the message indices in the order of the puts: the batch
\* holds counter, counter+1, ... and the queue continues where it ends, up
\* to i - 1. Hence the k-th handle poll_results resolves is message k.
HandlesInOrder ==
    /\ counter + Len(batch) + Len(fq) = i
    /\ \A j \in 1 .. Len(batch) : batch[j] = counter + j - 1
    /\ \A j \in 1 .. Len(fq) : fq[j] = counter + Len(batch) + j - 1

\* Which ledger entries are written, and what the store has seen: a put is
\* issued once its handle exists, completed only if issued, and a receive
\* stamp exists exactly below future_counter. The main thread has left its
\* loop only with i >= num_messages, passed the join only after
\* poll_results returned with future_counter = num_messages, and completed
\* print_statistics only with num_messages >= 1.
LedgerShape ==
    /\ \A k \in Msgs : sendTs[k] # 0 <=> SendStamped(k)
    /\ \A k \in Msgs : recvTs[k] # 0 <=> k < counter
    /\ issued = {k \in Msgs : k < i \/ (k = i /\ dpc = "enqueue")}
    /\ \A k \in Msgs : doneAt[k] # 0 => k \in issued
    /\ dpc \in {"join", "stats", "complete", "failed"} => i >= NumMessages
    /\ dpc \in {"stats", "complete", "failed"} => cpc = "exit"
    /\ dpc = "complete" => NumMessages >= 1
    /\ cpc = "exit" => counter = NumMessages

\* The order of the stamps: every stamp lies in the past of the clock, a
\* put is completed after its send stamp and received after its completion,
\* and both ledgers increase with the message index.
LedgerTimes ==
    /\ \A k \in Msgs : sendTs[k] < clock /\ recvTs[k] < clock /\ doneAt[k] < clock
    /\ \A k \in Msgs : doneAt[k] # 0 => sendTs[k] < doneAt[k]
    /\ \A k \in Msgs : recvTs[k] # 0 => doneAt[k] # 0 /\ doneAt[k] < recvTs[k]
    /\ \A k, l \in Msgs : k < l /\ sendTs[l] # 0 => sendTs[k] < sendTs[l]
    /\ \A k, l \in Msgs : k < l /\ recvTs[l] # 0 => recvTs[k] < recvTs[l]

\* The inductive invariant of the ledger properties.
LedgerInv == TypeInv /\ HandlesInOrder /\ LedgerShape /\ LedgerTimes

\* Spec §4.1/§8: the tx slot count idle_tx_slot_cnt never goes negative and
\* never exceeds max_pending_ops, whatever the interleaving of do_send's
\* decrement (line 124) and poll_results's increment (line 104).
PermitBounds == Bounded => cnt \in 0 .. MaxPendingOps

\* Spec §4.3: the throttle bounds what the remote store really holds: at no
\* time are more than max_pending_ops puts submitted (line 131) and not yet
\* completed, since a slot comes back (line 104) only after get_result.
StoreWindow == Bounded => Cardinality(Outstanding) <= MaxPendingOps

\* Spec §3: recv_tss[k] is the receive time of message k. The code stamps
\* recv_tss[future_counter] (line 99), an index counted by the Collector, not
\* the handle's message index; so the k-th handle resolved must be message
\* k, and the stamped interval must enclose the store's completion of k.
LedgerPairs ==
    \A k \in Msgs :
        recvTs[k] # 0 =>
            /\ sendTs[k] # 0
            /\ doneAt[k] # 0
            /\ sendTs[k] < doneAt[k]
            /\ doneAt[k] < recvTs[k]

\* Spec §4.4/§8: print_statistics runs only after every recv_tss entry has
\* been stamped (the join on line 212 waits for poll_results).
LedgerCompleteAtStats ==
    dpc \in {"stats", "complete"} =>
        \A k \in Msgs : sendTs[k] # 0 /\ recvTs[k] # 0

\* The timespan of line 146 is positive (it is a divisor, lines 147-148) and
\* covers every message's latency, so the throughput figures account for
\* every in-flight interval.
LatencyWithinTimespan ==
    dpc = "complete" =>
        /\ Timespan > 0
        /\ \A k \in Msgs : 0 <= Latency(k) /\ Latency(k) <= Timespan

\* Spec §3: each send_tss and recv_tss entry is written once: a stamp once
\* set is never overwritten by a later stamp (lines 99 and 127).
StampsWrittenOnce ==
    [][\A k \in Msgs :
          /\ (sendTs[k] # 0 => sendTs'[k] = sendTs[k])
          /\ (recvTs[k] # 0 => recvTs'[k] = recvTs[k])]_vars

\* The refinement mapping to the abstract window protocol: a request is
\* issued once client.put (line 131) has returned its handle, completed when
\* the store has completed that put, and acknowledged once poll_results has
\* counted it in future_counter (line 100).
BW == INSTANCE BoundedWindow
        WITH N <- NumMessages, Window <- MaxPendingOps,
             issuedCnt <- i + (IF dpc = "enqueue" THEN 1 ELSE 0),
             completed <- Done, acked <- counter

\* Spec §2, §4.1-4.3: the harness implements the bounded-window protocol:
\* do_send issues the puts in index order and only while fewer than
\* max_pending_ops are unacknowledged, and poll_results acknowledges them
\* strictly in the order they were issued (the FIFO future_queue drained in
\* whole batches), each only after get_result has seen the store complete it.
WindowRefinement == BW!WSpec

\* Spec §4.2/§4.4: with a store that answers, the session reaches COMPLETE:
\* every put is resolved, both threads end and the statistics are printed.
Termination == <>(dpc = "complete")

\* Spec §7(c): a configuration with num_messages <= 0 is rejected before the
\* session runs; whatever the configuration, main() ends, by returning or by
\* raising, and never waits forever on poll_thread (line 212).
SessionEnds == <>(dpc \in {"complete", "failed"})

=============================================================================
