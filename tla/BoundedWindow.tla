--------------------------- MODULE BoundedWindow ---------------------------
(***************************************************************************)
(* What the put benchmark of perf_test.py promises, with the threads,      *)
(* locks, queues and timestamps abstracted away: requests 0 .. N-1 are     *)
(* issued one at a time in index order; with a window (Window > 0) fewer   *)
(* than Window are unacknowledged when the next is issued; the store       *)
(* completes issued requests in any order; the collector acknowledges them *)
(* one at a time in issue order, each once the store has completed it.    *)
(*                                                                         *)
(* PerfHarness implements this specification under the mapping BW defined *)
(* there; PerfWindowProofs proves it, and the perf_bounded run checks it.  *)
(***************************************************************************)
EXTENDS Integers

CONSTANTS
    N,        \* num_messages
    Window    \* max_pending_ops; <= 0 means no window

VARIABLES
    issuedCnt,  \* requests issued so far: 0 .. issuedCnt-1
    completed,  \* issued requests the store has completed
    acked       \* requests acknowledged so far: 0 .. acked-1

wvars == <<issuedCnt, completed, acked>>

Requests == 0 .. N - 1

\* Issue the next request, if there is one and the window has room.
Issue ==
    /\ issuedCnt < N
    /\ Window > 0 => issuedCnt - acked < Window
    /\ issuedCnt' = issuedCnt + 1
    /\ UNCHANGED <<completed, acked>>

\* The store completes an issued request.
Complete(m) ==
    /\ m \in 0 .. issuedCnt - 1
    /\ m \notin completed
    /\ completed' = completed \cup {m}
    /\ UNCHANGED <<issuedCnt, acked>>

\* The oldest unacknowledged request is acknowledged once it is completed.
Acknowledge ==
    /\ acked < issuedCnt
    /\ acked \in completed
    /\ acked' = acked + 1
    /\ UNCHANGED <<issuedCnt, completed>>

WInit == issuedCnt = 0 /\ completed = {} /\ acked = 0

WNext == Issue \/ (\E m \in Requests : Complete(m)) \/ Acknowledge

WSpec == WInit /\ [][WNext]_wvars

=============================================================================
