----------------------------- MODULE WordCount -----------------------------
(***************************************************************************)
(* The word-count UDLs of udl_zoo/python/cfg/python_udls/sample_udls.py,  *)
(* implementing the ocdpo_handler interface of                             *)
(* service/python/derecho/cascade/udl.py.                                  *)
(*                                                                         *)
(* WordCountMapper.ocdpo_handler splits an object's text with             *)
(* re.split('\W', text), counts the pieces and emits one (word, count)    *)
(* message per distinct piece, the count as a numpy int32.                 *)
(* WordCountReducer.ocdpo_handler merges each message into its dictionary *)
(* self.word_count.  The service calls a UDL's handler from its           *)
(* off-critical-data-path worker threads (the worker_id argument); the    *)
(* interpreter may switch threads between the bytecodes of the membership *)
(* test, the read and the write of `self.word_count[key] += ...`.         *)
(***************************************************************************)
EXTENDS Integers, Sequences, SequencesExt, FiniteSets

CONSTANTS Texts,       \* Texts[i]: the characters of the i-th object's blob
          WordChars,   \* the characters \w matches
          NumWorkers,  \* off-critical-data-path worker threads of the reducer
          Width        \* bits of np.int32

ASSUME WordCountAssumption ==
    /\ Texts \in Seq(Seq(STRING))
    /\ NumWorkers \in Nat \ {0}
    /\ Width \in Nat \ {0}

Workers == 1 .. NumWorkers
Objects == DOMAIN Texts

\* np.int32 arithmetic: two's complement, wrapping at 2^(Width-1).
Half == 2 ^ (Width - 1)
Wrap(x) == ((x + Half) % (2 * Half)) - Half

(* The mapper, lines 59-71, as pure functions of the text.                 *)

\* re.split('\W', text): every non-word character ends a piece, so two
\* adjacent separators, and a separator at either end, give an empty piece;
\* an empty text gives one empty piece.
Split(t) ==
    FoldLeft(LAMBDA acc, c :
                IF c \in WordChars THEN [acc EXCEPT ![Len(acc)] = Append(@, c)]
                ELSE Append(acc, << >>),
             << << >> >>, t)

\* The dictionary the loop at 62-66 builds: each piece and how often.
Counts(t) ==
    LET p == Split(t) IN
    [w \in ToSet(p) |-> Cardinality({j \in DOMAIN p : p[j] = w})]

\* The ocdpo_handler keyword arguments of udl.py that the model keeps:
\* `key` and the int32 in `blob`, and the object that caused the emit.
Msg(i, w, n) == [src |-> i, key |-> w, n |-> n]

VARIABLES
    mapped,    \* objects whose mapper handler has run
    emitted,   \* every message cascade_context.emit sent
    pending,   \* emitted messages not yet given to a reducer worker
    wc,        \* WordCountReducer.word_count
    wpc,       \* wpc[w]: where worker w is in ocdpo_handler
    wmsg,      \* the message worker w handles
    wval       \* the value worker w read from word_count[key]

vars == <<mapped, emitted, pending, wc, wpc, wmsg, wval>>

(* Mutants of the handlers, for the mutation runs.                         *)
\* `self.word_count[key] = ...` in the `if` branch too: the count is replaced.
AddReplaces(w) ==
    /\ wpc[w] = "add"
    /\ wc' = [wc EXCEPT ![wmsg[w].key] = wmsg[w].n]
    /\ wpc' = [wpc EXCEPT ![w] = "idle"]
    /\ UNCHANGED <<mapped, emitted, pending, wmsg, wval>>

\* The worker takes a message without it being removed from the queue.
TakeKeepsPending(w) ==
    /\ wpc[w] = "idle"
    /\ \E m \in pending :
          /\ wmsg' = [wmsg EXCEPT ![w] = m]
          /\ wpc' = [wpc EXCEPT ![w] = "test"]
    /\ UNCHANGED <<mapped, emitted, pending, wc, wval>>

\* WordCountMapper.ocdpo_handler on object i: count and emit every piece.
MapObject(i) ==
    /\ i \notin mapped
    /\ LET c == Counts(Texts[i])
           out == {Msg(i, w, Wrap(c[w])) : w \in DOMAIN c}
       IN  /\ emitted' = emitted \cup out
           /\ pending' = pending \cup out
    /\ mapped' = mapped \cup {i}
    /\ UNCHANGED <<wc, wpc, wmsg, wval>>

\* A reducer worker thread enters ocdpo_handler with the next message.
Take(w) ==
    /\ wpc[w] = "idle"
    /\ \E m \in pending :
          /\ pending' = pending \ {m}
          /\ wmsg' = [wmsg EXCEPT ![w] = m]
          /\ wpc' = [wpc EXCEPT ![w] = "test"]
    /\ UNCHANGED <<mapped, emitted, wc, wval>>

\* Line 106: `if key in self.word_count`.
Test(w) ==
    /\ wpc[w] = "test"
    /\ wpc' = [wpc EXCEPT ![w] = IF wmsg[w].key \in DOMAIN wc THEN "read" ELSE "assign"]
    /\ UNCHANGED <<mapped, emitted, pending, wc, wmsg, wval>>

\* Line 107, first half: the subscript read of `+=`.
Read(w) ==
    /\ wpc[w] = "read"
    /\ wval' = [wval EXCEPT ![w] = wc[wmsg[w].key]]
    /\ wpc' = [wpc EXCEPT ![w] = "add"]
    /\ UNCHANGED <<mapped, emitted, pending, wc, wmsg>>

\* Line 107, second half: the int32 addition and the subscript store.
Add(w) ==
    /\ wpc[w] = "add"
    /\ wc' = [wc EXCEPT ![wmsg[w].key] = Wrap(wval[w] + wmsg[w].n)]
    /\ wpc' = [wpc EXCEPT ![w] = "idle"]
    /\ UNCHANGED <<mapped, emitted, pending, wmsg, wval>>

\* Line 109: `self.word_count[key] = ...`, overwriting whatever another
\* worker stored since the test.
Assign(w) ==
    /\ wpc[w] = "assign"
    /\ LET k == wmsg[w].key
       IN  wc' = [x \in DOMAIN wc \cup {k} |-> IF x = k THEN wmsg[w].n ELSE wc[x]]
    /\ wpc' = [wpc EXCEPT ![w] = "idle"]
    /\ UNCHANGED <<mapped, emitted, pending, wmsg, wval>>

NoMsg == Msg(0, << >>, 0)

\* WordCountReducer.__init__: an empty dictionary; workers idle.
Init ==
    /\ mapped = {} /\ emitted = {} /\ pending = {}
    /\ wc = [x \in {} |-> 0]
    /\ wpc = [w \in Workers |-> "idle"]
    /\ wmsg = [w \in Workers |-> NoMsg]
    /\ wval = [w \in Workers |-> 0]

Quiescent ==
    mapped = Objects /\ pending = {} /\ \A w \in Workers : wpc[w] = "idle"

\* Every object was mapped and every message reduced.
Finished == Quiescent /\ UNCHANGED vars

Reducer(w) == Take(w) \/ Test(w) \/ Read(w) \/ Add(w) \/ Assign(w)

Next ==
    \/ \E i \in Objects : MapObject(i)
    \/ \E w \in Workers : Reducer(w)
    \/ Finished

Spec == Init /\ [][Next]_vars

-----------------------------------------------------------------------------
(* Properties.                                                             *)

TypeOK ==
    /\ mapped \subseteq Objects
    /\ pending \subseteq emitted
    /\ wpc \in [Workers -> {"idle", "test", "read", "add", "assign"}]
    /\ \A w \in Workers : wpc[w] # "idle" => wmsg[w] \in emitted \ pending
    /\ \A k \in DOMAIN wc : wc[k] \in -Half .. Half - 1

\* How often key k occurs in all mapped objects, as exact integers.
Occurrences(k) ==
    MapThenSumSet(LAMBDA i : IF k \in DOMAIN Counts(Texts[i]) THEN Counts(Texts[i])[k] ELSE 0,
                  mapped)

\* The reducer merges: once every object is mapped and every message handled,
\* word_count holds for every emitted key the total of its occurrences over
\* all objects, whichever workers handled the messages and in which order.
ReducerTotals ==
    Quiescent =>
        \A m \in emitted : m.key \in DOMAIN wc /\ wc[m.key] = Occurrences(m.key)
=============================================================================
