# TLA+ models of the Cascade Python clients and benchmark harness

This directory holds TLA+ models of the Python code under `src/` of the Cascade
repository. Each model comes with TLC configurations that check it on small
instances and with TLAPS proofs of its central invariants. The storage
service itself (replication, consensus, the C++ store) is not Python code of
this repository. It appears only as an environment that completes requests.

## 1. Inventory

| Component | Source | State it keeps | Operations | Interacts with |
|---|---|---|---|---|
| PermitPool | `perf_test.py` 10-35, 46-49, 117-124, 102-105 | `idle_tx_slot_cnt` (AtomicInteger), guarded by `idle_tx_slot_mutex` and `idle_tx_slot_cv` | wait-while-`<= 0`-then-`dec` (Driver); `inc` + `notifyAll` (Collector) | Driver and Collector, through a shared lock and condition variable |
| CompletionCollector | `perf_test.py` 81-108 | `future_counter`, `my_future_queue`, `recv_tss` | swap the queue under its lock; `get_result` for each handle; stamp `recv_tss[future_counter]`; release a slot; exit at `num_messages` | reads the handles the Driver queues; gives slots back to the pool |
| BenchmarkDriver | `perf_test.py` 115-135, 175-240 | loop index, `send_tss`, `future_queue` | acquire a slot, stamp, `client.put`, append and notify; then join and print | the pool, the queue, the remote store |
| StatisticsEngine | `perf_test.py` 139-165 | none (reads the ledger) | latency, timespan, throughput, mean, standard deviation | runs after the join |
| Remote store | external (`cascade_py`) | requests it has accepted | completes each put at its own time, in any order | returns futures to the Driver and resolves them for the Collector |
| CascadeClientShell | `cascade_client.py` | lazily created `capi` | `do_*` commands, each with a keyword-option parser and a result branch | remote store |
| Interactive REPL | `interactive_test.py` | none between commands | command dispatch with positional defaults | remote store |
| Video receiver | `video_receive.py` | the byte buffer `data` | recv chunks; split size prefix and frame; put each frame | TCP sender, remote store |
| Camera sampler | `simulated_camera.py` | `nxt`, `nxt_sample`, frame index | pace frames by fps; sample by rate; trigger_put | video source, remote store |
| Python UDLs | `udl.py`, `sample_udls.py` | `WordCountReducer.word_count` | mapper: count words and emit; reducer: merge counts | invoked by the service's worker threads |
| FUSE test harness | `testfuse.py`, `util.py` | mount process, mount dir | mkdir, mount, wait_for_mount, listing checks, umount, rm | FUSE client process, remote store |
| Scripts | `kvs_client.py`, `gen_id_port.py`, `perf_shutdown.py`, `result_plot.py`, `setup.py` | none | straight-line calls, printing, plotting, packaging | — |

**What is hard.** The benchmark harness is the only part with real
concurrency (spec §1). Two threads, the main thread and `poll_thread`, share a
counting semaphore and a queue of futures, and a third party, the store,
completes requests in any order. The hard behaviours are:

- the interleavings of the slot wait and the release;
- a batch swap racing new appends;
- receive stamps indexed by a counter rather than by message;
- waits that each depend on the other thread;
- unchecked configuration values at the edges (`num_messages <= 0`);
- a wall clock used as a timer.

The other components are sequential glue, but some of their edges are hard too:

- the video receiver reassembles a byte stream from arbitrary chunks;
- the reducer UDL does an unsynchronised read-modify-write;
- the FUSE harness starts `mkdir` and `rm` without waiting for them.

**What makes each part correct.**

- **PermitPool:** the slot count stays in `0..max_pending_ops` (spec §4.1).
- **Window:** the slots really bound the puts outstanding at the store.
- **Collector:** every handle is resolved and stamped exactly once. The k-th
  receive stamp belongs to message k.
- **Driver/Collector together:** the session terminates when the store
  answers. An invalid configuration is rejected (spec §7c).
- **Statistics:** the statistics run only over a complete ledger, with a
  positive timespan that covers every latency.

`PROJECT.json` lists every component with its status and every hazard at its
line.

## 2. Status

| Module | Models | Runs | Proofs |
|---|---|---|---|
| `PerfHarness` | `perf_test.py`: Driver, Collector, PermitPool, statistics, the store as environment | `perf_bounded`, `perf_negative_count` | `PerfHarnessProofs`, `PerfLedgerProofs`, `PerfWindowProofs` |
| `BoundedWindow` | what the put benchmark promises: the abstract bounded-window protocol that `PerfHarness` implements | `perf_bounded` (as `WindowRefinement`) | `PerfWindowProofs` |
| `FrameReceiver` | `video_receive.py`: the recv loops, the peer, resets | `frame_safety`, `frame_spin` | `FrameReceiverProofs` (`TypeOK`), `FrameAlignmentProofs` (`FramesAligned`) |
| `ClientShell` | `cascade_client.py`: every `do_*` handler and its option loop | `shell_options`, `shell_stable` | — (the option loop is `RECURSIVE`) |
| `WordCount` | `sample_udls.py` against `udl.py`: the mapper and the reducer's worker threads | `wordcount_serial`, `wordcount_race` | — |
| `CameraSampler` | `simulated_camera.py`: pacing and sampling over a discrete clock | `camera_safety`, `camera_rate` | `CameraSamplerProofs` |
| `FuseHarness` | `testfuse.py` and `util.py`: setup, mount, workers, umount, and the unawaited subprocesses | `fuse_safety`, `fuse_mkdir_race` | `FuseHarnessProofs` |

Each `MC<Module>` module extends its module and supplies the constants a cfg
cannot write (negative numbers, sequences). Still open:

- a non-monotone `time.time()` for the harness statistics;
- `StreamAligned` of the receiver, for every number of frames (see §10).

## 3. The harness model (`PerfHarness.tla`)

**State.** The variables correspond to code objects as follows:

| Variable | Code |
|---|---|
| `dpc`, `i` | the main thread's position and loop index |
| `cnt` | `idle_tx_slot_cnt._value` |
| `fq` | `future_queue` |
| `cpc`, `batch`, `counter` | `poll_thread`'s position, `my_future_queue`, `future_counter` |
| `sendTs`, `recvTs` | `send_tss`, `recv_tss` (0 = unset, as in the code) |
| `issued`, `doneAt` | the store's accepted puts and their completion times |
| `clock` | `time.time()` |

The clock is logical. It advances at every stamp and at every store
completion, so two timestamps compare the way the events happened. A handle
is represented by the index of its message.

**Atomicity.** Each `with lock:` block is one action. A
`while cond: cv.wait()` loop becomes the guard of the action after it: a
blocked thread is a thread whose action is disabled. Lines that touch only
the thread's own data and no shared state are merged into the neighbouring
step. Two examples:

- the send stamp (line 127) is its own step, because the Collector can act
  between the stamp and the put;
- `get_result` and the receive stamp (97-100) are one step.

**Actions.**

- **Driver:** `Acquire` (117-124), `StampSend` (127), `Put` (131),
  `Enqueue` (133-135 plus the for loop 206-209), `Join` (211-214),
  `PrintStatistics` (139-165; `IndexError` when `num_messages <= 0`).
- **Collector:** `Swap` (84-94), `Resolve` (96-100), `Release` (102-105),
  `Exit` (84 / 107-108).
- **Store:** `StoreComplete(m)`.
- **`Finished`:** the stutter once both threads have ended.

**Runs** (constants are given in the `.cfg`; `MCPerfHarness` supplies the
negative values a cfg cannot write):

| Run | Constants | Checks | Shows |
|---|---|---|---|
| `perf_bounded` | N=5, window 2, `FairSpec` | TypeOK, PermitBounds, StoreWindow, LedgerPairs, LedgerCompleteAtStats, LatencyWithinTimespan, StampsWrittenOnce, WindowRefinement, Termination; deadlock | three waves of throttling; batches of one and of several handles; out-of-order completion; the session always reaches the statistics |
| `perf_negative_count` | N=-1 | SessionEnds (expected violation) | the harness hangs in the join (finding) |

**Why these bounds are enough.** A window of two with five messages forces
the Driver to block three times. Because the queue is swapped whole, batches
of one and of two handles occur. Completions at the store can overtake each
other. These are the cases every property is about: each mutant listed in
`PROJECT.json` is caught at these bounds.

**Fairness.** `FairSpec` assumes weak fairness of the Driver, of the
Collector and of each store completion. Weak fairness is enough for the
threads because every wait, once enabled, stays enabled until the waiter
itself acts:

- only the Driver decrements the slot count;
- only the Collector drains the queue;
- a completed put stays completed.

Fairness of the store is the spec's assumption of a working store (§4.4). A
store that never answers hangs the harness by design.
`perf_bounded` checks deadlock as well. The program's end is the `Finished`
stutter, so only a real hang is reported as one.

**The abstract protocol (`BoundedWindow.tla`).** It states what the harness
promises with threads, locks, queues and timestamps abstracted away. Its
state is three numbers and a set: `issuedCnt` requests issued, the set
`completed` of issued requests the store has completed, and `acked`
requests acknowledged. `Issue` issues the next request while fewer than
`N` are issued and, with a window, fewer than `Window` are unacknowledged.
`Complete(m)` completes any issued request, in any order. `Acknowledge`
acknowledges the oldest unacknowledged request once it is completed.

`PerfHarness` defines the mapping `BW`:

- `issuedCnt` is `i`, plus one while the Driver is between `client.put`
  (131) and the append (133-135);
- `completed` is `Done`, the puts the store has completed;
- `acked` is `future_counter`;
- `N` is `num_messages` and `Window` is `max_pending_ops`.

Under it, `Put` is `Issue`, a store completion is `Complete`, `Resolve`
(`get_result` and the stamp, 96-100) is `Acknowledge`, and every other step
is a stutter. `WindowRefinement == BW!WSpec` is a property of
`perf_bounded`, and `PerfWindowProofs` proves it for every configuration.

One consequence disagrees in tone with spec §2, §4.2 and §5, which say handles
"may" resolve out of send order. The store may complete out of order, but the
Collector always resolves handles in send order. The queue is appended in
send order and swapped whole, and `Acknowledge` only takes the oldest
request. Only the receive stamps' *times* can reflect a late completion. The
spec allows more than the code does, so this is noted here and not as a
finding.

**Finding.** `num_messages` comes from `int(sys.argv[2])` with no check.

- With -1, `poll_results` loops while `future_counter != -1` and waits for a
  put that never comes, and `main()` hangs in the join.
- With 0, `print_statistics` raises `IndexError` on `recv_tss[-1]`.

Spec §7(c) says such a configuration is rejected before the session runs.

**Not modelled in this module.**

- The float arithmetic of the throughput, mean and standard deviation. Its
  `num_messages + 1` divisor (line 159) is the spec's open question (§9), not
  a control-flow matter.
- `randomize_key` and the payload bytes. Keys and values do not affect
  control flow.
- Signals: the bare `except:` around the waits.
- `cProfile` (`main2`).

## 4. The video receiver (`FrameReceiver.tla`)

`receive_frames_from_server` (lines 18-55) reassembles length-prefixed frames
from a TCP stream.

**State.**

- A byte of the stream is a record `[f, k]`: frame `f`, position `k`. The size
  prefix is positions `1..HdrLen`; `HdrLen` stands for `struct.calcsize("Q")`.
- `net` holds the bytes in flight. `data` is the receiver's buffer.
- `rpc` says which of the two inner loops runs: the size loop (26-33) or the
  frame loop (34-52).
- `msgSize` is `msg_size`.
- `puts` are the frames given to `capi.put`. `handled` are the frames unpickled.

**Actions.**

- `RecvHeader` and `RecvBody` model one `conn.recv(4096)` each. They return
  1..`ChunkMax` buffered bytes. They return `b""` forever once the peer has
  closed. They raise after a reset, and the handler at 53 then restarts the
  outer loop.
- `TakeHeader` models 30-33. `struct.unpack` is modelled by what it does: it
  returns the peer's size for a real prefix and an arbitrary size for other
  bytes.
- `TakeFrame` models 36-52. `pickle.loads` ignores trailing bytes and raises
  on a wrong prefix. An exception after the unpickle drops the put.
- The peer is the environment: `PeerSend`, `PeerClose` and `ConnReset`.

**Runs.** All use three frames of sizes 2, 1 and 3, a 2-byte prefix, and
chunks of at most 3 bytes. A chunk can end inside a prefix, end inside a body,
or span two frames.

- `frame_safety` checks two properties, and deadlock:
  - `StreamAligned`: until a reset, the buffer followed by the bytes in
    flight is exactly the stream of the frames not yet unpickled, and the
    frames are unpickled in order;
  - `FramesDelivered`, under weak fairness of the receiver thread: every
    frame sent is eventually unpickled unless the connection is reset.
- `frame_spin`: expected violation. After the peer closes, `recv` returns
  `b""` and the loop at 28 spins forever. The receiver never reaches
  `receive_socket.close()`.

`frame_spin` sets `CHECK_DEADLOCK FALSE` because a receiver waiting on a
silent peer really is stuck.

## 5. The client shell (`ClientShell.tla`)

Every `do_*` handler of `cascade_client.py` is an action.

**Each handler** does what the code does:

- It calls `check_capi`.
- It splits the line.
- It prints a usage message when there are too few words.
- It runs the option loop `Parse` (recursive over the words).
- It converts values with `int(x, 0)`. A value `int()` cannot parse raises
  `ValueError`, which `cmd.Cmd` does not catch, so the shell dies.
- It makes the call and reports the result.

**The command line.** `Prompt` chooses a command line over a small alphabet.
A word is modelled by its `split('=')`.

**Properties.**

- `OptionsForwarded`: a call carries, for each documented option, the value
  typed last.
- `StableHonoured` (expected violation): `stable=false` is compared against
  the bound method `.lower`, and `get` and `get_size` do not pass `stable` at
  all.

`Words` and `Values` hold one or two words. That is enough to produce each
branch of the option loop: a plain word, an option, an unparsable integer,
and a false flag. The model also shows that a word that is not `key=value`
makes `"Unknown argument:" + args[2]` raise `IndexError` when the line has
fewer than three words. That is recorded as a hazard, not as a run.

## 6. The word-count UDLs (`WordCount.tla`)

**Mapper.** The mapper is a pure function. `Split` is `re.split('\W', text)`,
written as a left fold over the characters. `Counts` is the dictionary of
lines 62-66. `Split` keeps the empty pieces of `re.split`, so `"b, a"`
yields an empty word that the reducer counts. That is recorded as a hazard.

**Reducer.** The reducer's handler runs on `NumWorkers` threads. Each thread
goes through `Take`, `Test` (line 106), `Read` and `Add` (the two halves of
`+=` at 107), or `Assign` (109). Counts are `np.int32`: `Wrap` is two's
complement at `Width` bits.

**Runs.** They use two objects that share the words `a` and `b`.

- `wordcount_serial`: with one worker, `ReducerTotals` holds. Once everything
  is handled, `word_count` holds each word's total.
- `wordcount_race`: expected violation. Two workers lose an update.
`Width` is 16, which stands for 32. No total in these texts comes near
either bound, so the int32 wrap is modelled but not reached.

## 7. The simulated camera (`CameraSampler.tla`)

The capture loop of `simulated_camera.py` (lines 60-104) runs over a discrete
clock. `Ticks` ticks make a second. `Per(x)` is `1.0/x` in ticks, and it is
negative for a negative rate.

**Actions.**

- `Setup` computes both intervals. It crashes with `ZeroDivisionError` when
  the fps or `min(rate, fps)` is 0.
- `Pace` sleeps until `nxt` and sets the next read.
- `Read` increments `i`. It leaves the loop when the video has no frame left.
- `Sample` skips the frame while `cur + interval_sec < nxt_sample`.
- `Put` models `trigger_put`.
- `Release` releases the capture. `Interrupt` is SIGINT.
- A read, a put or an oversleep takes 0..`Jitter` ticks (`After`).
- `ClockBound` saturates the clock. `TypeOK` checks that the clock never
  reaches it.

**Runs.** The bounds are fps 5 at 10 ticks a second, five frames, and a jitter
of 2. A jitter of 2 makes a frame fall due exactly on the boundary, which is
the case that the `<` versus `<=` of line 97 decides.

- `camera_safety`: `FullRateKeepsEveryFrame` holds for rates -1, 0, 2 and 5
  and fps 0 and 5. When the sampling interval is at most the frame interval,
  every frame read is put, once and in order.
- `camera_rate`: expected violation. With `-r 2` the loop puts 3 frames
  within 6 ticks, which is less than a second.

## 8. The FUSE test harness (`FuseHarness.tla`)

The harness covers `main()` of `testfuse.py` and the helpers of `util.py`.

**Processes.** `main()` starts and joins the processes in turn:

- `initial_setup`: `PutFirst`, `CreatePools`, `SetupSleep`, `PutKey`.
- `cascade_fuse_mount`: `MountSpawn`, then `WaitForMount` polling up to
  `MountPolls` times. `MountPolls` stands for the 200 polls; two polls are
  enough to reach both "mounted" and "gave up".
- `ProcessNum` processes and then `ThreadNum` threads of `fuse_test_cases`.
- Then it unmounts.

**Environment.** `mkdir`, `rm -r` and the FUSE client are started with
`Popen` and not awaited. `MkdirRuns`, `RmRuns`, `ClientMount` and
`ClientExit` are therefore independent actions. The store creating pools is
`StoreCreatePool`.

**Runs.** They use two processes and one thread.

- `fuse_safety` checks two properties:
  - `TestsDoneBeforeUmount` holds.
  - `Termination` holds under weak fairness of every process, thread and
    started command. The code waits on each of them, and `wait_for_mount`
    gives up after its polls.
- `fuse_mkdir_race`: expected violation. The client can start before
  `mkdir`.

The model also lets `main()` return normally after a test failed, since
the joins never look at exit codes. It lets a client left behind by a
timed-out `wait_for_mount` mount after `main()` has ended. Both are recorded
as hazards, not as runs.

## 9. What is proved

Seven modules hold TLAPS proofs. Each invariant theorem is `Spec => []P` and
follows the same argument:

1. find an inductive strengthening `IInv` of `P`;
2. check `IInv` with TLC as an invariant of the safety run;
3. prove `Init => IInv`, `IInv /\ [Next]_vars => IInv'` (one step per
   action) and `IInv => P`.

### `PerfHarnessProofs`

The theorems hold for every value of `NumMessages` and `MaxPendingOps`. The
only assumption is `ConfigAssumption`: both are integers, which is all
`int()` guarantees.

- **`TypeCorrect`**: `Spec => []TypeOK`. `TypeOK` alone is not inductive, so
  it is strengthened to `TypeInv`, which adds three facts:
  - the Driver's index is a real message index while it is inside `do_send`,
    which `Put` and `Enqueue` need;
  - the batch is non-empty while the Collector resolves, which `Tail` needs;
  - the batch is empty between batches, which `Swap` needs.

  The proof has one step per action.
- **`PermitBoundsHold`**: `Spec => []PermitBounds`. The inductive invariant
  is `IInv == TypeInv /\ SlotAccounting`, where `SlotAccounting` says
  `cnt >= 0` and `cnt + SlotsHeld = MaxPendingOps`.
  - `SlotsHeld` counts one slot for each handle in `future_queue`, one for
    each handle in the swapped-out batch, one while the Driver is between
    the slot wait and the append, and one while the Collector is between a
    stamp and its increment.
  - Every action preserves the sum: `Acquire` moves a slot from free to
    held, `Enqueue` and `Swap` move held slots between places, `Resolve`
    hands one to the Collector, and `Release` returns it.
  - `cnt <= MaxPendingOps` follows because `SlotsHeld` is a natural number.

  TLC checked `IInv` as an invariant of `perf_bounded` before it was proved.

### `FuseHarnessProofs`

These hold for every `ProcessNum`, `ThreadNum` and `MountPolls`. The only
assumption is `FuseAssumption`: the counts are naturals and there is at
least one poll.

- **`TypeCorrect`**: `Spec => []TypeOK`.
- **`UmountAfterTests`**: `Spec => []TestsDoneBeforeUmount`.

The invariant `IInv` adds two facts to `TypeOK`:

- `put_keys` indexes `1..3` inside the loop;
- `Phases`, which ties `main()`'s position to the workers' states:
  - no worker has started before the process loop;
  - the threads are idle until the thread loop;
  - the processes are over once they are joined;
  - everyone is over from the umount on.

`Phases` is needed because `TestsDoneBeforeUmount` alone says nothing about
a state where `main()` is about to join. A lemma `PhasesFrame` discharges the
steps of `initial_setup`, the mount process and the environment, which leave
`main()` and the workers alone.

### `CameraSamplerProofs`

- **`FullRateLossless`**: `Spec => []FullRateKeepsEveryFrame`. It holds for
  every fps, rate, video length, jitter and clock bound.

The proof assumes only the constants' ranges. The divisibility part of
`CameraAssumption` is not used. `IInv` adds two things:

- the frame counter's relation to the number of puts at each point of the
  loop;
- the key fact `nxt_sample <= clock + interval_sec`. At full rate, a sample
  is scheduled at most one sampling interval ahead, and that is at most one
  frame interval. The clock only grows (lemma `AfterMonotone`), so the test
  at line 97 never skips a frame.

Two lemmas support the proof:

- `WrittenSeqStep`: `written` stays a sequence.
- `DueStaysBounded`: the arithmetic of the due time.

Both are kept apart so that the sequence axioms do not enter the arithmetic
steps.

### `PerfLedgerProofs`

These theorems hold for every `NumMessages` and `MaxPendingOps`, from
`ConfigAssumption` alone. They rest on one inductive invariant,
`LedgerInv == TypeInv /\ HandlesInOrder /\ LedgerShape /\ LedgerTimes`
(defined in `PerfHarness`, checked by TLC on `perf_bounded` and on
negative, zero and window-free configurations before it was proved).

- `HandlesInOrder`: the handles in flight are exactly the messages
  `future_counter .. i-1`, the swapped batch first and then `future_queue`,
  each in index order. This is why the k-th handle resolved is message k,
  although `recv_tss` is indexed by the counter and not by the handle.
- `LedgerShape`: which stamps are set at each point of the two threads.
  `send_tss[k]` is set exactly for the messages the Driver has stamped, and
  `recv_tss[k]` exactly for `k < future_counter`. The store holds exactly
  the puts made. The join and the statistics come only after both loops
  are done.
- `LedgerTimes`: every stamp lies in the past of the logical clock. A put
  is completed after its send stamp and before its receive stamp. Both
  ledgers grow in index order.

The conjuncts are layered. `HandlesInOrder` is inductive with `TypeInv`
alone. `LedgerShape` needs it, because `Resolve` stamps
`recv_tss[future_counter]` and `HandlesInOrder` says that the resolved
handle is that message. `LedgerTimes` needs both: the order of the stamps
follows from which entries are set and which message is resolved.

- **`LedgerPairsHold`**: `Spec => []LedgerPairs`.
- **`LedgerCompleteAtStatsHold`**: `Spec => []LedgerCompleteAtStats`.
- **`LatencyWithinTimespanHold`**: `Spec => []LatencyWithinTimespan`.
- **`StampsWrittenOnceHolds`**: `Spec => StampsWrittenOnce`, an action
  property. No `send_tss` or `recv_tss` entry is overwritten, because a
  stamp is written only where `LedgerShape` says none is set yet.
- **`StoreWindowHolds`**: `Spec => []StoreWindow`. The puts the store has
  not completed are among the unacknowledged messages
  `future_counter .. i-1`, plus the one between put and append. The slot
  accounting of `IInv` bounds how many of those there are by
  `max_pending_ops`. The lemma `OutstandingInterval` gives the first fact,
  and `IntervalCardinality` counts the interval through
  `FiniteSetTheorems`.

### `PerfWindowProofs`

- **`HarnessImplementsWindow`**: `Spec => WindowRefinement`, for every
  configuration. The proof is the usual refinement argument:
  - `InitRefines`: the initial state maps to `WInit`.
  - `NextRefines`: under `IInv /\ LedgerInv`, every step maps to a step
    of `WNext` or a stutter. There is one lemma per matching step:
    - `PutRefines`: `Put` is `Issue`. The window guard follows from the
      slot accounting, because the handles in flight number `i - future_counter`.
    - `CompleteRefines`: a store completion is `Complete`.
    - `ResolveRefines`: `Resolve` is `Acknowledge`. By `HandlesInOrder`,
      the head of the batch is message `future_counter`.
  - The QED is PTL over `Spec`.

### `FrameReceiverProofs`

- **`TypeCorrect`**: `Spec => []TypeOK`. This holds for every number of
  frames, frame sizes, prefix length and recv size, from
  `ReceiverAssumption`. It is not only a matter of shapes:
  - every slice the loop takes (`data[:n]`, `data[n:]`, `data[msg_size:]`)
    must start inside the buffer or just past it, which the guards
    `len(data) >= need` and `n <= len(net)` provide (lemma `SubSeqBytes`);
  - a garbage size prefix must still decode to a natural number, which is
    what the mutant using the signed `struct.unpack("q")` breaks (lemma
    `UnpackNat`).

  `TypeOK` is inductive as it stands. The proof has one lemma per action.

### `FrameAlignmentProofs`

- **`FramesAlignedHold`**: `Spec => []FramesAligned`, for every number of
  frames, frame sizes, prefix length and recv size, from
  `ReceiverAssumption` alone. The inductive invariant is
  `IInv == TypeOK /\ FramesAligned`: `FramesAligned` needs the buffers to be
  sequences of stream bytes. `FramesAligned` (defined in `FrameReceiver`)
  states `StreamAligned` by byte positions, without the `FlattenSeq` fold:
  `data \o net` is in strict stream order (`Precedes`: by frame, then by
  position), and its set of elements is `Owed`, the bytes of frames
  `n+1..sent` less frame `n+1`'s size prefix once lines 30-31 have cut it.
  A strictly ordered sequence is determined by its set of elements, so this
  is `StreamAligned` again. `IInv` was checked with TLC on the
  `frame_safety` model before the proof; it is not a run property, since
  `frame_safety` already checks `StreamAligned`.

The argument:

- **The first bytes are the oldest frame's** (lemma `FirstBytes`). In a
  strictly ordered sequence whose elements are exactly the owed bytes, the
  j-th element is the j-th owed byte of frame `n+1`, as long as that frame
  has one. If it came later, the j owed bytes before it would all sit at
  fewer than j indices. If it came earlier, the j-1 elements before it
  would all fit among fewer owed positions. Both cases are the pigeonhole
  principle (`Pigeonhole`, from `FS_PigeonHole`).
- **Recv** keeps the stream and only cuts it elsewhere (`RecvKeepsStream`).
- **`PeerSend`** appends frame `sent+1`, whose bytes come after every owed
  byte (`AppendFrame`). If `sent+1 = n+1`, the loop is in the size loop,
  because the frame loop runs only for a frame that was sent.
- **`TakeHeader`**: by `FirstBytes`, `data[:HdrLen]` is `Hdr(n+1)`. The
  prefixes of different frames differ (`HdrInjective`), so `struct.unpack`
  yields `FrameSize[n+1]`. Cutting the prefix (`DropFront`, `SortedShift`)
  leaves exactly the other owed bytes, still in order.
- **`TakeFrame`**: by `FirstBytes`, `data[:msg_size]` is `Body(n+1)`, and
  `pickle.loads` returns frame `n+1` and no other (`UnpickleBody`). So
  `handled` becomes `1..n+1`, and what stays owed starts at frame `n+2`.
- `ConnReset` and a `recv` that raises end every claim.

## 10. What stays with TLC

- **Liveness.** The harness's `Termination` and `SessionEnds`, the
  receiver's `FramesDelivered` and `ReceiverStops`, and the FUSE harness's
  `Termination` all need fairness, and some need `ENABLED`. Both are out of
  TLAPS's reach.
- **`CameraSampler`'s `TypeOK`.** Its bound `clock <= ClockBound - 1` depends
  on the constants chosen: it says that the bound is large enough.
- **`ClientShell`.** Its option loop is a `RECURSIVE` operator, which keeps
  the module out of TLAPS.
- **`WordCount`.** Its properties concern what folds compute for all inputs,
  which the provers cannot reach by induction.
- **`FrameReceiver`'s `StreamAligned`.** It is a stream equality over
  `FlattenSeq`, a fold over the frames. Proving it for every number of frames
  needs induction over that fold, which the provers cannot instantiate. What
  it says is proved in the fold-free form `FramesAligned`
  (`FramesAlignedHold`). That the two forms agree is a fact about strictly
  ordered sequences that is argued here, not proved.

## 11. Not modelled

- **`interactive_test.py`.** A REPL whose commands are single store calls with
  positional defaults. It has no state between commands and no control flow
  beyond what `ClientShell` covers.
- **The scripts.** `kvs_client.py`, `gen_id_port.py`, `perf_shutdown.py`,
  `result_plot.py` and `setup.py` are straight-line calls, printing, plotting
  and packaging.
- **Camera: the frame display and payload encoding.** Pixels, JPEG bytes and
  keys do not affect control flow.
- **FUSE: the content of files.** `tst_content` is modelled by whether the
  tree shows every key.
- **The C++ service.** It is not Python code of this repository. It appears
  only as an environment.
