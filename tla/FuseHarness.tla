----------------------------- MODULE FuseHarness -----------------------------
(***************************************************************************)
(* The FUSE test harness of service/fuse/testfuse.py with the helpers of  *)
(* service/fuse/util.py.  main() runs initial_setup in a child process,   *)
(* mounts in another child (mkdir and cascade_fuse_client are started     *)
(* with Popen and not awaited; wait_for_mount polls), runs                *)
(* fuse_test_cases in ProcessNum processes and then ThreadNum threads,    *)
(* and unmounts.  The store, mkdir, rm and the FUSE client are the        *)
(* environment.  Keys are 0..3 (put_keys); key k > 0 lives in object pool *)
(* k; MountPolls stands for the 200 polls of wait_for_mount.              *)
(***************************************************************************)
EXTENDS Naturals, FiniteSets

CONSTANTS ProcessNum,   \* -p: test processes
          ThreadNum,    \* -t: test threads
          MountPolls    \* iterations of wait_for_mount before it gives up

ASSUME FuseAssumption ==
    /\ ProcessNum \in Nat /\ ThreadNum \in Nat /\ MountPolls \in Nat \ {0}

Keys == 0 .. 3
Pools == 1 .. 3
Testers == ({"proc"} \X (1 .. ProcessNum)) \cup ({"thread"} \X (1 .. ThreadNum))
Procs == {t \in Testers : t[1] = "proc"}
Threads == {t \in Testers : t[1] = "thread"}

VARIABLES
    mainPc,      \* main()
    spc,         \* the initial_setup process
    nextKey,     \* the put_keys index initial_setup puts next
    requested,   \* object pools whose creation was requested
    created,     \* object pools the store has created
    stored,      \* keys the store holds
    fpc,         \* the cascade_fuse_mount process
    polls,       \* iterations of wait_for_mount so far
    mkdirPending,\* `mkdir mnt_dir` started and not yet run
    dir,         \* mnt_dir exists
    client,      \* cascade_fuse_client: "none", "starting", "mounted", "exited"
    tpc,         \* each fuse_test_cases worker
    rmPending    \* `rm -r mnt_dir` started and not yet run

vars == <<mainPc, spc, nextKey, requested, created, stored, fpc, polls,
          mkdirPending, dir, client, tpc, rmPending>>

(* initial_setup (lines 101-121), in its own process.                     *)
\* 104-110: the blocking put of key0 to the volatile subgroup.
PutFirst ==
    /\ spc = "put0"
    /\ stored' = stored \cup {0}
    /\ spc' = "pools"
    /\ UNCHANGED <<mainPc, nextKey, requested, created, fpc, polls,
                   mkdirPending, dir, client, tpc, rmPending>>

\* 111-113: create_object_pool for /a/a1, /b/b1, /c/c1/c2, not awaited.
CreatePools ==
    /\ spc = "pools"
    /\ requested' = Pools
    /\ spc' = "sleep"
    /\ UNCHANGED <<mainPc, nextKey, created, stored, fpc, polls,
                   mkdirPending, dir, client, tpc, rmPending>>

\* 114: time.sleep(5), whatever the store has done meanwhile.
SetupSleep ==
    /\ spc = "sleep"
    /\ spc' = "puts" /\ nextKey' = 1
    /\ UNCHANGED <<mainPc, requested, created, stored, fpc, polls,
                   mkdirPending, dir, client, tpc, rmPending>>

(* Mutants of the harness, for the mutation runs.                         *)
\* The loop over put_keys runs one index too far.
PutKeyPastEnd ==
    /\ spc = "puts"
    /\ IF nextKey \in created
       THEN /\ stored' = stored \cup {nextKey}
            /\ spc' = IF nextKey = 4 THEN "done" ELSE "puts"
       ELSE /\ UNCHANGED stored
            /\ spc' \in {IF nextKey = 4 THEN "done" ELSE "puts", "died"}
    /\ nextKey' = nextKey + 1
    /\ UNCHANGED <<mainPc, requested, created, fpc, polls,
                   mkdirPending, dir, client, tpc, rmPending>>

\* `while not ismount(mnt_dir): sleep(0.1)`: no timeout, no poll().
WaitUntilMounted ==
    /\ fpc = "poll"
    /\ IF client = "mounted" THEN fpc' = "ok" ELSE UNCHANGED fpc
    /\ UNCHANGED <<mainPc, spc, nextKey, requested, created, stored, polls,
                   mkdirPending, dir, client, tpc, rmPending>>

\* The workers are started but not joined.
JoinGroupNoWait(from, group, to) ==
    /\ mainPc = from
    /\ mainPc' = to
    /\ UNCHANGED <<spc, nextKey, requested, created, stored, fpc, polls,
                   mkdirPending, dir, client, tpc, rmPending>>

\* 116-121: the blocking put of put_keys[k] into its object pool; a key
\* whose pool does not exist yet is not stored, and the put may raise,
\* which ends the process.
PutKey ==
    /\ spc = "puts"
    /\ IF nextKey \in created
       THEN /\ stored' = stored \cup {nextKey}
            /\ spc' = IF nextKey = 3 THEN "done" ELSE "puts"
       ELSE /\ UNCHANGED stored
            /\ spc' \in {IF nextKey = 3 THEN "done" ELSE "puts", "died"}
    /\ nextKey' = nextKey + 1
    /\ UNCHANGED <<mainPc, requested, created, fpc, polls,
                   mkdirPending, dir, client, tpc, rmPending>>

Setup == PutFirst \/ CreatePools \/ SetupSleep \/ PutKey

(* cascade_fuse_mount (lines 269-283), in its own process.                *)
\* 271-276: Popen(mkdir) and Popen(cascade_fuse_client), neither awaited.
MountSpawn ==
    /\ fpc = "spawn"
    /\ mkdirPending' = TRUE
    /\ client' = "starting"
    /\ fpc' = "poll"
    /\ UNCHANGED <<mainPc, spc, nextKey, requested, created, stored, polls,
                   dir, tpc, rmPending>>

\* The end of wait_for_mount's loop: 20 seconds of 0.1 s polls.
PollsLeft == polls < MountPolls

\* util.wait_for_mount, one iteration (39-47): return once mounted; fail
\* when the client has exited; sleep otherwise; fail after the last poll.
WaitForMount ==
    /\ fpc = "poll"
    /\ IF ~PollsLeft THEN fpc' = "failed" /\ UNCHANGED polls
       ELSE IF client = "mounted" THEN fpc' = "ok" /\ UNCHANGED polls
       ELSE IF client = "exited" THEN fpc' = "failed" /\ UNCHANGED polls
       ELSE polls' = polls + 1 /\ UNCHANGED fpc
    /\ UNCHANGED <<mainPc, spc, nextKey, requested, created, stored,
                   mkdirPending, dir, client, tpc, rmPending>>

Mount == MountSpawn \/ WaitForMount

(* The environment: the store, the Popen'd commands and the FUSE client.  *)
StoreCreatePool ==
    /\ \E p \in requested \ created : created' = created \cup {p}
    /\ UNCHANGED <<mainPc, spc, nextKey, requested, stored, fpc, polls,
                   mkdirPending, dir, client, tpc, rmPending>>

MkdirRuns ==
    /\ mkdirPending
    /\ mkdirPending' = FALSE /\ dir' = TRUE
    /\ UNCHANGED <<mainPc, spc, nextKey, requested, created, stored, fpc,
                   polls, client, tpc, rmPending>>

\* The client mounts on an existing directory and exits on a missing one.
ClientMount ==
    /\ client = "starting" /\ dir
    /\ client' = "mounted"
    /\ UNCHANGED <<mainPc, spc, nextKey, requested, created, stored, fpc,
                   polls, mkdirPending, dir, tpc, rmPending>>

ClientExit ==
    /\ client = "starting" /\ ~dir
    /\ client' = "exited"
    /\ UNCHANGED <<mainPc, spc, nextKey, requested, created, stored, fpc,
                   polls, mkdirPending, dir, tpc, rmPending>>

RmRuns ==
    /\ rmPending
    /\ rmPending' = FALSE /\ dir' = FALSE
    /\ UNCHANGED <<mainPc, spc, nextKey, requested, created, stored, fpc,
                   polls, mkdirPending, client, tpc>>

Environment == StoreCreatePool \/ MkdirRuns \/ ClientMount \/ ClientExit \/ RmRuns

(* fuse_test_cases (294-297): tst_sg_dirs, tst_objp_dirs and tst_content *)
(* list the mounted tree and read every key; each assert passes only if  *)
(* the tree is mounted and shows every key initial_setup put.            *)
\* util.compare_dirs (50-57): the listings hold the same names.
compare_dirs(output, expected) == output = expected

TreeShown == IF client = "mounted" THEN stored ELSE {}

TestCases(t) ==
    /\ tpc[t] = "running"
    /\ tpc' = [tpc EXCEPT ![t] = IF compare_dirs(TreeShown, Keys) THEN "pass" ELSE "fail"]
    /\ UNCHANGED <<mainPc, spc, nextKey, requested, created, stored, fpc,
                   polls, mkdirPending, dir, client, rmPending>>

(* main() (301-363).  The join of a child process or thread waits for its *)
(* end; what it ended with is not looked at.                              *)
\* 319-320: start the initial_setup process.
StartSetup ==
    /\ mainPc = "setup"
    /\ spc' = "put0" /\ mainPc' = "joinSetup"
    /\ UNCHANGED <<nextKey, requested, created, stored, fpc, polls,
                   mkdirPending, dir, client, tpc, rmPending>>

\* 321-327: join it, then start the cascade_fuse_mount process.
StartMount ==
    /\ mainPc = "joinSetup" /\ spc \in {"done", "died"}
    /\ fpc' = "spawn" /\ mainPc' = "joinMount"
    /\ UNCHANGED <<spc, nextKey, requested, created, stored, polls,
                   mkdirPending, dir, client, tpc, rmPending>>

\* 328: join the mount process, whether wait_for_mount returned or failed.
JoinMount ==
    /\ mainPc = "joinMount" /\ fpc \in {"ok", "failed"}
    /\ mainPc' = "procs"
    /\ UNCHANGED <<spc, nextKey, requested, created, stored, fpc, polls,
                   mkdirPending, dir, client, tpc, rmPending>>

\* Start every worker of a group (331-342, 347-358) or join them all
\* (343-344, 359-360).
StartGroup(from, group, to) ==
    /\ mainPc = from
    /\ tpc' = [t \in Testers |-> IF t \in group THEN "running" ELSE tpc[t]]
    /\ mainPc' = to
    /\ UNCHANGED <<spc, nextKey, requested, created, stored, fpc, polls,
                   mkdirPending, dir, client, rmPending>>

JoinGroup(from, group, to) ==
    /\ mainPc = from
    /\ \A t \in group : tpc[t] \in {"pass", "fail"}
    /\ mainPc' = to
    /\ UNCHANGED <<spc, nextKey, requested, created, stored, fpc, polls,
                   mkdirPending, dir, client, tpc, rmPending>>

StartProcs == StartGroup("procs", Procs, "joinProcs")
JoinProcs == JoinGroup("joinProcs", Procs, "threads")
StartThreads == StartGroup("threads", Threads, "joinThreads")
JoinThreads == JoinGroup("joinThreads", Threads, "umount")

\* 288 and util.umount (75-88): `fusermount3 -z -u` by check_call; the
\* lazily unmounted client exits; on a directory that is not mounted the
\* command fails and CalledProcessError ends main().
Umount ==
    /\ mainPc = "umount"
    /\ IF client = "mounted"
       THEN client' = "exited" /\ mainPc' = "rm"
       ELSE UNCHANGED client /\ mainPc' = "crashed"
    /\ UNCHANGED <<spc, nextKey, requested, created, stored, fpc, polls,
                   mkdirPending, dir, tpc, rmPending>>

\* 290-291: Popen(rm -r mnt_dir), not awaited; main() returns.
RemoveDir ==
    /\ mainPc = "rm"
    /\ rmPending' = TRUE /\ mainPc' = "done"
    /\ UNCHANGED <<spc, nextKey, requested, created, stored, fpc, polls,
                   mkdirPending, dir, client, tpc>>

Main == StartSetup \/ StartMount \/ JoinMount \/ StartProcs \/ JoinProcs
        \/ StartThreads \/ JoinThreads \/ Umount \/ RemoveDir

\* mnt_dir may be left over from an earlier run.
Init ==
    /\ mainPc = "setup" /\ spc = "idle" /\ nextKey = 0
    /\ requested = {} /\ created = {} /\ stored = {}
    /\ fpc = "idle" /\ polls = 0
    /\ mkdirPending = FALSE /\ dir \in BOOLEAN /\ client = "none"
    /\ tpc = [t \in Testers |-> "idle"]
    /\ rmPending = FALSE

MainEnded == mainPc \in {"done", "crashed"}

\* main() has returned and every command it started has run.
Finished ==
    /\ MainEnded /\ ~rmPending /\ ~mkdirPending
    /\ client \in {"none", "mounted", "exited"} /\ requested = created
    /\ UNCHANGED vars

Next ==
    \/ Main \/ Setup \/ Mount
    \/ \E t \in Testers : TestCases(t)
    \/ Environment
    \/ Finished

Spec == Init /\ [][Next]_vars

\* Every process and thread is scheduled, every Popen'd command runs and
\* the store completes every request (spec section 4.4).
FairSpec ==
    /\ Spec
    /\ WF_vars(Main) /\ WF_vars(Setup) /\ WF_vars(Mount)
    /\ \A t \in Testers : WF_vars(TestCases(t))
    /\ WF_vars(Environment)

-----------------------------------------------------------------------------
(* Properties.                                                             *)

TypeOK ==
    /\ mainPc \in {"setup", "joinSetup", "joinMount", "procs", "joinProcs",
                   "threads", "joinThreads", "umount", "rm", "done", "crashed"}
    /\ spc \in {"idle", "put0", "pools", "sleep", "puts", "done", "died"}
    /\ nextKey \in 0 .. 4
    /\ requested \subseteq Pools /\ created \subseteq requested
    /\ stored \subseteq Keys
    /\ fpc \in {"idle", "spawn", "poll", "ok", "failed"}
    /\ polls \in 0 .. MountPolls
    /\ client \in {"none", "starting", "mounted", "exited"}
    /\ tpc \in [Testers -> {"idle", "running", "pass", "fail"}]

\* The file system is unmounted only after every test process and thread
\* has finished: no fuse_test_cases worker is still reading the tree when
\* main() reaches cascade_fuse_umount.
TestsDoneBeforeUmount ==
    mainPc \in {"umount", "rm", "done", "crashed"} =>
        \A t \in Testers : tpc[t] \in {"pass", "fail"}

\* The harness always ends: main() returns or raises, whether the mount
\* comes up, the client exits or wait_for_mount gives up.
Termination == <>MainEnded

\* cascade_fuse_mount creates the mount point ("1. create mounting piont")
\* and then runs the client on it: the client never exits before main()
\* unmounts it.
ClientRunsOnMountPoint ==
    client = "exited" => mainPc \in {"rm", "done"}

=============================================================================
