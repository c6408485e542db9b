------------------------- MODULE FuseHarnessProofs -------------------------
(***************************************************************************)
(* Proofs about FuseHarness for every number of test processes, test      *)
(* threads and mount polls: the type invariant, and that testfuse.py's    *)
(* main() reaches cascade_fuse_umount only after every fuse_test_cases     *)
(* process and thread has finished.                                       *)
(***************************************************************************)
EXTENDS FuseHarness, TLAPS

USE FuseAssumption DEF FuseAssumption

MainStates == {"setup", "joinSetup", "joinMount", "procs", "joinProcs",
               "threads", "joinThreads", "umount", "rm", "done", "crashed"}
TStates == {"idle", "running", "pass", "fail"}
Over == {"pass", "fail"}

\* What main()'s position says about the workers: none started before the
\* process loop, the threads idle until the thread loop, the processes
\* over once joined, everyone over once the threads are joined.
Phases ==
    /\ mainPc \in {"setup", "joinSetup", "joinMount", "procs"} =>
           \A t \in Testers : tpc[t] = "idle"
    /\ mainPc \in {"joinProcs", "threads"} => \A t \in Threads : tpc[t] = "idle"
    /\ mainPc \in {"threads", "joinThreads"} => \A t \in Procs : tpc[t] \in Over
    /\ mainPc \in {"umount", "rm", "done", "crashed"} => \A t \in Testers : tpc[t] \in Over

\* The inductive invariant: TypeOK, the puts index inside the loop, and
\* the phases.
IInv ==
    /\ TypeOK
    /\ spc = "puts" => nextKey \in 1 .. 3
    /\ Phases

\* Every worker is a process or a thread.
LEMMA TestersSplit == \A t \in Testers : t \in Procs \/ t \in Threads
BY DEF Testers, Procs, Threads

LEMMA InitIInv == Init => IInv
BY DEF Init, IInv, TypeOK, Phases

\* A step that leaves main() and the workers alone keeps the phases.
LEMMA PhasesFrame ==
    ASSUME Phases, UNCHANGED <<mainPc, tpc>>
    PROVE  Phases'
BY DEF Phases

LEMMA NextIInv == IInv /\ [Next]_vars => IInv'
<1> SUFFICES ASSUME IInv, [Next]_vars PROVE IInv'
    OBVIOUS
<1> USE DEF IInv, TypeOK
<1>1. CASE StartSetup
    BY <1>1, PhasesFrame DEF StartSetup, Phases
<1>2. CASE StartMount
    BY <1>2 DEF StartMount, Phases
<1>3. CASE JoinMount
    BY <1>3 DEF JoinMount, Phases
<1>4. CASE StartProcs
    <2>1. tpc' \in [Testers -> TStates]
        BY <1>4 DEF StartProcs, StartGroup, TStates
    <2>2. Phases'
        <3>1. \A t \in Threads : tpc'[t] = "idle"
            BY <1>4 DEF StartProcs, StartGroup, Phases, Procs, Threads
        <3>2. QED
            BY <1>4, <3>1 DEF StartProcs, StartGroup, Phases
    <2>3. QED
        BY <1>4, <2>1, <2>2 DEF StartProcs, StartGroup, TStates
<1>5. CASE JoinProcs
    BY <1>5 DEF JoinProcs, JoinGroup, Phases, Over
<1>6. CASE StartThreads
    <2>1. tpc' \in [Testers -> TStates]
        BY <1>6 DEF StartThreads, StartGroup, TStates
    <2>2. \A t \in Procs : tpc'[t] \in Over
        BY <1>6 DEF StartThreads, StartGroup, Phases, Procs, Threads, Over
    <2>3. QED
        BY <1>6, <2>1, <2>2 DEF StartThreads, StartGroup, Phases
<1>7. CASE JoinThreads
    BY <1>7, TestersSplit DEF JoinThreads, JoinGroup, Phases, Over
<1>8. CASE Umount
    BY <1>8 DEF Umount, Phases
<1>9. CASE RemoveDir
    BY <1>9 DEF RemoveDir, Phases
<1>10. CASE PutFirst
    BY <1>10, PhasesFrame DEF PutFirst, Keys
<1>11. CASE CreatePools
    BY <1>11, PhasesFrame DEF CreatePools
<1>12. CASE SetupSleep
    BY <1>12, PhasesFrame DEF SetupSleep
<1>13. CASE PutKey
    <2>1. nextKey \in 1 .. 3 /\ nextKey' = nextKey + 1
        BY <1>13 DEF PutKey
    <2>2. stored' \subseteq Keys
        <3>1. CASE nextKey \in created
            <4>1. stored' = stored \cup {nextKey}
                BY <1>13, <3>1 DEF PutKey
            <4>2. QED
                BY <2>1, <4>1 DEF Keys
        <3>2. CASE nextKey \notin created
            BY <1>13, <3>2 DEF PutKey
        <3>3. QED
            BY <3>1, <3>2
    <2>3. spc' \in {"puts", "done", "died"} /\ (spc' = "puts" => nextKey # 3)
        <3>1. CASE nextKey \in created
            BY <1>13, <3>1 DEF PutKey
        <3>2. CASE nextKey \notin created
            BY <1>13, <3>2 DEF PutKey
        <3>3. QED
            BY <3>1, <3>2
    <2>4. QED
        BY <1>13, <2>1, <2>2, <2>3, PhasesFrame DEF PutKey
<1>14. CASE MountSpawn
    BY <1>14, PhasesFrame DEF MountSpawn
<1>15. CASE WaitForMount
    BY <1>15, PhasesFrame DEF WaitForMount, PollsLeft
<1>16. CASE \E t \in Testers : TestCases(t)
    <2>1. PICK t \in Testers : TestCases(t)
        BY <1>16
    <2>2. tpc[t] = "running" /\ tpc'[t] \in Over
        BY <2>1 DEF TestCases, Over
    <2>3. \A u \in Testers : u # t => tpc'[u] = tpc[u]
        BY <2>1 DEF TestCases
    <2>4. mainPc \in {"joinProcs", "joinThreads"}
        BY <2>2, TestersSplit DEF Phases, Over
    <2>5. Phases'
        BY <2>1, <2>2, <2>3, <2>4 DEF TestCases, Phases, Over
    <2>6. QED
        BY <2>1, <2>5 DEF TestCases, TStates
<1>17. CASE StoreCreatePool
    BY <1>17, PhasesFrame DEF StoreCreatePool
<1>18. CASE MkdirRuns
    BY <1>18, PhasesFrame DEF MkdirRuns
<1>19. CASE ClientMount
    BY <1>19, PhasesFrame DEF ClientMount
<1>20. CASE ClientExit
    BY <1>20, PhasesFrame DEF ClientExit
<1>21. CASE RmRuns
    BY <1>21, PhasesFrame DEF RmRuns
<1>22. CASE Finished
    BY <1>22, PhasesFrame DEF Finished, vars
<1>23. CASE UNCHANGED vars
    BY <1>23, PhasesFrame DEF vars
<1>24. QED
    BY <1>1, <1>2, <1>3, <1>4, <1>5, <1>6, <1>7, <1>8, <1>9, <1>10, <1>11,
       <1>12, <1>13, <1>14, <1>15, <1>16, <1>17, <1>18, <1>19, <1>20, <1>21,
       <1>22, <1>23
       DEF Next, Main, Setup, Mount, Environment

\* Type correctness of the harness: every variable stays in its range.
THEOREM TypeCorrect == Spec => []TypeOK
<1>1. Init => IInv
    BY InitIInv
<1>2. IInv /\ [Next]_vars => IInv'
    BY NextIInv
<1>3. IInv => TypeOK
    BY DEF IInv
<1>4. QED
    BY <1>1, <1>2, <1>3, PTL DEF Spec

\* main() calls cascade_fuse_umount only after the joins of lines 343-344
\* and 359-360 have seen every test process and thread finish, for every
\* -p and -t.
THEOREM UmountAfterTests == Spec => []TestsDoneBeforeUmount
<1>1. IInv => TestsDoneBeforeUmount
    BY DEF IInv, Phases, TestsDoneBeforeUmount, Over
<1>2. QED
    BY <1>1, InitIInv, NextIInv, PTL DEF Spec
=============================================================================
