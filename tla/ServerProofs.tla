---------------------------- MODULE ServerProofs ----------------------------
(***************************************************************************)
(* Safety of the server's thread structure for every number of workers.    *)
(* The inductive invariant says how far main's spawn and join loops have   *)
(* come, and that the metrics thread, which main joins first, leaves its   *)
(* loop only after Ctrl-C unless it panics.                                *)
(***************************************************************************)
EXTENDS Server, TLAPS

\* main's loops: what is behind `next` and what is still ahead of it.
MainInv ==
  /\ main = "spawn" => \A t \in Threads : t >= next => thread[t] = "unborn"
  /\ main = "join" => \A t \in Threads : t < next => thread[t] = "exited"
  /\ FinishedMeansAllExited
  /\ WorkerPanicsUnnoticed

\* The metrics thread takes no lock and binds no socket, and leaves its loop by itself
\* only after Ctrl-C.
MetricsThreadInv ==
  /\ thread[0] \in {"unborn", "loop", "exited", "panicked"}
  /\ thread[0] = "exited" => ~keep_running

IInv == TypeOK /\ HolderIsSigning /\ MainInv /\ MetricsThreadInv

-----------------------------------------------------------------------------
\* The invariant holds before main spawns anything.
LEMMA InitIInv == Init => IInv
<1> USE ServerAssumption DEF Threads, Workers
<1> SUFFICES ASSUME Init PROVE IInv
  OBVIOUS
<1>1. TypeOK
  <2>1. aborts \in BOOLEAN /\ poisoned \in BOOLEAN /\ keep_running \in BOOLEAN
    BY Zenon DEF Init
  <2>2. main \in {"spawn"} /\ next \in Threads /\ holder \in Threads
    BY DEF Init, Nobody
  <2>3. thread \in [Threads -> Places]
    BY DEF Init, Places
  <2> QED
    BY <2>1, <2>2, <2>3 DEF TypeOK
<1>2. HolderIsSigning
  BY DEF Init, HolderIsSigning, Nobody
<1>3. MainInv
  BY DEF Init, MainInv, FinishedMeansAllExited, WorkerPanicsUnnoticed, Alive
<1>4. MetricsThreadInv
  BY DEF Init, MetricsThreadInv
<1> QED
  BY <1>1, <1>2, <1>3, <1>4 DEF IInv

\* Every step of every thread preserves it.
LEMMA NextIInv == IInv /\ [Next]_vars => IInv'
<1> USE ServerAssumption DEF Threads, Workers, IInv
<1> SUFFICES ASSUME IInv, [Next]_vars PROVE IInv'
  OBVIOUS
<1>1. CASE Spawn
  <2>1. TypeOK'
    BY <1>1 DEF Spawn, LastThread, Goto, Panic, Alive, TypeOK, Places, Nobody
  <2>2. HolderIsSigning'
    BY <1>1 DEF Spawn, LastThread, Goto, Panic, Alive, HolderIsSigning, TypeOK, Nobody, MainInv
  <2>3. MainInv'
    BY <1>1 DEF Spawn, LastThread, Goto, Panic, Alive, MainInv, FinishedMeansAllExited, WorkerPanicsUnnoticed, TypeOK
  <2>4. MetricsThreadInv'
    BY <1>1 DEF Spawn, LastThread, Goto, Panic, Alive, MetricsThreadInv, TypeOK, MainInv
  <2> QED
    BY <2>1, <2>2, <2>3, <2>4
<1>2. CASE Join
  <2>1. TypeOK'
    BY <1>2 DEF Join, Joined, LastThread, Goto, Panic, Alive, TypeOK, Places, Nobody
  <2>2. HolderIsSigning'
    BY <1>2 DEF Join, Joined, LastThread, Goto, Panic, Alive, HolderIsSigning, TypeOK, Nobody, MainInv
  <2>3. MainInv'
    BY <1>2 DEF Join, Joined, LastThread, MainInv, FinishedMeansAllExited, WorkerPanicsUnnoticed, Alive, TypeOK, MetricsThreadInv
  <2>4. MetricsThreadInv'
    BY <1>2 DEF Join, Joined, LastThread, Goto, Panic, Alive, MetricsThreadInv, TypeOK, MainInv
  <2> QED
    BY <2>1, <2>2, <2>3, <2>4
<1>3. ASSUME NEW w \in Workers, NEW ok \in BOOLEAN, Bind(w, ok) PROVE IInv'
  <2>1. TypeOK'
    BY <1>3 DEF Bind, Goto, Panic, Alive, TypeOK, Places, Nobody
  <2>2. HolderIsSigning'
    BY <1>3 DEF Bind, Goto, Panic, Alive, HolderIsSigning, TypeOK, Nobody, MainInv
  <2>3. MainInv'
    BY <1>3 DEF Bind, Goto, Panic, Alive, MainInv, FinishedMeansAllExited, WorkerPanicsUnnoticed, TypeOK
  <2>4. MetricsThreadInv'
    BY <1>3 DEF Bind, Goto, Panic, Alive, MetricsThreadInv, TypeOK, MainInv
  <2> QED
    BY <2>1, <2>2, <2>3, <2>4
<1>4. ASSUME NEW w \in Workers, Lock(w) PROVE IInv'
  <2>1. TypeOK'
    BY <1>4 DEF Lock, Free, LockFails, Goto, Panic, Alive, TypeOK, Places, Nobody
  <2>2. HolderIsSigning'
    BY <1>4 DEF Lock, Free, LockFails, Goto, Panic, Alive, HolderIsSigning, TypeOK, Nobody, MainInv
  <2>3. MainInv'
    BY <1>4 DEF Lock, Free, LockFails, Goto, Panic, Alive, MainInv, FinishedMeansAllExited, WorkerPanicsUnnoticed, TypeOK
  <2>4. MetricsThreadInv'
    BY <1>4 DEF Lock, Free, LockFails, Goto, Panic, Alive, MetricsThreadInv, TypeOK, MainInv
  <2> QED
    BY <2>1, <2>2, <2>3, <2>4
<1>5. ASSUME NEW w \in Workers, NEW ok \in BOOLEAN, Sign(w, ok) PROVE IInv'
  <2>1. TypeOK'
    BY <1>5 DEF Sign, Goto, Panic, Alive, TypeOK, Places, Nobody
  <2>2. HolderIsSigning'
    BY <1>5 DEF Sign, Goto, Panic, Alive, HolderIsSigning, TypeOK, Nobody, MainInv
  <2>3. MainInv'
    BY <1>5 DEF Sign, Goto, Panic, Alive, MainInv, FinishedMeansAllExited, WorkerPanicsUnnoticed, TypeOK
  <2>4. MetricsThreadInv'
    BY <1>5 DEF Sign, Goto, Panic, Alive, MetricsThreadInv, TypeOK, MainInv
  <2> QED
    BY <2>1, <2>2, <2>3, <2>4
<1>6. ASSUME NEW w \in Workers, RotationDue(w) PROVE IInv'
  <2>1. TypeOK'
    BY <1>6 DEF RotationDue, Goto, Panic, Alive, TypeOK, Places, Nobody
  <2>2. HolderIsSigning'
    BY <1>6 DEF RotationDue, Goto, Panic, Alive, HolderIsSigning, TypeOK, Nobody, MainInv
  <2>3. MainInv'
    BY <1>6 DEF RotationDue, Goto, Panic, Alive, MainInv, FinishedMeansAllExited, WorkerPanicsUnnoticed, TypeOK
  <2>4. MetricsThreadInv'
    BY <1>6 DEF RotationDue, Goto, Panic, Alive, MetricsThreadInv, TypeOK, MainInv
  <2> QED
    BY <2>1, <2>2, <2>3, <2>4
<1>7. ASSUME NEW t \in Threads, Exit(t) PROVE IInv'
  <2>1. TypeOK'
    BY <1>7 DEF Exit, LoopEnds, Goto, Panic, Alive, TypeOK, Places, Nobody
  <2>2. HolderIsSigning'
    BY <1>7 DEF Exit, LoopEnds, Goto, Panic, Alive, HolderIsSigning, TypeOK, Nobody, MainInv
  <2>3. MainInv'
    BY <1>7 DEF Exit, LoopEnds, Goto, Panic, Alive, MainInv, FinishedMeansAllExited, WorkerPanicsUnnoticed, TypeOK
  <2>4. MetricsThreadInv'
    BY <1>7 DEF Exit, LoopEnds, Goto, Panic, Alive, MetricsThreadInv, TypeOK, MainInv
  <2> QED
    BY <2>1, <2>2, <2>3, <2>4
<1>8. CASE CtrlC
  <2>1. TypeOK'
    BY <1>8 DEF CtrlC, Goto, Panic, Alive, TypeOK, Places, Nobody
  <2>2. HolderIsSigning'
    BY <1>8 DEF CtrlC, Goto, Panic, Alive, HolderIsSigning, TypeOK, Nobody, MainInv
  <2>3. MainInv'
    BY <1>8 DEF CtrlC, Goto, Panic, Alive, MainInv, FinishedMeansAllExited, WorkerPanicsUnnoticed, TypeOK
  <2>4. MetricsThreadInv'
    BY <1>8 DEF CtrlC, Goto, Panic, Alive, MetricsThreadInv, TypeOK, MainInv
  <2> QED
    BY <2>1, <2>2, <2>3, <2>4
<1>9. CASE SpawnFails
  <2>1. TypeOK'
    BY <1>9 DEF SpawnFails, Alive, TypeOK, Places, Nobody
  <2>2. HolderIsSigning'
    BY <1>9 DEF SpawnFails, Alive, HolderIsSigning, TypeOK, Nobody, MainInv
  <2>3. MainInv'
    BY <1>9 DEF SpawnFails, Alive, MainInv, FinishedMeansAllExited, WorkerPanicsUnnoticed, TypeOK
  <2>4. MetricsThreadInv'
    BY <1>9 DEF SpawnFails, Alive, MetricsThreadInv, TypeOK, MainInv
  <2> QED
    BY <2>1, <2>2, <2>3, <2>4
<1>10. CASE InvalidMetricsPath
  <2>1. TypeOK'
    BY <1>10 DEF InvalidMetricsPath, Alive, TypeOK, Places, Nobody
  <2>2. HolderIsSigning'
    BY <1>10 DEF InvalidMetricsPath, Alive, HolderIsSigning, TypeOK, Nobody, MainInv
  <2>3. MainInv'
    BY <1>10 DEF InvalidMetricsPath, Alive, MainInv, FinishedMeansAllExited, WorkerPanicsUnnoticed, TypeOK
  <2>4. MetricsThreadInv'
    BY <1>10 DEF InvalidMetricsPath, Alive, MetricsThreadInv, TypeOK, MainInv
  <2> QED
    BY <2>1, <2>2, <2>3, <2>4
<1>11. ASSUME NEW t \in Threads, LoopPanics(t) PROVE IInv'
  <2>1. TypeOK'
    BY <1>11 DEF LoopPanics, Panic, Goto, Alive, TypeOK, Places, Nobody
  <2>2. HolderIsSigning'
    BY <1>11 DEF LoopPanics, Panic, Goto, Alive, HolderIsSigning, TypeOK, Nobody, MainInv
  <2>3. MainInv'
    BY <1>11 DEF LoopPanics, Panic, Goto, Alive, MainInv, FinishedMeansAllExited, WorkerPanicsUnnoticed, TypeOK
  <2>4. MetricsThreadInv'
    BY <1>11 DEF LoopPanics, Panic, Goto, Alive, MetricsThreadInv, TypeOK, MainInv
  <2> QED
    BY <2>1, <2>2, <2>3, <2>4
<1>12. CASE UNCHANGED vars
  BY <1>12 DEF vars, TypeOK, HolderIsSigning, MainInv, FinishedMeansAllExited, WorkerPanicsUnnoticed, Alive, MetricsThreadInv
<1>13. 0 \in Threads
  OBVIOUS
<1> QED
  BY <1>1, <1>2, <1>3, <1>4, <1>5, <1>6, <1>7, <1>8, <1>9, <1>10, <1>11, <1>12, <1>13 DEF Next, Main, Work, Terminated

\* Type correctness of the process state, for any number of workers.
THEOREM ServerTypes == Spec => []TypeOK
<1>1. IInv => TypeOK
  BY DEF IInv
<1> QED
  BY <1>1, InitIInv, NextIInv, PTL DEF Spec

\* A dead worker never keeps the identity locked (Mutex in KeySource).
THEOREM NoDeadHolder == Spec => []HolderIsSigning
<1>1. IInv => HolderIsSigning
  BY DEF IInv
<1> QED
  BY <1>1, InitIInv, NextIInv, PTL DEF Spec

\* main returns only when every thread has left its loop by itself.
THEOREM FinishedCleanly == Spec => []FinishedMeansAllExited
<1>1. IInv => FinishedMeansAllExited
  BY DEF IInv, MainInv
<1> QED
  BY <1>1, InitIInv, NextIInv, PTL DEF Spec

\* Worker panics alone neither end an unwinding process nor show before Ctrl-C.
THEOREM WorkerPanicsNotSeen == Spec => []WorkerPanicsUnnoticed
<1>1. IInv => WorkerPanicsUnnoticed
  BY DEF IInv, MainInv
<1> QED
  BY <1>1, InitIInv, NextIInv, PTL DEF Spec
=============================================================================
