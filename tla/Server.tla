------------------------------- MODULE Server -------------------------------
(***************************************************************************)
(* The threads of the server process (roughenough-server/src/main.rs): the *)
(* main thread that spawns and joins, the metrics thread, the workers, and *)
(* what they share: the KEEP_RUNNING flag and the long-term identity       *)
(* behind KeySource's Arc<Mutex<..>>.  A worker's loop is reduced to the   *)
(* points where it touches these (module Worker has the rest).             *)
(*                                                                         *)
(* A Rust mutex whose holder panics is poisoned: every later lock()        *)
(* returns an error, which KeySource unwraps, that is, panics.  A panic    *)
(* ends its thread, or, in the profile with panic = "abort" (Cargo.toml),  *)
(* the process.                                                            *)
(***************************************************************************)
EXTENDS Naturals

CONSTANT NumWorkers   \* Args::num_threads

ASSUME ServerAssumption == NumWorkers \in Nat

Workers == 1..NumWorkers

\* The order of main's `threads` vector: the metrics thread comes first.
Threads == 0..NumWorkers

Nobody == 0           \* the mutex is free (thread 0 never takes it)

VARIABLES
  aborts,        \* panic = "abort" in the profile of the build
  main,          \* "spawn", "join", or how the process has ended
  next,          \* the thread main spawns or joins next
  thread,        \* where each thread is
  holder,        \* who holds KeySource::identity
  poisoned,      \* the mutex is poisoned
  keep_running   \* KEEP_RUNNING

vars == <<aborts, main, next, thread, holder, poisoned, keep_running>>

\* The process exists until main returns, panics or exits, or a panic aborts it; then
\* every thread is gone.
Alive == main \in {"spawn", "join"}

Init ==
  /\ aborts \in BOOLEAN
  /\ main = "spawn" /\ next = 0
  /\ thread = [t \in Threads |-> "unborn"]
  /\ holder = Nobody /\ poisoned = FALSE
  /\ keep_running = TRUE

\* Mutant: the loops over the threads run one turn too short.
LastThread_Short(t) == t + 1 = NumWorkers

\* for i in 0..num_threads, and the length of `threads`
LastThread(t) == t = NumWorkers

Goto(t, place) == thread' = [thread EXCEPT ![t] = place]

\* A panic of thread t.
Panic(t) ==
  /\ Goto(t, "panicked")
  /\ main' = IF aborts THEN "aborted" ELSE main

\* main: start_metrics_thread, then one spawn per worker, then the join loop.
Spawn ==
  /\ main = "spawn"
  /\ Goto(next, IF next = 0 THEN "loop" ELSE "bind")
  /\ IF LastThread(next) THEN main' = "join" /\ next' = 0
                         ELSE next' = next + 1 /\ UNCHANGED main
  /\ UNCHANGED <<aborts, holder, poisoned, keep_running>>

\* The system does not give a thread (expect, unwrap), or, before the first of them, the
\* seed or its backend is not to be had.
SpawnFails ==
  /\ main = "spawn" /\ main' = "panicked"
  /\ UNCHANGED <<aborts, next, thread, holder, poisoned, keep_running>>

\* start_metrics_thread does not like the directory of the reports: process::exit(1).
InvalidMetricsPath ==
  /\ main = "spawn" /\ next = 0 /\ main' = "exited"
  /\ UNCHANGED <<aborts, next, thread, holder, poisoned, keep_running>>

\* Mutant: the metrics thread is pushed last.
Joined_MetricsLast(n) == NumWorkers - n

\* The n-th element of `threads`, from 0.
Joined(n) == n

\* thread.join().unwrap(): waits for the thread, and passes its panic on.
Join ==
  /\ main = "join"
  /\ thread[Joined(next)] \in {"exited", "panicked"}
  /\ IF thread[Joined(next)] = "panicked" THEN main' = "panicked" /\ UNCHANGED next
     ELSE IF LastThread(next) THEN main' = "finished" /\ UNCHANGED next
     ELSE next' = next + 1 /\ UNCHANGED main
  /\ UNCHANGED <<aborts, thread, holder, poisoned, keep_running>>

\* worker_task: bind_socket().expect(..), then ResponseHandler::new wants a key.
Bind(w, ok) ==
  /\ Alive /\ thread[w] = "bind"
  /\ IF ok THEN Goto(w, "lock") /\ UNCHANGED main ELSE Panic(w)
  /\ UNCHANGED <<aborts, next, holder, poisoned, keep_running>>

\* Mutant: a poisoned lock is taken all the same.
LockFails_Never == FALSE

Free == holder = Nobody
LockFails == poisoned

\* KeySource::make_online_key_*: lock().unwrap().
Lock(w) ==
  /\ Alive /\ thread[w] = "lock" /\ Free
  /\ IF LockFails THEN Panic(w) /\ UNCHANGED holder
                  ELSE Goto(w, "sign") /\ holder' = w /\ UNCHANGED main
  /\ UNCHANGED <<aborts, next, poisoned, keep_running>>

\* LongTermIdentity::make_online_key_*: the seed backend signs the delegation, or
\* fails and `expect` panics with the guard alive.
Sign(w, ok) ==
  /\ Alive /\ thread[w] = "sign"
  /\ holder' = Nobody
  /\ IF ok THEN Goto(w, "loop") /\ UNCHANGED main ELSE Panic(w)
  /\ poisoned' = (poisoned \/ ~ok)
  /\ UNCHANGED <<aborts, next, keep_running>>

\* An iteration of Worker::run in which the key is due.
RotationDue(w) ==
  /\ Alive /\ thread[w] = "loop" /\ keep_running
  /\ Goto(w, "lock")
  /\ UNCHANGED <<aborts, main, next, holder, poisoned, keep_running>>

\* A panic in a turn of a loop: a debug build checks the u8 counters for overflow, in
\* workers and in the totals, and the report unwraps its timestamp and file name.
LoopPanics(t) ==
  /\ Alive /\ thread[t] = "loop"
  /\ Panic(t)
  /\ UNCHANGED <<aborts, next, holder, poisoned, keep_running>>

\* Mutant: the test of the flag is inverted.
LoopEnds_Inverted == keep_running

LoopEnds == ~keep_running

\* while keep_running.load() ends, in a worker and in MetricsAggregator::run.
Exit(t) ==
  /\ Alive /\ thread[t] = "loop" /\ LoopEnds
  /\ Goto(t, "exited")
  /\ UNCHANGED <<aborts, main, next, holder, poisoned, keep_running>>

\* The handler installed by set_ctrlc_handler.
CtrlC ==
  /\ Alive /\ keep_running
  /\ keep_running' = FALSE
  /\ UNCHANGED <<aborts, main, next, thread, holder, poisoned>>

Terminated == ~Alive /\ UNCHANGED vars

Main == Spawn \/ SpawnFails \/ InvalidMetricsPath \/ Join

Work(w) ==
  \/ \E ok \in BOOLEAN : Bind(w, ok) \/ Sign(w, ok)
  \/ Lock(w) \/ RotationDue(w) \/ Exit(w)

Next ==
  \/ Main \/ (\E w \in Workers : Work(w)) \/ Exit(0) \/ (\E t \in Threads : LoopPanics(t))
  \/ CtrlC \/ Terminated

\* Threads are scheduled fairly, time makes every key due again (the clock
\* advances and Worker!KeyReplaced), and a lock that keeps being released is
\* obtained: futex waiters are woken, and rotations are hours apart.
Fairness ==
  /\ WF_vars(Main) /\ WF_vars(Exit(0))
  /\ \A w \in Workers : WF_vars(Work(w)) /\ SF_vars(Lock(w))

Spec == Init /\ [][Next]_vars /\ Fairness

-----------------------------------------------------------------------------
Places == {"unborn", "bind", "lock", "sign", "loop", "exited", "panicked"}

\* Type invariant of the process state.
TypeOK ==
  /\ aborts \in BOOLEAN
  /\ main \in {"spawn", "join", "finished", "panicked", "exited", "aborted"}
  /\ next \in Threads
  /\ thread \in [Threads -> Places]
  /\ holder \in Threads /\ poisoned \in BOOLEAN
  /\ keep_running \in BOOLEAN

\* "Server finished" is logged (main returns) only after every thread has left
\* its loop by itself: no worker is cut off in the middle of a batch.
FinishedMeansAllExited == main = "finished" => \A t \in Threads : thread[t] = "exited"

\* A panic never leaves the identity locked: whoever holds the mutex is alive and
\* signing, so a waiting worker is never stuck behind a dead one.
HolderIsSigning == \A w \in Workers : holder = w <=> thread[w] = "sign"

\* main sits in the join of the metrics thread: if the process ends before Ctrl-C, then
\* it has not come as far as its last worker, or the metrics thread has panicked, or
\* every panic aborts.  However many workers have died, that alone neither ends the
\* process nor shows before Ctrl-C.
WorkerPanicsUnnoticed ==
  ~Alive /\ keep_running =>
    \/ thread[NumWorkers] = "unborn"
    \/ thread[0] = "panicked"
    \/ aborts /\ main = "aborted"

\* After Ctrl-C the process ends, whichever threads have panicked before.
ShutdownTerminates == ~keep_running ~> ~Alive

\* One failed signature takes down every worker at its next rotation while the
\* process stays up: unless it ends, eventually nobody serves.
PoisonSpreads ==
  poisoned ~> ~Alive \/ ~keep_running \/ \A w \in Workers : thread[w] \in {"exited", "panicked"}
=============================================================================
