------------------------------ MODULE Supervisor ------------------------------
(***************************************************************************)
(* The supervisor process of microdoh3 (main.rs) as the parent of the      *)
(* workers: prefork, reaping, restarts with backoff, shutdown.  Processes  *)
(* are entries of the kernel's process table; a reaped pid may be given to *)
(* a process that is not ours.  What step 3 of the loop does for upstream  *)
(* selection is in Refresh and Fleet.                                      *)
(***************************************************************************)
EXTENDS Integers, FiniteSets

CONSTANTS
  NumWorkers,   \* cpus.len()
  CpuOf,        \* CpuOf[i]: the cpu of worker i (--cpus may name one twice)
  Pid,          \* process ids
  None,
  BackoffCap,   \* the cap of the exponent in backoff_delay, 5 in the code
  MaxDeaths     \* bound: workers that die on their own

ASSUME SupervisorAssumption ==
  /\ NumWorkers \in Nat \ {0}
  /\ None \notin Pid /\ IsFiniteSet(Pid) /\ Cardinality(Pid) >= NumWorkers
  /\ BackoffCap \in Nat /\ MaxDeaths \in Nat

Index == 0..(NumWorkers - 1)
Cpu == {CpuOf[i] : i \in Index}

VARIABLES
  pc,                \* where the supervisor is
  preforked,         \* workers the prefork loop has handled
  due,               \* cpus whose restart this iteration still has to do
  children,          \* a map from pid to worker and backoff state
  pending_restarts,  \* a map from cpu to the restart scheduled for it
  SHUTDOWN,
  proc,              \* the process table: state of every pid, worker or None
  young,             \* pids that have lived less than ten seconds
  deaths,            \* deaths so far
  lost               \* workers whose fork has failed (history)

kernelVars == <<proc, young, deaths, lost>>
vars == <<pc, preforked, due, children, pending_restarts, SHUTDOWN, kernelVars>>

Free == [state |-> "free", idx |-> None]
Live(p) == proc[p].state \in {"booting", "running"}
Known == DOMAIN children

\* HashMap::insert and HashMap::remove
Inserted(map, k, v) == [x \in DOMAIN map \cup {k} |-> IF x = k THEN v ELSE map[x]]
Removed(map, k) == [x \in DOMAIN map \ {k} |-> map[x]]
Empty == [x \in {} |-> x]

Init ==
  /\ pc = "prefork" /\ preforked = 0 /\ due = {}
  /\ children = Empty /\ pending_restarts = Empty
  /\ SHUTDOWN = FALSE
  /\ proc = [p \in Pid |-> Free]
  /\ young = {} /\ deaths = 0 /\ lost = {}
-----------------------------------------------------------------------------
(* Starting workers. *)

\* spawn_worker: the parent's side of a fork, or its error.
SpawnWorker(i, fails) ==
  \/ \E p \in Pid :
       /\ proc[p] = Free /\ UNCHANGED lost
       /\ proc' = [proc EXCEPT ![p] = [state |-> "booting", idx |-> i]]
       /\ young' = young \cup {p}
       /\ children' = Inserted(children, p, [idx |-> i, fails |-> fails])
  \/ lost' = lost \cup {i} /\ UNCHANGED <<proc, young, children>>

Prefork ==
  /\ pc = "prefork" /\ preforked < NumWorkers
  /\ SpawnWorker(preforked, 0)
  /\ preforked' = preforked + 1
  /\ UNCHANGED <<pc, due, pending_restarts, SHUTDOWN, deaths>>

\* Step 0: the restarts that are due, collected and then spawned.
CollectDue ==
  /\ \/ pc = "prefork" /\ preforked = NumWorkers
     \/ pc = "loop"
  /\ due' = {c \in DOMAIN pending_restarts : pending_restarts[c].left = 0}
  /\ pc' = "spawn"
  /\ UNCHANGED <<preforked, children, pending_restarts, SHUTDOWN, kernelVars>>

\* Mutant: the entry stays in pending_restarts.
RestartKept(c) ==
  /\ pc = "spawn" /\ c \in due
  /\ SpawnWorker(pending_restarts[c].idx, pending_restarts[c].fails)
  /\ due' = due \ {c}
  /\ UNCHANGED <<pc, preforked, pending_restarts, SHUTDOWN, deaths>>

Restart(c) ==
  /\ pc = "spawn" /\ c \in due
  /\ SpawnWorker(pending_restarts[c].idx, pending_restarts[c].fails)
  /\ pending_restarts' = Removed(pending_restarts, c)
  /\ due' = due \ {c}
  /\ UNCHANGED <<pc, preforked, SHUTDOWN, deaths>>

RestartsDone ==
  /\ pc = "spawn" /\ due = {}
  /\ pc' = "reap"
  /\ UNCHANGED <<preforked, due, children, pending_restarts, SHUTDOWN, kernelVars>>
-----------------------------------------------------------------------------
(* Reaping. *)

Least(a, b) == IF a < b THEN a ELSE b

\* backoff_delay, in passes of the loop: immediate, then 2^fails, capped.
BackoffDelay(fails) == IF fails = 0 THEN 0 ELSE 2 ^ Least(fails, BackoffCap)

\* Mutant: a worker that lived long is not restarted.
ForgetOldWorkers(p) == p \in young /\ ~SHUTDOWN

\* schedule_child_exit schedules nothing once the shutdown has begun.
Rescheduled(p) == ~SHUTDOWN

\* Mutant: children.get instead of children.remove.
EntryKept(p) == children

\* children.remove(&pid)
EntryRemoved(p) == Removed(children, p)

\* waitpid returns a dead child, schedule_child_exit takes it off the books.
Reap(p) ==
  /\ pc = "reap"
  /\ proc[p].state = "zombie"
  /\ proc' = [proc EXCEPT ![p] = Free]
  /\ young' = young \ {p}
  /\ children' = EntryRemoved(p)
  /\ pending_restarts' =
       IF p \in Known /\ Rescheduled(p)
         THEN LET i == children[p].idx
                  fails == IF p \in young THEN children[p].fails + 1 ELSE 0
              IN Inserted(pending_restarts, CpuOf[i],
                          [idx |-> i, left |-> BackoffDelay(fails), fails |-> fails])
         ELSE pending_restarts
  /\ UNCHANGED <<pc, preforked, due, SHUTDOWN, deaths, lost>>

\* waitpid has nothing more to report.
ReapDone ==
  /\ pc = "reap"
  /\ \A p \in Pid : proc[p].state # "zombie"
  /\ pc' = "check"
  /\ UNCHANGED <<preforked, due, children, pending_restarts, SHUTDOWN, kernelVars>>
-----------------------------------------------------------------------------
(* Shutdown, and the wait at the end of an iteration. *)

\* Step 2, no shutdown (or no child left): go on (or leave).
Proceed ==
  /\ pc = "check"
  /\ \/ ~SHUTDOWN /\ pc' = "wait"
     \/ SHUTDOWN /\ Known = {} /\ pc' = "exited"
  /\ UNCHANGED <<preforked, due, children, pending_restarts, SHUTDOWN, kernelVars>>

\* Mutant: go round the loop again instead of waiting and killing.
TerminateOnly ==
  /\ pc = "check" /\ SHUTDOWN /\ Known # {}
  /\ proc' = [p \in Pid |-> IF p \in Known /\ proc[p].state = "running"
                              THEN [proc[p] EXCEPT !.state = "stopping"] ELSE proc[p]]
  /\ pc' = "wait"
  /\ UNCHANGED <<preforked, due, children, pending_restarts, SHUTDOWN, young, deaths, lost>>

\* SIGTERM to all children, then 500 ms of sleep.  A worker that has not
\* installed its own handler yet runs the inherited one, to no effect.
Terminate ==
  /\ pc = "check" /\ SHUTDOWN /\ Known # {}
  /\ proc' = [p \in Pid |-> IF p \in Known /\ proc[p].state = "running"
                              THEN [proc[p] EXCEPT !.state = "stopping"] ELSE proc[p]]
  /\ pc' = "terminate"
  /\ UNCHANGED <<preforked, due, children, pending_restarts, SHUTDOWN, young, deaths, lost>>

\* Mutant: only the workers that were told to stop are killed.
KillStopping ==
  /\ pc = "terminate"
  /\ proc' = [p \in Pid |-> IF p \in Known /\ proc[p].state = "stopping"
                              THEN [proc[p] EXCEPT !.state = "zombie"] ELSE proc[p]]
  /\ children' = Empty
  /\ pc' = "exited"
  /\ UNCHANGED <<preforked, due, pending_restarts, SHUTDOWN, young, deaths, lost>>

\* SIGKILL to all children, and exit.
Kill ==
  /\ pc = "terminate"
  /\ proc' = [p \in Pid |-> IF p \in Known THEN [proc[p] EXCEPT !.state = "zombie"]
                            ELSE proc[p]]
  /\ children' = Empty
  /\ pc' = "exited"
  /\ UNCHANGED <<preforked, due, pending_restarts, SHUTDOWN, young, deaths, lost>>

\* Mutant: the wait is not shortened for a restart, and starts it over.
WaitForgetsRestarts ==
  /\ pc = "wait"
  /\ pc' = "loop"
  /\ UNCHANGED <<preforked, due, children, pending_restarts, SHUTDOWN, kernelVars>>

\* poll or sleep: no longer than the nearest restart.
Wait ==
  /\ pc = "wait"
  /\ pending_restarts' =
       [c \in DOMAIN pending_restarts |->
          [pending_restarts[c] EXCEPT !.left = IF @ = 0 THEN 0 ELSE @ - 1]]
  /\ pc' = "loop"
  /\ UNCHANGED <<preforked, due, children, SHUTDOWN, kernelVars>>
-----------------------------------------------------------------------------
(* The kernel, the workers, the service manager. *)

\* A worker installs its signal handlers (Poller::new).
Boot(p) ==
  /\ proc[p].state = "booting"
  /\ proc' = [proc EXCEPT ![p].state = "running"]
  /\ UNCHANGED <<pc, preforked, due, children, pending_restarts, SHUTDOWN, young, deaths, lost>>

\* A worker exits or crashes on its own, or stops as it was told to.
Die(p) ==
  /\ \/ Live(p) /\ deaths < MaxDeaths /\ deaths' = deaths + 1
     \/ proc[p].state = "stopping" /\ UNCHANGED deaths
  /\ proc' = [proc EXCEPT ![p].state = "zombie"]
  /\ UNCHANGED <<pc, preforked, due, children, pending_restarts, SHUTDOWN, young, lost>>

\* Ten seconds pass since p was forked; its death may come before the reaping.
Mature(p) ==
  /\ p \in young
  /\ young' = young \ {p}
  /\ UNCHANGED <<pc, preforked, due, children, pending_restarts, SHUTDOWN, proc, deaths, lost>>

\* Another program gets a pid nobody uses, and gives it back.  The process
\* table never fills up: a fork that fails is SpawnWorker's second case.
Stranger(p) ==
  /\ \/ /\ proc[p] = Free
        /\ Cardinality({q \in Pid : proc[q].state = "stranger"}) < Cardinality(Pid) - NumWorkers
        /\ proc' = [proc EXCEPT ![p].state = "stranger"]
     \/ proc[p].state = "stranger" /\ proc' = [proc EXCEPT ![p] = Free]
  /\ UNCHANGED <<pc, preforked, due, children, pending_restarts, SHUTDOWN, young, deaths, lost>>

\* on_supervisor_signal
Signal ==
  /\ pc # "exited" /\ ~SHUTDOWN
  /\ SHUTDOWN' = TRUE
  /\ UNCHANGED <<pc, preforked, due, children, pending_restarts, kernelVars>>
-----------------------------------------------------------------------------
Loop == \/ Prefork \/ CollectDue \/ (\E c \in Cpu : Restart(c)) \/ RestartsDone
        \/ (\E p \in Pid : Reap(p)) \/ ReapDone
        \/ Proceed \/ Terminate \/ Kill \/ Wait

Next == \/ Loop
        \/ \E p \in Pid : Boot(p) \/ Die(p) \/ Mature(p) \/ Stranger(p)
        \/ Signal

Spec == Init /\ [][Next]_vars

\* The supervisor runs.
FairSpec == Spec /\ WF_vars(Loop)
-----------------------------------------------------------------------------
Ours == {p \in Pid : proc[p].state \in {"booting", "running", "stopping", "zombie"}}
Alive(i) == {p \in Ours : proc[p].idx = i /\ proc[p].state # "zombie"}
Scheduled(i) == \E c \in DOMAIN pending_restarts : pending_restarts[c].idx = i

\* A worker index never has two live processes, through crashes, restarts and
\* shutdown: its score slot has one writer and its share of the upstream set
\* one user.
OneProcessPerWorker == \A i \in Index : \A p, q \in Alive(i) : p = q

\* The books agree with the kernel: kill is only ever called with a pid that
\* still belongs to a worker, never one the kernel gave to somebody else, and
\* no worker is off the books.
BooksAgree == pc # "exited" => Known = Ours

\* The supervisor leaves no worker behind, one that was forked after the
\* signal or has no handler yet included.
NoOrphans == pc = "exited" => \A i \in Index : Alive(i) = {}

\* "supervisor restarts crashed workers with backoff": none is forgotten, but
\* one whose fork fails (spawn_worker's None schedules nothing).
NoWorkerForgotten ==
  pc = "wait" =>
    \A i \in Index \ lost : (\E p \in Known : children[p].idx = i) \/ Scheduled(i)

\* A worker that died is running again after its backoff.
WorkerComesBack ==
  \A i \in Index : Alive(i) = {} ~> Alive(i) # {} \/ SHUTDOWN \/ i \in lost

\* A shutdown completes, whatever the workers do.
ShutdownEnds == SHUTDOWN ~> pc = "exited"
=============================================================================
