----------------------------- MODULE DaemonProofs -----------------------------
(***************************************************************************)
(* The two programs that look after something until they are stopped: what *)
(* the books of microdoh3's supervisor promise, for any number of workers, *)
(* cpus and process ids, and what mdns-publisher leaves in the caches of   *)
(* its peers, for any changes of the interface and any queries.            *)
(***************************************************************************)
EXTENDS Supervisor, MdnsPublisher, TLAPS

\* The solver gets more than its 5 seconds, for slow machines.
USE SMTT(30)
-----------------------------------------------------------------------------
(* The supervisor's books (Supervisor). *)

States == {"free", "booting", "running", "stopping", "zombie", "stranger"}

\* The shape of the maps: a restart is filed under the cpu of its worker.
Shape ==
  /\ proc \in [Pid -> [state : States, idx : Index \cup {None}]]
  /\ preforked \in Nat
  /\ Known \subseteq Pid
  /\ \A p \in Known : children[p].idx \in Index
  /\ \A c \in DOMAIN pending_restarts :
       /\ pending_restarts[c] = [idx |-> pending_restarts[c].idx, left |-> pending_restarts[c].left,
                                 fails |-> pending_restarts[c].fails]
       /\ pending_restarts[c].idx \in Index
       /\ CpuOf[pending_restarts[c].idx] = c
  /\ due \subseteq DOMAIN pending_restarts
  /\ pc # "spawn" => due = {}

\* A worker is in one place: a process, on the books until the exit, or a
\* scheduled restart, or still to be preforked.
OnePlace ==
  /\ \A p \in Ours : proc[p].idx \in Index
  /\ \A p, q \in Ours : proc[p].idx = proc[q].idx => p = q
  /\ \A p \in Ours, c \in DOMAIN pending_restarts : pending_restarts[c].idx # proc[p].idx
  /\ pc # "exited" => Known = Ours /\ \A p \in Known : children[p].idx = proc[p].idx
  /\ pc = "exited" => \A p \in Ours : proc[p].state = "zombie"
  /\ pc = "prefork" => /\ DOMAIN pending_restarts = {}
                       /\ \A p \in Ours : proc[p].idx < preforked

IInv == Shape /\ OnePlace

\* Initially nobody runs.
LEMMA InitIInv == Init => IInv
  <1> SUFFICES ASSUME Init PROVE IInv
    BY Zenon
  <1>1. Ours = {}
    BY Zenon DEF Init, Ours, Free
  <1>2. Shape
    BY Zenon DEF Init, Shape, Known, Empty, Free, States
  <1>3. OnePlace
    BY <1>1, Zenon DEF Init, OnePlace, Known, Empty
  <1> QED  BY <1>2, <1>3, Zenon DEF IInv

\* Spawning a worker that is in no place yet keeps the books in order.
LEMMA Spawned ==
  ASSUME Shape, OnePlace, pc # "exited",
         NEW i \in Index, NEW fails,
         SpawnWorker(i, fails),
         \A p \in Ours : proc[p].idx # i
  PROVE  /\ proc' \in [Pid -> [state : States, idx : Index \cup {None}]]
         /\ Known' = Ours' /\ Known' \subseteq Pid
         /\ \A p \in Known' : children'[p].idx \in Index /\ children'[p].idx = proc'[p].idx
         /\ \A p, q \in Ours' : proc'[p].idx = proc'[q].idx => p = q
         /\ \A p \in Ours' : (p \in Ours /\ proc'[p] = proc[p]) \/ proc'[p].idx = i
  <1>1. CASE UNCHANGED <<proc, young, children>>
    BY <1>1 DEF Shape, OnePlace, Ours, Known
  <1>2. ASSUME NEW p \in Pid, proc[p] = Free,
               proc' = [proc EXCEPT ![p] = [state |-> "booting", idx |-> i]],
               children' = Inserted(children, p, [idx |-> i, fails |-> fails])
        PROVE  /\ proc' \in [Pid -> [state : States, idx : Index \cup {None}]]
               /\ Known' = Ours' /\ Known' \subseteq Pid
               /\ \A q \in Known' : children'[q].idx \in Index /\ children'[q].idx = proc'[q].idx
               /\ \A q, r \in Ours' : proc'[q].idx = proc'[r].idx => q = r
               /\ \A q \in Ours' : (q \in Ours /\ proc'[q] = proc[q]) \/ proc'[q].idx = i
    <2>1. proc' \in [Pid -> [state : States, idx : Index \cup {None}]]
      BY <1>2, Zenon DEF Shape, States
    <2>2. Ours' = Ours \cup {p}
      BY <1>2 DEF Shape, Ours, Free
    <2>3. Known' = Known \cup {p}
      BY <1>2, Zenon DEF Known, Inserted
    <2>4. proc'[p].idx = i /\ \A q \in Ours : q # p /\ proc'[q] = proc[q]
      BY <1>2 DEF Shape, Ours, Free
    <2>5. children'[p].idx = i /\ \A q \in Known : q # p => children'[q] = children[q]
      BY <1>2, <2>3, Zenon DEF Known, Inserted
    <2> QED
      BY <2>1, <2>2, <2>3, <2>4, <2>5 DEF Shape, OnePlace
  <1> QED
    BY <1>1, <1>2, Zenon DEF SpawnWorker

\* No step puts a worker in a second place.
LEMMA NextIInv == IInv /\ [Next]_vars => IInv'
  <1> SUFFICES ASSUME Shape, OnePlace, [Next]_vars PROVE Shape' /\ OnePlace'
    BY Zenon DEF IInv
  <1>1. CASE Prefork
    <2>1. preforked \in Index
      BY <1>1, SupervisorAssumption DEF Prefork, Shape, Index
    <2>2. \A p \in Ours : proc[p].idx # preforked
      BY <1>1 DEF Prefork, OnePlace, Index
    <2>3. /\ proc' \in [Pid -> [state : States, idx : Index \cup {None}]]
          /\ Known' = Ours' /\ Known' \subseteq Pid
          /\ \A p \in Known' : children'[p].idx \in Index /\ children'[p].idx = proc'[p].idx
          /\ \A p, q \in Ours' : proc'[p].idx = proc'[q].idx => p = q
          /\ \A p \in Ours' : (p \in Ours /\ proc'[p] = proc[p]) \/ proc'[p].idx = preforked
      BY <1>1, <2>1, <2>2, Spawned, Zenon DEF Prefork
    <2>4. Shape'
      BY <1>1, <2>3 DEF Prefork, Shape
    <2>5. \A p \in Ours' : proc'[p].idx < preforked'
      BY <1>1, <2>1, <2>3 DEF Prefork, OnePlace, Index
    <2>6. OnePlace'
      BY <1>1, <2>3, <2>5, Zenon DEF Prefork, OnePlace
    <2> QED  BY <2>4, <2>6, Zenon
  <1>2. CASE CollectDue
    <2>1. Shape'
      BY <1>2, Zenon DEF CollectDue, kernelVars, Shape, Known
    <2>2. OnePlace'
      BY <1>2 DEF CollectDue, kernelVars, OnePlace, Ours, Known
    <2> QED  BY <2>1, <2>2, Zenon
  <1>3. ASSUME NEW c \in Cpu, Restart(c) PROVE Shape' /\ OnePlace'
    <2> DEFINE i == pending_restarts[c].idx
    <2>1. c \in DOMAIN pending_restarts /\ i \in Index /\ CpuOf[i] = c /\ pc = "spawn"
      BY <1>3, Zenon DEF Restart, Shape
    <2>2. \A p \in Ours : proc[p].idx # i
      BY <2>1, Zenon DEF OnePlace
    <2>3. /\ proc' \in [Pid -> [state : States, idx : Index \cup {None}]]
          /\ Known' = Ours' /\ Known' \subseteq Pid
          /\ \A p \in Known' : children'[p].idx \in Index /\ children'[p].idx = proc'[p].idx
          /\ \A p, q \in Ours' : proc'[p].idx = proc'[q].idx => p = q
          /\ \A p \in Ours' : (p \in Ours /\ proc'[p] = proc[p]) \/ proc'[p].idx = i
      <3>1. SpawnWorker(i, pending_restarts[c].fails)
        BY <1>3, Zenon DEF Restart
      <3> HIDE DEF i
      <3> QED  BY <2>1, <2>2, <3>1, Spawned, Zenon
    <2>4. /\ DOMAIN pending_restarts' = DOMAIN pending_restarts \ {c}
          /\ \A d \in DOMAIN pending_restarts' : pending_restarts'[d] = pending_restarts[d]
      BY <1>3, Zenon DEF Restart, Removed
    <2>5. Shape'
      BY <1>3, <2>1, <2>3, <2>4 DEF Restart, Shape
    <2>6. \A d \in DOMAIN pending_restarts' : pending_restarts'[d].idx # i
      BY <2>1, <2>4 DEF Shape
    <2>7. \A p \in Ours', d \in DOMAIN pending_restarts' : pending_restarts'[d].idx # proc'[p].idx
      BY <2>3, <2>4, <2>6 DEF OnePlace
    <2>8. OnePlace'
      BY <1>3, <2>1, <2>3, <2>7, Zenon DEF Restart, OnePlace
    <2> QED  BY <2>5, <2>8, Zenon
  <1>4. CASE RestartsDone
    <2>1. Shape'
      BY <1>4, Zenon DEF RestartsDone, kernelVars, Shape, Known
    <2>2. OnePlace'
      BY <1>4 DEF RestartsDone, kernelVars, OnePlace, Ours, Known
    <2> QED  BY <2>1, <2>2, Zenon
  <1>5. ASSUME NEW p \in Pid, Reap(p) PROVE Shape' /\ OnePlace'
    <2> DEFINE i == children[p].idx
    <2>1. p \in Ours /\ p \in Known /\ i \in Index /\ proc[p].idx = i /\ pc = "reap" /\ pc' = "reap"
      BY <1>5, Zenon DEF Reap, Ours, OnePlace, Shape
    <2>2. /\ Known' = Known \ {p}
          /\ \A q \in Known' : children'[q] = children[q]
      BY <1>5, Zenon DEF Reap, EntryRemoved, Removed, Known
    <2>3. /\ Ours' = Ours \ {p}
          /\ \A q \in Ours' : proc'[q] = proc[q]
          /\ proc' \in [Pid -> [state : States, idx : Index \cup {None}]]
      BY <1>5 DEF Reap, Ours, Free, Shape, States
    <2>4. \A q \in Ours' : proc'[q].idx # i
      BY <2>1, <2>3 DEF OnePlace
    <2>5. \/ UNCHANGED pending_restarts
          \/ /\ DOMAIN pending_restarts' = DOMAIN pending_restarts \cup {CpuOf[i]}
             /\ \A c \in DOMAIN pending_restarts :
                  c # CpuOf[i] => pending_restarts'[c] = pending_restarts[c]
             /\ \E left, fails :
                  pending_restarts'[CpuOf[i]] = [idx |-> i, left |-> left, fails |-> fails]
      BY <1>5, Zenon DEF Reap, Inserted
    <2>6. \A c \in DOMAIN pending_restarts' :
            /\ \/ c \in DOMAIN pending_restarts /\ pending_restarts'[c] = pending_restarts[c]
               \/ c = CpuOf[i] /\ pending_restarts'[c].idx = i
            /\ pending_restarts'[c] = [idx |-> pending_restarts'[c].idx,
                  left |-> pending_restarts'[c].left, fails |-> pending_restarts'[c].fails]
      <3>1. CASE UNCHANGED pending_restarts
        BY <3>1, Zenon DEF Shape
      <3>2. CASE ~UNCHANGED pending_restarts
        <4>1. PICK left, fails :
                pending_restarts'[CpuOf[i]] = [idx |-> i, left |-> left, fails |-> fails]
          BY <2>5, <3>2, Zenon
        <4> HIDE DEF i
        <4> QED  BY <2>5, <3>2, <4>1 DEF Shape
      <3> QED  BY <3>1, <3>2, Zenon
    <2>7. DOMAIN pending_restarts \subseteq DOMAIN pending_restarts'
      BY <2>5, Zenon
    <2>8. Shape'
      <3> HIDE DEF i
      <3>1. due' = due /\ preforked' = preforked
        BY <1>5, Zenon DEF Reap
      <3>2. \A c \in DOMAIN pending_restarts' :
              pending_restarts'[c].idx \in Index /\ CpuOf[pending_restarts'[c].idx] = c
        BY <2>1, <2>6 DEF Shape
      <3> QED  BY <2>1, <2>2, <2>3, <2>6, <2>7, <3>1, <3>2 DEF Shape
    <2>9. \A q \in Ours', c \in DOMAIN pending_restarts' : pending_restarts'[c].idx # proc'[q].idx
      <3> HIDE DEF i
      <3> QED  BY <2>3, <2>4, <2>6 DEF OnePlace
    <2>10. OnePlace'
      BY <2>1, <2>2, <2>3, <2>9 DEF OnePlace
    <2> QED  BY <2>8, <2>10, Zenon
  <1>6. CASE ReapDone
    <2>1. Shape'
      BY <1>6, Zenon DEF ReapDone, kernelVars, Shape, Known
    <2>2. OnePlace'
      BY <1>6 DEF ReapDone, kernelVars, OnePlace, Ours, Known
    <2> QED  BY <2>1, <2>2, Zenon
  <1>7. CASE Proceed
    <2>1. Shape'
      BY <1>7, Zenon DEF Proceed, kernelVars, Shape, Known
    <2>2. OnePlace'
      BY <1>7 DEF Proceed, kernelVars, OnePlace, Ours, Known
    <2> QED  BY <2>1, <2>2, Zenon
  <1>8. CASE Terminate
    <2>1. /\ proc' \in [Pid -> [state : States, idx : Index \cup {None}]]
          /\ Ours' = Ours
          /\ \A p \in Pid : proc'[p].idx = proc[p].idx
      BY <1>8 DEF Terminate, Shape, States, Ours
    <2>2. Shape'
      BY <1>8, <2>1, Zenon DEF Terminate, Shape, Known
    <2>3. OnePlace'
      BY <1>8, <2>1 DEF Terminate, OnePlace, Known, Ours
    <2> QED  BY <2>2, <2>3, Zenon
  <1>9. CASE Kill
    <2>1. /\ proc' \in [Pid -> [state : States, idx : Index \cup {None}]]
          /\ Ours' = Ours
          /\ \A p \in Pid : proc'[p].idx = proc[p].idx
          /\ \A p \in Ours : proc'[p].state = "zombie"
      BY <1>9 DEF Kill, Shape, States, Ours, OnePlace
    <2>2. Known' = {}
      BY <1>9, Zenon DEF Kill, Known, Empty
    <2>3. Shape'
      BY <1>9, <2>1, <2>2, Zenon DEF Kill, Shape
    <2>4. OnePlace'
      BY <1>9, <2>1, <2>2 DEF Kill, OnePlace, Ours
    <2> QED  BY <2>3, <2>4, Zenon
  <1>10. CASE Wait
    <2>1. /\ DOMAIN pending_restarts' = DOMAIN pending_restarts
          /\ \A c \in DOMAIN pending_restarts :
               /\ pending_restarts'[c].idx = pending_restarts[c].idx
               /\ pending_restarts'[c] = [idx |-> pending_restarts'[c].idx,
                     left |-> pending_restarts'[c].left, fails |-> pending_restarts'[c].fails]
      BY <1>10 DEF Wait, Shape
    <2>2. Shape'
      BY <1>10, <2>1 DEF Wait, Shape, Known, kernelVars
    <2>3. UNCHANGED <<proc, children, preforked>> /\ pc # "exited" /\ pc' = "loop"
      BY <1>10, Zenon DEF Wait, kernelVars
    <2>4. Ours' = Ours /\ Known' = Known
      BY <2>3, Zenon DEF Ours, Known
    <2>5. OnePlace'
      BY <2>1, <2>3, <2>4 DEF OnePlace
    <2> QED  BY <2>2, <2>5, Zenon
  <1>11. ASSUME NEW p \in Pid, Boot(p) \/ Die(p) PROVE Shape' /\ OnePlace'
    <2>1. /\ proc' \in [Pid -> [state : States, idx : Index \cup {None}]]
          /\ Ours' = Ours
          /\ \A q \in Pid : proc'[q].idx = proc[q].idx
          /\ \A q \in Pid : proc[q].state = "zombie" => proc'[q].state = "zombie"
      BY <1>11 DEF Boot, Die, Live, Shape, States, Ours
    <2>2. Shape'
      BY <1>11, <2>1 DEF Boot, Die, Shape, Known
    <2>3. UNCHANGED <<pc, preforked, children, pending_restarts>>
      BY <1>11, Zenon DEF Boot, Die
    <2>4. Known' = Known /\ Ours \subseteq Pid
      BY <2>3, Zenon DEF Known, Ours
    <2>5. OnePlace'
      BY <2>1, <2>3, <2>4 DEF OnePlace
    <2> QED  BY <2>2, <2>5, Zenon
  <1>12. ASSUME NEW p \in Pid, Stranger(p) PROVE Shape' /\ OnePlace'
    <2>1. /\ proc' \in [Pid -> [state : States, idx : Index \cup {None}]]
          /\ Ours' = Ours
          /\ \A q \in Ours : proc'[q] = proc[q]
      BY <1>12 DEF Stranger, Free, Shape, States, Ours
    <2>2. Shape'
      BY <1>12, <2>1, Zenon DEF Stranger, Shape, Known
    <2>3. OnePlace'
      BY <1>12, <2>1 DEF Stranger, OnePlace, Known
    <2> QED  BY <2>2, <2>3, Zenon
  <1>13. CASE Signal \/ (\E p \in Pid : Mature(p)) \/ UNCHANGED vars
    <2>1. UNCHANGED <<pc, preforked, due, children, pending_restarts, proc>>
      BY <1>13, Zenon DEF Signal, Mature, vars, kernelVars
    <2> QED  BY <2>1 DEF Shape, OnePlace, Ours, Known
  <1> QED
    BY <1>1, <1>2, <1>3, <1>4, <1>5, <1>6, <1>7, <1>8, <1>9, <1>10, <1>11, <1>12, <1>13
    DEF Next, Loop

\* The inductive invariant holds in every reachable state of the supervisor.
LEMMA Inductive == Spec => []IInv
  BY InitIInv, NextIInv, PTL DEF Spec

\* A worker index never has two live processes: the single-writer premise of
\* the score page, for any number of workers, cpus shared between them or not.
THEOREM SingleProcess == Spec => []OneProcessPerWorker
  <1>1. IInv => OneProcessPerWorker
    BY DEF IInv, OnePlace, OneProcessPerWorker, Alive
  <1> QED  BY <1>1, Inductive, PTL

\* The pids on the books are the workers the kernel has: kill never reaches a
\* process of somebody else, however pids are reused.
THEOREM BooksInOrder == Spec => []BooksAgree
  <1>1. IInv => BooksAgree
    BY Zenon DEF IInv, OnePlace, BooksAgree
  <1> QED  BY <1>1, Inductive, PTL

\* When the supervisor has exited every worker it ever forked is dead.
THEOREM NobodyLeftBehind == Spec => []NoOrphans
  <1>1. IInv => NoOrphans
    BY Zenon DEF IInv, OnePlace, NoOrphans, Alive
  <1> QED  BY <1>1, Inductive, PTL
-----------------------------------------------------------------------------
DistinctCpus == \A i, j \in Index : CpuOf[i] = CpuOf[j] => i = j

OnTheBooks(i) == \E p \in Known : children[p].idx = i

Accounted(i) == \/ pc = "prefork" /\ preforked <= i
                \/ OnTheBooks(i) \/ Scheduled(i) \/ i \in lost

\* Nobody is forgotten before the shutdown; a worker reaped after the signal
\* is, but the loop has no other iteration then.
Kept == \/ pc \in {"terminate", "exited"}
        \/ pc \in {"reap", "check"} /\ SHUTDOWN
        \/ \A i \in Index : Accounted(i)

\* Before the first fork every worker is still to be forked by the prefork loop.
LEMMA InitKept == Init => Kept
  BY SupervisorAssumption DEF Init, Kept, Accounted, Index

\* A fork adds its worker to the books, or fails.
LEMMA SpawnedKept ==
  ASSUME OnePlace, pc # "exited", NEW i, NEW fails, SpawnWorker(i, fails)
  PROVE  /\ OnTheBooks(i)' \/ i \in lost'
         /\ \A j : OnTheBooks(j) => OnTheBooks(j)'
         /\ lost \subseteq lost'
  <1>1. CASE lost' = lost \cup {i} /\ UNCHANGED <<proc, young, children>>
    BY <1>1, Zenon DEF OnTheBooks, Known
  <1>2. ASSUME NEW p \in Pid, proc[p] = Free, UNCHANGED lost,
               children' = Inserted(children, p, [idx |-> i, fails |-> fails])
        PROVE  OnTheBooks(i)' /\ \A j : OnTheBooks(j) => OnTheBooks(j)'
    <2>1. p \notin Known
      BY <1>2 DEF OnePlace, Ours, Free
    <2>2. /\ Known' = Known \cup {p} /\ children'[p].idx = i
          /\ \A q \in Known : children'[q] = children[q]
      BY <1>2, <2>1, Zenon DEF Known, Inserted
    <2> QED  BY <2>2, Zenon DEF OnTheBooks
  <1> QED  BY <1>1, <1>2, Zenon DEF SpawnWorker

\* With a cpu of its own a worker is never overwritten by another.
LEMMA NextKept ==
  ASSUME DistinctCpus, IInv, Kept, [Next]_vars
  PROVE  Kept'
  <1>1. CASE Prefork
    <2>1. PICK n : n = preforked
      BY Zenon
    <2>2. /\ OnTheBooks(n)' \/ n \in lost'
          /\ \A i \in Index : OnTheBooks(i) => OnTheBooks(i)'
          /\ lost \subseteq lost'
      BY <1>1, <2>1, SpawnedKept, Zenon DEF Prefork, IInv
    <2>3. \A i \in Index : Accounted(i)
      BY <1>1, Zenon DEF Kept, Prefork
    <2>4. ASSUME NEW i \in Index PROVE Accounted(i)'
      <3>1. CASE i = n
        BY <3>1, <2>2, Zenon DEF Accounted
      <3>2. CASE pc = "prefork" /\ preforked <= i /\ i # n
        BY <1>1, <2>1, <3>2 DEF Accounted, Prefork, IInv, Shape, Index
      <3>3. CASE OnTheBooks(i)
        BY <3>3, <2>2, Zenon DEF Accounted
      <3>4. CASE Scheduled(i)
        BY <1>1, <3>4, Zenon DEF Accounted, Prefork, Scheduled
      <3>5. CASE i \in lost
        BY <3>5, <2>2, Zenon DEF Accounted
      <3> QED  BY <2>3, <3>1, <3>2, <3>3, <3>4, <3>5, Zenon DEF Accounted
    <2> QED  BY <2>4, Zenon DEF Kept
  <1>2. CASE CollectDue
    <2>1. \A i \in Index : Accounted(i)
      BY <1>2, Zenon DEF Kept, CollectDue
    <2>2. \A i \in Index : (OnTheBooks(i) => OnTheBooks(i)') /\ (Scheduled(i) => Scheduled(i)')
      BY <1>2, Zenon DEF CollectDue, OnTheBooks, Scheduled, Known
    <2>3. \A i \in Index : OnTheBooks(i) \/ Scheduled(i) \/ i \in lost
      BY <1>2, <2>1, SupervisorAssumption DEF CollectDue, Accounted, Index
    <2> QED  BY <1>2, <2>2, <2>3, Zenon DEF Kept, Accounted, CollectDue, kernelVars
  <1>3. ASSUME NEW c \in Cpu, Restart(c) PROVE Kept'
    <2>0. PICK n, fails : n = pending_restarts[c].idx /\ fails = pending_restarts[c].fails
      BY Zenon
    <2>1. /\ OnTheBooks(n)' \/ n \in lost'
          /\ \A i : OnTheBooks(i) => OnTheBooks(i)'
          /\ lost \subseteq lost'
      <3>1. SpawnWorker(n, fails) /\ pc # "exited" /\ OnePlace
        BY <1>3, <2>0, Zenon DEF Restart, IInv
      <3> QED  BY <3>1, SpawnedKept, Zenon
    <2>2. \A i \in Index : Accounted(i) /\ pc = "spawn"
      BY <1>3, Zenon DEF Kept, Restart
    <2>3. \A i \in Index : Scheduled(i) /\ i # n => Scheduled(i)'
      BY <1>3, <2>0, Zenon DEF Restart, Removed, Scheduled
    <2>4. ASSUME NEW i \in Index PROVE Accounted(i)'
      BY <2>1, <2>2, <2>3, Zenon DEF Accounted
    <2> QED  BY <2>4, Zenon DEF Kept
  <1>4. ASSUME NEW p \in Pid, Reap(p) PROVE Kept'
    <2>1. CASE SHUTDOWN
      BY <1>4, <2>1, Zenon DEF Reap, Kept
    <2>2. CASE ~SHUTDOWN
      <3>0. PICK n : n = children[p].idx
        BY Zenon
      <3>1. \A i \in Index : Accounted(i) /\ pc = "reap" /\ pc' = "reap"
        BY <1>4, <2>2, Zenon DEF Kept, Reap
      <3>2. p \in Known /\ n \in Index
        <4>1. p \in Ours /\ pc # "exited"
          BY <1>4, Zenon DEF Reap, Ours
        <4> QED  BY <3>0, <4>1, Zenon DEF IInv, OnePlace, Shape
      <3>3. /\ Known' = Known \ {p}
            /\ \A q \in Known' : children'[q] = children[q]
        BY <1>4, Zenon DEF Reap, EntryRemoved, Removed, Known
      <3>4. PICK left, fails : pending_restarts' =
              Inserted(pending_restarts, CpuOf[n], [idx |-> n, left |-> left, fails |-> fails])
        BY <1>4, <2>2, <3>0, <3>2, Zenon DEF Reap, Rescheduled
      <3>5. Scheduled(n)'
        BY <3>4, Zenon DEF Inserted, Scheduled
      <3>6. \A i \in Index : Scheduled(i) /\ i # n => Scheduled(i)'
        <4> SUFFICES ASSUME NEW i \in Index, Scheduled(i), i # n PROVE Scheduled(i)'
          BY Zenon
        <4>1. PICK c \in DOMAIN pending_restarts : pending_restarts[c].idx = i
          BY Zenon DEF Scheduled
        <4>2. c # CpuOf[n]
          BY <3>2, <4>1 DEF IInv, Shape, DistinctCpus
        <4> QED  BY <3>4, <4>1, <4>2, Zenon DEF Inserted, Scheduled
      <3>7. \A i \in Index : OnTheBooks(i) /\ i # n => OnTheBooks(i)'
        BY <3>0, <3>3, Zenon DEF OnTheBooks
      <3>8. ASSUME NEW i \in Index PROVE Accounted(i)'
        BY <1>4, <3>1, <3>5, <3>6, <3>7, Zenon DEF Accounted, Reap
      <3> QED  BY <3>8, Zenon DEF Kept
    <2> QED  BY <2>1, <2>2, Zenon
  <1>5. CASE RestartsDone \/ ReapDone \/ Proceed \/ Signal
    <2>1. \A i \in Index : (OnTheBooks(i) => OnTheBooks(i)') /\ (Scheduled(i) => Scheduled(i)')
      BY <1>5, Zenon DEF RestartsDone, ReapDone, Proceed, Signal, OnTheBooks, Scheduled, Known
    <2>2. \A i \in Index : Accounted(i) => Accounted(i)'
      BY <1>5, <2>1, Zenon DEF RestartsDone, ReapDone, Proceed, Signal, Accounted, kernelVars
    <2>3. CASE \A i \in Index : Accounted(i)
      BY <2>2, <2>3, Zenon DEF Kept
    <2>4. CASE pc \in {"terminate", "exited"}
      BY <1>5, <2>4, Zenon DEF RestartsDone, ReapDone, Proceed, Signal, Kept
    <2>5. CASE pc \in {"reap", "check"} /\ SHUTDOWN
      BY <1>5, <2>5, Zenon DEF RestartsDone, ReapDone, Proceed, Signal, Kept
    <2> QED  BY <2>3, <2>4, <2>5, Zenon DEF Kept
  <1>6. CASE Terminate \/ Kill
    BY <1>6, Zenon DEF Terminate, Kill, Kept
  <1>7. CASE Wait
    <2>1. \A i \in Index : Accounted(i)
      BY <1>7, Zenon DEF Kept, Wait
    <2>2. \A i \in Index : OnTheBooks(i) => OnTheBooks(i)'
      BY <1>7, Zenon DEF Wait, OnTheBooks, Known
    <2>3. \A i \in Index : Scheduled(i) => Scheduled(i)'
      BY <1>7 DEF Wait, Scheduled, IInv, Shape
    <2> QED  BY <1>7, <2>1, <2>2, <2>3, Zenon DEF Kept, Accounted, Wait, kernelVars
  <1>8. CASE \/ \E p \in Pid : Boot(p) \/ Die(p) \/ Mature(p) \/ Stranger(p)
             \/ UNCHANGED vars
    <2>1. UNCHANGED <<pc, preforked, children, pending_restarts, SHUTDOWN, lost>>
      BY <1>8, Zenon DEF Boot, Die, Mature, Stranger, vars, kernelVars
    <2> QED  BY <2>1, Zenon DEF Kept, Accounted, OnTheBooks, Scheduled, Known
  <1> QED
    BY <1>1, <1>2, <1>3, <1>4, <1>5, <1>6, <1>7, <1>8, Zenon DEF Next, Loop

\* "supervisor restarts crashed workers with backoff": as long as no cpu is
\* named twice, every worker whose forks work is running or scheduled whenever
\* an iteration of the loop ends.
THEOREM NobodyForgotten ==
  ASSUME DistinctCpus
  PROVE  Spec => []NoWorkerForgotten
  <1>1. Kept => NoWorkerForgotten
    BY Zenon DEF Kept, NoWorkerForgotten, Accounted, OnTheBooks
  <1>2. Kept /\ IInv /\ [Next]_vars => Kept'
    BY NextKept, Zenon
  <1> QED  BY <1>1, <1>2, InitKept, Inductive, PTL DEF Spec
-----------------------------------------------------------------------------
(* The farewell of one publisher (MdnsPublisher). *)

\* What main and the watcher are about to announce or revoke is the zone.
Farewell ==
  /\ main \in {"probe", "announce1", "announce2"} => watcher = "none" /\ announced = zone
  /\ main \in {"goodbye", "shutdown"} => watcher = "stopped"
  /\ main = "goodbye" => announced = zone
  /\ watcher \in {"goodbye1", "goodbye2", "announce1", "announce2"} => new = zone

\* A goodbye is still to come for every record a peer believes, but for the
\* late ones.
Covered ==
  /\ main # "exited" => cache \subseteq late \cup ToBeRevoked
  /\ main = "exited" => cache \subseteq late

FInv == Farewell /\ Covered

\* The inductive invariant holds when the publisher starts.
LEMMA InitFarewell == PublisherInit => FInv
  BY Zenon DEF PublisherInit, FInv, Farewell, Covered

\* Every step of the publisher, its watcher or a peer keeps the inductive invariant.
LEMMA NextFarewell == FInv /\ [PublisherNext]_publisherVars => FInv'
  <1> SUFFICES ASSUME FInv, [PublisherNext]_publisherVars PROVE FInv'
    BY Zenon
  <1> USE DEF FInv, Farewell, Covered, ToBeRevoked, ifaceVars, watchVars, Over, Running
  <1>1. CASE UNCHANGED publisherVars
    BY <1>1, Zenon DEF publisherVars
  <1>2. CASE Probed \/ Notify \/ Sigterm \/ Subscribe \/ WatchEnds \/ SubscriptionEnds
    BY <1>2 DEF Probed, Notify, Sigterm, Subscribe, WatchEnds, SubscriptionEnds
  <1>3. CASE ReadRecords \/ Change
    BY <1>3, Zenon DEF ReadRecords, Change
  <1>4. CASE Announce
    BY <1>4, Zenon DEF Announce, Hears
  <1>5. CASE Goodbye
    BY <1>5, Zenon DEF Goodbye, WatcherStopped, Forgets
  <1>6. CASE GoodbyeAgain
    BY <1>6, Zenon DEF GoodbyeAgain, Forgets
  <1>7. CASE Shutdown
    BY <1>7, Zenon DEF Shutdown
  <1>8. CASE Update
    BY <1>8, Zenon DEF Update, ReplacedZone
  <1>9. CASE WatchGoodbye
    BY <1>9, Zenon DEF WatchGoodbye, Forgets
  <1>10. CASE WatchAnnounce
    BY <1>10, Zenon DEF WatchAnnounce, Hears
  <1>11. CASE SendAnswer
    BY <1>11 DEF SendAnswer, Hears
  <1> QED
    BY <1>1, <1>2, <1>3, <1>4, <1>5, <1>6, <1>7, <1>8, <1>9, <1>10, <1>11
    DEF PublisherNext, Main, Watch, Receiver

\* After the goodbye no peer believes a record, but for those answered after
\* the last goodbye for them.
THEOREM GoodbyeFinalHolds == PublisherSpec => []GoodbyeFinal
  <1>1. FInv => GoodbyeFinal
    BY Zenon DEF FInv, Covered, GoodbyeFinal
  <1> QED  BY InitFarewell, NextFarewell, <1>1, PTL DEF PublisherSpec
=============================================================================
