------------------------------ MODULE ScorePage ------------------------------
(***************************************************************************)
(* The scores page of microdoh3 (shared.rs): one seqlock slot per worker,  *)
(* written by the worker that owns it, read by the supervisor.  A memory   *)
(* word is modelled by who stored it last: <<worker, number of its write>>.*)
(* Unlike ResolvePage, `write` fences both sides of the data stores, so a  *)
(* slot's words are stored in any order but never before the odd counter.  *)
(***************************************************************************)
EXTENDS Seqlock

CONSTANTS
  NumWorkers,     \* size of the fleet (the supervisor forks one per cpu)
  MaxWorkers,     \* MAX_WORKERS, shared.rs:31: slots of the page
  CrashInWrite,   \* a worker may die inside `write`, not only outside it
  MaxWrites,      \* bound: writes of one worker
  MaxCrashes      \* bound: crashes of a behaviour

ASSUME ScorePageAssumption ==
  /\ NumWorkers \in Nat \ {0}
  /\ MaxWorkers \in Nat \ {0}
  /\ CrashInWrite \in BOOLEAN
  /\ MaxWrites \in Nat
  /\ MaxCrashes \in Nat

VARIABLES
  sseq,      \* ScoreSlot.seq of every slot
  smem,      \* smem[s][f]: the write that stored field f of slot s last
  pc,        \* where each worker is in `write`
  old,       \* old[w]: the counter `write` loaded
  wunstored, \* wunstored[w]: fields `write` has not stored yet
  writes,    \* writes[w]: completed writes
  crashes,   \* crashes so far
  rslot,     \* the slot the supervisor is reading, NoSlot between reads
  rfirst,    \* the counter at the start of the read
  rstart,    \* the owner's completed writes at that moment (history)
  runread,   \* fields the read has not loaded
  rgot,      \* what it loaded
  sample     \* sample[s]: last sample `read` returned for slot s

workerVars == <<sseq, smem, pc, old, wunstored, writes, crashes>>
readVars == <<rslot, rfirst, rstart, runread, rgot, sample>>
scoreVars == <<workerVars, readVars>>

Workers == 0..(NumWorkers - 1)
Slots == 0..(MaxWorkers - 1)
NoSlot == MaxWorkers
\* addr, score and updated_mono_secs; ok, fail and flags tear no differently.
Field == {"addr", "score", "updated"}
Tag == Workers \X (0..MaxWrites)
Sample(w, k) == [f \in Field |-> <<w, k>>]

\* ScoreWriter::map claims idx.min(MAX_WORKERS - 1).
SlotOf(w) == IF w < MaxWorkers - 1 THEN w ELSE MaxWorkers - 1

\* ScoreReader::create: a zeroed page; the workers have not written yet.
ScoresInit ==
  /\ sseq = [s \in Slots |-> 0]
  /\ smem = [s \in Slots |-> Sample(0, 0)]
  /\ pc = [w \in Workers |-> "idle"]
  /\ old = [w \in Workers |-> 0]
  /\ wunstored = [w \in Workers |-> {}]
  /\ writes = [w \in Workers |-> 0]
  /\ crashes = 0
  /\ rslot = NoSlot
  /\ rfirst = 0
  /\ rstart = 0
  /\ runread = {}
  /\ rgot = Sample(0, 0)
  /\ sample = [s \in Slots |-> Sample(0, 0)]
-----------------------------------------------------------------------------
(* A worker's `write`. *)

LoadOld(w) ==
  /\ pc[w] = "idle"
  /\ writes[w] < MaxWrites
  /\ (rslot = SlotOf(w) /\ rslot \in Workers) => writes[rslot] - rstart < MaxLag
  /\ pc' = [pc EXCEPT ![w] = "loaded"]
  /\ old' = [old EXCEPT ![w] = sseq[SlotOf(w)]]
  /\ UNCHANGED <<sseq, smem, wunstored, writes, crashes, readVars>>

StoreSlotOdd(w) ==
  /\ pc[w] = "loaded"
  /\ pc' = [pc EXCEPT ![w] = "storing"]
  /\ sseq' = [sseq EXCEPT ![SlotOf(w)] = (old[w] + 1) % SeqModulus]
  /\ wunstored' = [wunstored EXCEPT ![w] = Field]
  /\ UNCHANGED <<smem, old, writes, crashes, readVars>>

StoreField(w, f) ==
  /\ pc[w] = "storing"
  /\ f \in wunstored[w]
  /\ smem' = [smem EXCEPT ![SlotOf(w)][f] = <<w, writes[w] + 1>>]
  /\ wunstored' = [wunstored EXCEPT ![w] = @ \ {f}]
  /\ UNCHANGED <<sseq, pc, old, writes, crashes, readVars>>

\* Mutant: the counter stays odd.
CommitOdd(w) ==
  /\ pc[w] = "storing"
  /\ wunstored[w] = {}
  /\ pc' = [pc EXCEPT ![w] = "idle"]
  /\ sseq' = [sseq EXCEPT ![SlotOf(w)] = (old[w] + 1) % SeqModulus]
  /\ writes' = [writes EXCEPT ![w] = @ + 1]
  /\ UNCHANGED <<smem, old, wunstored, crashes, readVars>>

StoreSlotEven(w) ==
  /\ pc[w] = "storing"
  /\ wunstored[w] = {}
  /\ pc' = [pc EXCEPT ![w] = "idle"]
  /\ sseq' = [sseq EXCEPT ![SlotOf(w)] = (old[w] + 2) % SeqModulus]
  /\ writes' = [writes EXCEPT ![w] = @ + 1]
  /\ UNCHANGED <<smem, old, wunstored, crashes, readVars>>

\* The worker dies; the page survives, and the worker that the supervisor
\* forks in its place maps the same slot and starts outside `write`.
Crash(w) ==
  /\ crashes < MaxCrashes
  /\ CrashInWrite \/ pc[w] = "idle"
  /\ crashes' = crashes + 1
  /\ pc' = [pc EXCEPT ![w] = "idle"]
  /\ wunstored' = [wunstored EXCEPT ![w] = {}]
  /\ UNCHANGED <<sseq, smem, old, writes, readVars>>
-----------------------------------------------------------------------------
(* The supervisor's `read`. *)

\* The early return on 0 or an odd counter is a stutter.
ReadSlotFirst(s) ==
  /\ rslot = NoSlot
  /\ sseq[s] # 0
  /\ sseq[s] % 2 = 0
  /\ rslot' = s
  /\ rfirst' = sseq[s]
  /\ rstart' = IF s \in Workers THEN writes[s] ELSE 0
  /\ runread' = Field
  /\ UNCHANGED <<rgot, sample, workerVars>>

ReadField(f) ==
  /\ rslot # NoSlot
  /\ f \in runread
  /\ rgot' = [rgot EXCEPT ![f] = smem[rslot][f]]
  /\ runread' = runread \ {f}
  /\ UNCHANGED <<rslot, rfirst, rstart, sample, workerVars>>

\* Mutant: first and second are compared by parity only.
ReadSecondParity ==
  /\ rslot # NoSlot
  /\ runread = {}
  /\ rslot' = NoSlot
  /\ sample' = IF sseq[rslot] % 2 = 0
                 THEN [sample EXCEPT ![rslot] = rgot] ELSE sample
  /\ UNCHANGED <<rfirst, rstart, runread, rgot, workerVars>>

ReadSlotSecond ==
  /\ rslot # NoSlot
  /\ runread = {}
  /\ rslot' = NoSlot
  /\ sample' = IF sseq[rslot] = rfirst
                 THEN [sample EXCEPT ![rslot] = rgot] ELSE sample
  /\ UNCHANGED <<rfirst, rstart, runread, rgot, workerVars>>
-----------------------------------------------------------------------------
WriteStep(w) == LoadOld(w) \/ StoreSlotOdd(w) \/ (\E f \in Field : StoreField(w, f))
                  \/ StoreSlotEven(w)
ReadStep(s) == ReadSlotFirst(s) \/ (rslot = s /\ ((\E f \in Field : ReadField(f)) \/ ReadSlotSecond))

ScoresNext == \/ \E w \in Workers : WriteStep(w) \/ Crash(w)
        \/ \E s \in Slots : ReadStep(s)

ScoresSpec == ScoresInit /\ [][ScoresNext]_scoreVars

\* Workers write every two seconds; the supervisor visits the slots in turn,
\* so every slot gets its turn however often the others are readable.
ScoresFairSpec == /\ ScoresSpec
            /\ \A w \in Workers : WF_scoreVars(WriteStep(w))
            /\ \A s \in Slots : SF_scoreVars(ReadSlotFirst(s)) /\ WF_scoreVars(ReadStep(s))
-----------------------------------------------------------------------------
\* Every variable stays in its range; the counters in their wrapping width.
ScoresTypeOK ==
  /\ sseq \in [Slots -> 0..(SeqModulus - 1)]
  /\ smem \in [Slots -> [Field -> Tag]]
  /\ pc \in [Workers -> {"idle", "loaded", "storing"}]
  /\ old \in [Workers -> 0..(SeqModulus - 1)]
  /\ wunstored \in [Workers -> SUBSET Field]
  /\ writes \in [Workers -> 0..MaxWrites]
  /\ crashes \in 0..MaxCrashes
  /\ rslot \in Slots \cup {NoSlot}
  /\ rfirst \in 0..(SeqModulus - 1)
  /\ rstart \in 0..MaxWrites
  /\ runread \subseteq Field
  /\ rgot \in [Field -> Tag]
  /\ sample \in [Slots -> [Field -> Tag]]

\* `read` never returns a torn sample: all fields of what the supervisor
\* weighs come from one write of one worker.
NoTornSample == \A s \in Slots : \A f, g \in Field : sample[s][f] = sample[s][g]

\* A sample `read` returns is the last one the slot's own worker completed:
\* never an older one, never another worker's.
FreshOwnSample ==
  [][\A s \in Slots : sample'[s] # sample[s] =>
        s \in Workers /\ sample'[s] = Sample(s, writes[s])]_scoreVars

\* Whatever a worker wrote last reaches the supervisor: a slot never becomes
\* unreadable, a restart of its worker included; except that a counter that
\* went around to 0 reads as a slot never written.
LastWriteSeen ==
  <>[](\A w \in Workers : sseq[SlotOf(w)] # 0 => sample[SlotOf(w)] = Sample(w, writes[w]))
=============================================================================
