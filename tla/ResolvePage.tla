----------------------------- MODULE ResolvePage -----------------------------
(***************************************************************************)
(* The resolve page of microdoh3 (shared.rs): the supervisor publishes the *)
(* candidate upstream addresses and their weights in a shared memory page, *)
(* guarded by a sequence counter; every worker polls it without a lock.    *)
(*                                                                         *)
(* A memory word is modelled by the number of the publication that wrote   *)
(* it last, so a torn read is a set of words with different numbers.  The  *)
(* words of one publication become visible in any order, and a reader may  *)
(* load them in any order: the code orders them only by its fences.        *)
(***************************************************************************)
EXTENDS Seqlock, Sequences

CONSTANTS
  Readers,        \* worker processes, each with a read-only mapping
  MaxAddrs,       \* MAX_ADDRS, shared.rs:29
  StoresInOrder,  \* the target keeps the page's stores behind the store of
                  \* the odd counter (x86-64); aarch64 does not, because
                  \* `publish` has no fence there
  MaxPublish,     \* bound: publications of a behaviour
  MaxRestarts     \* bound: worker restarts of a behaviour

ASSUME ResolvePageAssumption ==
  /\ MaxAddrs \in Nat \ {0}
  /\ StoresInOrder \in BOOLEAN
  /\ MaxPublish \in Nat
  /\ MaxRestarts \in Nat

VARIABLES
  seq,        \* SharedResolve.seq
  mem,        \* mem[w]: the publication that last stored word w
  sizes,      \* sizes[k]: number of addresses of publication k
  unstored,   \* words the current publish has not stored yet
  publishing, \* inside publish
  odd,        \* the odd counter of this publish is visible
  committed,  \* number of committed publications
  unread,     \* unread[r]: words the read pass has not loaded; {} when idle
  reading,    \* reading[r]: inside read_if_changed, past its first check
  first,      \* first[r]: the counter at the start of the pass
  start,      \* start[r]: committed at that moment (history)
  got,        \* got[r][w]: what the pass loaded
  last_seq,   \* ResolveReader.last_seq
  view,       \* view[r]: the upstream set the worker adopted last
  restarts    \* restarts so far

writerVars == <<seq, mem, sizes, unstored, publishing, odd, committed>>
readerVars == <<unread, reading, first, start, got, last_seq, view, restarts>>
vars == <<writerVars, readerVars>>

Slot == 1..MaxAddrs
Word == ({"count", "header"} \X {0}) \cup ({"addr", "weight"} \X Slot)
Count == <<"count", 0>>

\* The words `publish` stores for n addresses: the header, n addresses, and
\* every weight (the ones past n are zeroed).
Written(n) == ({"count", "header"} \X {0}) \cup ({"addr"} \X (1..n))
                \cup ({"weight"} \X Slot)

\* The words of the page that end up in an UpstreamSet of n addresses.
OutputWords(n) == ({"count", "header"} \X {0}) \cup ({"addr", "weight"} \X (1..n))

\* The upstream set of publication k, had it n addresses.
Snapshot(n, k) == [w \in OutputWords(n) |-> k]
SizeOf(k) == IF k = 0 THEN 0 ELSE sizes[k]
NoView == [w \in {} |-> 0]

\* ResolveWriter::create: a zeroed page, no publication yet.
Init ==
  /\ seq = 0
  /\ mem = [w \in Word |-> 0]
  /\ sizes = <<>>
  /\ unstored = {}
  /\ publishing = FALSE
  /\ odd = FALSE
  /\ committed = 0
  /\ unread = [r \in Readers |-> {}]
  /\ reading = [r \in Readers |-> FALSE]
  /\ first = [r \in Readers |-> 0]
  /\ start = [r \in Readers |-> 0]
  /\ got = [r \in Readers |-> [w \in Word |-> 0]]
  /\ last_seq = [r \in Readers |-> 0]
  /\ view = [r \in Readers |-> NoView]
  /\ restarts = 0
-----------------------------------------------------------------------------
(* The supervisor. *)

\* publish: enter with n addresses and load the counter.
BeginPublish(n) ==
  /\ ~publishing
  /\ committed < MaxPublish
  /\ \A r \in Readers : reading[r] => committed - start[r] < MaxLag
  /\ publishing' = TRUE
  /\ sizes' = Append(sizes, n)
  /\ unstored' = Written(n)
  /\ UNCHANGED <<seq, mem, odd, committed, readerVars>>

\* seq.store(old + 1, Release): odd while the write is in progress.
StoreOdd ==
  /\ publishing /\ ~odd
  /\ odd' = TRUE
  /\ seq' = (seq + 1) % SeqModulus
  /\ UNCHANGED <<mem, sizes, unstored, publishing, committed, readerVars>>

\* One plain store of the page.  Nothing but the target's own ordering keeps
\* it behind StoreOdd.
StoreWord(w) ==
  /\ publishing
  /\ StoresInOrder => odd
  /\ w \in unstored
  /\ mem' = [mem EXCEPT ![w] = committed + 1]
  /\ unstored' = unstored \ {w}
  /\ UNCHANGED <<seq, sizes, publishing, odd, committed, readerVars>>

\* Mutant: the second counter store moved before the last page store.
CommitEarly ==
  /\ publishing /\ odd
  /\ seq' = (seq + 1) % SeqModulus
  /\ odd' = FALSE
  /\ publishing' = FALSE
  /\ committed' = committed + 1
  /\ UNCHANGED <<mem, sizes, unstored, readerVars>>

\* fence(SeqCst); seq.store(old + 2, Release).
Commit ==
  /\ publishing /\ odd /\ unstored = {}
  /\ seq' = (seq + 1) % SeqModulus
  /\ odd' = FALSE
  /\ publishing' = FALSE
  /\ committed' = committed + 1
  /\ UNCHANGED <<mem, sizes, unstored, readerVars>>
-----------------------------------------------------------------------------
(* A worker.  Workers are forked after the first publication. *)

\* read_if_changed, up to the first fence; the early return is a stutter.
ReadFirst(r) ==
  /\ committed > 0
  /\ ~reading[r]
  /\ seq # last_seq[r]
  /\ seq % 2 = 0
  /\ first' = [first EXCEPT ![r] = seq]
  /\ start' = [start EXCEPT ![r] = committed]
  /\ reading' = [reading EXCEPT ![r] = TRUE]
  /\ unread' = [unread EXCEPT ![r] = Word]
  /\ UNCHANGED <<got, last_seq, view, restarts, writerVars>>

\* One plain load between the two fences.
ReadWord(r, w) ==
  /\ reading[r]
  /\ w \in unread[r]
  /\ got' = [got EXCEPT ![r][w] = mem[w]]
  /\ unread' = [unread EXCEPT ![r] = @ \ {w}]
  /\ UNCHANGED <<reading, first, start, last_seq, view, restarts, writerVars>>

\* The set assembled from the words loaded: `count` entries.
Assembled(r) == [w \in OutputWords(SizeOf(got[r][Count])) |-> got[r][w]]

\* The locals of a read pass end with it.
Forget(r) ==
  /\ reading' = [reading EXCEPT ![r] = FALSE]
  /\ first' = [first EXCEPT ![r] = 0]
  /\ start' = [start EXCEPT ![r] = 0]
  /\ got' = [got EXCEPT ![r] = [w \in Word |-> 0]]

\* Mutant: last_seq is remembered even when the read was torn.
ReadSecondForgetful(r) ==
  /\ reading[r]
  /\ unread[r] = {}
  /\ last_seq' = [last_seq EXCEPT ![r] = seq]
  /\ view' = IF seq = first[r] THEN [view EXCEPT ![r] = Assembled(r)] ELSE view
  /\ Forget(r)
  /\ UNCHANGED <<unread, restarts, writerVars>>

\* Mutant: the counter is not loaded a second time.
ReadSecondUnchecked(r) ==
  /\ reading[r]
  /\ unread[r] = {}
  /\ last_seq' = [last_seq EXCEPT ![r] = first[r]]
  /\ view' = [view EXCEPT ![r] = Assembled(r)]
  /\ Forget(r)
  /\ UNCHANGED <<unread, restarts, writerVars>>

\* Second load of the counter: adopt, or drop a torn read.
ReadSecond(r) ==
  /\ reading[r]
  /\ unread[r] = {}
  /\ IF seq = first[r]
       THEN /\ last_seq' = [last_seq EXCEPT ![r] = first[r]]
            /\ view' = [view EXCEPT ![r] = Assembled(r)]
       ELSE UNCHANGED <<last_seq, view>>
  /\ Forget(r)
  /\ UNCHANGED <<unread, restarts, writerVars>>

\* The worker dies and its successor maps the page afresh (map_readonly).
Restart(r) ==
  /\ restarts < MaxRestarts
  /\ restarts' = restarts + 1
  /\ unread' = [unread EXCEPT ![r] = {}]
  /\ last_seq' = [last_seq EXCEPT ![r] = 0]
  /\ view' = [view EXCEPT ![r] = NoView]
  /\ Forget(r)
  /\ UNCHANGED writerVars
-----------------------------------------------------------------------------
Supervisor == \/ \E n \in Slot : BeginPublish(n)
              \/ StoreOdd
              \/ \E w \in Word : StoreWord(w)
              \/ Commit

ReadPass(r) == ReadFirst(r) \/ (\E w \in Word : ReadWord(r, w)) \/ ReadSecond(r)

Next == Supervisor \/ \E r \in Readers : ReadPass(r) \/ Restart(r)

Spec == Init /\ [][Next]_vars

\* A publish that began runs to its end, and a worker keeps polling the page
\* (housekeeping runs at least once per keep-alive interval).
FairSpec == /\ Spec
            /\ WF_vars(StoreOdd \/ (\E w \in Word : StoreWord(w)) \/ Commit)
            /\ \A r \in Readers : WF_vars(ReadPass(r))
-----------------------------------------------------------------------------
PubNumber == 0..MaxPublish
Views == {NoView} \cup UNION {[OutputWords(n) -> PubNumber] : n \in 0..MaxAddrs}

\* Every variable stays in its range; the counter in its wrapping width.
TypeOK ==
  /\ seq \in 0..(SeqModulus - 1)
  /\ mem \in [Word -> PubNumber]
  /\ sizes \in Seq(Slot)
  /\ unstored \subseteq Word
  /\ publishing \in BOOLEAN
  /\ odd \in BOOLEAN
  /\ committed \in PubNumber
  /\ unread \in [Readers -> SUBSET Word]
  /\ reading \in [Readers -> BOOLEAN]
  /\ first \in [Readers -> 0..(SeqModulus - 1)]
  /\ start \in [Readers -> PubNumber]
  /\ got \in [Readers -> [Word -> PubNumber]]
  /\ last_seq \in [Readers -> 0..(SeqModulus - 1)]
  /\ view \in [Readers -> Views]
  /\ restarts \in 0..MaxRestarts

\* read_if_changed never returns a torn set: what a worker works from is, word
\* for word, one committed publication.
NoTornView ==
  \A r \in Readers :
    \/ view[r] = NoView
    \/ \E k \in 1..committed : view[r] = Snapshot(sizes[k], k)

\* The seqlock implements an atomic register: publish takes effect at its last
\* store, and a successful read_if_changed returns the set in force when it
\* returns (so a worker never goes back to an older set either).
Register ==
  INSTANCE UpstreamRegister WITH
    current <- Snapshot(SizeOf(committed), committed),
    Value <- {Snapshot(n, k) : n \in 0..MaxAddrs, k \in PubNumber}
RegisterSpec == Register!Spec

\* No lost update: when the supervisor stops publishing, every polling worker,
\* restarted ones included, ends up with the last publication; as long as the
\* counter has not gone around, when an old one and a new one may be equal.
FreshInTheEnd ==
  <>[](committed \in 1..(HalfModulus - 1) =>
         \A r \in Readers : view[r] = Snapshot(SizeOf(committed), committed))
=============================================================================
