------------------------------ MODULE Selection ------------------------------
(***************************************************************************)
(* The pure part of microdoh3's upstream selection: the supervisor turns   *)
(* the workers' scores into weights (main.rs), a worker reads off its own  *)
(* address and decides whether a move is worth it (shared.rs, worker.rs).  *)
(* An upstream set is a sequence of [addr, weight], best first; positions  *)
(* count from 1.  A sample is [addr, score].                               *)
(***************************************************************************)
EXTENDS Integers, Sequences, FiniteSets, FiniteSetsExt

MaxOf(a, b) == IF a < b THEN b ELSE a
LeastOf(a, b) == IF a < b THEN a ELSE b

\* sort_by_key, a stable sort: j comes before i in order of their keys, then
\* of their positions, and at r is the element that r - 1 others come before.
Before(key, j, i) == key[j] < key[i] \/ (key[j] = key[i] /\ j < i)

SortByKey(s, key) ==
  LET rank(i) == Cardinality({j \in 1..Len(s) : Before(key, j, i)})
  IN [r \in 1..Len(s) |-> s[CHOOSE i \in 1..Len(s) : rank(i) = r - 1]]
-----------------------------------------------------------------------------
(* UpstreamSet::slot_for and weight_of. *)

\* The weight of the first i entries.
Acc(set, i) ==
  LET sum[j \in 0..i] == IF j = 0 THEN 0 ELSE sum[j - 1] + set[j].weight
  IN sum[i]

\* Mutant: the factor 2 of the midpoint lost.
NoMidpoint(idx, total, workers) == ((2 * idx + 1) * total) \div workers

\* The midpoint of worker idx's share, in units of weight.
Midpoint(idx, total, workers) == ((2 * idx + 1) * total) \div (2 * workers)
Covers(target, acc) == target < acc

SlotFor(set, workers, idx) ==
  LET n == Len(set)
      total == Acc(set, n)
      target == Midpoint(idx, total, MaxOf(workers, 1))
      hits == {i \in 1..n : Covers(target, Acc(set, i))}
  IN IF total = 0 THEN (idx % n) + 1
     ELSE IF hits = {} THEN n ELSE Min(hits)

\* The workers of a fleet that entry i of the set gets.
OnEntry(set, workers, i) == {idx \in 0..(workers - 1) : SlotFor(set, workers, idx) = i}

\* Every address gets its exact share of the workers, rounded up or down.
SplitsExactly(set, workers) ==
  LET total == Acc(set, Len(set))
      on(i) == Cardinality(OnEntry(set, workers, i))
  IN total > 0 =>
       \A i \in 1..Len(set) : /\ on(i) * total < set[i].weight * workers + total
                              /\ on(i) * total > set[i].weight * workers - total

\* Mutant: an address that is not in the set weighs something.
WeightAtLeastOne(set, addr) ==
  Max({1} \cup {set[i].weight : i \in {j \in 1..Len(set) : set[j].addr = addr}})

WeightOf(set, addr) ==
  LET at == {i \in 1..Len(set) : set[i].addr = addr}
  IN IF at = {} THEN 0 ELSE set[Min(at)].weight
-----------------------------------------------------------------------------
(* compute_weights and update_candidates. *)

\* The candidates some sample is about, whatever its score.
Measured(cands, samples) ==
  {i \in 1..Len(cands) : \E s \in samples : s.addr = cands[i]}

\* The best score reported for candidate i, 0 without any.
Best(cands, samples, i) ==
  Max({0} \cup {s.score : s \in {t \in samples : t.addr = cands[i]}})

\* The first candidate no sample is about, 0 if there is none.
Probe(cands, samples) ==
  LET open == (1..Len(cands)) \ Measured(cands, samples)
  IN IF open = {} THEN 0 ELSE Min(open)

\* Mutant: the floor is the whole top score.
WholeFloor(top, n) == MaxOf(top, 1)

\* The least weight of a candidate: half a worker's share.
Floor(top, n) == MaxOf(top \div (2 * n), 1)

\* A candidate weighs its best score or the floor, the probe one worker's
\* share more; the heaviest comes first.
ComputeWeights(cands, samples, workers) ==
  LET all == 1..Len(cands)
      top == Max({Best(cands, samples, i) : i \in all})
      n == MaxOf(workers, 1)
      floor == Floor(top, n)
      probe == Probe(cands, samples)
      weight(i) == MaxOf(Best(cands, samples, i), floor)
                     + (IF i = probe THEN top \div n ELSE 0)
  IN SortByKey([i \in all |-> [addr |-> cands[i], weight |-> weight(i)]],
               [i \in all |-> 0 - weight(i)])

\* The answer of a refresh, IPv4 first if preferred, cut off.
Ordered(resolved, preferV4, v6, maxAddrs) ==
  LET isV6 == [i \in 1..Len(resolved) |-> IF resolved[i] \in v6 THEN 1 ELSE 0]
      next == IF preferV4 THEN SortByKey(resolved, isV6) ELSE resolved
  IN SubSeq(next, 1, LeastOf(Len(next), maxAddrs))

\* update_candidates: an empty answer leaves the previous resolution in force.
UpdateCandidates(cands, next) == IF next = <<>> THEN cands ELSE next
-----------------------------------------------------------------------------
(* migration_target, once its waiting times are over. *)

\* best_alternative: max_by_key keeps the last of several maxima.
BestAlternative(set, current) ==
  LET others == {i \in 1..Len(set) : set[i].weight > 0 /\ set[i].addr # current}
      top == Max({set[i].weight : i \in others})
  IN IF others = {} THEN current
     ELSE set[Max({i \in others : set[i].weight = top})].addr

\* Mutant: no hysteresis, every worker follows its assignment.
FollowAssignment(set, workers, idx, current, failing) ==
  set[SlotFor(set, workers, idx)].addr

\* Where worker idx moves to, `current` if it stays: a failing worker to the
\* best alternative if that is heavier, any other to its assigned address if
\* that weighs 150% of the current one.
MigrationTarget(set, workers, idx, current, failing) ==
  LET assigned == set[SlotFor(set, workers, idx)].addr
      alternative == BestAlternative(set, current)
      target == IF failing THEN alternative ELSE assigned
      here == WeightOf(set, current)
      there == WeightOf(set, target)
  IN IF IF failing THEN there > here ELSE here = 0 \/ there * 100 >= here * 150
       THEN target ELSE current
=============================================================================
