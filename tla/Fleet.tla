-------------------------------- MODULE Fleet --------------------------------
(***************************************************************************)
(* The selection loop of microdoh3 as a whole: workers measure the address *)
(* they are on and publish a score, the supervisor turns the scores into   *)
(* weights and publishes them, workers adopt them and migrate.  It composes*)
(* Selection (the functions) with what ScorePage, ResolvePage and Worker   *)
(* establish: samples and sets are read whole, a score belongs to the      *)
(* address it is published for.  Clients keep sending queries.             *)
(*                                                                         *)
(* Time: a worker reports every 2 s and the supervisor weighs every 2 s,   *)
(* but a worker waits 180 s (10 s when failing) after a move before it     *)
(* moves again.  So it moves only after it measured and reported its new   *)
(* address and the supervisor weighed that report: `stage`.                *)
(***************************************************************************)
EXTENDS Selection

CONSTANTS
  NumWorkers,    \* size of the fleet
  Candidates,    \* candidate addresses in bootstrap order
  Speeds,        \* the possible scores of the addresses while they work
  MaxAddrs,      \* MAX_ADDRS
  IPv6,          \* the IPv6 addresses among the candidates
  PreferIpv4,    \* --prefer-ipv4
  Answers,       \* what a bootstrap refresh may return
  MaxRefresh,    \* bound: bootstrap refreshes
  MaxDeaths      \* bound: addresses that stop working

ASSUME FleetAssumption ==
  /\ NumWorkers \in Nat \ {0}
  /\ Candidates # <<>>
  /\ \A f \in Speeds : \A a \in DOMAIN f : f[a] \in Nat \ {0}
  /\ MaxAddrs \in Nat \ {0}
  /\ MaxRefresh \in Nat /\ MaxDeaths \in Nat

VARIABLES
  candidates,   \* the supervisor's candidate list
  published,    \* the set on the resolve page
  remote,       \* remote[w]: the address of worker w
  quality,      \* quality[w]: the score its EWMA gives, 0 before a success
  failing,      \* failing[w]: fail_streak >= 2
  scores,       \* scores[w]: the samples in the score slot, {} before the first
  stage,        \* stage[w]: since the last move: "moved", "reported", "weighed"
  speed,        \* speed[a]: the score of address a, fixed
  dead,         \* addresses that do not work
  tried,        \* addresses some worker has measured (history)
  refreshes     \* refreshes so far

envVars == <<speed, dead, refreshes>>
vars == <<candidates, published, remote, quality, failing, scores, stage, tried, envVars>>

W == 0..(NumWorkers - 1)
Address == UNION {DOMAIN f : f \in Speeds}

\* The supervisor publishes equal weights; the workers start on their slots.
Init ==
  /\ candidates = UpdateCandidates(<<>>, Ordered(Candidates, PreferIpv4, IPv6, MaxAddrs))
  /\ published = [i \in 1..Len(candidates) |-> [addr |-> candidates[i], weight |-> 1]]
  /\ remote = [w \in W |-> published[SlotFor(published, NumWorkers, w)].addr]
  /\ quality = [w \in W |-> 0]
  /\ failing = [w \in W |-> FALSE]
  /\ scores = [w \in W |-> {}]
  /\ stage = [w \in W |-> "moved"]
  /\ speed \in Speeds /\ dead = {} /\ tried = {} /\ refreshes = 0
-----------------------------------------------------------------------------
\* The sample worker w publishes.
SampleOf(w, q) == {[addr |-> remote[w], score |-> q]}
AfterReport(w) == IF stage[w] = "moved" THEN "reported" ELSE stage[w]

\* Requests complete: Connected clears fail_streak, on_success measures, and
\* the next housekeeping publishes the score.
Serve(w) ==
  /\ remote[w] \notin dead
  /\ quality' = [quality EXCEPT ![w] = speed[remote[w]]]
  /\ failing' = [failing EXCEPT ![w] = FALSE]
  /\ tried' = tried \cup {remote[w]}
  /\ scores' = [scores EXCEPT ![w] = SampleOf(w, speed[remote[w]])]
  /\ stage' = [stage EXCEPT ![w] = AfterReport(w)]
  /\ UNCHANGED <<candidates, published, remote, envVars>>

\* Connects to a dead address fail twice in a row; the EWMA is untouched.
Fail(w) ==
  /\ remote[w] \in dead
  /\ failing' = [failing EXCEPT ![w] = TRUE]
  /\ scores' = [scores EXCEPT ![w] = SampleOf(w, quality[w])]
  /\ stage' = [stage EXCEPT ![w] = AfterReport(w)]
  /\ UNCHANGED <<candidates, published, remote, quality, tried, envVars>>

\* The supervisor recomputes the weights and publishes them if they moved.
Reweigh ==
  /\ published' = ComputeWeights(candidates, UNION {scores[w] : w \in W}, NumWorkers)
  /\ stage' = [w \in W |-> IF stage[w] = "reported" THEN "weighed" ELSE stage[w]]
  /\ UNCHANGED <<candidates, remote, quality, failing, scores, tried, envVars>>

\* The waiting time is over, or the address is no longer in the set.
Ripe(w) == stage[w] = "weighed" \/ WeightOf(published, remote[w]) = 0

\* Housekeeping: adopt the set, and migrate if the policy names a target.
Migrate(w) ==
  LET target == MigrationTarget(published, NumWorkers, w, remote[w], failing[w])
  IN /\ Ripe(w)
     /\ target # remote[w]
     /\ remote' = [remote EXCEPT ![w] = target]
     /\ quality' = [quality EXCEPT ![w] = 0]
     /\ failing' = [failing EXCEPT ![w] = FALSE]
     /\ stage' = [stage EXCEPT ![w] = "moved"]
     /\ UNCHANGED <<candidates, published, scores, tried, envVars>>

\* A bootstrap refresh completes.
Refresh ==
  /\ refreshes < MaxRefresh
  /\ refreshes' = refreshes + 1
  /\ \E answer \in Answers :
       candidates' = UpdateCandidates(candidates, Ordered(answer, PreferIpv4, IPv6, MaxAddrs))
  /\ UNCHANGED <<published, remote, quality, failing, scores, stage, tried, speed, dead>>

\* An address stops working for good.
Die(a) ==
  /\ a \notin dead
  /\ Cardinality(dead) < MaxDeaths
  /\ dead' = dead \cup {a}
  /\ UNCHANGED <<candidates, published, remote, quality, failing, scores, stage, tried,
                 speed, refreshes>>

Next == \/ \E w \in W : Serve(w) \/ Fail(w) \/ Migrate(w)
        \/ Reweigh
        \/ Refresh
        \/ \E a \in Address : Die(a)

\* Every worker and the supervisor run periodically; refreshes and deaths need
\* not happen.
Spec == /\ Init /\ [][Next]_vars
        /\ WF_vars(Reweigh)
        /\ \A w \in W : WF_vars(Serve(w) \/ Fail(w)) /\ WF_vars(Migrate(w))
-----------------------------------------------------------------------------
Listed(a) == \E i \in 1..Len(candidates) : candidates[i] = a

\* A worker leaves an address that a refresh dropped from the set.
DroppedIsLeft ==
  \A w \in W : \A a \in Address :
    (remote[w] = a /\ ~Listed(a)) ~> (remote[w] # a \/ Listed(a))

\* A worker whose address never answered anybody's request leaves it while
\* another worker has measured a candidate that works.
Choice == \E i \in 1..Len(candidates) : candidates[i] \in tried \ dead
NeverWorkingIsLeft ==
  \A w \in W : (remote[w] \in dead \ tried /\ Choice) ~> (remote[w] \notin dead \/ ~Choice)

\* "an unmeasured or currently-dead candidate gets tried rather than dropping
\* out" (README), "a pool larger than the fleet still gets sampled"
\* (compute_weights): a candidate that stays listed is measured by some worker.
EveryCandidateTried == \A a \in Address : []Listed(a) => <>(a \in tried \cup dead)

\* Staying put is the default: with a fixed set of working addresses the fleet
\* settles, no worker migrates for ever.
FleetSettles == \A w \in W : <>[][remote'[w] = remote[w]]_vars
=============================================================================
