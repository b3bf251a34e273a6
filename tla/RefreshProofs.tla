---------------------------- MODULE RefreshProofs ----------------------------
(***************************************************************************)
(* The bootstrap refresh of the supervisor's upstream addresses (Refresh), *)
(* for any zones, TTLs and ids, any time-outs and any number of lost and   *)
(* duplicated datagrams.                                                   *)
(***************************************************************************)
EXTENDS Refresh, WellFoundedInduction, TLAPS

\* The solver gets more than its 5 seconds, for slow machines.
USE SMTT(30)
-----------------------------------------------------------------------------
(* The inductive invariant. *)

Typed ==
  /\ zone \in Zones
  /\ inbox \in Seq(Datagram)
  /\ pending # None => pending \in Resolve
  /\ \A f \in Family : first[f] # None => first[f] \in Ans
  /\ next_refresh \in Nat /\ since \in 0..MIN_TTL

\* A datagram bears the id of the query it answers, and is gone with it.
Filed ==
  /\ pending = None => inbox = <<>>
  /\ pending # None =>
       \A i \in 1..Len(inbox) :
         inbox[i].id = IF inbox[i].answer.fam = "AAAA" THEN pending.id_aaaa ELSE pending.id_a

\* What is left to wait makes up the minimum, from the end of a refresh on.
Spaced ==
  /\ pc \in {"resolve", "resolved"} => since = MIN_TTL /\ pending = None
  /\ pc \notin {"resolve", "resolved"} /\ pending = None => since + next_refresh >= MIN_TTL

IInv == Typed /\ Filed /\ AnswersFiled /\ Spaced

\* What a refresh may still take are addresses the zone has held since it began.
Fresh ==
  pending # None =>
    /\ AddrsOf(zone) \subseteq served
    /\ \A i \in 1..Len(inbox) : inbox[i].answer.ips \in Seq(served)
    /\ pending.aaaa # None => pending.aaaa.ips \in Seq(served)
    /\ pending.a # None => pending.a.ips \in Seq(served)
-----------------------------------------------------------------------------
(* Facts about the operators. *)

\* A set of positions has a last one.
LEMMA LastPosition ==
  ASSUME NEW n \in Nat, NEW S, S \subseteq 1..n, S # {}
  PROVE  Max(S) \in S
  <1> DEFINE T == {m \in Nat : n - m \in S}
  <1>1. PICK x \in S : TRUE
    BY Zenon
  <1>2. n - x \in Nat /\ n - (n - x) = x
    OBVIOUS
  <1>3. T \subseteq Nat /\ T # {}
    BY <1>1, <1>2, Zenon
  <1> HIDE DEF T
  <1>4. PICK k \in T : \A y \in T : ~ (<<y, k>> \in OpToRel(<, Nat))
    BY <1>3, NatLessThanWellFounded, WFMin, Zenon
  <1>5. \A y \in T : k <= y
    <2>1. \A y \in T : ~ (y < k)
      BY <1>3, <1>4, Zenon DEF OpToRel
    <2> QED  BY <1>3, <2>1
  <1>6. n - k \in S /\ k \in Nat
    BY <1>3, Zenon DEF T
  <1>7. ASSUME NEW y \in S PROVE n - k >= y
    <2>1. n - y \in Nat /\ n - (n - y) = y
      OBVIOUS
    <2>2. n - y \in T
      BY <2>1, Zenon DEF T
    <2>3. k <= n - y
      BY <1>5, <2>2, Zenon
    <2> QED  BY <1>6, <2>1, <2>3
  <1> QED  BY <1>6, <1>7, Zenon DEF Max

\* The lesser of two TTLs is one of them.
LEMMA LeastTtl ==
  ASSUME NEW x \in Nat, NEW y \in Nat, NEW S \in SUBSET {x, y}, S # {}
  PROVE  Min(S) \in Nat
  <1>1. \E m \in S : \A z \in S : m <= z
    <2>1. CASE x \in S /\ x <= y
      <3>1. \A z \in S : x <= z
        BY <2>1
      <3> QED  BY <2>1, <3>1, Zenon
    <2>2. CASE y \in S /\ y <= x
      <3>1. \A z \in S : y <= z
        BY <2>2
      <3> QED  BY <2>2, <3>1, Zenon
    <2>3. CASE x \notin S \/ y \notin S
      <3>1. PICK m \in S : TRUE
        BY Zenon
      <3>2. \A z \in S : m <= z
        BY <2>3
      <3> QED  BY <3>2, Zenon
    <2>4. x <= y \/ y <= x
      OBVIOUS
    <2> QED  BY <2>1, <2>2, <2>3, <2>4, Zenon
  <1>2. Min(S) \in S
    BY <1>1, Zenon DEF Min
  <1> QED  BY <1>2, Zenon

\* The TTL of a refresh is no less than MIN_TTL.
LEMMA FinishTtlBound ==
  ASSUME NEW r, r.aaaa \in Ans, r.a \in Ans
  PROVE  FinishTtl(r) \in Nat /\ FinishTtl(r) >= MIN_TTL
  <1> DEFINE ttls == {r.aaaa.ttl, r.a.ttl} \ {0}
             ttl == IF ttls = {} THEN DEFAULT_TTL ELSE Min(ttls)
  <1>1. r.aaaa.ttl \in Nat /\ r.a.ttl \in Nat
    BY Zenon DEF Ans
  <1>2. ttl \in Nat
    BY <1>1, LeastTtl, RefreshAssumption, Zenon
  <1> HIDE DEF ttl
  <1>3. MaxOf(ttl, MIN_TTL) \in Nat /\ MaxOf(ttl, MIN_TTL) >= MIN_TTL
    BY <1>2, RefreshAssumption DEF MaxOf
  <1> QED  BY <1>3, Zenon DEF FinishTtl, ttl

\* The TTL of the blocking resolution is a number.
LEMMA FirstTtlNat ==
  ASSUME Typed, FirstAddrs # <<>>
  PROVE  FirstTtl \in Nat
  <1> DEFINE S == {first[f].ttl : f \in {g \in Family : first[g] # None}}
  <1>1. S # {}
    <2>1. CASE first["AAAA"] = None /\ first["A"] = None
      BY <2>1 DEF FirstAddrs, FirstIps
    <2>2. CASE first["AAAA"] # None \/ first["A"] # None
      BY <2>2, Zenon DEF Family
    <2> QED  BY <2>1, <2>2, Zenon
  <1>2. \A f \in Family : first[f] # None => first[f].ttl \in Nat
    BY Zenon DEF Typed, Ans
  <1>3. \E x, y \in Nat : S \subseteq {x, y}
    <2>1. CASE first["AAAA"] = None
      <3>1. first["A"].ttl \in Nat
        BY <1>1, <1>2, <2>1, Zenon DEF Family
      <3>2. S \subseteq {first["A"].ttl, first["A"].ttl}
        BY <2>1, Zenon DEF Family
      <3> QED  BY <3>1, <3>2, Zenon
    <2>2. CASE first["A"] = None
      <3>1. first["AAAA"].ttl \in Nat
        BY <1>1, <1>2, <2>2, Zenon DEF Family
      <3>2. S \subseteq {first["AAAA"].ttl, first["AAAA"].ttl}
        BY <2>2, Zenon DEF Family
      <3> QED  BY <3>1, <3>2, Zenon
    <2>3. CASE first["AAAA"] # None /\ first["A"] # None
      <3>1. first["AAAA"].ttl \in Nat /\ first["A"].ttl \in Nat
        BY <1>2, <2>3, Zenon DEF Family
      <3>2. S \subseteq {first["AAAA"].ttl, first["A"].ttl}
        BY Zenon DEF Family
      <3> QED  BY <3>1, <3>2, Zenon
    <2> QED  BY <2>1, <2>2, <2>3, Zenon
  <1>4. Min(S) \in Nat
    BY <1>1, <1>3, LeastTtl, Zenon
  <1> QED  BY <1>4, RefreshAssumption, Zenon DEF FirstTtl

\* on_readable takes the answer of a datagram, or keeps what it has.
LEMMA LastForAnswer ==
  ASSUME inbox \in Seq(Datagram), NEW id \in Nat, NEW known \in Ans \cup {None}
  PROVE  /\ LastFor(id, known) \in Ans \cup {None}
         /\ \/ LastFor(id, known) = known
            \/ \E i \in 1..Len(inbox) : inbox[i].id = id /\ LastFor(id, known) = inbox[i].answer
  <1> DEFINE at == {i \in 1..Len(inbox) : inbox[i].id = id}
  <1>1. CASE at = {}
    BY <1>1, Zenon DEF LastFor
  <1>2. CASE at # {}
    <2>1. Len(inbox) \in Nat
      OBVIOUS
    <2>2. Max(at) \in at
      BY <1>2, <2>1, LastPosition, Zenon
    <2>3. LastFor(id, known) = inbox[Max(at)].answer
      BY <1>2, Zenon DEF LastFor
    <2>4. inbox[Max(at)] \in Datagram
      BY <2>2
    <2>5. inbox[Max(at)].answer \in Ans
      BY <2>4, Zenon DEF Datagram
    <2> QED  BY <2>2, <2>3, <2>5, Zenon
  <1> QED  BY <1>1, <1>2, Zenon

\* What on_readable takes from the socket is filed under the query it answers.
LEMMA DrainedFiled ==
  ASSUME Typed, Filed, AnswersFiled, pending # None
  PROVE  LET r == Drained(pending) IN
         /\ r \in Resolve /\ r.id_a = pending.id_a /\ r.id_aaaa = pending.id_aaaa
         /\ r.id_a # r.id_aaaa => /\ r.aaaa # None => r.aaaa.fam = "AAAA"
                                  /\ r.a # None => r.a.fam = "A"
  <1>1. pending \in Resolve /\ inbox \in Seq(Datagram)
    BY Zenon DEF Typed
  <1> DEFINE r == Drained(pending)
             l6 == LastFor(pending.id_aaaa, pending.aaaa)
             l4 == LastFor(pending.id_a, pending.a)
  <1>2. /\ pending.id_aaaa \in Nat /\ pending.id_a \in Nat
        /\ pending.aaaa \in Ans \cup {None} /\ pending.a \in Ans \cup {None}
    BY <1>1, Zenon DEF Resolve
  <1>3. /\ l6 \in Ans \cup {None} /\ l4 \in Ans \cup {None}
        /\ \/ l6 = pending.aaaa
           \/ \E i \in 1..Len(inbox) : inbox[i].id = pending.id_aaaa /\ l6 = inbox[i].answer
        /\ \/ l4 = pending.a
           \/ \E i \in 1..Len(inbox) : inbox[i].id = pending.id_a /\ l4 = inbox[i].answer
    BY <1>1, <1>2, LastForAnswer
  <1>4. ASSUME pending.id_a # pending.id_aaaa
        PROVE  (l6 # None => l6.fam = "AAAA") /\ (l4 # None => l4.fam = "A")
    <2>1. \A i \in 1..Len(inbox) :
            /\ inbox[i].answer.fam \in Family
            /\ inbox[i].id = pending.id_aaaa => inbox[i].answer.fam = "AAAA"
            /\ inbox[i].id = pending.id_a => inbox[i].answer.fam = "A"
      <3>1. \A i \in 1..Len(inbox) : inbox[i] \in Datagram
        BY <1>1
      <3>2. \A i \in 1..Len(inbox) : inbox[i].answer.fam \in Family
        BY <3>1, Zenon DEF Datagram, Ans
      <3> QED  BY <1>4, <3>2, Zenon DEF Filed, Family
    <2> QED  BY <1>3, <1>4, <2>1, Zenon DEF AnswersFiled
  <1> HIDE DEF l6, l4
  <1>5. CASE ~readable
    <2>1. r = pending
      BY <1>5, Zenon DEF Drained
    <2> QED  BY <1>1, <2>1, Zenon DEF AnswersFiled
  <1>6. CASE readable
    <2>1. r = [pending EXCEPT !.aaaa = l6,
                              !.a = IF pending.id_a = pending.id_aaaa THEN pending.a ELSE l4]
      BY <1>6, Zenon DEF Drained, l6, l4
    <2> HIDE DEF r
    <2>2. /\ r \in Resolve /\ r.id_a = pending.id_a /\ r.id_aaaa = pending.id_aaaa
          /\ r.aaaa = l6 /\ r.a = IF pending.id_a = pending.id_aaaa THEN pending.a ELSE l4
      BY <1>1, <1>2, <1>3, <2>1, Zenon DEF Resolve
    <2>3. r.id_a # r.id_aaaa => /\ r.aaaa # None => r.aaaa.fam = "AAAA"
                                /\ r.a # None => r.a.fam = "A"
      BY <1>4, <2>2, Zenon
    <2> QED  BY <2>2, <2>3, Zenon DEF r
  <1> QED  BY <1>5, <1>6, Zenon

\* The two families' answers, as the resolver makes them.
LEMMA RepliesTyped ==
  ASSUME zone \in Zones, NEW f \in Family, NEW ttls, ttls \subseteq Nat,
         NEW answer \in Replies(f, ttls)
  PROVE  answer \in Ans /\ answer.fam = f
  <1>1. PICK ips \in Ips, ttl \in Nat : answer = Answer(f, ips, TtlOf(ips, ttl))
    <2>1. zone[f] \in Ips /\ <<>> \in Ips
      BY DEF Ips
    <2> QED  BY <2>1 DEF Replies
  <1>2. TtlOf(ips, ttl) \in Nat
    BY <1>1, RefreshAssumption, Zenon DEF TtlOf
  <1> QED  BY <1>1, <1>2, Zenon DEF Answer, Ans

\* The invariant holds initially.
LEMMA InitIInv == Init => IInv
  <1> SUFFICES ASSUME Init PROVE IInv
    BY Zenon
  <1>1. Typed
    BY RefreshAssumption DEF Init, Typed
  <1>2. Filed /\ AnswersFiled
    BY Zenon DEF Init, Filed, AnswersFiled
  <1>3. Spaced
    BY Zenon DEF Init, Spaced
  <1> QED  BY <1>1, <1>2, <1>3, Zenon DEF IInv

\* A step that takes what on_readable drained leaves the answers filed.
LEMMA DrainedStep ==
  ASSUME IInv, pending # None, pc = "drive",
         pending' = Drained(pending) \/ pending' = Resent(Drained(pending)),
         inbox' = IF readable THEN <<>> ELSE inbox,
         pc' = "poll", UNCHANGED <<first, next_refresh, zone, since>>
  PROVE  IInv'
  <1> DEFINE r == Drained(pending)
  <1>1. /\ r \in Resolve /\ r.id_a = pending.id_a /\ r.id_aaaa = pending.id_aaaa
        /\ r.id_a # r.id_aaaa => /\ r.aaaa # None => r.aaaa.fam = "AAAA"
                                 /\ r.a # None => r.a.fam = "A"
    BY DrainedFiled, Zenon DEF IInv
  <1>2. /\ pending' \in Resolve /\ pending'.id_a = r.id_a /\ pending'.id_aaaa = r.id_aaaa
        /\ pending'.aaaa = r.aaaa /\ pending'.a = r.a
    <2> HIDE DEF r
    <2>1. CASE pending' = r
      BY <1>1, <2>1, Zenon
    <2>2. CASE pending' = Resent(r)
      <3>1. r.attempts + 1 \in Nat /\ QUERY_TIMEOUT \in Nat
        BY <1>1, RefreshAssumption DEF Resolve
      <3>2. pending' = [r EXCEPT !.attempts = r.attempts + 1, !.deadline = QUERY_TIMEOUT]
        BY <2>2, Zenon DEF Resent
      <3> QED  BY <1>1, <3>1, <3>2, Zenon DEF Resolve
    <2>3. pending' = r \/ pending' = Resent(r)
      BY Zenon DEF r
    <2> QED  BY <2>1, <2>2, <2>3, Zenon
  <1> HIDE DEF r
  <1>3. pending' # None
    BY <1>2, RefreshAssumption, Zenon
  <1>4. Typed'
    BY <1>2 DEF IInv, Typed
  <1>5. Filed'
    <2>1. CASE readable
      BY <2>1, <1>3 DEF Filed
    <2>2. CASE ~readable
      BY <2>2, <1>1, <1>2, <1>3, Zenon DEF Filed, IInv
    <2> QED  BY <2>1, <2>2, Zenon
  <1>6. AnswersFiled'
    BY <1>1, <1>2, Zenon DEF AnswersFiled
  <1>7. Spaced'
    BY <1>3, Zenon DEF Spaced
  <1> QED  BY <1>4, <1>5, <1>6, <1>7 DEF IInv

\* Time waited and time to wait add up.
LEMMA LongEnough ==
  \A x, y, m \in Nat : x >= m \/ y >= m => x + y >= m
  OBVIOUS

\* A tick of the time that is left is one of the time that has passed.
LEMMA TickCounts ==
  \A s, n, m \in Nat : /\ Down(n) \in Nat /\ LeastOf(s + 1, m) \in 0..m
                       /\ s + n >= m => LeastOf(s + 1, m) + Down(n) >= m
  BY DEF Down, LeastOf

\* A step that leaves what the invariant is about alone.
LEMMA Undisturbed ==
  ASSUME IInv, UNCHANGED <<pc, first, next_refresh, pending, inbox, since>>, zone' \in Zones
  PROVE  IInv'
  <1>1. Typed'
    BY Zenon DEF IInv, Typed
  <1>2. Filed'
    BY Zenon DEF IInv, Filed
  <1>3. AnswersFiled' /\ Spaced'
    BY Zenon DEF IInv, AnswersFiled, Spaced
  <1> QED  BY <1>1, <1>2, <1>3, Zenon DEF IInv

\* A step that drops the AsyncResolve, with MIN_TTL ahead at least.
LEMMA DroppedStep ==
  ASSUME IInv, pc' = "poll", pending' = None, CloseSocket, next_refresh' \in Nat,
         next_refresh' >= MIN_TTL, UNCHANGED <<first, zone, since>>
  PROVE  IInv'
  <1>1. Typed'
    BY DEF IInv, Typed, CloseSocket
  <1>2. Filed' /\ AnswersFiled'
    BY Zenon DEF CloseSocket, Filed, AnswersFiled
  <1>3. Spaced'
    <2>1. since \in Nat /\ MIN_TTL \in Nat
      BY RefreshAssumption DEF IInv, Typed
    <2>2. since' + next_refresh' >= MIN_TTL
      BY <2>1, LongEnough, Zenon
    <2> QED  BY <2>2, Zenon DEF Spaced
  <1> QED  BY <1>1, <1>2, <1>3, Zenon DEF IInv

\* Every step keeps the invariant.
LEMMA NextIInv == IInv /\ [Next]_vars => IInv'
  <1> SUFFICES ASSUME IInv, [Next]_vars PROVE IInv'
    BY Zenon
  <1>0. Typed /\ Filed /\ AnswersFiled /\ Spaced
    BY Zenon DEF IInv
  <1>1. CASE SyncQueries
    <2>1. \A f \in Family : first'[f] # None => first'[f] \in Ans
      <3>1. PICK r6 \in Replies("AAAA", FirstTtls) \cup Errors, r4 \in Replies("A", FirstTtls) \cup Errors :
              first' = [f \in Family |-> IF f = "AAAA" THEN r6 ELSE r4]
        BY <1>1, Zenon DEF SyncQueries
      <3>2. (r6 # None => r6 \in Ans) /\ (r4 # None => r4 \in Ans)
        <4>1. zone \in Zones /\ FirstTtls \subseteq Nat /\ "AAAA" \in Family /\ "A" \in Family
          BY <1>0, RefreshAssumption, Zenon DEF Typed, Family
        <4> QED  BY <3>1, <4>1, RepliesTyped, Zenon DEF Errors
      <3> QED  BY <3>1, <3>2, Zenon
    <2>2. Typed'
      BY <1>0, <1>1, <2>1, Zenon DEF SyncQueries, Typed, world
    <2>3. Filed' /\ AnswersFiled' /\ Spaced'
      BY <1>0, <1>1, Zenon DEF SyncQueries, Filed, AnswersFiled, Spaced
    <2> QED  BY <2>2, <2>3, Zenon DEF IInv
  <1>2. CASE SyncDone
    <2>1. next_refresh' \in Nat
      BY <1>0, <1>2, FirstTtlNat, Zenon DEF SyncDone, Typed
    <2>2. Typed'
      BY <1>0, <1>2, <2>1, Zenon DEF SyncDone, Typed, world
    <2>3. Filed' /\ AnswersFiled'
      BY <1>0, <1>2, Zenon DEF SyncDone, Filed, AnswersFiled
    <2>4. Spaced'
      <3>1. since' = MIN_TTL /\ pending' = None
        BY <1>0, <1>2, Zenon DEF SyncDone, Spaced
      <3>2. since' + next_refresh' >= MIN_TTL
        <4>1. MIN_TTL \in Nat /\ MIN_TTL >= MIN_TTL
          BY RefreshAssumption
        <4> QED  BY <2>1, <3>1, <4>1, LongEnough, Zenon
      <3> QED  BY <3>1, <3>2, Zenon DEF Spaced
    <2> QED  BY <2>2, <2>3, <2>4, Zenon DEF IInv
  <1>3. CASE Start
    <2>1. PICK id \in Nat :
            pending' = [id_aaaa |-> 1, id_a |-> id, deadline |-> QUERY_TIMEOUT, attempts |-> 1,
                        aaaa |-> None, a |-> None]
      BY <1>3, RefreshAssumption, Zenon DEF Start
    <2>2. pending' \in Resolve
      BY <2>1, RefreshAssumption, Zenon DEF Resolve
    <2>3. pending' # None
      BY <2>2, RefreshAssumption, Zenon
    <2>4. inbox' = <<>>
      BY <1>0, <1>3, Zenon DEF Start, Filed
    <2>5. Typed'
      BY <1>0, <1>3, <2>2, RefreshAssumption DEF Start, Typed, world
    <2>6. Filed' /\ AnswersFiled'
      BY <2>1, <2>3, <2>4 DEF Filed, AnswersFiled
    <2>7. Spaced'
      BY <1>3, <2>3, Zenon DEF Start, Spaced
    <2> QED  BY <2>5, <2>6, <2>7, Zenon DEF IInv
  <1>4. CASE StartFails
    <2>1. Typed'
      BY <1>0, <1>4, RefreshAssumption, Zenon DEF StartFails, Typed, world
    <2>2. Filed' /\ AnswersFiled'
      BY <1>0, <1>4, Zenon DEF StartFails, Filed, AnswersFiled
    <2>3. Spaced'
      <3>1. since' \in Nat /\ next_refresh' = RETRY_INTERVAL /\ pc' = "poll"
        BY <1>0, <1>4 DEF StartFails, Typed
      <3>2. since' + next_refresh' >= MIN_TTL
        <4>1. MIN_TTL \in Nat /\ RETRY_INTERVAL \in Nat /\ RETRY_INTERVAL >= MIN_TTL
          BY RefreshAssumption, Zenon
        <4> QED  BY <3>1, <4>1, LongEnough, Zenon
      <3> QED  BY <3>1, <3>2, Zenon DEF Spaced
    <2> QED  BY <2>1, <2>2, <2>3, Zenon DEF IInv
  <1>5. CASE NotDue
    BY <1>0, <1>5, Zenon DEF NotDue, IInv, Typed, Filed, AnswersFiled, Spaced, world
  <1>6. CASE Complete
    <2> DEFINE r == Drained(pending)
    <2>1. pending # None /\ IsComplete(r) /\ next_refresh' = FinishTtl(r)
      BY <1>6, Zenon DEF Complete
    <2>2. r \in Resolve
      BY <1>0, <2>1, DrainedFiled, Zenon
    <2> HIDE DEF r
    <2>3. r.aaaa \in Ans /\ r.a \in Ans
      BY <2>1, <2>2, Zenon DEF IsComplete, Resolve
    <2>4. next_refresh' \in Nat /\ next_refresh' >= MIN_TTL
      BY <2>1, <2>3, FinishTtlBound, Zenon
    <2> QED  BY <1>6, <2>4, DroppedStep, Zenon DEF Complete, world
  <1>7. CASE KeepWaiting
    BY <1>7, DrainedStep, Zenon DEF KeepWaiting, world
  <1>8. CASE Resend
    BY <1>8, DrainedStep, Zenon DEF Resend, world
  <1>9. CASE GiveUp
    <2>1. RETRY_INTERVAL \in Nat /\ RETRY_INTERVAL >= MIN_TTL
      BY RefreshAssumption, Zenon
    <2> QED  BY <1>9, <2>1, DroppedStep, Zenon DEF GiveUp, world
  <1>10. CASE Poll
    <2>1. CASE UNCHANGED <<next_refresh, pending, since>> /\ readable'
      <3>1. pending # None
        BY <1>10, <2>1, Zenon DEF Poll
      <3> QED
        BY <1>0, <1>10, <2>1, <3>1, Zenon DEF Poll, IInv, Typed, Filed, AnswersFiled, Spaced, world
    <2>2. CASE /\ next_refresh' = Down(next_refresh)
               /\ pending' = IF pending = None THEN None ELSE [pending EXCEPT !.deadline = Down(@)]
               /\ since' = IF pending = None THEN LeastOf(since + 1, MIN_TTL) ELSE since
      <3>0. since \in Nat /\ next_refresh \in Nat /\ MIN_TTL \in Nat
        BY <1>0, RefreshAssumption DEF Typed
      <3>1. next_refresh' \in Nat
        BY <2>2, <3>0, TickCounts, Zenon
      <3>2. since' \in 0..MIN_TTL
        <4>1. LeastOf(since + 1, MIN_TTL) \in 0..MIN_TTL
          BY <3>0, TickCounts, Zenon
        <4> QED  BY <1>0, <2>2, <4>1, Zenon DEF Typed
      <3>3. pending # None => /\ pending' \in Resolve /\ pending'.id_a = pending.id_a
                              /\ pending'.id_aaaa = pending.id_aaaa
                              /\ pending'.aaaa = pending.aaaa /\ pending'.a = pending.a
        <4> SUFFICES ASSUME pending # None PROVE pending' \in Resolve /\ pending'.id_a = pending.id_a
                              /\ pending'.id_aaaa = pending.id_aaaa
                              /\ pending'.aaaa = pending.aaaa /\ pending'.a = pending.a
          BY Zenon
        <4>1. pending \in Resolve
          BY <1>0, Zenon DEF Typed
        <4>2. Down(pending.deadline) \in Nat
          BY <4>1 DEF Resolve, Down
        <4>3. pending' = [pending EXCEPT !.deadline = Down(pending.deadline)]
          BY <2>2, Zenon
        <4> QED  BY <4>1, <4>2, <4>3, Zenon DEF Resolve
      <3>4. pending' = None <=> pending = None
        BY <2>2, <3>3, RefreshAssumption
      <3>5. Typed'
        BY <1>0, <1>10, <3>1, <3>2, <3>3, <3>4 DEF Poll, Typed, world
      <3>6. Filed' /\ AnswersFiled'
        BY <1>0, <1>10, <3>3, <3>4, Zenon DEF Poll, Filed, AnswersFiled
      <3>7. Spaced'
        <4>1. pending = None => since + next_refresh >= MIN_TTL
          BY <1>0, <1>10, Zenon DEF Poll, Spaced
        <4>3. since + next_refresh >= MIN_TTL =>
                LeastOf(since + 1, MIN_TTL) + Down(next_refresh) >= MIN_TTL
          BY <3>0, TickCounts, Zenon
        <4>4. pending = None => since' + next_refresh' >= MIN_TTL
          BY <2>2, <4>1, <4>3, Zenon
        <4> QED  BY <1>10, <3>4, <4>4, Zenon DEF Poll, Spaced
      <3> QED  BY <3>5, <3>6, <3>7 DEF IInv
    <2> QED  BY <1>10, <2>1, <2>2 DEF Poll
  <1>11. ASSUME NEW f \in Family, Reply(f) PROVE IInv'
    <2>1. PICK answer \in Replies(f, Ttls) :
            inbox' = Append(inbox, [id |-> IdOf(f), answer |-> answer])
      BY <1>11, Zenon DEF Reply
    <2> DEFINE d == [id |-> IdOf(f), answer |-> answer]
    <2>2. answer \in Ans /\ answer.fam = f
      BY <1>0, <1>11, RepliesTyped, RefreshAssumption, Zenon DEF Typed
    <2>3. pending # None /\ pending \in Resolve
      BY <1>0, <1>11, Zenon DEF Reply, Typed
    <2>4. IdOf(f) \in Nat
      BY <2>3, Zenon DEF IdOf, Resolve
    <2>5. d \in Datagram /\ d.id = IdOf(f) /\ d.answer = answer
      BY <2>2, <2>4 DEF Datagram
    <2> HIDE DEF d
    <2>6. /\ inbox \in Seq(Datagram) /\ inbox' \in Seq(Datagram)
          /\ \A i \in 1..Len(inbox') : inbox'[i] = d \/ (i \in 1..Len(inbox) /\ inbox'[i] = inbox[i])
      <3>1. inbox \in Seq(Datagram) /\ inbox' = Append(inbox, d)
        BY <1>0, <2>1, Zenon DEF Typed, d
      <3>2. inbox' \in Seq(Datagram) /\ Len(inbox') = Len(inbox) + 1
        BY <2>5, <3>1
      <3>3. \A i \in 1..Len(inbox) + 1 :
              inbox'[i] = IF i <= Len(inbox) THEN inbox[i] ELSE d
        BY <2>5, <3>1
      <3>4. Len(inbox) \in Nat
        BY <3>1
      <3>5. ASSUME NEW i \in 1..Len(inbox')
            PROVE  inbox'[i] = d \/ (i \in 1..Len(inbox) /\ inbox'[i] = inbox[i])
        <4>1. i \in 1..Len(inbox) + 1
          BY <3>2, Zenon
        <4>2. CASE i <= Len(inbox)
          <5>1. inbox'[i] = inbox[i]
            BY <3>3, <4>1, <4>2, Zenon
          <5>2. i \in 1..Len(inbox)
            BY <3>4, <4>1, <4>2
          <5> QED  BY <5>1, <5>2, Zenon
        <4>3. CASE ~ (i <= Len(inbox))
          <5>1. inbox'[i] = IF i <= Len(inbox) THEN inbox[i] ELSE d
            BY <3>3, <4>1, Zenon
          <5> QED  BY <4>3, <5>1, Zenon
        <4> QED  BY <4>2, <4>3, Zenon
      <3> QED  BY <3>1, <3>2, <3>5, Zenon
    <2>7. Typed'
      BY <1>0, <1>11, <2>6, Zenon DEF Reply, Typed, world
    <2>8. Filed'
      <3>1. d.id = IF d.answer.fam = "AAAA" THEN pending.id_aaaa ELSE pending.id_a
        BY <2>2, <2>5, Zenon DEF IdOf
      <3>2. pending' = pending
        BY <1>11, Zenon DEF Reply
      <3> QED  BY <1>0, <2>3, <2>6, <3>1, <3>2 DEF Filed
    <2>9. AnswersFiled' /\ Spaced'
      BY <1>0, <1>11, Zenon DEF Reply, AnswersFiled, Spaced
    <2> QED  BY <2>7, <2>8, <2>9, Zenon DEF IInv
  <1>12. ASSUME NEW f \in Family, Lose(f) PROVE IInv'
    <2>1. UNCHANGED <<pc, first, next_refresh, pending, inbox, since, zone>>
      BY <1>12, Zenon DEF Lose, world
    <2> QED  BY <1>0, <2>1, Undisturbed, Zenon DEF Typed
  <1>13. CASE ZoneChanges
    <2>1. UNCHANGED <<pc, first, next_refresh, pending, inbox, since>> /\ zone' \in Zones
      BY <1>13, Zenon DEF ZoneChanges
    <2> QED  BY <2>1, Undisturbed, Zenon
  <1>14. CASE CalmDown \/ UNCHANGED vars
    <2>1. UNCHANGED <<pc, first, next_refresh, pending, inbox, since, zone>>
      BY <1>14, Zenon DEF CalmDown, vars
    <2> QED  BY <1>0, <2>1, Undisturbed, Zenon DEF Typed
  <1> QED
    BY <1>1, <1>2, <1>3, <1>4, <1>5, <1>6, <1>7, <1>8, <1>9, <1>10, <1>11, <1>12, <1>13,
       <1>14, Zenon DEF Next, Supervise, Drive
-----------------------------------------------------------------------------
(* The results. *)

\* What on_readable takes is fresh.
LEMMA DrainedFresh ==
  ASSUME Typed, Fresh, pending # None
  PROVE  LET r == Drained(pending) IN
         /\ r.aaaa # None => r.aaaa.ips \in Seq(served)
         /\ r.a # None => r.a.ips \in Seq(served)
  <1> DEFINE l6 == LastFor(pending.id_aaaa, pending.aaaa)
             l4 == LastFor(pending.id_a, pending.a)
             r == Drained(pending)
  <1>1. /\ pending \in Resolve /\ inbox \in Seq(Datagram)
        /\ pending.id_aaaa \in Nat /\ pending.id_a \in Nat
        /\ pending.aaaa \in Ans \cup {None} /\ pending.a \in Ans \cup {None}
    BY Zenon DEF Typed, Resolve
  <1>2. /\ l6 = pending.aaaa \/ \E i \in 1..Len(inbox) : l6 = inbox[i].answer
        /\ l4 = pending.a \/ \E i \in 1..Len(inbox) : l4 = inbox[i].answer
    BY <1>1, LastForAnswer
  <1> HIDE DEF l6, l4
  <1>3. (l6 # None => l6.ips \in Seq(served)) /\ (l4 # None => l4.ips \in Seq(served))
    BY <1>2, Zenon DEF Fresh
  <1>4. CASE ~readable
    BY <1>4, Zenon DEF Drained, Fresh
  <1>5. CASE readable
    <2>1. r = [pending EXCEPT !.aaaa = l6,
                              !.a = IF pending.id_a = pending.id_aaaa THEN pending.a ELSE l4]
      BY <1>5, Zenon DEF Drained, l6, l4
    <2> HIDE DEF r
    <2>2. r.aaaa = l6 /\ (r.a = pending.a \/ r.a = l4)
      BY <1>1, <2>1, Zenon DEF Resolve
    <2>3. (r.aaaa # None => r.aaaa.ips \in Seq(served)) /\ (r.a # None => r.a.ips \in Seq(served))
      BY <1>3, <2>2, Zenon DEF Fresh
    <2> QED  BY <2>3, Zenon DEF r
  <1> QED  BY <1>4, <1>5, Zenon

\* The resolver answers with addresses of the zone.
LEMMA RepliesFresh ==
  ASSUME zone \in Zones, NEW f \in Family, NEW ttls, NEW answer \in Replies(f, ttls),
         AddrsOf(zone) \subseteq served
  PROVE  answer.ips \in Seq(served)
  <1>1. PICK ips \in {zone[f], <<>>}, ttl \in ttls : answer = Answer(f, ips, TtlOf(ips, ttl))
    BY DEF Replies
  <1>2. zone[f] \in Seq(served)
    <2>1. zone[f] \in Seq(AddrsOf(zone))
      BY RefreshAssumption, Zenon
    <2> QED  BY <2>1
  <1>3. answer.ips = ips
    BY <1>1, Zenon DEF Answer
  <1>4. <<>> \in Seq(served)
    OBVIOUS
  <1> QED  BY <1>2, <1>3, <1>4, Zenon

\* Every step keeps what a refresh may take fresh.
LEMMA NextFresh == IInv /\ Fresh /\ [Next]_vars => Fresh'
  <1> SUFFICES ASSUME IInv, Fresh, [Next]_vars, pending' # None PROVE Fresh'
    BY Zenon DEF Fresh
  <1>1. Typed /\ Filed /\ Spaced
    BY Zenon DEF IInv
  <1>2. CASE Start
    <2>1. /\ pending'.aaaa = None /\ pending'.a = None
          /\ inbox' = <<>> /\ served' = AddrsOf(zone) /\ zone' = zone
      BY <1>1, <1>2 DEF Start, Filed, world
    <2> QED  BY <2>1 DEF Fresh, AddrsOf
  <1>3. CASE KeepWaiting \/ Resend
    <2> DEFINE r == Drained(pending)
    <2>1. /\ pending # None /\ (pending' = r \/ pending' = Resent(r))
          /\ inbox' = (IF readable THEN <<>> ELSE inbox) /\ served' = served /\ zone' = zone
      BY <1>3, Zenon DEF KeepWaiting, Resend, world
    <2>2. /\ r \in Resolve
          /\ r.aaaa # None => r.aaaa.ips \in Seq(served)
          /\ r.a # None => r.a.ips \in Seq(served)
      BY <1>1, <2>1, DrainedFiled, DrainedFresh, Zenon DEF IInv
    <2> HIDE DEF r
    <2>3. pending'.aaaa = r.aaaa /\ pending'.a = r.a
      BY <2>1, <2>2, Zenon DEF Resent, Resolve
    <2>4. \A i \in 1..Len(inbox') : inbox'[i].answer.ips \in Seq(served)
      BY <2>1 DEF Fresh
    <2> QED  BY <2>1, <2>2, <2>3, <2>4 DEF Fresh, AddrsOf
  <1>4. CASE Poll
    <2>1. pending # None /\ inbox' = inbox /\ served' = served /\ zone' = zone
      BY <1>4, Zenon DEF Poll, world
    <2>2. pending'.aaaa = pending.aaaa /\ pending'.a = pending.a
      BY <1>1, <1>4, <2>1, Zenon DEF Poll, Typed, Resolve
    <2> QED  BY <2>1, <2>2, Zenon DEF Fresh, AddrsOf
  <1>5. ASSUME NEW f \in Family, Reply(f) PROVE Fresh'
    <2>1. /\ pending # None /\ pending' = pending /\ served' = served /\ zone' = zone
          /\ inbox \in Seq(Datagram) /\ zone \in Zones
      BY <1>1, <1>5, Zenon DEF Reply, Typed, world
    <2>2. PICK answer \in Replies(f, Ttls) :
            inbox' = Append(inbox, [id |-> IdOf(f), answer |-> answer])
      BY <1>5, Zenon DEF Reply
    <2>3. answer.ips \in Seq(served)
      BY <2>1, <2>2, RepliesFresh, Zenon DEF Fresh
    <2>4. ASSUME NEW i \in 1..Len(inbox') PROVE inbox'[i].answer.ips \in Seq(served)
      <3>1. (i \in 1..Len(inbox) /\ inbox'[i] = inbox[i]) \/ inbox'[i] = [id |-> IdOf(f), answer |-> answer]
        BY <2>1, <2>2
      <3> QED  BY <2>1, <2>3, <3>1 DEF Fresh
    <2> QED  BY <2>1, <2>4, Zenon DEF Fresh, AddrsOf
  <1>6. CASE ZoneChanges
    <2>1. /\ pending # None /\ pending' = pending /\ inbox' = inbox
          /\ served' = served \cup AddrsOf(zone')
      BY <1>6, Zenon DEF ZoneChanges
    <2>2. Seq(served) \subseteq Seq(served')
      BY <2>1
    <2> QED  BY <2>1, <2>2, Zenon DEF Fresh, AddrsOf
  <1>7. CASE UNCHANGED <<pending, inbox, served, zone>>
    BY <1>7, Zenon DEF Fresh, AddrsOf
  <1>8. ASSUME NEW f \in Family, Lose(f) PROVE UNCHANGED <<pending, inbox, served, zone>>
    BY <1>8, Zenon DEF Lose, world
  <1>9. SyncQueries \/ SyncDone \/ StartFails \/ NotDue \/ CalmDown \/ UNCHANGED vars
          => UNCHANGED <<pending, inbox, served, zone>>
    BY Zenon DEF SyncQueries, SyncDone, StartFails, NotDue, CalmDown, vars, world
  <1>10. ~ Complete /\ ~ GiveUp
    BY Zenon DEF Complete, GiveUp
  <1> QED
    BY <1>2, <1>3, <1>4, <1>5, <1>6, <1>7, <1>8, <1>9, <1>10, Zenon DEF Next, Supervise, Drive

\* The invariant holds throughout.
LEMMA Invariance == Spec => []IInv
  <1> QED  BY InitIInv, NextIInv, PTL DEF Spec

\* An answer is filed under the query it answers, whatever is lost,
\* duplicated, late or resent, if the two ids of the refresh differ.
THEOREM AnswersFiledHolds == Spec => []AnswersFiled
  <1>1. IInv => AnswersFiled
    BY Zenon DEF IInv
  <1> QED  BY <1>1, Invariance, PTL

\* A refresh begins MIN_TTL after the one before it ended, at the earliest,
\* whatever TTLs the resolver returns.
THEOREM RefreshSpacingHolds == Spec => RefreshSpacing
  <1>1. IInv /\ [Next]_vars => [pending = None /\ pending' # None => since >= MIN_TTL]_vars
    <2> SUFFICES ASSUME IInv, Next, pending = None, pending' # None PROVE since >= MIN_TTL
      BY Zenon DEF vars
    <2>1. Start
      BY Zenon DEF Next, Supervise, Drive, SyncQueries, SyncDone, StartFails, NotDue, Complete,
             KeepWaiting, Resend, GiveUp, Poll, Reply, Lose, ZoneChanges, CalmDown
    <2>2. since \in Nat /\ since + 0 >= MIN_TTL
      BY <2>1 DEF Start, IInv, Typed, Spaced
    <2> QED  BY <2>2, RefreshAssumption
  <1> QED  BY <1>1, Invariance, PTL DEF Spec, RefreshSpacing

-----------------------------------------------------------------------------
INSTANCE FiniteSetTheorems

(* The order of the addresses. *)

\* How many positions come before i.
Rank(n, key, i) == Cardinality({j \in 1..n : Before(key, j, i)})

\* Ranks are in the order of the keys, and there is one position for each.
LEMMA OneAtEachRank ==
  ASSUME NEW n \in Nat, NEW key \in [1..n -> Int]
  PROVE  /\ \A i \in 1..n : Rank(n, key, i) \in 0..(n - 1)
         /\ \A i, k \in 1..n : Before(key, i, k) => Rank(n, key, i) < Rank(n, key, k)
         /\ \A i, k \in 1..n : i # k => Rank(n, key, i) # Rank(n, key, k)
         /\ \A r \in 1..n : \E i \in 1..n : Rank(n, key, i) = r - 1
  <1> DEFINE D == 1..n
             ahead(i) == {j \in D : Before(key, j, i)}
             rank(i) == Rank(n, key, i)
             f == [i \in D |-> rank(i)]
  <1>1. IsFiniteSet(D) /\ Cardinality(D) = n
    BY FS_Interval
  <1>2. IsFiniteSet(0..(n - 1)) /\ Cardinality(0..(n - 1)) = n
    BY FS_Interval
  <1>3. \A i \in D : ahead(i) \in SUBSET D /\ rank(i) = Cardinality(ahead(i))
    BY Zenon DEF Rank
  <1>4. ASSUME NEW i \in D PROVE IsFiniteSet(ahead(i)) /\ rank(i) \in Nat
    <2> HIDE DEF D, ahead
    <2>1. IsFiniteSet(ahead(i))
      BY <1>1, <1>3, FS_Subset, Zenon
    <2> QED  BY <1>3, <2>1, FS_CardinalityType, Zenon
  <1>5. ASSUME NEW i \in D, NEW k \in D, Before(key, i, k)
        PROVE  rank(i) < rank(k)
    <2>1. ahead(i) \in SUBSET ahead(k)
      BY <1>5 DEF Before
    <2>2. i \in ahead(k) /\ i \notin ahead(i)
      BY <1>5 DEF Before
    <2> HIDE DEF ahead, rank
    <2>3. rank(i) <= rank(k) /\ rank(i) # rank(k)
      BY <1>3, <1>4, <2>1, <2>2, FS_Subset
    <2> QED  BY <1>4, <2>3
  <1>6. \A i, k \in D : i # k => rank(i) # rank(k)
    <2>1. \A i, k \in D : i # k => Before(key, i, k) \/ Before(key, k, i)
      BY DEF Before
    <2>2. \A i, k \in D : Before(key, i, k) => rank(i) # rank(k)
      <3> SUFFICES ASSUME NEW i \in D, NEW k \in D, Before(key, i, k) PROVE rank(i) # rank(k)
        BY Zenon
      <3>1. rank(i) \in Nat /\ rank(k) \in Nat /\ rank(i) < rank(k)
        BY <1>4, <1>5, Zenon
      <3> HIDE DEF rank
      <3> QED  BY <3>1
    <2> HIDE DEF rank
    <2> QED  BY <2>1, <2>2, Zenon
  <1>7. ASSUME NEW i \in D PROVE rank(i) \in 0..(n - 1)
    <2>1. i \notin ahead(i)
      BY DEF Before
    <2> HIDE DEF ahead, rank
    <2>2. rank(i) <= n /\ rank(i) # n
      BY <1>1, <1>3, <2>1, FS_Subset
    <2> QED  BY <1>4, <2>2
  <1> HIDE DEF rank, D
  <1>8. f \in Injection(D, 0..(n - 1))
    BY <1>6, <1>7, Zenon DEF Injection, IsInjective
  <1>9. f \in Surjection(D, 0..(n - 1))
    BY <1>1, <1>2, <1>8, FS_Injection, Zenon
  <1>10. ASSUME NEW r \in 1..n PROVE \E i \in D : rank(i) = r - 1
    <2>1. r - 1 \in 0..(n - 1)
      OBVIOUS
    <2>2. \E i \in D : f[i] = r - 1
      BY <1>9, <2>1, Zenon DEF Surjection
    <2> QED  BY <2>2
  <1> QED
    BY <1>5, <1>6, <1>7, <1>10 DEF rank, D

\* sort_by_key permutes the elements, into the order of their keys.
THEOREM SortPermutes ==
  ASSUME NEW S, NEW s \in Seq(S), NEW key \in [1..Len(s) -> Int]
  PROVE  \E pi \in Bijection(1..Len(s), 1..Len(s)) :
           /\ SortByKey(s, key) = [r \in 1..Len(s) |-> s[pi[r]]]
           /\ \A q, r \in 1..Len(s) : q < r => Before(key, pi[q], pi[r])
  <1> DEFINE n == Len(s)
             D == 1..n
             pi == [r \in D |-> CHOOSE i \in D : Rank(n, key, i) = r - 1]
  <1>1. n \in Nat /\ key \in [D -> Int]
    OBVIOUS
  <1>2. SortByKey(s, key) = [r \in D |-> s[pi[r]]]
    BY DEF SortByKey, Rank
  <1> HIDE DEF n, D
  <1>3. /\ \A i \in D : Rank(n, key, i) \in 0..(n - 1)
        /\ \A i, k \in D : Before(key, i, k) => Rank(n, key, i) < Rank(n, key, k)
        /\ \A i, k \in D : i # k => Rank(n, key, i) # Rank(n, key, k)
        /\ \A r \in D : \E i \in D : Rank(n, key, i) = r - 1
    BY <1>1, OneAtEachRank DEF D
  <1>4. ASSUME NEW r \in D PROVE pi[r] \in D /\ Rank(n, key, pi[r]) = r - 1
    BY <1>3, Zenon
  <1>5. D \subseteq Nat
    BY <1>1 DEF D
  <1> HIDE DEF pi
  <1>6. pi \in [D -> D]
    <2>1. pi = [r \in D |-> pi[r]]
      BY DEF pi
    <2> QED  BY <1>4, <2>1
  <1>7. \A q, r \in D : pi[q] = pi[r] => q = r
    BY <1>4, <1>5
  <1>8. ASSUME NEW i \in D PROVE \E r \in D : pi[r] = i
    <2>1. Rank(n, key, i) + 1 \in D
      <3>1. Rank(n, key, i) \in 0..(n - 1)
        BY <1>3, Zenon
      <3> HIDE DEF Rank
      <3> QED  BY <1>1, <3>1 DEF D
    <2>2. Rank(n, key, pi[Rank(n, key, i) + 1]) = Rank(n, key, i)
      <3>1. Rank(n, key, pi[Rank(n, key, i) + 1]) = (Rank(n, key, i) + 1) - 1
        BY <1>4, <2>1, Zenon
      <3>2. Rank(n, key, i) \in Int
        BY <1>1, <1>3
      <3> QED  BY <3>1, <3>2
    <2> QED  BY <1>3, <1>4, <2>1, <2>2
  <1>9. pi \in Bijection(D, D)
    BY <1>6, <1>7, <1>8, Zenon DEF Bijection, Injection, IsInjective, Surjection
  <1>10. ASSUME NEW q \in D, NEW r \in D, q < r PROVE Before(key, pi[q], pi[r])
    <2>1. /\ q \in Nat /\ r \in Nat /\ pi[q] \in D /\ pi[r] \in D
          /\ Rank(n, key, pi[q]) = q - 1 /\ Rank(n, key, pi[r]) = r - 1
      BY <1>4, <1>5
    <2>2. pi[q] # pi[r]
      BY <1>5, <1>7, <1>10
    <2>3. ASSUME Before(key, pi[r], pi[q]) PROVE FALSE
      <3>1. Rank(n, key, pi[r]) < Rank(n, key, pi[q])
        BY <1>3, <2>1, <2>3, Zenon
      <3> QED  BY <1>10, <2>1, <3>1
    <2>4. pi[q] \in Nat /\ pi[r] \in Nat /\ key[pi[q]] \in Int /\ key[pi[r]] \in Int
      BY <1>1, <1>5, <2>1, Zenon
    <2> QED  BY <2>2, <2>3, <2>4 DEF Before
  <1> QED
    BY <1>2, <1>9, <1>10 DEF n, D

\* A list cut short keeps the elements at its front.
LEMMA Prefix ==
  ASSUME NEW S, NEW s \in Seq(S), NEW k \in Nat, k <= Len(s), NEW r \in DOMAIN SubSeq(s, 1, k)
  PROVE  r \in 1..Len(s) /\ SubSeq(s, 1, k)[r] = s[r]
  OBVIOUS

\* What update_candidates takes is part of the answer.
LEMMA OrderedRange ==
  ASSUME NEW S, NEW s \in Seq(S), NEW preferV4, NEW v6, NEW m \in Nat
  PROVE  Range(Ordered(s, preferV4, v6, m)) \subseteq Range(s)
  <1> DEFINE key == [i \in 1..Len(s) |-> IF s[i] \in v6 THEN 1 ELSE 0]
             next == IF preferV4 THEN SortByKey(s, key) ELSE s
  <1>1. key \in [1..Len(s) -> Int]
    OBVIOUS
  <1>2. Ordered(s, preferV4, v6, m) = SubSeq(next, 1, LeastOf(Len(next), m))
    BY Zenon DEF Ordered
  <1> HIDE DEF key
  <1>3. PICK pi \in Bijection(1..Len(s), 1..Len(s)) :
          SortByKey(s, key) = [r \in 1..Len(s) |-> s[pi[r]]]
    BY <1>1, SortPermutes, Zenon
  <1>4. \A r \in 1..Len(s) : pi[r] \in 1..Len(s)
    BY Zenon DEF Bijection, Injection
  <1>5. next \in Seq(S) /\ Len(next) = Len(s) /\ \A r \in 1..Len(s) : \E i \in 1..Len(s) : next[r] = s[i]
    <2>1. CASE preferV4
      <3>1. next = [r \in 1..Len(s) |-> s[pi[r]]]
        BY <1>3, <2>1
      <3> HIDE DEF next
      <3>2. \A r \in 1..Len(s) : s[pi[r]] \in S /\ next[r] = s[pi[r]]
        BY <1>4, <3>1
      <3>3. next \in Seq(S) /\ Len(next) = Len(s)
        BY <3>1, <3>2
      <3> QED  BY <1>4, <3>2, <3>3
    <2>2. CASE ~ preferV4
      BY <2>2
    <2> QED  BY <2>1, <2>2
  <1> HIDE DEF next
  <1>6. LeastOf(Len(next), m) \in Nat /\ LeastOf(Len(next), m) <= Len(next)
    BY <1>5 DEF LeastOf
  <1>7. ASSUME NEW r \in DOMAIN Ordered(s, preferV4, v6, m)
        PROVE  r \in 1..Len(s) /\ Ordered(s, preferV4, v6, m)[r] = next[r]
    <2> DEFINE k == LeastOf(Len(next), m)
    <2>1. r \in DOMAIN SubSeq(next, 1, k) /\ Ordered(s, preferV4, v6, m)[r] = SubSeq(next, 1, k)[r]
      BY <1>2, Zenon
    <2> HIDE DEF k
    <2>2. k \in Nat /\ k <= Len(next)
      BY <1>6, Zenon DEF k
    <2> QED  BY <1>5, <2>1, <2>2, Prefix, Zenon
  <1>8. ASSUME NEW r \in DOMAIN Ordered(s, preferV4, v6, m)
        PROVE  Ordered(s, preferV4, v6, m)[r] \in Range(s)
    <2>1. PICK i \in 1..Len(s) : Ordered(s, preferV4, v6, m)[r] = s[i]
      BY <1>5, <1>7
    <2>2. i \in DOMAIN s
      OBVIOUS
    <2> QED  BY <2>1, <2>2, Zenon DEF Range
  <1> QED
    BY <1>8, Zenon DEF Range
-----------------------------------------------------------------------------
\* A refresh brings in no address the name has not had since the refresh
\* began, whatever is lost, duplicated, late or resent.
THEOREM NoStaleAnswerHolds == Spec => NoStaleAnswer
  <1>1. Init => Fresh
    BY Zenon DEF Init, Fresh
  <1>2. Spec => []Fresh
    BY <1>1, NextFresh, Invariance, PTL DEF Spec
  <1>3. IInv /\ Fresh /\ [Next]_vars =>
          [pc = "drive" /\ candidates' # candidates => Range(candidates') \subseteq served]_vars
    <2> SUFFICES ASSUME IInv, Fresh, Next, pc = "drive", candidates' # candidates
                 PROVE  Range(candidates') \subseteq served
      BY Zenon DEF vars
    <2>1. Complete
      BY DEF Next, Supervise, Drive, SyncQueries, SyncDone, Start, StartFails, NotDue,
             KeepWaiting, Resend, GiveUp, Poll, Reply, Lose, ZoneChanges, CalmDown
    <2> DEFINE r == Drained(pending)
               ips == r.aaaa.ips \o r.a.ips
    <2>2. /\ pending # None /\ IsComplete(r)
          /\ candidates' = UpdateCandidates(candidates, Ordered(ips, PreferIpv4, IPv6, MaxAddrs))
      BY <2>1, Zenon DEF Complete
    <2>3. r.aaaa.ips \in Seq(served) /\ r.a.ips \in Seq(served)
      BY <2>2, DrainedFresh DEF IInv, IsComplete
    <2> HIDE DEF r
    <2>4. ips \in Seq(served)
      BY <2>3
    <2> HIDE DEF ips
    <2>5. Range(Ordered(ips, PreferIpv4, IPv6, MaxAddrs)) \subseteq Range(ips)
      BY <2>4, OrderedRange, RefreshAssumption
    <2>6. Range(ips) \subseteq served
      BY <2>4 DEF Range
    <2> QED  BY <2>2, <2>5, <2>6 DEF UpdateCandidates
  <1> QED  BY <1>2, <1>3, Invariance, PTL DEF Spec, NoStaleAnswer
=============================================================================
