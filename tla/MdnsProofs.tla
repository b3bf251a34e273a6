------------------------------ MODULE MdnsProofs ------------------------------
(***************************************************************************)
(* mdns-publisher, for any number of hosts and any records they propose:   *)
(* the tie-break, the probes of the hosts that start at different times,   *)
(* and the packets that are lost between them.                             *)
(***************************************************************************)
EXTENDS MdnsProbe, Sequences, TLAPS

\* The solver gets more than its 5 seconds, for slow machines.
USE SMTT(30)
-----------------------------------------------------------------------------
(* The phases of a host, and why a host steps back. *)

\* The records of w win against those of l.
Beats(w, l) == theyWinTiebreak(Records[l], Records[w])

Probing(h) == pc[h] \in {"probe", "wait"}

Owner(h) == pc[h] \in {"announced", "serving"}

TypeOK ==
  /\ pc \in [Hosts -> {"delay", "probe", "wait", "checked", "failed", "announced", "serving"}]
  /\ state \in [Hosts -> {"pending", "probing", "running"}]
  /\ conflictDetected \in [Hosts -> BOOLEAN]
  /\ probes \in [Hosts -> Nat] /\ slept \in [Hosts -> Nat]
  /\ net \subseteq [kind : {"probe", "response"}, from : Hosts, to : Hosts, at : Nat]
  /\ packet \in [Hosts -> Packet \cup {None}]
  /\ lost \in 0..MaxLost

\* What server.state and the probe counter say of where main is.
Phases ==
  \A h \in Hosts :
    /\ pc[h] = "delay" => state[h] = "pending" /\ probes[h] = 0
    /\ pc[h] = "probe" => state[h] = "probing" /\ probes[h] < probeCount
    /\ pc[h] = "wait" => state[h] = "probing" /\ probes[h] = probeCount
    /\ pc[h] = "checked" => state[h] = "probing"
    /\ pc[h] = "failed" => state[h] = "probing" /\ conflictDetected[h]
    /\ Owner(h) => state[h] = "running"

\* Only owners send responses.
Responses ==
  /\ \A m \in net : m.kind = "response" => Owner(m.from)
  /\ \A h \in Hosts : packet[h] # None /\ packet[h].kind = "response" => Owner(packet[h].from)
  /\ \A h \in Hosts : packet[h] # None /\ packet[h].state = "running" => Owner(h)

\* A conflict has a cause: an owner, or better records.
Cause == \A h \in Hosts : conflictDetected[h] => \E g \in Hosts : Owner(g) \/ Beats(g, h)

Local == TypeOK /\ Phases /\ Responses /\ Cause
-----------------------------------------------------------------------------
(* Two owners would have cost more packets than may be lost. *)

Rivals(g, h) == Records[g] # Records[h]

Past(h) == pc[h] = "checked" \/ Owner(h)

\* Sleeps are equally long.
Lockstep ==
  \A g, h \in Hosts :
    /\ Sleeping(g) /\ Sleeping(h) => slept[g] <= slept[h] + 1
    /\ pc[g] = "checked" /\ Sleeping(h) => slept[h] <= slept[g] /\ slept[g] <= slept[h] + 1

\* A packet of g that h has not handled yet; seen is the state h reads before.
OnItsWay(g, h, kind, seen, at) ==
  \/ [kind |-> kind, from |-> g, to |-> h, at |-> at] \in net
  \/ packet[h] = [kind |-> kind, from |-> g, at |-> at, state |-> seen]

\* n packets are all but one of w's probes, or all that w sent while l probed
\* but the one sent when l began.
Missed(n, w, l) == n >= probes[w] - 1 \/ n >= slept[w] - slept[l] + probes[l] - 1

\* Both probe and l has heard none of w's probes: they are lost, but for the
\* last one.
Early(w, l) ==
  \/ Missed(lost, w, l)
  \/ Missed(lost + 1, w, l) /\ OnItsWay(w, l, "probe", "probing", slept[w])

\* g has read its flag: what h sent before that is lost, one way or the other.
Between(g, h) == lost >= slept[g] - slept[h] + probes[h] - 2

\* g owns the name: all of h's probes or their answers are lost, but for the
\* last one.
Late(g, h) ==
  \/ lost >= probes[h] - 1
  \/ /\ lost + 1 >= probes[h] - 1
     /\ \E at \in 0..slept[h] : \/ OnItsWay(g, h, "response", "probing", at)
                                \/ OnItsWay(h, g, "probe", "running", at)

\* What it has cost that h still probes beside g.
Cost(g, h) ==
  /\ Probing(g) /\ Beats(g, h) => Early(g, h)
  /\ pc[g] = "checked" => Between(g, h)
  /\ Owner(g) => Late(g, h)

Duel ==
  \A g, h \in Hosts : Rivals(g, h) /\ Probing(h) /\ ~ conflictDetected[h] => Cost(g, h)

\* Of two different record sets one wins.
Decided == \A g, h \in Hosts : Rivals(g, h) => Beats(g, h) \/ Beats(h, g)

OnePast == \A g, h \in Hosts : Rivals(g, h) => ~ (Past(g) /\ Past(h))

IInv == Local /\ Lockstep /\ Duel /\ OnePast

\* When a sleep of k ends, nothing sent before it is still on its way.
LEMMA Quiet ==
  ASSUME Local, NEW k \in Hosts, Wakes(k),
         NEW g \in Hosts, NEW h \in Hosts, NEW kind \in {"probe", "response"},
         NEW seen \in {"probing", "running"}, NEW at \in Nat, at <= slept[k]
  PROVE  ~ OnItsWay(g, h, kind, seen, at)
  <1>1. [kind |-> kind, from |-> g, to |-> h, at |-> at] \notin net
    BY DEF Wakes, Local, TypeOK
  <1>2. packet[h] # [kind |-> kind, from |-> g, at |-> at, state |-> seen]
    <2>1. [kind |-> kind, from |-> g, at |-> at, state |-> seen] \in Packet
      BY Zenon DEF Packet
    <2> QED  BY <2>1, ProbeAssumption DEF Wakes, Local, TypeOK
  <1> QED
    BY <1>1, <1>2, Zenon DEF OnItsWay

\* A duel has cost what it had, when nothing happens to the two hosts, no
\* packet is lost and none that matters goes unheard.
LEMMA Undisturbed ==
  ASSUME NEW g \in Hosts, NEW h \in Hosts, Cost(g, h), lost' = lost,
         pc'[g] = pc[g], probes'[g] = probes[g], slept'[g] = slept[g],
         pc'[h] = pc[h], probes'[h] = probes[h], slept'[h] = slept[h],
         OnItsWay(g, h, "probe", "probing", slept[g]) /\ Beats(g, h)
           => OnItsWay(g, h, "probe", "probing", slept[g])',
         \A at \in 0..slept[h] :
           /\ OnItsWay(g, h, "response", "probing", at) \/ OnItsWay(h, g, "probe", "running", at)
           /\ Owner(g)
           => OnItsWay(g, h, "response", "probing", at)' \/ OnItsWay(h, g, "probe", "running", at)'
  PROVE  Cost(g, h)'
  <1>1. (Probing(g)' => Probing(g)) /\ (Owner(g)' => Owner(g))
    BY Zenon DEF Probing, Owner
  <1>2. Early(g, h) /\ Beats(g, h) => Early(g, h)'
    BY Zenon DEF Early, Missed
  <1>3. Between(g, h) => Between(g, h)'
    BY Zenon DEF Between
  <1>4. Late(g, h) /\ Owner(g) => Late(g, h)'
    BY Zenon DEF Late
  <1> QED
    BY <1>1, <1>2, <1>3, <1>4, Zenon DEF Cost, Beats, theyWinTiebreak

\* Nothing that is on its way is lost when packets are only sent.
LEMMA StillOnItsWay ==
  ASSUME NEW g \in Hosts, NEW h \in Hosts, net \subseteq net', packet' = packet, slept'[g] = slept[g]
  PROVE  /\ OnItsWay(g, h, "probe", "probing", slept[g]) => OnItsWay(g, h, "probe", "probing", slept[g])'
         /\ \A at \in 0..slept[h] :
              OnItsWay(g, h, "response", "probing", at) \/ OnItsWay(h, g, "probe", "running", at)
              => OnItsWay(g, h, "response", "probing", at)' \/ OnItsWay(h, g, "probe", "running", at)'
  BY Zenon DEF OnItsWay

\* What a duel costs, after a sleep of k that is followed by a probe.
LEMMA DuelProbe ==
  ASSUME Local, Lockstep, Duel, NEW k \in Hosts, Probe(k)
  PROVE  Duel'
  <1> SUFFICES ASSUME NEW g \in Hosts, NEW h \in Hosts, Rivals(g, h), Probing(h)', ~ conflictDetected'[h]
               PROVE  Cost(g, h)'
    BY Zenon DEF Duel, Rivals
  <1>1. /\ g # h
        /\ slept' = [slept EXCEPT ![k] = @ + 1] /\ probes' = [probes EXCEPT ![k] = @ + 1]
        /\ net \subseteq net' /\ packet' = packet /\ lost' = lost
        /\ conflictDetected' = conflictDetected
        /\ \A x \in Hosts \ {k} : pc'[x] = pc[x]
        /\ \A x \in Hosts \ {k} : [kind |-> "probe", from |-> k, to |-> x, at |-> slept[k] + 1] \in net'
        /\ Wakes(k) /\ pc[k] \in {"delay", "probe"} /\ pc'[k] \in {"probe", "wait"}
        /\ slept \in [Hosts -> Nat] /\ probes \in [Hosts -> Nat] /\ lost \in Nat
        /\ pc[k] = "delay" => probes[k] = 0
    BY ProbeAssumption DEF Rivals, Probe, Wakes, Multicast, Local, TypeOK, Phases
  <1>2. CASE k = g
    <2>1. Probing(h) /\ ~ conflictDetected[h]
      BY <1>1, <1>2, Zenon DEF Probing
    <2>2. SUFFICES ASSUME Beats(g, h) PROVE Early(g, h)'
      BY <1>1, <1>2, Zenon DEF Cost, Owner, Beats, theyWinTiebreak
    <2>3. OnItsWay(g, h, "probe", "probing", slept[g])'
      BY <1>1, <1>2, Zenon DEF OnItsWay
    <2>4. CASE pc[k] = "delay"
      BY <1>1, <1>2, <2>4 DEF Early, Missed
    <2>5. CASE pc[k] = "probe"
      <3>1. Early(g, h)
        BY <1>2, <2>1, <2>2, <2>5, Zenon DEF Duel, Cost, Probing
      <3>2. ~ OnItsWay(g, h, "probe", "probing", slept[g])
        BY <1>1, <1>2, Quiet
      <3>3. Missed(lost, g, h)
        BY <3>1, <3>2, Zenon DEF Early
      <3>4. Missed(lost + 1, g, h)'
        BY <1>1, <1>2, <3>3 DEF Missed
      <3> QED  BY <2>3, <3>4, Zenon DEF Early
    <2> QED  BY <1>1, <2>4, <2>5, Zenon
  <1>3. CASE k = h
    <2>1. ~ conflictDetected[h] /\ pc'[g] = pc[g]
      BY <1>1, <1>3, Zenon
    <2>2. ASSUME Probing(g), Beats(g, h) PROVE Early(g, h)'
      <3>1. CASE pc[k] = "delay"
        <4>1. slept[g] <= slept[h] + 1
          BY <1>1, <1>3, <2>2, Zenon DEF Lockstep, Probing, Sleeping
        <4> QED  BY <1>1, <1>3, <3>1, <4>1 DEF Early, Missed
      <3>2. CASE pc[k] = "probe"
        <4>1. Early(g, h)
          BY <1>3, <2>1, <2>2, <3>2, Zenon DEF Duel, Cost, Probing
        <4>2. OnItsWay(g, h, "probe", "probing", slept[g]) => OnItsWay(g, h, "probe", "probing", slept[g])'
          BY <1>1, <1>3, Zenon DEF OnItsWay
        <4>3. Missed(lost, g, h) => Missed(lost, g, h)'
          BY <1>1, <1>3 DEF Missed
        <4>4. Missed(lost + 1, g, h) => Missed(lost + 1, g, h)'
          BY <1>1, <1>3 DEF Missed
        <4> QED  BY <4>1, <4>2, <4>3, <4>4, Zenon DEF Early
      <3> QED  BY <1>1, <3>1, <3>2, Zenon
    <2>3. ASSUME pc[g] = "checked" PROVE Between(g, h)'
      <3>1. slept[g] = slept[h] + 1
        BY <1>1, <1>3, <2>3 DEF Lockstep, Wakes, Sleeping
      <3>2. CASE pc[k] = "delay"
        BY <1>1, <1>3, <3>1, <3>2 DEF Between
      <3>3. CASE pc[k] = "probe"
        <4>1. Between(g, h)
          BY <1>3, <2>1, <2>3, <3>3, Zenon DEF Duel, Cost, Probing
        <4> QED  BY <1>1, <1>3, <3>1, <4>1 DEF Between
      <3> QED  BY <1>1, <3>2, <3>3, Zenon
    <2>4. ASSUME Owner(g) PROVE Late(g, h)'
      <3>1. CASE pc[k] = "delay"
        BY <1>1, <1>3, <3>1 DEF Late
      <3>2. CASE pc[k] = "probe"
        <4>1. Late(g, h)
          BY <1>3, <2>1, <2>4, <3>2, Zenon DEF Duel, Cost, Probing
        <4>2. lost >= probes[h] - 1
          BY <1>1, <1>3, <4>1, Quiet DEF Late
        <4>3. slept'[h] \in 0..slept'[h] /\ lost' + 1 >= probes'[h] - 1
          BY <1>1, <1>3, <4>2
        <4>4. [kind |-> "probe", from |-> h, to |-> g, at |-> slept'[h]] \in net'
          BY <1>1, <1>3, Zenon
        <4> QED  BY <4>3, <4>4, Zenon DEF Late, OnItsWay
      <3> QED  BY <1>1, <3>1, <3>2, Zenon
    <2> QED  BY <2>1, <2>2, <2>3, <2>4, Zenon DEF Cost, Probing, Owner, Beats, theyWinTiebreak
  <1>4. CASE k # g /\ k # h
    <2>1. /\ pc'[g] = pc[g] /\ pc'[h] = pc[h] /\ slept'[g] = slept[g] /\ slept'[h] = slept[h]
          /\ probes'[g] = probes[g] /\ probes'[h] = probes[h]
      BY <1>1, <1>4, Zenon
    <2>2. Cost(g, h)
      BY <1>1, <2>1, Zenon DEF Duel, Probing
    <2> QED  BY <1>1, <2>1, <2>2, StillOnItsWay, Undisturbed, Zenon
  <1> QED
    BY <1>2, <1>3, <1>4, Zenon

\* What a duel costs, after k has read its conflict flag.
LEMMA DuelCheck ==
  ASSUME MaxLost + 1 < probeCount, Decided, Local, Lockstep, Duel, NEW k \in Hosts, Check(k)
  PROVE  Duel'
  <1> SUFFICES ASSUME NEW g \in Hosts, NEW h \in Hosts, Rivals(g, h), Probing(h)', ~ conflictDetected'[h]
               PROVE  Cost(g, h)'
    BY Zenon DEF Duel, Rivals
  <1>1. /\ slept' = [slept EXCEPT ![k] = @ + 1] /\ probes' = probes
        /\ net' = net /\ packet' = packet /\ lost' = lost /\ conflictDetected' = conflictDetected
        /\ \A x \in Hosts \ {k} : pc'[x] = pc[x]
        /\ pc[k] = "wait" /\ Wakes(k)
        /\ pc'[k] = "checked" => ~ conflictDetected[k]
        /\ pc'[k] \in {"checked", "failed"}
        /\ slept \in [Hosts -> Nat] /\ probes \in [Hosts -> Nat] /\ lost \in Nat /\ lost <= MaxLost
        /\ probes[k] = probeCount /\ probeCount \in Nat /\ MaxLost \in Nat
    BY ProbeAssumption DEF Check, Wakes, Local, TypeOK, Phases
  <1>2. g # h /\ h # k /\ Probing(h) /\ ~ conflictDetected[h]
    BY <1>1, Zenon DEF Rivals, Probing
  <1>3. CASE k = g
    <2>1. SUFFICES ASSUME pc'[g] = "checked" PROVE Between(g, h)'
      BY <1>1, <1>3, Zenon DEF Cost, Probing, Owner
    <2>2. ~ conflictDetected[g] /\ Probing(g)
      BY <1>1, <1>3, <2>1, Zenon DEF Probing
    <2>3. probes[h] <= probeCount /\ slept[g] <= slept[h] /\ slept[h] <= slept[g] + 1
      BY <1>1, <1>2, <1>3 DEF Local, Phases, Probing, Lockstep, Wakes, Sleeping
    <2>4. CASE Beats(g, h)
      <3>1. ~ OnItsWay(g, h, "probe", "probing", slept[g])
        BY <1>1, <1>3, Quiet
      <3>2. Missed(lost, g, h)
        BY <1>2, <2>2, <2>4, <3>1, Zenon DEF Duel, Cost, Early
      <3> QED  BY <1>1, <1>2, <1>3, <3>2 DEF Missed, Between
    <2>5. CASE Beats(h, g)
      <3>1. Early(h, g)
        BY <1>2, <2>2, <2>5, Zenon DEF Duel, Cost, Rivals
      <3>2. CASE slept[h] = slept[g]
        <4>1. ~ OnItsWay(h, g, "probe", "probing", slept[h])
          BY <1>1, <1>3, <3>2, Quiet
        <4> QED  BY <1>1, <1>2, <1>3, <2>3, <3>1, <3>2, <4>1 DEF Early, Missed, Between
      <3>3. CASE slept[h] = slept[g] + 1
        BY <1>1, <1>2, <1>3, <2>3, <3>1, <3>3 DEF Early, Missed, Between
      <3> QED  BY <1>1, <2>3, <3>2, <3>3
    <2> QED
      BY <2>4, <2>5, Zenon DEF Decided
  <1>4. CASE k # g
    <2>1. /\ pc'[g] = pc[g] /\ pc'[h] = pc[h] /\ slept'[g] = slept[g] /\ slept'[h] = slept[h]
          /\ probes'[g] = probes[g] /\ probes'[h] = probes[h]
      BY <1>1, <1>2, <1>4, Zenon
    <2>2. Cost(g, h)
      BY <1>2, Zenon DEF Duel
    <2> QED  BY <1>1, <2>1, <2>2, StillOnItsWay, Undisturbed, Zenon
  <1> QED
    BY <1>3, <1>4, Zenon

\* A host that reads an unset flag is alone past the check.
LEMMA OnePastCheck ==
  ASSUME MaxLost + 1 < probeCount, IInv, NEW k \in Hosts, Check(k)
  PROVE  OnePast'
  <1>1. /\ \A x \in Hosts \ {k} : pc'[x] = pc[x]
        /\ pc[k] = "wait" /\ Wakes(k)
        /\ pc'[k] = "checked" => ~ conflictDetected[k]
        /\ pc'[k] \in {"checked", "failed"}
        /\ slept \in [Hosts -> Nat] /\ probes \in [Hosts -> Nat] /\ lost \in Nat /\ lost <= MaxLost
        /\ probes[k] = probeCount /\ probeCount \in Nat /\ MaxLost \in Nat
    BY ProbeAssumption DEF Check, IInv, Local, TypeOK, Phases
  <1>2. ASSUME NEW g \in Hosts, Rivals(g, k), Past(g), ~ conflictDetected[k] PROVE FALSE
    <2>1. Probing(k) /\ Sleeping(k)
      BY <1>1, Zenon DEF Probing, Sleeping
    <2>2. CASE pc[g] = "checked"
      <3>1. Between(g, k)
        BY <1>2, <2>1, <2>2, Zenon DEF IInv, Duel, Cost
      <3>2. slept[g] = slept[k] + 1
        BY <1>1, <2>1, <2>2 DEF IInv, Lockstep, Wakes
      <3> QED  BY <1>1, <3>1, <3>2 DEF Between
    <2>3. CASE Owner(g)
      <3>1. Late(g, k)
        BY <1>2, <2>1, <2>3, Zenon DEF IInv, Duel, Cost
      <3>2. lost >= probes[k] - 1
        BY <1>1, <3>1, Quiet DEF Late, IInv
      <3> QED  BY <1>1, <3>2
    <2> QED  BY <1>2, <2>2, <2>3, Zenon DEF Past
  <1>3. \A x \in Hosts \ {k} : Past(x)' => Past(x)
    BY <1>1, Zenon DEF Past, Owner
  <1>4. Past(k)' => ~ conflictDetected[k]
    BY <1>1, Zenon DEF Past, Owner
  <1> QED
    BY <1>2, <1>3, <1>4, Zenon DEF OnePast, IInv, Rivals

\* What a duel costs, after k has claimed the name or announced it again.
LEMMA DuelClaim ==
  ASSUME Local, Lockstep, Duel, NEW k \in Hosts, Claim(k) \/ AnnounceAgain(k)
  PROVE  Duel'
  <1> SUFFICES ASSUME NEW g \in Hosts, NEW h \in Hosts, Rivals(g, h), Probing(h)', ~ conflictDetected'[h]
               PROVE  Cost(g, h)'
    BY Zenon DEF Duel, Rivals
  <1>1. /\ slept' = slept /\ probes' = probes /\ packet' = packet /\ lost' = lost
        /\ conflictDetected' = conflictDetected
        /\ net' = net \cup Multicast(k, "response", slept[k]) /\ net \subseteq net'
        /\ \A x \in Hosts \ {k} : pc'[x] = pc[x]
        /\ Past(k) /\ Owner(k)'
        /\ slept \in [Hosts -> Nat] /\ probes \in [Hosts -> Nat] /\ lost \in Nat
    BY ProbeAssumption DEF Claim, AnnounceAgain, Past, Owner, Local, TypeOK
  <1>2. g # h /\ h # k /\ Probing(h) /\ ~ conflictDetected[h]
    BY <1>1, Zenon DEF Rivals, Probing, Owner
  <1>3. CASE k = g /\ pc[k] = "checked"
    <2>1. Between(g, h)
      BY <1>2, <1>3, Zenon DEF Duel, Cost
    <2>2. slept[h] <= slept[g] /\ slept[g] <= slept[h] + 1
      BY <1>2, <1>3, Zenon DEF Lockstep, Probing, Sleeping
    <2>3. [kind |-> "response", from |-> g, to |-> h, at |-> slept[g]] \in net'
      BY <1>1, <1>2, <1>3, Zenon DEF Multicast
    <2>4. Late(g, h)'
      <3>1. CASE slept[g] = slept[h] + 1
        BY <1>1, <2>1, <3>1 DEF Late, Between
      <3>2. CASE slept[g] = slept[h]
        <4>1. slept[g] \in 0..slept'[h] /\ lost' + 1 >= probes'[h] - 1
          BY <1>1, <2>1, <3>2 DEF Between
        <4> QED  BY <2>3, <4>1, Zenon DEF Late, OnItsWay
      <3> QED  BY <1>1, <2>2, <3>1, <3>2
    <2> QED  BY <1>1, <1>3, <2>4, Zenon DEF Cost, Owner, Probing
  <1>4. CASE k # g \/ Owner(k)
    <2>1. Cost(g, h)
      BY <1>2, Zenon DEF Duel
    <2>2. CASE k # g
      BY <1>1, <1>2, <2>1, <2>2, StillOnItsWay, Undisturbed
    <2>3. CASE k = g
      <3>1. Late(g, h)
        BY <1>4, <2>1, <2>3, Zenon DEF Cost
      <3>2. Late(g, h)'
        BY <1>1, <3>1, StillOnItsWay, Zenon DEF Late
      <3> QED  BY <1>1, <2>3, <3>2, Zenon DEF Cost, Owner, Probing
    <2> QED  BY <2>2, <2>3, Zenon
  <1> QED
    BY <1>1, <1>3, <1>4, Zenon DEF Past

\* A packet that a receiver reads in time is kept until it is handled.
LEMMA Received ==
  ASSUME Local, NEW k \in Hosts, Receive(k),
         NEW g \in Hosts, NEW h \in Hosts, NEW kind \in {"probe", "response"}, NEW at \in Nat,
         state[h] # "pending", pc[h] # "failed", OnItsWay(g, h, kind, state[h], at)
  PROVE  \/ [kind |-> kind, from |-> g, to |-> h, at |-> at] \in net'
         \/ packet'[h] = [kind |-> kind, from |-> g, at |-> at, state |-> state[h]]
  <1> DEFINE msg == [kind |-> kind, from |-> g, to |-> h, at |-> at]
             pkt == [kind |-> kind, from |-> g, at |-> at, state |-> state[h]]
  <1>1. PICK m \in net :
          /\ m.to = k
          /\ net' = net \ {m}
          /\ packet' = [packet EXCEPT ![k] =
               IF state[k] = "pending" \/ pc[k] = "failed" THEN None
               ELSE [kind |-> m.kind, from |-> m.from, at |-> m.at, state |-> state[k]]]
    BY Zenon DEF Receive
  <1>2. CASE msg = m
    BY <1>1, <1>2, Zenon DEF Local, TypeOK
  <1>3. CASE msg \in net /\ msg # m
    BY <1>1, <1>3, Zenon
  <1>4. CASE packet[h] = pkt
    <2>1. pkt \in Packet
      BY Zenon DEF Local, TypeOK, Packet
    <2>2. h # k
      BY <1>4, <2>1, ProbeAssumption, Zenon DEF Receive
    <2> QED  BY <1>1, <1>4, <2>2, Zenon DEF Local, TypeOK
  <1> QED
    BY <1>1, <1>2, <1>3, <1>4, Zenon DEF OnItsWay

\* What a duel costs, after the receiver of k has read a packet.
LEMMA DuelReceive ==
  ASSUME Local, Duel, NEW k \in Hosts, Receive(k)
  PROVE  Duel'
  <1> SUFFICES ASSUME NEW g \in Hosts, NEW h \in Hosts, Rivals(g, h), Probing(h)', ~ conflictDetected'[h]
               PROVE  Cost(g, h)'
    BY Zenon DEF Duel, Rivals
  <1>1. /\ pc' = pc /\ slept' = slept /\ probes' = probes /\ lost' = lost
        /\ conflictDetected' = conflictDetected /\ slept \in [Hosts -> Nat]
    BY Zenon DEF Receive, Local, TypeOK
  <1>2. Probing(h) /\ Cost(g, h)
    BY <1>1, Zenon DEF Duel, Probing
  <1>3. /\ state[h] = "probing" /\ pc[h] # "failed"
        /\ Owner(g) => state[g] = "running" /\ pc[g] # "failed"
    BY <1>2, Zenon DEF Local, Phases, Probing, Owner
  <1>4. OnItsWay(g, h, "probe", "probing", slept[g]) => OnItsWay(g, h, "probe", "probing", slept[g])'
    BY <1>1, <1>3, Received DEF OnItsWay
  <1>5. ASSUME NEW at \in 0..slept[h]
        PROVE  /\ OnItsWay(g, h, "response", "probing", at) => OnItsWay(g, h, "response", "probing", at)'
               /\ OnItsWay(h, g, "probe", "running", at) /\ Owner(g) => OnItsWay(h, g, "probe", "running", at)'
    <2>1. at \in Nat
      BY <1>1
    <2> QED  BY <1>3, <2>1, Received DEF OnItsWay
  <1> QED
    BY <1>1, <1>2, <1>4, <1>5, Undisturbed, Zenon

\* A packet that is handled makes the host step back or is answered; the others
\* stay on their way.
LEMMA Handled ==
  ASSUME Local, NEW k \in Hosts, Handle(k), NEW g \in Hosts, NEW h \in Hosts,
         NEW kind \in {"probe", "response"}, NEW seen \in {"probing", "running"}, NEW at \in Nat,
         OnItsWay(g, h, kind, seen, at)
  PROVE  \/ [kind |-> kind, from |-> g, to |-> h, at |-> at] \in net'
         \/ packet'[h] = [kind |-> kind, from |-> g, at |-> at, state |-> seen]
         \/ /\ h = k
            /\ seen = "probing" /\ (kind = "response" \/ theyWinTiebreak(Records[h], Records[g])) =>
                 conflictDetected'[h]
            /\ seen = "running" /\ kind = "probe" /\ pc[h] # "failed" =>
                 [kind |-> "response", from |-> h, to |-> g, at |-> at] \in net'
  <1>1. net \subseteq net' /\ packet' = [packet EXCEPT ![k] = None]
    BY Zenon DEF Handle
  <1>2. CASE packet[h] = [kind |-> kind, from |-> g, at |-> at, state |-> seen] /\ h = k
    <2>1. /\ packet[k].kind = kind /\ packet[k].from = g
          /\ packet[k].at = at /\ packet[k].state = seen
      BY <1>2
    <2>2. /\ packet[k].state = "probing"
          /\ packet[k].kind = "response" \/ theyWinTiebreak(Records[k], Records[packet[k].from])
          => conflictDetected'[k]
      BY Zenon DEF Handle, handleProbeTiebreak, Local, TypeOK
    <2>3. ASSUME seen = "running", kind = "probe", pc[h] # "failed"
          PROVE  [kind |-> "response", from |-> h, to |-> g, at |-> at] \in net'
      BY <1>2, <2>1, <2>3, Zenon DEF Handle
    <2>4. seen = "probing" /\ (kind = "response" \/ theyWinTiebreak(Records[h], Records[g]))
            => conflictDetected'[h]
      BY <1>2, <2>1, <2>2, Zenon
    <2> QED  BY <1>2, <2>3, <2>4, Zenon
  <1>3. CASE packet[h] = [kind |-> kind, from |-> g, at |-> at, state |-> seen] /\ h # k
    BY <1>1, <1>3, Zenon DEF Local, TypeOK
  <1> QED
    BY <1>1, <1>2, <1>3, Zenon DEF OnItsWay

\* What a duel costs, after k has handled the packet it read.
LEMMA DuelHandle ==
  ASSUME Local, Duel, NEW k \in Hosts, Handle(k)
  PROVE  Duel'
  <1> SUFFICES ASSUME NEW g \in Hosts, NEW h \in Hosts, Rivals(g, h), Probing(h)', ~ conflictDetected'[h]
               PROVE  Cost(g, h)'
    BY Zenon DEF Duel, Rivals
  <1>1. /\ pc' = pc /\ slept' = slept /\ probes' = probes /\ lost' = lost
        /\ ~ conflictDetected[h] /\ slept \in [Hosts -> Nat]
    BY Zenon DEF Handle, Local, TypeOK
  <1>2. Probing(h) /\ Cost(g, h) /\ (Owner(g) => pc[g] # "failed")
    BY <1>1, Zenon DEF Duel, Probing, Owner
  <1>3. OnItsWay(g, h, "probe", "probing", slept[g]) /\ Beats(g, h)
          => OnItsWay(g, h, "probe", "probing", slept[g])'
    BY <1>1, Handled DEF OnItsWay, Beats
  <1>4. ASSUME NEW at \in 0..slept[h], Owner(g),
               OnItsWay(g, h, "response", "probing", at) \/ OnItsWay(h, g, "probe", "running", at)
        PROVE  OnItsWay(g, h, "response", "probing", at)' \/ OnItsWay(h, g, "probe", "running", at)'
    <2>1. at \in Nat
      BY <1>1
    <2> QED  BY <1>2, <1>4, <2>1, Handled DEF OnItsWay
  <1> QED
    BY <1>1, <1>2, <1>3, <1>4, Undisturbed, Zenon
-----------------------------------------------------------------------------
(* The inductive invariant. *)

\* The local facts hold before any host starts.
LEMMA InitLocal == ProbeInit => Local
  BY ProbeAssumption DEF ProbeInit, Local, TypeOK, Phases, Responses, Cause, Owner, Packet

\* Every step keeps the types.
LEMMA NextType == Local /\ [ProbeNext]_probeVars => TypeOK'
  <1> SUFFICES ASSUME Local, [ProbeNext]_probeVars PROVE TypeOK'
    BY Zenon
  <1> USE DEF Local, TypeOK
  <1>1. CASE UNCHANGED probeVars
    BY <1>1, Zenon DEF probeVars
  <1>2. ASSUME NEW h \in Hosts, NotYet(h) \/ Check(h) PROVE TypeOK'
    BY <1>2 DEF NotYet, Check, Wakes
  <1>3. ASSUME NEW h \in Hosts, Probe(h) PROVE TypeOK'
    BY <1>3 DEF Probe, Wakes, Multicast
  <1>4. ASSUME NEW h \in Hosts, Claim(h) \/ AnnounceAgain(h) PROVE TypeOK'
    BY <1>4 DEF Claim, AnnounceAgain, Multicast
  <1>5. ASSUME NEW h \in Hosts, Receive(h) PROVE TypeOK'
    <2>1. PICK m \in net :
            /\ net' = net \ {m}
            /\ packet' = [packet EXCEPT ![h] =
                 IF state[h] = "pending" \/ pc[h] = "failed" THEN None
                 ELSE [kind |-> m.kind, from |-> m.from, at |-> m.at, state |-> state[h]]]
      BY <1>5, Zenon DEF Receive
    <2>2. packet' \in [Hosts -> Packet \cup {None}]
      BY <2>1, Zenon DEF Packet
    <2> QED  BY <1>5, <2>1, <2>2, Zenon DEF Receive
  <1>6. ASSUME NEW h \in Hosts, Handle(h) PROVE TypeOK'
    <2>1. packet[h] \in Packet
      BY <1>6, Zenon DEF Handle
    <2>2. net' \subseteq [kind : {"probe", "response"}, from : Hosts, to : Hosts, at : Nat]
      BY <1>6, <2>1 DEF Handle, Packet
    <2>3. conflictDetected' \in [Hosts -> BOOLEAN]
      BY <1>6, Zenon DEF Handle
    <2> QED  BY <1>6, <2>2, <2>3, Zenon DEF Handle
  <1>7. CASE Lose
    BY <1>7, ProbeAssumption DEF Lose
  <1> QED
    BY <1>1, <1>2, <1>3, <1>4, <1>5, <1>6, <1>7, Zenon DEF ProbeNext, Host

\* Every step keeps the local facts.
LEMMA NextLocal == Local /\ [ProbeNext]_probeVars => Local'
  <1> SUFFICES ASSUME Local, [ProbeNext]_probeVars PROVE Local'
    BY Zenon
  <1>t. TypeOK'
    BY NextType, Zenon
  <1> SUFFICES Phases' /\ Responses' /\ Cause'
    BY <1>t, Zenon DEF Local
  <1> USE DEF Local, Owner
  <1>1. CASE UNCHANGED probeVars
    BY <1>1, Zenon DEF probeVars, Phases, Responses, Cause
  <1>2. ASSUME NEW h \in Hosts, NotYet(h) \/ Check(h) PROVE Phases' /\ Responses' /\ Cause'
    <2>1. Phases'
      BY <1>2 DEF NotYet, Check, Phases, TypeOK
    <2>2. \A g \in Hosts : Owner(g) => Owner(g)'
      BY <1>2, Zenon DEF NotYet, Check, TypeOK
    <2>3. net' = net /\ packet' = packet /\ conflictDetected' = conflictDetected
      BY <1>2, Zenon DEF NotYet, Check
    <2> HIDE DEF Owner
    <2> QED  BY <2>1, <2>2, <2>3, Zenon DEF Responses, Cause, TypeOK, Packet
  <1>3. ASSUME NEW h \in Hosts, Probe(h) PROVE Phases' /\ Responses' /\ Cause'
    BY <1>3, ProbeAssumption DEF Probe, Multicast, Phases, Responses, Cause, TypeOK
  <1>4. ASSUME NEW h \in Hosts, Claim(h) \/ AnnounceAgain(h) PROVE Phases' /\ Responses' /\ Cause'
    <2>1. Phases'
      BY <1>4 DEF Claim, AnnounceAgain, Phases, TypeOK
    <2>2. \A g \in Hosts : Owner(g) => Owner(g)'
      BY <1>4, Zenon DEF Claim, AnnounceAgain, TypeOK
    <2>3. Owner(h)'
      BY <1>4, Zenon DEF Claim, AnnounceAgain, TypeOK
    <2>4. \A m \in net' : m \in net \/ m.from = h
      BY <1>4 DEF Claim, AnnounceAgain, Multicast
    <2>5. packet' = packet /\ conflictDetected' = conflictDetected
      BY <1>4, Zenon DEF Claim, AnnounceAgain
    <2> HIDE DEF Owner
    <2>6. Responses'
      BY <1>t, <2>2, <2>3, <2>4, <2>5, Zenon DEF Responses, TypeOK, Packet
    <2>7. Cause'
      BY <2>2, <2>5, Zenon DEF Cause, Beats, theyWinTiebreak
    <2> QED  BY <2>1, <2>6, <2>7, Zenon
  <1>5. ASSUME NEW h \in Hosts, Receive(h) PROVE Phases' /\ Responses' /\ Cause'
    <2>1. pc' = pc /\ state' = state /\ probes' = probes /\ conflictDetected' = conflictDetected
      BY <1>5, Zenon DEF Receive
    <2>2. Phases' /\ Cause'
      BY <2>1, Zenon DEF Phases, Cause, Beats, theyWinTiebreak
    <2>3. Responses'
      BY <1>5 DEF Receive, Phases, Responses, TypeOK, Packet
    <2> QED  BY <2>2, <2>3, Zenon
  <1>6. ASSUME NEW h \in Hosts, Handle(h) PROVE Phases' /\ Responses' /\ Cause'
    <2>1. packet[h] \in Packet
      BY <1>6, Zenon DEF Handle, TypeOK
    <2>2. pc' = pc /\ state' = state
      BY <1>6, Zenon DEF Handle
    <2>3. Phases'
      BY <1>6, <2>2, Zenon DEF Handle, Phases, TypeOK
    <2>4. Responses'
      BY <1>6, <2>1 DEF Handle, Responses, TypeOK, Packet
    <2>5. Cause'
      BY <1>6, <2>1, <2>2, Zenon DEF Handle, handleProbeTiebreak, Beats, Responses, Cause, TypeOK, Packet
    <2> QED  BY <2>3, <2>4, <2>5, Zenon
  <1>7. CASE Lose
    <2>1. /\ net' \subseteq net /\ packet' = packet
          /\ pc' = pc /\ state' = state /\ probes' = probes /\ conflictDetected' = conflictDetected
      BY <1>7, Zenon DEF Lose
    <2>2. Phases' /\ Cause'
      BY <2>1, Zenon DEF Phases, Cause, Beats, theyWinTiebreak
    <2> QED  BY <2>1, <2>2, Zenon DEF Responses
  <1> QED
    BY <1>1, <1>2, <1>3, <1>4, <1>5, <1>6, <1>7, Zenon DEF ProbeNext, Host

\* No sleep of any host ends twice while another one sleeps once.
LEMMA NextLockstep == Local /\ Lockstep /\ [ProbeNext]_probeVars => Lockstep'
  <1> SUFFICES ASSUME Local, Lockstep, [ProbeNext]_probeVars PROVE Lockstep'
    BY Zenon
  <1> USE DEF Local, TypeOK, Lockstep, Sleeping
  <1>1. CASE UNCHANGED probeVars
    BY <1>1, Zenon DEF probeVars
  <1>2. ASSUME NEW h \in Hosts, NotYet(h) \/ Probe(h) PROVE Lockstep'
    BY <1>2 DEF NotYet, Probe, Wakes
  <1>3. ASSUME NEW h \in Hosts, Check(h) PROVE Lockstep'
    BY <1>3 DEF Check, Wakes
  <1>4. ASSUME NEW h \in Hosts, Claim(h) \/ AnnounceAgain(h) PROVE Lockstep'
    BY <1>4, Zenon DEF Claim, AnnounceAgain
  <1>5. ASSUME NEW h \in Hosts, Receive(h) \/ Handle(h) PROVE Lockstep'
    BY <1>5, Zenon DEF Receive, Handle
  <1>6. CASE Lose
    BY <1>6, Zenon DEF Lose
  <1> QED
    BY <1>1, <1>2, <1>3, <1>4, <1>5, <1>6, Zenon DEF ProbeNext, Host

\* Every step keeps the inductive invariant, when fewer packets are lost than
\* all but one of a host's probes.
LEMMA NextIInv ==
  ASSUME MaxLost + 1 < probeCount, Decided
  PROVE  IInv /\ [ProbeNext]_probeVars => IInv'
  <1> SUFFICES ASSUME IInv, [ProbeNext]_probeVars PROVE IInv'
    BY Zenon
  <1>1. Local' /\ Lockstep'
    BY NextLocal, NextLockstep, Zenon DEF IInv
  <1>2. Local /\ Lockstep /\ Duel /\ OnePast
    BY Zenon DEF IInv
  <1>3. SUFFICES Duel' /\ OnePast'
    BY <1>1, Zenon DEF IInv
  <1>4. ASSUME \A x \in Hosts : Past(x)' => Past(x) PROVE OnePast'
    BY <1>2, <1>4, Zenon DEF OnePast, Rivals
  <1>5. CASE UNCHANGED probeVars
    <2>1. Duel'
      <3>1. ASSUME NEW g \in Hosts, NEW h \in Hosts, Rivals(g, h), Probing(h)', ~ conflictDetected'[h]
            PROVE  Cost(g, h)'
        <4>1. Cost(g, h)
          BY <1>2, <1>5, <3>1, Zenon DEF Duel, Probing, probeVars
        <4> QED  BY <1>5, <4>1, StillOnItsWay, Undisturbed, Zenon DEF probeVars
      <3> QED  BY <3>1, Zenon DEF Duel, Rivals
    <2> QED  BY <1>4, <1>5, <2>1, Zenon DEF probeVars, Past, Owner
  <1>6. ASSUME NEW k \in Hosts, NotYet(k) PROVE Duel' /\ OnePast'
    <2>1. /\ pc' = pc /\ probes' = probes /\ net' = net /\ packet' = packet /\ lost' = lost
          /\ conflictDetected' = conflictDetected /\ pc[k] = "delay"
          /\ \A x \in Hosts \ {k} : slept'[x] = slept[x]
      BY <1>2, <1>6, Zenon DEF NotYet, Wakes, Local, TypeOK
    <2>2. ASSUME NEW g \in Hosts, NEW h \in Hosts, Rivals(g, h), Probing(h)', ~ conflictDetected'[h]
          PROVE  Cost(g, h)'
      <3>1. h # k /\ Cost(g, h)
        BY <1>2, <2>1, <2>2, Zenon DEF Duel, Probing
      <3>2. CASE g = k
        BY <2>1, <3>2, Zenon DEF Cost, Probing, Owner
      <3>3. CASE g # k
        BY <2>1, <3>1, <3>3, StillOnItsWay, Undisturbed, Zenon
      <3> QED  BY <3>2, <3>3, Zenon
    <2>3. Duel'
      BY <2>2, Zenon DEF Duel, Rivals
    <2> QED  BY <1>4, <2>1, <2>3, Zenon DEF Past, Owner
  <1>7. ASSUME NEW k \in Hosts, Probe(k) PROVE Duel' /\ OnePast'
    <2>1. \A x \in Hosts : Past(x)' => Past(x)
      BY <1>2, <1>7, Zenon DEF Probe, Past, Owner, Local, TypeOK
    <2> QED  BY <1>2, <1>4, <1>7, <2>1, DuelProbe, Zenon
  <1>8. ASSUME NEW k \in Hosts, Check(k) PROVE Duel' /\ OnePast'
    BY <1>2, <1>8, DuelCheck, OnePastCheck, Zenon
  <1>9. ASSUME NEW k \in Hosts, Claim(k) \/ AnnounceAgain(k) PROVE Duel' /\ OnePast'
    <2>1. \A x \in Hosts : Past(x)' => Past(x)
      BY <1>2, <1>9, Zenon DEF Claim, AnnounceAgain, Past, Owner, Local, TypeOK
    <2> QED  BY <1>2, <1>4, <1>9, <2>1, DuelClaim, Zenon
  <1>10. ASSUME NEW k \in Hosts, Receive(k) PROVE Duel' /\ OnePast'
    <2>1. pc' = pc
      BY <1>10, Zenon DEF Receive
    <2>2. \A x \in Hosts : Past(x)' => Past(x)
      BY <2>1, Zenon DEF Past, Owner
    <2> QED  BY <1>2, <1>4, <1>10, <2>2, DuelReceive, Zenon
  <1>11. ASSUME NEW k \in Hosts, Handle(k) PROVE Duel' /\ OnePast'
    <2>1. pc' = pc
      BY <1>11, Zenon DEF Handle
    <2>2. \A x \in Hosts : Past(x)' => Past(x)
      BY <2>1, Zenon DEF Past, Owner
    <2> QED  BY <1>2, <1>4, <1>11, <2>2, DuelHandle, Zenon
  <1>12. CASE Lose
    <2>1. /\ pc' = pc /\ probes' = probes /\ slept' = slept /\ lost' = lost + 1 /\ lost \in Nat
          /\ conflictDetected' = conflictDetected /\ probes \in [Hosts -> Nat] /\ slept \in [Hosts -> Nat]
      BY <1>2, <1>12, ProbeAssumption DEF Lose, Local, TypeOK
    <2>2. ASSUME NEW g \in Hosts, NEW h \in Hosts
          PROVE  /\ Early(g, h) => Early(g, h)'
                 /\ Between(g, h) => Between(g, h)'
                 /\ Late(g, h) => Late(g, h)'
      BY <2>1 DEF Early, Missed, Between, Late
    <2>3. Duel'
      BY <1>2, <2>1, <2>2, Zenon DEF Duel, Cost, Rivals, Probing, Owner, Beats, theyWinTiebreak
    <2> QED  BY <1>4, <2>1, <2>3, Zenon DEF Past, Owner
  <1> QED
    BY <1>5, <1>6, <1>7, <1>8, <1>9, <1>10, <1>11, <1>12, Zenon DEF ProbeNext, Host
-----------------------------------------------------------------------------
INSTANCE WellFoundedInduction

(* The tie-break is a strict order of the record sets. *)

\* Every nonempty set of naturals has a least element.
LEMMA LeastNatural == \A T \in SUBSET Nat : T # {} => \E k \in T : \A y \in T : k <= y
  <1> SUFFICES ASSUME NEW T \in SUBSET Nat, T # {} PROVE \E k \in T : \A y \in T : k <= y
    BY Zenon
  <1>1. PICK k \in T : \A y \in T : ~ (<<y, k>> \in OpToRel(<, Nat))
    BY NatLessThanWellFounded, WFMin, Zenon
  <1>2. \A y \in T : ~ (y < k)
    BY <1>1, Zenon DEF OpToRel
  <1> QED
    BY <1>2

\* Of two different record sets one wins the tie-break of theyWinTiebreak.
LEMMA TiebreakTotal ==
  \A a, b \in SUBSET Nat : a # b => theyWinTiebreak(a, b) \/ theyWinTiebreak(b, a)
  <1> SUFFICES ASSUME NEW a \in SUBSET Nat, NEW b \in SUBSET Nat, a # b
               PROVE theyWinTiebreak(a, b) \/ theyWinTiebreak(b, a)
    BY Zenon
  <1> DEFINE T == (a \ b) \cup (b \ a)
  <1>1. PICK k \in T : \A y \in T : k <= y
    BY LeastNatural, Zenon
  <1> QED
    BY <1>1 DEF theyWinTiebreak

\* No record set wins against itself.
LEMMA TiebreakIrreflexive == \A a : ~ theyWinTiebreak(a, a)
  BY Zenon DEF theyWinTiebreak

\* Who wins against a winner wins against the loser.
LEMMA TiebreakTransitive ==
  \A a, b, c \in SUBSET Nat : theyWinTiebreak(b, a) /\ theyWinTiebreak(c, b) => theyWinTiebreak(c, a)
  <1> SUFFICES ASSUME NEW a \in SUBSET Nat, NEW b \in SUBSET Nat, NEW c \in SUBSET Nat,
                      theyWinTiebreak(b, a), theyWinTiebreak(c, b)
               PROVE theyWinTiebreak(c, a)
    BY Zenon
  <1>1. PICK x \in a \ b : \A y \in b \ a : x < y
    BY Zenon DEF theyWinTiebreak
  <1>2. PICK z \in b \ c : \A y \in c \ b : z < y
    BY Zenon DEF theyWinTiebreak
  <1>3. CASE x < z
    <2>1. x \in a \ c /\ \A y \in c \ a : x < y
      BY <1>1, <1>2, <1>3
    <2> QED  BY <2>1, Zenon DEF theyWinTiebreak
  <1>4. CASE z < x
    <2>1. z \in a \ c /\ \A y \in c \ a : z < y
      BY <1>1, <1>2, <1>4
    <2> QED  BY <2>1, Zenon DEF theyWinTiebreak
  <1> QED
    BY <1>1, <1>2, <1>3, <1>4

\* A strict order of 1..N leaves some number behind no other: of the least n
\* without one among 1..n, the one among 1..(n - 1) or n itself.
LEMMA SomeMinimal ==
  ASSUME NEW N \in Nat \ {0}, NEW R, \A i \in 1..N : <<i, i>> \notin R,
         \A i, j, k \in 1..N : <<i, j>> \in R /\ <<j, k>> \in R => <<i, k>> \in R
  PROVE  \E k \in 1..N : \A i \in 1..N : <<i, k>> \notin R
  <1> DEFINE stuck(n) == \A k \in 1..n : \E i \in 1..n : <<i, k>> \in R
             T == {n \in 1..N : stuck(n)}
  <1> SUFFICES ASSUME stuck(N) PROVE FALSE
    BY Zenon
  <1>1. ~ stuck(1)
    OBVIOUS
  <1>2. PICK n \in 1..N : stuck(n) /\ ~ stuck(n - 1) /\ n # 1
    <2> HIDE DEF stuck
    <2>1. T \in SUBSET Nat /\ N \in T
      OBVIOUS
    <2>2. PICK n \in T : \A m \in T : n <= m
      <3> HIDE DEF T
      <3> QED  BY <2>1, LeastNatural, Zenon
    <2>3. n \in 1..N /\ stuck(n) /\ n # 1
      BY <1>1, <2>2, Zenon
    <2>4. n - 1 \in 1..N /\ ~ (n <= n - 1)
      BY <2>3
    <2>5. n - 1 \notin T
      BY <2>2, <2>4, Zenon
    <2> QED  BY <2>3, <2>4, <2>5, Zenon
  <1>3. PICK k \in 1..(n - 1) : \A i \in 1..(n - 1) : <<i, k>> \notin R
    BY <1>2, Zenon
  <1>4. PICK j \in 1..n : <<j, k>> \in R
    <2>1. k \in 1..n
      BY <1>2
    <2> QED  BY <1>2, <2>1, Zenon
  <1>5. PICK i \in 1..n : <<i, n>> \in R
    <2>1. n \in 1..n
      BY <1>2
    <2> QED  BY <1>2, <2>1, Zenon
  <1>6. j = n /\ i \in 1..(n - 1)
    BY <1>2, <1>3, <1>4, <1>5
  <1>7. <<i, k>> \in R
    BY <1>2, <1>4, <1>5, <1>6
  <1> QED
    BY <1>3, <1>6, <1>7, Zenon

\* Some host's records lose against nobody's.
LEMMA SomebodyUnbeaten == \E h \in Hosts : \A g \in Hosts : ~ Beats(g, h)
  <1>1. PICK list \in Seq(Hosts) : \A h \in Hosts : \E i \in 1..Len(list) : list[i] = h
    BY ProbeAssumption, Zenon DEF IsFiniteSet
  <1> DEFINE N == Len(list)
             R == {p \in (1..N) \X (1..N) : Beats(list[p[1]], list[p[2]])}
  <1>2. N \in Nat \ {0} /\ \A i \in 1..N : list[i] \in Hosts
    <2>1. Hosts # {}
      BY ProbeAssumption, Zenon
    <2> QED  BY <1>1, <2>1
  <1>3. \A g, h, k \in Hosts : ~ Beats(g, g) /\ (Beats(g, h) /\ Beats(h, k) => Beats(g, k))
    BY TiebreakIrreflexive, TiebreakTransitive, ProbeAssumption, Zenon DEF Beats
  <1> HIDE DEF N
  <1>4. \A i \in 1..N : <<i, i>> \notin R
    BY <1>2, <1>3, Zenon
  <1>5. \A i, j, k \in 1..N : <<i, j>> \in R /\ <<j, k>> \in R => <<i, k>> \in R
    BY <1>2, <1>3, Zenon
  <1>6. PICK k \in 1..N : \A i \in 1..N : <<i, k>> \notin R
    <2> HIDE DEF R
    <2> QED  BY <1>2, <1>4, <1>5, SomeMinimal, Zenon
  <1>7. \A i \in 1..N : ~ Beats(list[i], list[k])
    BY <1>6, Zenon
  <1> QED
    BY <1>1, <1>2, <1>7, Zenon DEF N

\* The tie-break does not make everybody step back: however many hosts
\* propose whatever records, and however many packets are lost, some host's
\* runProbe does not fail.
THEOREM SomebodyStaysHolds == ProbeSpec => []SomebodyStays
  <1>1. Local => SomebodyStays
    BY SomebodyUnbeaten, ProbeAssumption, Zenon DEF Local, Phases, Cause, Owner, SomebodyStays
  <1> QED
    BY InitLocal, NextLocal, <1>1, PTL DEF ProbeSpec

\* Two hosts with different addresses never both publish the name, however
\* many hosts there are and whenever each of them starts, as long as at least
\* two more probes are sent than packets are lost.  One packet more, and two
\* owners are possible.
THEOREM AtMostOneOwnerHolds ==
  ASSUME MaxLost + 1 < probeCount
  PROVE  ProbeSpec => []AtMostOneOwner
  <1>1. ProbeInit => IInv
    <2>1. ProbeInit => Lockstep /\ Duel /\ OnePast
      BY DEF ProbeInit, Lockstep, Duel, OnePast, Past, Owner, Probing
    <2> QED  BY <2>1, InitLocal, Zenon DEF IInv
  <1>2. IInv => AtMostOneOwner
    <2>1. Local => \A h \in Hosts : state[h] = "running" => Owner(h)
      BY Zenon DEF Local, TypeOK, Phases, Owner
    <2> QED  BY <2>1, Zenon DEF IInv, OnePast, Past, Rivals, AtMostOneOwner
  <1>3. Decided
    BY TiebreakTotal, ProbeAssumption, Zenon DEF Decided, Beats, Rivals
  <1>4. IInv /\ [ProbeNext]_probeVars => IInv'
    BY <1>3, NextIInv, Zenon
  <1> QED
    BY <1>1, <1>2, <1>4, PTL DEF ProbeSpec
=============================================================================
