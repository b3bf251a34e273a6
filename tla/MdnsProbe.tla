------------------------------ MODULE MdnsProbe ------------------------------
(***************************************************************************)
(* Hosts of one link that probe for the same name with mdns-publisher      *)
(* (main.go): runProbe in the main goroutine, handlePacket in the receiver *)
(* of each.  A record is a number, its rank in rrLess.  Sleeps are equally *)
(* long, so no host sleeps twice while another one sleeps once; whatever   *)
(* the end of a sleep sets off (packets, answers, steps without a sleep)   *)
(* is over before anybody's next sleep ends, though not before the sleeps  *)
(* that end with it.                                                       *)
(***************************************************************************)
EXTENDS Integers, FiniteSets

CONSTANTS
  Hosts,
  Records,        \* Records[h]: the records h proposes
  probeCount,
  MaxDelay,       \* bound: sleeps before a host starts
  MaxLost,        \* bound: packets lost
  None

\* A packet and the state its receiver read before it.
Packet == [kind : {"probe", "response"}, from : Hosts, at : Nat, state : {"probing", "running"}]

ASSUME ProbeAssumption ==
  /\ IsFiniteSet(Hosts) /\ Hosts # {}
  /\ Records \in [Hosts -> (SUBSET Nat) \ {{}}] /\ \A h \in Hosts : IsFiniteSet(Records[h])
  /\ probeCount \in Nat \ {0} /\ MaxDelay \in Nat /\ MaxLost \in Nat
  /\ None \notin Packet

VARIABLES
  pc,         \* pc[h]: where main is
  state,      \* state[h]: server.state
  conflictDetected,
  probes,     \* probes[h]: probes sent
  slept,      \* slept[h]: sleeps that have ended
  net,        \* packets on the link
  packet,     \* packet[h]: the packet its receiver handles, or None
  lost

probeVars == <<pc, state, conflictDetected, probes, slept, net, packet, lost>>

ProbeInit ==
  /\ pc = [h \in Hosts |-> "delay"]
  /\ state = [h \in Hosts |-> "pending"]
  /\ conflictDetected = [h \in Hosts |-> FALSE]
  /\ probes = [h \in Hosts |-> 0] /\ slept = [h \in Hosts |-> 0]
  /\ net = {} /\ packet = [h \in Hosts |-> None] /\ lost = 0
-----------------------------------------------------------------------------
(* The main goroutine. *)

\* sendMsg: one copy for each other host.
Multicast(h, kind, at) ==
  {[kind |-> kind, from |-> h, to |-> g, at |-> at] : g \in Hosts \ {h}}

Sleeping(h) == pc[h] \in {"delay", "probe", "wait"}

\* A sleep of h ends.
Wakes(h) ==
  /\ Sleeping(h)
  /\ \A g \in Hosts : /\ Sleeping(g) => slept[h] <= slept[g]
                      /\ packet[g] # None => packet[g].at > slept[h]
                      /\ pc[g] = "checked" => slept[g] > slept[h]
  /\ \A m \in net : m.at > slept[h]
  /\ slept' = [slept EXCEPT ![h] = @ + 1]

\* The service of h is not started yet.
NotYet(h) ==
  /\ pc[h] = "delay" /\ slept[h] < MaxDelay
  /\ Wakes(h)
  /\ UNCHANGED <<pc, state, conflictDetected, probes, net, packet, lost>>

\* runProbe: conflict detection on, and a probe after each sleep.
Probe(h) ==
  /\ pc[h] \in {"delay", "probe"}
  /\ Wakes(h)
  /\ state' = [state EXCEPT ![h] = "probing"]
  /\ net' = net \cup Multicast(h, "probe", slept'[h])
  /\ probes' = [probes EXCEPT ![h] = @ + 1]
  /\ pc' = [pc EXCEPT ![h] = IF probes'[h] = probeCount THEN "wait" ELSE "probe"]
  /\ UNCHANGED <<conflictDetected, packet, lost>>

\* After the last sleep the conflict flag is read, once: log.Fatalf, or go on.
Check(h) ==
  /\ pc[h] = "wait"
  /\ Wakes(h)
  /\ pc' = [pc EXCEPT ![h] = IF conflictDetected[h] THEN "failed" ELSE "checked"]
  /\ UNCHANGED <<state, conflictDetected, probes, net, packet, lost>>

\* The transition to stateRunning and the first announcement.
Claim(h) ==
  /\ pc[h] = "checked"
  /\ state' = [state EXCEPT ![h] = "running"]
  /\ net' = net \cup Multicast(h, "response", slept[h])
  /\ pc' = [pc EXCEPT ![h] = "announced"]
  /\ UNCHANGED <<conflictDetected, probes, slept, packet, lost>>

\* A second later, the second one.
AnnounceAgain(h) ==
  /\ pc[h] = "announced"
  /\ net' = net \cup Multicast(h, "response", slept[h])
  /\ pc' = [pc EXCEPT ![h] = "serving"]
  /\ UNCHANGED <<state, conflictDetected, probes, slept, packet, lost>>
-----------------------------------------------------------------------------
(* The receiver. *)

\* Both lists sorted, the first difference decides and the lower record wins;
\* without one the longer list does.  Either way they hold a record we do not,
\* below every record that only we hold.
theyWinTiebreak(our, their) == \E x \in their \ our : \A y \in our \ their : x < y

\* Mutants: a probe of the other host is never, or always, a conflict.
ProbesIgnored(h, from) == FALSE
AlwaysDefers(h, from) == TRUE

\* A probe of another host is a conflict for h.
handleProbeTiebreak(h, from) == theyWinTiebreak(Records[h], Records[from])

\* The receiver reads a packet, and the state.
Receive(h) ==
  /\ packet[h] = None
  /\ \E m \in net :
       /\ m.to = h
       /\ net' = net \ {m}
       /\ packet' = [packet EXCEPT ![h] =
            IF state[h] = "pending" \/ pc[h] = "failed" THEN None
            ELSE [kind |-> m.kind, from |-> m.from, at |-> m.at, state |-> state[h]]]
  /\ UNCHANGED <<pc, state, conflictDetected, probes, slept, lost>>

\* handlePacket by that state: checkConflict, handleProbeTiebreak or
\* answerQuery (a probe asks for a unicast answer).
Handle(h) ==
  /\ packet[h] # None
  /\ LET m == packet[h]
         answers == m.state = "running" /\ m.kind = "probe" /\ pc[h] # "failed"
         loses == /\ m.state = "probing"
                  /\ m.kind = "response" \/ handleProbeTiebreak(h, m.from)
         answer == [kind |-> "response", from |-> h, to |-> m.from, at |-> m.at]
     IN /\ net' = IF answers THEN net \cup {answer} ELSE net
        /\ conflictDetected' = [conflictDetected EXCEPT ![h] = @ \/ loses]
  /\ packet' = [packet EXCEPT ![h] = None]
  /\ UNCHANGED <<pc, state, probes, slept, lost>>

Lose ==
  /\ lost < MaxLost /\ lost' = lost + 1
  /\ \E m \in net : net' = net \ {m}
  /\ UNCHANGED <<pc, state, conflictDetected, probes, slept, packet>>
-----------------------------------------------------------------------------
Host(h) == NotYet(h) \/ Probe(h) \/ Check(h) \/ Claim(h) \/ AnnounceAgain(h) \/ Receive(h) \/ Handle(h)

ProbeNext == (\E h \in Hosts : Host(h)) \/ Lose

ProbeSpec == ProbeInit /\ [][ProbeNext]_probeVars
-----------------------------------------------------------------------------
\* Two hosts with different addresses never both publish the name, whichever
\* starts first and wherever the check falls between the other's probes.
AtMostOneOwner ==
  \A g, h \in Hosts :
    state[g] = "running" /\ state[h] = "running" => Records[g] = Records[h]

\* The tie-break does not make everybody step back.
SomebodyStays == \E h \in Hosts : pc[h] # "failed"
=============================================================================
