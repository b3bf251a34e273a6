---------------------------- MODULE MdnsPublisher ----------------------------
(***************************************************************************)
(* One mdns-publisher (main.go) after its addresses are read: the main     *)
(* goroutine, the watcher of the interface's addresses, a receiver, and    *)
(* one peer with the cache its messages fill.  Records are addresses; the  *)
(* probe is MdnsProbe's.                                                   *)
(***************************************************************************)
EXTENDS Integers, FiniteSets

CONSTANTS
  Address,
  MaxChanges,     \* bound: changes of the interface's addresses
  MaxQueries      \* bound: queries of the peer

ASSUME PublisherAssumption ==
  /\ MaxChanges \in Nat /\ MaxQueries \in Nat

VARIABLES
  main,       \* where the main goroutine is
  watcher,    \* where the watcher is
  old, new,   \* its oldRecords and records
  zone,       \* zone.records
  announced,  \* the records main announces
  done,       \* addrWatchDone is closed
  answer,     \* what the receiver is about to send, {} if it waits
  iface,      \* the addresses of the interface
  updates,    \* address updates the watcher has not received
  changes, queries,
  cache,      \* what the peer believes
  missed,     \* since the records were last replaced, the watcher was not told of a
              \* change, could not read it, or an outdated or partial answer, which
              \* flushes what it leaves out, was sent (history)
  late        \* records answered after the last goodbye for them (history)

ifaceVars == <<iface, updates, changes>>
watchVars == <<watcher, old, new>>
publisherVars == <<main, watchVars, zone, announced, done, answer, ifaceVars, queries, cache,
                   missed, late>>

PublisherInit ==
  /\ main = "probe" /\ watcher = "none" /\ old = {} /\ new = {}
  /\ iface \in (SUBSET Address) \ {{}}
  /\ zone = iface /\ announced = iface
  /\ done = FALSE /\ answer = {}
  /\ updates = 0 /\ changes = 0 /\ queries = 0 /\ cache = {}
  /\ missed = FALSE /\ late = {}

\* What a peer keeps of its cache when it receives cache-flush records: the
\* flushing spares what came within the last second.
Hears(records) == \E kept \in SUBSET (cache \ records) : cache' = records \cup kept
Forgets(records) == cache' = cache \ records

\* The process is gone.
Over == main \in {"exited", "killed"}

Running == main \notin {"probe", "exited", "killed"}
-----------------------------------------------------------------------------
(* The main goroutine. *)

\* The probe finds no conflict; stateRunning.
Probed ==
  /\ main = "probe" /\ main' = "announce1"
  /\ UNCHANGED <<watchVars, zone, announced, done, answer, ifaceVars, queries, cache,
                 missed, late>>

\* runAnnounce, then the watcher is started and the signals are asked for.
Announce ==
  /\ \/ main = "announce1" /\ main' = "announce2" /\ UNCHANGED watcher
     \/ main = "announce2" /\ main' = "notify" /\ watcher' = "subscribe"
  /\ Hears(announced)
  /\ UNCHANGED <<old, new, zone, announced, done, answer, ifaceVars, queries, missed, late>>

Notify ==
  /\ main = "notify" /\ main' = "serving"
  /\ UNCHANGED <<watchVars, zone, announced, done, answer, ifaceVars, queries, cache,
                 missed, late>>

\* SIGTERM: caught after Notify, fatal before.
Sigterm ==
  /\ \/ main = "serving" /\ main' = "stopping" /\ done' = TRUE
     \/ /\ main \in {"announce1", "announce2", "notify"}
        /\ main' = "killed" /\ UNCHANGED done
  /\ UNCHANGED <<watchVars, zone, announced, answer, ifaceVars, queries, cache, missed, late>>

\* Mutant: main does not wait for the watcher.
WatcherIgnored == TRUE

\* <-addrWatchStopped
WatcherStopped == watcher = "stopped"

\* runGoodbye for the zone as it is then; its second message.
Goodbye ==
  /\ main = "stopping" /\ WatcherStopped
  /\ main' = "goodbye" /\ announced' = zone
  /\ Forgets(zone)
  /\ UNCHANGED <<watchVars, zone, done, answer, ifaceVars, queries, missed, late>>

GoodbyeAgain ==
  /\ main = "goodbye"
  /\ main' = "shutdown" /\ UNCHANGED announced
  /\ Forgets(announced)
  /\ UNCHANGED <<watchVars, zone, done, answer, ifaceVars, queries, missed, late>>

\* Shutdown closes the sockets and waits for the receiver.
Shutdown ==
  /\ main = "shutdown" /\ main' = "exited"
  /\ answer' = {}
  /\ UNCHANGED <<watchVars, zone, announced, done, ifaceVars, queries, cache, missed, late>>
-----------------------------------------------------------------------------
(* watchInterfaceAddresses. *)

Subscribe ==
  /\ ~ Over /\ watcher = "subscribe"
  /\ watcher' \in {"select", "stopped"}
  /\ UNCHANGED <<main, old, new, zone, announced, done, answer, ifaceVars, queries, cache,
                 missed, late>>

\* Mutant: done is looked at between two updates only.
WatchEndsUntold ==
  /\ ~ Over /\ watcher = "select" /\ done /\ updates > 0
  /\ watcher' = "stopped"
  /\ UNCHANGED <<main, old, new, zone, announced, done, answer, ifaceVars, queries, cache,
                 missed, late>>

\* The select finds done closed.
WatchEnds ==
  /\ ~ Over /\ watcher = "select" /\ done
  /\ watcher' = "stopped"
  /\ UNCHANGED <<main, old, new, zone, announced, done, answer, ifaceVars, queries, cache,
                 missed, late>>

\* The subscription ends, and the watcher with it.
SubscriptionEnds ==
  /\ ~ Over /\ watcher = "select"
  /\ watcher' = "stopped"
  /\ missed' = (missed \/ updates > 0)
  /\ UNCHANGED <<main, old, new, zone, announced, done, answer, ifaceVars, queries, cache,
                 late>>

\* Mutant: the records are only added to.
GrownZone(records) == zone \cup records

\* replaceRecords
ReplacedZone(records) == records

\* An update: the addresses are read, the records replaced if they changed.
Update ==
  /\ ~ Over /\ watcher = "select" /\ updates > 0
  /\ updates' = updates - 1
  /\ \/ /\ iface # zone /\ missed' = FALSE
        /\ zone' = ReplacedZone(iface) /\ old' = zone /\ new' = iface
        /\ watcher' = IF zone # {} THEN "goodbye1" ELSE "announce1"
     \/ iface = zone /\ UNCHANGED <<zone, watchVars, missed>>
     \/ missed' = TRUE /\ UNCHANGED <<zone, watchVars>>
  /\ UNCHANGED <<main, announced, done, answer, iface, changes, queries, cache, late>>

\* runGoodbye for the old records, runAnnounce for the new ones.
WatchGoodbye ==
  /\ ~ Over
  /\ \/ watcher = "goodbye1" /\ watcher' = "goodbye2"
     \/ watcher = "goodbye2" /\ watcher' = IF new = {} THEN "select" ELSE "announce1"
  /\ Forgets(old)
  /\ UNCHANGED <<main, old, new, zone, announced, done, answer, ifaceVars, queries, missed, late>>

WatchAnnounce ==
  /\ ~ Over
  /\ \/ watcher = "announce1" /\ watcher' = "announce2"
     \/ watcher = "announce2" /\ watcher' = "select"
  /\ Hears(new)
  /\ UNCHANGED <<main, old, new, zone, announced, done, answer, ifaceVars, queries, missed, late>>
-----------------------------------------------------------------------------
(* The receiver, the interface and the peer. *)

\* answerQuery reads the records, but for those the peer says it knows...
ReadRecords ==
  /\ Running /\ answer = {} /\ queries < MaxQueries
  /\ queries' = queries + 1
  /\ \E known \in SUBSET cache : answer' = zone \ known
  /\ UNCHANGED <<main, watchVars, zone, announced, done, ifaceVars, cache, missed, late>>

\* The records a goodbye is still to come for.
ToBeRevoked == (IF main = "shutdown" THEN {} ELSE zone)
                 \cup (IF watcher \in {"goodbye1", "goodbye2"} THEN old ELSE {})

\* ... and sends them.
SendAnswer ==
  /\ Running /\ answer # {}
  /\ Hears(answer)
  /\ answer' = {}
  /\ late' = late \cup (answer \ ToBeRevoked)
  /\ missed' = (missed \/ answer # zone)
  /\ UNCHANGED <<main, watchVars, zone, announced, done, ifaceVars, queries>>

Change ==
  /\ changes < MaxChanges /\ changes' = changes + 1
  /\ iface' \in (SUBSET Address) \ {iface}
  /\ IF watcher \in {"none", "subscribe", "stopped"}
       THEN missed' = TRUE /\ UNCHANGED updates
       ELSE updates' = updates + 1 /\ UNCHANGED missed
  /\ UNCHANGED <<main, watchVars, zone, announced, done, answer, queries, cache, late>>
-----------------------------------------------------------------------------
Main == Probed \/ Announce \/ Notify \/ Goodbye \/ GoodbyeAgain \/ Shutdown
Watch == Subscribe \/ WatchEnds \/ Update \/ WatchGoodbye \/ WatchAnnounce
Receiver == ReadRecords \/ SendAnswer

PublisherNext == Main \/ Watch \/ Receiver \/ Sigterm \/ SubscriptionEnds \/ Change

PublisherSpec == PublisherInit /\ [][PublisherNext]_publisherVars

\* The goroutines run.
PublisherFairSpec ==
  /\ PublisherSpec
  /\ WF_publisherVars(Main) /\ WF_publisherVars(Watch) /\ WF_publisherVars(SendAnswer)
-----------------------------------------------------------------------------
\* "on shutdown, send TTL=0 records to invalidate peer caches": after a caught
\* signal nothing of what was published is left in a cache, changes under way
\* included, but for answers sent after the last goodbye for their records.
GoodbyeFinal == main = "exited" => cache \subseteq late

\* "refreshes the advertised A/AAAA records whenever the selected link gains
\* or loses an address": a peer ends up believing what the interface has,
\* unless the watcher missed the last change or an outdated answer, or one
\* without the addresses the peer knew, came after it.
PeerFollowsInterface == []<>(cache \ late = iface \ late \/ missed \/ done \/ Over)

\* A signal ends the program, an update or its announcement under way or not.
SignalEnds == done ~> Over
=============================================================================
