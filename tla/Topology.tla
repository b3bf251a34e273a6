------------------------------ MODULE Topology ------------------------------
(***************************************************************************)
(* Which CPUs the workers of microdoh3 run on (main.rs): the list of the   *)
(* command line, the CPUs the interfaces steer their transmit queues to,   *)
(* or one CPU of each physical core.  The files of sysfs and procfs are    *)
(* given as what they hold.                                                *)
(***************************************************************************)
EXTENDS Integers, Sequences, FiniteSets, FiniteSetsExt

CONSTANT Unread     \* a file that cannot be read, an option not given

\* The elements of a set in order: at r is the one that r - 1 others come before.
Sorted(S, before(_, _)) ==
  [r \in 1..Cardinality(S) |-> CHOOSE x \in S : Cardinality({y \in S : before(y, x)}) = r - 1]

Ascending(S) == Sorted(S, LAMBDA a, b : a < b)

\* The first CPU of every core, by package and core; CPUs whose topology cannot
\* be read only count if no core is known.  An entry is [cpu, pkg, core].
physical_cores(entries, parallelism) ==
  LET known == {e \in entries : e.pkg # Unread /\ e.core # Unread}
      cores == {<<e.pkg, e.core>> : e \in known}
      before(c, d) == c[1] < d[1] \/ (c[1] = d[1] /\ c[2] < d[2])
      cpu(c) == Min({e.cpu : e \in {f \in known : <<f.pkg, f.core>> = c}})
      order == Sorted(cores, before)
  IN IF cores # {} THEN [i \in 1..Len(order) |-> cpu(order[i])]
     ELSE IF entries # {} THEN Ascending({e.cpu : e \in entries})
     ELSE [i \in 1..parallelism |-> i - 1]

\* A mask is written in groups of 32 bits, the highest first; each is the set
\* of its bits, or Unread if it is no number, and then still counts as a place.
parse_cpumask(groups) ==
  Ascending(UNION {{32 * (Len(groups) - g) + bit : bit \in groups[g]} :
                     g \in {h \in 1..Len(groups) : groups[h] # Unread}})

\* Mutant: a CPU that two queues share is listed twice.
Repeated(lists) == FoldFunction(\o, <<>>, lists)

\* A CPU is added unless it is there already; the result is sorted.
Merged(lists) == Ascending(UNION {Range(lists[i]) : i \in 1..Len(lists)})

\* The masks of the transmit queues of an interface.
xps_cpus_of(masks) == Merged([i \in 1..Len(masks) |-> parse_cpumask(masks[i])])

\* The first line whose third column is zero; a line with fewer than two ends
\* the search.  A line is the sequence of its columns.
default_route_iface(routes) ==
  LET stops == {i \in 1..Len(routes) : Len(routes[i]) < 2 \/ (Len(routes[i]) > 2 /\ routes[i][3] = 0)}
      line == routes[Min(stops)]
  IN IF stops = {} \/ Len(line) < 2 THEN Unread ELSE line[1]

\* queues[iface]: the masks of an interface, none if it has no queues.
xps_worker_cpus(ifaces, routes, queues) ==
  LET route == default_route_iface(routes)
      chosen == IF ifaces # <<>> THEN ifaces ELSE IF route = Unread THEN <<>> ELSE <<route>>
  IN Merged([i \in 1..Len(chosen) |-> xps_cpus_of(queues[chosen[i]])])

\* The CPUs of the workers, in order.  cli is [cpus, xps, ifaces, workers]; a
\* list of the command line is taken as it is and is not empty.
WorkerCpus(cli, entries, parallelism, routes, queues) ==
  LET from_xps == IF cli.xps THEN xps_worker_cpus(cli.ifaces, routes, queues) ELSE <<>>
      pool == IF from_xps = <<>> THEN physical_cores(entries, parallelism) ELSE from_xps
      n == IF cli.workers = 0 THEN Len(pool) ELSE Min({cli.workers, Len(pool)})
  IN IF cli.cpus # Unread THEN cli.cpus ELSE SubSeq(pool, 1, Max({n, 1}))
=============================================================================
