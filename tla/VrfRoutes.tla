----------------------------- MODULE VrfRoutes -----------------------------
(***************************************************************************)
(* VRFRouteDiscoveryJob.run: a pool of threads, one per address, collects  *)
(* VRFs, routes and interface addresses over SNMP and SSH and creates VRFs,*)
(* prefixes and addresses in IPAM, one get_or_create after another and     *)
(* without a transaction.  What a box has in a VRF must end in the         *)
(* namespace of that VRF, because the same networks are used in several.   *)
(*                                                                         *)
(* A prefix length goes with its network and an address with the network   *)
(* of its interface, so both are members of Net.  Rows are taken in the    *)
(* order of their source; within one source the order is left open.        *)
(***************************************************************************)
EXTENDS Naturals, FiniteSets

CONSTANTS
  Host, Vrf, Net,
  Global,     \* the global routing table, and the namespace of that name
  NoVrf,      \* the tag None
  Foreign,    \* a tag that names no VRF
  Workers,    \* concurrency
  Networks,   \* what the boxes have: [Host -> Box]
  Outages,    \* the SNMP walks of a host that may fail together
  Forms       \* inputs of the job

Table == Vrf \cup {Global}

Platform == {"cisco", "comware", "junos", "nokia", "other"}

Box == [vrfs : SUBSET Vrf, routes : SUBSET (Net \X Table), ips : SUBSET (Net \X Table),
        platform : Platform]

(* A walk in the context of a VRF, or the one without a context (Global).  *)
Walk == {"vrfs", "routes", "ips"} \X Table

Form == [v3 : BOOLEAN,
         context : Table,   \* snmpv3_context_name, which may be that of a VRF
         ssh : BOOLEAN, dryrun : BOOLEAN, vrfs : BOOLEAN, prefixes : BOOLEAN]

Row == [net : Net, tag : Vrf \cup {NoVrf, Foreign}, rank : 0..3]

Tables == [vrfs : SUBSET Vrf, routes : SUBSET Row, ips : SUBSET Row]

(* IPAM of Nautobot: VRFs, prefixes and addresses with their namespace, and *)
(* which prefixes are assigned to which VRF.                               *)
Ipam == [vrfs : SUBSET Vrf, prefixes : SUBSET (Net \X Table),
         assigned : SUBSET (Vrf \X Net), addresses : SUBSET (Net \X Table)]

Nothing == [vrfs |-> {}, routes |-> {}, ips |-> {}]

Stage == {"queued", "vrfs", "routes", "ips", "raised", "scanned", "failed"}

ASSUME RoutesAssumption ==
  /\ Global \notin Vrf
  /\ {NoVrf, Foreign} \cap Vrf = {}
  /\ NoVrf # Foreign
  /\ Workers \in Nat \ {0}
  /\ Networks \subseteq [Host -> Box]
  /\ Outages \subseteq SUBSET Walk
  /\ Forms \subseteq Form
  /\ IsFiniteSet(Host)

VARIABLES
  form, box,
  stage,    \* of each thread
  data,     \* vrfs_data, routes_data and ip_data of each thread
  todo,     \* what is left of them
  vrfMap,   \* vrf_map: the VRFs of which the thread holds the object
  refused,  \* the VRFs that could not be made (history)
  seen,     \* seen_prefixes
  failing,  \* the networks whose get_or_create failed (history)
  ipam,
  totals,   \* scanned and failed
  run       \* "running", "completed"

threadVars == <<stage, data, todo, vrfMap, refused, seen, failing>>
vars == <<form, box, threadVars, ipam, totals, run>>

Init ==
  /\ form \in Forms
  /\ box \in Networks
  /\ stage = [h \in Host |-> "queued"]
  /\ data = [h \in Host |-> Nothing]
  /\ todo = [h \in Host |-> Nothing]
  /\ vrfMap = [h \in Host |-> {}]
  /\ refused = [h \in Host |-> {}]
  /\ seen = [h \in Host |-> {}]
  /\ failing = [h \in Host |-> {}]
  /\ ipam = [vrfs |-> {}, prefixes |-> {}, assigned |-> {}, addresses |-> {}]
  /\ totals = [scanned |-> 0, failed |-> 0]
  /\ run = "running"
---------------------------------------------------------------------------
(* Collection.                                                             *)

(* Mutant: the walk of a context is made in the default context.           *)
SnmpRowsNoContext(have, context) ==
  {[net |-> n, tag |-> IF context = Global THEN NoVrf ELSE context,
    rank |-> IF context = Global THEN 0 ELSE 1] :
     n \in {m \in Net : <<m, Global>> \in have}}

(* The table a walk shows; the one without a context of its own is made in *)
(* the context of the form, if it has one.                                 *)
Shown(context) == IF context = Global /\ form.v3 THEN form.context ELSE context

(* collect_routes and collect_ip_addresses: a walk in the context of a VRF *)
(* shows the table of the VRF and tags each row with it; the rows of the   *)
(* other walk have no tag, whatever the form's context is.                 *)
SnmpRows(have, context) ==
  {[net |-> n, tag |-> IF context = Global THEN NoVrf ELSE context,
    rank |-> IF context = Global THEN 0 ELSE 1] :
     n \in {m \in Net : <<m, Shown(context)>> \in have}}

(* collect_vrfs: the names, merged from three MIBs.                        *)
CollectedVrfs(b, down) == IF <<"vrfs", Global>> \in down THEN {} ELSE b.vrfs

(* discover_snmp_tables: a collector that fails loses its own rows only.   *)
(* Version 3 walks the contexts of the VRFs that were collected.           *)
SnmpTables(b, down) ==
  LET names == CollectedVrfs(b, down)
      contexts == {Global} \cup (IF form.v3 THEN names ELSE {})
      Walked(what) == UNION {SnmpRows(b[what], t) : t \in {c \in contexts : <<what, c>> \notin down}}
  IN [vrfs |-> names, routes |-> Walked("routes"), ips |-> Walked("ips")]

(* parse_ssh_routes takes the VRF from the command: "show route table      *)
(* X.inet.0" is tagged "X.inet.0", "show router route-table" is tagged     *)
(* "route-table".  (Each output is offered to several parsers; a line of a *)
(* table is in the format of one, and "routing-table" commands of Comware  *)
(* match no line of the Fortinet parser.)                                  *)
RouteTag(platform, table) ==
  IF table = Global THEN IF platform = "nokia" THEN Foreign ELSE NoVrf
                    ELSE IF platform = "junos" THEN Foreign ELSE table

(* Only the Cisco and Arista outputs join an interface to its VRF.         *)
IpTag(platform, table) ==
  IF table # Global /\ platform = "cisco" THEN table ELSE NoVrf

(* _ssh_collect_routes asks for the global table and, where the platform   *)
(* has a command for it, for the tables of the VRFs collected so far.      *)
SshRoutes(b, names) ==
  {[net |-> r[1], tag |-> RouteTag(b.platform, r[2]), rank |-> IF r[2] = Global THEN 2 ELSE 3] :
     r \in {q \in b.routes : q[2] = Global \/ (q[2] \in names /\ b.platform # "other")}}

SshIps(b) == {[net |-> r[1], tag |-> IpTag(b.platform, r[2]), rank |-> 2] : r \in b.ips}

(* The tables after an SSH session; the route session is one of its own    *)
(* and may fail alone.                                                     *)
WithSsh(tables, b, routed) ==
  LET names == tables.vrfs \cup b.vrfs
  IN [vrfs |-> names,
      routes |-> tables.routes \cup (IF routed THEN SshRoutes(b, names) ELSE {}),
      ips |-> tables.ips \cup SshIps(b)]

Enter(h, next) == stage' = [stage EXCEPT ![h] = next]

Add(what) == totals' = [totals EXCEPT ![what] = @ + 1]

(* A host nothing was read from has failed; a dry run stops here, having   *)
(* asked SNMP only.                                                        *)
Collected(h, tables, answered) ==
  IF ~answered THEN Enter(h, "failed") /\ Add("failed") /\ UNCHANGED <<data, todo>>
  ELSE /\ data' = [data EXCEPT ![h] = tables]
       /\ IF form.dryrun THEN Enter(h, "scanned") /\ Add("scanned") /\ UNCHANGED todo
          ELSE /\ Enter(h, "vrfs")
               /\ todo' = [todo EXCEPT ![h] = tables]
               /\ UNCHANGED totals

Busy == {h \in Host : stage[h] \in {"vrfs", "routes", "ips"}}

Collect(h) ==
  /\ stage[h] = "queued"
  /\ Cardinality(Busy) < Workers
  /\ \E down \in Outages, routed \in BOOLEAN, session \in BOOLEAN :
       LET snmp == SnmpTables(box[h], down)
           ssh == session /\ form.ssh /\ ~form.dryrun
       IN Collected(h, IF ssh THEN WithSsh(snmp, box[h], routed) ELSE snmp, ssh \/ snmp # Nothing)
  /\ UNCHANGED <<form, box, vrfMap, refused, seen, failing, ipam, run>>
---------------------------------------------------------------------------
(* Creation: _create_vrf_and_prefix_objects.                               *)

Without(h, what, row) == todo' = [todo EXCEPT ![h][what] = @ \ {row}]

First(rows) == {r \in rows : \A q \in rows : r.rank <= q.rank}

(* ensure_vrf: the VRF and its namespace, or None.                         *)
EnsureVrf(h, v) ==
  /\ stage[h] = "vrfs"
  /\ form.vrfs
  /\ v \in todo[h].vrfs
  /\ Without(h, "vrfs", v)
  /\ \/ /\ ipam' = [ipam EXCEPT !.vrfs = @ \cup {v}]
        /\ vrfMap' = [vrfMap EXCEPT ![h] = @ \cup {v}]
        /\ UNCHANGED refused
     \/ /\ refused' = [refused EXCEPT ![h] = @ \cup {v}]
        /\ UNCHANGED <<ipam, vrfMap>>
  /\ UNCHANGED <<form, box, stage, data, seen, failing, totals, run>>

VrfsDone(h) ==
  /\ stage[h] = "vrfs"
  /\ form.vrfs => todo[h].vrfs = {}
  /\ Enter(h, "routes")
  /\ UNCHANGED <<form, box, data, todo, vrfMap, refused, seen, failing, ipam, totals, run>>

(* Mutant: the tag is taken for the namespace.                             *)
NamespaceOfTag(h, tag) == IF tag = NoVrf THEN Global ELSE tag

(* A tag without an object means the default namespace.                    *)
NamespaceOf(h, tag) == IF tag \in vrfMap[h] THEN tag ELSE Global

(* ensure_parent_prefix: the prefix, then its assignment to the VRF.  It   *)
(* returns None where either of the two is refused.                        *)
PrefixOnly(ip, net, ns) == [ip EXCEPT !.prefixes = @ \cup {<<net, ns>>}]

Prefixed(ip, net, ns) ==
  [PrefixOnly(ip, net, ns) EXCEPT !.assigned = IF ns = Global THEN @ ELSE @ \cup {<<ns, net>>}]

(* Mutant: the loop over the routes ends at the first repetition.          *)
EnsureRouteUntilSeen(h, row) ==
  /\ stage[h] = "routes"
  /\ form.prefixes
  /\ row \in First(todo[h].routes)
  /\ todo' = [todo EXCEPT ![h].routes = IF row.net \in seen[h] THEN {} ELSE @ \ {row}]
  /\ seen' = [seen EXCEPT ![h] = @ \cup {row.net}]
  /\ ipam' = IF row.net \in seen[h] THEN ipam
             ELSE Prefixed(ipam, row.net, NamespaceOf(h, row.tag))
  /\ UNCHANGED <<form, box, stage, data, vrfMap, refused, failing, totals, run>>

(* The job looks at each network of a host once.                           *)
EnsureRoute(h, row) ==
  /\ stage[h] = "routes"
  /\ form.prefixes
  /\ row \in First(todo[h].routes)
  /\ Without(h, "routes", row)
  /\ seen' = [seen EXCEPT ![h] = @ \cup {row.net}]
  /\ IF row.net \in seen[h] THEN UNCHANGED <<ipam, failing>>
     ELSE LET ns == NamespaceOf(h, row.tag)
          IN \/ /\ ipam' = Prefixed(ipam, row.net, ns)
                /\ UNCHANGED failing
             \/ /\ failing' = [failing EXCEPT ![h] = @ \cup {row.net}]
                /\ ipam' \in {ipam, PrefixOnly(ipam, row.net, ns)}
  /\ UNCHANGED <<form, box, stage, data, vrfMap, refused, totals, run>>

RoutesDone(h) ==
  /\ stage[h] = "routes"
  /\ form.prefixes => todo[h].routes = {}
  /\ Enter(h, "ips")
  /\ UNCHANGED <<form, box, data, todo, vrfMap, refused, seen, failing, ipam, totals, run>>

(* The address is created whether or not its prefix was; Nautobot refuses  *)
(* one without a prefix in the namespace.                                  *)
EnsureIp(h, row) ==
  /\ stage[h] = "ips"
  /\ row \in First(todo[h].ips)
  /\ Without(h, "ips", row)
  /\ LET ns == NamespaceOf(h, row.tag)
     IN \E parent \in {ipam, PrefixOnly(ipam, row.net, ns), Prefixed(ipam, row.net, ns)} :
          \/ ipam' = parent
          \/ /\ <<row.net, ns>> \in parent.prefixes
             /\ ipam' = [parent EXCEPT !.addresses = @ \cup {<<row.net, ns>>}]
  /\ UNCHANGED <<form, box, stage, data, vrfMap, refused, seen, failing, totals, run>>

Scanned(h) ==
  /\ stage[h] = "ips"
  /\ todo[h].ips = {}
  /\ Enter(h, "scanned")
  /\ Add("scanned")
  /\ UNCHANGED <<form, box, data, todo, vrfMap, refused, seen, failing, ipam, run>>

(* The lookup of a status, or of the default namespace of an address, is   *)
(* outside the try of the helper that makes it.                            *)
MayRaise(h) ==
  \/ stage[h] = "vrfs" /\ form.vrfs /\ todo[h].vrfs # {}
  \/ stage[h] = "routes" /\ form.prefixes
       /\ \E row \in First(todo[h].routes) : row.net \notin seen[h]
  \/ stage[h] = "ips" /\ todo[h].ips # {}

(* Mutant: the thread counts the failure and re-raises it.                 *)
RaisesCounted(h) ==
  /\ MayRaise(h)
  /\ Enter(h, "raised")
  /\ Add("failed")
  /\ UNCHANGED <<form, box, data, todo, vrfMap, refused, seen, failing, ipam, run>>

(* The exception ends the thread, and waits in its future.                 *)
Raises(h) ==
  /\ MayRaise(h)
  /\ Enter(h, "raised")
  /\ UNCHANGED <<form, box, data, todo, vrfMap, refused, seen, failing, ipam, totals, run>>

(* The main thread asks each future for its result as the threads end, and *)
(* counts those that raised.                                               *)
FutureRaised(h) ==
  /\ stage[h] = "raised"
  /\ Enter(h, "failed")
  /\ Add("failed")
  /\ UNCHANGED <<form, box, data, todo, vrfMap, refused, seen, failing, ipam, run>>

Over == {"scanned", "failed"}

Complete ==
  /\ run = "running"
  /\ \A h \in Host : stage[h] \in Over
  /\ run' = "completed"
  /\ UNCHANGED <<form, box, threadVars, ipam, totals>>

Thread(h) ==
  \/ Collect(h) \/ VrfsDone(h) \/ RoutesDone(h) \/ Scanned(h) \/ Raises(h)
  \/ \E v \in todo[h].vrfs : EnsureVrf(h, v)
  \/ \E row \in todo[h].routes : EnsureRoute(h, row)
  \/ \E row \in todo[h].ips : EnsureIp(h, row)

Next == (\E h \in Host : Thread(h) \/ FutureRaised(h)) \/ Complete

Spec == Init /\ [][Next]_vars
---------------------------------------------------------------------------
RoutesTypeOK ==
  /\ form \in Forms /\ box \in Networks
  /\ stage \in [Host -> Stage]
  /\ data \in [Host -> Tables] /\ todo \in [Host -> Tables]
  /\ vrfMap \in [Host -> SUBSET Vrf] /\ refused \in [Host -> SUBSET Vrf]
  /\ seen \in [Host -> SUBSET Net] /\ failing \in [Host -> SUBSET Net]
  /\ ipam \in Ipam
  /\ totals \in [scanned : Nat, failed : Nat]
  /\ run \in {"running", "completed"}

(* VRFs do not leak into each other: what is in the namespace of a VRF,    *)
(* whichever host put it there and whatever failed on the way, is in that  *)
(* VRF on some box (the context tag of a walk, the VRF of a command and    *)
(* vrf_map).                                                               *)
VrfIsolation ==
  \A v \in Vrf, n \in Net :
    <<n, v>> \in ipam.prefixes \cup ipam.addresses
      => \E h \in Host : <<n, v>> \in box[h].routes \cup box[h].ips

(* The reports of a network that come first: the global SNMP walk, then the*)
(* walks of the VRFs, the global command and the commands of the VRFs.     *)
FirstReports(h, net) == First({row \in data[h].routes : row.net = net})

(* Where a report belongs: in the VRF it is tagged with, if VRFs are asked *)
(* for and this one was not refused; otherwise in the global table.        *)
BelongsTo(h, row) ==
  IF form.vrfs /\ row.tag \in Vrf \ refused[h] THEN row.tag ELSE Global

Stored(net, table) ==
  /\ <<net, table>> \in ipam.prefixes
  /\ table # Global => <<table, net>> \in ipam.assigned

(* Each network a scanned host reported is stored in the table it belongs  *)
(* to by one of its first reports, and assigned to its VRF, except where   *)
(* Nautobot refused it: neither seen_prefixes nor vrf_map loses it.        *)
(* It is one table only: the same network in a second VRF is not stored    *)
(* (ensure_vrf_namespace promises addresses of a VRF its own namespace),   *)
(* and a report whose tag names no VRF counts as one of the global table.  *)
FirstReportIsStored ==
  \A h \in Host :
    stage[h] = "scanned" /\ ~form.dryrun /\ form.prefixes
      => \A row \in data[h].routes :
           \/ row.net \in failing[h]
           \/ \E first \in FirstReports(h, row.net) : Stored(row.net, BelongsTo(h, first))

(* Every host is counted once, as scanned or as failed, though the threads *)
(* count both and the main thread counts the futures that raised; when the *)
(* job ends none is left out.                                              *)
HostsAccounted ==
  /\ totals.scanned = Cardinality({h \in Host : stage[h] = "scanned"})
  /\ totals.failed = Cardinality({h \in Host : stage[h] = "failed"})
  /\ run = "completed" => totals.scanned + totals.failed = Cardinality(Host)
=============================================================================
