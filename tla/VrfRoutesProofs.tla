--------------------------- MODULE VrfRoutesProofs ---------------------------
(***************************************************************************)
(* Theorems of VrfRoutes, for any boxes, outages and forms.                *)
(***************************************************************************)
EXTENDS VrfRoutes, FiniteSetTheorems, TLAPS

(* Rows that carry the tag of a VRF were read from the table of that VRF.  *)
Faithful(rows, have) == \A row \in rows : row.tag \in Vrf => <<row.net, row.tag>> \in have

(* Tags name no VRFs but those of which the names were collected.          *)
Named(tables) == \A row \in tables.routes : row.tag \in Vrf => row.tag \in tables.vrfs

(* What a collection returns: rows of their type, with faithful tags.      *)
Sound(tables, b) ==
  /\ tables \in Tables
  /\ Faithful(tables.routes, b.routes)
  /\ Faithful(tables.ips, b.ips)
---------------------------------------------------------------------------
LEMMA SnmpRowsSound ==
  ASSUME NEW have \in SUBSET (Net \X Table), NEW context \in Table
  PROVE  /\ SnmpRows(have, context) \subseteq Row
         /\ Faithful(SnmpRows(have, context), have)
         /\ \A row \in SnmpRows(have, context) : row.tag \in Vrf => row.tag = context
<1> USE RoutesAssumption
<1>1. SUFFICES ASSUME NEW row \in SnmpRows(have, context)
               PROVE  /\ row \in Row
                      /\ row.tag \in Vrf => row.tag = context /\ <<row.net, row.tag>> \in have
  BY DEF Faithful
<1>2. PICK n \in Net : /\ <<n, Shown(context)>> \in have
                       /\ row = [net |-> n, tag |-> IF context = Global THEN NoVrf ELSE context,
                                 rank |-> IF context = Global THEN 0 ELSE 1]
  BY <1>1 DEF SnmpRows
<1>3. CASE context = Global
  BY <1>2, <1>3 DEF Row
<1>4. CASE context # Global
  BY <1>2, <1>4 DEF Row, Table, Shown
<1>. QED BY <1>3, <1>4

LEMMA SnmpTablesSound ==
  ASSUME NEW b \in Box, NEW down
  PROVE  Sound(SnmpTables(b, down), b) /\ Named(SnmpTables(b, down))
<1>. DEFINE names == CollectedVrfs(b, down)
            contexts == {Global} \cup (IF form.v3 THEN names ELSE {})
            routes == UNION {SnmpRows(b.routes, t) : t \in {c \in contexts : <<"routes", c>> \notin down}}
            ips == UNION {SnmpRows(b.ips, t) : t \in {c \in contexts : <<"ips", c>> \notin down}}
<1>1. names \subseteq Vrf /\ contexts \subseteq Table /\ contexts \subseteq {Global} \cup names
  BY DEF CollectedVrfs, Box, Table
<1>2. b.routes \in SUBSET (Net \X Table) /\ b.ips \in SUBSET (Net \X Table)
  BY DEF Box
<1>3. SnmpTables(b, down) = [vrfs |-> names, routes |-> routes, ips |-> ips]
  BY DEF SnmpTables
<1>. HIDE DEF names, contexts
<1>4. routes \subseteq Row /\ Faithful(routes, b.routes)
  <2>1. SUFFICES ASSUME NEW row \in routes
                 PROVE  row \in Row /\ (row.tag \in Vrf => <<row.net, row.tag>> \in b.routes)
    BY DEF Faithful
  <2>2. PICK t \in contexts : row \in SnmpRows(b.routes, t)
    OBVIOUS
  <2>. QED BY <2>2, <1>1, <1>2, SnmpRowsSound DEF Faithful
<1>5. ips \subseteq Row /\ Faithful(ips, b.ips)
  <2>1. SUFFICES ASSUME NEW row \in ips
                 PROVE  row \in Row /\ (row.tag \in Vrf => <<row.net, row.tag>> \in b.ips)
    BY DEF Faithful
  <2>2. PICK t \in contexts : row \in SnmpRows(b.ips, t)
    OBVIOUS
  <2>. QED BY <2>2, <1>1, <1>2, SnmpRowsSound DEF Faithful
<1>6. ASSUME NEW row \in routes, row.tag \in Vrf PROVE row.tag \in names
  <2>1. PICK t \in contexts : row \in SnmpRows(b.routes, t)
    OBVIOUS
  <2>2. row.tag = t
    BY <1>1, <1>2, <1>6, <2>1, SnmpRowsSound
  <2>. QED BY <1>1, <1>6, <2>2, RoutesAssumption
<1>. HIDE DEF routes, ips
<1>. QED BY <1>1, <1>3, <1>4, <1>5, <1>6 DEF Sound, Tables, Named

LEMMA SshRoutesSound ==
  ASSUME NEW b \in Box, NEW names \in SUBSET Vrf
  PROVE  /\ SshRoutes(b, names) \subseteq Row
         /\ Faithful(SshRoutes(b, names), b.routes)
         /\ \A row \in SshRoutes(b, names) : row.tag \in Vrf => row.tag \in names
<1> USE RoutesAssumption
<1>1. SUFFICES ASSUME NEW row \in SshRoutes(b, names)
               PROVE  /\ row \in Row
                      /\ row.tag \in Vrf => row.tag \in names /\ <<row.net, row.tag>> \in b.routes
  BY DEF Faithful
<1>2. PICK r \in b.routes :
        /\ r[2] = Global \/ r[2] \in names
        /\ row = [net |-> r[1], tag |-> RouteTag(b.platform, r[2]),
                  rank |-> IF r[2] = Global THEN 2 ELSE 3]
  BY <1>1 DEF SshRoutes
<1>3. r \in Net \X Table
  BY DEF Box
<1>4. RouteTag(b.platform, r[2]) \in Vrf \cup {NoVrf, Foreign}
  BY <1>3 DEF RouteTag, Table
<1>5. RouteTag(b.platform, r[2]) \in Vrf => RouteTag(b.platform, r[2]) = r[2]
  BY <1>3 DEF RouteTag, Table
<1>6. r = <<r[1], r[2]>>
  BY <1>3
<1>. QED BY <1>2, <1>3, <1>4, <1>5, <1>6 DEF Row

LEMMA SshIpsSound ==
  ASSUME NEW b \in Box
  PROVE  SshIps(b) \subseteq Row /\ Faithful(SshIps(b), b.ips)
<1> USE RoutesAssumption
<1>1. SUFFICES ASSUME NEW row \in SshIps(b)
               PROVE  row \in Row /\ (row.tag \in Vrf => <<row.net, row.tag>> \in b.ips)
  BY DEF Faithful
<1>2. PICK r \in b.ips : row = [net |-> r[1], tag |-> IpTag(b.platform, r[2]), rank |-> 2]
  BY <1>1 DEF SshIps
<1>3. r \in Net \X Table /\ r = <<r[1], r[2]>>
  BY DEF Box
<1>4. /\ IpTag(b.platform, r[2]) \in Vrf \cup {NoVrf, Foreign}
      /\ IpTag(b.platform, r[2]) \in Vrf => IpTag(b.platform, r[2]) = r[2]
  BY <1>3 DEF IpTag, Table
<1>. QED BY <1>2, <1>3, <1>4 DEF Row

(* A collection, over SNMP alone or over both, is sound.                   *)
LEMMA WithSshSound ==
  ASSUME NEW b \in Box, NEW tables, Sound(tables, b), Named(tables), NEW routed \in BOOLEAN
  PROVE  Sound(WithSsh(tables, b, routed), b) /\ Named(WithSsh(tables, b, routed))
<1>. DEFINE names == tables.vrfs \cup b.vrfs
            more == IF routed THEN SshRoutes(b, names) ELSE {}
<1>1. names \in SUBSET Vrf /\ tables.vrfs \subseteq names
  BY DEF Sound, Tables, Box
<1>2. WithSsh(tables, b, routed) =
        [vrfs |-> names, routes |-> tables.routes \cup more, ips |-> tables.ips \cup SshIps(b)]
  BY DEF WithSsh
<1>. HIDE DEF names
<1>3. /\ more \subseteq Row /\ Faithful(more, b.routes)
      /\ \A row \in more : row.tag \in Vrf => row.tag \in names
  BY <1>1, SshRoutesSound DEF Faithful
<1>. HIDE DEF more
<1>4. SshIps(b) \subseteq Row /\ Faithful(SshIps(b), b.ips)
  BY SshIpsSound
<1>5. /\ tables.routes \cup more \subseteq Row
      /\ tables.ips \cup SshIps(b) \subseteq Row
  BY <1>3, <1>4 DEF Sound, Tables
<1>6. /\ Faithful(tables.routes \cup more, b.routes)
      /\ Faithful(tables.ips \cup SshIps(b), b.ips)
  BY <1>3, <1>4 DEF Sound, Faithful
<1>7. Named(WithSsh(tables, b, routed))
  BY <1>1, <1>2, <1>3 DEF Named
<1>. QED BY <1>1, <1>2, <1>5, <1>6, <1>7 DEF Sound, Tables
---------------------------------------------------------------------------
(* What is in hand and what is stored carries the tag of a VRF that has it. *)
Isolated ==
  /\ \A h \in Host :
       /\ Sound(data[h], box[h]) /\ Named(data[h])
       /\ Sound(todo[h], box[h])
       /\ todo[h].routes \subseteq data[h].routes
       /\ stage[h] = "queued" => todo[h] = Nothing
  /\ VrfIsolation

RoutesInv == RoutesTypeOK /\ Isolated

(* The namespace of a tag is that of the tag's VRF, or the default one.    *)
LEMMA NamespaceType ==
  ASSUME RoutesTypeOK, NEW h \in Host, NEW tag
  PROVE  /\ NamespaceOf(h, tag) \in Table
         /\ NamespaceOf(h, tag) \in Vrf => NamespaceOf(h, tag) = tag
BY RoutesAssumption DEF RoutesTypeOK, NamespaceOf, Table

LEMMA InitKeeps == Init => RoutesInv
<1> SUFFICES ASSUME Init PROVE RoutesInv
  OBVIOUS
<1>1. Nothing \in Tables
  BY DEF Nothing, Tables
<1>2. RoutesTypeOK
  BY <1>1, RoutesAssumption DEF Init, RoutesTypeOK, Ipam, Stage
<1>3. Isolated
  BY <1>1 DEF Init, Isolated, Sound, Faithful, Named, Nothing, VrfIsolation
<1>. QED BY <1>2, <1>3 DEF RoutesInv

LEMMA CollectKeeps ==
  ASSUME RoutesInv, NEW h \in Host, Collect(h)
  PROVE  RoutesInv'
<1> USE DEF RoutesInv
<1>1. PICK down \in Outages, routed \in BOOLEAN, session \in BOOLEAN :
        LET snmp == SnmpTables(box[h], down)
            ssh == session /\ form.ssh /\ ~form.dryrun
        IN Collected(h, IF ssh THEN WithSsh(snmp, box[h], routed) ELSE snmp, ssh \/ snmp # Nothing)
  BY DEF Collect
<1>. DEFINE snmp == SnmpTables(box[h], down)
            ssh == session /\ form.ssh /\ ~form.dryrun
            tables == IF ssh THEN WithSsh(snmp, box[h], routed) ELSE snmp
            answered == ssh \/ snmp # Nothing
<1>2. Collected(h, tables, answered)
  BY <1>1
<1>3. box[h] \in Box
  BY RoutesAssumption DEF RoutesTypeOK
<1>4. Sound(snmp, box[h]) /\ Named(snmp)
  BY <1>3, SnmpTablesSound
<1>5. Sound(tables, box[h]) /\ Named(tables)
  <2>. HIDE DEF snmp
  <2>. QED BY <1>3, <1>4, WithSshSound
<1>. HIDE DEF tables, answered
<1>6. UNCHANGED <<form, box, vrfMap, refused, seen, failing, ipam, run>>
  BY DEF Collect
<1>7. /\ data' \in [Host -> Tables] /\ todo' \in [Host -> Tables]
      /\ stage' \in [Host -> Stage]
      /\ totals' \in [scanned : Nat, failed : Nat]
  BY <1>2, <1>5 DEF RoutesTypeOK, Stage, Sound, Collected, Enter, Add
<1>8. RoutesTypeOK'
  BY <1>6, <1>7 DEF RoutesTypeOK
<1>9. stage[h] = "queued" /\ todo[h] = Nothing
  BY DEF Collect, Isolated
<1>10. ASSUME NEW g \in Host
       PROVE  /\ Sound(data'[g], box[g]) /\ Named(data'[g])
              /\ Sound(todo'[g], box[g])
              /\ todo'[g].routes \subseteq data'[g].routes
              /\ stage'[g] = "queued" => todo'[g] = Nothing
  <2>1. CASE g # h
    BY <1>2, <2>1 DEF Collected, Enter, Isolated, RoutesTypeOK
  <2>2. CASE g = h /\ ~answered
    BY <1>2, <2>2 DEF Collected, Enter, Isolated, RoutesTypeOK
  <2>3. CASE g = h /\ answered /\ form.dryrun
    <3>1. data'[h] = tables /\ todo'[h] = Nothing /\ stage'[h] = "scanned"
      BY <1>2, <1>9, <2>3 DEF Collected, Enter, RoutesTypeOK
    <3>. QED BY <1>5, <1>9, <2>3, <3>1 DEF Isolated, Nothing
  <2>4. CASE g = h /\ answered /\ ~form.dryrun
    <3>1. data'[h] = tables /\ todo'[h] = tables /\ stage'[h] = "vrfs"
      BY <1>2, <2>4 DEF Collected, Enter, RoutesTypeOK
    <3>. QED BY <1>5, <2>4, <3>1
  <2>. QED BY <2>1, <2>2, <2>3, <2>4
<1>11. Isolated'
  BY <1>6, <1>10 DEF Isolated, VrfIsolation
<1>. QED BY <1>8, <1>11

(* Creation leaves boxes and what was collected alone and works off what   *)
(* is left of it.                                                          *)
WorksOff ==
  /\ UNCHANGED <<form, box, data>>
  /\ todo' \in [Host -> Tables]
  /\ \A h \in Host :
       /\ todo'[h].routes \subseteq todo[h].routes
       /\ todo'[h].ips \subseteq todo[h].ips
       /\ stage'[h] = "queued" => stage[h] = "queued" /\ todo'[h] = todo[h]

LEMMA WorkingOff ==
  ASSUME RoutesInv, WorksOff, VrfIsolation'
  PROVE  Isolated'
<1>1. ASSUME NEW h \in Host
      PROVE  /\ Sound(data[h], box[h]) /\ Named(data[h])
             /\ Sound(todo'[h], box[h])
             /\ todo'[h].routes \subseteq data[h].routes
             /\ stage'[h] = "queued" => todo'[h] = Nothing
  <2>1. todo'[h] \in Tables
    BY DEF WorksOff
  <2>. QED BY <2>1 DEF RoutesInv, Isolated, WorksOff, Sound, Faithful
<1>. QED BY <1>1 DEF WorksOff, Isolated

Lessened(h) ==
  /\ todo' \in [Host -> Tables]
  /\ \A g \in Host : /\ g # h => todo'[g] = todo[g]
                     /\ todo'[g].routes \subseteq todo[g].routes
                     /\ todo'[g].ips \subseteq todo[g].ips

LEMMA TakingARow ==
  ASSUME todo \in [Host -> Tables], NEW h \in Host, NEW row,
         NEW what \in {"vrfs", "routes", "ips"}, Without(h, what, row)
  PROVE  Lessened(h)
<1>. DEFINE t == [todo[h] EXCEPT ![what] = @ \ {row}]
<1>1. todo' = [todo EXCEPT ![h] = t]
  BY DEF Without
<1>2. t \in Tables /\ t.routes \subseteq todo[h].routes /\ t.ips \subseteq todo[h].ips
  <2>1. todo[h] \in Tables
    OBVIOUS
  <2>2. CASE what = "vrfs"
    BY <2>1, <2>2 DEF Tables
  <2>3. CASE what = "routes"
    BY <2>1, <2>3 DEF Tables
  <2>4. CASE what = "ips"
    BY <2>1, <2>4 DEF Tables
  <2>. QED BY <2>2, <2>3, <2>4
<1>. HIDE DEF t
<1>. QED BY <1>1, <1>2 DEF Lessened

LEMMA EnsureVrfKeeps ==
  ASSUME RoutesInv, NEW h \in Host, NEW v \in todo[h].vrfs, EnsureVrf(h, v)
  PROVE  RoutesInv'
<1> USE DEF RoutesInv
<1>1. v \in Vrf
  BY DEF RoutesTypeOK, Tables
<1>2. Lessened(h)
  BY TakingARow DEF EnsureVrf, RoutesTypeOK
<1>3. WorksOff
  BY <1>2 DEF EnsureVrf, Lessened, WorksOff
<1>4. /\ ipam' \in Ipam
      /\ ipam'.prefixes = ipam.prefixes /\ ipam'.addresses = ipam.addresses
      /\ vrfMap' \in [Host -> SUBSET Vrf] /\ refused' \in [Host -> SUBSET Vrf]
  BY <1>1 DEF EnsureVrf, RoutesTypeOK, Ipam
<1>5. RoutesTypeOK'
  BY <1>2, <1>4 DEF EnsureVrf, Lessened, RoutesTypeOK
<1>6. VrfIsolation'
  BY <1>3, <1>4 DEF WorksOff, Isolated, VrfIsolation
<1>. QED BY <1>3, <1>5, <1>6, WorkingOff

LEMMA EnterKeeps ==
  ASSUME RoutesInv, NEW h \in Host,
         VrfsDone(h) \/ RoutesDone(h) \/ Scanned(h) \/ Raises(h) \/ FutureRaised(h)
  PROVE  RoutesInv'
<1> USE DEF RoutesInv
<1>1. /\ UNCHANGED <<form, box, data, todo, vrfMap, refused, seen, failing, ipam, run>>
      /\ \E next \in Stage \ {"queued"} : stage' = [stage EXCEPT ![h] = next]
      /\ totals' \in [scanned : Nat, failed : Nat]
  BY DEF VrfsDone, RoutesDone, Scanned, Raises, FutureRaised, Enter, Add, Stage, RoutesTypeOK
<1>2. RoutesTypeOK'
  BY <1>1 DEF RoutesTypeOK
<1>3. WorksOff
  BY <1>1 DEF WorksOff, RoutesTypeOK
<1>4. VrfIsolation'
  BY <1>1 DEF Isolated, VrfIsolation
<1>. QED BY <1>2, <1>3, <1>4, WorkingOff

(* A row that is stored under its namespace keeps VRFs apart.              *)
LEMMA StoringIsolates ==
  ASSUME RoutesInv, NEW h \in Host, NEW row \in todo[h].routes \cup todo[h].ips,
         UNCHANGED box,
         ipam'.prefixes \cup ipam'.addresses
           \subseteq ipam.prefixes \cup ipam.addresses \cup {<<row.net, NamespaceOf(h, row.tag)>>}
  PROVE  VrfIsolation'
<1> USE DEF RoutesInv
<1>1. SUFFICES ASSUME NEW v \in Vrf, NEW n \in Net,
                      <<n, v>> \in ipam'.prefixes \cup ipam'.addresses
               PROVE  \E g \in Host : <<n, v>> \in box[g].routes \cup box[g].ips
  BY DEF VrfIsolation
<1>2. CASE <<n, v>> \in ipam.prefixes \cup ipam.addresses
  BY <1>2 DEF Isolated, VrfIsolation
<1>3. CASE <<n, v>> = <<row.net, NamespaceOf(h, row.tag)>>
  <2>1. n = row.net /\ v = row.tag
    BY <1>3, NamespaceType
  <2>2. Faithful(todo[h].routes, box[h].routes) /\ Faithful(todo[h].ips, box[h].ips)
    BY DEF Isolated, Sound
  <2>3. <<n, v>> \in box[h].routes \cup box[h].ips
    BY <2>1, <2>2 DEF Faithful
  <2>. QED BY <2>3
<1>. QED BY <1>1, <1>2, <1>3

LEMMA StoredType ==
  ASSUME RoutesTypeOK, NEW net \in Net, NEW ns \in Table
  PROVE  /\ PrefixOnly(ipam, net, ns) \in Ipam
         /\ Prefixed(ipam, net, ns) \in Ipam
         /\ PrefixOnly(ipam, net, ns).prefixes = ipam.prefixes \cup {<<net, ns>>}
         /\ Prefixed(ipam, net, ns).prefixes = ipam.prefixes \cup {<<net, ns>>}
         /\ PrefixOnly(ipam, net, ns).addresses = ipam.addresses
         /\ Prefixed(ipam, net, ns).addresses = ipam.addresses
<1>. DEFINE only == PrefixOnly(ipam, net, ns)
            more == IF ns = Global THEN only.assigned ELSE only.assigned \cup {<<ns, net>>}
<1>1. ipam \in Ipam
  BY DEF RoutesTypeOK
<1>2. /\ only \in Ipam
      /\ only.prefixes = ipam.prefixes \cup {<<net, ns>>}
      /\ only.addresses = ipam.addresses
  BY <1>1 DEF PrefixOnly, Ipam
<1>3. more \in SUBSET (Vrf \X Net)
  BY <1>2 DEF Ipam, Table
<1>4. Prefixed(ipam, net, ns) = [only EXCEPT !.assigned = more]
  BY DEF Prefixed
<1>. HIDE DEF only, more
<1>5. /\ Prefixed(ipam, net, ns) \in Ipam
      /\ Prefixed(ipam, net, ns).prefixes = only.prefixes
      /\ Prefixed(ipam, net, ns).addresses = only.addresses
  BY <1>2, <1>3, <1>4 DEF Ipam
<1>. QED BY <1>2, <1>5 DEF only

LEMMA StoredAssigned ==
  ASSUME RoutesTypeOK, NEW net \in Net, NEW ns \in Table
  PROVE  /\ ipam.assigned \subseteq PrefixOnly(ipam, net, ns).assigned
         /\ ipam.assigned \subseteq Prefixed(ipam, net, ns).assigned
         /\ ns # Global => <<ns, net>> \in Prefixed(ipam, net, ns).assigned
BY DEF RoutesTypeOK, PrefixOnly, Prefixed, Ipam

LEMMA EnsureRouteKeeps ==
  ASSUME RoutesInv, NEW h \in Host, NEW row \in todo[h].routes, EnsureRoute(h, row)
  PROVE  RoutesInv'
<1> USE DEF RoutesInv
<1>. DEFINE ns == NamespaceOf(h, row.tag)
<1>1. row.net \in Net /\ ns \in Table
  BY NamespaceType DEF RoutesTypeOK, Tables, Row
<1>2. Lessened(h)
  BY TakingARow DEF EnsureRoute, RoutesTypeOK
<1>3. WorksOff
  BY <1>2 DEF EnsureRoute, Lessened, WorksOff
<1>4. ipam' \in {ipam, PrefixOnly(ipam, row.net, ns), Prefixed(ipam, row.net, ns)}
  BY DEF EnsureRoute
<1>. HIDE DEF ns
<1>5. /\ ipam' \in Ipam
      /\ ipam'.prefixes \cup ipam'.addresses
           \subseteq ipam.prefixes \cup ipam.addresses \cup {<<row.net, ns>>}
  BY <1>1, <1>4, StoredType DEF RoutesTypeOK
<1>6. seen' \in [Host -> SUBSET Net] /\ failing' \in [Host -> SUBSET Net]
  BY <1>1 DEF EnsureRoute, RoutesTypeOK
<1>7. RoutesTypeOK'
  BY <1>2, <1>5, <1>6 DEF EnsureRoute, Lessened, RoutesTypeOK
<1>8. VrfIsolation'
  BY <1>3, <1>5, StoringIsolates DEF WorksOff, ns
<1>. QED BY <1>3, <1>7, <1>8, WorkingOff

LEMMA EnsureIpKeeps ==
  ASSUME RoutesInv, NEW h \in Host, NEW row \in todo[h].ips, EnsureIp(h, row)
  PROVE  RoutesInv'
<1> USE DEF RoutesInv
<1>. DEFINE ns == NamespaceOf(h, row.tag)
            parents == {ipam, PrefixOnly(ipam, row.net, ns), Prefixed(ipam, row.net, ns)}
<1>1. row.net \in Net /\ ns \in Table
  BY NamespaceType DEF RoutesTypeOK, Tables, Row
<1>2. Lessened(h)
  BY TakingARow DEF EnsureIp, RoutesTypeOK
<1>3. WorksOff
  BY <1>2 DEF EnsureIp, Lessened, WorksOff
<1>4. PICK parent \in parents :
        \/ ipam' = parent
        \/ ipam' = [parent EXCEPT !.addresses = @ \cup {<<row.net, ns>>}]
  BY DEF EnsureIp
<1>. HIDE DEF ns
<1>5. /\ parent \in Ipam
      /\ parent.prefixes \subseteq ipam.prefixes \cup {<<row.net, ns>>}
      /\ parent.addresses = ipam.addresses
  BY <1>1, StoredType DEF RoutesTypeOK
<1>. HIDE DEF parents
<1>6. /\ ipam' \in Ipam
      /\ ipam'.prefixes \cup ipam'.addresses
           \subseteq ipam.prefixes \cup ipam.addresses \cup {<<row.net, ns>>}
  BY <1>1, <1>4, <1>5 DEF Ipam
<1>7. RoutesTypeOK'
  BY <1>2, <1>6 DEF EnsureIp, Lessened, RoutesTypeOK
<1>8. VrfIsolation'
  BY <1>3, <1>6, StoringIsolates DEF WorksOff, ns
<1>. QED BY <1>3, <1>7, <1>8, WorkingOff

LEMMA NextKeeps == RoutesInv /\ [Next]_vars => RoutesInv'
<1> SUFFICES ASSUME RoutesInv, [Next]_vars PROVE RoutesInv'
  OBVIOUS
<1>1. CASE UNCHANGED vars
  BY <1>1 DEF RoutesInv, RoutesTypeOK, Isolated, VrfIsolation, vars, threadVars
<1>2. CASE Complete
  BY <1>2 DEF RoutesInv, RoutesTypeOK, Isolated, VrfIsolation, Complete, threadVars
<1>3. ASSUME NEW h \in Host, Thread(h) \/ FutureRaised(h) PROVE RoutesInv'
  BY <1>3, CollectKeeps, EnsureVrfKeeps, EnterKeeps, EnsureRouteKeeps, EnsureIpKeeps DEF Thread
<1>. QED BY <1>1, <1>2, <1>3 DEF Next

(* The invariant: types, rows that are tagged as they were read, and stored *)
(* networks that some box has in their VRF.                                *)
THEOREM RoutesInvariant == Spec => []RoutesInv
<1>. QED BY InitKeeps, NextKeeps, PTL DEF Spec

(* Every variable of the VRF route job keeps its type.                     *)
THEOREM RoutesTypeCorrect == Spec => []RoutesTypeOK
<1>1. RoutesInv => RoutesTypeOK
  BY DEF RoutesInv
<1>. QED BY <1>1, RoutesInvariant, PTL

(* VRFs do not leak into each other, for any number of boxes, VRFs and     *)
(* threads and whatever fails: what is in the namespace of a VRF is in that*)
(* VRF on some box.                                                        *)
THEOREM VrfsAreIsolated == Spec => []VrfIsolation
<1>1. RoutesInv => VrfIsolation
  BY DEF RoutesInv, Isolated
<1>. QED BY <1>1, RoutesInvariant, PTL
---------------------------------------------------------------------------
(* How far a thread has come.  It has the objects of some of its VRFs, was  *)
(* refused others, and the rest is still to come; from the routes on none  *)
(* is, so that namespaces do not change any more.  A row it collected is   *)
(* still to come or its network was seen, and a network that was seen is   *)
(* stored or was refused.                                                  *)
Settled(h) ==
  /\ vrfMap[h] \cap refused[h] = {}
  /\ todo[h].vrfs \cap (vrfMap[h] \cup refused[h]) = {}
  /\ ~form.vrfs => vrfMap[h] = {}
  /\ stage[h] = "queued" => vrfMap[h] = {} /\ refused[h] = {}
  /\ stage[h] = "vrfs" => data[h].vrfs \subseteq todo[h].vrfs \cup vrfMap[h] \cup refused[h]
  /\ stage[h] = "routes" /\ form.vrfs => data[h].vrfs \subseteq vrfMap[h] \cup refused[h]

StoredOrRefused(h, net) ==
  \/ net \in failing[h]
  \/ \E first \in FirstReports(h, net) : Stored(net, BelongsTo(h, first))

Pursued(h) ==
  /\ stage[h] \in {"queued", "vrfs"} => seen[h] = {}
  /\ stage[h] \in {"vrfs", "routes", "ips"} \/ (stage[h] = "scanned" /\ ~form.dryrun) =>
       \A row \in data[h].routes : row \in todo[h].routes \/ row.net \in seen[h]
  /\ stage[h] \in {"ips", "scanned"} /\ ~form.dryrun /\ form.prefixes => todo[h].routes = {}
  /\ \A net \in seen[h] : StoredOrRefused(h, net)

NetworksInv == RoutesInv /\ \A h \in Host : Settled(h) /\ Pursued(h)

(* The namespace of the code is the table a row belongs to: a tag without   *)
(* an object is that of a VRF that was refused, or names none.             *)
LEMMA NamespaceOfReport ==
  ASSUME RoutesInv, NEW h \in Host, Settled(h), stage[h] = "routes", NEW row \in data[h].routes
  PROVE  NamespaceOf(h, row.tag) = BelongsTo(h, row)
<1>1. CASE row.tag \in vrfMap[h]
  <2>1. row.tag \in Vrf /\ row.tag \notin refused[h] /\ form.vrfs
    BY <1>1 DEF Settled, RoutesInv, RoutesTypeOK
  <2>. QED BY <1>1, <2>1 DEF NamespaceOf, BelongsTo
<1>2. CASE row.tag \notin vrfMap[h]
  <2>1. ~(form.vrfs /\ row.tag \in Vrf \ refused[h])
    <3>1. row.tag \in Vrf => row.tag \in data[h].vrfs
      BY DEF RoutesInv, Isolated, Named
    <3>. QED BY <1>2, <3>1 DEF Settled
  <2>. QED BY <1>2, <2>1 DEF NamespaceOf, BelongsTo
<1>. QED BY <1>1, <1>2

(* Steps that only add prefixes, and change nothing else that is spoken of.*)
LEMMA PursuitStays ==
  ASSUME NEW h \in Host, Pursued(h),
         stage'[h] = stage[h], todo'[h].routes = todo[h].routes, seen'[h] = seen[h],
         failing'[h] = failing[h], data'[h] = data[h], form' = form,
         refused'[h] = refused[h] \/ seen[h] = {},
         ipam.prefixes \subseteq ipam'.prefixes, ipam.assigned \subseteq ipam'.assigned
  PROVE  Pursued(h)'
<1>1. ASSUME NEW net \in seen[h] PROVE StoredOrRefused(h, net)'
  <2>1. StoredOrRefused(h, net) /\ refused'[h] = refused[h]
    BY <1>1 DEF Pursued
  <2>. QED BY <2>1 DEF StoredOrRefused, FirstReports, BelongsTo, Stored
<1>. QED BY <1>1 DEF Pursued

LEMMA SettledStays ==
  ASSUME NEW h \in Host, Settled(h), stage'[h] = stage[h], todo'[h].vrfs = todo[h].vrfs,
         data'[h] = data[h], form' = form, vrfMap'[h] = vrfMap[h], refused'[h] = refused[h]
  PROVE  Settled(h)'
BY DEF Settled

LEMMA CollectPursues ==
  ASSUME RoutesInv, NEW h \in Host, Settled(h), Pursued(h), Collect(h)
  PROVE  Settled(h)' /\ Pursued(h)'
<1>1. PICK tables, answered : Collected(h, tables, answered)
  BY DEF Collect
<1>2. seen[h] = {} /\ UNCHANGED <<form, seen, vrfMap, refused>> /\ stage[h] = "queued"
  BY DEF Collect, Pursued
<1>3. /\ stage \in [Host -> Stage] /\ data \in [Host -> Tables] /\ todo \in [Host -> Tables]
      /\ todo[h] = Nothing
  BY <1>2 DEF RoutesInv, RoutesTypeOK, Isolated
<1>4. vrfMap[h] = {} /\ refused[h] = {}
  BY <1>2 DEF Settled
<1>5. CASE stage'[h] = "failed"
  BY <1>2, <1>4, <1>5 DEF Pursued, Settled
<1>6. CASE stage'[h] = "scanned" /\ form.dryrun
  BY <1>2, <1>4, <1>6 DEF Pursued, Settled
<1>7. CASE stage'[h] = "vrfs" /\ data'[h] = tables /\ todo'[h] = tables
  BY <1>2, <1>4, <1>7 DEF Pursued, Settled
<1>. QED BY <1>1, <1>3, <1>5, <1>6, <1>7 DEF Collected, Enter

LEMMA EnsureVrfPursues ==
  ASSUME RoutesInv, NEW h \in Host, Settled(h), Pursued(h), NEW v \in todo[h].vrfs, EnsureVrf(h, v)
  PROVE  Settled(h)' /\ Pursued(h)'
<1>1. seen[h] = {} /\ stage[h] = "vrfs" /\ form.vrfs /\ UNCHANGED <<form, stage, data, seen, failing>>
  BY DEF EnsureVrf, Pursued
<1>2. todo'[h].routes = todo[h].routes /\ todo'[h].vrfs = todo[h].vrfs \ {v}
  BY DEF EnsureVrf, Without, RoutesInv, RoutesTypeOK, Tables
<1>3. ipam \in Ipam
  BY DEF RoutesInv, RoutesTypeOK
<1>4. ipam.prefixes \subseteq ipam'.prefixes /\ ipam.assigned \subseteq ipam'.assigned
  BY <1>3 DEF EnsureVrf, Ipam
<1>5. \/ vrfMap'[h] = vrfMap[h] \cup {v} /\ refused'[h] = refused[h]
      \/ refused'[h] = refused[h] \cup {v} /\ vrfMap'[h] = vrfMap[h]
  BY DEF EnsureVrf, RoutesInv, RoutesTypeOK
<1>6. Settled(h)'
  BY <1>1, <1>2, <1>5 DEF Settled
<1>. QED BY <1>1, <1>2, <1>4, <1>6, PursuitStays

LEMMA EnterPursues ==
  ASSUME RoutesInv, NEW h \in Host, Settled(h), Pursued(h),
         VrfsDone(h) \/ RoutesDone(h) \/ Scanned(h) \/ Raises(h) \/ FutureRaised(h)
  PROVE  Settled(h)' /\ Pursued(h)'
<1>1. UNCHANGED <<form, data, todo, vrfMap, refused, seen, failing, ipam>>
  BY DEF VrfsDone, RoutesDone, Scanned, Raises, FutureRaised
<1>2. \A net : StoredOrRefused(h, net)' <=> StoredOrRefused(h, net)
  BY <1>1 DEF StoredOrRefused, FirstReports, BelongsTo, Stored
<1>3. stage \in [Host -> Stage]
  BY DEF RoutesInv, RoutesTypeOK
<1>4. \/ stage[h] = "vrfs" /\ stage'[h] = "routes" /\ (form.vrfs => todo[h].vrfs = {})
      \/ stage[h] = "routes" /\ stage'[h] = "ips" /\ (form.prefixes => todo[h].routes = {})
      \/ stage[h] = "ips" /\ stage'[h] = "scanned"
      \/ stage'[h] \in {"raised", "failed"}
  BY <1>3 DEF VrfsDone, RoutesDone, Scanned, Raises, FutureRaised, Enter
<1>5. Settled(h)'
  BY <1>1, <1>4 DEF Settled
<1>. QED BY <1>1, <1>2, <1>4, <1>5 DEF Pursued

LEMMA EnsureRoutePursues ==
  ASSUME RoutesInv, NEW h \in Host, Settled(h), Pursued(h), NEW row \in todo[h].routes,
         EnsureRoute(h, row)
  PROVE  Settled(h)' /\ Pursued(h)'
<1>. DEFINE ns == NamespaceOf(h, row.tag)
<1>1. /\ stage[h] = "routes" /\ UNCHANGED <<form, data, stage, vrfMap, refused>>
      /\ row \in data[h].routes /\ row \in First(todo[h].routes)
  BY DEF EnsureRoute, RoutesInv, Isolated
<1>2. row.net \in Net /\ ns \in Table
  BY NamespaceType DEF RoutesInv, RoutesTypeOK, Tables, Row
<1>3. /\ todo'[h].routes = todo[h].routes \ {row} /\ todo'[h].vrfs = todo[h].vrfs
      /\ seen'[h] = seen[h] \cup {row.net}
  BY DEF EnsureRoute, Without, RoutesInv, RoutesTypeOK, Tables
<1>4. /\ ipam.prefixes \subseteq ipam'.prefixes /\ ipam.assigned \subseteq ipam'.assigned
      /\ failing[h] \subseteq failing'[h]
      /\ row.net \notin seen[h] =>
           \/ row.net \in failing'[h]
           \/ /\ <<row.net, ns>> \in ipam'.prefixes
              /\ ns # Global => <<ns, row.net>> \in ipam'.assigned
  <2>1. CASE row.net \in seen[h]
    BY <2>1 DEF EnsureRoute
  <2>2. CASE row.net \notin seen[h] /\ ipam' = Prefixed(ipam, row.net, ns) /\ UNCHANGED failing
    BY <1>2, <2>2, StoredType, StoredAssigned DEF RoutesInv
  <2>3. CASE /\ row.net \notin seen[h]
             /\ failing' = [failing EXCEPT ![h] = @ \cup {row.net}]
             /\ ipam' \in {ipam, PrefixOnly(ipam, row.net, ns)}
    BY <1>2, <2>3, StoredType, StoredAssigned DEF RoutesInv, RoutesTypeOK
  <2>. QED BY <2>1, <2>2, <2>3 DEF EnsureRoute
<1>5. ns = BelongsTo(h, row)
  BY <1>1, NamespaceOfReport
<1>. HIDE DEF ns
<1>6. row.net \notin seen[h] => row \in FirstReports(h, row.net)
  <2>1. SUFFICES ASSUME row.net \notin seen[h], NEW q \in data[h].routes, q.net = row.net
                 PROVE  row.rank <= q.rank
    BY <1>1 DEF FirstReports, First
  <2>2. q \in todo[h].routes
    BY <1>1, <2>1 DEF Pursued
  <2>. QED BY <1>1, <2>2 DEF First
<1>7. ASSUME NEW net \in seen'[h] PROVE StoredOrRefused(h, net)'
  <2>1. CASE net \in seen[h]
    BY <1>1, <1>4, <2>1 DEF Pursued, StoredOrRefused, FirstReports, BelongsTo, Stored
  <2>2. ASSUME net = row.net, net \notin seen[h] PROVE StoredOrRefused(h, net)'
    <3>1. row \in FirstReports(h, net)' /\ BelongsTo(h, row)' = ns
      BY <1>1, <1>5, <1>6, <2>2 DEF FirstReports, BelongsTo
    <3>2. \/ net \in failing'[h]
          \/ <<net, ns>> \in ipam'.prefixes /\ (ns # Global => <<ns, net>> \in ipam'.assigned)
      BY <1>4, <2>2
    <3>. QED BY <3>1, <3>2 DEF StoredOrRefused, Stored
  <2>. QED BY <1>3, <1>7, <2>1, <2>2
<1>8. \A r \in data[h].routes : r \in todo'[h].routes \/ r.net \in seen'[h]
  BY <1>1, <1>3 DEF Pursued
<1>9. stage'[h] = "routes" /\ data'[h] = data[h]
  BY <1>1
<1>10. Settled(h)'
  BY <1>1, <1>3, SettledStays
<1>. QED BY <1>7, <1>8, <1>9, <1>10 DEF Pursued

LEMMA Growing ==
  ASSUME RoutesInv, NEW net \in Net, NEW ns \in Table,
         NEW parent \in {ipam, PrefixOnly(ipam, net, ns), Prefixed(ipam, net, ns)}
  PROVE  /\ parent \in Ipam
         /\ ipam.prefixes \subseteq parent.prefixes /\ ipam.assigned \subseteq parent.assigned
<1>1. RoutesTypeOK /\ ipam \in Ipam
  BY DEF RoutesInv, RoutesTypeOK
<1>2. CASE parent = ipam
  BY <1>1, <1>2
<1>3. CASE parent = PrefixOnly(ipam, net, ns)
  BY <1>1, <1>3, StoredType, StoredAssigned
<1>4. CASE parent = Prefixed(ipam, net, ns)
  BY <1>1, <1>4, StoredType, StoredAssigned
<1>. QED BY <1>2, <1>3, <1>4

LEMMA EnsureIpPursues ==
  ASSUME RoutesInv, NEW h \in Host, Settled(h), Pursued(h), NEW row \in todo[h].ips, EnsureIp(h, row)
  PROVE  Settled(h)' /\ Pursued(h)'
<1>. DEFINE ns == NamespaceOf(h, row.tag)
<1>1. row.net \in Net /\ ns \in Table
  BY NamespaceType DEF RoutesInv, RoutesTypeOK, Tables, Row
<1>2. todo'[h].routes = todo[h].routes /\ todo'[h].vrfs = todo[h].vrfs
  BY DEF EnsureIp, Without, RoutesInv, RoutesTypeOK, Tables
<1>3. ipam.prefixes \subseteq ipam'.prefixes /\ ipam.assigned \subseteq ipam'.assigned
  <2>1. PICK parent \in {ipam, PrefixOnly(ipam, row.net, ns), Prefixed(ipam, row.net, ns)} :
          \/ ipam' = parent
          \/ ipam' = [parent EXCEPT !.addresses = @ \cup {<<row.net, ns>>}]
    BY DEF EnsureIp
  <2>. HIDE DEF ns
  <2>2. /\ parent \in Ipam
        /\ ipam.prefixes \subseteq parent.prefixes /\ ipam.assigned \subseteq parent.assigned
    BY <1>1, <2>1, Growing
  <2>. QED BY <2>1, <2>2 DEF Ipam
<1>4. UNCHANGED <<form, stage, data, vrfMap, refused, seen, failing>>
  BY DEF EnsureIp
<1>5. Settled(h)'
  BY <1>2, <1>4, SettledStays
<1>. QED BY <1>2, <1>3, <1>4, <1>5, PursuitStays

(* IPAM only grows.                                                        *)
LEMMA IpamGrows ==
  ASSUME RoutesInv, NEW g \in Host, Thread(g) \/ FutureRaised(g)
  PROVE  ipam.prefixes \subseteq ipam'.prefixes /\ ipam.assigned \subseteq ipam'.assigned
<1> USE DEF RoutesInv
<1>1. CASE Collect(g) \/ VrfsDone(g) \/ RoutesDone(g) \/ Scanned(g) \/ Raises(g) \/ FutureRaised(g)
  BY <1>1 DEF Collect, VrfsDone, RoutesDone, Scanned, Raises, FutureRaised
<1>2. CASE \E v \in todo[g].vrfs : EnsureVrf(g, v)
  BY <1>2 DEF EnsureVrf, RoutesTypeOK, Ipam
<1>3. ASSUME NEW row \in todo[g].routes, EnsureRoute(g, row)
      PROVE  ipam.prefixes \subseteq ipam'.prefixes /\ ipam.assigned \subseteq ipam'.assigned
  <2>1. row.net \in Net /\ NamespaceOf(g, row.tag) \in Table
    BY NamespaceType DEF RoutesTypeOK, Tables, Row
  <2>2. ipam' \in {ipam, PrefixOnly(ipam, row.net, NamespaceOf(g, row.tag)),
                   Prefixed(ipam, row.net, NamespaceOf(g, row.tag))}
    BY <1>3 DEF EnsureRoute
  <2>. QED BY <2>1, <2>2, StoredType, StoredAssigned
<1>4. ASSUME NEW row \in todo[g].ips, EnsureIp(g, row)
      PROVE  ipam.prefixes \subseteq ipam'.prefixes /\ ipam.assigned \subseteq ipam'.assigned
  <2>. DEFINE ns == NamespaceOf(g, row.tag)
  <2>1. row.net \in Net /\ ns \in Table
    BY NamespaceType DEF RoutesTypeOK, Tables, Row
  <2>2. PICK parent \in {ipam, PrefixOnly(ipam, row.net, ns), Prefixed(ipam, row.net, ns)} :
          \/ ipam' = parent
          \/ ipam' = [parent EXCEPT !.addresses = @ \cup {<<row.net, ns>>}]
    BY <1>4 DEF EnsureIp
  <2>. HIDE DEF ns
  <2>3. /\ parent \in Ipam
        /\ ipam.prefixes \subseteq parent.prefixes /\ ipam.assigned \subseteq parent.assigned
    BY <2>1, <2>2, Growing
  <2>. QED BY <2>2, <2>3 DEF Ipam
<1>. QED BY <1>1, <1>2, <1>3, <1>4 DEF Thread

(* The step of one thread, seen by another.                                *)
LEMMA OthersPursue ==
  ASSUME RoutesInv, NEW h \in Host, Settled(h), Pursued(h),
         NEW g \in Host \ {h}, Thread(g) \/ FutureRaised(g)
  PROVE  Settled(h)' /\ Pursued(h)'
<1> USE DEF RoutesInv
<1>1. stage'[h] = stage[h] /\ seen'[h] = seen[h] /\ vrfMap'[h] = vrfMap[h]
      /\ refused'[h] = refused[h] /\ failing'[h] = failing[h] /\ form' = form
  BY DEF Thread, Collect, Collected, EnsureVrf, VrfsDone, EnsureRoute, RoutesDone,
         EnsureIp, Scanned, Raises, FutureRaised, Enter, RoutesTypeOK
<1>2. data'[h] = data[h] /\ todo'[h] = todo[h]
  <2>1. CASE Collect(g)
    BY <2>1 DEF Collect, Collected, RoutesTypeOK
  <2>2. CASE VrfsDone(g) \/ RoutesDone(g) \/ Scanned(g) \/ Raises(g) \/ FutureRaised(g)
    BY <2>2 DEF VrfsDone, RoutesDone, Scanned, Raises, FutureRaised
  <2>3. CASE \/ \E v \in todo[g].vrfs : EnsureVrf(g, v)
             \/ \E row \in todo[g].routes : EnsureRoute(g, row)
             \/ \E row \in todo[g].ips : EnsureIp(g, row)
    BY <2>3 DEF EnsureVrf, EnsureRoute, EnsureIp, Without, RoutesTypeOK
  <2>. QED BY <2>1, <2>2, <2>3 DEF Thread
<1>. QED BY <1>1, <1>2, IpamGrows, PursuitStays, SettledStays

LEMMA NetworksNext == NetworksInv /\ [Next]_vars => NetworksInv'
<1> SUFFICES ASSUME NetworksInv, [Next]_vars PROVE NetworksInv'
  OBVIOUS
<1>1. RoutesInv /\ RoutesInv'
  BY NextKeeps DEF NetworksInv
<1>2. ASSUME NEW h \in Host PROVE Settled(h)' /\ Pursued(h)'
  <2>1. Settled(h) /\ Pursued(h)
    BY DEF NetworksInv
  <2>2. CASE UNCHANGED vars \/ Complete
    BY <2>1, <2>2, PursuitStays, SettledStays DEF vars, threadVars, Complete
  <2>3. CASE Thread(h) \/ FutureRaised(h)
    BY <1>1, <2>1, <2>3, CollectPursues, EnsureVrfPursues, EnterPursues, EnsureRoutePursues,
       EnsureIpPursues DEF Thread
  <2>4. ASSUME NEW g \in Host \ {h}, Thread(g) \/ FutureRaised(g)
        PROVE  Settled(h)' /\ Pursued(h)'
    BY <1>1, <2>1, <2>4, OthersPursue
  <2>. QED BY <2>2, <2>3, <2>4 DEF Next
<1>. QED BY <1>1, <1>2 DEF NetworksInv

(* For any boxes, forms, outages and interleavings: a network that a       *)
(* scanned host reported is a prefix in the table that one of its first    *)
(* reports belongs to, and assigned to the VRF of that table, except where *)
(* Nautobot refused it.                                                    *)
THEOREM NetworksAreKept == Spec => []FirstReportIsStored
<1>1. Init => NetworksInv
  <2> SUFFICES ASSUME Init PROVE NetworksInv
    OBVIOUS
  <2>1. \A h \in Host : Settled(h) /\ Pursued(h)
    BY DEF Init, Pursued, Settled, Nothing
  <2>. QED BY <2>1, InitKeeps DEF NetworksInv
<1>2. NetworksInv => FirstReportIsStored
  <2> SUFFICES ASSUME NetworksInv PROVE FirstReportIsStored
    OBVIOUS
  <2>1. SUFFICES ASSUME NEW h \in Host, stage[h] = "scanned", ~form.dryrun, form.prefixes,
                        NEW row \in data[h].routes
                 PROVE  StoredOrRefused(h, row.net)
    BY DEF FirstReportIsStored, StoredOrRefused
  <2>2. Pursued(h)
    BY DEF NetworksInv
  <2>3. row.net \in seen[h]
    BY <2>1, <2>2 DEF Pursued
  <2>. QED BY <2>2, <2>3 DEF Pursued
<1>. QED BY <1>1, <1>2, NetworksNext, PTL DEF Spec
---------------------------------------------------------------------------
(* The hosts that came to an end are those counted, and a job that is over  *)
(* has no others.                                                          *)
At(s) == {h \in Host : stage[h] = s}

Counted ==
  /\ totals = [scanned |-> Cardinality(At("scanned")), failed |-> Cardinality(At("failed"))]
  /\ run = "completed" => \A h \in Host : stage[h] \in Over

LEMMA FiniteEnds == IsFiniteSet(At("scanned")) /\ IsFiniteSet(At("failed"))
<1>1. At("scanned") \in SUBSET Host /\ At("failed") \in SUBSET Host
  BY DEF At
<1>. QED BY <1>1, RoutesAssumption, FS_Subset

LEMMA CountedMeansAccounted == RoutesInv /\ Counted => HostsAccounted
<1> SUFFICES ASSUME RoutesInv, Counted PROVE HostsAccounted
  OBVIOUS
<1>1. ASSUME run = "completed" PROVE totals.scanned + totals.failed = Cardinality(Host)
  <2>1. Host = At("scanned") \cup At("failed") /\ At("scanned") \cap At("failed") = {}
    BY <1>1 DEF Counted, At, Over
  <2>2. Cardinality(Host) = Cardinality(At("scanned")) + Cardinality(At("failed")) - 0
    BY <2>1, FiniteEnds, FS_Union, FS_EmptySet
  <2>3. Cardinality(At("scanned")) \in Nat /\ Cardinality(At("failed")) \in Nat
    BY FiniteEnds, FS_CardinalityType
  <2>. QED BY <2>2, <2>3 DEF Counted
<1>. QED BY <1>1 DEF Counted, HostsAccounted, At

LEMMA CountedInit == Init => Counted
<1> SUFFICES ASSUME Init PROVE Counted
  OBVIOUS
<1>1. At("scanned") = {} /\ At("failed") = {}
  BY DEF Init, At
<1>. QED BY <1>1, FS_EmptySet DEF Init, Counted

(* A thread that ends, or whose exception is asked for, is counted; no      *)
(* other step counts, or moves a host that is over.                        *)
LEMMA EndsAreCounted ==
  ASSUME RoutesInv, NEW h \in Host, Thread(h) \/ FutureRaised(h)
  PROVE  /\ stage[h] \notin Over /\ run' = run
         /\ \/ totals' = totals /\ At("scanned")' = At("scanned") /\ At("failed")' = At("failed")
            \/ \E what \in Over : stage' = [stage EXCEPT ![h] = what] /\ Add(what)
<1>1. stage \in [Host -> Stage]
  BY DEF RoutesInv, RoutesTypeOK
<1>2. CASE Collect(h)
  <2>1. PICK tables, answered : Collected(h, tables, answered)
    BY <1>2 DEF Collect
  <2>. QED BY <1>1, <1>2, <2>1 DEF Collect, Collected, Enter, At, Over
<1>3. CASE VrfsDone(h) \/ RoutesDone(h)
  BY <1>1, <1>3 DEF VrfsDone, RoutesDone, Enter, At, Over
<1>4. CASE Scanned(h) \/ FutureRaised(h)
  BY <1>1, <1>4 DEF Scanned, FutureRaised, Enter, Over
<1>5. CASE Raises(h)
  BY <1>1, <1>5 DEF Raises, MayRaise, Enter, At, Over
<1>6. CASE \/ \E v \in todo[h].vrfs : EnsureVrf(h, v)
           \/ \E row \in todo[h].routes : EnsureRoute(h, row)
           \/ \E row \in todo[h].ips : EnsureIp(h, row)
  BY <1>6 DEF EnsureVrf, EnsureRoute, EnsureIp, At, Over
<1>. QED BY <1>2, <1>3, <1>4, <1>5, <1>6 DEF Thread

LEMMA CountedNext == RoutesInv /\ Counted /\ [Next]_vars => Counted'
<1> SUFFICES ASSUME RoutesInv, Counted, [Next]_vars PROVE Counted'
  OBVIOUS
<1>1. stage \in [Host -> Stage]
  BY DEF RoutesInv, RoutesTypeOK
<1>2. ASSUME NEW h \in Host, NEW what \in Over, stage[h] \notin Over,
             stage' = [stage EXCEPT ![h] = what], Add(what)
      PROVE  totals' = [scanned |-> Cardinality(At("scanned")'), failed |-> Cardinality(At("failed")')]
  <2>1. CASE what = "scanned"
    <3>1. h \notin At("scanned") /\ At("scanned")' = At("scanned") \cup {h}
          /\ At("failed")' = At("failed")
      BY <1>1, <1>2, <2>1 DEF At, Over
    <3>2. Cardinality(At("scanned")') = Cardinality(At("scanned")) + 1
      BY <3>1, FiniteEnds, FS_AddElement
    <3>. QED BY <1>2, <2>1, <3>1, <3>2 DEF Add, Counted
  <2>2. CASE what = "failed"
    <3>1. h \notin At("failed") /\ At("failed")' = At("failed") \cup {h}
          /\ At("scanned")' = At("scanned")
      BY <1>1, <1>2, <2>2 DEF At, Over
    <3>2. Cardinality(At("failed")') = Cardinality(At("failed")) + 1
      BY <3>1, FiniteEnds, FS_AddElement
    <3>. QED BY <1>2, <2>2, <3>1, <3>2 DEF Add, Counted
  <2>. QED BY <1>2, <2>1, <2>2 DEF Over
<1>3. CASE UNCHANGED vars
  BY <1>3 DEF vars, threadVars, Counted, At
<1>4. CASE Complete
  BY <1>4 DEF Complete, threadVars, Counted, At
<1>5. ASSUME NEW h \in Host, Thread(h) \/ FutureRaised(h) PROVE Counted'
  <2>1. run' # "completed"
    BY <1>5, EndsAreCounted DEF Counted
  <2>2. totals' = [scanned |-> Cardinality(At("scanned")'), failed |-> Cardinality(At("failed")')]
    BY <1>2, <1>5, EndsAreCounted DEF Counted
  <2>. QED BY <2>1, <2>2 DEF Counted
<1>. QED BY <1>3, <1>4, <1>5 DEF Next

(* Every host is counted once, for any number of hosts and threads, and    *)
(* none is left out when the job ends.                                     *)
THEOREM HostsAreCounted == Spec => []HostsAccounted
<1>. QED BY CountedInit, CountedNext, CountedMeansAccounted, RoutesInvariant, PTL DEF Spec
=============================================================================
