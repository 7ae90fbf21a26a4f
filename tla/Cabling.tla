------------------------------ MODULE Cabling ------------------------------
(***************************************************************************)
(* From neighbor tables to cables.  A job populates the devices it scanned *)
(* (populate_device_from_snmp) and at its end turns the stored LLDP and CDP*)
(* rows into cables (link_neighbors_to_cables).  Two jobs may do so at the *)
(* same time: the interfaces of a device are cached with their cable, the  *)
(* far end is looked up, and a cable is created, in steps of their own.    *)
(*                                                                         *)
(* A port is its primary key, its ifIndex and its name at once; what a box *)
(* says of a port may be missing or may not resolve.  The address a box    *)
(* announces is one it is managed by, wherever it is configured: seldom on *)
(* the port the announcement is sent from.                                 *)
(***************************************************************************)
EXTENDS Naturals

CONSTANTS
  Box, Port,  \* the primary keys of interfaces, ordered
  Address,    \* IP addresses
  NoBox, NoPort, NoAddress,
  BoxOf,      \* the box of a port
  Job,
  Sites       \* the networks, what their boxes report and who scans them

End == Port \cup {NoPort}

SomeAddress == Address \cup {NoAddress}

Site ==
  [wires : SUBSET SUBSET Port,  \* a port on a hub is an end of several
   scanned : [Job -> SUBSET Box], \* the boxes a job has results for
   lldp : SUBSET Port,        \* the neighbor on this port is in the LLDP table
   cdp : SUBSET Port,         \* or in the CDP table
   number : [Port -> Port],   \* the port whose ifIndex is this LLDP port number
   column : SUBSET Box,       \* lldpLocPortTable has the ifIndex
   address : [Port -> SomeAddress],  \* configured on the port
   lldpIp : [Port -> SomeAddress],   \* announced from the port in LLDP
   cdpIp : [Port -> SomeAddress],    \* and in CDP
   named : SUBSET Port,       \* the port announces the name it has in the IF-MIB
   fqdn : SUBSET Box,         \* the box announces a name with a domain
   stored : SUBSET Box]       \* the device is stored with a domain

ASSUME CablingAssumption ==
  /\ Port \subseteq Nat
  /\ NoPort \notin Port
  /\ NoBox \notin Box
  /\ NoAddress \notin Address
  /\ BoxOf \in [Port -> Box]
  /\ Sites \subseteq Site
  /\ \A s \in Sites : \A w \in s.wires : \E p, q \in Port : p # q /\ w = {p, q}

Neighbor == [local : End, box : Box, port : End, ip : SomeAddress]

VARIABLES
  site,
  interfaces,  \* of Nautobot
  assigned,    \* the interface that the first IPAddress row of an address has
  cables,      \* termination a and termination b of each cable
  stage,       \* of each job: "interfaces", "addresses", "link", "done"
  todo,        \* the ports it has yet to populate, then those with an address
  byIndex,     \* interface_by_index
  devices,     \* the results it has yet to link
  at,          \* the device being linked
  free,        \* iface_map: the interfaces of it that were not cabled then
  rows,        \* its neighbors left
  pair         \* the two interfaces about to be joined

nautobot == <<interfaces, assigned, cables>>
linkVars == <<devices, at, free, rows, pair>>
vars == <<site, nautobot, stage, todo, byIndex, linkVars>>

PortsOf(boxes) == {p \in Port : BoxOf[p] \in boxes}

NoPair == <<NoPort, NoPort>>

Init ==
  /\ site \in Sites
  /\ interfaces = {}
  /\ assigned = [x \in Address |-> NoPort]
  /\ cables = {}
  /\ stage = [j \in Job |-> "interfaces"]
  /\ todo = [j \in Job |-> PortsOf(site.scanned[j])]
  /\ byIndex = [j \in Job |-> {}]
  /\ devices = site.scanned
  /\ at = [j \in Job |-> NoBox]
  /\ free = [j \in Job |-> {}]
  /\ rows = [j \in Job |-> {}]
  /\ pair = [j \in Job |-> NoPair]

Enter(j, next) == stage' = [stage EXCEPT ![j] = next]
---------------------------------------------------------------------------
(* Population.                                                             *)

(* get_or_create; a row that is refused is logged and left out.            *)
PopulateInterface(j, p) ==
  /\ stage[j] = "interfaces"
  /\ p \in todo[j]
  /\ todo' = [todo EXCEPT ![j] = @ \ {p}]
  /\ \/ /\ interfaces' = interfaces \cup {p}
        /\ byIndex' = [byIndex EXCEPT ![j] = @ \cup {p}]
     \/ UNCHANGED <<interfaces, byIndex>>
  /\ UNCHANGED <<site, assigned, cables, stage, linkVars>>

InterfacesDone(j) ==
  /\ stage[j] = "interfaces"
  /\ todo[j] = {}
  /\ todo' = [todo EXCEPT ![j] =
       {p \in PortsOf(site.scanned[j]) : site.address[p] # NoAddress}]
  /\ Enter(j, "addresses")
  /\ UNCHANGED <<site, nautobot, byIndex, linkVars>>

(* An IPAddress row goes to the first interface it is reported on.  An     *)
(* address in another VRF has a row of its own, in the namespace of the    *)
(* VRF, which may come before the row that was found until now; a row that *)
(* exists, is assigned or is refused changes nothing.                      *)
PopulateAddress(j, p) ==
  /\ stage[j] = "addresses"
  /\ p \in todo[j]
  /\ todo' = [todo EXCEPT ![j] = @ \ {p}]
  /\ \/ assigned' = [assigned EXCEPT ![site.address[p]] =
            IF p \in byIndex[j] \cup {@} THEN p ELSE NoPort]
     \/ UNCHANGED assigned
  /\ UNCHANGED <<site, interfaces, cables, stage, byIndex, linkVars>>

AddressesDone(j) ==
  /\ stage[j] = "addresses"
  /\ todo[j] = {}
  /\ Enter(j, "link")
  /\ UNCHANGED <<site, nautobot, todo, byIndex, linkVars>>
---------------------------------------------------------------------------
(* Neighbor tables.                                                        *)

(* What the box behind a port announces: its name, the name of the port    *)
(* and a management address of the box (lldpRemManAddr, cdpCacheAddress).  *)
Announced(local, q, ip) ==
  [local |-> local, box |-> BoxOf[q],
   port |-> IF q \in site.named THEN q ELSE NoPort,
   ip |-> ip]

(* Mutant: the LLDP port number is taken for the ifIndex.                  *)
LldpLocalNumber(p) == site.number[p]

(* collect_lldp_neighbors: the LLDP port number is translated to an        *)
(* ifIndex with lldpLocPortTable, where the box has the column.            *)
LldpLocal(p) == IF BoxOf[p] \in site.column THEN p ELSE NoPort

Across(p) == {q \in Port \ {p} : \E w \in site.wires : {p, q} \subseteq w}

LldpNeighbors(b) ==
  UNION {{Announced(LldpLocal(p), q, site.lldpIp[q]) : q \in Across(p)} :
           p \in PortsOf({b}) \cap site.lldp}

(* collect_cdp_neighbors: the index is the ifIndex.                        *)
CdpNeighbors(b) ==
  UNION {{Announced(p, q, site.cdpIp[q]) : q \in Across(p)} :
           p \in PortsOf({b}) \cap site.cdp}

(* collect_neighbors.                                                      *)
Neighbors(b) == LldpNeighbors(b) \cup CdpNeighbors(b)
---------------------------------------------------------------------------
(* Linking.                                                                *)

Cabled(p) == \E c \in cables : p \in {c[1], c[2]}

(* _find_device_by_neighbor_name: the name as it is, then without domain.  *)
FindDevice(b) == IF b \in site.stored => b \in site.fqdn THEN b ELSE NoBox

(* Mutant: an address that is not assigned ends the search.                *)
ResolveByAddress(row) ==
  IF row.ip # NoAddress THEN assigned[row.ip]
  ELSE IF FindDevice(row.box) # NoBox /\ row.port \in interfaces THEN row.port ELSE NoPort

(* _resolve_remote_interface: the interface that owns the announced        *)
(* address, else the named port of the named device.                       *)
ResolveRemote(row) ==
  IF row.ip # NoAddress /\ assigned[row.ip] # NoPort THEN assigned[row.ip]
  ELSE IF FindDevice(row.box) # NoBox /\ row.port \in interfaces THEN row.port ELSE NoPort

(* A result; its interfaces are read with their cables once.               *)
TakeResult(j, b) ==
  /\ stage[j] = "link"
  /\ at[j] = NoBox
  /\ b \in devices[j]
  /\ devices' = [devices EXCEPT ![j] = @ \ {b}]
  /\ at' = [at EXCEPT ![j] = b]
  /\ free' = [free EXCEPT ![j] = {p \in PortsOf({b}) \cap interfaces : ~Cabled(p)}]
  /\ rows' = [rows EXCEPT ![j] = Neighbors(b)]
  /\ UNCHANGED <<site, nautobot, stage, todo, byIndex, pair>>

(* Mutant: the loop does not look whether the far end was found.           *)
ExamineUnresolved(j, row) ==
  /\ row \in rows[j]
  /\ pair[j] = NoPair
  /\ rows' = [rows EXCEPT ![j] = @ \ {row}]
  /\ LET remote == ResolveRemote(row)
     IN pair' = [pair EXCEPT ![j] =
          IF row.local \in free[j] /\ remote # row.local /\ ~Cabled(remote)
          THEN <<row.local, remote>> ELSE @]
  /\ UNCHANGED <<site, nautobot, stage, todo, byIndex, devices, at, free>>

(* A row is skipped when the local end is unknown or was cabled when it    *)
(* was read, or when the far end is unresolved, the same or cabled.        *)
Examine(j, row) ==
  /\ row \in rows[j]
  /\ pair[j] = NoPair
  /\ rows' = [rows EXCEPT ![j] = @ \ {row}]
  /\ LET remote == ResolveRemote(row)
     IN pair' = [pair EXCEPT ![j] =
          IF row.local \in free[j] /\ remote \notin {NoPort, row.local} /\ ~Cabled(remote)
          THEN <<row.local, remote>> ELSE @]
  /\ UNCHANGED <<site, nautobot, stage, todo, byIndex, devices, at, free>>

(* Mutant: the ends are not sorted.                                        *)
AsFound(ends) == ends

(* The lower primary key is termination a.                                 *)
Sorted(ends) == IF ends[1] < ends[2] THEN ends ELSE <<ends[2], ends[1]>>

(* Nautobot refuses a cable with the termination a, or b, of another one.  *)
Refused(cable) == \E c \in cables : c[1] = cable[1] \/ c[2] = cable[2]

(* Cable.objects.get_or_create.                                            *)
Connect(j) ==
  /\ pair[j] # NoPair
  /\ LET cable == Sorted(pair[j])
     IN cables' = IF Refused(cable) THEN cables ELSE cables \cup {cable}
  /\ pair' = [pair EXCEPT ![j] = NoPair]
  /\ UNCHANGED <<site, interfaces, assigned, stage, todo, byIndex, devices, at, free, rows>>

NextResult(j) ==
  /\ at[j] # NoBox
  /\ rows[j] = {}
  /\ pair[j] = NoPair
  /\ at' = [at EXCEPT ![j] = NoBox]
  /\ UNCHANGED <<site, nautobot, stage, todo, byIndex, devices, free, rows, pair>>

Done(j) ==
  /\ stage[j] = "link"
  /\ at[j] = NoBox
  /\ devices[j] = {}
  /\ Enter(j, "done")
  /\ UNCHANGED <<site, nautobot, todo, byIndex, linkVars>>

Populate(j) ==
  \/ InterfacesDone(j) \/ AddressesDone(j)
  \/ \E p \in todo[j] : PopulateInterface(j, p) \/ PopulateAddress(j, p)

Link(j) ==
  \/ Connect(j) \/ NextResult(j) \/ Done(j)
  \/ \E b \in devices[j] : TakeResult(j, b)
  \/ \E row \in rows[j] : Examine(j, row)

Next == \E j \in Job : Populate(j) \/ Link(j)

Spec == Init /\ [][Next]_vars
---------------------------------------------------------------------------
CablingTypeOK ==
  /\ site \in Sites
  /\ interfaces \subseteq Port
  /\ assigned \in [Address -> End]
  /\ cables \subseteq Port \X Port
  /\ stage \in [Job -> {"interfaces", "addresses", "link", "done"}]
  /\ {todo, byIndex, free} \subseteq [Job -> SUBSET Port]
  /\ devices \in [Job -> SUBSET Box]
  /\ at \in [Job -> Box \cup {NoBox}]
  /\ rows \in [Job -> SUBSET Neighbor]
  /\ pair \in [Job -> (Port \X Port) \cup {NoPair}]

(* Where a row about the port q can lead: to q by name, or to the ports    *)
(* that have the address that was announced.                               *)
Reached(q) ==
  {q} \cup {m \in Port : site.address[m] # NoAddress
                        /\ site.address[m] \in {site.lldpIp[q], site.cdpIp[q]}}

Wired(p, q) == p # q /\ {p, q} \in site.wires

(* Every cable starts at the end of a wire and leads to the other end or,  *)
(* if the box there announces an address, to an interface that has it: no  *)
(* port number of LLDP, ifIndex, address or name leads anywhere else, also *)
(* when two jobs populate and link the same boxes.                         *)
CablesAreReal ==
  \A c \in cables : \E p, q \in Port :
    Wired(p, q) /\ \E m \in Reached(q) : {c[1], c[2]} = {p, m}

(* A port has one neighbor: no hub, no box that forwards neighbor messages.*)
PointToPoint == \A v, w \in site.wires : v # w => v \cap w = {}

(* Announced addresses are configured on the port that announces them.     *)
PortAddresses == \A q \in Port : Reached(q) = {q}

(* One job links, each neighbor is in one of the two tables, and an        *)
(* announced address is one of the neighboring box alone.                  *)
OneAtATime ==
  /\ \E j \in Job : \A i \in Job \ {j} : site.scanned[i] = {}
  /\ site.lldp \cap site.cdp = {}
  /\ \A p, q \in Port : Wired(p, q) =>
       BoxOf[p] # BoxOf[q] /\ Reached(q) \subseteq PortsOf({BoxOf[q]})

(* An interface never gets a second cable, though a job tests interfaces   *)
(* it read before it, or another job, linked them, and Nautobot compares   *)
(* terminations of the same side only.  It needs point-to-point wires and  *)
(* either addresses of the ports themselves or a single job that hears of  *)
(* each neighbor once: two jobs, or the LLDP and the CDP row of a neighbor,*)
(* may otherwise join one interface twice.                                 *)
CableEndsUnique ==
  PointToPoint /\ (PortAddresses \/ OneAtATime) =>
    \A c, d \in cables : c # d => {c[1], c[2]} \cap {d[1], d[2]} = {}

(* A job that has populated both ends of a wire leaves it only when one of *)
(* the ends that could be joined is cabled, whoever made the cable, if one *)
(* end knows the ifIndex of its port and the device and port names the     *)
(* other end announces can be found: an address that leads nowhere, a table*)
(* without the port or the other protocol's row must not stop it.  With    *)
(* addresses of the ports themselves the cable is that of the wire; with an*)
(* address that several links share, only the first of them is sure of one.*)
LinksAreCabled ==
  \A j \in Job : stage[j] = "done" =>
    \A p \in byIndex[j], q \in byIndex[j] \cap site.named :
      /\ Wired(p, q) /\ p \notin Reached(q)
      /\ p \in site.cdp \/ (p \in site.lldp /\ BoxOf[p] \in site.column)
      /\ FindDevice(BoxOf[q]) # NoBox
      => Cabled(p) \/ \E m \in Reached(q) : Cabled(m)
=============================================================================
