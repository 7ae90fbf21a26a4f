---------------------------- MODULE CablingProofs ----------------------------
(***************************************************************************)
(* Theorems of Cabling, for any network, any tables and addresses, and any *)
(* number of jobs.                                                         *)
(***************************************************************************)
EXTENDS Cabling, TLAPS

(* A row that names its local port describes the other end of its wire and *)
(* carries one of the addresses announced there.                           *)
RealRow(row) ==
  row.local # NoPort =>
    \E q \in Port : /\ Wired(row.local, q)
                    /\ row.port \in {q, NoPort}
                    /\ row.ip \in {site.lldpIp[q], site.cdpIp[q]}

(* What a row at the port p may lead to.                                   *)
LeadsTo(p, m) == p # m /\ \E q \in Port : Wired(p, q) /\ m \in Reached(q)

(* What is known of a network agrees with its wires and addresses.         *)
Reality ==
  /\ \A x \in Address : assigned[x] # NoPort => site.address[assigned[x]] = x
  /\ \A j \in Job : \A row \in rows[j] : RealRow(row)
  /\ \A j \in Job : pair[j] # NoPair => LeadsTo(pair[j][1], pair[j][2])
  /\ \A c \in cables : c[1] < c[2] /\ (LeadsTo(c[1], c[2]) \/ LeadsTo(c[2], c[1]))

CablingInv == CablingTypeOK /\ Reality
---------------------------------------------------------------------------
LEMMA SiteTypes ==
  ASSUME CablingTypeOK
  PROVE  /\ site \in Site
         /\ \A p \in Port : /\ site.address[p] \in SomeAddress
                            /\ site.lldpIp[p] \in SomeAddress
                            /\ site.cdpIp[p] \in SomeAddress
         /\ \A j \in Job : site.scanned[j] \subseteq Box
<1>1. site \in Site
  BY CablingAssumption DEF CablingTypeOK
<1>. QED BY <1>1 DEF Site

LEMMA WiresHaveTwoEnds ==
  ASSUME CablingTypeOK, NEW w \in site.wires
  PROVE  \E p, q \in Port : p # q /\ w = {p, q}
BY CablingAssumption DEF CablingTypeOK

LEMMA AcrossIsWired ==
  ASSUME CablingTypeOK, NEW p \in Port, NEW q \in Across(p)
  PROVE  q \in Port /\ Wired(p, q)
<1>1. q \in Port \ {p}
  BY DEF Across
<1>2. PICK w \in site.wires : {p, q} \subseteq w
  BY DEF Across
<1>3. w = {p, q}
  BY <1>1, <1>2, WiresHaveTwoEnds
<1>. QED BY <1>1, <1>2, <1>3 DEF Wired

LEMMA AnnouncedIsReal ==
  ASSUME CablingTypeOK, NEW p \in Port, NEW q \in Across(p), NEW local \in {p, NoPort},
         NEW ip \in {site.lldpIp[q], site.cdpIp[q]}
  PROVE  Announced(local, q, ip) \in Neighbor /\ RealRow(Announced(local, q, ip))
<1>1. q \in Port /\ Wired(p, q)
  BY AcrossIsWired
<1>2. BoxOf[q] \in Box /\ ip \in SomeAddress
  BY <1>1, SiteTypes, CablingAssumption
<1>. DEFINE port == IF q \in site.named THEN q ELSE NoPort
<1>3. port \in {q, NoPort}
  OBVIOUS
<1>4. Announced(local, q, ip) = [local |-> local, box |-> BoxOf[q], port |-> port, ip |-> ip]
  BY DEF Announced
<1>. HIDE DEF port
<1>5. Announced(local, q, ip) \in Neighbor
  BY <1>1, <1>2, <1>3, <1>4 DEF Neighbor, End
<1>6. RealRow(Announced(local, q, ip))
  BY <1>1, <1>3, <1>4 DEF RealRow
<1>. QED BY <1>5, <1>6

(* A row of a neighbor table is what the port across announces.            *)
LEMMA NeighborsAre ==
  ASSUME CablingTypeOK, NEW b, NEW row \in Neighbors(b)
  PROVE  \E p \in PortsOf({b}) : \E q \in Across(p) :
           \/ p \in site.lldp /\ row = Announced(LldpLocal(p), q, site.lldpIp[q])
           \/ p \in site.cdp /\ row = Announced(p, q, site.cdpIp[q])
BY DEF Neighbors, LldpNeighbors, CdpNeighbors

(* The neighbor tables of a box tell the truth as far as they go.          *)
LEMMA NeighborsAreReal ==
  ASSUME CablingTypeOK, NEW b, NEW row \in Neighbors(b)
  PROVE  row \in Neighbor /\ RealRow(row)
<1>1. PICK p \in PortsOf({b}) : \E q \in Across(p) :
        \/ row = Announced(LldpLocal(p), q, site.lldpIp[q])
        \/ row = Announced(p, q, site.cdpIp[q])
  BY NeighborsAre
<1>2. p \in Port /\ LldpLocal(p) \in {p, NoPort}
  BY DEF PortsOf, LldpLocal
<1>. QED BY <1>1, <1>2, AnnouncedIsReal

(* The far end of a real row, when it resolves, is one the port across can *)
(* lead to.                                                                *)
LEMMA FarEndIsReal ==
  ASSUME CablingInv, NEW j \in Job, NEW row \in rows[j],
         row.local # NoPort, ResolveRemote(row) \notin {NoPort, row.local}
  PROVE  /\ row.local \in Port /\ ResolveRemote(row) \in Port
         /\ LeadsTo(row.local, ResolveRemote(row))
<1> USE DEF CablingInv
<1>1. row \in Neighbor /\ RealRow(row)
  BY DEF CablingTypeOK, Reality
<1>2. PICK q \in Port : /\ Wired(row.local, q)
                        /\ row.port \in {q, NoPort}
                        /\ row.ip \in {site.lldpIp[q], site.cdpIp[q]}
  BY <1>1 DEF RealRow
<1>3. CASE row.ip # NoAddress /\ assigned[row.ip] # NoPort
  <2>1. row.ip \in Address
    BY <1>1, <1>3 DEF Neighbor, SomeAddress
  <2>2. assigned[row.ip] \in Port /\ site.address[assigned[row.ip]] = row.ip
    BY <1>3, <2>1 DEF CablingTypeOK, Reality, End
  <2>3. ResolveRemote(row) = assigned[row.ip]
    BY <1>3 DEF ResolveRemote
  <2>4. ResolveRemote(row) \in Reached(q)
    BY <1>2, <1>3, <2>2, <2>3 DEF Reached
  <2>. QED BY <1>1, <1>2, <2>2, <2>3, <2>4 DEF LeadsTo, Neighbor, End
<1>4. CASE ~(row.ip # NoAddress /\ assigned[row.ip] # NoPort)
  <2>1. ResolveRemote(row) = q
    BY <1>2, <1>4 DEF ResolveRemote
  <2>2. q \in Reached(q)
    BY DEF Reached
  <2>. QED BY <1>1, <1>2, <2>1, <2>2 DEF LeadsTo, Neighbor, End
<1>. QED BY <1>3, <1>4

LEMMA CablingInit == Init => CablingInv
<1> SUFFICES ASSUME Init PROVE CablingInv
  OBVIOUS
<1>1. CablingTypeOK
  <2>1. site \in Sites /\ site \in Site
    BY CablingAssumption DEF Init
  <2>2. site.scanned \in [Job -> SUBSET Box]
    BY <2>1 DEF Site
  <2>. QED BY <2>1, <2>2 DEF Init, CablingTypeOK, PortsOf, End
<1>2. Reality
  BY DEF Init, Reality
<1>. QED BY <1>1, <1>2 DEF CablingInv

LEMMA PopulateKeeps ==
  ASSUME CablingInv, NEW j \in Job, Populate(j)
  PROVE  CablingInv'
<1> USE DEF CablingInv
<1>1. UNCHANGED <<site, cables, devices, at, free, rows, pair>>
  BY DEF Populate, PopulateInterface, InterfacesDone, PopulateAddress, AddressesDone,
         linkVars, nautobot
<1>2. ASSUME NEW p \in todo[j], PopulateInterface(j, p) PROVE CablingInv'
  <2>1. p \in Port
    BY DEF CablingTypeOK
  <2>2. CablingTypeOK'
    BY <1>1, <1>2, <2>1 DEF PopulateInterface, CablingTypeOK
  <2>3. Reality'
    BY <1>1, <1>2 DEF PopulateInterface, Reality, RealRow, LeadsTo, Reached, Wired
  <2>. QED BY <2>2, <2>3
<1>3. ASSUME NEW p \in todo[j], PopulateAddress(j, p) PROVE CablingInv'
  <2>1. p \in Port
    BY DEF CablingTypeOK
  <2>2. /\ assigned' \in [Address -> End]
        /\ \A x \in Address : assigned'[x] # NoPort => site.address[assigned'[x]] = x
    BY <1>3, <2>1 DEF PopulateAddress, CablingTypeOK, Reality, End
  <2>3. CablingTypeOK'
    BY <1>1, <1>3, <2>2 DEF PopulateAddress, CablingTypeOK
  <2>4. Reality'
    BY <1>1, <2>2 DEF Reality, RealRow, LeadsTo, Reached, Wired
  <2>. QED BY <2>3, <2>4
<1>4. CASE InterfacesDone(j) \/ AddressesDone(j)
  <2>1. CablingTypeOK'
    BY <1>1, <1>4 DEF InterfacesDone, AddressesDone, Enter, PortsOf, nautobot, CablingTypeOK
  <2>2. Reality'
    BY <1>1, <1>4 DEF InterfacesDone, AddressesDone, nautobot, Reality, RealRow,
       LeadsTo, Reached, Wired
  <2>. QED BY <2>1, <2>2
<1>. QED BY <1>2, <1>3, <1>4 DEF Populate

LEMMA TakeResultKeeps ==
  ASSUME CablingInv, NEW j \in Job, NEW b \in devices[j], TakeResult(j, b)
  PROVE  CablingInv'
<1> USE DEF CablingInv
<1>1. b \in Box
  BY DEF CablingTypeOK
<1>2. \A row \in Neighbors(b) : row \in Neighbor /\ RealRow(row)
  BY NeighborsAreReal
<1>3. CablingTypeOK'
  BY <1>1, <1>2 DEF TakeResult, CablingTypeOK, PortsOf, nautobot
<1>4. UNCHANGED <<site, assigned, cables, pair>>
      /\ \A i \in Job : rows'[i] = IF i = j THEN Neighbors(b) ELSE rows[i]
  BY DEF TakeResult, nautobot, CablingTypeOK
<1>5. Reality'
  BY <1>2, <1>4 DEF Reality, RealRow, LeadsTo, Reached, Wired
<1>. QED BY <1>3, <1>5

LEMMA ExamineKeeps ==
  ASSUME CablingInv, NEW j \in Job, NEW row \in rows[j], Examine(j, row)
  PROVE  CablingInv'
<1> USE DEF CablingInv
<1>. DEFINE remote == ResolveRemote(row)
            found == row.local \in free[j] /\ remote \notin {NoPort, row.local} /\ ~Cabled(remote)
<1>1. /\ UNCHANGED <<site, interfaces, assigned, cables, stage, todo, byIndex, devices, at, free>>
      /\ rows' = [rows EXCEPT ![j] = @ \ {row}]
      /\ pair' = [pair EXCEPT ![j] = IF found THEN <<row.local, remote>> ELSE @]
  BY DEF Examine, nautobot
<1>2. found => /\ row.local \in Port /\ remote \in Port
               /\ LeadsTo(row.local, remote)
  <2>1. found => row.local # NoPort
    BY CablingAssumption DEF CablingTypeOK
  <2>. QED BY <2>1, FarEndIsReal
<1>. HIDE DEF found, remote
<1>3. CablingTypeOK'
  BY <1>1, <1>2 DEF CablingTypeOK
<1>4. \A i \in Job : pair'[i] # NoPair => LeadsTo(pair'[i][1], pair'[i][2])
  BY <1>1, <1>2 DEF CablingTypeOK, Reality
<1>5. Reality'
  BY <1>1, <1>4 DEF CablingTypeOK, Reality, RealRow, LeadsTo, Reached, Wired
<1>. QED BY <1>3, <1>5

LEMMA ConnectKeeps ==
  ASSUME CablingInv, NEW j \in Job, Connect(j)
  PROVE  CablingInv'
<1> USE DEF CablingInv
<1>. DEFINE p == pair[j][1]
            q == pair[j][2]
            cable == Sorted(pair[j])
<1>1. p \in Port /\ q \in Port /\ LeadsTo(p, q) /\ pair[j] = <<p, q>>
  BY DEF Connect, CablingTypeOK, Reality
<1>2. cable \in Port \X Port /\ cable[1] < cable[2] /\ (cable = <<p, q>> \/ cable = <<q, p>>)
  <2>. HIDE DEF p, q
  <2>1. p # q /\ p \in Nat /\ q \in Nat
    BY <1>1, CablingAssumption DEF LeadsTo
  <2>2. CASE p < q
    <3>1. cable = <<p, q>>
      BY <1>1, <2>2 DEF Sorted
    <3>. QED BY <1>1, <2>2, <3>1
  <2>3. CASE q < p
    <3>1. cable = <<q, p>>
      BY <1>1, <2>1, <2>3 DEF Sorted
    <3>. QED BY <1>1, <2>3, <3>1
  <2>. QED BY <2>1, <2>2, <2>3
<1>3. cables' = cables \/ cables' = cables \cup {cable}
  BY DEF Connect
<1>. HIDE DEF p, q, cable
<1>4. \A c \in cables' : /\ c \in Port \X Port /\ c[1] < c[2]
                         /\ LeadsTo(c[1], c[2]) \/ LeadsTo(c[2], c[1])
  BY <1>1, <1>2, <1>3 DEF CablingTypeOK, Reality
<1>5. CablingTypeOK'
  BY <1>4 DEF Connect, CablingTypeOK
<1>6. Reality'
  BY <1>4 DEF Connect, CablingTypeOK, Reality, RealRow, LeadsTo, Reached, Wired
<1>. QED BY <1>5, <1>6

LEMMA LeaveKeeps ==
  ASSUME CablingInv, NEW j \in Job, NextResult(j) \/ Done(j)
  PROVE  CablingInv'
<1>1. UNCHANGED <<site, interfaces, assigned, cables, todo, byIndex, devices, free, rows, pair>>
  BY DEF NextResult, Done, nautobot, linkVars
<1>2. CablingTypeOK'
  BY <1>1 DEF NextResult, Done, Enter, linkVars, CablingInv, CablingTypeOK
<1>3. Reality'
  BY <1>1 DEF CablingInv, Reality, RealRow, LeadsTo, Reached, Wired
<1>. QED BY <1>2, <1>3 DEF CablingInv

LEMMA CablingNext == CablingInv /\ [Next]_vars => CablingInv'
<1> SUFFICES ASSUME CablingInv, [Next]_vars PROVE CablingInv'
  OBVIOUS
<1>1. CASE UNCHANGED vars
  BY <1>1 DEF vars, nautobot, linkVars, CablingInv, CablingTypeOK, Reality, RealRow,
     LeadsTo, Reached, Wired
<1>2. ASSUME NEW j \in Job, Populate(j) PROVE CablingInv'
  BY <1>2, PopulateKeeps
<1>3. ASSUME NEW j \in Job, Link(j) PROVE CablingInv'
  BY <1>3, TakeResultKeeps, ExamineKeeps, ConnectKeeps, LeaveKeeps DEF Link
<1>. QED BY <1>1, <1>2, <1>3 DEF Next

(* Types hold, and what the jobs and Nautobot know agrees with the wires.  *)
THEOREM CablingInvariant == Spec => []CablingInv
<1>. QED BY CablingInit, CablingNext, PTL DEF Spec

(* Every variable of the cabling jobs keeps its type.                      *)
THEOREM CablingTypeCorrect == Spec => []CablingTypeOK
<1>1. CablingInv => CablingTypeOK
  BY DEF CablingInv
<1>. QED BY <1>1, CablingInvariant, PTL

(* No cable is invented: what the tables, numbers, addresses and names lead*)
(* to is the port at the other end of a wire or an interface with an       *)
(* address that is announced there.                                        *)
THEOREM EveryCableIsReal == Spec => []CablesAreReal
<1>1. ASSUME CablingInv, NEW c \in cables
      PROVE  \E p, q \in Port : Wired(p, q) /\ \E m \in Reached(q) : {c[1], c[2]} = {p, m}
  <2>1. c[1] \in Port /\ c[2] \in Port
    BY <1>1 DEF CablingInv, CablingTypeOK
  <2>2. CASE LeadsTo(c[1], c[2])
    BY <2>1, <2>2 DEF LeadsTo
  <2>3. CASE LeadsTo(c[2], c[1])
    BY <2>1, <2>3 DEF LeadsTo
  <2>. QED BY <1>1, <2>2, <2>3 DEF CablingInv, Reality
<1>2. CablingInv => CablesAreReal
  BY <1>1 DEF CablesAreReal
<1>. QED BY <1>2, CablingInvariant, PTL
---------------------------------------------------------------------------
(* The stages of a job.                                                    *)
Bookkeeping(j) ==
  /\ byIndex[j] \subseteq interfaces \cap PortsOf(site.scanned[j])
  /\ todo[j] \subseteq PortsOf(site.scanned[j])
  /\ stage[j] \in {"interfaces", "addresses"} => devices[j] = site.scanned[j] /\ at[j] = NoBox
  /\ stage[j] = "done" => devices[j] = {} /\ at[j] = NoBox
  /\ at[j] = NoBox => rows[j] = {} /\ pair[j] = NoPair

LEMMA BookkeepingInit == Init => \A j \in Job : Bookkeeping(j)
BY DEF Init, Bookkeeping, PortsOf

LEMMA BookkeepingNext ==
  ASSUME CablingInv, \A j \in Job : Bookkeeping(j), [Next]_vars
  PROVE  \A j \in Job : Bookkeeping(j)'
<1> SUFFICES ASSUME NEW j \in Job PROVE Bookkeeping(j)'
  OBVIOUS
<1> USE DEF CablingInv
<1>1. Bookkeeping(j)
  OBVIOUS
<1>2. CASE UNCHANGED vars
  BY <1>1, <1>2 DEF Bookkeeping, PortsOf, vars, nautobot, linkVars
<1>3. ASSUME NEW i \in Job \ {j}, Populate(i) \/ Link(i) PROVE Bookkeeping(j)'
  <2>1. /\ stage'[j] = stage[j] /\ todo'[j] = todo[j] /\ byIndex'[j] = byIndex[j]
        /\ devices'[j] = devices[j] /\ at'[j] = at[j] /\ rows'[j] = rows[j]
        /\ pair'[j] = pair[j]
    <3>1. CASE Populate(i)
      BY <3>1 DEF Populate, PopulateInterface, InterfacesDone, PopulateAddress, AddressesDone,
         Enter, nautobot, linkVars, CablingTypeOK
    <3>2. CASE Link(i)
      BY <3>2 DEF Link, Connect, NextResult, Done, TakeResult, Examine, Enter, nautobot,
         linkVars, CablingTypeOK
    <3>. QED BY <1>3, <3>1, <3>2
  <2>2. interfaces \subseteq interfaces' /\ site' = site
    BY <1>3 DEF Populate, PopulateInterface, InterfacesDone, PopulateAddress, AddressesDone,
       Link, Connect, NextResult, Done, TakeResult, Examine, nautobot
  <2>. QED BY <1>1, <2>1, <2>2 DEF Bookkeeping, PortsOf
<1>4. CASE Populate(j)
  <2>1. UNCHANGED <<devices, at, rows, pair>>
    BY <1>4 DEF Populate, PopulateInterface, InterfacesDone, PopulateAddress, AddressesDone, linkVars
  <2>2. ASSUME NEW p \in todo[j], PopulateInterface(j, p) PROVE Bookkeeping(j)'
    <3>1. p \in PortsOf(site.scanned[j])
      BY <1>1 DEF Bookkeeping
    <3>. QED BY <1>1, <2>1, <2>2, <3>1
         DEF Bookkeeping, PopulateInterface, CablingTypeOK, PortsOf
  <2>3. CASE InterfacesDone(j)
    BY <1>1, <2>1, <2>3 DEF Bookkeeping, InterfacesDone, Enter, nautobot, CablingTypeOK, PortsOf
  <2>4. ASSUME NEW p \in todo[j], PopulateAddress(j, p) PROVE Bookkeeping(j)'
    BY <1>1, <2>1, <2>4 DEF Bookkeeping, PopulateAddress, CablingTypeOK, PortsOf
  <2>5. CASE AddressesDone(j)
    BY <1>1, <2>1, <2>5 DEF Bookkeeping, AddressesDone, Enter, nautobot, CablingTypeOK, PortsOf
  <2>. QED BY <1>4, <2>2, <2>3, <2>4, <2>5 DEF Populate
<1>5. CASE Link(j)
  <2>1. UNCHANGED <<site, interfaces, todo, byIndex>>
    BY <1>5 DEF Link, Connect, NextResult, Done, TakeResult, Examine, nautobot
  <2>2. ASSUME NEW b \in devices[j], TakeResult(j, b) PROVE Bookkeeping(j)'
    <3>1. b \in Box /\ b # NoBox
      BY CablingAssumption DEF CablingTypeOK
    <3>2. stage'[j] = "link" /\ at'[j] = b
      BY <2>2 DEF TakeResult, CablingTypeOK
    <3>. QED BY <1>1, <2>1, <3>1, <3>2 DEF Bookkeeping, PortsOf
  <2>3. ASSUME NEW row \in rows[j], Examine(j, row) PROVE Bookkeeping(j)'
    BY <1>1, <2>1, <2>3 DEF Bookkeeping, Examine, CablingTypeOK, PortsOf
  <2>4. CASE Connect(j)
    BY <1>1, <2>1, <2>4 DEF Bookkeeping, Connect, CablingTypeOK, PortsOf
  <2>5. CASE NextResult(j)
    BY <1>1, <2>1, <2>5 DEF Bookkeeping, NextResult, CablingTypeOK, PortsOf
  <2>6. CASE Done(j)
    BY <1>1, <2>1, <2>6 DEF Bookkeeping, Done, Enter, linkVars, CablingTypeOK, PortsOf
  <2>. QED BY <1>5, <2>2, <2>3, <2>4, <2>5, <2>6 DEF Link
<1>. QED BY <1>2, <1>3, <1>4, <1>5 DEF Next

(* Cables and what a job knows of its boxes only grow.                     *)
LEMMA CablesStay ==
  ASSUME CablingInv, [Next]_vars, NEW p, Cabled(p)
  PROVE  Cabled(p)'
<1>1. cables \subseteq cables'
  BY DEF Next, vars, Populate, PopulateInterface, InterfacesDone, PopulateAddress, AddressesDone,
     Link, Connect, NextResult, Done, TakeResult, Examine, nautobot
<1>. QED BY <1>1 DEF Cabled

---------------------------------------------------------------------------
(* One interface, one cable.                                               *)

(* What a job has in hand is of the box it is at, a box it scanned.        *)
AtWork(j) ==
  /\ devices[j] \subseteq site.scanned[j]
  /\ \A b \in Box : at[j] = b => /\ b \in site.scanned[j]
                                 /\ rows[j] \subseteq Neighbors(b)
                                 /\ free[j] \subseteq PortsOf({b})

(* The job that links alone: what it took for free still is.               *)
FreshHands(j) ==
  /\ \A row \in rows[j] : row.local \in free[j] => ~Cabled(row.local)
  /\ pair[j] # NoPair =>
       /\ ~Cabled(pair[j][1]) /\ ~Cabled(pair[j][2])
       /\ at[j] # NoBox /\ BoxOf[pair[j][1]] = at[j] /\ BoxOf[pair[j][2]] # at[j]
       /\ \A row \in rows[j] : row.local # pair[j][1]

EndsUnique == \A c, d \in cables : c # d => {c[1], c[2]} \cap {d[1], d[2]} = {}

Alone == PointToPoint /\ OneAtATime

UniqueInv ==
  /\ CablingInv
  /\ \A j \in Job : Bookkeeping(j) /\ AtWork(j)
  /\ Alone => EndsUnique /\ \A j \in Job : FreshHands(j)

LEMMA NeighborsStay ==
  ASSUME NEW b, UNCHANGED site
  PROVE  Neighbors(b)' = Neighbors(b)
BY DEF Neighbors, LldpNeighbors, CdpNeighbors, LldpLocal, Across, Announced, PortsOf

LEMMA AtWorkInit == Init => \A j \in Job : AtWork(j)
BY CablingAssumption DEF Init, AtWork

LEMMA AtWorkNext ==
  ASSUME CablingInv, NEW j \in Job, Bookkeeping(j), AtWork(j), [Next]_vars
  PROVE  AtWork(j)'
<1> USE DEF CablingInv
<1>1. UNCHANGED site
  BY DEF Next, vars, Populate, PopulateInterface, InterfacesDone, PopulateAddress, AddressesDone,
     Link, Connect, NextResult, Done, TakeResult, Examine
<1>2. ASSUME /\ devices'[j] \subseteq devices[j] /\ free'[j] = free[j]
             /\ at'[j] \in {at[j], NoBox} /\ rows'[j] \subseteq rows[j]
      PROVE  AtWork(j)'
  <2> SUFFICES ASSUME NEW b \in Box, at'[j] = b
               PROVE  /\ b \in site.scanned[j] /\ rows'[j] \subseteq Neighbors(b)'
                      /\ free'[j] \subseteq PortsOf({b})
    BY <1>1, <1>2 DEF AtWork, PortsOf
  <2>1. Neighbors(b)' = Neighbors(b)
    BY <1>1, NeighborsStay
  <2>2. at[j] = b
    BY <1>2, CablingAssumption
  <2>. QED BY <1>2, <2>1, <2>2 DEF AtWork
<1>3. CASE UNCHANGED vars
  BY <1>2, <1>3 DEF vars, linkVars
<1>4. ASSUME NEW i \in Job, Populate(i) PROVE AtWork(j)'
  <2>1. UNCHANGED linkVars
    BY <1>4 DEF Populate, PopulateInterface, InterfacesDone, PopulateAddress, AddressesDone
  <2>. QED BY <1>2, <2>1 DEF linkVars
<1>5. ASSUME NEW i \in Job, NEW b \in devices[i], TakeResult(i, b) PROVE AtWork(j)'
  <2>1. CASE i # j
    BY <1>2, <1>5, <2>1 DEF TakeResult, CablingTypeOK
  <2>2. CASE i = j
    <3>1. /\ devices'[j] = devices[j] \ {b} /\ at'[j] = b /\ rows'[j] = Neighbors(b)
          /\ free'[j] = {p \in PortsOf({b}) \cap interfaces : ~Cabled(p)}
      BY <1>5, <2>2 DEF TakeResult, CablingTypeOK
    <3>2. Neighbors(b)' = Neighbors(b)
      BY <1>1, NeighborsStay
    <3>3. b \in site.scanned[j] /\ devices'[j] \subseteq site.scanned[j]
      BY <1>5, <2>2, <3>1 DEF AtWork
    <3>4. \A c \in Box : at'[j] = c => c = b
      BY <3>1
    <3>. QED BY <1>1, <3>1, <3>2, <3>3, <3>4 DEF AtWork, PortsOf
  <2>. QED BY <2>1, <2>2
<1>6. ASSUME NEW i \in Job, NEW row \in rows[i], Examine(i, row) PROVE AtWork(j)'
  BY <1>2, <1>6 DEF Examine, CablingTypeOK
<1>7. ASSUME NEW i \in Job, Connect(i) \/ NextResult(i) \/ Done(i) PROVE AtWork(j)'
  BY <1>2, <1>7 DEF Connect, NextResult, Done, linkVars, CablingTypeOK
<1>. QED BY <1>3, <1>4, <1>5, <1>6, <1>7 DEF Next, Link

(* A port that is in one table and has one neighbor is in one row.         *)
LEMMA OneRowPerPort ==
  ASSUME CablingTypeOK, Alone, NEW b \in Box, NEW r \in Neighbors(b), NEW s \in Neighbors(b),
         r.local = s.local, r.local # NoPort
  PROVE  r = s
<1>1. PICK p \in PortsOf({b}) : \E q \in Across(p) :
           \/ p \in site.lldp /\ r = Announced(LldpLocal(p), q, site.lldpIp[q])
           \/ p \in site.cdp /\ r = Announced(p, q, site.cdpIp[q])
  BY NeighborsAre
<1>2. PICK n \in PortsOf({b}) : \E m \in Across(n) :
           \/ n \in site.lldp /\ s = Announced(LldpLocal(n), m, site.lldpIp[m])
           \/ n \in site.cdp /\ s = Announced(n, m, site.cdpIp[m])
  BY NeighborsAre
<1>3. p = n
  <2>1. r.local \in {p, NoPort}
    BY <1>1 DEF Announced, LldpLocal
  <2>2. s.local \in {n, NoPort}
    BY <1>2 DEF Announced, LldpLocal
  <2>. QED BY <2>1, <2>2
<1>4. \A q, m \in Across(p) : q = m
  <2> SUFFICES ASSUME NEW q \in Across(p), NEW m \in Across(p) PROVE q = m
    OBVIOUS
  <2>1. p \in Port
    BY DEF PortsOf
  <2>2. {p, q} \in site.wires /\ {p, m} \in site.wires /\ p # q /\ p # m
    BY <2>1, AcrossIsWired DEF Wired
  <2>3. {p, q} = {p, m}
    BY <2>2 DEF Alone, PointToPoint
  <2>. QED BY <2>2, <2>3
<1>5. ~(p \in site.lldp /\ p \in site.cdp)
  BY DEF Alone, OneAtATime
<1>6. CASE p \in site.lldp
  <2>1. PICK q \in Across(p) : r = Announced(LldpLocal(p), q, site.lldpIp[q])
    BY <1>1, <1>5, <1>6
  <2>2. PICK m \in Across(p) : s = Announced(LldpLocal(p), m, site.lldpIp[m])
    BY <1>2, <1>3, <1>5, <1>6
  <2>. QED BY <1>4, <2>1, <2>2
<1>7. CASE p \notin site.lldp
  <2>1. PICK q \in Across(p) : r = Announced(p, q, site.cdpIp[q])
    BY <1>1, <1>7
  <2>2. PICK m \in Across(p) : s = Announced(p, m, site.cdpIp[m])
    BY <1>2, <1>3, <1>7
  <2>. QED BY <1>4, <2>1, <2>2
<1>. QED BY <1>6, <1>7

(* All but one of the jobs have nothing to link.                           *)
LEMMA OthersIdle ==
  ASSUME UniqueInv, Alone
  PROVE  \E j \in Job : \A i \in Job \ {j} :
           devices[i] = {} /\ at[i] = NoBox /\ rows[i] = {} /\ pair[i] = NoPair
<1>1. PICK j \in Job : \A i \in Job \ {j} : site.scanned[i] = {}
  BY DEF Alone, OneAtATime
<1>2. ASSUME NEW i \in Job \ {j}
      PROVE  devices[i] = {} /\ at[i] = NoBox /\ rows[i] = {} /\ pair[i] = NoPair
  <2>1. AtWork(i) /\ Bookkeeping(i) /\ at[i] \in Box \cup {NoBox}
    BY <1>2 DEF UniqueInv, CablingInv, CablingTypeOK
  <2>2. devices[i] = {} /\ at[i] = NoBox
    BY <1>1, <1>2, <2>1 DEF AtWork
  <2>. QED BY <2>1, <2>2 DEF Bookkeeping
<1>. QED BY <1>2

LEMMA ExamineIsFresh ==
  ASSUME UniqueInv, Alone, NEW j \in Job, NEW row \in rows[j], Examine(j, row)
  PROVE  FreshHands(j)'
<1> USE DEF UniqueInv, CablingInv
<1>. DEFINE remote == ResolveRemote(row)
            found == row.local \in free[j] /\ remote \notin {NoPort, row.local} /\ ~Cabled(remote)
<1>1. /\ UNCHANGED <<site, cables, at, free>>
      /\ rows' = [rows EXCEPT ![j] = @ \ {row}]
      /\ pair[j] = NoPair
      /\ pair' = [pair EXCEPT ![j] = IF found THEN <<row.local, remote>> ELSE @]
  BY DEF Examine, nautobot
<1>2. /\ at[j] \in Box /\ at[j] # NoBox
      /\ rows[j] \subseteq Neighbors(at[j]) /\ free[j] \subseteq PortsOf({at[j]})
  <2>1. at[j] \in Box /\ at[j] # NoBox
    BY CablingAssumption DEF Bookkeeping, CablingTypeOK
  <2>. QED BY <2>1 DEF AtWork
<1>3. ASSUME found
      PROVE  /\ ~Cabled(row.local) /\ ~Cabled(remote)
             /\ BoxOf[row.local] = at[j] /\ BoxOf[remote] # at[j]
             /\ \A r \in rows[j] : r # row => r.local # row.local
  <2>1. row.local # NoPort /\ row.local \in PortsOf({at[j]})
    BY <1>2, <1>3, CablingAssumption DEF CablingTypeOK
  <2>2. LeadsTo(row.local, remote) /\ row.local \in Port /\ remote \in Port
    BY <1>3, <2>1, FarEndIsReal
  <2>3. PICK q \in Port : Wired(row.local, q) /\ remote \in Reached(q)
    BY <2>2 DEF LeadsTo
  <2>4. BoxOf[remote] = BoxOf[q] /\ BoxOf[q] # BoxOf[row.local]
    BY <2>2, <2>3 DEF Alone, OneAtATime, PortsOf
  <2>5. BoxOf[row.local] = at[j]
    BY <2>1 DEF PortsOf
  <2>6. \A r \in rows[j] : r # row => r.local # row.local
    BY <1>2, <2>1, OneRowPerPort
  <2>7. ~Cabled(row.local)
    BY <1>3 DEF FreshHands
  <2>. QED BY <1>3, <2>4, <2>5, <2>6, <2>7
<1>4. \A r \in rows'[j] : r \in rows[j] /\ r # row
  BY <1>1 DEF CablingTypeOK
<1>5. \A p : Cabled(p)' <=> Cabled(p)
  BY <1>1 DEF Cabled
<1>6. pair'[j] = IF found THEN <<row.local, remote>> ELSE NoPair
  BY <1>1 DEF CablingTypeOK
<1>. HIDE DEF found, remote
<1>. QED BY <1>1, <1>2, <1>3, <1>4, <1>5, <1>6 DEF FreshHands

LEMMA ConnectIsFresh ==
  ASSUME UniqueInv, Alone, NEW j \in Job, Connect(j)
  PROVE  EndsUnique' /\ FreshHands(j)'
<1> USE DEF UniqueInv, CablingInv
<1>. DEFINE p == pair[j][1]
            q == pair[j][2]
            cable == Sorted(pair[j])
<1>1. /\ UNCHANGED <<site, at, free, rows>>
      /\ cables' = cables \/ cables' = cables \cup {cable}
      /\ pair'[j] = NoPair
  BY DEF Connect, CablingTypeOK
<1>2. /\ ~Cabled(p) /\ ~Cabled(q)
      /\ at[j] # NoBox /\ BoxOf[p] = at[j] /\ BoxOf[q] # at[j]
      /\ \A row \in rows[j] : row.local # p
  BY DEF FreshHands, Connect
<1>3. {cable[1], cable[2]} = {p, q}
  BY DEF Sorted
<1>. HIDE DEF cable, p, q
<1>4. EndsUnique'
  <2>1. \A c \in cables : {c[1], c[2]} \cap {cable[1], cable[2]} = {}
    BY <1>2, <1>3 DEF Cabled
  <2>. QED BY <1>1, <2>1 DEF EndsUnique
<1>5. ASSUME NEW row \in rows[j], row.local \in free[j] PROVE ~Cabled(row.local)'
  <2>1. at[j] \in Box
    BY <1>2 DEF CablingTypeOK
  <2>2. BoxOf[row.local] = at[j]
    BY <1>5, <2>1 DEF AtWork, PortsOf
  <2>3. row.local \notin {p, q}
    BY <1>2, <1>5, <2>2
  <2>4. ~Cabled(row.local)
    BY <1>5 DEF FreshHands
  <2>. QED BY <1>1, <1>3, <2>3, <2>4 DEF Cabled
<1>6. FreshHands(j)'
  BY <1>1, <1>5 DEF FreshHands
<1>. QED BY <1>4, <1>6

LEMMA UniqueNext == UniqueInv /\ [Next]_vars => UniqueInv'
<1> SUFFICES ASSUME UniqueInv, [Next]_vars PROVE UniqueInv'
  OBVIOUS
<1>1. CablingInv' /\ \A j \in Job : Bookkeeping(j)' /\ AtWork(j)'
  BY CablingNext, BookkeepingNext, AtWorkNext DEF UniqueInv
<1>2. UNCHANGED site
  BY DEF Next, vars, Populate, PopulateInterface, InterfacesDone, PopulateAddress, AddressesDone,
     Link, Connect, NextResult, Done, TakeResult, Examine
<1>3. Alone' => Alone
  BY <1>2 DEF Alone, PointToPoint, OneAtATime, Wired, Reached, PortsOf
<1>4. SUFFICES ASSUME Alone PROVE EndsUnique' /\ \A j \in Job : FreshHands(j)'
  BY <1>1, <1>3 DEF UniqueInv
<1>5. EndsUnique /\ \A j \in Job : FreshHands(j)
  BY <1>4 DEF UniqueInv
<1>6. PICK k \in Job : \A i \in Job \ {k} :
        devices[i] = {} /\ at[i] = NoBox /\ rows[i] = {} /\ pair[i] = NoPair
  BY <1>4, OthersIdle
<1>7. ASSUME UNCHANGED <<cables, rows, pair>>, UNCHANGED <<at, free>>
      PROVE  EndsUnique' /\ \A j \in Job : FreshHands(j)'
  BY <1>5, <1>7 DEF EndsUnique, FreshHands, Cabled
<1>8. CASE UNCHANGED vars
  BY <1>7, <1>8 DEF vars, nautobot, linkVars
<1>9. ASSUME NEW i \in Job, Populate(i) PROVE EndsUnique' /\ \A j \in Job : FreshHands(j)'
  <2>1. UNCHANGED <<cables, rows, pair, at, free>>
    BY <1>9 DEF Populate, PopulateInterface, InterfacesDone, PopulateAddress, AddressesDone,
       nautobot, linkVars
  <2>. QED BY <1>7, <2>1
<1>10. ASSUME NEW i \in Job, Link(i) PROVE EndsUnique' /\ \A j \in Job : FreshHands(j)'
  <2>1. CASE Done(i)
    BY <1>7, <2>1 DEF Done, nautobot, linkVars
  <2>2. i = k \/ Done(i)
    BY <1>6, <1>10 DEF Link, Connect, NextResult
  <2>3. ASSUME NEW j \in Job \ {i}, ~Done(i) PROVE FreshHands(j)'
    <3>1. rows[j] = {} /\ pair[j] = NoPair
      BY <1>6, <2>2, <2>3
    <3>2. rows'[j] = rows[j] /\ pair'[j] = pair[j]
      BY <1>10, <2>3 DEF Link, Connect, NextResult, TakeResult, Examine, UniqueInv, CablingInv,
         CablingTypeOK
    <3>. QED BY <3>1, <3>2 DEF FreshHands
  <2>4. ASSUME NEW b \in devices[i], TakeResult(i, b) PROVE EndsUnique' /\ FreshHands(i)'
    <3>1. /\ cables' = cables /\ pair' = pair /\ at[i] = NoBox
          /\ free'[i] = {p \in PortsOf({b}) \cap interfaces : ~Cabled(p)}
      BY <2>4 DEF TakeResult, nautobot, UniqueInv, CablingInv, CablingTypeOK
    <3>2. pair[i] = NoPair
      BY <3>1 DEF UniqueInv, Bookkeeping
    <3>. QED BY <1>5, <3>1, <3>2 DEF EndsUnique, FreshHands, Cabled
  <2>5. ASSUME NEW row \in rows[i], Examine(i, row) PROVE EndsUnique' /\ FreshHands(i)'
    <3>1. cables' = cables
      BY <2>5 DEF Examine, nautobot
    <3>. QED BY <1>4, <1>5, <2>5, <3>1, ExamineIsFresh DEF EndsUnique
  <2>6. ASSUME Connect(i) PROVE EndsUnique' /\ FreshHands(i)'
    BY <1>4, <2>6, ConnectIsFresh
  <2>7. ASSUME NextResult(i) PROVE EndsUnique' /\ FreshHands(i)'
    <3>1. /\ cables' = cables /\ rows' = rows /\ pair' = pair
          /\ rows[i] = {} /\ pair[i] = NoPair
      BY <2>7 DEF NextResult, nautobot
    <3>. QED BY <1>5, <3>1 DEF EndsUnique, FreshHands
  <2>. QED BY <1>10, <2>1, <2>3, <2>4, <2>5, <2>6, <2>7 DEF Link
<1>. QED BY <1>8, <1>9, <1>10 DEF Next

(* With addresses of the ports themselves a cable is a wire; two that share*)
(* a port are one wire, and the order of the ends makes them one cable.    *)
LEMMA OneCable ==
  ASSUME CablingInv, PointToPoint, PortAddresses, NEW c \in cables, NEW d \in cables,
         {c[1], c[2]} \cap {d[1], d[2]} # {}
  PROVE  c = d
<1> USE DEF CablingInv
<1>1. \A p, m \in Port : LeadsTo(p, m) => {p, m} \in site.wires
  BY DEF LeadsTo, PortAddresses, Wired
<1>2. /\ c \in Port \X Port /\ c[1] < c[2] /\ {c[1], c[2]} \in site.wires
      /\ d \in Port \X Port /\ d[1] < d[2] /\ {d[1], d[2]} \in site.wires
  <2>1. \A e \in cables : e \in Port \X Port /\ e[1] < e[2] /\ {e[1], e[2]} \in site.wires
    <3> SUFFICES ASSUME NEW e \in cables
                 PROVE  e \in Port \X Port /\ e[1] < e[2] /\ {e[1], e[2]} \in site.wires
      OBVIOUS
    <3>1. e \in Port \X Port /\ e[1] < e[2] /\ (LeadsTo(e[1], e[2]) \/ LeadsTo(e[2], e[1]))
      BY DEF CablingTypeOK, Reality
    <3>2. {e[1], e[2]} = {e[2], e[1]}
      OBVIOUS
    <3>. QED BY <1>1, <3>1, <3>2
  <2>. QED BY <2>1
<1>3. {c[1], c[2]} = {d[1], d[2]}
  BY <1>2 DEF PointToPoint
<1>4. c[1] = d[1] /\ c[2] = d[2]
  BY <1>2, <1>3, CablingAssumption
<1>. QED BY <1>2, <1>4

(* An interface never gets a second cable: with addresses of the ports     *)
(* themselves, however many jobs link the same boxes at the same time; and *)
(* with any addresses of the neighbor, when one job hears of it once.      *)
THEOREM CableEndsAreUnique == Spec => []CableEndsUnique
<1>1. Init => UniqueInv
  <2> SUFFICES ASSUME Init PROVE UniqueInv
    OBVIOUS
  <2>1. cables = {} /\ \A j \in Job : rows[j] = {} /\ pair[j] = NoPair
    BY DEF Init
  <2>. QED BY <2>1, CablingInit, BookkeepingInit, AtWorkInit DEF UniqueInv, EndsUnique, FreshHands
<1>2. UniqueInv => CableEndsUnique
  BY OneCable DEF UniqueInv, Alone, EndsUnique, CableEndsUnique
<1>. QED BY <1>1, <1>2, UniqueNext, PTL DEF Spec
---------------------------------------------------------------------------
(* What must end cabled, as LinksAreCabled says.                           *)
Joinable(j, p, q) ==
  /\ p \in byIndex[j] /\ q \in byIndex[j] \cap site.named
  /\ Wired(p, q) /\ p \notin Reached(q)
  /\ p \in site.cdp \/ (p \in site.lldp /\ BoxOf[p] \in site.column)
  /\ FindDevice(BoxOf[q]) # NoBox

Settled(p, q) == Cabled(p) \/ \E m \in Reached(q) : Cabled(m)

Announces(p, q, row) ==
  \E ip \in {site.lldpIp[q], site.cdpIp[q]} : row = Announced(p, q, ip)

(* On its way: the result, the row of the neighbor table or the pair is    *)
(* still in the hands of the job.                                          *)
OnItsWay(j, p, q) ==
  \/ Settled(p, q)
  \/ BoxOf[p] \in devices[j]
  \/ at[j] = BoxOf[p] /\ p \in free[j] /\ \E row \in rows[j] : Announces(p, q, row)
  \/ pair[j][1] = p /\ pair[j][2] \in Reached(q)

LinksInv ==
  /\ CablingInv
  /\ \A j \in Job : Bookkeeping(j)
  /\ \A j \in Job : \A p, q \in Port : Joinable(j, p, q) => OnItsWay(j, p, q)

LEMMA JoinableIsWired ==
  ASSUME CablingInv, NEW j \in Job, NEW p \in Port, NEW q \in Port, Joinable(j, p, q)
  PROVE  /\ Wired(p, q) /\ q \in Across(p)
         /\ \E row \in Neighbors(BoxOf[p]) : Announces(p, q, row)
<1>1. p # q
  BY DEF Joinable, Wired
<1>2. q \in Across(p)
  BY <1>1 DEF Joinable, Wired, Across
<1>3. \E row \in Neighbors(BoxOf[p]) : Announces(p, q, row)
  <2>1. p \in PortsOf({BoxOf[p]})
    BY DEF PortsOf
  <2>2. CASE p \in site.cdp
    BY <1>2, <2>1, <2>2 DEF Neighbors, CdpNeighbors, Announces
  <2>3. CASE p \in site.lldp /\ BoxOf[p] \in site.column
    BY <1>2, <2>1, <2>3 DEF Neighbors, LldpNeighbors, LldpLocal, Announces
  <2>. QED BY <2>2, <2>3 DEF Joinable
<1>. QED BY <1>1, <1>2, <1>3 DEF Joinable, Wired

(* Cables and what a port leads to only grow.                              *)
LEMMA SettledStays ==
  ASSUME CablingInv, [Next]_vars, NEW p, NEW q, Settled(p, q)
  PROVE  Settled(p, q)'
<1>1. site' = site
  BY DEF Next, vars, Populate, PopulateInterface, InterfacesDone, PopulateAddress, AddressesDone,
     Link, Connect, NextResult, Done, TakeResult, Examine
<1>. QED BY <1>1, CablesStay DEF Settled, Reached

(* While a job links, what it must join does not change.                   *)
LEMMA LinkKeepsJoinable ==
  ASSUME NEW i \in Job, Link(i), NEW j \in Job, NEW p \in Port, NEW q \in Port, Joinable(j, p, q)'
  PROVE  Joinable(j, p, q)
<1>1. UNCHANGED <<byIndex, site>>
  BY DEF Link, Connect, NextResult, Done, TakeResult, Examine
<1>. QED BY <1>1 DEF Joinable, FindDevice, Wired, Reached

LEMMA ExamineJoins ==
  ASSUME CablingInv, NEW j \in Job, Bookkeeping(j), NEW row \in rows[j], Examine(j, row),
         NEW p \in Port, NEW q \in Port, Joinable(j, p, q), OnItsWay(j, p, q)
  PROVE  OnItsWay(j, p, q)'
<1> USE DEF CablingInv
<1>1. /\ UNCHANGED <<site, cables, devices, at, free>>
      /\ rows'[j] = rows[j] \ {row}
      /\ pair[j] = NoPair
  BY DEF Examine, nautobot, CablingTypeOK
<1>2. CASE Settled(p, q) \/ BoxOf[p] \in devices[j]
  BY <1>1, <1>2 DEF OnItsWay, Settled, Reached, Cabled
<1>3. CASE /\ at[j] = BoxOf[p] /\ p \in free[j]
           /\ \E r \in rows[j] : r # row /\ Announces(p, q, r)
  BY <1>1, <1>3 DEF OnItsWay, Announces, Announced
<1>4. CASE p \in free[j] /\ Announces(p, q, row) /\ ~Settled(p, q)
  <2>. DEFINE m == ResolveRemote(row)
  <2>1. q \in interfaces /\ q \in site.named /\ FindDevice(BoxOf[q]) # NoBox /\ p \notin Reached(q)
    BY DEF Joinable, Bookkeeping
  <2>2. PICK ip \in {site.lldpIp[q], site.cdpIp[q]} : row = Announced(p, q, ip)
    BY <1>4 DEF Announces
  <2>3. row.local = p /\ row.box = BoxOf[q] /\ row.port = q /\ row.ip = ip
    BY <2>1, <2>2 DEF Announced
  <2>4. m \in Port /\ m \in Reached(q)
    <3>1. CASE ip # NoAddress /\ assigned[ip] # NoPort
      <4>1. ip \in Address
        BY <3>1, SiteTypes DEF SomeAddress
      <4>2. assigned[ip] \in Port /\ site.address[assigned[ip]] = ip
        BY <3>1, <4>1 DEF CablingTypeOK, Reality, End
      <4>. QED BY <2>2, <2>3, <3>1, <4>2 DEF ResolveRemote, Reached
    <3>2. CASE ~(ip # NoAddress /\ assigned[ip] # NoPort)
      <4>1. m = q
        BY <2>1, <2>3, <3>2 DEF ResolveRemote
      <4>. QED BY <4>1 DEF Reached
    <3>. QED BY <3>1, <3>2
  <2>5. m \notin {NoPort, p} /\ ~Cabled(m)
    BY <1>4, <2>1, <2>4, CablingAssumption DEF Settled
  <2>6. pair'[j] = <<p, m>>
    BY <1>4, <2>3, <2>5 DEF Examine, CablingTypeOK
  <2>. HIDE DEF m
  <2>. QED BY <1>1, <2>4, <2>6 DEF OnItsWay, Reached
<1>5. pair[j][1] # p
  BY <1>1, CablingAssumption DEF NoPair
<1>. QED BY <1>2, <1>3, <1>4, <1>5 DEF OnItsWay

LEMMA ConnectJoins ==
  ASSUME CablingInv, NEW j \in Job, Connect(j),
         NEW p \in Port, NEW q \in Port, Joinable(j, p, q), OnItsWay(j, p, q)
  PROVE  OnItsWay(j, p, q)'
<1>1. UNCHANGED <<site, devices, at, free, rows>> /\ cables \subseteq cables'
  BY DEF Connect
<1>2. CASE \/ BoxOf[p] \in devices[j]
           \/ at[j] = BoxOf[p] /\ p \in free[j] /\ \E row \in rows[j] : Announces(p, q, row)
  BY <1>1, <1>2 DEF OnItsWay, Announces, Announced
<1>3. CASE Settled(p, q)
  BY <1>1, <1>3 DEF OnItsWay, Settled, Reached, Cabled
<1>4. CASE pair[j][1] = p /\ pair[j][2] \in Reached(q)
  <2>. DEFINE m == pair[j][2]
              cable == Sorted(pair[j])
  <2>1. \E c \in cables' : p \in {c[1], c[2]} \/ m \in {c[1], c[2]}
    <3>1. cable[1] \in {p, m} /\ cable[2] \in {p, m} /\ p \in {cable[1], cable[2]}
      BY <1>4 DEF Sorted
    <3>. HIDE DEF cable, m
    <3>2. CASE Refused(cable)
      <4>1. PICK c \in cables : c[1] = cable[1] \/ c[2] = cable[2]
        BY <3>2 DEF Refused
      <4>. QED BY <1>1, <3>1, <4>1
    <3>3. CASE ~Refused(cable)
      <4>1. cable \in cables'
        BY <3>3 DEF Connect, cable
      <4>. QED BY <3>1, <4>1
    <3>. QED BY <3>2, <3>3
  <2>2. m \in Reached(q)'
    BY <1>1, <1>4 DEF Reached
  <2>. HIDE DEF m
  <2>. QED BY <2>1, <2>2 DEF OnItsWay, Settled, Cabled
<1>. QED BY <1>2, <1>3, <1>4 DEF OnItsWay

LEMMA TakeResultJoins ==
  ASSUME CablingInv, NEW j \in Job, Bookkeeping(j), NEW b \in devices[j], TakeResult(j, b),
         NEW p \in Port, NEW q \in Port, Joinable(j, p, q), OnItsWay(j, p, q)
  PROVE  OnItsWay(j, p, q)'
<1> USE DEF CablingInv
<1>1. /\ at[j] = NoBox /\ pair[j] = NoPair /\ UNCHANGED <<site, cables>>
      /\ devices'[j] = devices[j] \ {b} /\ at'[j] = b
      /\ free'[j] = {r \in PortsOf({b}) \cap interfaces : ~Cabled(r)}
      /\ rows'[j] = Neighbors(b)
  BY DEF TakeResult, nautobot, CablingTypeOK, Bookkeeping
<1>2. BoxOf[p] # NoBox /\ NoPair[1] # p
  BY CablingAssumption DEF NoPair
<1>3. CASE Settled(p, q)
  BY <1>1, <1>3 DEF OnItsWay, Settled, Reached, Cabled
<1>4. CASE BoxOf[p] \in devices[j] /\ BoxOf[p] # b
  BY <1>1, <1>4 DEF OnItsWay
<1>5. CASE BoxOf[p] = b /\ ~Settled(p, q)
  <2>1. p \in PortsOf({b}) \cap interfaces /\ ~Cabled(p)
    BY <1>5 DEF Joinable, Bookkeeping, PortsOf, Settled
  <2>2. \E row \in Neighbors(b) : Announces(p, q, row)
    BY <1>5, JoinableIsWired
  <2>3. \E row \in rows'[j] : Announces(p, q, row)'
    BY <1>1, <2>2 DEF Announces, Announced
  <2>. QED BY <1>1, <1>5, <2>1, <2>3 DEF OnItsWay
<1>6. Settled(p, q) \/ BoxOf[p] \in devices[j]
  BY <1>1, <1>2 DEF OnItsWay
<1>. QED BY <1>3, <1>4, <1>5, <1>6

LEMMA LinksNext == LinksInv /\ [Next]_vars => LinksInv'
<1> SUFFICES ASSUME LinksInv, [Next]_vars PROVE LinksInv'
  OBVIOUS
<1>1. CablingInv /\ CablingInv' /\ \A j \in Job : Bookkeeping(j) /\ Bookkeeping(j)'
  BY CablingNext, BookkeepingNext DEF LinksInv
<1>2. SUFFICES ASSUME NEW j \in Job, NEW p \in Port, NEW q \in Port, Joinable(j, p, q)'
               PROVE  OnItsWay(j, p, q)'
  BY <1>1 DEF LinksInv
<1>3. CASE UNCHANGED vars
  <2>1. Joinable(j, p, q) /\ OnItsWay(j, p, q)
    BY <1>2, <1>3 DEF LinksInv, Joinable, FindDevice, Wired, Reached, vars
  <2>. QED BY <1>3, <2>1 DEF OnItsWay, Settled, Reached, Cabled, Announces, Announced, vars,
       nautobot, linkVars
<1>4. ASSUME NEW i \in Job, Link(i) PROVE OnItsWay(j, p, q)'
  <2>1. Joinable(j, p, q) /\ OnItsWay(j, p, q)
    BY <1>2, <1>4, LinkKeepsJoinable DEF LinksInv
  <2>2. CASE i # j
    <3>1. /\ devices'[j] = devices[j] /\ at'[j] = at[j] /\ rows'[j] = rows[j]
          /\ pair'[j] = pair[j] /\ free'[j] = free[j] /\ site' = site
      BY <1>1, <1>4, <2>2 DEF Link, Connect, NextResult, Done, TakeResult, Examine,
         linkVars, CablingInv, CablingTypeOK
    <3>2. Settled(p, q) => Settled(p, q)'
      BY <1>1, SettledStays
    <3>. QED BY <2>1, <3>1, <3>2 DEF OnItsWay, Announces, Announced, Reached
  <2>3. CASE i = j /\ (NextResult(j) \/ Done(j))
    <3>1. /\ UNCHANGED <<site, cables, devices, free, rows, pair>>
          /\ NextResult(j) => rows[j] = {} /\ at' = [at EXCEPT ![j] = NoBox]
          /\ Done(j) => at' = at
      BY <2>3 DEF NextResult, Done, nautobot, linkVars
    <3>. QED BY <2>1, <2>3, <3>1 DEF OnItsWay, Announces, Announced, Settled, Reached, Cabled
  <2>. QED BY <1>1, <1>4, <2>1, <2>2, <2>3, ExamineJoins, ConnectJoins, TakeResultJoins DEF Link
<1>5. ASSUME NEW i \in Job, Populate(i) PROVE OnItsWay(j, p, q)'
  <2>1. UNCHANGED <<site, cables, devices, at, free, rows, pair>>
    BY <1>5 DEF Populate, PopulateInterface, InterfacesDone, PopulateAddress, AddressesDone,
       nautobot, linkVars
  <2>2. CASE Joinable(j, p, q)
    BY <1>1, <2>1, <2>2 DEF LinksInv, OnItsWay, Settled, Reached, Cabled,
       Announces, Announced
  <2>3. CASE ~Joinable(j, p, q)
    <3>1. byIndex'[j] # byIndex[j]
      BY <1>2, <2>1, <2>3 DEF Joinable, FindDevice, Wired, Reached
    <3>2. i = j /\ stage[j] = "interfaces"
      BY <1>1, <1>5, <3>1 DEF Populate, PopulateInterface, InterfacesDone, PopulateAddress,
         AddressesDone, CablingInv, CablingTypeOK
    <3>3. BoxOf[p] \in site.scanned[j]
      BY <1>1, <1>2, <2>1 DEF Joinable, Bookkeeping, PortsOf
    <3>. QED BY <1>1, <2>1, <3>2, <3>3 DEF Bookkeeping, OnItsWay
  <2>. QED BY <2>2, <2>3
<1>. QED BY <1>3, <1>4, <1>5 DEF Next

(* A wire whose row can be resolved is passed over only when one of the    *)
(* interfaces it could have joined has a cable, whoever made it and however*)
(* the jobs interleave.                                                    *)
THEOREM LinksEndCabled == Spec => []LinksAreCabled
<1>1. Init => LinksInv
  <2>1. Init => \A j \in Job : byIndex[j] = {}
    BY DEF Init
  <2>. QED BY <2>1, CablingInit, BookkeepingInit DEF LinksInv, Joinable
<1>2. LinksInv => LinksAreCabled
  <2> SUFFICES ASSUME LinksInv, NEW j \in Job, stage[j] = "done",
                      NEW p \in byIndex[j], NEW q \in byIndex[j] \cap site.named,
                      Joinable(j, p, q)
               PROVE  Settled(p, q)
    BY DEF LinksAreCabled, Joinable, Settled
  <2>1. p \in Port /\ q \in Port
    BY DEF LinksInv, CablingInv, CablingTypeOK
  <2>2. devices[j] = {} /\ rows[j] = {} /\ pair[j] = NoPair
    BY DEF LinksInv, Bookkeeping
  <2>. QED BY <2>1, <2>2, CablingAssumption DEF LinksInv, OnItsWay, NoPair
<1>. QED BY <1>1, <1>2, LinksNext, PTL DEF Spec
=============================================================================
