--------------------------- MODULE CrawlDiscovery ---------------------------
(***************************************************************************)
(* CrawlDiscoveryJob.run: a breadth-first walk over the LLDP/CDP neighbors *)
(* from a seed device.  Each level is a pool of threads that is joined;    *)
(* the threads share the visited set under a lock and interleave in        *)
(* finalize_discovery (module Finalize).  A neighbor without a usable      *)
(* address is looked up by name, in DNS and then in the Device table, so   *)
(* what a level creates decides where the next one goes.                   *)
(*                                                                         *)
(* Every address is one a crawl may come to, so Host = Ip.  The order in   *)
(* which a thread considers the entries of one neighbor table is left      *)
(* open.  Linking cables after the last level is module Cabling.           *)
(***************************************************************************)
EXTENDS Finalize, FiniteSets

CONSTANTS
  SeedDevice,  \* the Nautobot device the crawl starts from
  NoInfo,      \* the collector returned nothing
  NoHop,       \* not visited
  Workers,     \* concurrency
  Sees,        \* host -> what an SNMP probe may return
  Topologies,  \* neighbor tables: host -> set of entries
  Dns,         \* what the resolver says of a name
  Forms,       \* inputs of the job
  Inventories, Ledgers, Jobs

(* An LLDP/CDP entry, as far as a crawl uses it.  NoIp: the entry has no   *)
(* management address, or one that does not parse.                         *)
Neighbor == [ip : Host \cup {NoIp}, name : Name \cup {NoName}]

Form == [seedIp : Host \cup {NoIp}, maxDepth : Nat \ {0}, maxDevices : Nat \ {0},
         neighbors : BOOLEAN]

ASSUME CrawlAssumption ==
  /\ Host = Ip
  /\ SeedDevice \in Seed
  /\ NoInfo \notin Identity
  /\ NoHop \notin Nat
  /\ Workers \in Nat \ {0}
  /\ Sees \in [Host -> SUBSET (Identity \cup {NoInfo})]
  /\ Topologies \subseteq [Host -> SUBSET Neighbor]
  /\ Dns \in [Name -> Host \cup {NoIp}]
  /\ Forms \subseteq Form
  /\ Jobs \subseteq Options
  /\ Name # {}

ASSUME CrawlStart ==
  /\ \A inv \in Inventories :
       /\ inv \in Inventory
       /\ inv[SeedDevice] # NoDevice
       /\ \A key \in Host \X Method : inv[key] = NoDevice
  /\ Ledgers \subseteq [Host -> LedgerRow \cup {NoRow}]
  /\ \A led \in Ledgers, inv \in Inventories, h \in Host :
       led[h] # NoRow => led[h].device \in Rows(inv) \cup {NoDevice}

VARIABLES
  form,     \* the crawl's inputs
  links,    \* the neighbor tables of the network
  hop,      \* visited, with the level in which each address was queued
  level,    \* the addresses of the level being crawled
  depth,
  pending,  \* the neighbors a thread has yet to consider
  next,     \* next_ips of each thread
  stage,    \* "start", "crawl", "completed", "rejected"
  totals,   \* the counters
  scan      \* the DiscoveryScan row

crawlVars == <<form, links, hop, level, depth, pending, next, stage, totals, scan>>
vars == <<crawlVars, finalizeVars>>

Visited == {h \in Host : hop[h] # NoHop}

Scan == [status : {"none", "running", "completed"}, discovered : Nat, created : Nat]

Init ==
  /\ opts \in Jobs
  /\ inventory \in Inventories
  /\ ledger \in Ledgers
  /\ results = {}
  /\ work = [h \in Host |-> Idle]
  /\ form \in Forms
  /\ links \in Topologies
  /\ hop = [h \in Host |-> NoHop]
  /\ level = {}
  /\ depth = 0
  /\ pending = [h \in Host |-> {}]
  /\ next = [h \in Host |-> {}]
  /\ stage = "start"
  /\ totals = NoTotals
  /\ scan = [status |-> "none", discovered |-> 0, created |-> 0]
---------------------------------------------------------------------------
(* The override of the form wins over the device's primary IP.             *)
StartIp == IF form.seedIp # NoIp THEN form.seedIp ELSE PrimaryHost(inventory[SeedDevice])

Start ==
  /\ stage = "start"
  /\ StartIp # NoIp
  /\ hop' = [hop EXCEPT ![StartIp] = 0]
  /\ level' = {StartIp}
  /\ stage' = "crawl"
  /\ scan' = [scan EXCEPT !.status = "running"]
  /\ UNCHANGED <<finalizeVars, form, links, depth, pending, next, totals>>

(* Without an address the job returns an error and leaves no scan.         *)
Reject ==
  /\ stage = "start"
  /\ StartIp = NoIp
  /\ stage' = "rejected"
  /\ UNCHANGED <<finalizeVars, form, links, hop, level, depth, pending, next, totals, scan>>

Busy == {h \in Host : Running(h) \/ pending[h] # {}}

(* A slot of the pool takes an address of the level.                       *)
Takes(h) ==
  /\ stage = "crawl"
  /\ h \in level
  /\ At(h, "idle")
  /\ Cardinality(Busy) < Workers

Silent(h) ==
  /\ Takes(h)
  /\ NoInfo \in Sees[h]
  /\ Leave(h)
  /\ UNCHANGED <<crawlVars, opts, inventory, ledger, results>>

Probe(h) ==
  /\ Takes(h)
  /\ \E id \in Sees[h] \ {NoInfo} : Enter(h, "snmp", id)
  /\ totals' = [totals EXCEPT !.discovered = @ + 1]
  /\ UNCHANGED <<opts, inventory, ledger, results,
                 form, links, hop, level, depth, pending, next, stage, scan>>

(* Whether a thread goes on to the neighbors of its host.                  *)
Follows == form.neighbors /\ depth + 1 < form.maxDepth

(* finalize_discovery returned: the result is counted and the thread goes  *)
(* on to the neighbors, unless this is the last level.                     *)
Record(h) ==
  /\ RecordResult(h)
  /\ totals' = Count(totals, h)
  /\ pending' = [pending EXCEPT ![h] = IF Follows THEN links[h] ELSE {}]
  /\ UNCHANGED <<form, links, hop, level, depth, next, stage, scan>>

(* neighbor_management_ip: the entry's own address, else what DNS says of  *)
(* its name, else the primary IP of the first device of that name.         *)
ManagementIps(n) ==
  LET named == {d \in Rows(inventory) : SameName(inventory, d, n.name)}
  IN  IF n.ip # NoIp THEN {n.ip}
      ELSE IF n.name = NoName THEN {NoIp}
      ELSE IF Dns[n.name] # NoIp THEN {Dns[n.name]}
      ELSE IF named = {} THEN {NoIp}
      ELSE {PrimaryHost(inventory[d]) : d \in named}

(* Mutant: the cap is not looked at.                                       *)
AdmitsUncapped(ip) == hop[ip] = NoHop

(* The test made under the lock, with the update that follows it.          *)
Admits(ip) == hop[ip] = NoHop /\ Cardinality(Visited) < form.maxDevices

(* Mutant: an address is queued but not put into the visited set.          *)
ConsiderUnmarked(h, n) ==
  /\ n \in pending[h]
  /\ \E ip \in ManagementIps(n) :
       next' = IF ip # NoIp /\ Admits(ip) THEN [next EXCEPT ![h] = @ \cup {ip}] ELSE next
  /\ pending' = [pending EXCEPT ![h] = @ \ {n}]
  /\ UNCHANGED <<finalizeVars, form, links, hop, level, depth, stage, totals, scan>>

Consider(h, n) ==
  /\ n \in pending[h]
  /\ \E ip \in ManagementIps(n) :
       IF ip # NoIp /\ Admits(ip)
       THEN /\ hop' = [hop EXCEPT ![ip] = depth + 1]
            /\ next' = [next EXCEPT ![h] = @ \cup {ip}]
       ELSE UNCHANGED <<hop, next>>
  /\ pending' = [pending EXCEPT ![h] = @ \ {n}]
  /\ UNCHANGED <<finalizeVars, form, links, level, depth, stage, totals, scan>>

Failed == totals' = [totals EXCEPT !.failed = @ + 1]

(* finalize_discovery raises.                                              *)
FinalizationRaises(h) ==
  /\ FinalizeRaises(h)
  /\ Failed
  /\ UNCHANGED <<form, links, hop, level, depth, pending, next, stage, scan>>

(* The probe raises.                                                       *)
ProbeRaises(h) ==
  /\ Faults
  /\ Takes(h)
  /\ Leave(h)
  /\ Failed
  /\ UNCHANGED <<opts, inventory, ledger, results,
                 form, links, hop, level, depth, pending, next, stage, scan>>

(* The lookup of a neighbor raises: the thread returns no neighbor at all, *)
(* those it has put into the visited set stay there.                       *)
ConsiderRaises(h) ==
  /\ Faults
  /\ pending[h] # {}
  /\ pending' = [pending EXCEPT ![h] = {}]
  /\ next' = [next EXCEPT ![h] = {}]
  /\ Failed
  /\ UNCHANGED <<finalizeVars, form, links, hop, level, depth, stage, scan>>
---------------------------------------------------------------------------
(* Mutant: the level ends with the first thread that is done.              *)
JoinedByOne == \E h \in level : At(h, "done") /\ pending[h] = {}

(* Mutant: the level waits for a result of every address.                  *)
JoinedByResult == \A h \in level : pending[h] = {} /\ \E r \in results : r.host = h

(* Every future of the level is done.                                      *)
Joined == \A h \in level : At(h, "done") /\ pending[h] = {}

Queue == UNION {next[h] : h \in level}

GoesOn == Queue # {} /\ depth + 1 < form.maxDepth /\ Cardinality(Visited) < form.maxDevices

NextLevel ==
  /\ stage = "crawl"
  /\ Joined
  /\ GoesOn
  /\ level' = Queue
  /\ next' = [h \in Host |-> {}]
  /\ depth' = depth + 1
  /\ UNCHANGED <<finalizeVars, form, links, hop, pending, stage, totals, scan>>

Complete ==
  /\ stage = "crawl"
  /\ Joined
  /\ ~GoesOn
  /\ stage' = "completed"
  /\ scan' = [status |-> "completed", discovered |-> totals.discovered,
              created |-> totals.created]
  /\ UNCHANGED <<finalizeVars, form, links, hop, level, depth, pending, next, totals>>
---------------------------------------------------------------------------
Thread(h) ==
  \/ Silent(h) \/ Probe(h) \/ ProbeRaises(h)
  \/ FinalizeStep(h) /\ UNCHANGED crawlVars
  \/ Record(h) \/ FinalizationRaises(h)
  \/ \E n \in pending[h] : Consider(h, n)
  \/ ConsiderRaises(h)

Engine == Start \/ Reject \/ NextLevel \/ Complete

Next == Engine \/ \E h \in Host : Thread(h)

Spec == Init /\ [][Next]_vars

(* A probe has a timeout, so a thread that runs comes to an end.           *)
FairSpec == Spec /\ WF_vars(Engine) /\ \A h \in Host : WF_vars(Thread(h))
---------------------------------------------------------------------------
(* Properties.                                                             *)

(* Types: the visited set, the level queue and each thread's next_ips hold *)
(* addresses that were visited; what is pending are entries of the table.  *)
CrawlTypeOK ==
  /\ FinalizeTypeOK
  /\ form \in Form
  /\ hop \in [Host -> Nat \cup {NoHop}]
  /\ level \subseteq Visited
  /\ depth \in Nat
  /\ next \in [Host -> SUBSET Visited]
  /\ pending \in [Host -> SUBSET Neighbor]
  /\ \A h \in Host : pending[h] \subseteq links[h]
  /\ stage \in {"start", "crawl", "completed", "rejected"}
  /\ totals \in Totals
  /\ scan \in Scan

(* The crawl stays within its caps whatever its threads do: no address is  *)
(* probed twice, none is further away than the depth or beyond the cap, and*)
(* each was reported by a device that was recorded (refinement).           *)
Bounded == INSTANCE BoundedCrawl WITH
  Address    <- Host,
  Unreached  <- NoHop,
  bound      <- form,
  discovered <- {r.host : r \in results},
  over       <- stage = "completed"

KeepsBounds == Bounded!BSpec

(* Nothing within reach is lost: a completed crawl that reports no failure *)
(* and ended below its cap has taken every visited address, and each       *)
(* neighbor with an address of a recorded host before the last hop was     *)
(* visited no later than one hop after it.                                 *)
CrawlCovers ==
  stage = "completed" /\ totals.failed = 0 /\ Cardinality(Visited) < form.maxDevices =>
    /\ \A h \in Visited : At(h, "done")
    /\ \A r \in results : form.neighbors /\ hop[r.host] + 1 < form.maxDepth =>
         \A n \in links[r.host] : n.ip # NoIp =>
           n.ip \in Visited /\ hop[n.ip] <= hop[r.host] + 1

(* A crawl comes to its end on every network, circular ones included.      *)
CrawlEnds == <>(stage \in {"completed", "rejected"})
=============================================================================
