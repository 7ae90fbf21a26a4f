---------------------------- MODULE CrawlProofs ----------------------------
(***************************************************************************)
(* The crawl's invariants hold for every network, every pool and every cap,*)
(* and the crawl implements BoundedCrawl.  The inductive invariant says    *)
(* how the level in progress, the threads on it and the visited set belong *)
(* together: only addresses of the level are worked on, they are all depth *)
(* hops away, and what they report is one hop further.                     *)
(***************************************************************************)
EXTENDS CrawlDiscovery, FinalizeProofs, FiniteSetTheorems

(* Before the start nothing was visited, and the seed device is there.     *)
NotBegun ==
  stage = "start" => /\ Visited = {} /\ level = {} /\ depth = 0 /\ results = {}
                     /\ SeedDevice \in Rows(inventory)

(* Threads work on the level of a crawl in progress.                       *)
WorksOnLevel ==
  \A h \in Host : Running(h) \/ pending[h] # {} => stage = "crawl" /\ h \in level

(* The level is depth hops away and what it queues is one hop further.     *)
Distances ==
  /\ \A h \in Visited : hop[h] <= depth + 1
  /\ \A h \in level : hop[h] = depth
  /\ \A h \in Host : next[h] # {} => h \in level /\ Follows
  /\ \A h \in Host : \A ip \in next[h] : hop[ip] = depth + 1

(* A host with a result is done; its thread goes on to the neighbors only  *)
(* when there is a level left.                                             *)
ResultsAreDone ==
  /\ \A h \in Recorded : h \in Visited /\ At(h, "done")
  /\ \A h \in Host : pending[h] # {} => h \in Recorded /\ Follows

(* As long as nothing failed a visited address is done, worked on or queued.*)
NothingDropped ==
  totals.failed = 0 => \A h \in Visited : At(h, "done") \/ h \in level \/ h \in Queue

(* What CrawlCovers says of a completed crawl, of the neighbors that were  *)
(* considered so far.                                                      *)
ConsideredAreVisited ==
  totals.failed = 0 /\ Cardinality(Visited) < form.maxDevices =>
    \A h \in Recorded : form.neighbors /\ hop[h] + 1 < form.maxDepth =>
      \A n \in links[h] \ pending[h] : n.ip # NoIp =>
        n.ip \in Visited /\ hop[n.ip] <= hop[h] + 1

CrawlStateInv ==
  /\ CrawlTypeOK
  /\ links \in Topologies
  /\ IsFiniteSet(Visited)
  /\ NotBegun
  /\ WorksOnLevel
  /\ Distances

CrawlInv ==
  /\ FinalizeInv
  /\ CrawlStateInv
  /\ ResultsAreDone
  /\ NothingDropped
  /\ ConsideredAreVisited
---------------------------------------------------------------------------
(* A thread is idle, done or running.                                      *)
LEMMA PcCases ==
  ASSUME FinalizeTypeOK, NEW h \in Host
  PROVE  /\ At(h, "idle") \/ At(h, "done") \/ Running(h)
         /\ Running(h) => ~At(h, "idle") /\ ~At(h, "done")
BY DEF FinalizeTypeOK, Work, At, Running, Finalizing

LEMMA InitInv == Init => CrawlInv
<1> SUFFICES ASSUME Init PROVE CrawlInv
  OBVIOUS
<1>1. FinalizeInv /\ \A h \in Host : At(h, "idle") /\ ~Running(h)
  BY FinalizeInit, CrawlAssumption, CrawlStart DEF Init
<1>2. Visited = {}
  BY DEF Init, Visited
<1>3. CrawlTypeOK
  BY <1>1, <1>2, CrawlAssumption DEF FinalizeInv, Init, CrawlTypeOK, Totals, NoTotals, Scan
<1>4. NotBegun
  BY <1>2, CrawlStart, CrawlAssumption, FinalizeAssumption DEF Init, NotBegun, Rows
<1>5. WorksOnLevel /\ Distances /\ IsFiniteSet(Visited)
  BY <1>1, <1>2, FS_EmptySet DEF Init, WorksOnLevel, Distances
<1>6. ResultsAreDone /\ NothingDropped /\ ConsideredAreVisited
  BY <1>2 DEF Init, ResultsAreDone, NothingDropped, ConsideredAreVisited, Recorded
<1> QED
  BY <1>1, <1>3, <1>4, <1>5, <1>6 DEF CrawlInv, CrawlStateInv, Init
---------------------------------------------------------------------------
(* A step of the thread of h that leaves the visited set and the results   *)
(* alone: it starts, works or ends, and may count itself.                  *)
LEMMA WorkKeeps ==
  ASSUME CrawlInv, NEW h \in level, stage = "crawl", ~At(h, "done"),
         FinalizeInv', At(h, "done")' \/ Running(h)',
         \A i \in Host \ {h} : work'[i] = work[i],
         UNCHANGED <<results, form, links, hop, level, depth, pending, next, stage, scan>>,
         totals' \in Totals, totals'.failed = 0 => totals.failed = 0
  PROVE  CrawlInv'
<1> USE DEF CrawlInv, CrawlStateInv
<1>1. Visited' = Visited /\ Recorded' = Recorded /\ Queue' = Queue /\ Follows' = Follows
  BY DEF Visited, Recorded, Queue, Follows
<1>2. h \in Visited /\ h \in Host /\ pending[h] = {}
  BY DEF CrawlTypeOK, Visited, ResultsAreDone
<1>3. CrawlTypeOK'
  BY <1>1 DEF CrawlTypeOK, FinalizeInv
<1>4. (IsFiniteSet(Visited) /\ NotBegun /\ Distances /\ links \in Topologies)'
  BY <1>1 DEF NotBegun, Distances
<1>5. WorksOnLevel'
  BY <1>2 DEF WorksOnLevel, Running
<1>6. ResultsAreDone'
  <2>1. \A i \in Recorded : i \in Host \ {h}
    BY DEF ResultsAreDone, Visited
  <2> QED
    BY <1>1, <2>1 DEF ResultsAreDone, At
<1>7. NothingDropped'
  BY <1>1 DEF NothingDropped, At, Visited
<1>8. ConsideredAreVisited'
  BY <1>1 DEF ConsideredAreVisited
<1> QED
  BY <1>3, <1>4, <1>5, <1>6, <1>7, <1>8

(* Counters are only raised.                                               *)
LEMMA CountsUp ==
  ASSUME NEW t \in Totals, NEW h
  PROVE  /\ [t EXCEPT !.failed = @ + 1] \in Totals /\ [t EXCEPT !.failed = @ + 1].failed # 0
         /\ [t EXCEPT !.discovered = @ + 1] \in Totals
         /\ [t EXCEPT !.discovered = @ + 1].failed = t.failed
         /\ Count(t, h) \in Totals /\ (Count(t, h).failed = 0 => t.failed = 0)
<1>1. Count(t, h) \in Totals /\ (Count(t, h).failed = 0 => t.failed = 0)
  BY DEF Count, Totals
<1> QED
  BY <1>1 DEF Totals

(* The probe, with its three outcomes.                                     *)
LEMMA ProbeKeeps ==
  ASSUME CrawlInv, NEW h \in Host, Silent(h) \/ Probe(h) \/ ProbeRaises(h)
  PROVE  CrawlInv'
<1> USE DEF CrawlInv, CrawlStateInv
<1>1. /\ Takes(h)
      /\ UNCHANGED <<opts, inventory, ledger, results,
                     form, links, hop, level, depth, pending, next, stage, scan>>
  BY DEF Silent, Probe, ProbeRaises, crawlVars
<1>2. totals' \in Totals /\ (totals'.failed = 0 => totals.failed = 0)
  BY CountsUp DEF CrawlTypeOK, Silent, Probe, ProbeRaises, Failed, crawlVars
<1>3. CASE Leave(h)
  BY <1>1, <1>2, <1>3, LeaveKeeps, WorkKeeps DEF Takes, At
<1>4. CASE \E id \in Sees[h] \ {NoInfo} : Enter(h, "snmp", id)
  <2>1. PICK id \in Identity : Enter(h, "snmp", id)
    BY <1>4, CrawlAssumption
  <2> QED
    BY <1>1, <1>2, <2>1, EnterKeeps, WorkKeeps DEF Takes, At, Method
<1> QED
  BY <1>3, <1>4 DEF Silent, Probe, ProbeRaises

LEMMA FinalizeKeeps ==
  ASSUME CrawlInv, NEW h \in Host, FinalizeStep(h) /\ UNCHANGED crawlVars
  PROVE  CrawlInv' /\ UNCHANGED results
<1>1. FinalizeInv' /\ OnlyThread(h)
  BY FinalizeStepKeeps DEF CrawlInv
<1>2. stage = "crawl" /\ h \in level /\ ~At(h, "done")
  BY <1>1, PcCases DEF OnlyThread, CrawlInv, CrawlStateInv, WorksOnLevel, FinalizeInv
<1>3. totals' \in Totals /\ (totals'.failed = 0 => totals.failed = 0)
  BY DEF CrawlInv, CrawlStateInv, CrawlTypeOK, crawlVars
<1> QED
  BY <1>1, <1>2, <1>3, WorkKeeps DEF OnlyThread, crawlVars

LEMMA FinalizationRaisesKeeps ==
  ASSUME CrawlInv, NEW h \in Host, FinalizationRaises(h)
  PROVE  CrawlInv'
<1>1. Leave(h) /\ UNCHANGED <<opts, inventory, ledger, results>> /\ Running(h)
  BY DEF FinalizationRaises, FinalizeRaises, At, Running, Finalizing
<1>2. FinalizeInv' /\ At(h, "done")' /\ \A i \in Host \ {h} : work'[i] = work[i]
  BY <1>1, LeaveKeeps DEF CrawlInv, At
<1>3. stage = "crawl" /\ h \in level /\ ~At(h, "done")
  BY <1>1, PcCases DEF CrawlInv, CrawlStateInv, WorksOnLevel, FinalizeInv
<1>4. totals' \in Totals /\ (totals'.failed = 0 => totals.failed = 0)
  BY CountsUp DEF CrawlInv, CrawlStateInv, CrawlTypeOK, FinalizationRaises, Failed
<1> QED
  BY <1>1, <1>2, <1>3, <1>4, WorkKeeps DEF FinalizationRaises
---------------------------------------------------------------------------
(* The result of h is stored once, by a thread that was at work on h.      *)
LEMMA RecordFacts ==
  ASSUME CrawlInv, NEW h \in Host, Record(h)
  PROVE  /\ FinalizeInv' /\ At(h, "done")' /\ \A i \in Host \ {h} : work'[i] = work[i]
         /\ stage = "crawl" /\ h \in level /\ h \in Visited \ Recorded
         /\ pending[h] = {}
         /\ Recorded' = Recorded \cup {h}
<1> DEFINE r == [host |-> h, method |-> work[h].method, status |-> work[h].status,
                 device |-> work[h].device]
<1>1. /\ Leave(h) /\ UNCHANGED <<opts, inventory, ledger>> /\ Running(h)
      /\ results' = results \cup {r}
  BY DEF Record, RecordResult, At, Running, Finalizing
<1>2. FinalizeInv' /\ At(h, "done")' /\ \A i \in Host \ {h} : work'[i] = work[i]
  BY <1>1, LeaveKeeps DEF CrawlInv, At
<1>3. stage = "crawl" /\ h \in level /\ h \in Visited /\ ~At(h, "done")
  BY <1>1, PcCases DEF CrawlInv, CrawlStateInv, WorksOnLevel, FinalizeInv, CrawlTypeOK
<1>4. h \notin Recorded /\ pending[h] = {}
  BY <1>3 DEF CrawlInv, ResultsAreDone
<1>5. Recorded' = Recorded \cup {h}
  <2>1. r.host = h
    OBVIOUS
  <2> HIDE DEF r
  <2> QED
    BY <1>1, <2>1 DEF Recorded
<1> QED
  BY <1>2, <1>3, <1>4, <1>5

LEMMA RecordKeeps ==
  ASSUME CrawlInv, NEW h \in Host, Record(h)
  PROVE  CrawlInv'
<1> USE DEF CrawlInv, CrawlStateInv
<1>1. /\ FinalizeInv' /\ At(h, "done")' /\ \A i \in Host \ {h} : work'[i] = work[i]
      /\ stage = "crawl" /\ h \in level /\ h \in Visited \ Recorded
      /\ pending[h] = {}
      /\ Recorded' = Recorded \cup {h}
  BY RecordFacts
<1>2. /\ pending' = [pending EXCEPT ![h] = IF Follows THEN links[h] ELSE {}]
      /\ UNCHANGED <<form, links, hop, level, depth, next, stage, scan>>
  BY DEF Record
<1>3. totals' \in Totals /\ (totals'.failed = 0 => totals.failed = 0)
  BY CountsUp DEF CrawlTypeOK, Record
<1>4. Visited' = Visited /\ Queue' = Queue /\ Follows' = Follows
  BY <1>2 DEF Visited, Queue, Follows
<1>5. /\ \A i \in Host \ {h} : pending'[i] = pending[i]
      /\ pending'[h] = IF Follows THEN links[h] ELSE {}
  BY <1>2 DEF CrawlTypeOK
<1>6. CrawlTypeOK'
  <2>1. links[h] \subseteq Neighbor
    BY CrawlAssumption
  <2>2. pending' \in [Host -> SUBSET Neighbor]
    BY <1>2, <2>1 DEF CrawlTypeOK
  <2>3. \A i \in Host : pending'[i] \subseteq links'[i]
    BY <1>2, <1>5 DEF CrawlTypeOK
  <2> QED
    BY <1>1, <1>2, <1>3, <1>4, <2>2, <2>3 DEF CrawlTypeOK, FinalizeInv
<1>7. (IsFiniteSet(Visited) /\ NotBegun /\ Distances /\ links \in Topologies)'
  BY <1>1, <1>2, <1>4 DEF NotBegun, Distances
<1>8. WorksOnLevel'
  BY <1>1, <1>2, <1>5 DEF WorksOnLevel, Running
<1>9. ResultsAreDone'
  <2>1. \A i \in Recorded : i \in Visited /\ i \in Host \ {h}
    BY <1>1 DEF ResultsAreDone, Visited
  <2> QED
    BY <1>1, <1>4, <1>5, <2>1 DEF ResultsAreDone, At
<1>10. NothingDropped'
  BY <1>1, <1>2, <1>3, <1>4 DEF NothingDropped, At, Visited
<1>11. ConsideredAreVisited'
  <2> SUFFICES ASSUME totals'.failed = 0, Cardinality(Visited) < form.maxDevices,
                      NEW i \in Recorded', form.neighbors, hop[i] + 1 < form.maxDepth,
                      NEW n \in links[i] \ pending'[i], n.ip # NoIp
               PROVE  n.ip \in Visited /\ hop[n.ip] <= hop[i] + 1
    BY <1>2, <1>4 DEF ConsideredAreVisited
  <2>1. i # h
    BY <1>1, <1>5 DEF Distances, Follows
  <2>2. i \in Recorded /\ i \in Host /\ pending'[i] = pending[i]
    BY <1>1, <1>5, <2>1 DEF ResultsAreDone, Visited
  <2> QED
    BY <1>3, <2>2 DEF ConsideredAreVisited
<1> QED
  BY <1>1, <1>6, <1>7, <1>8, <1>9, <1>10, <1>11
---------------------------------------------------------------------------
(* What DNS and the Device table answer is an address.                     *)
LEMMA ManagementType ==
  ASSUME CrawlInv, NEW h \in Host, NEW n \in pending[h], NEW ip \in ManagementIps(n)
  PROVE  /\ ip \in Host \cup {NoIp}
         /\ n.ip # NoIp => ip = n.ip
<1>1. n \in Neighbor
  BY CrawlAssumption DEF CrawlInv, CrawlStateInv, CrawlTypeOK
<1>2. \A d \in Rows(inventory) : PrimaryHost(inventory[d]) \in Host \cup {NoIp}
  BY CrawlAssumption DEF Rows, CrawlInv, FinalizeInv, FinalizeTypeOK, Inventory, DeviceRow,
     PrimaryHost, IPAddress
<1> QED
  BY <1>1, <1>2, CrawlAssumption DEF ManagementIps, Neighbor

(* An address that is admitted enters the visited set, and nothing else.   *)
LEMMA AdmittedIsVisited ==
  ASSUME CrawlTypeOK, IsFiniteSet(Visited), NEW ip \in Host, hop[ip] = NoHop,
         NEW k \in Nat, hop' = [hop EXCEPT ![ip] = k]
  PROVE  /\ hop' \in [Host -> Nat \cup {NoHop}]
         /\ Visited' = Visited \cup {ip} /\ ip \notin Visited
         /\ IsFiniteSet(Visited') /\ Cardinality(Visited') = Cardinality(Visited) + 1
         /\ hop'[ip] = k
         /\ \A i \in Visited : hop'[i] = hop[i]
<1>1. k # NoHop
  BY CrawlAssumption
<1>2. hop' \in [Host -> Nat \cup {NoHop}]
  BY DEF CrawlTypeOK
<1>3. Visited' = Visited \cup {ip} /\ ip \notin Visited
  BY <1>1 DEF CrawlTypeOK, Visited
<1>4. IsFiniteSet(Visited') /\ Cardinality(Visited') = Cardinality(Visited) + 1
  BY <1>3, FS_AddElement
<1> QED
  BY <1>2, <1>3, <1>4 DEF Visited, CrawlTypeOK

(* A neighbor is considered: its address is admitted, or known, or the cap *)
(* is reached.                                                             *)
LEMMA ConsiderKeeps ==
  ASSUME CrawlInv, NEW h \in Host, NEW n \in pending[h], Consider(h, n)
  PROVE  CrawlInv'
<1> USE DEF CrawlInv, CrawlStateInv
<1>1. /\ UNCHANGED <<finalizeVars, form, links, level, depth, stage, totals, scan>>
      /\ pending' = [pending EXCEPT ![h] = @ \ {n}]
  BY DEF Consider
<1>2. stage = "crawl" /\ h \in level /\ h \in Recorded /\ Follows /\ hop[h] = depth /\ n \in links[h]
  BY DEF WorksOnLevel, ResultsAreDone, Distances, CrawlTypeOK
<1>3. FinalizeInv' /\ Recorded' = Recorded /\ Follows' = Follows
      /\ \A i \in Host : work'[i] = work[i]
  BY <1>1, FinalizeUnchanged DEF finalizeVars, Recorded, Follows
<1>4. /\ pending' \in [Host -> SUBSET Neighbor]
      /\ pending'[h] = pending[h] \ {n}
      /\ \A i \in Host \ {h} : pending'[i] = pending[i]
  BY <1>1 DEF CrawlTypeOK
<1>5. PICK ip \in ManagementIps(n) :
        IF ip # NoIp /\ Admits(ip)
        THEN /\ hop' = [hop EXCEPT ![ip] = depth + 1]
             /\ next' = [next EXCEPT ![h] = @ \cup {ip}]
        ELSE UNCHANGED <<hop, next>>
  BY DEF Consider
<1>6. ip \in Host \cup {NoIp} /\ (n.ip # NoIp => ip = n.ip)
  BY ManagementType
<1>7. WorksOnLevel'
  BY <1>1, <1>3, <1>4 DEF WorksOnLevel, Running
<1>8. NotBegun'
  BY <1>1, <1>2 DEF NotBegun
<1>9. CASE ip # NoIp /\ Admits(ip)
  <2>1. /\ hop' = [hop EXCEPT ![ip] = depth + 1]
        /\ next' = [next EXCEPT ![h] = @ \cup {ip}]
        /\ ip \in Host /\ hop[ip] = NoHop
    BY <1>5, <1>6, <1>9 DEF Admits
  <2>2. /\ hop' \in [Host -> Nat \cup {NoHop}]
        /\ Visited' = Visited \cup {ip} /\ ip \notin Visited
        /\ IsFiniteSet(Visited') /\ Cardinality(Visited') = Cardinality(Visited) + 1
        /\ hop'[ip] = depth + 1
        /\ \A i \in Visited : hop'[i] = hop[i]
    BY <2>1, depth + 1 \in Nat, AdmittedIsVisited DEF CrawlTypeOK
  <2>3. /\ next' \in [Host -> SUBSET Visited']
        /\ next'[h] = next[h] \cup {ip}
        /\ \A i \in Host \ {h} : next'[i] = next[i]
    BY <2>1, <2>2 DEF CrawlTypeOK
  <2>4. CrawlTypeOK'
    BY <1>1, <1>3, <1>4, <2>2, <2>3 DEF CrawlTypeOK, FinalizeInv
  <2>5. Distances'
    <3>1. \A i \in Visited' : hop'[i] <= depth + 1
      BY <2>2 DEF Distances, CrawlTypeOK
    <3>2. \A i \in level : hop'[i] = depth
      BY <2>2 DEF Distances, CrawlTypeOK
    <3>3. \A i \in Host : \A j \in next'[i] : hop'[j] = depth + 1
      BY <2>2, <2>3 DEF Distances, CrawlTypeOK
    <3>4. \A i \in Host : next'[i] # {} => i \in level /\ Follows
      BY <1>2, <2>3 DEF Distances
    <3> QED
      BY <1>1, <1>3, <3>1, <3>2, <3>3, <3>4 DEF Distances
  <2>6. ResultsAreDone'
    BY <1>3, <1>4, <2>2 DEF ResultsAreDone, At, Visited
  <2>7. NothingDropped'
    <3>1. Queue' = Queue \cup {ip}
      BY <1>1, <1>2, <2>3 DEF Queue, CrawlTypeOK, Visited
    <3> QED
      BY <1>1, <1>3, <2>2, <3>1 DEF NothingDropped, At, Visited
  <2>8. ConsideredAreVisited'
    <3> SUFFICES ASSUME totals.failed = 0, Cardinality(Visited') < form.maxDevices,
                        NEW i \in Recorded, form.neighbors, hop'[i] + 1 < form.maxDepth,
                        NEW m \in links[i] \ pending'[i], m.ip # NoIp
                 PROVE  m.ip \in Visited' /\ hop'[m.ip] <= hop'[i] + 1
      BY <1>1, <1>3 DEF ConsideredAreVisited
    <3>1. i \in Visited /\ hop'[i] = hop[i]
      BY <2>2 DEF ResultsAreDone
    <3>2. Cardinality(Visited) < form.maxDevices
      BY <2>2, FS_CardinalityType DEF CrawlTypeOK, Form
    <3>3. CASE i = h /\ m = n
      BY <1>2, <1>6, <2>2, <3>1, <3>3 DEF CrawlTypeOK
    <3>4. CASE ~(i = h /\ m = n)
      <4>1. m \in links[i] \ pending[i]
        BY <1>4, <3>1, <3>4 DEF Visited
      <4>2. m.ip \in Visited /\ hop[m.ip] <= hop[i] + 1
        BY <3>1, <3>2, <4>1 DEF ConsideredAreVisited
      <4> QED
        BY <2>2, <3>1, <4>2
    <3> QED
      BY <3>3, <3>4
  <2> QED
    BY <1>1, <1>3, <1>7, <1>8, <2>2, <2>4, <2>5, <2>6, <2>7, <2>8
<1>10. CASE ~(ip # NoIp /\ Admits(ip))
  <2>1. UNCHANGED <<hop, next>>
    BY <1>5, <1>10
  <2>2. Visited' = Visited /\ Queue' = Queue
    BY <1>1, <2>1 DEF Visited, Queue
  <2>3. CrawlTypeOK'
    BY <1>1, <1>3, <1>4, <2>1, <2>2 DEF CrawlTypeOK, FinalizeInv
  <2>4. Distances' /\ IsFiniteSet(Visited)'
    BY <1>1, <1>3, <2>1, <2>2 DEF Distances
  <2>5. ResultsAreDone'
    BY <1>3, <1>4, <2>2 DEF ResultsAreDone, At, Visited
  <2>6. NothingDropped'
    BY <1>1, <1>3, <2>2 DEF NothingDropped, At, Visited
  <2>7. ConsideredAreVisited'
    <3> SUFFICES ASSUME totals.failed = 0, Cardinality(Visited) < form.maxDevices,
                        NEW i \in Recorded, form.neighbors, hop[i] + 1 < form.maxDepth,
                        NEW m \in links[i] \ pending'[i], m.ip # NoIp
                 PROVE  m.ip \in Visited /\ hop[m.ip] <= hop[i] + 1
      BY <1>1, <1>3, <2>1, <2>2 DEF ConsideredAreVisited
    <3>1. i \in Visited
      BY DEF ResultsAreDone
    <3>2. CASE i = h /\ m = n
      <4>1. ip = m.ip /\ ip \in Host /\ ~Admits(ip)
        BY <1>6, <1>10, <3>2
      <4>2. ip \in Visited
        BY <4>1 DEF Admits, Visited
      <4> QED
        BY <1>2, <3>2, <4>1, <4>2 DEF Distances
    <3>3. CASE ~(i = h /\ m = n)
      <4>1. m \in links[i] \ pending[i]
        BY <1>4, <3>1, <3>3 DEF Visited
      <4> QED
        BY <4>1 DEF ConsideredAreVisited
    <3> QED
      BY <3>2, <3>3
  <2> QED
    BY <1>1, <1>3, <1>7, <1>8, <2>3, <2>4, <2>5, <2>6, <2>7
<1> QED
  BY <1>9, <1>10

(* A thread whose lookup of a neighbor raises queues nothing and counts as *)
(* failed.                                                                 *)
LEMMA ConsiderRaisesKeeps ==
  ASSUME CrawlInv, NEW h \in Host, ConsiderRaises(h)
  PROVE  CrawlInv'
<1> USE DEF CrawlInv, CrawlStateInv
<1>1. /\ UNCHANGED <<finalizeVars, form, links, hop, level, depth, stage, scan>>
      /\ pending' = [pending EXCEPT ![h] = {}] /\ next' = [next EXCEPT ![h] = {}]
      /\ totals' \in Totals /\ totals'.failed # 0
  BY CountsUp DEF ConsiderRaises, Failed, CrawlTypeOK
<1>2. FinalizeInv' /\ Recorded' = Recorded /\ Follows' = Follows /\ Visited' = Visited
      /\ \A i \in Host : work'[i] = work[i]
  BY <1>1, FinalizeUnchanged DEF finalizeVars, Recorded, Follows, Visited
<1>3. /\ pending' \in [Host -> SUBSET Neighbor] /\ next' \in [Host -> SUBSET Visited]
      /\ \A i \in Host : pending'[i] \subseteq pending[i] /\ next'[i] \subseteq next[i]
  BY <1>1 DEF CrawlTypeOK
<1>4. CrawlTypeOK'
  BY <1>1, <1>2, <1>3 DEF CrawlTypeOK, FinalizeInv
<1>5. WorksOnLevel'
  BY <1>1, <1>2, <1>3 DEF WorksOnLevel, Running
<1>6. NotBegun'
  BY <1>1, <1>2 DEF NotBegun, finalizeVars
<1>7. Distances' /\ IsFiniteSet(Visited)'
  BY <1>1, <1>2, <1>3 DEF Distances
<1>8. ResultsAreDone'
  BY <1>2, <1>3 DEF ResultsAreDone, At, Visited
<1>9. NothingDropped' /\ ConsideredAreVisited'
  BY <1>1 DEF NothingDropped, ConsideredAreVisited
<1> QED
  BY <1>1, <1>2, <1>4, <1>5, <1>6, <1>7, <1>8, <1>9
---------------------------------------------------------------------------
(* The crawl starts from an address, the form's or the seed device's.      *)
LEMMA StartKeeps ==
  ASSUME CrawlInv, Start
  PROVE  CrawlInv' /\ StartIp \in Host /\ Visited = {} /\ UNCHANGED <<results, form>>
<1> USE DEF CrawlInv, CrawlStateInv
<1>1. stage = "start" /\ Visited = {} /\ level = {} /\ Recorded = {} /\ results = {}
      /\ SeedDevice \in Rows(inventory)
  BY DEF Start, NotBegun, Recorded
<1>2. StartIp \in Host
  <2>1. PrimaryHost(inventory[SeedDevice]) \in Host \cup {NoIp}
    BY <1>1, CrawlAssumption DEF Rows, FinalizeInv, FinalizeTypeOK, Inventory, DeviceRow,
       PrimaryHost, IPAddress
  <2> QED
    BY <2>1 DEF Start, StartIp, CrawlTypeOK, Form
<1>3. /\ hop' = [hop EXCEPT ![StartIp] = 0] /\ level' = {StartIp} /\ stage' = "crawl"
      /\ scan' = [scan EXCEPT !.status = "running"]
      /\ UNCHANGED <<finalizeVars, form, links, depth, pending, next, totals>>
  BY DEF Start
<1>4. /\ hop' \in [Host -> Nat \cup {NoHop}] /\ Visited' = {StartIp} /\ hop'[StartIp] = 0
      /\ IsFiniteSet(Visited')
  <2>1. hop' \in [Host -> Nat \cup {NoHop}] /\ hop'[StartIp] = 0
    BY <1>2, <1>3 DEF CrawlTypeOK
  <2>2. Visited' = {StartIp}
    BY <1>1, <1>2, <1>3, <2>1, CrawlAssumption DEF CrawlTypeOK, Visited
  <2> QED
    BY <2>1, <2>2, FS_Singleton
<1>5. FinalizeInv' /\ Recorded' = {} /\ \A i \in Host : work'[i] = work[i]
  BY <1>1, <1>3, FinalizeUnchanged DEF finalizeVars, Recorded
<1>6. \A i \in Host : ~Running(i) /\ pending[i] = {} /\ next[i] = {}
  BY <1>1 DEF WorksOnLevel, CrawlTypeOK
<1>7. CrawlTypeOK'
  BY <1>1, <1>3, <1>4, <1>5, <1>6 DEF CrawlTypeOK, FinalizeInv, Scan
<1>8. depth = 0
  BY <1>1 DEF NotBegun
<1>9. Distances'
  BY <1>3, <1>4, <1>6, <1>8 DEF Distances
<1>10. WorksOnLevel' /\ NotBegun'
  BY <1>3, <1>5, <1>6 DEF WorksOnLevel, NotBegun, Running
<1>11. ResultsAreDone' /\ NothingDropped' /\ ConsideredAreVisited'
  BY <1>3, <1>4, <1>5, <1>6 DEF ResultsAreDone, NothingDropped, ConsideredAreVisited
<1> QED
  BY <1>1, <1>2, <1>3, <1>4, <1>5, <1>7, <1>9, <1>10, <1>11 DEF finalizeVars

(* The job ends before its crawl began.                                    *)
LEMMA RejectKeeps ==
  ASSUME CrawlInv, Reject
  PROVE  CrawlInv'
<1> USE DEF CrawlInv, CrawlStateInv
<1>1. /\ stage = "start" /\ stage' = "rejected"
      /\ UNCHANGED <<finalizeVars, form, links, hop, level, depth, pending, next, totals, scan>>
  BY DEF Reject
<1>2. FinalizeInv' /\ Recorded' = Recorded /\ Follows' = Follows /\ Visited' = Visited
      /\ Queue' = Queue
  BY <1>1, FinalizeUnchanged DEF finalizeVars, Recorded, Follows, Visited, Queue
<1>3. \A i \in Host : ~Running(i) /\ pending[i] = {}
  BY <1>1 DEF WorksOnLevel
<1>4. CrawlTypeOK'
  BY <1>1, <1>2 DEF CrawlTypeOK, FinalizeInv
<1>5. NotBegun' /\ WorksOnLevel' /\ Distances'
  BY <1>1, <1>2, <1>3 DEF NotBegun, WorksOnLevel, Distances, Running, finalizeVars
<1>6. ResultsAreDone' /\ NothingDropped' /\ ConsideredAreVisited'
  BY <1>1, <1>2 DEF ResultsAreDone, NothingDropped, ConsideredAreVisited, At, finalizeVars
<1> QED
  BY <1>1, <1>2, <1>4, <1>5, <1>6

(* When the futures of a level are joined, no thread is at work.           *)
LEMMA JoinedIsQuiet ==
  ASSUME CrawlInv, Joined
  PROVE  \A h \in Host : ~Running(h) /\ pending[h] = {}
BY PcCases DEF CrawlInv, CrawlStateInv, WorksOnLevel, Joined, FinalizeInv

LEMMA NextLevelKeeps ==
  ASSUME CrawlInv, NextLevel
  PROVE  CrawlInv'
<1> USE DEF CrawlInv, CrawlStateInv
<1>1. /\ stage = "crawl" /\ Joined /\ level' = Queue /\ next' = [h \in Host |-> {}]
      /\ depth' = depth + 1
      /\ UNCHANGED <<finalizeVars, form, links, hop, pending, stage, totals, scan>>
  BY DEF NextLevel
<1>2. FinalizeInv' /\ Recorded' = Recorded /\ Visited' = Visited
      /\ \A h \in Host : work'[h] = work[h]
  BY <1>1, FinalizeUnchanged DEF finalizeVars, Recorded, Visited
<1>3. \A h \in Host : ~Running(h) /\ pending[h] = {}
  BY <1>1, JoinedIsQuiet
<1>4. Queue \subseteq Visited /\ level \subseteq Host /\ \A ip \in Queue : hop[ip] = depth + 1
  BY DEF Queue, CrawlTypeOK, Distances, Visited
<1>5. CrawlTypeOK'
  BY <1>1, <1>2, <1>4 DEF CrawlTypeOK, FinalizeInv
<1>6. NotBegun' /\ WorksOnLevel'
  BY <1>1, <1>2, <1>3 DEF NotBegun, WorksOnLevel, Running
<1>7. Distances' /\ IsFiniteSet(Visited)'
  <2>1. \A h \in Visited : hop[h] <= depth + 2
    BY DEF Distances, CrawlTypeOK, Visited
  <2>2. depth' + 1 = depth + 2
    BY <1>1 DEF CrawlTypeOK
  <2> QED
    BY <1>1, <1>2, <1>4, <2>1, <2>2 DEF Distances
<1>8. ResultsAreDone'
  BY <1>1, <1>2, <1>3 DEF ResultsAreDone, At, Visited
<1>9. NothingDropped'
  BY <1>1, <1>2 DEF NothingDropped, At, Joined, Visited
<1>10. ConsideredAreVisited'
  BY <1>1, <1>2 DEF ConsideredAreVisited
<1> QED
  BY <1>1, <1>2, <1>5, <1>6, <1>7, <1>8, <1>9, <1>10

LEMMA CompleteKeeps ==
  ASSUME CrawlInv, Complete
  PROVE  CrawlInv'
<1> USE DEF CrawlInv, CrawlStateInv
<1>1. /\ stage = "crawl" /\ stage' = "completed" /\ Joined
      /\ UNCHANGED <<finalizeVars, form, links, hop, level, depth, pending, next, totals>>
      /\ scan' = [status |-> "completed", discovered |-> totals.discovered,
                  created |-> totals.created]
  BY DEF Complete
<1>2. FinalizeInv' /\ Recorded' = Recorded /\ Visited' = Visited /\ Queue' = Queue
      /\ Follows' = Follows /\ \A h \in Host : work'[h] = work[h]
  BY <1>1, FinalizeUnchanged DEF finalizeVars, Recorded, Visited, Queue, Follows
<1>3. \A h \in Host : ~Running(h) /\ pending[h] = {}
  BY <1>1, JoinedIsQuiet
<1>4. CrawlTypeOK'
  BY <1>1, <1>2 DEF CrawlTypeOK, FinalizeInv, Scan, Totals
<1>5. NotBegun' /\ WorksOnLevel' /\ Distances'
  BY <1>1, <1>2, <1>3 DEF NotBegun, WorksOnLevel, Distances, Running
<1>6. ResultsAreDone' /\ NothingDropped' /\ ConsideredAreVisited'
  BY <1>1, <1>2 DEF ResultsAreDone, NothingDropped, ConsideredAreVisited, At, Visited
<1> QED
  BY <1>1, <1>2, <1>4, <1>5, <1>6

LEMMA StutterKeeps ==
  ASSUME CrawlInv, UNCHANGED vars
  PROVE  CrawlInv'
<1> USE DEF CrawlInv, CrawlStateInv
<1>1. UNCHANGED finalizeVars /\ UNCHANGED crawlVars
  BY DEF vars
<1>2. FinalizeInv' /\ Recorded' = Recorded /\ Visited' = Visited /\ Queue' = Queue
      /\ Follows' = Follows
  BY <1>1, FinalizeUnchanged DEF finalizeVars, crawlVars, Recorded, Visited, Queue, Follows
<1>3. CrawlTypeOK' /\ NotBegun' /\ WorksOnLevel' /\ Distances'
  BY <1>1, <1>2 DEF crawlVars, finalizeVars, CrawlTypeOK, FinalizeInv, NotBegun, WorksOnLevel,
     Distances, Running
<1>4. ResultsAreDone' /\ NothingDropped' /\ ConsideredAreVisited'
  BY <1>1, <1>2 DEF crawlVars, finalizeVars, ResultsAreDone, NothingDropped,
     ConsideredAreVisited, At
<1> QED
  BY <1>1, <1>2, <1>3, <1>4 DEF crawlVars
---------------------------------------------------------------------------
LEMMA NextKeeps == CrawlInv /\ [Next]_vars => CrawlInv'
<1> SUFFICES ASSUME CrawlInv, [Next]_vars PROVE CrawlInv'
  OBVIOUS
<1>1. CASE Engine
  BY <1>1, StartKeeps, RejectKeeps, NextLevelKeeps, CompleteKeeps DEF Engine
<1>2. ASSUME NEW h \in Host, Thread(h)
      PROVE  CrawlInv'
  <2>1. CASE Silent(h) \/ Probe(h) \/ ProbeRaises(h)
    BY <2>1, ProbeKeeps
  <2>2. CASE FinalizeStep(h) /\ UNCHANGED crawlVars
    BY <2>2, FinalizeKeeps
  <2>3. CASE Record(h)
    BY <2>3, RecordKeeps
  <2>4. CASE FinalizationRaises(h)
    BY <2>4, FinalizationRaisesKeeps
  <2>5. CASE \E n \in pending[h] : Consider(h, n)
    BY <2>5, ConsiderKeeps
  <2>6. CASE ConsiderRaises(h)
    BY <2>6, ConsiderRaisesKeeps
  <2> QED
    BY <1>2, <2>1, <2>2, <2>3, <2>4, <2>5, <2>6 DEF Thread
<1>3. CASE UNCHANGED vars
  BY <1>3, StutterKeeps
<1> QED
  BY <1>1, <1>2, <1>3 DEF Next

(* Threads are at work only while the crawl is in progress.                *)
LEMMA ThreadsCrawl ==
  ASSUME CrawlInv, NEW h \in Host, Thread(h)
  PROVE  stage = "crawl" /\ UNCHANGED <<form, stage>>
<1> USE DEF CrawlInv, CrawlStateInv
<1>1. CASE Silent(h) \/ Probe(h) \/ ProbeRaises(h)
  BY <1>1 DEF Silent, Probe, ProbeRaises, Takes, crawlVars
<1>2. CASE FinalizeStep(h) /\ UNCHANGED crawlVars
  BY <1>2, FinalizeStepKeeps DEF OnlyThread, WorksOnLevel, crawlVars
<1>3. CASE Record(h) \/ FinalizationRaises(h)
  BY <1>3 DEF Record, RecordResult, FinalizationRaises, FinalizeRaises, At, Running, Finalizing,
     WorksOnLevel
<1>4. CASE \E n \in pending[h] : Consider(h, n)
  BY <1>4 DEF Consider, WorksOnLevel
<1>5. CASE ConsiderRaises(h)
  BY <1>5 DEF ConsiderRaises, WorksOnLevel
<1> QED
  BY <1>1, <1>2, <1>3, <1>4, <1>5 DEF Thread

(* A completed crawl has joined its last level and could not go on.        *)
Ended == stage = "completed" => Joined /\ ~GoesOn

LEMMA EndedKeeps == CrawlInv /\ Ended /\ [Next]_vars => Ended'
<1> SUFFICES ASSUME CrawlInv, Ended, [Next]_vars, stage' = "completed"
             PROVE  (Joined /\ ~GoesOn)'
  BY DEF Ended
<1>1. (Joined /\ ~GoesOn) /\ UNCHANGED <<work, form, hop, level, depth, pending, next>>
  <2>1. CASE Complete
    BY <2>1 DEF Complete, finalizeVars
  <2>2. CASE UNCHANGED vars
    BY <2>2 DEF vars, crawlVars, finalizeVars, Ended
  <2>3. ~Start /\ ~Reject /\ ~NextLevel /\ ~\E h \in Host : Thread(h)
    BY ThreadsCrawl DEF Start, Reject, NextLevel
  <2> QED
    BY <2>1, <2>2, <2>3 DEF Next, Engine
<1> QED
  BY <1>1 DEF Joined, GoesOn, Queue, Visited, At

LEMMA Invariance == Spec => [](CrawlInv /\ Ended)
<1>1. Init => Ended
  BY DEF Init, Ended
<1> QED
  BY <1>1, InitInv, NextKeeps, EndedKeeps, PTL DEF Spec

(* Every value the crawl and its threads keep is of its type, for every    *)
(* network, pool and cap (CrawlDiscoveryJob.run).                          *)
THEOREM CrawlTypesHold == Spec => []CrawlTypeOK
<1>1. CrawlInv => CrawlTypeOK
  BY DEF CrawlInv, CrawlStateInv
<1> QED
  BY <1>1, Invariance, PTL

(* What a crawl records links to devices that are there: also a device     *)
(* whose creation failed leaves no link behind (finalize_discovery).       *)
THEOREM CrawlLinksExist == Spec => []LinksExist
<1>1. CrawlInv => LinksExist
  BY DEF CrawlInv, FinalizeInv
<1> QED
  BY <1>1, Invariance, PTL

(* A completed crawl without a failure and below its cap has taken every   *)
(* visited address and visited every neighbor of a recorded host in time.  *)
THEOREM CrawlCoversAll == Spec => []CrawlCovers
<1>1. CrawlInv /\ Ended => CrawlCovers
  <2> SUFFICES ASSUME CrawlInv, Ended, stage = "completed", totals.failed = 0,
                      Cardinality(Visited) < form.maxDevices
               PROVE  /\ \A h \in Visited : At(h, "done")
                      /\ \A r \in results : form.neighbors /\ hop[r.host] + 1 < form.maxDepth =>
                           \A n \in links[r.host] : n.ip # NoIp =>
                             n.ip \in Visited /\ hop[n.ip] <= hop[r.host] + 1
    BY DEF CrawlCovers
  <2> USE DEF CrawlInv, CrawlStateInv
  <2>1. Queue = {}
    <3>1. Queue # {} => depth + 1 < form.maxDepth
      BY DEF Queue, Distances, Follows, CrawlTypeOK, Visited
    <3> QED
      BY <3>1 DEF Ended, GoesOn
  <2>2. \A h \in Visited : At(h, "done")
    BY <2>1 DEF NothingDropped, Ended, Joined
  <2>3. \A h \in Host : pending[h] = {}
    BY JoinedIsQuiet DEF Ended
  <2>4. \A r \in results : r.host \in Recorded /\ r.host \in Host
    BY DEF Recorded, ResultsAreDone, Visited
  <2> QED
    BY <2>2, <2>3, <2>4 DEF ConsideredAreVisited
<1> QED
  BY <1>1, Invariance, PTL
---------------------------------------------------------------------------
(* BoundedCrawl counts as the crawl does.                                  *)
LEMMA BoundedCounts == \A S : Bounded!Cardinality(S) = Cardinality(S)
BY DEF Bounded!Cardinality, Cardinality, Bounded!IsFiniteSet, IsFiniteSet

(* A step of the crawl is one of BoundedCrawl, or changes nothing there.   *)
LEMMA StepKeepsBounds == CrawlInv /\ Ended /\ [Next]_vars => [Bounded!BNext]_(Bounded!bvars)
<1> SUFFICES ASSUME CrawlInv, Ended, [Next]_vars
             PROVE  [Bounded!BNext]_(Bounded!bvars)
  OBVIOUS
<1> USE DEF CrawlInv, CrawlStateInv
<1> DEFINE over == stage = "completed"
<1>a. Bounded!Reached = Visited
  BY DEF Bounded!Reached, Visited
<1>s. ASSUME UNCHANGED <<form, hop, results>>, over' <=> over
      PROVE  UNCHANGED Bounded!bvars
  BY <1>s DEF Bounded!bvars
<1>1. CASE Start
  <2>1. StartIp \in Host /\ Visited = {} /\ UNCHANGED <<results, form>>
    BY <1>1, StartKeeps
  <2>2. Bounded!Begin(StartIp)
    BY <1>1, <1>a, <2>1 DEF Start, Bounded!Begin
  <2> QED
    BY <2>1, <2>2 DEF Bounded!BNext
<1>2. CASE Complete
  BY <1>2 DEF Complete, finalizeVars, Bounded!End, Bounded!BNext
<1>3. CASE Reject \/ NextLevel \/ UNCHANGED vars
  <2>1. UNCHANGED <<form, hop, results>> /\ (over' <=> over)
    BY <1>3 DEF Reject, NextLevel, vars, crawlVars, finalizeVars
  <2> QED
    BY <1>s, <2>1
<1>4. ASSUME NEW h \in Host, Thread(h)
      PROVE  [Bounded!BNext]_(Bounded!bvars)
  <2>1. ~over /\ ~over' /\ UNCHANGED form
    BY <1>4, ThreadsCrawl
  <2>2. CASE Record(h)
    <3>1. h \in Visited \ Recorded /\ Recorded' = Recorded \cup {h}
      BY <2>2, RecordFacts
    <3>2. Bounded!Discover(h)
      BY <1>a, <2>1, <2>2, <3>1 DEF Record, Bounded!Discover, Recorded
    <3> QED
      BY <3>2 DEF Bounded!BNext
  <2>3. ASSUME NEW n \in pending[h], Consider(h, n)
        PROVE  [Bounded!BNext]_(Bounded!bvars)
    <3>1. h \in Recorded /\ hop[h] = depth /\ depth + 1 < form.maxDepth
      BY <2>3 DEF WorksOnLevel, ResultsAreDone, Distances, Follows
    <3>2. PICK ip \in ManagementIps(n) :
            IF ip # NoIp /\ Admits(ip)
            THEN hop' = [hop EXCEPT ![ip] = depth + 1]
            ELSE UNCHANGED hop
      BY <2>3 DEF Consider
    <3>3. UNCHANGED <<form, results>>
      BY <2>3 DEF Consider, finalizeVars
    <3>4. CASE ip # NoIp /\ Admits(ip)
      <4>1. ip \in Host /\ ip \notin Visited /\ Cardinality(Visited) < form.maxDevices
        BY <3>4, ManagementType DEF Admits, Visited
      <4>2. hop' = [hop EXCEPT ![ip] = hop[h] + 1] /\ hop[h] + 1 < form.maxDepth
        BY <3>1, <3>2, <3>4
      <4>3. UNCHANGED <<form, results, stage>> /\ stage # "completed"
        BY <1>4, <2>1, <3>3, ThreadsCrawl
      <4>4. Bounded!Reach(h, ip)
        BY <1>a, <3>1, <4>1, <4>2, <4>3, BoundedCounts DEF Bounded!Reach, Recorded
      <4> QED
        BY <4>1, <4>4 DEF Bounded!BNext
    <3>5. CASE ~(ip # NoIp /\ Admits(ip))
      BY <1>s, <2>1, <3>2, <3>3, <3>5
    <3> QED
      BY <3>4, <3>5
  <2>4. CASE \/ Silent(h) \/ Probe(h) \/ ProbeRaises(h) \/ FinalizationRaises(h)
             \/ ConsiderRaises(h) \/ (FinalizeStep(h) /\ UNCHANGED crawlVars)
    <3>1. UNCHANGED <<form, hop, results>>
      BY <2>4, FinalizeKeeps DEF Silent, Probe, ProbeRaises, FinalizationRaises, FinalizeRaises,
         ConsiderRaises, crawlVars, finalizeVars
    <3> QED
      BY <1>s, <2>1, <3>1
  <2> QED
    BY <1>4, <2>2, <2>3, <2>4 DEF Thread
<1> QED
  BY <1>1, <1>2, <1>3, <1>4 DEF Next, Engine

(* The crawl implements BoundedCrawl: no address is discovered twice, none *)
(* lies beyond the depth or the cap, and each was reported by a discovered *)
(* one, whatever the threads of a level do to each other.                  *)
THEOREM CrawlKeepsBounds == Spec => KeepsBounds
<1>1. Init => Bounded!BInit
  BY DEF Init, Bounded!BInit
<1> QED
  BY <1>1, StepKeepsBounds, Invariance, PTL DEF Spec, KeepsBounds, Bounded!BSpec

(* The crawl's caps: max_devices and max_depth.                            *)
WithinCaps ==
  /\ Cardinality(Visited) <= form.maxDevices
  /\ \A h \in Visited : hop[h] < form.maxDepth

(* However the threads of a level race for the last place, no more than    *)
(* max_devices addresses are visited, and none max_depth hops away.        *)
THEOREM CrawlStaysWithinCaps == Spec => []WithinCaps
<1>1. CrawlInv /\ Init => WithinCaps
  <2>1. CrawlInv /\ Init => Visited = {} /\ form.maxDevices \in Nat
    BY DEF CrawlInv, CrawlStateInv, CrawlTypeOK, Form, Init, Visited
  <2> QED
    BY <2>1, FS_EmptySet DEF WithinCaps
<1>2. CrawlInv /\ WithinCaps /\ [Bounded!BNext]_(Bounded!bvars) => WithinCaps'
  <2> SUFFICES ASSUME CrawlInv, WithinCaps, [Bounded!BNext]_(Bounded!bvars)
               PROVE  WithinCaps'
    OBVIOUS
  <2> USE DEF CrawlInv, CrawlStateInv
  <2>a. Bounded!Reached = Visited /\ UNCHANGED form
    BY DEF Bounded!Reached, Visited, Bounded!BNext, Bounded!Begin, Bounded!Discover,
       Bounded!Reach, Bounded!End, Bounded!bvars
  <2>b. form.maxDevices \in Nat \ {0} /\ form.maxDepth \in Nat \ {0}
    BY DEF CrawlTypeOK, Form
  <2>1. CASE UNCHANGED hop
    BY <2>1, <2>a DEF WithinCaps, Visited
  <2>2. ASSUME NEW ip \in Host, NEW k \in Nat, hop[ip] = NoHop, k < form.maxDepth,
               Cardinality(Visited) < form.maxDevices, hop' = [hop EXCEPT ![ip] = k]
        PROVE  WithinCaps'
    <3>1. /\ Visited' = Visited \cup {ip}
          /\ Cardinality(Visited') = Cardinality(Visited) + 1
          /\ hop'[ip] = k /\ \A i \in Visited : hop'[i] = hop[i]
      BY <2>2, AdmittedIsVisited
    <3>2. Cardinality(Visited') <= form.maxDevices
      BY <2>2, <2>b, <3>1, FS_CardinalityType
    <3> QED
      BY <2>2, <2>a, <3>1, <3>2 DEF WithinCaps
  <2>3. ASSUME NEW a \in Host, Bounded!Begin(a)
        PROVE  WithinCaps'
    <3>1. Visited = {} /\ hop[a] = NoHop /\ hop' = [hop EXCEPT ![a] = 0]
      BY <2>3, <2>a DEF Bounded!Begin, Visited
    <3>2. Cardinality(Visited) < form.maxDevices /\ 0 < form.maxDepth
      BY <2>b, <3>1, FS_EmptySet
    <3> QED
      BY <2>2, <3>1, <3>2
  <2>4. ASSUME NEW a \in Host, NEW b \in Host, Bounded!Reach(a, b)
        PROVE  WithinCaps'
    <3>1. hop[b] = NoHop /\ hop[a] + 1 < form.maxDepth /\ a \in Recorded
          /\ Cardinality(Visited) < form.maxDevices /\ hop' = [hop EXCEPT ![b] = hop[a] + 1]
      BY <2>4, <2>a, BoundedCounts DEF Bounded!Reach, Visited, Recorded
    <3>2. hop[a] + 1 \in Nat
      BY <3>1 DEF ResultsAreDone, Visited, CrawlTypeOK
    <3> QED
      BY <2>2, <3>1, <3>2
  <2> QED
    BY <2>1, <2>3, <2>4 DEF Bounded!BNext, Bounded!Discover, Bounded!End, Bounded!bvars
<1> QED
  BY <1>1, <1>2, StepKeepsBounds, Invariance, PTL DEF Spec
---------------------------------------------------------------------------
(* No device without a record, for the crawl.                              *)
CreatedIsLinked ==
  ~Faults => \A h \in Host, m \in Method :
    inventory[<<h, m>>] # NoDevice =>
      (Running(h) /\ work[h].device = <<h, m>>) \/ RowLinks(h, m)

(* Threads of a crawl enter and leave finalize_discovery as its lemmas ask.*)
LEMMA CreatedIsKeptByThread ==
  ASSUME CrawlInv, CreatedIsKept, NEW h \in Host, Thread(h)
  PROVE  CreatedIsKept'
<1> USE DEF CrawlInv, FinalizeInv
<1>1. CASE FinalizeStep(h) /\ UNCHANGED crawlVars
  BY <1>1, CreatedIsKeptByStep
<1>2. CASE Record(h) \/ FinalizationRaises(h)
  <2>1. /\ Leave(h) /\ UNCHANGED <<inventory, ledger>>
        /\ RecordResult(h) \/ (FinalizeRaises(h) /\ UNCHANGED results)
    BY <1>2 DEF Record, FinalizationRaises, RecordResult, FinalizeRaises
  <2> QED
    BY <2>1, CreatedIsKeptByLeave
<1>3. CASE Silent(h) \/ ProbeRaises(h)
  <2>1. Leave(h) /\ UNCHANGED <<inventory, ledger, results>> /\ ~Running(h)
    BY <1>3, PcCases DEF Silent, ProbeRaises, Takes
  <2> QED
    BY <2>1, CreatedIsKeptByLeave
<1>4. CASE Probe(h)
  <2>1. /\ At(h, "idle") /\ UNCHANGED <<inventory, ledger, results>>
        /\ \E id : Enter(h, "snmp", id)
    BY <1>4 DEF Probe, Takes
  <2>2. ~Running(h) /\ h \notin Recorded
    BY <2>1, PcCases DEF ResultsAreDone, At
  <2>3. work'[h].pc = "correlate" /\ \A i \in Host \ {h} : work'[i] = work[i]
    BY <2>1 DEF Enter, FinalizeTypeOK, Work
  <2> QED
    BY <2>1, <2>2, <2>3, CreatedIsKeptByEnter
<1>5. CASE (\E n \in pending[h] : Consider(h, n)) \/ ConsiderRaises(h)
  <2>1. UNCHANGED finalizeVars
    BY <1>5 DEF Consider, ConsiderRaises
  <2> QED
    BY <2>1 DEF finalizeVars, CreatedIsKept, RowLinks, Running, At, Recorded
<1> QED
  BY <1>1, <1>2, <1>3, <1>4, <1>5 DEF Thread

(* As long as the database does not fail, every device a crawl created is  *)
(* in the hands of its thread or linked from the row of its address, also  *)
(* when the threads of a level create at the same time.                    *)
THEOREM CrawlLeavesNoOrphan == Spec => []CreatedIsLinked
<1>1. CreatedIsKept => CreatedIsLinked
  BY DEF CreatedIsKept, CreatedIsLinked, Running, Finalizing
<1>2. Init => CreatedIsKept
  BY CrawlStart DEF Init, Idle, CreatedIsKept, At
<1>3. CrawlInv /\ CreatedIsKept /\ [Next]_vars => CreatedIsKept'
  <2>1. SUFFICES ASSUME CrawlInv, CreatedIsKept, [Next]_vars
                 PROVE  CreatedIsKept'
    OBVIOUS
  <2>2. CASE Engine \/ UNCHANGED vars
    <3>1. UNCHANGED finalizeVars
      BY <2>2 DEF Engine, Start, Reject, NextLevel, Complete, vars
    <3> QED
      BY <2>1, <3>1 DEF finalizeVars, CreatedIsKept, RowLinks, Running, At, Recorded
  <2> QED
    BY <2>1, <2>2, CreatedIsKeptByThread DEF Next
<1> QED
  BY <1>1, <1>2, <1>3, Invariance, PTL DEF Spec
=============================================================================
