--------------------------- MODULE DiscoveryScan ---------------------------
(***************************************************************************)
(* The three-phase engine of FullDiscoveryJob.run, which is also the one   *)
(* of NetworkDeviceDiscoveryJob: a ping sweep, SNMP in bounded batches on  *)
(* the hosts that answered, SSH on the hosts SNMP did not identify, then   *)
(* the totals.  Every phase is a pool of worker threads that is joined     *)
(* before the next phase begins; the threads interleave in                 *)
(* finalize_discovery (module Finalize).                                   *)
(*                                                                         *)
(* What the network answers is an environment choice, bounded per host by  *)
(* PingSees, SnmpSees and SshSees.  Cable linking after the last phase is  *)
(* not part of this module.                                                *)
(***************************************************************************)
EXTENDS Finalize, Naturals, FiniteSets

CONSTANTS
  NoInfo,       \* the collector returned nothing
  PingSees,     \* host -> answers a ping may get, a set of BOOLEANs
  SnmpSees,     \* host -> what an SNMP probe may return
  SshSees,      \* host -> what SSH may return: an identity and the group
                \*   whose credentials worked
  SnmpWorkers, SshWorkers, BatchSize,
  Jobs,         \* the inputs a run is started with
  Inventories,  \* the Device tables a run may find
  Ledgers       \* the DiscoveredDevice tables a run may find

SshAnswer == [id : Identity, group : Group \cup {NoGroup}]

ASSUME ScanAssumption ==
  /\ NoInfo \notin Identity \cup SshAnswer
  /\ PingSees \in [Host -> SUBSET BOOLEAN]
  /\ SnmpSees \in [Host -> SUBSET (Identity \cup {NoInfo})]
  /\ SshSees \in [Host -> SUBSET (SshAnswer \cup {NoInfo})]
  /\ SnmpWorkers \in Nat \ {0}
  /\ SshWorkers \in Nat \ {0}
  /\ BatchSize \in Nat
  /\ Jobs \subseteq Options
  /\ Name # {}

ASSUME StartAssumption ==
  /\ \A inv \in Inventories :
       inv \in Inventory /\ \A key \in Host \X Method : inv[key] = NoDevice
  /\ Ledgers \subseteq [Host -> LedgerRow \cup {NoRow}]
  /\ \A led \in Ledgers, inv \in Inventories, h \in Host :
       led[h] # NoRow => led[h].device \in Rows(inv) \cup {NoDevice}

ASSUME HostIsFinite == IsFiniteSet(Host)

VARIABLES
  phase,       \* "ping", "snmp", "ssh", "completed"
  live,        \* live_hosts
  todo,        \* live hosts that no SNMP batch has taken yet
  batch,       \* the batch being scanned
  batchFound,  \* the keys of its batch_results
  found,       \* the keys of snmp_results, which are discovered_hosts
  targets,     \* ssh_targets
  stored,      \* the keys of pre_scan_state
  totals,      \* the total_* counters
  scan         \* the DiscoveryScan row

scanVars == <<phase, live, todo, batch, batchFound, found, targets, stored, totals, scan>>
vars == <<scanVars, finalizeVars>>

Scan == [status : {"running", "completed"}, discovered : Nat, created : Nat]

FastPath(job) == job.fastPath /\ job.snmp /\ job.ssh

Init ==
  /\ opts \in Jobs
  /\ inventory \in Inventories
  /\ ledger \in Ledgers
  /\ results = {}
  /\ work = [h \in Host |-> Idle]
  /\ phase = "ping"
  /\ live = {} /\ todo = {} /\ batch = {} /\ batchFound = {} /\ found = {} /\ targets = {}
  /\ stored = IF FastPath(opts) THEN {h \in Host : ledger[h] # NoRow} ELSE {}
  /\ totals = NoTotals
  /\ scan = [status |-> "running", discovered |-> 0, created |-> 0]

Busy == {h \in Host : Running(h)}
Free(workers) == Cardinality(Busy) < workers
---------------------------------------------------------------------------
(* Phase 1.  The pool of pings only adds to a set, under a lock, and is    *)
(* joined: the sweep is one step.                                          *)
PingSweep ==
  /\ phase = "ping"
  /\ live' \in IF opts.ping
               THEN {S \in SUBSET Host : \A h \in Host : (h \in S) \in PingSees[h]}
               ELSE {Host}
  /\ todo' = IF opts.snmp THEN live' ELSE {}
  /\ phase' = "snmp"
  /\ UNCHANGED <<finalizeVars, batch, batchFound, found, targets, stored, totals, scan>>

(* Phase 2.  A batch size of 0 is one batch with every host.  The code     *)
(* takes the hosts in sorted order, the model in any order.                *)
BatchOf(S, b) ==
  /\ b \subseteq S
  /\ IF BatchSize = 0 \/ Cardinality(S) <= BatchSize THEN b = S ELSE Cardinality(b) = BatchSize

StartBatch ==
  /\ phase = "snmp"
  /\ batch = {}
  /\ todo # {}
  /\ \E b \in SUBSET todo : BatchOf(todo, b) /\ batch' = b /\ todo' = todo \ b
  /\ batchFound' = {}
  /\ UNCHANGED <<finalizeVars, phase, live, found, targets, stored, totals, scan>>

(* snmp_concurrency is capped at the batch size.                           *)
SnmpPool == IF BatchSize > 0 /\ BatchSize < SnmpWorkers THEN BatchSize ELSE SnmpWorkers

(* Mutant: batch_results is filled before finalize_discovery.              *)
SnmpProbeRecordsEarly(h) ==
  /\ phase = "snmp"
  /\ h \in batch
  /\ At(h, "idle")
  /\ Free(SnmpPool)
  /\ \E info \in SnmpSees[h] :
       /\ IF info = NoInfo THEN Leave(h) ELSE Enter(h, "snmp", info)
       /\ batchFound' = IF info = NoInfo THEN batchFound ELSE batchFound \cup {h}
  /\ UNCHANGED <<opts, inventory, ledger, results,
                 phase, live, todo, batch, found, targets, stored, totals, scan>>

SnmpProbe(h) ==
  /\ phase = "snmp"
  /\ h \in batch
  /\ At(h, "idle")
  /\ Free(SnmpPool)
  /\ \E info \in SnmpSees[h] :
       IF info = NoInfo THEN Leave(h) ELSE Enter(h, "snmp", info)
  /\ UNCHANGED <<scanVars, opts, inventory, ledger, results>>

(* The host enters batch_results only after finalize_discovery returned.   *)
SnmpRecord(h) ==
  /\ phase = "snmp"
  /\ RecordResult(h)
  /\ batchFound' = batchFound \cup {h}
  /\ UNCHANGED <<phase, live, todo, batch, found, targets, stored, totals, scan>>

(* An exception is logged: to the job the host did not answer.             *)
SnmpRaise(h) ==
  /\ phase = "snmp"
  /\ FinalizeRaises(h)
  /\ UNCHANGED scanVars

(* Mutant: the job waits until every host of the batch was found.          *)
EndBatchWhenAllFound ==
  /\ phase = "snmp"
  /\ batch # {}
  /\ batchFound = batch
  /\ found' = found \cup batchFound
  /\ totals' = [totals EXCEPT !.discovered = @ + Cardinality(batchFound)]
  /\ batch' = {}
  /\ batchFound' = {}
  /\ UNCHANGED <<finalizeVars, phase, live, todo, targets, stored, scan>>

EndBatch ==
  /\ phase = "snmp"
  /\ batch # {}
  /\ \A h \in batch : At(h, "done")
  /\ found' = found \cup batchFound
  /\ totals' = [totals EXCEPT !.discovered = @ + Cardinality(batchFound)]
  /\ batch' = {}
  /\ batchFound' = {}
  /\ UNCHANGED <<finalizeVars, phase, live, todo, targets, stored, scan>>

(* Mutant: SSH is tried on every live host.                                *)
EndSnmpAllTargets ==
  /\ phase = "snmp"
  /\ batch = {}
  /\ todo = {}
  /\ phase' = "ssh"
  /\ targets' = IF opts.ssh /\ opts.candidates THEN live ELSE {}
  /\ work' = [h \in Host |-> Idle]
  /\ UNCHANGED <<opts, inventory, ledger, results,
                 live, todo, batch, batchFound, found, stored, totals, scan>>

(* Mutant: SSH is tried only on hosts that SNMP did not probe.             *)
EndSnmpUnprobedTargets ==
  /\ phase = "snmp"
  /\ batch = {}
  /\ todo = {}
  /\ phase' = "ssh"
  /\ targets' = IF opts.ssh /\ opts.candidates THEN {h \in live : ~At(h, "done")} ELSE {}
  /\ work' = [h \in Host |-> Idle]
  /\ UNCHANGED <<opts, inventory, ledger, results,
                 live, todo, batch, batchFound, found, stored, totals, scan>>

EndSnmp ==
  /\ phase = "snmp"
  /\ batch = {}
  /\ todo = {}
  /\ phase' = "ssh"
  /\ targets' = IF opts.ssh /\ opts.candidates THEN live \ found ELSE {}
  /\ work' = [h \in Host |-> Idle]
  /\ UNCHANGED <<opts, inventory, ledger, results,
                 live, todo, batch, batchFound, found, stored, totals, scan>>
---------------------------------------------------------------------------
(* Phase 3.  ssh_scan looks a host with a stored row up in snmp_results,   *)
(* to decide on the Fast Path.  A target is by construction not there: the *)
(* lookup raises and the pool drops the exception.                         *)
SshFastPathLookup(h) ==
  /\ phase = "ssh"
  /\ h \in targets
  /\ At(h, "idle")
  /\ Free(SshWorkers)
  /\ h \in stored
  /\ h \notin found
  /\ Leave(h)
  /\ UNCHANGED <<scanVars, opts, inventory, ledger, results>>

SshSilent(h) ==
  /\ phase = "ssh"
  /\ h \in targets \ stored
  /\ At(h, "idle")
  /\ Free(SshWorkers)
  /\ NoInfo \in SshSees[h]
  /\ Leave(h)
  /\ UNCHANGED <<scanVars, opts, inventory, ledger, results>>

(* record_ssh_success keeps the group on the row the address already has,  *)
(* before finalize_discovery can make one.                                 *)
RememberGroup(row, group) ==
  IF row = NoRow \/ group = NoGroup THEN row ELSE [row EXCEPT !.group = group]

SshCollect(h) ==
  /\ phase = "ssh"
  /\ h \in targets \ stored
  /\ At(h, "idle")
  /\ Free(SshWorkers)
  /\ \E answer \in SshSees[h] \ {NoInfo} :
       /\ ledger' = [ledger EXCEPT ![h] = RememberGroup(@, answer.group)]
       /\ Enter(h, "ssh", answer.id)
  /\ totals' = [totals EXCEPT !.discovered = @ + 1]
  /\ UNCHANGED <<opts, inventory, results,
                 phase, live, todo, batch, batchFound, found, targets, stored, scan>>

(* record_ssh_success raises, which is counted as a failed host that was   *)
(* never discovered.                                                       *)
SshCollectRaises(h) ==
  /\ Faults
  /\ phase = "ssh"
  /\ h \in targets \ stored
  /\ At(h, "idle")
  /\ Free(SshWorkers)
  /\ SshSees[h] \ {NoInfo} # {}
  /\ Leave(h)
  /\ totals' = [totals EXCEPT !.failed = @ + 1]
  /\ UNCHANGED <<opts, inventory, ledger, results,
                 phase, live, todo, batch, batchFound, found, targets, stored, scan>>

SshRecord(h) ==
  /\ phase = "ssh"
  /\ RecordResult(h)
  /\ totals' = Count(totals, h)
  /\ UNCHANGED <<phase, live, todo, batch, batchFound, found, targets, stored, scan>>

(* Mutant: an exception of the SSH phase is not counted.                   *)
SshRaiseUncounted(h) ==
  /\ phase = "ssh"
  /\ FinalizeRaises(h)
  /\ UNCHANGED scanVars

SshRaise(h) ==
  /\ phase = "ssh"
  /\ FinalizeRaises(h)
  /\ totals' = [totals EXCEPT !.failed = @ + 1]
  /\ UNCHANGED <<phase, live, todo, batch, batchFound, found, targets, stored, scan>>

(* Mutant: the pool is not joined.                                         *)
CompleteEarly ==
  /\ phase = "ssh"
  /\ phase' = "completed"
  /\ scan' = [status |-> "completed", discovered |-> totals.discovered,
              created |-> totals.created]
  /\ UNCHANGED <<finalizeVars, live, todo, batch, batchFound, found, targets, stored, totals>>

(* The totals become the scan's row.                                       *)
Complete ==
  /\ phase = "ssh"
  /\ \A h \in targets : At(h, "done")
  /\ phase' = "completed"
  /\ scan' = [status |-> "completed", discovered |-> totals.discovered,
              created |-> totals.created]
  /\ UNCHANGED <<finalizeVars, live, todo, batch, batchFound, found, targets, stored, totals>>
---------------------------------------------------------------------------
Finalizes(h) == FinalizeStep(h) /\ UNCHANGED scanVars

Worker(h) ==
  \/ Finalizes(h)
  \/ SnmpProbe(h) \/ SnmpRecord(h) \/ SnmpRaise(h)
  \/ SshFastPathLookup(h) \/ SshSilent(h) \/ SshCollect(h) \/ SshCollectRaises(h)
  \/ SshRecord(h) \/ SshRaise(h)

Engine == PingSweep \/ StartBatch \/ EndBatch \/ EndSnmp \/ Complete

Next == Engine \/ \E h \in Host : Worker(h)

Spec == Init /\ [][Next]_vars

(* Every network call has a timeout, so a thread that runs comes to an     *)
(* end; the job's own thread only waits for the pools.                     *)
FairSpec == Spec /\ WF_vars(Engine) /\ \A h \in Host : WF_vars(Worker(h))
---------------------------------------------------------------------------
(* Properties.                                                             *)

TypeOK ==
  /\ FinalizeTypeOK
  /\ phase \in {"ping", "snmp", "ssh", "completed"}
  /\ live \subseteq Host /\ todo \subseteq Host /\ batch \subseteq Host
  /\ batchFound \subseteq Host /\ found \subseteq Host /\ targets \subseteq Host
  /\ stored \subseteq Host
  /\ totals \in Totals
  /\ scan \in Scan

ResultHosts(method) == {r.host : r \in {s \in results : s.method = method}}

(* What the variables of the engine mean in each phase.  In the SNMP phase *)
(* the two dictionaries together hold exactly the hosts with a result, and *)
(* their threads are over; only hosts of the current batch are worked on.  *)
SnmpPhase ==
  /\ \A r \in results : r.method = "snmp"
  /\ ResultHosts("snmp") = found \cup batchFound
  /\ \A h \in found \cup batchFound : At(h, "done")
  /\ batchFound \subseteq batch
  /\ \A h \in Busy : h \in batch /\ work[h].method = "snmp"

(* In the SSH phase the threads and the new results are those of targets,  *)
(* none of which has an SNMP result, and a completed scan has no thread.   *)
SshPhase ==
  /\ found = ResultHosts("snmp")
  /\ targets \cap found = {}
  /\ \A h \in ResultHosts("ssh") : h \in targets /\ At(h, "done")
  /\ \A h \in Busy : h \in targets /\ work[h].method = "ssh"
  /\ opts.ssh /\ opts.candidates => targets = live \ found
  /\ phase = "completed" => \A h \in targets : At(h, "done")

(* The join of each pool separates the phases: no thread and no result of  *)
(* one phase is ever met in another.                                       *)
PhasesAreSeparate ==
  /\ phase = "ping" => results = {} /\ found = {} /\ batch = {} /\ batchFound = {} /\ Busy = {}
  /\ phase = "snmp" => SnmpPhase
  /\ phase \in {"ssh", "completed"} => SshPhase
  /\ scan.status = "completed" <=> phase = "completed"

(* A scan records an address once, over one protocol, whatever raised on   *)
(* the way: DiscoveryResult has no unique key, only the control flow of    *)
(* the two phases and the batch dictionaries keep it so.                   *)
OneResultPerHost == \A r, s \in results : r.host = s.host => r = s

(* A target of the SSH phase is never in snmp_results, so the lookup of    *)
(* ssh_scan finds no identity and no host is collected over the Fast Path. *)
FastPathFindsNothing == phase = "ssh" => targets \cap found = {}

(* No orphan: a device the scan created is in the hands of its thread or   *)
(* is the device of the DiscoveredDevice row of the address it was found   *)
(* at, as long as the database does not fail.                              *)
CreatedIsOnRecord ==
  ~Faults => \A h \in Host, m \in Method :
    inventory[<<h, m>>] # NoDevice =>
      \/ Running(h) /\ work[h].device = <<h, m>>
      \/ ledger[h] # NoRow /\ ledger[h].device = <<h, m>>

(* Every identity that was collected is accounted for: the discovered      *)
(* total counts the results, the SSH threads in flight and the SSH hosts   *)
(* whose recording raised, which are failed without a failed result.  Only *)
(* a database failure can make a host failed that was not discovered.      *)
TotalsBalance ==
  LET Inflight    == Cardinality(Busy)
      FailedOnSsh == Cardinality({r \in results : r.method = "ssh" /\ r.status = "failed"})
      Collected   == totals.discovered + FailedOnSsh
      Accounted   == Cardinality(results) + totals.failed + Inflight
  IN  phase \in {"ssh", "completed"} =>
        Collected <= Accounted /\ (~Faults => Collected = Accounted)

(* A host that always answers a protocol of the job has a DiscoveredDevice *)
(* row at the end, even when its DiscoveryResult could not be written.     *)
AnsweringHostHasRow ==
  ~Faults /\ phase = "completed" =>
    \A h \in live :
      \/ opts.snmp /\ NoInfo \notin SnmpSees[h]
      \/ opts.ssh /\ opts.candidates /\ NoInfo \notin SshSees[h]
      => ledger[h] # NoRow

(* A dry run neither creates nor changes a Device.                         *)
DryRunKeepsInventory == [][opts.dryrun => inventory' = inventory]_vars

(* The scan's row is final when it says completed.                         *)
CompletedIsFinal ==
  [][scan.status = "completed" => UNCHANGED <<scan, results, ledger, inventory>>]_vars

Created == Rows(inventory) \ Seed

(* No two devices stand for one name or one serial because of this scan.   *)
(* Correlation and creation are separate queries without a lock, so this   *)
(* holds for a pool of one thread only.                                    *)
NoTwins ==
  \A d \in Created, e \in Rows(inventory) : d # e =>
    /\ ~SameName(inventory, d, inventory[e].name)
    /\ inventory[d].serial # NoSerial => inventory[e].serial # inventory[d].serial

(* An address recorded as existing in a device agrees with it in every     *)
(* attribute that was discovered: imported means what the README says.     *)
ImportedAgrees ==
  ~opts.dryrun => \A r \in results : r.status = "existing" =>
    LET row == ledger[r.host]
        dev == inventory[r.device]
    IN  /\ dev.ip \in AddressRows(r.host)
        /\ Fold[dev.name] = Fold[row.name]
        /\ row.serial # NoSerial => dev.serial = row.serial

(* A job that is given a processor completes its scan.                     *)
ScanCompletes == <>(scan.status = "completed")

OutcomeOf(h) == {m \in Method : h \in ResultHosts(m)}

Outcome == INSTANCE ScanOutcome WITH
  outcome <- [h \in Host |-> OutcomeOf(h)],
  stage   <- IF phase = "ping" THEN "snmp" ELSE phase

(* The engine keeps the promise of ScanOutcome.                            *)
KeepsOutcome == Outcome!OutcomeSpec
---------------------------------------------------------------------------
(* Statements of the repository's documentation that the engine does not   *)
(* keep; each is the subject of one run.                                   *)

(* SSH covers the hosts not identified by SNMP: with credentials at hand,  *)
(* a live host that always accepts an SSH login is discovered, over SNMP   *)
(* or over SSH.  It holds as long as the Fast Path is off.                 *)
SshReachesTheRest ==
  ~Faults /\ phase = "completed" /\ opts.ssh /\ opts.candidates
    => totals.discovered >= Cardinality(found \cup {h \in live : NoInfo \notin SshSees[h]})

(* Data that is not blank is never overwritten.                            *)
SerialIsKept ==
  [][\A d \in Rows(inventory) :
       inventory[d].serial # NoSerial => inventory'[d].serial = inventory[d].serial]_vars
=============================================================================
