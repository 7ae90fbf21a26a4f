------------------------ MODULE DiscoveryScanProofs ------------------------
(***************************************************************************)
(* The engine's invariants hold for every set of hosts, every pool and     *)
(* batch size, every inventory and whatever the network answers.  The      *)
(* inductive invariant joins what finalize_discovery keeps (module         *)
(* FinalizeProofs) with the meaning of the engine's dictionaries in each   *)
(* phase, PhasesAreSeparate.                                               *)
(***************************************************************************)
EXTENDS DiscoveryScan, FinalizeProofs, FiniteSetTheorems

ScanInv == FinalizeInv /\ TypeOK /\ PhasesAreSeparate /\ OneResultPerHost

(* A thread is idle, done or running.                                      *)
LEMMA PcCases ==
  ASSUME FinalizeTypeOK, NEW h \in Host
  PROVE  /\ At(h, "idle") \/ At(h, "done") \/ Running(h)
         /\ Running(h) => ~At(h, "idle") /\ ~At(h, "done")
         /\ Running(h) <=> h \in Busy
BY DEF FinalizeTypeOK, Work, At, Running, Finalizing, Busy

LEMMA InitInv == Init => ScanInv
<1> SUFFICES ASSUME Init PROVE ScanInv
  OBVIOUS
<1>1. Idle \in Work /\ ~(Idle.pc \in Finalizing)
  BY ScanAssumption DEF Idle, Work, Method, ResultStatus, Finalizing
<1>2. FinalizeInv
  <2>1. FinalizeTypeOK
    BY <1>1, ScanAssumption, StartAssumption DEF Init, FinalizeTypeOK
  <2>2. ObjectInHand /\ LinksExist /\ DryRunReports
    BY StartAssumption DEF Init, Idle, ObjectInHand, LinksExist, DryRunReports, Creating
  <2> QED
    BY <2>1, <2>2 DEF FinalizeInv
<1>3. TypeOK
  BY <1>2 DEF FinalizeInv, Init, TypeOK, Totals, NoTotals, Scan, FastPath
<1>4. PhasesAreSeparate
  BY <1>1 DEF Init, PhasesAreSeparate, Busy, Running
<1>5. OneResultPerHost
  BY DEF Init, OneResultPerHost
<1> QED
  BY <1>2, <1>3, <1>4, <1>5 DEF ScanInv
---------------------------------------------------------------------------
(* Nothing that finalize_discovery works on changes.                       *)
LEMMA FinalizeStutter ==
  ASSUME ScanInv, UNCHANGED finalizeVars
  PROVE  FinalizeInv' /\ OneResultPerHost'
BY DEF finalizeVars, ScanInv, FinalizeInv, FinalizeTypeOK, ObjectInHand, LinksExist,
   DryRunReports, OneResultPerHost, Rows

LEMMA PingKeeps ==
  ASSUME ScanInv, PingSweep
  PROVE  ScanInv'
<1> USE DEF ScanInv
<1>1. FinalizeInv' /\ OneResultPerHost'
  BY FinalizeStutter DEF PingSweep
<1>2. live' \subseteq Host /\ todo' \subseteq Host
  BY DEF PingSweep
<1>3. TypeOK'
  BY <1>1, <1>2 DEF PingSweep, finalizeVars, FinalizeInv, TypeOK
<1>4. SnmpPhase'
  BY DEF PingSweep, finalizeVars, PhasesAreSeparate, SnmpPhase, ResultHosts, Busy, Running
<1>5. PhasesAreSeparate'
  BY <1>4 DEF PingSweep, PhasesAreSeparate
<1> QED
  BY <1>1, <1>3, <1>5

LEMMA StartBatchKeeps ==
  ASSUME ScanInv, StartBatch
  PROVE  ScanInv'
<1> USE DEF ScanInv
<1>1. FinalizeInv' /\ OneResultPerHost'
  BY FinalizeStutter DEF StartBatch
<1>2. TypeOK'
  BY <1>1 DEF StartBatch, finalizeVars, FinalizeInv, TypeOK
<1>3. SnmpPhase'
  BY DEF StartBatch, finalizeVars, PhasesAreSeparate, SnmpPhase, ResultHosts, Busy, Running, At
<1>4. PhasesAreSeparate'
  BY <1>3 DEF StartBatch, PhasesAreSeparate
<1> QED
  BY <1>1, <1>2, <1>4

LEMMA EndBatchKeeps ==
  ASSUME ScanInv, EndBatch
  PROVE  ScanInv'
<1> USE DEF ScanInv
<1>1. FinalizeInv' /\ OneResultPerHost'
  BY FinalizeStutter DEF EndBatch
<1>2. Cardinality(batchFound) \in Nat
  BY HostIsFinite, FS_Subset, FS_CardinalityType DEF TypeOK
<1>3. TypeOK'
  BY <1>1, <1>2 DEF EndBatch, finalizeVars, FinalizeInv, TypeOK, Totals
<1>4. SnmpPhase'
  <2>1. \A h \in Host : h \notin Busy
    BY PcCases DEF EndBatch, PhasesAreSeparate, SnmpPhase, TypeOK, Busy
  <2> QED
    BY <2>1 DEF EndBatch, finalizeVars, PhasesAreSeparate, SnmpPhase, ResultHosts, Busy, Running, At
<1>5. PhasesAreSeparate'
  BY <1>4 DEF EndBatch, PhasesAreSeparate
<1> QED
  BY <1>1, <1>3, <1>5

LEMMA EndSnmpKeeps ==
  ASSUME ScanInv, EndSnmp
  PROVE  ScanInv'
<1> USE DEF ScanInv
<1>1. Idle \in Work /\ ~(Idle.pc \in Finalizing)
  BY ScanAssumption DEF Idle, Work, Method, ResultStatus, Finalizing
<1>2. FinalizeInv' /\ OneResultPerHost'
  BY <1>1 DEF EndSnmp, FinalizeInv, FinalizeTypeOK, ObjectInHand, LinksExist,
     DryRunReports, OneResultPerHost, Rows, Idle, Creating
<1>3. TypeOK'
  BY <1>2 DEF EndSnmp, FinalizeInv, TypeOK
<1>4. SshPhase'
  BY <1>1 DEF EndSnmp, PhasesAreSeparate, SnmpPhase, SshPhase, ResultHosts, Busy, Running
<1>5. PhasesAreSeparate'
  BY <1>4 DEF EndSnmp, PhasesAreSeparate
<1> QED
  BY <1>2, <1>3, <1>5

LEMMA CompleteKeeps ==
  ASSUME ScanInv, Complete
  PROVE  ScanInv'
<1> USE DEF ScanInv
<1>1. FinalizeInv' /\ OneResultPerHost'
  BY FinalizeStutter DEF Complete
<1>2. TypeOK'
  BY <1>1 DEF Complete, finalizeVars, FinalizeInv, TypeOK, Totals, Scan
<1>3. SshPhase'
  BY DEF Complete, finalizeVars, PhasesAreSeparate, SshPhase, ResultHosts, Busy, Running, At
<1>4. PhasesAreSeparate'
  BY <1>3 DEF Complete, PhasesAreSeparate
<1> QED
  BY <1>1, <1>2, <1>4
---------------------------------------------------------------------------
(* A thread's step inside finalize_discovery.                              *)
LEMMA FinalizesKeeps ==
  ASSUME ScanInv, NEW h \in Host, Finalizes(h)
  PROVE  ScanInv'
<1> USE DEF ScanInv
<1>1. FinalizeInv' /\ OnlyThread(h) /\ UNCHANGED scanVars
  BY FinalizeStepKeeps DEF Finalizes
<1>2. TypeOK' /\ OneResultPerHost'
  BY <1>1 DEF OnlyThread, scanVars, FinalizeInv, TypeOK, OneResultPerHost
<1>3. Busy' = Busy /\ \A i \in Host : work'[i].method = work[i].method
  BY <1>1 DEF OnlyThread, Busy, Running
<1>4. \A i \in Host : At(i, "done") => At(i, "done")'
  BY <1>1 DEF OnlyThread, At, Running, Finalizing
<1>5. PhasesAreSeparate'
  <2>1. UNCHANGED <<opts, results, scanVars>>
    BY <1>1 DEF OnlyThread
  <2>2. phase = "ping" => PhasesAreSeparate'
    BY <2>1, <1>3 DEF PhasesAreSeparate, scanVars
  <2>3. phase = "snmp" => SnmpPhase'
    BY <2>1, <1>3, <1>4 DEF PhasesAreSeparate, SnmpPhase, ResultHosts, scanVars, TypeOK, Busy
  <2>4. phase \in {"ssh", "completed"} => SshPhase'
    BY <2>1, <1>3, <1>4 DEF PhasesAreSeparate, SshPhase, ResultHosts, scanVars, TypeOK, Busy
  <2> QED
    BY <2>1, <2>2, <2>3, <2>4 DEF PhasesAreSeparate, scanVars
<1> QED
  BY <1>1, <1>2, <1>5

(* The first step of an SNMP thread.                                       *)
LEMMA SnmpProbeKeeps ==
  ASSUME ScanInv, NEW h \in Host, SnmpProbe(h)
  PROVE  ScanInv'
<1> USE DEF ScanInv
<1>1. /\ phase = "snmp" /\ h \in batch /\ At(h, "idle")
      /\ UNCHANGED <<scanVars, opts, inventory, ledger, results>>
  BY DEF SnmpProbe
<1>2. /\ FinalizeInv'
      /\ At(h, "done")' \/ (Running(h)' /\ work'[h].method = "snmp")
      /\ \A i \in Host \ {h} : work'[i] = work[i]
  <2>1. PICK info \in SnmpSees[h] : IF info = NoInfo THEN Leave(h) ELSE Enter(h, "snmp", info)
    BY DEF SnmpProbe
  <2>2. info # NoInfo => info \in Identity
    BY ScanAssumption
  <2> QED
    BY <1>1, <2>1, <2>2, LeaveKeeps, EnterKeeps DEF Method, At
<1>3. TypeOK' /\ OneResultPerHost'
  BY <1>1, <1>2 DEF scanVars, FinalizeInv, TypeOK, OneResultPerHost
<1>4. SnmpPhase'
  <2>1. SnmpPhase
    BY <1>1 DEF PhasesAreSeparate
  <2>2. h \notin found \cup batchFound
    BY <1>1, <2>1 DEF SnmpPhase, At
  <2>3. \A i \in found \cup batchFound : At(i, "done")'
    BY <1>2, <2>1, <2>2 DEF SnmpPhase, At, TypeOK
  <2>4. \A i \in Busy' : i \in batch /\ work'[i].method = "snmp"
    BY <1>1, <1>2, <2>1 DEF SnmpPhase, Busy, Running, At, Finalizing
  <2> QED
    BY <1>1, <2>1, <2>3, <2>4 DEF SnmpPhase, ResultHosts, scanVars
<1>5. PhasesAreSeparate'
  BY <1>1, <1>4 DEF PhasesAreSeparate, scanVars
<1> QED
  BY <1>2, <1>3, <1>5

(* A result is recorded, over the protocol of the thread, for a host that  *)
(* had none.                                                               *)
LEMMA RecordKeeps ==
  ASSUME ScanInv, NEW h \in Host, RecordResult(h), h \notin {r.host : r \in results}
  PROVE  /\ FinalizeInv' /\ OneResultPerHost'
         /\ At(h, "done")' /\ \A i \in Host \ {h} : work'[i] = work[i]
         /\ \A m \in Method : ResultHosts(m)' =
              ResultHosts(m) \cup (IF m = work[h].method THEN {h} ELSE {})
<1> USE DEF ScanInv
<1> DEFINE r == [host |-> h, method |-> work[h].method, status |-> work[h].status,
                 device |-> work[h].device]
<1>1. results' = results \cup {r} /\ Leave(h) /\ UNCHANGED <<opts, inventory, ledger>>
  BY DEF RecordResult
<1>2. FinalizeInv' /\ At(h, "done")' /\ \A i \in Host \ {h} : work'[i] = work[i]
  BY <1>1, LeaveKeeps DEF At
<1>3. r.host = h /\ r.method = work[h].method
  OBVIOUS
<1> HIDE DEF r
<1>4. OneResultPerHost'
  BY <1>1, <1>3 DEF OneResultPerHost
<1>5. ASSUME NEW m \in Method
      PROVE  ResultHosts(m)' = ResultHosts(m) \cup (IF m = work[h].method THEN {h} ELSE {})
  BY <1>1, <1>3 DEF ResultHosts
<1> QED
  BY <1>2, <1>4, <1>5

LEMMA SnmpRecordKeeps ==
  ASSUME ScanInv, NEW h \in Host, SnmpRecord(h)
  PROVE  /\ ScanInv' /\ h \notin {r.host : r \in results}
         /\ ResultHosts("snmp")' = ResultHosts("snmp") \cup {h}
         /\ ResultHosts("ssh")' = ResultHosts("ssh")
<1> USE DEF ScanInv
<1>1. /\ phase = "snmp" /\ At(h, "result") /\ SnmpPhase
      /\ UNCHANGED <<opts, phase, live, todo, batch, found, targets, stored, totals, scan>>
      /\ batchFound' = batchFound \cup {h}
  BY DEF SnmpRecord, RecordResult, PhasesAreSeparate
<1>2. h \in Busy
  BY <1>1 DEF At, Busy, Running, Finalizing
<1>3. h \in batch /\ work[h].method = "snmp" /\ h \notin found \cup batchFound
  BY <1>1, <1>2 DEF SnmpPhase, At
<1>4. h \notin {r.host : r \in results}
  BY <1>1, <1>3 DEF SnmpPhase, ResultHosts
<1>5. /\ FinalizeInv' /\ OneResultPerHost'
      /\ At(h, "done")' /\ \A i \in Host \ {h} : work'[i] = work[i]
      /\ ResultHosts("snmp")' = ResultHosts("snmp") \cup {h}
      /\ ResultHosts("ssh")' = ResultHosts("ssh")
  BY <1>3, <1>4, RecordKeeps DEF SnmpRecord, Method
<1>6. TypeOK'
  BY <1>1, <1>5 DEF FinalizeInv, TypeOK
<1>7. SnmpPhase'
  <2>1. \A r \in results' : r.method = "snmp"
    BY <1>1, <1>3 DEF SnmpPhase, SnmpRecord, RecordResult
  <2>2. \A i \in found \cup batchFound' : At(i, "done")'
    BY <1>1, <1>5 DEF SnmpPhase, At, TypeOK
  <2>3. \A i \in Busy' : i \in batch /\ work'[i].method = "snmp"
    BY <1>1, <1>3, <1>5 DEF SnmpPhase, Busy, Running, At, Finalizing
  <2> QED
    BY <1>1, <1>3, <1>5, <2>1, <2>2, <2>3 DEF SnmpPhase
<1>8. PhasesAreSeparate'
  BY <1>1, <1>7 DEF PhasesAreSeparate
<1> QED
  BY <1>4, <1>5, <1>6, <1>8

(* An exception of an SNMP thread.                                         *)
LEMMA SnmpRaiseKeeps ==
  ASSUME ScanInv, NEW h \in Host, SnmpRaise(h)
  PROVE  ScanInv'
<1> USE DEF ScanInv
<1>1. /\ phase = "snmp" /\ SnmpPhase /\ Leave(h)
      /\ UNCHANGED <<opts, inventory, ledger, results, scanVars>>
  BY DEF SnmpRaise, FinalizeRaises, PhasesAreSeparate
<1>2. FinalizeInv' /\ At(h, "done")' /\ \A i \in Host \ {h} : work'[i] = work[i]
  BY <1>1, LeaveKeeps DEF At
<1>3. TypeOK' /\ OneResultPerHost'
  BY <1>1, <1>2 DEF scanVars, FinalizeInv, TypeOK, OneResultPerHost
<1>4. SnmpPhase'
  BY <1>1, <1>2 DEF SnmpPhase, ResultHosts, scanVars, Busy, At, Running, Finalizing, TypeOK
<1>5. PhasesAreSeparate'
  BY <1>1, <1>4 DEF PhasesAreSeparate, scanVars
<1> QED
  BY <1>2, <1>3, <1>5
---------------------------------------------------------------------------
(* A step of the thread of a target that records nothing.                  *)
LEMMA SshThread ==
  ASSUME ScanInv, phase = "ssh", NEW h \in targets,
         UNCHANGED <<opts, phase, live, found, targets, results, scan>>,
         At(h, "done")' \/ (~At(h, "done") /\ Running(h)' /\ work'[h].method = "ssh"),
         \A i \in Host \ {h} : work'[i] = work[i]
  PROVE  PhasesAreSeparate' /\ OneResultPerHost'
<1> USE DEF ScanInv
<1>1. SshPhase
  BY DEF PhasesAreSeparate
<1>2. \A i \in ResultHosts("ssh") : i \in targets /\ At(i, "done")'
  <2>1. ResultHosts("ssh") \subseteq Host
    BY <1>1 DEF SshPhase, TypeOK
  <2> QED
    BY <1>1, <2>1 DEF SshPhase, At
<1>3. \A i \in Busy' : i \in targets /\ work'[i].method = "ssh"
  BY <1>1 DEF SshPhase, Busy, Running, At, Finalizing
<1>4. SshPhase'
  BY <1>1, <1>2, <1>3 DEF SshPhase, ResultHosts
<1> QED
  BY <1>4 DEF PhasesAreSeparate, OneResultPerHost

(* Targets that leave without having collected anything.                   *)
LEMMA SshQuietKeeps ==
  ASSUME ScanInv, NEW h \in Host,
         SshFastPathLookup(h) \/ SshSilent(h) \/ SshCollectRaises(h)
  PROVE  ScanInv'
<1> USE DEF ScanInv
<1>1. /\ phase = "ssh" /\ h \in targets /\ Leave(h)
      /\ UNCHANGED <<opts, inventory, ledger, results,
                     phase, live, todo, batch, batchFound, found, targets, stored, scan>>
      /\ totals' \in Totals
  BY DEF SshFastPathLookup, SshSilent, SshCollectRaises, scanVars, TypeOK, Totals
<1>2. FinalizeInv' /\ At(h, "done")' /\ \A i \in Host \ {h} : work'[i] = work[i]
  BY <1>1, LeaveKeeps DEF At
<1>3. TypeOK'
  BY <1>1, <1>2 DEF FinalizeInv, TypeOK
<1> QED
  BY <1>1, <1>2, <1>3, SshThread

(* An exception of an SSH thread.                                          *)
LEMMA SshRaiseKeeps ==
  ASSUME ScanInv, NEW h \in Host, SshRaise(h)
  PROVE  ScanInv'
<1> USE DEF ScanInv
<1>1. /\ phase = "ssh" /\ Leave(h)
      /\ UNCHANGED <<opts, inventory, ledger, results,
                     phase, live, todo, batch, batchFound, found, targets, stored, scan>>
      /\ totals' \in Totals
  BY DEF SshRaise, FinalizeRaises, TypeOK, Totals
<1>2. h \in targets
  BY <1>1 DEF SshRaise, FinalizeRaises, PhasesAreSeparate, SshPhase, Busy, Running, At, Finalizing
<1>3. FinalizeInv' /\ At(h, "done")' /\ \A i \in Host \ {h} : work'[i] = work[i]
  BY <1>1, LeaveKeeps DEF At
<1>4. TypeOK'
  BY <1>1, <1>3 DEF FinalizeInv, TypeOK
<1> QED
  BY <1>1, <1>2, <1>3, <1>4, SshThread

(* The secrets group is remembered and the identity handed on.             *)
LEMMA SshCollectKeeps ==
  ASSUME ScanInv, NEW h \in Host, SshCollect(h)
  PROVE  ScanInv'
<1> USE DEF ScanInv
<1>1. /\ phase = "ssh" /\ h \in targets /\ At(h, "idle")
      /\ UNCHANGED <<opts, inventory, results,
                     phase, live, todo, batch, batchFound, found, targets, stored, scan>>
      /\ totals' \in Totals
  BY DEF SshCollect, TypeOK, Totals
<1>2. PICK answer \in SshAnswer :
        /\ ledger' = [ledger EXCEPT ![h] = RememberGroup(ledger[h], answer.group)]
        /\ Enter(h, "ssh", answer.id)
  BY ScanAssumption DEF SshCollect
<1>3. \/ UNCHANGED ledger
      \/ \E row \in LedgerRow :
           /\ row.device \in Rows(inventory) \cup {NoDevice}
           /\ ledger' = [ledger EXCEPT ![h] = row]
  <2>1. ledger[h] \in LedgerRow \cup {NoRow} /\ answer.group \in Group \cup {NoGroup}
    BY DEF FinalizeInv, FinalizeTypeOK, SshAnswer
  <2>2. CASE ledger[h] = NoRow
    BY <1>2, <2>2 DEF RememberGroup, FinalizeInv, FinalizeTypeOK
  <2>3. CASE ledger[h] # NoRow
    <3> DEFINE row == RememberGroup(ledger[h], answer.group)
    <3>1. row \in LedgerRow /\ row.device = ledger[h].device
      BY <2>1, <2>3 DEF RememberGroup, LedgerRow
    <3>2. ledger[h].device \in Rows(inventory) \cup {NoDevice}
      BY <2>3 DEF FinalizeInv, LinksExist
    <3> QED
      BY <1>2, <3>1, <3>2
  <2> QED
    BY <2>2, <2>3
<1>4. /\ FinalizeInv' /\ Running(h)' /\ work'[h].method = "ssh"
      /\ \A i \in Host \ {h} : work'[i] = work[i]
  <2>1. answer.id \in Identity
    BY DEF SshAnswer
  <2> QED
    BY <1>1, <1>2, <1>3, <2>1, EnterKeeps DEF Method
<1>5. TypeOK'
  BY <1>1, <1>4 DEF FinalizeInv, TypeOK
<1>6. ~At(h, "done")
  BY <1>1 DEF At
<1> QED
  BY <1>1, <1>4, <1>5, <1>6, SshThread

LEMMA SshRecordKeeps ==
  ASSUME ScanInv, NEW h \in Host, SshRecord(h)
  PROVE  /\ ScanInv' /\ h \notin {r.host : r \in results}
         /\ ResultHosts("ssh")' = ResultHosts("ssh") \cup {h}
         /\ ResultHosts("snmp")' = ResultHosts("snmp")
<1> USE DEF ScanInv
<1>1. /\ phase = "ssh" /\ At(h, "result") /\ SshPhase
      /\ UNCHANGED <<opts, phase, live, todo, batch, batchFound, found, targets, stored, scan>>
      /\ totals' = Count(totals, h)
  BY DEF SshRecord, RecordResult, PhasesAreSeparate
<1>2. h \in Busy
  BY <1>1 DEF At, Busy, Running, Finalizing
<1>3. h \in targets /\ work[h].method = "ssh" /\ h \notin ResultHosts("snmp") \cup ResultHosts("ssh")
  BY <1>1, <1>2 DEF SshPhase, At
<1>4. h \notin {r.host : r \in results}
  <2>1. \A r \in results : r.method \in Method
    BY DEF FinalizeInv, FinalizeTypeOK, ResultRow
  <2> QED
    BY <1>3, <2>1 DEF ResultHosts, Method
<1>5. /\ FinalizeInv' /\ OneResultPerHost'
      /\ At(h, "done")' /\ \A i \in Host \ {h} : work'[i] = work[i]
      /\ ResultHosts("ssh")' = ResultHosts("ssh") \cup {h}
      /\ ResultHosts("snmp")' = ResultHosts("snmp")
  BY <1>3, <1>4, RecordKeeps DEF SshRecord, Method
<1>6. TypeOK'
  <2>1. totals' \in Totals
    BY <1>1 DEF Count, TypeOK, Totals
  <2> QED
    BY <1>1, <1>5, <2>1 DEF FinalizeInv, TypeOK
<1>7. SshPhase'
  <2>1. \A i \in ResultHosts("ssh")' : i \in targets /\ At(i, "done")'
    BY <1>1, <1>3, <1>5 DEF SshPhase, At, TypeOK
  <2>2. \A i \in Busy' : i \in targets /\ work'[i].method = "ssh"
    BY <1>1, <1>3, <1>5 DEF SshPhase, Busy, Running, At, Finalizing
  <2> QED
    BY <1>1, <1>3, <1>5, <2>1, <2>2 DEF SshPhase
<1>8. PhasesAreSeparate'
  BY <1>1, <1>7 DEF PhasesAreSeparate
<1> QED
  BY <1>4, <1>5, <1>6, <1>8
---------------------------------------------------------------------------
LEMMA Stuttering ==
  ASSUME ScanInv, UNCHANGED vars
  PROVE  ScanInv'
<1> USE DEF ScanInv
<1>1. FinalizeInv' /\ OneResultPerHost'
  BY FinalizeStutter DEF vars
<1>2. TypeOK' /\ PhasesAreSeparate'
  BY <1>1 DEF vars, scanVars, finalizeVars, FinalizeInv, TypeOK, PhasesAreSeparate,
     SnmpPhase, SshPhase, ResultHosts, Busy, Running, At
<1> QED
  BY <1>1, <1>2

(* One step of the job's own thread or of a worker keeps the invariant.    *)
LEMMA NextKeeps ==
  ASSUME ScanInv, [Next]_vars
  PROVE  ScanInv'
<1>1. CASE Engine
  BY <1>1, PingKeeps, StartBatchKeeps, EndBatchKeeps, EndSnmpKeeps, CompleteKeeps DEF Engine
<1>2. ASSUME NEW h \in Host, Worker(h)
      PROVE  ScanInv'
  <2>1. CASE Finalizes(h)
    BY <2>1, FinalizesKeeps
  <2>2. CASE SnmpProbe(h) \/ SnmpRecord(h) \/ SnmpRaise(h)
    BY <2>2, SnmpProbeKeeps, SnmpRecordKeeps, SnmpRaiseKeeps
  <2>3. CASE SshFastPathLookup(h) \/ SshSilent(h) \/ SshCollectRaises(h)
    BY <2>3, SshQuietKeeps
  <2>4. CASE SshCollect(h) \/ SshRecord(h) \/ SshRaise(h)
    BY <2>4, SshCollectKeeps, SshRecordKeeps, SshRaiseKeeps
  <2> QED
    BY <1>2, <2>1, <2>2, <2>3, <2>4 DEF Worker
<1>3. CASE UNCHANGED vars
  BY <1>3, Stuttering
<1> QED
  BY <1>1, <1>2, <1>3 DEF Next

(* The inductive invariant, from which the other safety theorems follow.   *)
THEOREM Invariance == Spec => []ScanInv
BY InitInv, NextKeeps, PTL DEF Spec

(* Every variable of the engine and of the records keeps its type.         *)
THEOREM TypeCorrect == Spec => []TypeOK
BY Invariance, PTL DEF ScanInv

(* A scan never records an address twice: not over SNMP and SSH, and not   *)
(* twice over one of them, whatever the pools' sizes and whatever raises.  *)
THEOREM ResultsAreUnique == Spec => []OneResultPerHost
BY Invariance, PTL DEF ScanInv

(* No thread and no result of one phase is met in another.                 *)
THEOREM PoolsAreJoined == Spec => []PhasesAreSeparate
BY Invariance, PTL DEF ScanInv

(* The Fast Path is never taken, whatever is stored: no target of the SSH  *)
(* phase has the SNMP identity that ssh_scan looks for.                    *)
THEOREM FastPathIsDead == Spec => []FastPathFindsNothing
<1>1. ScanInv => FastPathFindsNothing
  BY DEF ScanInv, PhasesAreSeparate, SshPhase, FastPathFindsNothing
<1> QED
  BY <1>1, Invariance, PTL

(* No record and no thread refers to a device that does not exist.         *)
THEOREM NoDanglingLink == Spec => []LinksExist
BY Invariance, PTL DEF ScanInv, FinalizeInv

(* A dry run leaves Nautobot's devices alone, whichever thread moves.      *)
THEOREM DryRunIsHarmless == Spec => DryRunKeepsInventory
<1>1. ASSUME ScanInv, [Next]_vars
      PROVE  [opts.dryrun => inventory' = inventory]_vars
  <2>1. CASE Engine
    BY <2>1 DEF Engine, PingSweep, StartBatch, EndBatch, EndSnmp, Complete, finalizeVars
  <2>2. ASSUME NEW h \in Host, Worker(h)
        PROVE  opts.dryrun => inventory' = inventory
    <3>1. CASE Finalizes(h)
      BY <1>1, <3>1, FinalizeStepKeeps DEF Finalizes, ScanInv
    <3>2. CASE ~Finalizes(h)
      BY <2>2, <3>2 DEF Worker, SnmpProbe, SnmpRecord, SnmpRaise, SshFastPathLookup, SshSilent,
         SshCollect, SshCollectRaises, SshRecord, SshRaise, RecordResult, FinalizeRaises, scanVars
    <3> QED
      BY <3>1, <3>2
  <2> QED
    BY <1>1, <2>1, <2>2 DEF Next
<1> QED
  BY <1>1, Invariance, PTL DEF Spec, DryRunKeepsInventory

(* After the scan's row says completed no thread is left to change what    *)
(* it reports.                                                             *)
THEOREM CompletedScanIsFinal == Spec => CompletedIsFinal
<1>1. ASSUME ScanInv, [Next]_vars
      PROVE  [scan.status = "completed" => UNCHANGED <<scan, results, ledger, inventory>>]_vars
  <2> SUFFICES ASSUME scan.status = "completed", Next
               PROVE  UNCHANGED <<scan, results, ledger, inventory>>
    BY <1>1
  <2>1. phase = "completed" /\ SshPhase
    BY <1>1 DEF ScanInv, PhasesAreSeparate
  <2>2. \A h \in Host : ~Running(h)
    BY <2>1 DEF SshPhase, Busy, Running, At, Finalizing
  <2>3. ~Engine
    BY <2>1 DEF Engine, PingSweep, StartBatch, EndBatch, EndSnmp, Complete
  <2>4. ASSUME NEW h \in Host PROVE ~Worker(h)
    <3>1. ~Finalizes(h)
      BY <1>1, <2>2, FinalizeStepKeeps DEF Finalizes, OnlyThread, ScanInv
    <3> QED
      BY <2>1, <3>1 DEF Worker, SnmpProbe, SnmpRecord, SnmpRaise, SshFastPathLookup, SshSilent,
         SshCollect, SshCollectRaises, SshRecord, SshRaise
  <2> QED
    BY <2>3, <2>4 DEF Next
<1> QED
  BY <1>1, Invariance, PTL DEF Spec, CompletedIsFinal
---------------------------------------------------------------------------
(* What a step does to the outcome of the hosts.                           *)
RecordedOver(h, m) ==
  /\ phase = m /\ phase' = phase
  /\ h \notin ResultHosts("snmp") \cup ResultHosts("ssh")
  /\ ResultHosts(m)' = ResultHosts(m) \cup {h}
  /\ \A k \in Method \ {m} : ResultHosts(k)' = ResultHosts(k)

LEMMA RecordedRefines ==
  ASSUME NEW h \in Host, NEW m \in Method, RecordedOver(h, m)
  PROVE  Outcome!Record(h, m)
<1> DEFINE before == [i \in Host |-> OutcomeOf(i)]
           after == [i \in Host |-> OutcomeOf(i)']
<1>1. m \in {"snmp", "ssh"} /\ phase = m /\ phase' = m
  BY DEF RecordedOver, Method
<1>2. OutcomeOf(h) = {}
  BY DEF RecordedOver, OutcomeOf, Method
<1>3. ASSUME NEW i \in Host PROVE OutcomeOf(i)' = IF i = h THEN {m} ELSE OutcomeOf(i)
  BY <1>1, <1>2 DEF RecordedOver, OutcomeOf, Method
<1>4. after = [before EXCEPT ![h] = {m}]
  BY <1>3
<1> QED
  BY <1>1, <1>2, <1>4 DEF Outcome!Record

(* A step that leaves the results alone leaves every outcome alone.        *)
LEMMA SameResultsRefine ==
  ASSUME UNCHANGED results
  PROVE  [i \in Host |-> OutcomeOf(i)]' = [i \in Host |-> OutcomeOf(i)]
BY DEF OutcomeOf, ResultHosts

(* The engine implements ScanOutcome: it records an address once, over     *)
(* SNMP before over SSH, and nothing after it has completed.               *)
THEOREM EngineKeepsOutcome == Spec => KeepsOutcome
<1>1. Init => Outcome!OutcomeInit
  BY DEF Init, Outcome!OutcomeInit, OutcomeOf, ResultHosts
<1>2. ASSUME ScanInv, [Next]_vars
      PROVE  [Outcome!OutcomeNext]_(Outcome!outcomeVars)
  <2> DEFINE outcome == [i \in Host |-> OutcomeOf(i)]
             stage == IF phase = "ping" THEN "snmp" ELSE phase
  <2>1. CASE (UNCHANGED results) /\ stage' = stage
    BY <2>1, SameResultsRefine DEF Outcome!outcomeVars
  <2>2. CASE EndSnmp \/ Complete
    <3>1. UNCHANGED results
      BY <2>2 DEF EndSnmp, Complete, finalizeVars
    <3>2. Outcome!Advance
      BY <2>2, <3>1, SameResultsRefine DEF EndSnmp, Complete, Outcome!Advance
    <3> QED
      BY <3>2 DEF Outcome!OutcomeNext
  <2>3. ASSUME NEW h \in Host, SnmpRecord(h)
        PROVE  Outcome!OutcomeNext
    <3>1. RecordedOver(h, "snmp")
      BY <1>2, <2>3, SnmpRecordKeeps DEF RecordedOver, ResultHosts, Method, SnmpRecord
    <3> QED
      BY <3>1, RecordedRefines DEF Method, Outcome!OutcomeNext
  <2>4. ASSUME NEW h \in Host, SshRecord(h)
        PROVE  Outcome!OutcomeNext
    <3>1. RecordedOver(h, "ssh")
      BY <1>2, <2>4, SshRecordKeeps DEF RecordedOver, ResultHosts, Method, SshRecord
    <3> QED
      BY <3>1, RecordedRefines DEF Method, Outcome!OutcomeNext
  <2>5. CASE PingSweep \/ StartBatch \/ EndBatch \/ UNCHANGED vars
    BY <2>1, <2>5 DEF PingSweep, StartBatch, EndBatch, finalizeVars, vars, scanVars
  <2>6. ASSUME NEW h \in Host, Worker(h), ~SnmpRecord(h), ~SshRecord(h)
        PROVE  (UNCHANGED results) /\ stage' = stage
    <3>1. CASE Finalizes(h)
      BY <1>2, <3>1, FinalizeStepKeeps DEF Finalizes, OnlyThread, scanVars, ScanInv
    <3>2. CASE ~Finalizes(h)
      BY <2>6, <3>2 DEF Worker, SnmpProbe, SnmpRaise, SshFastPathLookup, SshSilent,
         SshCollect, SshCollectRaises, SshRaise, FinalizeRaises, scanVars
    <3> QED
      BY <3>1, <3>2
  <2> HIDE DEF outcome, stage
  <2> QED
    BY <1>2, <2>1, <2>2, <2>3, <2>4, <2>5, <2>6 DEF Next, Engine
<1> QED
  BY <1>1, <1>2, Invariance, PTL DEF Spec, KeepsOutcome, Outcome!OutcomeSpec
---------------------------------------------------------------------------
(* A thread that is yet to start works for an address without a result.    *)
LEMMA IdleHasNoResult ==
  ASSUME ScanInv, NEW h \in Host, At(h, "idle"),
         (phase = "snmp" /\ h \in batch) \/ (phase = "ssh" /\ h \in targets)
  PROVE  h \notin Recorded /\ ~Running(h)
<1> USE DEF ScanInv
<1>1. ~Running(h)
  BY DEF At, Running, Finalizing
<1>2. \A r \in results : r.method \in Method
  BY DEF FinalizeInv, FinalizeTypeOK, ResultRow
<1>3. CASE phase = "snmp"
  BY <1>1, <1>3 DEF PhasesAreSeparate, SnmpPhase, ResultHosts, Recorded, At
<1>4. CASE phase = "ssh" /\ h \in targets
  <2>1. h \notin ResultHosts("snmp") /\ h \notin ResultHosts("ssh")
    BY <1>4 DEF PhasesAreSeparate, SshPhase, At
  <2> QED
    BY <1>1, <1>2, <2>1 DEF ResultHosts, Recorded, Method
<1> QED
  BY <1>3, <1>4

(* Rows of the ledger are made by the threads and stay.                    *)
LEMMA RowsStay ==
  ASSUME ScanInv, [Next]_vars
  PROVE  \A i \in Host : ledger[i] # NoRow => ledger'[i] # NoRow
<1> USE DEF ScanInv
<1>1. ASSUME NEW h \in Host, Worker(h)
      PROVE  \A i \in Host : ledger[i] # NoRow => ledger'[i] # NoRow
  <2>1. CASE Finalizes(h)
    BY <2>1, OwnRecordsOnly DEF Finalizes
  <2>2. CASE SshCollect(h)
    <3>1. PICK answer \in SshAnswer :
            ledger' = [ledger EXCEPT ![h] = RememberGroup(ledger[h], answer.group)]
      BY <2>2, ScanAssumption DEF SshCollect
    <3>2. ledger[h] \in LedgerRow => RememberGroup(ledger[h], answer.group) \in LedgerRow
      BY DEF RememberGroup, LedgerRow, SshAnswer
    <3>3. ledger[h] # NoRow => RememberGroup(ledger[h], answer.group) # NoRow
      BY <3>2, NoRowIsNoRow DEF FinalizeInv, FinalizeTypeOK
    <3> QED
      BY <3>1, <3>3 DEF FinalizeInv, FinalizeTypeOK
  <2>3. CASE ~Finalizes(h) /\ ~SshCollect(h)
    BY <1>1, <2>3 DEF Worker, SnmpProbe, SnmpRecord, SnmpRaise, SshFastPathLookup, SshSilent,
       SshCollectRaises, SshRecord, SshRaise, RecordResult, FinalizeRaises
  <2> QED
    BY <2>1, <2>2, <2>3
<1>2. CASE Engine \/ UNCHANGED vars
  BY <1>2 DEF Engine, PingSweep, StartBatch, EndBatch, EndSnmp, Complete, vars, finalizeVars
<1> QED
  BY <1>1, <1>2 DEF Next

(* What happens to a device is known to its thread or to the ledger.       *)
LEMMA CreatedIsKeptByScan ==
  ASSUME ScanInv, CreatedIsKept, RowBeforeResult, [Next]_vars
  PROVE  CreatedIsKept' /\ RowBeforeResult'
<1> USE DEF ScanInv
<1>0. FinalizeTypeOK
  BY DEF FinalizeInv
<1>1. CASE PingSweep \/ StartBatch \/ EndBatch \/ Complete \/ UNCHANGED vars
  <2>1. UNCHANGED finalizeVars
    BY <1>1 DEF PingSweep, StartBatch, EndBatch, Complete, vars
  <2> QED
    BY <2>1, CreatedIsKeptUnchanged
<1>2. CASE EndSnmp
  <2>1. \A h \in Host : ~Running(h) /\ work'[h].pc = "idle"
    BY <1>2 DEF EndSnmp, PhasesAreSeparate, SnmpPhase, Busy, Idle
  <2>2. UNCHANGED <<inventory, ledger, results>>
    BY <1>2 DEF EndSnmp
  <2> QED
    BY <2>1, <2>2 DEF CreatedIsKept, RowBeforeResult, RowLinks, Recorded, Running, At, Finalizing
<1>3. ASSUME NEW h \in Host, Finalizes(h)
      PROVE  CreatedIsKept' /\ RowBeforeResult'
  BY <1>3, CreatedIsKeptByStep, RowBeforeResultByStep DEF Finalizes
<1>4. ASSUME NEW h \in Host, NEW method \in Method, NEW id \in Identity, Enter(h, method, id),
             At(h, "idle"), (phase = "snmp" /\ h \in batch) \/ (phase = "ssh" /\ h \in targets),
             UNCHANGED <<inventory, results>>, \A i \in Host \ {h} : ledger'[i] = ledger[i]
      PROVE  CreatedIsKept' /\ RowBeforeResult'
  <2>1. work'[h].pc = "correlate" /\ \A i \in Host \ {h} : work'[i] = work[i]
    BY <1>0, <1>4 DEF Enter, FinalizeTypeOK, Work
  <2>2. CreatedIsKept'
    BY <1>4, <2>1, IdleHasNoResult, CreatedIsKeptByEnter
  <2> QED
    BY <1>4, <2>1, <2>2 DEF RowBeforeResult, At
<1>5. ASSUME NEW h \in Host, Leave(h), UNCHANGED <<inventory, ledger>>,
             \/ RecordResult(h)
             \/ FinalizeRaises(h) /\ UNCHANGED results
             \/ At(h, "idle") /\ UNCHANGED results
      PROVE  CreatedIsKept' /\ RowBeforeResult'
  <2>1. work'[h].pc = "done" /\ \A i \in Host \ {h} : work'[i] = work[i]
    BY <1>0, <1>5 DEF Leave, FinalizeTypeOK, Work
  <2>2. At(h, "idle") => ~Running(h)
    BY DEF At, Running, Finalizing
  <2>3. CreatedIsKept'
    BY <1>0, <1>5, <2>2, CreatedIsKeptByLeave
  <2> QED
    BY <1>5, <2>1, <2>3 DEF RowBeforeResult, At
<1>6. ASSUME NEW h \in Host, SnmpProbe(h)
      PROVE  CreatedIsKept' /\ RowBeforeResult'
  <2>1. PICK info \in SnmpSees[h] : IF info = NoInfo THEN Leave(h) ELSE Enter(h, "snmp", info)
    BY <1>6 DEF SnmpProbe
  <2>2. info # NoInfo => info \in Identity
    BY ScanAssumption
  <2>3. phase = "snmp" /\ h \in batch /\ At(h, "idle") /\ UNCHANGED <<inventory, ledger, results>>
    BY <1>6 DEF SnmpProbe
  <2> QED
    BY <1>4, <1>5, <2>1, <2>2, <2>3 DEF Method
<1>7. ASSUME NEW h \in Host, SshCollect(h)
      PROVE  CreatedIsKept' /\ RowBeforeResult'
  <2>1. PICK answer \in SshAnswer :
          /\ ledger' = [ledger EXCEPT ![h] = RememberGroup(ledger[h], answer.group)]
          /\ Enter(h, "ssh", answer.id)
    BY <1>7, ScanAssumption DEF SshCollect
  <2>2. answer.id \in Identity /\ \A i \in Host \ {h} : ledger'[i] = ledger[i]
    BY <1>0, <2>1 DEF SshAnswer, FinalizeTypeOK
  <2>3. phase = "ssh" /\ h \in targets /\ At(h, "idle") /\ UNCHANGED <<inventory, results>>
    BY <1>7 DEF SshCollect
  <2> QED
    BY <1>4, <2>1, <2>2, <2>3 DEF Method
<1>8. ASSUME NEW h \in Host, \/ SnmpRecord(h) \/ SnmpRaise(h) \/ SshRecord(h) \/ SshRaise(h)
                             \/ SshFastPathLookup(h) \/ SshSilent(h) \/ SshCollectRaises(h)
      PROVE  CreatedIsKept' /\ RowBeforeResult'
  <2>1. Leave(h) /\ UNCHANGED <<inventory, ledger>>
    BY <1>8 DEF SnmpRecord, SnmpRaise, SshRecord, SshRaise, SshFastPathLookup, SshSilent,
       SshCollectRaises, RecordResult, FinalizeRaises
  <2>2. \/ RecordResult(h)
        \/ FinalizeRaises(h) /\ UNCHANGED results
        \/ At(h, "idle") /\ UNCHANGED results
    BY <1>8 DEF SnmpRecord, SnmpRaise, SshRecord, SshRaise, SshFastPathLookup, SshSilent,
       SshCollectRaises, FinalizeRaises
  <2> QED
    BY <1>5, <2>1, <2>2
<1> QED
  BY <1>1, <1>2, <1>3, <1>6, <1>7, <1>8 DEF Next, Engine, Worker

LEMMA CreatedIsKeptInit == Init => CreatedIsKept /\ RowBeforeResult
BY StartAssumption DEF Init, Idle, CreatedIsKept, RowBeforeResult, At

LEMMA RecordsInvariance == Spec => [](ScanInv /\ CreatedIsKept /\ RowBeforeResult)
<1>1. ScanInv /\ CreatedIsKept /\ RowBeforeResult /\ [Next]_vars
        => (ScanInv /\ CreatedIsKept /\ RowBeforeResult)'
  BY NextKeeps, CreatedIsKeptByScan
<1> QED
  BY <1>1, InitInv, CreatedIsKeptInit, PTL DEF Spec

(* No orphan: as long as the database does not fail, a device the scan     *)
(* created is in the hands of its thread or linked from the ledger's row   *)
(* of the address it was found at.                                         *)
THEOREM NoOrphans == Spec => []CreatedIsOnRecord
<1>1. CreatedIsKept => CreatedIsOnRecord
  BY DEF CreatedIsKept, CreatedIsOnRecord, RowLinks, Running, Finalizing
<1> QED
  BY <1>1, RecordsInvariance, PTL
---------------------------------------------------------------------------
(* A batch is of hosts that no thread has taken yet.                       *)
BatchesAreFresh ==
  /\ phase = "ping" => \A h \in Host : At(h, "idle")
  /\ phase = "snmp" => /\ \A h \in todo : At(h, "idle")
                       /\ todo \cap batch = {} /\ found \cap batch = {}

(* A thread of the SNMP phase works on the batch, and moves only itself.   *)
LEMMA WorkerMovesItself ==
  ASSUME ScanInv, NEW h \in Host, Worker(h)
  PROVE  /\ \A i \in Host \ {h} : work'[i] = work[i]
         /\ (phase = "snmp" /\ h \in batch) \/ (phase = "ssh" /\ h \in targets)
         /\ UNCHANGED <<opts, phase, live, todo, batch, found, targets, stored>>
<1> USE DEF ScanInv
<1>1. CASE Finalizes(h)
  <2>1. OnlyThread(h) /\ UNCHANGED scanVars /\ h \in Busy
    BY <1>1, FinalizeStepKeeps DEF Finalizes, OnlyThread, Busy
  <2>2. ~At(h, "done")
    BY <2>1 DEF OnlyThread, Running, At, Finalizing
  <2> QED
    BY <2>1, <2>2 DEF OnlyThread, scanVars, PhasesAreSeparate, SnmpPhase, SshPhase, TypeOK
<1>2. CASE ~Finalizes(h)
  <2>1. \A i \in Host \ {h} : work'[i] = work[i]
    BY <1>2 DEF Worker, SnmpProbe, SnmpRecord, SnmpRaise, SshFastPathLookup, SshSilent,
       SshCollect, SshCollectRaises, SshRecord, SshRaise, RecordResult, FinalizeRaises,
       Enter, Leave, FinalizeInv, FinalizeTypeOK
  <2>2. UNCHANGED <<opts, phase, live, todo, batch, found, targets, stored>>
    BY <1>2 DEF Worker, SnmpProbe, SnmpRecord, SnmpRaise, SshFastPathLookup, SshSilent,
       SshCollect, SshCollectRaises, SshRecord, SshRaise, RecordResult, FinalizeRaises, scanVars
  <2>3. CASE SnmpProbe(h) \/ SshFastPathLookup(h) \/ SshSilent(h) \/ SshCollect(h)
             \/ SshCollectRaises(h)
    BY <2>1, <2>2, <2>3 DEF SnmpProbe, SshFastPathLookup, SshSilent, SshCollect, SshCollectRaises
  <2>4. CASE SnmpRecord(h) \/ SnmpRaise(h) \/ SshRecord(h) \/ SshRaise(h)
    <3>1. h \in Busy /\ phase \in {"snmp", "ssh"}
      BY <2>4 DEF SnmpRecord, SnmpRaise, SshRecord, SshRaise, RecordResult, FinalizeRaises,
         Busy, Running, At, Finalizing
    <3> QED
      BY <2>1, <2>2, <3>1 DEF PhasesAreSeparate, SnmpPhase, SshPhase
  <2> QED
    BY <1>2, <2>3, <2>4 DEF Worker
<1> QED
  BY <1>1, <1>2

LEMMA BatchesAreFreshByScan ==
  ASSUME ScanInv, BatchesAreFresh, [Next]_vars
  PROVE  BatchesAreFresh'
<1> USE DEF ScanInv
<1>1. CASE PingSweep
  BY <1>1 DEF PingSweep, finalizeVars, BatchesAreFresh, PhasesAreSeparate, TypeOK, At
<1>2. CASE StartBatch
  BY <1>2 DEF StartBatch, BatchOf, finalizeVars, BatchesAreFresh, PhasesAreSeparate, SnmpPhase, At,
     TypeOK
<1>3. CASE EndBatch
  BY <1>3 DEF EndBatch, finalizeVars, BatchesAreFresh, At
<1>4. CASE EndSnmp \/ Complete
  BY <1>4 DEF EndSnmp, Complete, BatchesAreFresh
<1>5. ASSUME NEW h \in Host, Worker(h)
      PROVE  BatchesAreFresh'
  BY <1>5, WorkerMovesItself DEF BatchesAreFresh, At, TypeOK
<1>6. CASE UNCHANGED vars
  BY <1>6 DEF vars, scanVars, finalizeVars, BatchesAreFresh, At
<1> QED
  BY <1>1, <1>2, <1>3, <1>4, <1>5, <1>6 DEF Next, Engine
---------------------------------------------------------------------------
(* A host that always answers is still to be collected or has a row.       *)
AnsweredHaveRows ==
  /\ \A h \in stored \cup Recorded : ledger[h] # NoRow
  /\ ~Faults /\ opts.snmp /\ phase # "ping" =>
       \A h \in live : NoInfo \notin SnmpSees[h] =>
         \/ ledger[h] # NoRow
         \/ phase = "snmp" /\ (h \in todo \/ (h \in batch /\ ~At(h, "done")))
  /\ ~Faults /\ phase \in {"ssh", "completed"} =>
       \A h \in targets : NoInfo \notin SshSees[h] => ledger[h] # NoRow \/ ~At(h, "done")

(* A thread that ends leaves a row behind, unless nothing answered it.     *)
LEMMA ThreadLeavesRow ==
  ASSUME ScanInv, AnsweredHaveRows, [Next]_vars, NEW h \in Host,
         UNCHANGED <<opts, phase, live, todo, batch, targets, stored>>,
         \A i \in Host \ {h} : work'[i] = work[i],
         Recorded' \subseteq Recorded \cup {h},
         h \in Recorded' \ Recorded => ledger'[h] # NoRow,
         ~Faults /\ At(h, "done")' => \/ At(h, "done") \/ ledger'[h] # NoRow
                                      \/ phase = "snmp" /\ NoInfo \in SnmpSees[h]
                                      \/ phase = "ssh" /\ NoInfo \in SshSees[h]
  PROVE  AnsweredHaveRows'
<1> USE DEF ScanInv
<1>1. \A i \in Host : ledger[i] # NoRow => ledger'[i] # NoRow
  BY RowsStay
<1>2. stored \subseteq Host /\ live \subseteq Host /\ targets \subseteq Host /\ Recorded \subseteq Host
  BY DEF TypeOK, FinalizeTypeOK, ResultRow, Recorded
<1>3. \A i \in stored' \cup Recorded' : ledger'[i] # NoRow
  BY <1>1, <1>2 DEF AnsweredHaveRows
<1>4. ASSUME ~Faults, opts.snmp, phase # "ping", NEW i \in live, NoInfo \notin SnmpSees[i]
      PROVE  \/ ledger'[i] # NoRow
             \/ phase = "snmp" /\ (i \in todo \/ (i \in batch /\ ~At(i, "done")'))
  <2>1. \/ ledger[i] # NoRow
        \/ phase = "snmp" /\ (i \in todo \/ (i \in batch /\ ~At(i, "done")))
    BY <1>4 DEF AnsweredHaveRows
  <2> QED
    BY <1>1, <1>2, <1>4, <2>1 DEF At
<1>5. ASSUME ~Faults, phase \in {"ssh", "completed"}, NEW i \in targets, NoInfo \notin SshSees[i]
      PROVE  ledger'[i] # NoRow \/ ~At(i, "done")'
  <2>1. ledger[i] # NoRow \/ ~At(i, "done")
    BY <1>5 DEF AnsweredHaveRows
  <2> QED
    BY <1>1, <1>2, <1>5, <2>1 DEF At
<1> QED
  BY <1>3, <1>4, <1>5 DEF AnsweredHaveRows

LEMMA AnsweredHaveRowsByScan ==
  ASSUME ScanInv, RowBeforeResult, RowBeforeResult', BatchesAreFresh, AnsweredHaveRows,
         [Next]_vars
  PROVE  AnsweredHaveRows'
<1> USE DEF ScanInv
<1>1. CASE PingSweep
  BY <1>1 DEF PingSweep, finalizeVars, AnsweredHaveRows, Recorded, PhasesAreSeparate
<1>2. CASE StartBatch
  <2>1. /\ phase = "snmp" /\ batch = {} /\ batch' = todo \ todo'
        /\ UNCHANGED <<finalizeVars, phase, live, targets, stored>>
    BY <1>2 DEF StartBatch, BatchOf
  <2>2. \A h \in todo : ~At(h, "done")
    BY <2>1 DEF BatchesAreFresh, At
  <2> QED
    BY <2>1, <2>2 DEF finalizeVars, AnsweredHaveRows, Recorded, At
<1>3. CASE EndBatch
  BY <1>3 DEF EndBatch, finalizeVars, AnsweredHaveRows, Recorded, At
<1>4. CASE EndSnmp
  <2>1. \A h \in Host : ~At(h, "done")'
    BY <1>4 DEF EndSnmp, At, Idle
  <2> QED
    BY <1>4, <2>1 DEF EndSnmp, AnsweredHaveRows, Recorded, TypeOK
<1>5. CASE Complete
  BY <1>5 DEF Complete, finalizeVars, AnsweredHaveRows, Recorded, At
<1>6. ASSUME NEW h \in Host, Worker(h)
      PROVE  AnsweredHaveRows'
  <2>1. /\ \A i \in Host \ {h} : work'[i] = work[i]
        /\ UNCHANGED <<opts, phase, live, todo, batch, found, targets, stored>>
    BY <1>6, WorkerMovesItself
  <2>2. CASE Finalizes(h)
    <3>1. Running(h)' /\ UNCHANGED results
      BY <2>2, FinalizeStepKeeps DEF Finalizes, OnlyThread
    <3>2. ~At(h, "done")' /\ Recorded' = Recorded
      BY <3>1 DEF Running, At, Finalizing, Recorded
    <3> QED
      BY <2>1, <3>2, ThreadLeavesRow
  <2>3. CASE SnmpProbe(h)
    <3>1. At(h, "done")' => NoInfo \in SnmpSees[h]
      BY <2>3 DEF SnmpProbe, Enter, At, FinalizeInv, FinalizeTypeOK, Work
    <3>2. phase = "snmp" /\ Recorded' = Recorded
      BY <2>3 DEF SnmpProbe, Recorded
    <3> QED
      BY <2>1, <3>1, <3>2, ThreadLeavesRow
  <2>4. CASE SnmpRecord(h) \/ SshRecord(h)
    <3>1. At(h, "result") /\ UNCHANGED ledger /\ Recorded' \subseteq Recorded \cup {h}
      BY <2>4 DEF SnmpRecord, SshRecord, RecordResult, Recorded
    <3>2. ledger'[h] # NoRow
      BY <3>1 DEF RowBeforeResult
    <3> QED
      BY <2>1, <3>1, <3>2, ThreadLeavesRow
  <2>5. CASE SnmpRaise(h) \/ SshRaise(h)
    <3>1. (Faults \/ At(h, "result")) /\ UNCHANGED ledger /\ Recorded' = Recorded
      BY <2>5 DEF SnmpRaise, SshRaise, FinalizeRaises, Recorded
    <3>2. ~Faults => ledger'[h] # NoRow
      BY <3>1 DEF RowBeforeResult
    <3> QED
      BY <2>1, <3>1, <3>2, ThreadLeavesRow
  <2>6. CASE SshFastPathLookup(h)
    <3>1. h \in stored /\ UNCHANGED ledger /\ Recorded' = Recorded
      BY <2>6 DEF SshFastPathLookup, Recorded
    <3>2. ledger'[h] # NoRow
      BY <3>1 DEF AnsweredHaveRows
    <3> QED
      BY <2>1, <3>1, <3>2, ThreadLeavesRow
  <2>7. CASE SshSilent(h)
    <3>1. phase = "ssh" /\ NoInfo \in SshSees[h] /\ Recorded' = Recorded
      BY <2>7 DEF SshSilent, Recorded
    <3> QED
      BY <2>1, <3>1, ThreadLeavesRow
  <2>8. CASE SshCollect(h)
    <3>1. ~At(h, "done")' /\ Recorded' = Recorded
      BY <2>8 DEF SshCollect, Enter, At, FinalizeInv, FinalizeTypeOK, Work, Recorded
    <3> QED
      BY <2>1, <3>1, ThreadLeavesRow
  <2>9. CASE SshCollectRaises(h)
    <3>1. Faults /\ Recorded' = Recorded
      BY <2>9 DEF SshCollectRaises, Recorded
    <3> QED
      BY <2>1, <3>1, ThreadLeavesRow
  <2> QED
    BY <1>6, <2>2, <2>3, <2>4, <2>5, <2>6, <2>7, <2>8, <2>9 DEF Worker
<1>7. CASE UNCHANGED vars
  BY <1>7 DEF vars, scanVars, finalizeVars, AnsweredHaveRows, Recorded, At
<1> QED
  BY <1>1, <1>2, <1>3, <1>4, <1>5, <1>6, <1>7 DEF Next, Engine

LEMMA AnsweredInit == Init => BatchesAreFresh /\ AnsweredHaveRows
BY DEF Init, Idle, At, BatchesAreFresh, AnsweredHaveRows, Recorded

AnswerInv ==
  /\ ScanInv /\ CreatedIsKept /\ RowBeforeResult
  /\ BatchesAreFresh /\ AnsweredHaveRows

LEMMA AnswerInvariance == Spec => []AnswerInv
<1>1. Init => AnswerInv
  BY InitInv, CreatedIsKeptInit, AnsweredInit DEF AnswerInv
<1>2. AnswerInv /\ [Next]_vars => AnswerInv'
  <2>1. SUFFICES ASSUME AnswerInv, [Next]_vars
                 PROVE  AnswerInv'
    OBVIOUS
  <2>2. ScanInv' /\ CreatedIsKept' /\ RowBeforeResult'
    BY <2>1, NextKeeps, CreatedIsKeptByScan DEF AnswerInv
  <2>3. BatchesAreFresh' /\ AnsweredHaveRows'
    BY <2>1, <2>2, BatchesAreFreshByScan, AnsweredHaveRowsByScan DEF AnswerInv
  <2> QED
    BY <2>2, <2>3 DEF AnswerInv
<1> QED
  BY <1>1, <1>2, PTL DEF Spec

(* No host is lost between the phases: one that always answers SNMP, or    *)
(* SSH, of the protocols the job runs, has a row when the scan completes,  *)
(* although SNMP may have had an identity whose recording raised.          *)
THEOREM AnsweringHostsAreRecorded == Spec => []AnsweringHostHasRow
<1>1. ASSUME AnswerInv PROVE AnsweringHostHasRow
  <2> USE <1>1 DEF AnswerInv, ScanInv
  <2>1. SUFFICES ASSUME ~Faults, phase = "completed", NEW h \in live,
                        \/ opts.snmp /\ NoInfo \notin SnmpSees[h]
                        \/ opts.ssh /\ opts.candidates /\ NoInfo \notin SshSees[h]
                 PROVE  ledger[h] # NoRow
    BY DEF AnsweringHostHasRow
  <2>2. CASE opts.snmp /\ NoInfo \notin SnmpSees[h]
    BY <2>1, <2>2 DEF AnsweredHaveRows
  <2>3. CASE opts.ssh /\ opts.candidates /\ NoInfo \notin SshSees[h] /\ h \in found
    <3>1. h \in Recorded
      BY <2>1, <2>3 DEF PhasesAreSeparate, SshPhase, ResultHosts, Recorded
    <3> QED
      BY <3>1 DEF AnsweredHaveRows
  <2>4. CASE opts.ssh /\ opts.candidates /\ NoInfo \notin SshSees[h] /\ h \notin found
    <3>1. h \in targets /\ At(h, "done")
      BY <2>1, <2>4 DEF PhasesAreSeparate, SshPhase
    <3> QED
      BY <2>1, <2>4, <3>1 DEF AnsweredHaveRows
  <2> QED
    BY <2>1, <2>2, <2>3, <2>4
<1> QED
  BY <1>1, AnswerInvariance, PTL
---------------------------------------------------------------------------
(* The books of the scan.  What TotalsBalance compares is built up in the  *)
(* SNMP phase, where nothing is counted but the keys of the dictionaries.  *)
FailedOnSsh == {r \in results : r.method = "ssh" /\ r.status = "failed"}

Collected == totals.discovered + Cardinality(FailedOnSsh)

Accounted == Cardinality(results) + totals.failed + Cardinality(Busy)

Balance ==
  /\ IsFiniteSet(results)
  /\ phase = "ping" => totals = NoTotals
  /\ phase = "snmp" => /\ totals.failed = 0
                       /\ totals.discovered = Cardinality(found)
                       /\ Cardinality(results) = Cardinality(found \cup batchFound)
  /\ phase \in {"ssh", "completed"} =>
       Collected <= Accounted /\ (~Faults => Collected = Accounted)

(* The sets that are counted are finite.                                   *)
LEMMA BalanceTypes ==
  ASSUME ScanInv, IsFiniteSet(results)
  PROVE  /\ IsFiniteSet(Busy) /\ Cardinality(Busy) \in Nat
         /\ IsFiniteSet(FailedOnSsh) /\ Cardinality(FailedOnSsh) \in Nat
         /\ IsFiniteSet(found) /\ IsFiniteSet(batchFound)
         /\ Cardinality(found) \in Nat /\ Cardinality(batchFound) \in Nat
         /\ Cardinality(results) \in Nat
         /\ totals.discovered \in Nat /\ totals.failed \in Nat
<1>1. /\ Busy \subseteq Host /\ found \subseteq Host /\ batchFound \subseteq Host
      /\ FailedOnSsh \subseteq results /\ totals.discovered \in Nat /\ totals.failed \in Nat
  BY DEF ScanInv, TypeOK, Busy, FailedOnSsh, Totals
<1>2. IsFiniteSet(Busy) /\ IsFiniteSet(found) /\ IsFiniteSet(batchFound) /\ IsFiniteSet(FailedOnSsh)
  BY <1>1, HostIsFinite, FS_Subset
<1> QED
  BY <1>1, <1>2, FS_CardinalityType

(* How the number of threads at work changes with a step of one of them.   *)
LEMMA ThreadCount ==
  ASSUME IsFiniteSet(Busy), NEW h \in Host, \A i \in Host \ {h} : work'[i] = work[i]
  PROVE  Cardinality(Busy)' = IF Running(h) /\ ~Running(h)' THEN Cardinality(Busy) - 1
                              ELSE IF ~Running(h) /\ Running(h)' THEN Cardinality(Busy) + 1
                              ELSE Cardinality(Busy)
<1>1. /\ Running(h) <=> h \in Busy
      /\ Busy' = IF Running(h)' THEN Busy \cup {h} ELSE Busy \ {h}
  BY DEF Busy, Running
<1>2. Cardinality(Busy \cup {h}) = IF h \in Busy THEN Cardinality(Busy) ELSE Cardinality(Busy) + 1
  BY FS_AddElement
<1>3. Cardinality(Busy \ {h}) = IF h \in Busy THEN Cardinality(Busy) - 1 ELSE Cardinality(Busy)
  BY FS_RemoveElement
<1> QED
  BY <1>1, <1>2, <1>3

(* The result of a host that had none is one more, and one more failed     *)
(* over SSH if that is what it says.                                       *)
LEMMA ResultCount ==
  ASSUME IsFiniteSet(results), NEW h \in Host, RecordResult(h),
         h \notin {r.host : r \in results}
  PROVE  /\ IsFiniteSet(results') /\ Cardinality(results') = Cardinality(results) + 1
         /\ Cardinality(FailedOnSsh)' =
              IF work[h].method = "ssh" /\ work[h].status = "failed"
              THEN Cardinality(FailedOnSsh) + 1 ELSE Cardinality(FailedOnSsh)
<1> DEFINE r == [host |-> h, method |-> work[h].method, status |-> work[h].status,
                 device |-> work[h].device]
<1>1. results' = results \cup {r}
  BY DEF RecordResult
<1>2. r.host = h /\ r.method = work[h].method /\ r.status = work[h].status
  OBVIOUS
<1> HIDE DEF r
<1>3. r \notin results /\ r \notin FailedOnSsh
  BY <1>2 DEF FailedOnSsh
<1>4. IsFiniteSet(FailedOnSsh)
  BY FS_Subset DEF FailedOnSsh
<1>5. IsFiniteSet(results') /\ Cardinality(results') = Cardinality(results) + 1
  BY <1>1, <1>3, FS_AddElement
<1>6. Cardinality(FailedOnSsh \cup {r}) = Cardinality(FailedOnSsh) + 1
  BY <1>3, <1>4, FS_AddElement
<1>7. FailedOnSsh' = IF work[h].method = "ssh" /\ work[h].status = "failed"
                     THEN FailedOnSsh \cup {r} ELSE FailedOnSsh
  BY <1>1, <1>2 DEF FailedOnSsh
<1> QED
  BY <1>5, <1>6, <1>7

LEMMA CountKeeps ==
  ASSUME NEW t \in Totals, NEW h \in Host
  PROVE  /\ Count(t, h).discovered = t.discovered
         /\ Count(t, h).failed = IF work[h].status = "failed" THEN t.failed + 1 ELSE t.failed
BY DEF Count, CreatedNow, Totals

(* The work of the engine itself: a batch that ends moves its keys, and    *)
(* the end of the SNMP phase finds the books balanced.                     *)
LEMMA BalanceByEngine ==
  ASSUME ScanInv, Balance, BatchesAreFresh, Engine
  PROVE  Balance'
<1> USE DEF ScanInv
<1>0. /\ IsFiniteSet(results) /\ IsFiniteSet(found) /\ IsFiniteSet(batchFound)
      /\ Cardinality(found) \in Nat /\ Cardinality(batchFound) \in Nat
      /\ Cardinality(results) \in Nat
  BY BalanceTypes DEF Balance
<1>1. CASE PingSweep
  <2>1. /\ phase = "ping" /\ phase' = "snmp" /\ results = {} /\ found \cup batchFound = {}
        /\ UNCHANGED <<results, found, batchFound, totals>>
    BY <1>1 DEF PingSweep, finalizeVars, PhasesAreSeparate
  <2>2. Cardinality({}) = 0
    BY FS_EmptySet
  <2>3. totals.failed = 0 /\ totals.discovered = 0
    BY <2>1 DEF Balance, NoTotals
  <2>4. found' = {} /\ (found \cup batchFound)' = {} /\ results' = {}
    BY <2>1
  <2> QED
    BY <1>0, <2>1, <2>2, <2>3, <2>4 DEF Balance
<1>2. CASE StartBatch
  <2>1. /\ phase = "snmp" /\ batchFound' = {} /\ UNCHANGED <<phase, results, found, totals>>
        /\ batchFound = {}
    BY <1>2 DEF StartBatch, finalizeVars, PhasesAreSeparate, SnmpPhase
  <2>2. (found \cup batchFound)' = found \cup batchFound
    BY <2>1
  <2> QED
    BY <1>0, <2>1, <2>2 DEF Balance
<1>3. CASE EndBatch
  <2>1. /\ phase = "snmp" /\ batchFound' = {} /\ UNCHANGED <<phase, results>>
        /\ found' = found \cup batchFound
        /\ totals' = [totals EXCEPT !.discovered = @ + Cardinality(batchFound)]
    BY <1>3 DEF EndBatch, finalizeVars
  <2>2. found \cap batchFound = {}
    BY <2>1 DEF PhasesAreSeparate, SnmpPhase, BatchesAreFresh
  <2>3. Cardinality(found \cup batchFound) = Cardinality(found) + Cardinality(batchFound)
    BY <1>0, <2>2, FS_Union, FS_EmptySet
  <2>4. totals'.discovered = totals.discovered + Cardinality(batchFound)
        /\ totals'.failed = totals.failed
    BY <2>1 DEF TypeOK, Totals
  <2>5. (found \cup batchFound)' = found \cup batchFound
    BY <2>1
  <2> QED
    BY <1>0, <2>1, <2>3, <2>4, <2>5 DEF Balance
<1>4. CASE EndSnmp
  <2>1. /\ phase = "snmp" /\ phase' = "ssh" /\ batchFound = {}
        /\ UNCHANGED <<results, found, totals>>
        /\ \A h \in Host : work'[h].pc = "idle"
    BY <1>4 DEF EndSnmp, PhasesAreSeparate, SnmpPhase, Idle
  <2>2. FailedOnSsh' = {} /\ Busy' = {}
    BY <2>1 DEF PhasesAreSeparate, SnmpPhase, FailedOnSsh, Busy, Running, Finalizing
  <2>3. Cardinality(FailedOnSsh)' = 0 /\ Cardinality(Busy)' = 0
    BY <2>2, FS_EmptySet
  <2>4. found \cup batchFound = found
    BY <2>1
  <2>5. totals.discovered = Cardinality(results) /\ totals.failed = 0
    BY <2>1, <2>4 DEF Balance
  <2>6. Collected' = Accounted'
    BY <1>0, <2>1, <2>3, <2>5 DEF Collected, Accounted
  <2>7. Collected' \in Nat
    BY <1>0, <2>1, <2>3, <2>5 DEF Collected
  <2> QED
    BY <1>0, <2>1, <2>6, <2>7 DEF Balance
<1>5. CASE Complete
  <2>1. phase = "ssh" /\ phase' = "completed" /\ UNCHANGED <<results, totals, work>>
    BY <1>5 DEF Complete, finalizeVars
  <2>2. Collected' = Collected /\ Accounted' = Accounted
    BY <2>1 DEF Collected, Accounted, FailedOnSsh, Busy, Running
  <2> QED
    BY <2>1, <2>2 DEF Balance
<1> QED
  BY <1>1, <1>2, <1>3, <1>4, <1>5 DEF Engine

(* A thread of the SNMP phase counts nothing; its result is a key.         *)
LEMMA BalanceBySnmp ==
  ASSUME ScanInv, Balance, BatchesAreFresh, phase = "snmp", NEW h \in Host, Worker(h)
  PROVE  Balance'
<1> USE DEF ScanInv
<1>0. /\ IsFiniteSet(results) /\ IsFiniteSet(found) /\ IsFiniteSet(batchFound)
      /\ Cardinality(results) \in Nat
  BY BalanceTypes DEF Balance
<1>1. UNCHANGED <<phase, found>>
  BY WorkerMovesItself
<1>2. CASE SnmpRecord(h)
  <2>1. h \notin {r.host : r \in results} /\ h \notin found \cup batchFound
    BY <1>2, SnmpRecordKeeps DEF PhasesAreSeparate, SnmpPhase, ResultHosts
  <2>2. IsFiniteSet(results') /\ Cardinality(results') = Cardinality(results) + 1
    BY <1>0, <1>2, <2>1, ResultCount DEF SnmpRecord
  <2>3. UNCHANGED totals /\ (found \cup batchFound)' = (found \cup batchFound) \cup {h}
    BY <1>1, <1>2 DEF SnmpRecord
  <2>4. IsFiniteSet(found \cup batchFound)
    BY <1>0, FS_Union
  <2>5. Cardinality((found \cup batchFound) \cup {h}) = Cardinality(found \cup batchFound) + 1
    BY <2>1, <2>4, FS_AddElement
  <2> QED
    BY <1>1, <2>2, <2>3, <2>5 DEF Balance
<1>3. CASE ~SnmpRecord(h)
  <2>1. UNCHANGED <<results, batchFound, totals>>
    <3>1. CASE Finalizes(h)
      BY <3>1, FinalizeStepKeeps DEF Finalizes, OnlyThread, scanVars
    <3>2. CASE ~Finalizes(h)
      BY <1>3, <3>2 DEF Worker, SnmpProbe, SnmpRaise, SshFastPathLookup, SshSilent,
         SshCollect, SshCollectRaises, SshRecord, SshRaise, FinalizeRaises, scanVars
    <3> QED
      BY <3>1, <3>2
  <2>2. (found \cup batchFound)' = found \cup batchFound
    BY <1>1, <2>1
  <2> QED
    BY <1>1, <2>1, <2>2 DEF Balance
<1> QED
  BY <1>2, <1>3

(* A thread of the SSH phase is counted as discovered when it begins, and  *)
(* as a result or as failed when it ends.                                  *)
LEMMA BalanceBySsh ==
  ASSUME ScanInv, Balance, phase = "ssh", NEW h \in Host, Worker(h)
  PROVE  Balance'
<1> USE DEF ScanInv
<1>0. /\ IsFiniteSet(results) /\ IsFiniteSet(Busy)
      /\ Cardinality(results) \in Nat /\ Cardinality(Busy) \in Nat
      /\ Cardinality(FailedOnSsh) \in Nat
      /\ totals.discovered \in Nat /\ totals.failed \in Nat /\ totals \in Totals
  BY BalanceTypes DEF Balance, TypeOK
<1>1. phase' = "ssh" /\ \A i \in Host \ {h} : work'[i] = work[i]
  BY WorkerMovesItself
<1>2. Collected <= Accounted /\ (~Faults => Collected = Accounted)
  BY DEF Balance
<1>3. Cardinality(Busy)' = IF Running(h) /\ ~Running(h)' THEN Cardinality(Busy) - 1
                           ELSE IF ~Running(h) /\ Running(h)' THEN Cardinality(Busy) + 1
                           ELSE Cardinality(Busy)
  BY <1>0, <1>1, ThreadCount
<1>4. Leave(h) => ~Running(h)'
  BY DEF Leave, Running, Finalizing, FinalizeInv, FinalizeTypeOK, Work
<1>5. UNCHANGED results => FailedOnSsh' = FailedOnSsh /\ Cardinality(results)' = Cardinality(results)
  BY DEF FailedOnSsh
<1>6. CASE Finalizes(h)
  <2>1. Running(h) /\ Running(h)' /\ UNCHANGED <<results, totals>>
    BY <1>6, FinalizeStepKeeps DEF Finalizes, OnlyThread, scanVars
  <2>2. Collected' = Collected /\ Accounted' = Accounted
    BY <1>3, <1>5, <2>1 DEF Collected, Accounted
  <2> QED
    BY <1>0, <1>1, <1>2, <2>1, <2>2 DEF Balance
<1>7. CASE SshFastPathLookup(h) \/ SshSilent(h)
  <2>1. ~Running(h) /\ ~Running(h)' /\ UNCHANGED <<results, totals>>
    BY <1>4, <1>7 DEF SshFastPathLookup, SshSilent, At, Running, Finalizing, scanVars
  <2>2. Collected' = Collected /\ Accounted' = Accounted
    BY <1>3, <1>5, <2>1 DEF Collected, Accounted
  <2> QED
    BY <1>0, <1>1, <1>2, <2>1, <2>2 DEF Balance
<1>8. CASE SshCollect(h)
  <2>1. ~Running(h) /\ Running(h)' /\ UNCHANGED results
    BY <1>8 DEF SshCollect, At, Enter, Running, Finalizing, FinalizeInv, FinalizeTypeOK, Work
  <2>2. totals'.discovered = totals.discovered + 1 /\ totals'.failed = totals.failed
    BY <1>0, <1>8 DEF SshCollect, Totals
  <2>3. Collected' = Collected + 1 /\ Accounted' = Accounted + 1
    BY <1>0, <1>3, <1>5, <2>1, <2>2 DEF Collected, Accounted
  <2> QED
    BY <1>0, <1>1, <1>2, <2>1, <2>3 DEF Balance, Collected, Accounted
<1>9. CASE SshCollectRaises(h)
  <2>1. ~Running(h) /\ ~Running(h)' /\ UNCHANGED results /\ Faults
    BY <1>4, <1>9 DEF SshCollectRaises, At, Running, Finalizing
  <2>2. totals'.discovered = totals.discovered /\ totals'.failed = totals.failed + 1
    BY <1>0, <1>9 DEF SshCollectRaises, Totals
  <2>3. Collected' = Collected /\ Accounted' = Accounted + 1
    BY <1>0, <1>3, <1>5, <2>1, <2>2 DEF Collected, Accounted
  <2>4. Collected \in Nat /\ Accounted \in Nat
    BY <1>0 DEF Collected, Accounted
  <2> QED
    BY <1>0, <1>1, <1>2, <2>1, <2>3, <2>4 DEF Balance
<1>10. CASE SshRaise(h)
  <2>1. Running(h) /\ ~Running(h)' /\ UNCHANGED results
    BY <1>4, <1>10 DEF SshRaise, FinalizeRaises, At, Running, Finalizing
  <2>2. totals'.discovered = totals.discovered /\ totals'.failed = totals.failed + 1
    BY <1>0, <1>10 DEF SshRaise, Totals
  <2>3. Collected' = Collected /\ Accounted' = Accounted
    BY <1>0, <1>3, <1>5, <2>1, <2>2 DEF Collected, Accounted
  <2> QED
    BY <1>0, <1>1, <1>2, <2>1, <2>3 DEF Balance
<1>11. CASE SshRecord(h)
  <2>1. Running(h) /\ ~Running(h)' /\ RecordResult(h)
    BY <1>4, <1>11 DEF SshRecord, RecordResult, At, Running, Finalizing
  <2>2. work[h].method = "ssh" /\ h \notin {r.host : r \in results}
    BY <1>11, <2>1, SshRecordKeeps DEF PhasesAreSeparate, SshPhase, Busy
  <2>3. /\ IsFiniteSet(results') /\ Cardinality(results') = Cardinality(results) + 1
        /\ Cardinality(FailedOnSsh)' = IF work[h].status = "failed"
                                       THEN Cardinality(FailedOnSsh) + 1 ELSE Cardinality(FailedOnSsh)
    BY <1>0, <2>1, <2>2, ResultCount
  <2>4. /\ totals'.discovered = totals.discovered
        /\ totals'.failed = IF work[h].status = "failed" THEN totals.failed + 1 ELSE totals.failed
    BY <1>0, <1>11, CountKeeps DEF SshRecord
  <2>5. IF work[h].status = "failed"
        THEN Collected' = Collected + 1 /\ Accounted' = Accounted + 1
        ELSE Collected' = Collected /\ Accounted' = Accounted
    BY <1>0, <1>3, <2>1, <2>3, <2>4 DEF Collected, Accounted
  <2>6. Collected \in Nat /\ Accounted \in Nat
    BY <1>0 DEF Collected, Accounted
  <2> QED
    BY <1>1, <1>2, <2>3, <2>5, <2>6 DEF Balance
<1> QED
  BY <1>6, <1>7, <1>8, <1>9, <1>10, <1>11 DEF Worker, SnmpProbe, SnmpRecord, SnmpRaise

LEMMA BalanceByScan ==
  ASSUME ScanInv, Balance, BatchesAreFresh, [Next]_vars
  PROVE  Balance'
<1>1. ASSUME NEW h \in Host, Worker(h)
      PROVE  Balance'
  <2>1. phase = "snmp" \/ phase = "ssh"
    BY <1>1, WorkerMovesItself
  <2> QED
    BY <1>1, <2>1, BalanceBySnmp, BalanceBySsh
<1>2. CASE Engine
  BY <1>2, BalanceByEngine
<1>3. CASE UNCHANGED vars
  BY <1>3 DEF vars, scanVars, finalizeVars, Balance, Collected, Accounted, FailedOnSsh, Busy, Running
<1> QED
  BY <1>1, <1>2, <1>3 DEF Next

LEMMA BalanceInit == Init => Balance
BY FS_EmptySet DEF Init, Balance

(* The totals of a scan account for every identity it collected, however   *)
(* its threads interleave and whatever raises.                             *)
THEOREM TotalsAccount == Spec => []TotalsBalance
<1>1. Balance => TotalsBalance
  BY DEF Balance, TotalsBalance, Collected, Accounted, FailedOnSsh
<1>2. AnswerInv /\ Balance /\ [Next]_vars => Balance'
  BY BalanceByScan DEF AnswerInv
<1> QED
  BY <1>1, <1>2, BalanceInit, AnswerInvariance, PTL DEF Spec
---------------------------------------------------------------------------
(* SSH reaches what SNMP did not identify.                                 *)
ReachedOverSsh == {h \in targets : ~At(h, "idle") /\ NoInfo \notin SshSees[h]}

(* Without a Fast Path there is no snapshot of the ledger to fail on, and  *)
(* each target that always logs in is counted when its thread begins.      *)
SshIsCounted ==
  ~Faults /\ ~FastPath(opts) =>
    /\ stored = {}
    /\ phase \in {"ssh", "completed"} =>
         Cardinality(found \cup ReachedOverSsh) <= totals.discovered

LEMMA ReachedIsFinite ==
  ASSUME TypeOK
  PROVE  IsFiniteSet(found \cup ReachedOverSsh) /\ Cardinality(found \cup ReachedOverSsh) \in Nat
<1>1. found \cup ReachedOverSsh \subseteq Host
  BY DEF TypeOK, ReachedOverSsh
<1> QED
  BY <1>1, HostIsFinite, FS_Subset, FS_CardinalityType

LEMMA SshIsCountedByThread ==
  ASSUME ScanInv, SshIsCounted, NEW h \in Host, Worker(h)
  PROVE  SshIsCounted'
<1> USE DEF ScanInv
<1>1. SUFFICES ASSUME ~Faults, ~FastPath(opts), phase = "ssh", h \in targets
               PROVE  Cardinality(found \cup ReachedOverSsh)' <= totals'.discovered
  BY WorkerMovesItself DEF SshIsCounted, FastPath
<1>2. /\ UNCHANGED <<found, targets>> /\ \A i \in Host \ {h} : work'[i] = work[i]
      /\ targets \subseteq Host /\ stored = {} /\ totals \in Totals
      /\ Cardinality(found \cup ReachedOverSsh) <= totals.discovered
  BY <1>1, WorkerMovesItself DEF SshIsCounted, TypeOK
<1>3. ASSUME ReachedOverSsh' \subseteq ReachedOverSsh, totals'.discovered = totals.discovered
      PROVE  Cardinality(found \cup ReachedOverSsh)' <= totals'.discovered
  <2>1. (found \cup ReachedOverSsh)' \subseteq found \cup ReachedOverSsh
    BY <1>2, <1>3
  <2>2. /\ Cardinality((found \cup ReachedOverSsh)') \in Nat
        /\ Cardinality((found \cup ReachedOverSsh)') <= Cardinality(found \cup ReachedOverSsh)
    BY <2>1, ReachedIsFinite, FS_Subset, FS_CardinalityType
  <2> QED
    BY <1>2, <1>3, <2>2, ReachedIsFinite DEF Totals
<1>4. CASE SshCollect(h)
  <2>1. ReachedOverSsh' \subseteq ReachedOverSsh \cup {h}
    BY <1>2 DEF ReachedOverSsh, At
  <2>2. totals'.discovered = totals.discovered + 1
    BY <1>2, <1>4 DEF SshCollect, Totals
  <2>3. (found \cup ReachedOverSsh)' \subseteq (found \cup ReachedOverSsh) \cup {h}
    BY <1>2, <2>1
  <2>4. /\ IsFiniteSet((found \cup ReachedOverSsh) \cup {h})
        /\ Cardinality((found \cup ReachedOverSsh) \cup {h}) \in Nat
        /\ Cardinality((found \cup ReachedOverSsh) \cup {h})
             <= Cardinality(found \cup ReachedOverSsh) + 1
    BY ReachedIsFinite, FS_AddElement
  <2>5. /\ Cardinality((found \cup ReachedOverSsh)') \in Nat
        /\ Cardinality((found \cup ReachedOverSsh)')
             <= Cardinality((found \cup ReachedOverSsh) \cup {h})
    BY <2>3, <2>4, FS_Subset, FS_CardinalityType
  <2> QED
    BY <1>2, <2>2, <2>4, <2>5, ReachedIsFinite DEF Totals
<1>5. CASE SshSilent(h)
  <2>1. NoInfo \in SshSees[h] /\ UNCHANGED totals
    BY <1>5 DEF SshSilent, scanVars
  <2>2. ReachedOverSsh' \subseteq ReachedOverSsh
    BY <1>2, <2>1 DEF ReachedOverSsh, At
  <2> QED
    BY <1>3, <2>1, <2>2
<1>6. CASE Finalizes(h) \/ SshRecord(h) \/ SshRaise(h)
  <2>1. ~At(h, "idle")
    BY <1>6, FinalizeStepKeeps DEF Finalizes, OnlyThread, SshRecord, SshRaise, RecordResult,
       FinalizeRaises, At, Running, Finalizing
  <2>2. totals'.discovered = totals.discovered
    BY <1>2, <1>6, CountKeeps DEF Finalizes, scanVars, SshRecord, SshRaise, Totals
  <2>3. ReachedOverSsh' \subseteq ReachedOverSsh
    BY <1>2, <2>1 DEF ReachedOverSsh, At
  <2> QED
    BY <1>3, <2>2, <2>3
<1> QED
  BY <1>1, <1>2, <1>4, <1>5, <1>6 DEF Worker, SnmpProbe, SnmpRecord, SnmpRaise,
     SshFastPathLookup, SshCollectRaises

LEMMA SshIsCountedByScan ==
  ASSUME ScanInv, Balance, SshIsCounted, [Next]_vars
  PROVE  SshIsCounted'
<1> USE DEF ScanInv
<1>1. CASE EndSnmp
  <2>1. /\ phase = "snmp" /\ UNCHANGED <<opts, stored, found, totals>>
        /\ \A h \in Host : work'[h].pc = "idle"
    BY <1>1 DEF EndSnmp, Idle
  <2>2. targets' \subseteq Host
    BY <1>1 DEF EndSnmp, TypeOK
  <2>3. (found \cup ReachedOverSsh)' = found
    BY <2>1, <2>2 DEF ReachedOverSsh, At
  <2>4. Cardinality(found) = totals.discovered /\ totals.discovered \in Nat
    BY <2>1 DEF Balance, TypeOK, Totals
  <2> QED
    BY <2>1, <2>3, <2>4 DEF SshIsCounted, FastPath
<1>2. CASE PingSweep \/ StartBatch \/ EndBatch
  BY <1>2 DEF PingSweep, StartBatch, EndBatch, finalizeVars, SshIsCounted, FastPath
<1>3. CASE Complete \/ UNCHANGED vars
  <2>1. UNCHANGED <<opts, work, stored, found, targets, totals>> /\ (phase' = phase \/ phase = "ssh")
    BY <1>3 DEF Complete, vars, scanVars, finalizeVars
  <2> QED
    BY <2>1 DEF SshIsCounted, FastPath, ReachedOverSsh, At
<1>4. ASSUME NEW h \in Host, Worker(h)
      PROVE  SshIsCounted'
  BY <1>4, SshIsCountedByThread
<1> QED
  BY <1>1, <1>2, <1>3, <1>4 DEF Next, Engine

(* With the Fast Path off, a scan discovers every live host that always    *)
(* logs in over SSH when credentials are there, besides those of SNMP.     *)
THEOREM SshReachesWithoutFastPath == Spec => [](~FastPath(opts) => SshReachesTheRest)
<1>1. ScanInv /\ SshIsCounted => (~FastPath(opts) => SshReachesTheRest)
  <2>1. SUFFICES ASSUME ScanInv, SshIsCounted, ~FastPath(opts), ~Faults, phase = "completed",
                        opts.ssh, opts.candidates
                 PROVE  totals.discovered
                          >= Cardinality(found \cup {h \in live : NoInfo \notin SshSees[h]})
    BY DEF SshReachesTheRest
  <2>2. targets = live \ found /\ live \subseteq Host /\ \A h \in targets : ~At(h, "idle")
    BY <2>1 DEF ScanInv, TypeOK, PhasesAreSeparate, SshPhase, At
  <2>3. found \cup {h \in live : NoInfo \notin SshSees[h]} = found \cup ReachedOverSsh
    BY <2>2 DEF ReachedOverSsh
  <2>4. Cardinality(found \cup ReachedOverSsh) <= totals.discovered
    BY <2>1 DEF SshIsCounted
  <2>5. totals.discovered \in Nat /\ Cardinality(found \cup ReachedOverSsh) \in Nat
    BY <2>1, ReachedIsFinite DEF ScanInv, TypeOK, Totals
  <2> QED
    BY <2>3, <2>4, <2>5
<1>2. Init => SshIsCounted
  BY DEF Init, SshIsCounted
<1>3. AnswerInv /\ Balance /\ [Next]_vars => Balance'
  BY BalanceByScan DEF AnswerInv
<1>4. ScanInv /\ Balance /\ SshIsCounted /\ [Next]_vars => SshIsCounted'
  BY SshIsCountedByScan
<1> QED
  BY <1>1, <1>2, <1>3, <1>4, BalanceInit, AnswerInvariance, Invariance, PTL DEF Spec
---------------------------------------------------------------------------
(* Scans whose pools have one thread.  Nothing in finalize_discovery keeps *)
(* two threads apart; what follows is what its reads and writes guarantee  *)
(* to a thread that works alone.                                           *)

(* A device that stands for what was collected at address h: what imported *)
(* means (correlate_device).                                               *)
StandsFor(d, h, name, serial) ==
  /\ d \in Rows(inventory)
  /\ inventory[d].ip \in AddressRows(h)
  /\ SameName(inventory, d, name)
  /\ serial # NoSerial => inventory[d].serial = serial

(* With pools of one thread a thread works alone.                          *)
OneByOne == \A h, i \in Busy : h = i

(* No device has the name or the serial that was collected.                *)
NoMatch(h) == Matches(inventory, NoIp, work[h].name, work[h].serial) = {}

(* What a thread has read is still so when it writes: no device matches    *)
(* what it is about to create, and what it was told is imported is.        *)
StillSo(h) ==
  /\ work[h].pc \in {"lookup", "insert"} =>
       /\ work[h].status = "new"
       /\ NoMatch(h)
  /\ ~At(h, "upgrade")
  /\ At(h, "primary") =>
       /\ work[h].status = "new"
       /\ inventory[work[h].device].ip = work[h].obj.ip
  /\ ~opts.dryrun /\ work[h].pc \in {"upsert", "result"} /\ work[h].status = "existing" =>
       StandsFor(work[h].device, h, work[h].name, work[h].serial)
  /\ At(h, "result") =>
       /\ ledger[h] # NoRow
       /\ ledger[h].name = work[h].name /\ ledger[h].serial = work[h].serial

(* The key of the device that a thread may create is not in use.           *)
KeysAreFree ==
  \A h \in Host :
    /\ phase \in {"ping", "snmp"} => inventory[<<h, "ssh">>] = NoDevice
    /\ work[h].pc \in {"idle", "correlate", "lookup", "insert"} =>
         inventory[<<h, IF phase \in {"ping", "snmp"} THEN "snmp" ELSE "ssh">>] = NoDevice

ImportedStand ==
  ~opts.dryrun => \A r \in results : r.status = "existing" =>
    /\ ledger[r.host] # NoRow
    /\ StandsFor(r.device, r.host, ledger[r.host].name, ledger[r.host].serial)

SerialInv ==
  /\ OneByOne
  /\ \A h \in Host : StillSo(h)
  /\ KeysAreFree
  /\ NoTwins
  /\ ImportedStand

LEMMA StillSoByStep ==
  ASSUME FinalizeInv, NEW h \in Host, StillSo(h), FinalizeStep(h)
  PROVE  StillSo(h)'
<1> USE DEF FinalizeInv, FinalizeTypeOK
<1>1. ASSUME NEW pc, NEW status, NEW device, Step(h, pc, status, device)
      PROVE  /\ work'[h].pc = pc /\ work'[h].status = status /\ work'[h].device = device
             /\ work'[h].name = work[h].name /\ work'[h].serial = work[h].serial
  BY <1>1 DEF Step, Work
<1>2. CASE CorrelateDryRun(h) \/ CorrelateForReview(h)
  <2>1. UNCHANGED opts /\ work'[h].pc = "upsert" /\ (opts.dryrun \/ work'[h].status # "existing")
    BY <1>1, <1>2 DEF CorrelateDryRun, CorrelateForReview
  <2> QED
    BY <2>1 DEF StillSo, At
<1>3. CASE CorrelateImported(h)
  <2>1. PICK ip \in AddressRows(h) :
        /\ UNCHANGED <<opts, inventory>> /\ Correlated(h, ip) = "imported"
        /\ work'[h].pc = "upsert" /\ work'[h].device = Match(h, ip)
        /\ work'[h].name = work[h].name /\ work'[h].serial = work[h].serial
    BY <1>1, <1>3 DEF CorrelateImported
  <2>2. work[h].name # NoName
    BY CorrelationAssumption DEF Work
  <2>3. StandsFor(Match(h, ip), h, work[h].name, work[h].serial)
    <3> DEFINE M == Matches(inventory, ip, work[h].name, work[h].serial)
    <3>1. PICK d \in M : M = {d}
      BY <2>1 DEF Correlated, CorrelationStatus, IsOne
    <3>2. Match(h, ip) = d
      BY <3>1 DEF Match, CorrelatedDevice, IsOne
    <3>3. AllKnownAgree(inventory, d, ip, work[h].name, work[h].serial)
      BY <2>1, <3>1 DEF Correlated, CorrelationStatus
    <3>4. DevicesWithIp(inventory, ip) \subseteq {d}
      BY <3>1 DEF Matches
    <3> QED
      BY <2>2, <3>2, <3>3, <3>4 DEF AllKnownAgree, DevicesWithIp, StandsFor
  <2>4. StandsFor(work[h].device, h, work[h].name, work[h].serial)'
    BY <2>1, <2>3 DEF StandsFor, Rows, SameName
  <2> QED
    BY <2>1, <2>4 DEF StillSo, At
<1>4. CASE CorrelateNew(h)
  <2>1. /\ UNCHANGED <<opts, inventory>> /\ work'[h].pc \in {"lookup", "upsert"}
        /\ work'[h].status = "new"
        /\ work'[h].name = work[h].name /\ work'[h].serial = work[h].serial
    BY <1>1, <1>4 DEF CorrelateNew
  <2>2. NoMatch(h)
    BY <1>4 DEF CorrelateNew, Correlated, CorrelationStatus, NoMatch, Matches, DevicesWithIp
  <2> QED
    BY <2>1, <2>2 DEF StillSo, At, NoMatch
<1>5. CASE LookupDisabled(h) \/ CreateRaises(h)
  <2>1. work'[h].pc = "upsert" /\ work'[h].status = "failed"
    BY <1>1, <1>5 DEF LookupDisabled, CreateRaises
  <2> QED
    BY <2>1 DEF StillSo, At
<1>6. CASE LookupNone(h)
  <2>1. /\ UNCHANGED <<opts, inventory>> /\ At(h, "lookup") /\ work'[h].pc = "insert"
        /\ work'[h].status = "new"
        /\ work'[h].name = work[h].name /\ work'[h].serial = work[h].serial
    BY <1>1, <1>6 DEF LookupNone
  <2> QED
    BY <2>1 DEF StillSo, At, NoMatch
<1>7. ~LookupExisting(h)
  <2>1. SUFFICES ASSUME At(h, "lookup"), NEW d \in NamedExactly(inventory, work[h].name)
                 PROVE  FALSE
    BY DEF LookupExisting
  <2>2. d \in Matches(inventory, NoIp, work[h].name, work[h].serial)
    BY CorrelationAssumption DEF NamedExactly, Matches, SameName, Work
  <2> QED
    BY <2>1, <2>2 DEF StillSo, At, NoMatch
<1>8. CASE Insert(h)
  <2> DEFINE row == [name |-> work[h].name, serial |-> work[h].serial, ip |-> NoIp]
             key == <<h, work[h].method>>
  <2>1. key \in Device /\ At(h, "insert")
    BY <1>8, FinalizeAssumption DEF Work, Insert
  <2>2. /\ work'[h].pc = "primary" /\ work'[h].device = key /\ work'[h].obj = row
        /\ work'[h].status = work[h].status
        /\ inventory'[key] = row
    BY <1>8, <2>1 DEF Insert, Work, Inventory
  <2>3. work[h].status = "new"
    BY <2>1 DEF StillSo, At
  <2> QED
    BY <2>2, <2>3 DEF StillSo, At
<1>9. CASE AssignPrimary(h) \/ PrimaryFails(h)
  <2>1. work'[h].pc = "upsert" /\ work'[h].status = work[h].status /\ At(h, "primary")
    BY <1>9 DEF AssignPrimary, PrimaryFails, Work
  <2> QED
    BY <2>1 DEF StillSo, At
<1>10. CASE Upsert(h)
  <2> DEFINE row == Upserted(ledger[h], work[h])
  <2>1. /\ row # NoRow /\ row.name = work[h].name /\ row.serial = work[h].serial
    BY UpsertedType, NoRowIsNoRow DEF Upserted
  <2> HIDE DEF row
  <2>2. /\ UNCHANGED <<opts, inventory>> /\ At(h, "upsert") /\ ledger'[h] = row
        /\ work'[h] = [work[h] EXCEPT !.pc = "result"]
    BY <1>10 DEF Upsert, row
  <2>3. /\ work'[h].pc = "result" /\ work'[h].status = work[h].status
        /\ work'[h].device = work[h].device
        /\ work'[h].name = work[h].name /\ work'[h].serial = work[h].serial
    BY <2>2 DEF Work
  <2> QED
    BY <2>1, <2>2, <2>3 DEF StillSo, At, StandsFor, Rows, SameName
<1> QED
  BY <1>2, <1>3, <1>4, <1>5, <1>6, <1>7, <1>8, <1>9, <1>10 DEF FinalizeStep, StillSo, Upgrade

(* What a thread that works alone writes to the Device table: a row under  *)
(* its own key that matches no other, or the primary IP of a device that   *)
(* has none.                                                               *)
LEMMA WritesAlone ==
  ASSUME FinalizeInv, NEW h \in Host, StillSo(h), FinalizeStep(h)
  PROVE  \/ UNCHANGED inventory
         \/ /\ At(h, "insert") /\ ~At(h, "insert")'
            /\ NoMatch(h)
            /\ <<h, work[h].method>> \in Device
            /\ inventory' = [inventory EXCEPT ![<<h, work[h].method>>] =
                 [name |-> work[h].name, serial |-> work[h].serial, ip |-> NoIp]]
         \/ \E d \in Rows(inventory) :
              /\ inventory[d].ip = NoIp
              /\ \E ip \in AddressRows(h) :
                   inventory' = [inventory EXCEPT ![d] = [@ EXCEPT !.ip = ip]]
<1> USE DEF FinalizeInv, FinalizeTypeOK
<1>1. CASE Insert(h)
  <2>1. <<h, work[h].method>> \in Device
    BY FinalizeAssumption DEF Work
  <2>2. work'[h].pc = "primary"
    BY <1>1 DEF Insert, Work
  <2>3. At(h, "insert") /\ ~At(h, "insert")'
    BY <1>1, <2>2 DEF Insert, At
  <2> QED
    BY <1>1, <2>1, <2>3 DEF Insert, StillSo, At
<1>2. CASE AssignPrimary(h)
  <2>1. work[h].device \in Rows(inventory) /\ inventory[work[h].device].ip = work[h].obj.ip
    BY <1>2 DEF AssignPrimary, ObjectInHand, StillSo, At
  <2>2. CASE work[h].obj.ip = NoIp
    BY <1>2, <2>1, <2>2 DEF AssignPrimary
  <2>3. CASE work[h].obj.ip # NoIp
    BY <1>2, <2>3 DEF AssignPrimary
  <2> QED
    BY <2>2, <2>3
<1> QED
  BY <1>1, <1>2 DEF FinalizeStep, CorrelateDryRun, CorrelateImported, CorrelateNew,
     CorrelateForReview, LookupDisabled, LookupNone, LookupExisting, Upgrade, PrimaryFails,
     CreateRaises, Upsert, StillSo

LEMMA NoTwinsByStep ==
  ASSUME FinalizeInv, NoTwins, NEW h \in Host, StillSo(h), FinalizeStep(h)
  PROVE  NoTwins'
<1> USE DEF FinalizeInv, FinalizeTypeOK
<1>1. ASSUME UNCHANGED inventory
      PROVE  NoTwins'
  BY <1>1 DEF NoTwins, Created, Rows, SameName
<1>2. ASSUME At(h, "insert"),
             NoMatch(h),
             <<h, work[h].method>> \in Device,
             inventory' = [inventory EXCEPT ![<<h, work[h].method>>] =
               [name |-> work[h].name, serial |-> work[h].serial, ip |-> NoIp]]
      PROVE  NoTwins'
  <2> DEFINE key == <<h, work[h].method>>
  <2>1. work[h].name # NoName
    BY CorrelationAssumption DEF Work
  <2>2. \A e \in Rows(inventory) :
          /\ Fold[inventory[e].name] # Fold[work[h].name]
          /\ work[h].serial # NoSerial => inventory[e].serial # work[h].serial
    BY <1>2, <2>1 DEF NoMatch, Matches, SameName
  <2>3. /\ inventory'[key].name = work[h].name /\ inventory'[key].serial = work[h].serial
        /\ \A d \in Device \ {key} : inventory'[d] = inventory[d]
    BY <1>2 DEF Inventory
  <2> HIDE DEF key
  <2>4. Rows(inventory)' \subseteq Rows(inventory) \cup {key}
    BY <2>3 DEF Rows
  <2>5. SUFFICES ASSUME NEW d \in Created', NEW e \in Rows(inventory)', d # e
                 PROVE  /\ Fold[inventory'[d].name] # Fold[inventory'[e].name]
                        /\ inventory'[d].serial # NoSerial => inventory'[e].serial # inventory'[d].serial
    BY DEF NoTwins, SameName
  <2>6. d \in Rows(inventory)' /\ d \notin Seed
    BY DEF Created
  <2>7. CASE d = key
    <3>1. e \in Rows(inventory) /\ inventory'[e] = inventory[e]
      BY <2>3, <2>4, <2>5, <2>7 DEF Rows
    <3> QED
      BY <2>2, <2>3, <2>7, <3>1
  <2>8. CASE e = key
    <3>1. d \in Rows(inventory) /\ inventory'[d] = inventory[d]
      BY <2>3, <2>4, <2>5, <2>6, <2>8 DEF Rows
    <3> QED
      BY <2>2, <2>3, <2>8, <3>1
  <2>9. CASE d # key /\ e # key
    <3>1. d \in Created /\ e \in Rows(inventory)
      BY <2>4, <2>6, <2>9 DEF Created
    <3>2. inventory'[d] = inventory[d] /\ inventory'[e] = inventory[e]
      BY <2>3, <2>9, <3>1 DEF Created, Rows
    <3> QED
      BY <2>5, <3>1, <3>2 DEF NoTwins, SameName
  <2> QED
    BY <2>7, <2>8, <2>9
<1>3. ASSUME NEW d \in Rows(inventory), NEW ip \in AddressRows(h),
             inventory' = [inventory EXCEPT ![d] = [@ EXCEPT !.ip = ip]]
      PROVE  NoTwins'
  <2>1. inventory[d] \in DeviceRow /\ ip \in IPAddress
    BY FinalizeAssumption DEF Rows, Inventory, AddressRows, IPAddress
  <2>2. \A e \in Device \ {d} : inventory'[e] = inventory[e]
    BY <1>3 DEF Inventory
  <2>3. inventory'[d] \in DeviceRow /\ inventory'[d].name = inventory[d].name
        /\ inventory'[d].serial = inventory[d].serial
    BY <1>3, <2>1 DEF Inventory, Rows, DeviceRow
  <2>4. Rows(inventory)' = Rows(inventory)
    BY <2>2, <2>3, NoDeviceIsNoRow DEF Rows
  <2>5. \A e \in Rows(inventory) : inventory'[e].name = inventory[e].name
                                   /\ inventory'[e].serial = inventory[e].serial
    BY <2>2, <2>3 DEF Rows
  <2> QED
    BY <2>4, <2>5 DEF NoTwins, Created, SameName
<1> QED
  BY <1>1, <1>2, <1>3, WritesAlone

(* A recorded address that is imported stays so while others are created.  *)
LEMMA ImportedStandByStep ==
  ASSUME FinalizeInv, ImportedStand, NEW h \in Host, StillSo(h), FinalizeStep(h),
         h \notin Recorded, At(h, "insert") => inventory[<<h, work[h].method>>] = NoDevice
  PROVE  ImportedStand'
<1> USE DEF FinalizeInv, FinalizeTypeOK
<1>1. /\ \A i \in Host \ {h} : ledger'[i] = ledger[i]
      /\ UNCHANGED <<opts, results>>
  BY OwnRecordsOnly, FinalizeStepKeeps DEF OnlyThread
<1>2. SUFFICES ASSUME ~opts.dryrun, NEW r \in results, r.status = "existing"
               PROVE  /\ ledger'[r.host] # NoRow
                      /\ StandsFor(r.device, r.host, ledger[r.host].name, ledger[r.host].serial)'
  BY <1>1 DEF ImportedStand
<1>3. /\ r.host \in Host /\ ledger'[r.host] = ledger[r.host] /\ ledger[r.host] # NoRow
      /\ StandsFor(r.device, r.host, ledger[r.host].name, ledger[r.host].serial)
  BY <1>1, <1>2 DEF ImportedStand, Recorded, ResultRow
<1>4. inventory'[r.device] = inventory[r.device] /\ r.device \in Rows(inventory)
  <2>1. /\ r.device \in Rows(inventory) /\ r.device \in Device
        /\ inventory[r.device] # NoDevice /\ inventory[r.device].ip # NoIp
    BY <1>3, NoIpIsNoAddress, FinalizeAssumption DEF StandsFor, Rows, AddressRows, IPAddress
  <2>2. ASSUME NEW d \in Device, NEW row, inventory' = [inventory EXCEPT ![d] = row], d # r.device
        PROVE  inventory'[r.device] = inventory[r.device]
    BY <2>1, <2>2 DEF Inventory
  <2>3. At(h, "insert") => <<h, work[h].method>> # r.device
    BY <2>1
  <2>4. \A d \in Rows(inventory) : inventory[d].ip = NoIp => d # r.device /\ d \in Device
    BY <2>1 DEF Rows
  <2> QED
    BY <2>1, <2>2, <2>3, <2>4, WritesAlone
<1> QED
  BY <1>3, <1>4 DEF StandsFor, Rows, SameName

(* The free keys, after a step of a thread of the phase it works in.       *)
LEMMA KeysAreFreeByStep ==
  ASSUME FinalizeInv, KeysAreFree, NEW h \in Host, StillSo(h), FinalizeStep(h),
         UNCHANGED phase, work[h].method = IF phase \in {"ping", "snmp"} THEN "snmp" ELSE "ssh"
  PROVE  KeysAreFree'
<1> USE DEF FinalizeInv, FinalizeTypeOK
<1> DEFINE m == IF phase \in {"ping", "snmp"} THEN "snmp" ELSE "ssh"
<1>1. /\ \A i \in Host \ {h} : work'[i] = work[i]
      /\ \A i \in Host \ {h}, k \in Method : inventory[<<i, k>>] = NoDevice => inventory'[<<i, k>>] = NoDevice
      /\ \A i \in Host, k \in Method : <<i, k>> \in Device
      /\ Running(h)
  BY OwnRecordsOnly, FinalizeStepKeeps, FinalizeAssumption DEF OnlyThread
<1>2. \A k \in Method : k # m /\ inventory[<<h, k>>] = NoDevice => inventory'[<<h, k>>] = NoDevice
  BY <1>1, WritesAlone DEF Rows, Inventory
<1>3. work'[h].pc \in {"idle", "correlate", "lookup", "insert"} =>
        /\ work[h].pc \in {"idle", "correlate", "lookup", "insert"}
        /\ inventory'[<<h, m>>] = inventory[<<h, m>>]
  <2>1. ASSUME NEW pc, NEW status, NEW device, Step(h, pc, status, device)
        PROVE  work'[h].pc = pc
    BY <2>1 DEF Step, Work
  <2>2. CASE CorrelateDryRun(h) \/ CorrelateImported(h) \/ CorrelateNew(h) \/ CorrelateForReview(h)
    BY <2>2 DEF CorrelateDryRun, CorrelateImported, CorrelateNew, CorrelateForReview, At
  <2>3. CASE LookupDisabled(h) \/ LookupNone(h) \/ CreateRaises(h)
    BY <2>1, <2>3 DEF LookupDisabled, LookupNone, CreateRaises, At
  <2>4. CASE LookupExisting(h)
    BY <2>4 DEF LookupExisting, At
  <2>5. CASE Upgrade(h) \/ Insert(h) \/ AssignPrimary(h) \/ PrimaryFails(h) \/ Upsert(h)
    <3>1. work'[h].pc \in {"primary", "upsert", "result"}
      BY <2>5 DEF Upgrade, Insert, AssignPrimary, PrimaryFails, Upsert, Work
    <3> QED
      BY <3>1
  <2> QED
    BY <2>2, <2>3, <2>4, <2>5 DEF FinalizeStep
<1> QED
  BY <1>1, <1>2, <1>3 DEF KeysAreFree, Method

(* A thread that does not run holds nothing.                               *)
LEMMA QuietIsStillSo ==
  ASSUME NEW h \in Host, ~Running(h)
  PROVE  StillSo(h)
BY DEF StillSo, Running, Finalizing, At

(* What the other threads hold, when at most one thread runs and another   *)
(* one moves.                                                              *)
LEMMA OthersAreQuiet ==
  ASSUME ScanInv, OneByOne, NEW h \in Host, Running(h), \A i \in Host \ {h} : work'[i] = work[i]
  PROVE  \A i \in Host \ {h} : StillSo(i)' /\ ~Running(i)'
<1>1. \A i \in Host \ {h} : ~Running(i)
  BY DEF OneByOne, Busy
<1>2. \A i \in Host \ {h} : ~Running(i)'
  BY <1>1 DEF Running
<1>3. \A i \in Host \ {h} : ~Running(i)' => StillSo(i)'
  BY DEF StillSo, Running, Finalizing, At
<1> QED
  BY <1>2, <1>3

LEMMA RunningHasNoResult ==
  ASSUME ScanInv, NEW h \in Host, Running(h)
  PROVE  /\ h \notin Recorded /\ phase \in {"snmp", "ssh"}
         /\ work[h].method = IF phase \in {"ping", "snmp"} THEN "snmp" ELSE "ssh"
<1> USE DEF ScanInv
<1>1. h \in Busy /\ ~At(h, "done")
  BY DEF Busy, Running, At, Finalizing
<1>2. phase \in {"snmp", "ssh"}
  BY <1>1 DEF TypeOK, PhasesAreSeparate, SshPhase
<1>3. CASE phase = "snmp"
  BY <1>1, <1>3 DEF PhasesAreSeparate, SnmpPhase, Recorded, ResultHosts
<1>4. CASE phase = "ssh"
  <2>1. \A r \in results : r.method \in Method
    BY DEF FinalizeInv, FinalizeTypeOK, ResultRow
  <2>2. h \notin ResultHosts("snmp") \cup ResultHosts("ssh") /\ work[h].method = "ssh"
    BY <1>1, <1>4 DEF PhasesAreSeparate, SshPhase
  <2> QED
    BY <1>4, <2>1, <2>2 DEF Recorded, ResultHosts, Method
<1> QED
  BY <1>2, <1>3, <1>4

LEMMA SerialByFinalize ==
  ASSUME ScanInv, SerialInv, NEW h \in Host, Finalizes(h)
  PROVE  SerialInv'
<1>1. /\ FinalizeInv /\ FinalizeStep(h) /\ UNCHANGED phase /\ StillSo(h)
      /\ OneByOne /\ KeysAreFree /\ NoTwins /\ ImportedStand
  BY DEF Finalizes, scanVars, ScanInv, SerialInv
<1>2. Running(h) /\ Running(h)' /\ \A i \in Host \ {h} : work'[i] = work[i]
  BY <1>1, FinalizeStepKeeps DEF OnlyThread
<1>3. /\ h \notin Recorded
      /\ work[h].method = IF phase \in {"ping", "snmp"} THEN "snmp" ELSE "ssh"
  BY <1>2, RunningHasNoResult
<1>4. At(h, "insert") => inventory[<<h, work[h].method>>] = NoDevice
  BY <1>1, <1>3 DEF KeysAreFree, At
<1>5. \A i \in Host : StillSo(i)'
  BY <1>1, <1>2, StillSoByStep, OthersAreQuiet
<1>6. OneByOne'
  BY <1>1, <1>2 DEF OneByOne, Busy, Running
<1>7. KeysAreFree' /\ NoTwins' /\ ImportedStand'
  BY <1>1, <1>3, <1>4, KeysAreFreeByStep, NoTwinsByStep, ImportedStandByStep
<1> QED
  BY <1>5, <1>6, <1>7 DEF SerialInv

(* A thread begins while no other runs.                                    *)
LEMMA SerialByEnter ==
  ASSUME ScanInv, SerialInv, NEW h \in Host, NEW method \in Method, NEW id \in Identity,
         Enter(h, method, id), At(h, "idle"), Busy = {},
         (phase = "snmp" /\ h \in batch) \/ (phase = "ssh" /\ h \in targets),
         UNCHANGED <<opts, phase, inventory, results>>,
         \A i \in Host \ {h} : ledger'[i] = ledger[i]
  PROVE  SerialInv'
<1> USE DEF ScanInv, SerialInv
<1>1. work'[h].pc = "correlate" /\ \A i \in Host \ {h} : work'[i] = work[i]
  BY DEF Enter, FinalizeInv, FinalizeTypeOK, Work
<1>2. \A i \in Host : i # h => ~Running(i)'
  BY <1>1 DEF Busy, Running
<1>3. OneByOne'
  BY <1>2 DEF OneByOne, Busy
<1>4. \A i \in Host : StillSo(i)'
  BY <1>1, <1>2 DEF StillSo, Running, Finalizing, At
<1>5. KeysAreFree'
  BY <1>1 DEF KeysAreFree, At
<1>6. NoTwins'
  BY DEF NoTwins, Created, Rows, SameName
<1>7. h \notin Recorded
  BY IdleHasNoResult
<1>8. \A r \in results : r.host \in Host /\ r.host # h
  BY <1>7 DEF Recorded, FinalizeInv, FinalizeTypeOK, ResultRow
<1>9. ImportedStand'
  BY <1>8 DEF ImportedStand, StandsFor, Rows, SameName
<1> QED
  BY <1>3, <1>4, <1>5, <1>6, <1>9

(* A thread ends: what it records as existing stands for its address.      *)
LEMMA SerialByLeave ==
  ASSUME ScanInv, SerialInv, NEW h \in Host, Leave(h),
         UNCHANGED <<opts, phase, inventory, ledger>>, RecordResult(h) \/ UNCHANGED results
  PROVE  SerialInv'
<1> USE DEF ScanInv, SerialInv
<1>1. work'[h].pc = "done" /\ \A i \in Host \ {h} : work'[i] = work[i]
  BY DEF Leave, FinalizeInv, FinalizeTypeOK, Work
<1>2. OneByOne'
  BY <1>1 DEF OneByOne, Busy, Running, Finalizing
<1>3. \A i \in Host \ {h} : StillSo(i)'
  BY <1>1 DEF StillSo, NoMatch, StandsFor, At, Rows, SameName
<1>4. StillSo(h)'
  BY <1>1 DEF StillSo, At
<1>5. KeysAreFree'
  BY <1>1 DEF KeysAreFree
<1>6. NoTwins'
  BY DEF NoTwins, Created, Rows, SameName
<1>7. ImportedStand'
  <2>1. SUFFICES ASSUME ~opts.dryrun, NEW r \in results', r.status = "existing"
                 PROVE  /\ ledger[r.host] # NoRow
                        /\ StandsFor(r.device, r.host, ledger[r.host].name, ledger[r.host].serial)
    BY DEF ImportedStand, StandsFor, Rows, SameName
  <2>2. CASE r \in results
    BY <2>1, <2>2 DEF ImportedStand
  <2>3. CASE r \notin results
    <3>1. /\ At(h, "result") /\ StillSo(h)
          /\ r.host = h /\ r.status = work[h].status /\ r.device = work[h].device
      BY <2>1, <2>3 DEF RecordResult
    <3> QED
      BY <2>1, <3>1 DEF StillSo, At
  <2> QED
    BY <2>2, <2>3
<1> QED
  BY <1>2, <1>3, <1>4, <1>5, <1>6, <1>7

LEMMA SerialByEngine ==
  ASSUME ScanInv, SerialInv, Engine \/ UNCHANGED vars
  PROVE  SerialInv'
<1> USE DEF ScanInv, SerialInv
<1>1. CASE PingSweep \/ StartBatch \/ EndBatch \/ Complete \/ UNCHANGED vars
  <2>1. /\ UNCHANGED finalizeVars
        /\ \/ phase' = phase
           \/ phase = "ping" /\ phase' = "snmp"
           \/ phase = "ssh" /\ phase' = "completed"
    BY <1>1 DEF PingSweep, StartBatch, EndBatch, Complete, vars, scanVars
  <2>2. OneByOne' /\ NoTwins' /\ ImportedStand' /\ KeysAreFree'
    BY <2>1 DEF finalizeVars, OneByOne, Busy, Running, NoTwins, Created, Rows, SameName,
       ImportedStand, StandsFor, KeysAreFree
  <2>3. \A h \in Host : StillSo(h)'
    BY <2>1 DEF finalizeVars, StillSo, NoMatch, StandsFor, At, Rows, SameName
  <2> QED
    BY <2>2, <2>3
<1>2. CASE EndSnmp
  <2>1. /\ phase = "snmp" /\ phase' = "ssh" /\ UNCHANGED <<opts, inventory, ledger, results>>
        /\ \A h \in Host : work'[h].pc = "idle"
    BY <1>2 DEF EndSnmp, Idle
  <2>2. \A h \in Host : ~Running(h)'
    BY <2>1 DEF Running, Finalizing
  <2>3. OneByOne' /\ \A h \in Host : StillSo(h)'
    BY <2>1, <2>2 DEF OneByOne, Busy, StillSo, At
  <2>4. KeysAreFree'
    BY <2>1 DEF KeysAreFree
  <2>5. NoTwins' /\ ImportedStand'
    BY <2>1 DEF NoTwins, Created, Rows, SameName, ImportedStand, StandsFor
  <2> QED
    BY <2>3, <2>4, <2>5
<1> QED
  BY <1>1, <1>2 DEF Engine

(* A free place in a pool of one thread: no thread runs.                   *)
LEMMA FreeIsAlone ==
  ASSUME Free(1)
  PROVE  Busy = {}
<1>1. IsFiniteSet(Busy)
  BY HostIsFinite, FS_Subset DEF Busy
<1>2. Cardinality(Busy) = 0
  BY <1>1, FS_CardinalityType DEF Free
<1> QED
  BY <1>1, <1>2, FS_EmptySet

LEMMA SerialByThread ==
  ASSUME SnmpWorkers = 1, SshWorkers = 1, ScanInv, SerialInv, NEW h \in Host, Worker(h)
  PROVE  SerialInv'
<1>0. SnmpPool = 1
  BY ScanAssumption DEF SnmpPool
<1>1. CASE Finalizes(h)
  BY <1>1, SerialByFinalize
<1>2. CASE SnmpProbe(h)
  <2>1. PICK info \in SnmpSees[h] : IF info = NoInfo THEN Leave(h) ELSE Enter(h, "snmp", info)
    BY <1>2 DEF SnmpProbe
  <2>2. info # NoInfo => info \in Identity
    BY ScanAssumption
  <2>3. /\ phase = "snmp" /\ h \in batch /\ At(h, "idle") /\ Busy = {}
        /\ UNCHANGED <<opts, phase, inventory, ledger, results>>
    BY <1>0, <1>2, FreeIsAlone DEF SnmpProbe, scanVars
  <2> QED
    BY <2>1, <2>2, <2>3, SerialByEnter, SerialByLeave DEF Method
<1>3. CASE SshCollect(h)
  <2>1. PICK answer \in SshAnswer :
          /\ ledger' = [ledger EXCEPT ![h] = RememberGroup(ledger[h], answer.group)]
          /\ Enter(h, "ssh", answer.id)
    BY <1>3, ScanAssumption DEF SshCollect
  <2>2. answer.id \in Identity /\ \A i \in Host \ {h} : ledger'[i] = ledger[i]
    BY <2>1 DEF SshAnswer, ScanInv, FinalizeInv, FinalizeTypeOK
  <2>3. /\ phase = "ssh" /\ h \in targets /\ At(h, "idle") /\ Busy = {}
        /\ UNCHANGED <<opts, phase, inventory, results>>
    BY <1>3, FreeIsAlone DEF SshCollect
  <2> QED
    BY <2>1, <2>2, <2>3, SerialByEnter DEF Method
<1>4. CASE \/ SnmpRecord(h) \/ SnmpRaise(h) \/ SshRecord(h) \/ SshRaise(h)
           \/ SshFastPathLookup(h) \/ SshSilent(h) \/ SshCollectRaises(h)
  <2>1. /\ Leave(h) /\ UNCHANGED <<opts, phase, inventory, ledger>>
        /\ RecordResult(h) \/ UNCHANGED results
    BY <1>4 DEF SnmpRecord, SnmpRaise, SshRecord, SshRaise, SshFastPathLookup, SshSilent,
       SshCollectRaises, RecordResult, FinalizeRaises, scanVars
  <2> QED
    BY <2>1, SerialByLeave
<1> QED
  BY <1>1, <1>2, <1>3, <1>4 DEF Worker

LEMMA SerialInit == Init => SerialInv
<1> SUFFICES ASSUME Init PROVE SerialInv
  OBVIOUS
<1>1. \A h \in Host : ~Running(h)
  BY DEF Init, Idle, Running, Finalizing
<1>2. OneByOne /\ \A h \in Host : StillSo(h)
  BY <1>1, QuietIsStillSo DEF OneByOne, Busy
<1>3. \A h \in Host, m \in Method : inventory[<<h, m>>] = NoDevice
  BY StartAssumption DEF Init
<1>4. KeysAreFree
  BY <1>3 DEF KeysAreFree, Method
<1>5. Created = {}
  <2>1. Device = Seed \cup (Host \X Method)
    BY FinalizeAssumption
  <2>2. \A d \in Host \X Method : inventory[d] = NoDevice
    BY StartAssumption DEF Init
  <2> QED
    BY <2>1, <2>2 DEF Created, Rows
<1>6. NoTwins /\ ImportedStand
  BY <1>5 DEF NoTwins, ImportedStand, Init
<1> QED
  BY <1>2, <1>4, <1>6 DEF SerialInv

LEMMA SerialInvariance ==
  ASSUME SnmpWorkers = 1, SshWorkers = 1
  PROVE  Spec => []SerialInv
<1>1. ScanInv /\ SerialInv /\ [Next]_vars => SerialInv'
  BY SerialByThread, SerialByEngine DEF Next
<1> QED
  BY <1>1, SerialInit, Invariance, PTL DEF Spec

(* A scan with pools of one thread makes no device that a name or a serial *)
(* of another device stands for, whatever else is in Nautobot, although    *)
(* correlation and creation are separate queries and any of them may raise.*)
THEOREM OneThreadMakesNoTwins ==
  ASSUME SnmpWorkers = 1, SshWorkers = 1
  PROVE  Spec => []NoTwins
<1>1. SerialInv => NoTwins
  BY DEF SerialInv
<1> QED
  BY <1>1, SerialInvariance, PTL

(* With pools of one thread an address recorded as existing agrees with    *)
(* its device in the address, the name and the serial that was discovered, *)
(* from then on until the scan ends.                                       *)
THEOREM OneThreadImportsTruly ==
  ASSUME SnmpWorkers = 1, SshWorkers = 1
  PROVE  Spec => []ImportedAgrees
<1>1. SerialInv => ImportedAgrees
  BY DEF SerialInv, ImportedStand, ImportedAgrees, StandsFor, SameName
<1> QED
  BY <1>1, SerialInvariance, PTL
=============================================================================
