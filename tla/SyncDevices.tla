----------------------------- MODULE SyncDevices -----------------------------
(***************************************************************************)
(* SyncDiscoveredDevicesJob.run: every selected row of the ledger is       *)
(* collected again in a thread of a pool, over SNMP and, when that fails,  *)
(* over SSH, first with the credentials the row remembers.  A thread       *)
(* settles on its row when it starts and writes to it by primary key, much *)
(* later and without a lock; finalize_discovery (module Finalize, without  *)
(* creation) writes by address.  pk tells the rows apart that an address has*)
(* had: a write by primary key does nothing once its row is deleted, even  *)
(* if finalize_discovery makes a new row for the address.                  *)
(***************************************************************************)
EXTENDS Finalize, Integers, Sequences, FiniteSets

CONSTANTS
  SyncWorkers,   \* concurrency
  NoInfo,        \* the SNMP collector returned nothing
  NoLogin,       \* no SSH credential was accepted, or none was tried
  GroupOrder,    \* the profile's secrets groups by weight and name
  Usable,        \* groups whose SSH username can be retrieved
  ConfigLogin,   \* the plugin's settings have an SSH username
  SnmpSees,      \* host -> what an SNMP collection may return
  SshSees,       \* host -> answers to SSH: the credentials accepted, the
                 \*   identity read
  SyncForms

(* NoGroup stands for the credentials of the plugin's settings.            *)
Credential == Group \cup {NoGroup}

SshAnswer == [accepts : SUBSET Credential, id : Identity]

SyncForm == [profile : BOOLEAN, scope : SUBSET Host,
             statuses : SUBSET LedgerStatus, ssh : BOOLEAN]

ASSUME SyncAssumption ==
  /\ SyncWorkers \in Nat \ {0}
  /\ NoInfo \notin Identity
  /\ NoLogin \notin Credential
  /\ GroupOrder \in Seq(Group)
  /\ Usable \subseteq Group
  /\ ConfigLogin \in BOOLEAN
  /\ SnmpSees \in [Host -> SUBSET (Identity \cup {NoInfo})]
  /\ SshSees \in [Host -> SUBSET SshAnswer]
  /\ SyncForms \subseteq SyncForm
  /\ Name # {}

(* A job selects from a table of the database, which is finite.           *)
ASSUME HostIsFinite == IsFiniteSet(Host)

VARIABLES
  sync,      \* the job's inputs
  syncStage, \* "select", "pool", "completed", "nothing"
  selected,  \* the rows of the pool, by address
  rows,      \* and the primary keys they have
  at,        \* what each thread of the pool does next
  stored,    \* the secrets group of the row as the thread read it
  login,     \* the credentials that were accepted, if any
  pk,        \* per address, the primary key of its row or of the next one
  counters,  \* snmp, ssh, not_reachable, failed
  refreshed  \* devices_discovered of the scan's row

syncVars == <<sync, syncStage, selected, rows, at, stored, login, counters, refreshed>>

AtStep == {"wait", "snmp", "mark", "ssh", "clear", "remember", "finalize", "done"}

NoCounters == [snmp |-> 0, ssh |-> 0, not_reachable |-> 0, failed |-> 0]

SyncInit ==
  /\ sync \in SyncForms
  /\ pk = [h \in Host |-> 0]
  /\ syncStage = "select"
  /\ selected = {}
  /\ at = [h \in Host |-> "wait"]
  /\ stored = [h \in Host |-> NoGroup]
  /\ login = [h \in Host |-> NoLogin]
  /\ rows = pk
  /\ counters = NoCounters
  /\ refreshed = 0

(* The row a thread read is still there.                                   *)
Keeps(h, keys) == ledger[h] # NoRow /\ pk[h] = keys[h]

HasRow(h) == Keeps(h, rows)

Goes(h, step) == at' = [at EXCEPT ![h] = step]
---------------------------------------------------------------------------
(* The rows within the profile's prefixes that have one of the statuses,   *)
(* or any status when none is given.                                       *)
Chosen(h) ==
  /\ ledger[h] # NoRow
  /\ h \in sync.scope
  /\ sync.statuses = {} \/ ledger[h].status \in sync.statuses

SyncSelect ==
  /\ syncStage = "select"
  /\ selected' = {h \in Host : Chosen(h)}
  /\ rows' = pk
  /\ syncStage' = IF selected' = {} THEN "nothing" ELSE "pool"
  /\ UNCHANGED <<finalizeVars, sync, at, stored, login, pk, counters, refreshed>>

SyncBusy == {h \in selected : at[h] \notin {"wait", "done"}}

(* A thread reads its row; a row that is gone ends it.  Should this read   *)
(* itself raise, the exception is dropped with the row: not modelled.      *)
SyncRead(h) ==
  /\ syncStage = "pool"
  /\ h \in selected
  /\ at[h] = "wait"
  /\ Cardinality(SyncBusy) < SyncWorkers
  /\ IF HasRow(h)
     THEN Goes(h, "snmp") /\ stored' = [stored EXCEPT ![h] = ledger[h].group]
     ELSE Goes(h, "done") /\ UNCHANGED stored
  /\ UNCHANGED <<finalizeVars, sync, syncStage, selected, rows, login, pk, counters, refreshed>>

SyncSnmp(h) ==
  /\ at[h] = "snmp"
  /\ \E id \in SnmpSees[h] \ {NoInfo} : Enter(h, "snmp", id)
  /\ Goes(h, "finalize")
  /\ UNCHANGED <<opts, inventory, ledger, results, pk,
                 sync, syncStage, selected, rows, stored, login, counters, refreshed>>

SyncSilent(h) ==
  /\ at[h] = "snmp"
  /\ NoInfo \in SnmpSees[h]
  /\ Goes(h, "mark")
  /\ counters' = [counters EXCEPT !.not_reachable = @ + 1]
  /\ UNCHANGED <<finalizeVars, pk, sync, syncStage, selected, rows, stored, login, refreshed>>

(* Mutant: a row is marked only when SSH will not be tried.                *)
SyncMarkUnlessSsh(h) ==
  /\ at[h] = "mark"
  /\ ledger' = IF opts.dryrun \/ sync.ssh \/ ~HasRow(h) THEN ledger
               ELSE [ledger EXCEPT ![h].snmp = FALSE]
  /\ Goes(h, IF sync.ssh THEN "ssh" ELSE "done")
  /\ UNCHANGED <<opts, inventory, results, work, pk,
                 sync, syncStage, selected, rows, stored, login, counters, refreshed>>

(* _mark_unreachable for SNMP: an UPDATE by primary key.                   *)
SyncMark(h) ==
  /\ at[h] = "mark"
  /\ ledger' = IF opts.dryrun \/ ~HasRow(h) THEN ledger
               ELSE [ledger EXCEPT ![h].snmp = FALSE]
  /\ Goes(h, IF sync.ssh THEN "ssh" ELSE "done")
  /\ UNCHANGED <<opts, inventory, results, work, pk,
                 sync, syncStage, selected, rows, stored, login, counters, refreshed>>
---------------------------------------------------------------------------
IsUsable(g) == g \in Usable

(* ssh_credential_candidates of the profile, in order of weight; without   *)
(* any, the credentials of the settings.                                   *)
Candidates ==
  LET usable == SelectSeq(GroupOrder, IsUsable)
  IN  IF sync.profile /\ usable # <<>> THEN usable
      ELSE IF ConfigLogin THEN <<NoGroup>> ELSE <<>>

(* The stored group comes first, when its username can still be read.      *)
Preferred(h) == stored[h] \in Usable

Ordered(h) == (IF Preferred(h) THEN <<stored[h]>> ELSE <<>>) \o Candidates

(* ssh_connect_with_credentials stops at the first that is accepted.       *)
FirstAccepted(tried, accepts) ==
  LET hits == {i \in DOMAIN tried : tried[i] \in accepts}
  IN  IF hits = {} THEN NoLogin ELSE tried[CHOOSE i \in hits : \A j \in hits : i <= j]

(* Nothing was accepted: only stored credentials that were tried are given *)
(* up, by clearing the row's SSH state.                                    *)
SyncSshFails(h) ==
  /\ at[h] = "ssh"
  /\ \E answer \in SshSees[h] : FirstAccepted(Ordered(h), answer.accepts) = NoLogin
  /\ Goes(h, IF Preferred(h) THEN "clear" ELSE "done")
  /\ UNCHANGED <<finalizeVars, pk, sync, syncStage, selected, rows, stored, login, counters, refreshed>>

SyncClear(h) ==
  /\ at[h] = "clear"
  /\ ledger' = IF opts.dryrun \/ ~HasRow(h) THEN ledger
               ELSE [ledger EXCEPT ![h].ssh = FALSE, ![h].group = NoGroup]
  /\ Goes(h, "done")
  /\ UNCHANGED <<opts, inventory, results, work, pk,
                 sync, syncStage, selected, rows, stored, login, counters, refreshed>>

SyncSsh(h) ==
  /\ at[h] = "ssh"
  /\ \E answer \in SshSees[h] :
       /\ FirstAccepted(Ordered(h), answer.accepts) # NoLogin
       /\ login' = [login EXCEPT ![h] = FirstAccepted(Ordered(h), answer.accepts)]
       /\ Enter(h, "ssh", answer.id)
  /\ Goes(h, "remember")
  /\ UNCHANGED <<opts, inventory, ledger, results, pk,
                 sync, syncStage, selected, rows, stored, counters, refreshed>>

(* Mutant: record_ssh_success compares with the row the thread has read.   *)
SyncRememberStale(h) ==
  /\ at[h] = "remember"
  /\ ledger' = IF HasRow(h) /\ login[h] \notin {NoGroup, ledger[h].group} /\ stored[h] = NoGroup
               THEN [ledger EXCEPT ![h].group = login[h]] ELSE ledger
  /\ Goes(h, "finalize")
  /\ UNCHANGED <<opts, inventory, results, work, pk,
                 sync, syncStage, selected, rows, stored, login, counters, refreshed>>

(* record_ssh_success on the row as it is now, in a dry run too.           *)
SyncRemember(h) ==
  /\ at[h] = "remember"
  /\ ledger' = IF HasRow(h) /\ login[h] # NoGroup
               THEN [ledger EXCEPT ![h].group = login[h]] ELSE ledger
  /\ Goes(h, "finalize")
  /\ UNCHANGED <<opts, inventory, results, work, pk,
                 sync, syncStage, selected, rows, stored, login, counters, refreshed>>

SyncFinalize(h) ==
  /\ at[h] = "finalize"
  /\ FinalizeStep(h)
  /\ UNCHANGED <<pk, syncVars>>

(* A host that SSH collected takes one from the SNMP counter.              *)
SyncRecord(h) ==
  /\ at[h] = "finalize"
  /\ RecordResult(h)
  /\ counters' = IF work[h].method = "snmp" THEN [counters EXCEPT !.snmp = @ + 1]
                 ELSE [counters EXCEPT !.snmp = @ - 1, !.ssh = @ + 1]
  /\ Goes(h, "done")
  /\ UNCHANGED <<pk, sync, syncStage, selected, rows, stored, login, refreshed>>

SyncFailed(h) ==
  /\ counters' = [counters EXCEPT !.failed = @ + 1]
  /\ Goes(h, "done")
  /\ UNCHANGED <<pk, sync, syncStage, selected, rows, stored, login, refreshed>>

SyncFinalizeRaises(h) == at[h] = "finalize" /\ FinalizeRaises(h) /\ SyncFailed(h)

(* A collector or a write to the row raises.                               *)
SyncRaises(h) ==
  /\ Faults
  /\ at[h] \in {"snmp", "mark", "ssh", "clear", "remember"}
  /\ SyncFailed(h)
  /\ UNCHANGED finalizeVars

(* Mutant: the job waits until its counters account for every row.         *)
SyncCompleteWhenCounted ==
  /\ syncStage = "pool"
  /\ \A h \in selected : at[h] = "done"
  /\ counters.snmp + counters.not_reachable + counters.failed >= Cardinality(selected)
  /\ syncStage' = "completed"
  /\ refreshed' = counters.snmp + counters.ssh
  /\ UNCHANGED <<finalizeVars, pk, sync, selected, rows, at, stored, login, counters>>

(* The joined pool's counters become the scan's row.                       *)
SyncComplete ==
  /\ syncStage = "pool"
  /\ \A h \in selected : at[h] = "done"
  /\ syncStage' = "completed"
  /\ refreshed' = counters.snmp + counters.ssh
  /\ UNCHANGED <<finalizeVars, pk, sync, selected, rows, at, stored, login, counters>>

SyncThread(h) ==
  \/ SyncRead(h) \/ SyncSnmp(h) \/ SyncSilent(h) \/ SyncMark(h)
  \/ SyncSsh(h) \/ SyncSshFails(h) \/ SyncClear(h) \/ SyncRemember(h)
  \/ SyncFinalize(h) \/ SyncRecord(h) \/ SyncFinalizeRaises(h) \/ SyncRaises(h)

SyncEngine == SyncSelect \/ SyncComplete

SyncStep == SyncEngine \/ \E h \in Host : SyncThread(h)
---------------------------------------------------------------------------
SyncTypeOK ==
  /\ sync \in SyncForm
  /\ syncStage \in {"select", "pool", "completed", "nothing"}
  /\ selected \subseteq Host
  /\ at \in [Host -> AtStep]
  /\ stored \in [Host -> Group \cup {NoGroup}]
  /\ login \in [Host -> Credential \cup {NoLogin}]
  /\ pk \in [Host -> Nat]
  /\ rows \in [Host -> Nat]
  /\ counters \in [snmp : Int, ssh : Nat, not_reachable : Nat, failed : Nat]
  /\ refreshed \in Int

HasResult(h) == \E r \in results : r.host = h

(* The row still claims what this sync has found to be no longer so: that  *)
(* the address answers SNMP, or that its stored SSH group works.           *)
StillClaims(h) ==
  \/ ledger[h].snmp
  \/ sync.ssh /\ Preferred(h) /\ ledger[h].group = stored[h]

(* No selected row is passed over: when the job ends, a row that is still  *)
(* the one it selected has a new result, or no longer claims that SNMP or  *)
(* the stored credentials work; the others are reported as failed.         *)
SyncMissesNoRow ==
  syncStage = "completed" /\ ~opts.dryrun =>
    Cardinality({h \in selected : HasRow(h) /\ ~HasResult(h) /\ StillClaims(h)})
      <= counters.failed

(* What a row remembers of SSH is what this sync has learned, although the *)
(* group is written by primary key before finalize_discovery rewrites the  *)
(* row by address: a row collected over SSH keeps the group that let the   *)
(* job in; the credentials of the settings leave the stored group alone.   *)
RememberedGroupWorks ==
  \A h \in selected : HasRow(h) /\ at[h] = "done" /\ HasResult(h) /\ work[h].method = "ssh" =>
    /\ login[h] \in Group => ledger[h].group = login[h]
    /\ login[h] = NoGroup => ledger[h].group = stored[h]

(* A dry run touches nothing.                                              *)
DryRunTouchesNothing == [][opts.dryrun /\ SyncStep => ledger' = ledger]_<<finalizeVars, syncVars>>
=============================================================================
