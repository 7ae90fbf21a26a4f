----------------------------- MODULE LedgerJobs -----------------------------
(***************************************************************************)
(* The two jobs that work on the rows the ledger already has, run at the   *)
(* same time: the sync of all of them and the onboarding of some.  An      *)
(* operator deletes rows and enters devices meanwhile.                     *)
(***************************************************************************)
EXTENDS Onboarding

CONSTANTS
  MaxDeletions,   \* how often the operator deletes the row of an address
  Entered,        \* the rows an operator enters in the Device table
  Jobs, Inventories, Ledgers

ASSUME LedgerJobsAssumption ==
  /\ MaxDeletions \in Nat
  /\ Entered \subseteq DeviceRow
  /\ \A job \in Jobs : job \in Options /\ ~job.create
  /\ \A inv \in Inventories :
       inv \in Inventory /\ \A key \in Host \X Method : inv[key] = NoDevice
  /\ Ledgers \subseteq [Host -> LedgerRow \cup {NoRow}]
  /\ \A led \in Ledgers, inv \in Inventories, h \in Host :
       led[h] # NoRow => led[h].device \in Rows(inv) \cup {NoDevice}

vars == <<finalizeVars, pk, syncVars, onboardVars>>

Init ==
  /\ opts \in Jobs
  /\ inventory \in Inventories
  /\ ledger \in Ledgers
  /\ results = {}
  /\ work = [h \in Host |-> Idle]
  /\ SyncInit
  /\ OnboardInit

OperatorDeletes(h) ==
  /\ ledger[h] # NoRow
  /\ pk[h] < MaxDeletions
  /\ ledger' = [ledger EXCEPT ![h] = NoRow]
  /\ pk' = [pk EXCEPT ![h] = @ + 1]
  /\ UNCHANGED <<opts, inventory, results, work, syncVars, onboardVars>>

OperatorEnters(d) ==
  /\ inventory[d] = NoDevice
  /\ \E row \in Entered : inventory' = [inventory EXCEPT ![d] = row]
  /\ UNCHANGED <<opts, ledger, results, work, pk, syncVars, onboardVars>>

Operator == (\E h \in Host : OperatorDeletes(h)) \/ (\E d \in Seed : OperatorEnters(d))

SyncJob == SyncStep /\ UNCHANGED onboardVars

OnboardJob == OnboardStep /\ UNCHANGED <<pk, syncVars>>

Next == SyncJob \/ OnboardJob \/ Operator

Spec == Init /\ [][Next]_vars

(* Collections have timeouts; both jobs are given a processor.             *)
FairSpec ==
  /\ Spec
  /\ WF_vars(SyncEngine /\ UNCHANGED onboardVars)
  /\ \A h \in Host : WF_vars(SyncThread(h) /\ UNCHANGED onboardVars)
  /\ WF_vars(OnboardJob)
---------------------------------------------------------------------------
LedgerTypeOK == FinalizeTypeOK /\ SyncTypeOK /\ OnboardTypeOK

(* Both jobs come to an end.                                               *)
LedgerJobsEnd ==
  <>(syncStage \in {"completed", "nothing"} /\ onboardStage \in {"completed", "rejected"})
=============================================================================
