----------------------------- MODULE Onboarding -----------------------------
(***************************************************************************)
(* OnboardDiscoveredDevicesJob.run: one device after another is created    *)
(* for the selected rows of the ledger.  The rows are read once, when the  *)
(* job starts; each device is made in a transaction of its own, which also *)
(* links the row by primary key.                                           *)
(*                                                                         *)
(* Another job runs at the same time, so the transaction is two steps: the *)
(* lookup by name, and the commit of everything it wrote.  Location, role  *)
(* and tenant do not matter to any property and are left out.              *)
(***************************************************************************)
EXTENDS SyncDevices

CONSTANTS OnboardForms, NoHost

OnboardForm == [picked : SUBSET Host, dryrun : BOOLEAN, defaults : BOOLEAN]

ASSUME OnboardAssumption ==
  /\ OnboardForms \subseteq OnboardForm
  /\ NoHost \notin Host

VARIABLES
  onboard,       \* the job's inputs
  onboardStage,  \* "start", "loop", "completed", "rejected"
  devices,       \* the rows as they were read, by address
  keys,          \* and their primary keys
  queue,         \* the rows still to come
  current,       \* the address whose transaction is open
  existing,      \* the device found by name, or NoDevice
  object,        \* the row of it that will be saved
  onboarded      \* onboarding_onboarded, _existing, _failed

onboardVars == <<onboard, onboardStage, devices, keys, queue, current, existing, object, onboarded>>

OnboardInit ==
  /\ onboard \in OnboardForms
  /\ onboardStage = "start"
  /\ devices = [h \in Host |-> NoRow]
  /\ keys = pk
  /\ queue = {}
  /\ current = NoHost
  /\ existing = NoDevice
  /\ object = NoDevice
  /\ onboarded = [new |-> 0, existing |-> 0, failed |-> 0]

Picked == {h \in onboard.picked : ledger[h] # NoRow}

(* Without rows, or without the defaults a form must have, nothing starts. *)
OnboardStart ==
  /\ onboardStage = "start"
  /\ onboardStage' = IF Picked = {} \/ ~onboard.defaults THEN "rejected" ELSE "loop"
  /\ queue' = Picked
  /\ devices' = ledger
  /\ keys' = pk
  /\ UNCHANGED <<finalizeVars, onboard, current, existing, object, onboarded>>

Takes(h) ==
  /\ onboardStage = "loop"
  /\ current = NoHost
  /\ h \in queue
  /\ queue' = queue \ {h}

Tally(kind) == onboarded' = [onboarded EXCEPT ![kind] = @ + 1]

(* Only a row that was new when the job started is onboarded.              *)
OnboardSkip(h) ==
  /\ Takes(h)
  /\ devices[h].status # "new"
  /\ Tally("failed")
  /\ UNCHANGED <<finalizeVars, onboard, onboardStage, devices, keys, current, existing, object>>

(* A dry run counts the device as onboarded.                               *)
OnboardDryRun(h) ==
  /\ Takes(h)
  /\ devices[h].status = "new"
  /\ onboard.dryrun
  /\ Tally("new")
  /\ UNCHANGED <<finalizeVars, onboard, onboardStage, devices, keys, current, existing, object>>

(* The transaction looks for a device of exactly the row's name.           *)
OnboardLookup(h) ==
  /\ Takes(h)
  /\ devices[h].status = "new"
  /\ ~onboard.dryrun
  /\ current' = h
  /\ LET named == NamedExactly(inventory, devices[h].name)
     IN  IF named = {} THEN existing' = NoDevice /\ object' = NoDevice
         ELSE \E d \in named : existing' = d /\ object' = inventory[d]
  /\ UNCHANGED <<finalizeVars, onboard, onboardStage, devices, keys, onboarded>>

(* The job's device for a row; the sync job creates none.                  *)
NewKey(h) == <<h, "snmp">>

Key == IF existing = NoDevice THEN NewKey(current) ELSE existing

(* What the transaction writes to Device: a new row, or the completed one  *)
(* it read; both get the address when they have none, unless the address   *)
(* object cannot be made.                                                  *)
Written(row) ==
  LET base == IF existing = NoDevice
              THEN [name |-> row.name, serial |-> row.serial, ip |-> NoIp]
              ELSE IF object.serial = NoSerial THEN [object EXCEPT !.serial = row.serial]
              ELSE object
  IN  IF base.ip = NoIp
      THEN {[base EXCEPT !.ip = ip] : ip \in AddressRows(current)}
             \cup (IF Faults THEN {base} ELSE {})
      ELSE {base}

HasOwnRow == Keeps(current, keys)

Close == current' = NoHost /\ existing' = NoDevice /\ object' = NoDevice

(* Mutant: the transaction is committed although the row is not saved.     *)
OnboardCommitUnlinked ==
  /\ current # NoHost
  /\ opts.createMissing
  /\ \E row \in Written(devices[current]) : inventory' = [inventory EXCEPT ![Key] = row]
  /\ ledger' = IF ~HasOwnRow THEN ledger
               ELSE [ledger EXCEPT ![current].device = Key,
                     ![current].status = IF existing = NoDevice THEN "new" ELSE "imported"]
  /\ Tally(IF existing = NoDevice THEN "new" ELSE "existing")
  /\ Close
  /\ UNCHANGED <<opts, results, work, onboard, onboardStage, devices, keys, queue>>

OnboardCommit ==
  /\ current # NoHost
  /\ opts.createMissing
  /\ HasOwnRow
  /\ \E row \in Written(devices[current]) : inventory' = [inventory EXCEPT ![Key] = row]
  /\ ledger' = [ledger EXCEPT ![current].device = Key,
                 ![current].status = IF existing = NoDevice THEN "new" ELSE "imported"]
  /\ Tally(IF existing = NoDevice THEN "new" ELSE "existing")
  /\ Close
  /\ UNCHANGED <<opts, results, work, onboard, onboardStage, devices, keys, queue>>

(* Mutant: a device that could not be created is counted when it is begun. *)
OnboardFailsCounted ==
  /\ current # NoHost
  /\ Faults \/ ~opts.createMissing \/ ~HasOwnRow
  /\ Tally("new")
  /\ Close
  /\ UNCHANGED <<finalizeVars, onboard, onboardStage, devices, keys, queue>>

(* No device, an exception, or a row that is no longer there to be saved:  *)
(* everything is rolled back.                                              *)
OnboardFails ==
  /\ current # NoHost
  /\ Faults \/ ~opts.createMissing \/ ~HasOwnRow
  /\ Tally("failed")
  /\ Close
  /\ UNCHANGED <<finalizeVars, onboard, onboardStage, devices, keys, queue>>

OnboardComplete ==
  /\ onboardStage = "loop"
  /\ current = NoHost
  /\ queue = {}
  /\ onboardStage' = "completed"
  /\ UNCHANGED <<finalizeVars, onboard, devices, keys, queue, current, existing, object, onboarded>>

OnboardStep ==
  \/ OnboardStart \/ OnboardCommit \/ OnboardFails \/ OnboardComplete
  \/ \E h \in Host : OnboardSkip(h) \/ OnboardDryRun(h) \/ OnboardLookup(h)
---------------------------------------------------------------------------
OnboardTypeOK ==
  /\ onboard \in OnboardForm
  /\ onboardStage \in {"start", "loop", "completed", "rejected"}
  /\ devices \in [Host -> LedgerRow \cup {NoRow}]
  /\ keys \in [Host -> Nat]
  /\ queue \subseteq Host
  /\ current \in Host \cup {NoHost}
  /\ existing \in Device \cup {NoDevice}
  /\ object \in DeviceRow \cup {NoDevice}
  /\ onboarded \in [new : Nat, existing : Nat, failed : Nat]

Onboarded == {h \in Host : inventory[NewKey(h)] # NoDevice}

(* All or nothing: the step that makes a device also links the row it was  *)
(* made for, whoever deletes rows meanwhile.                               *)
OnboardIsAtomic ==
  [][\A h \in Host : inventory[NewKey(h)] = NoDevice /\ inventory'[NewKey(h)] # NoDevice
       => ledger'[h] # NoRow /\ ledger'[h].device = NewKey(h)]_<<finalizeVars, onboardVars>>

(* The job's numbers are true: each picked row is counted once, and those  *)
(* counted as created have a device, in spite of one of several failing.   *)
OnboardTotalsAreTrue ==
  /\ ~onboard.dryrun => onboarded.new = Cardinality(Onboarded)
  /\ onboardStage \in {"loop", "completed"} =>
       onboarded.new + onboarded.existing + onboarded.failed
         + Cardinality(queue) + (IF current = NoHost THEN 0 ELSE 1)
       = Cardinality({h \in onboard.picked : devices[h] # NoRow})
=============================================================================
