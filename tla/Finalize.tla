------------------------------ MODULE Finalize ------------------------------
(***************************************************************************)
(* finalize_discovery: the path from a collected identity to the records,  *)
(* shared by every discovery job.  It runs in a worker thread per host,    *)
(* without a lock or a transaction, so each database round trip is an      *)
(* action of its own:                                                      *)
(*                                                                         *)
(*   correlate ---------------------------------------> upsert -> result   *)
(*       \--> lookup --> upgrade --> primary --------->/                   *)
(*                  \--> insert ---->/                                     *)
(*                                                                         *)
(* A job composes these actions with its own thread pool and counters.     *)
(* work[h].obj is the Device object a thread holds: the row as it read it, *)
(* which later saves write back however old it is.                         *)
(***************************************************************************)
EXTENDS Correlation, Naturals

CONSTANTS
  Host,           \* the addresses a job works on
  Group,          \* SSH secrets groups
  NoGroup,
  NoRow,          \* an address without a DiscoveredDevice row
  Strip,          \* strip_domain_suffixes, as a function on Name
  Seed,           \* keys of the devices that were there before the job
  StrictColumns,  \* the database refuses a value longer than its column
  Faults          \* a database call may raise at any time

Method == {"snmp", "ssh"}

ASSUME FinalizeAssumption ==
  /\ Host \subseteq Ip
  /\ NoGroup \notin Group
  /\ Strip \in [Name -> Name]
  /\ Device = Seed \cup (Host \X Method)
  /\ Seed \cap (Host \X Method) = {}
  /\ StrictColumns \in BOOLEAN
  /\ Faults \in BOOLEAN

ResultStatus == {"new", "existing", "failed", "partially_imported", "conflict"}
LedgerStatus == {"new", "imported", "failed", "partially_imported",
                 "conflict", "not_reachable"}

(* A DiscoveredDevice row: the persistent record of an address.            *)
LedgerRow == [status : LedgerStatus, device : Device \cup {NoDevice},
              name : Name, serial : Serial \cup {NoSerial},
              snmp : BOOLEAN, ssh : BOOLEAN, group : Group \cup {NoGroup}]

ASSUME NoRowIsNoRow == NoRow \notin LedgerRow

(* A DiscoveryResult row of the running scan.                              *)
ResultRow == [host : Host, method : Method, status : ResultStatus,
              device : Device \cup {NoDevice}]

Finalizing == {"correlate", "lookup", "upgrade", "insert", "primary", "upsert", "result"}

Work == [pc : {"idle", "done"} \cup Finalizing, method : Method,
         name : Name, serial : Serial \cup {NoSerial},
         status : ResultStatus, device : Device \cup {NoDevice},
         obj : DeviceRow \cup {NoDevice}]

Options == [dryrun : BOOLEAN,          \* report only
            create : BOOLEAN,          \* create_devices (auto_create)
            createMissing : BOOLEAN,   \* create_missing_objects
            fastPath : BOOLEAN,        \* the profile's fast_path
            ping : BOOLEAN, snmp : BOOLEAN, ssh : BOOLEAN, \* its protocols
            candidates : BOOLEAN]      \* some SSH credential is configured

VARIABLES
  opts,       \* the job's inputs, fixed while it runs
  inventory,  \* Nautobot's Device table
  ledger,     \* the DiscoveredDevice table, one row per address
  results,    \* the DiscoveryResult rows of this scan
  work        \* the thread working on each host

finalizeVars == <<opts, inventory, ledger, results, work>>

Running(h) == work[h].pc \in Finalizing

(* A thread that has not started.                                          *)
Idle == [pc |-> "idle", method |-> "snmp",
         name |-> CHOOSE n \in Name : TRUE, serial |-> NoSerial,
         status |-> "new", device |-> NoDevice, obj |-> NoDevice]
---------------------------------------------------------------------------
(* A thread that collected an identity enters finalize_discovery, which    *)
(* strips the domain suffix first.                                         *)
Enter(h, method, id) ==
  work' = [work EXCEPT ![h].pc = "correlate", ![h].method = method,
                       ![h].name = Strip[id.name], ![h].serial = id.serial,
                       ![h].status = "new", ![h].device = NoDevice, ![h].obj = NoDevice]

Leave(h) == work' = [work EXCEPT ![h].pc = "done"]

At(h, pc) == work[h].pc = pc

Step(h, pc, status, device) ==
  work' = [work EXCEPT ![h].pc = pc, ![h].status = status, ![h].device = device]

(* What correlate_device answers when ip is the first row of the address.  *)
(* The rows are ordered by host and mask length only, and the tables of    *)
(* other devices, other jobs and the operator add to them at any time: each*)
(* of AddressRows(h) may be the first.  (An address without a row is one   *)
(* whose first row is no device's primary IP.)                             *)
Correlated(h, ip) == CorrelationStatus(inventory, ip, work[h].name, work[h].serial)

Match(h, ip) == CorrelatedDevice(inventory, ip, work[h].name, work[h].serial)

CorrelateDryRun(h) ==
  /\ At(h, "correlate")
  /\ opts.dryrun
  /\ \E ip \in AddressRows(h) :
       Step(h, "upsert", IF Correlated(h, ip) = "imported" THEN "existing" ELSE "new", NoDevice)
  /\ UNCHANGED <<opts, inventory, ledger, results>>

CorrelateImported(h) ==
  /\ At(h, "correlate")
  /\ ~opts.dryrun
  /\ \E ip \in AddressRows(h) :
       /\ Correlated(h, ip) = "imported"
       /\ Step(h, "upsert", "existing", Match(h, ip))
  /\ UNCHANGED <<opts, inventory, ledger, results>>

(* Mutant: the dry-run branch does not end the correlation.                *)
CorrelateNewInDryRun(h) ==
  /\ At(h, "correlate")
  /\ \E ip \in AddressRows(h) : Correlated(h, ip) = "new"
  /\ Step(h, IF opts.create THEN "lookup" ELSE "upsert", "new", NoDevice)
  /\ UNCHANGED <<opts, inventory, ledger, results>>

CorrelateNew(h) ==
  /\ At(h, "correlate")
  /\ ~opts.dryrun
  /\ \E ip \in AddressRows(h) : Correlated(h, ip) = "new"
  /\ Step(h, IF opts.create THEN "lookup" ELSE "upsert", "new", NoDevice)
  /\ UNCHANGED <<opts, inventory, ledger, results>>

(* partially_imported and conflict: nothing is created, the status of the  *)
(* correlation itself becomes the status of the result.                    *)
CorrelateForReview(h) ==
  /\ At(h, "correlate")
  /\ ~opts.dryrun
  /\ \E ip \in AddressRows(h) :
       /\ Correlated(h, ip) \in {"partially_imported", "conflict"}
       /\ Step(h, "upsert", Correlated(h, ip), Match(h, ip))
  /\ UNCHANGED <<opts, inventory, ledger, results>>
---------------------------------------------------------------------------
(* create_device_in_nautobot looks the device up by its exact name.        *)
NamedExactly(inv, name) == {d \in Rows(inv) : inv[d].name = name}

LookupDisabled(h) ==
  /\ At(h, "lookup")
  /\ ~opts.createMissing
  /\ Step(h, "upsert", "failed", NoDevice)
  /\ UNCHANGED <<opts, inventory, ledger, results>>

LookupNone(h) ==
  /\ At(h, "lookup")
  /\ opts.createMissing
  /\ NamedExactly(inventory, work[h].name) = {}
  /\ Step(h, "insert", "new", NoDevice)
  /\ UNCHANGED <<opts, inventory, ledger, results>>

(* An existing device is completed when its serial is blank; a placeholder *)
(* type or platform, which the model does not carry, may ask for the same  *)
(* save of the whole object.                                               *)
LookupExisting(h) ==
  /\ At(h, "lookup")
  /\ opts.createMissing
  /\ \E d \in NamedExactly(inventory, work[h].name) :
       LET row   == inventory[d]
           blank == row.serial = NoSerial /\ work[h].serial # NoSerial
       IN  \E save \in {blank, TRUE} :
             work' = [work EXCEPT
               ![h].pc = IF save THEN "upgrade" ELSE "primary",
               ![h].status = "existing",
               ![h].device = d,
               ![h].obj = IF blank THEN [row EXCEPT !.serial = work[h].serial] ELSE row]
  /\ UNCHANGED <<opts, inventory, ledger, results>>

(* existing_device.save() writes every column of the object it read.       *)
Upgrade(h) ==
  /\ At(h, "upgrade")
  /\ inventory' = [inventory EXCEPT ![work[h].device] = work[h].obj]
  /\ work' = [work EXCEPT ![h].pc = "primary"]
  /\ UNCHANGED <<opts, ledger, results>>

(* Device.objects.create; nothing in the database makes the name unique,   *)
(* the device has no tenant.                                               *)
Insert(h) ==
  LET key == <<h, work[h].method>>
      row == [name |-> work[h].name, serial |-> work[h].serial, ip |-> NoIp]
  IN  /\ At(h, "insert")
      /\ inventory' = [inventory EXCEPT ![key] = row]
      /\ work' = [work EXCEPT ![h].pc = "primary", ![h].device = key, ![h].obj = row]
      /\ UNCHANGED <<opts, ledger, results>>

(* The interface tables, or the fallback host route, give the device its   *)
(* primary IP when the object in hand has none: a row of the address in the*)
(* namespace of the VRF the table reports it in, or in the default one.    *)
(* update_fields limits the save to that column.                           *)
AssignPrimary(h) ==
  /\ At(h, "primary")
  /\ IF work[h].obj.ip = NoIp
     THEN \E ip \in AddressRows(h) :
            inventory' = [inventory EXCEPT ![work[h].device].ip = ip]
     ELSE inventory' = inventory
  /\ work' = [work EXCEPT ![h].pc = "upsert"]
  /\ UNCHANGED <<opts, ledger, results>>

(* The IP address object could not be made: logged, and the device stays   *)
(* without a primary IP.                                                   *)
PrimaryFails(h) ==
  /\ Faults
  /\ At(h, "primary")
  /\ work[h].obj.ip = NoIp
  /\ work' = [work EXCEPT ![h].pc = "upsert"]
  /\ UNCHANGED <<opts, inventory, ledger, results>>

(* Mutant: the error path hands on the key the device was to have.         *)
CreateRaisesWithKey(h) ==
  /\ Faults
  /\ work[h].pc \in {"lookup", "upgrade", "insert", "primary"}
  /\ Step(h, "upsert", "failed", <<h, work[h].method>>)
  /\ UNCHANGED <<opts, inventory, ledger, results>>

(* create_device_in_nautobot turns any exception into a failed status and  *)
(* no device, whatever it had already written.                             *)
CreateRaises(h) ==
  /\ Faults
  /\ work[h].pc \in {"lookup", "upgrade", "insert", "primary"}
  /\ Step(h, "upsert", "failed", NoDevice)
  /\ UNCHANGED <<opts, inventory, ledger, results>>
---------------------------------------------------------------------------
(* Mutant: the result's status is stored as it is.                         *)
StatusUntranslated(status) == status

(* _correlation_status_for: a table without an entry for the status        *)
(* correlate_device calls partially_imported, whose default is new.        *)
CorrelationStatusFor(status) ==
  IF status = "existing" THEN "imported"
  ELSE IF status = "partial" THEN "partially_imported"
  ELSE IF status \in {"conflict", "failed"} THEN status
  ELSE "new"

(* Mutant: only an imported address is linked to its device.               *)
UpsertedUnlinked(row, w) ==
  [status |-> CorrelationStatusFor(w.status),
   device |-> IF w.status = "existing" THEN w.device ELSE NoDevice,
   name   |-> w.name,
   serial |-> w.serial,
   snmp   |-> (w.method = "snmp") \/ (row # NoRow /\ row.snmp),
   ssh    |-> (w.method = "ssh") \/ (row # NoRow /\ row.ssh),
   group  |-> IF row = NoRow THEN NoGroup ELSE row.group]

(* update_or_create by address: it sets the columns of its own protocol    *)
(* and never the stored secrets group.                                     *)
Upserted(row, w) ==
  [status |-> CorrelationStatusFor(w.status),
   device |-> w.device,
   name   |-> w.name,
   serial |-> w.serial,
   snmp   |-> (w.method = "snmp") \/ (row # NoRow /\ row.snmp),
   ssh    |-> (w.method = "ssh") \/ (row # NoRow /\ row.ssh),
   group  |-> IF row = NoRow THEN NoGroup ELSE row.group]

(* Mutant: an address flagged for review is not recorded.                  *)
UpsertSettled(h) ==
  /\ At(h, "upsert")
  /\ ledger' = IF work[h].status \in {"partially_imported", "conflict"} THEN ledger
               ELSE [ledger EXCEPT ![h] = Upserted(ledger[h], work[h])]
  /\ work' = [work EXCEPT ![h].pc = "result"]
  /\ UNCHANGED <<opts, inventory, results>>

Upsert(h) ==
  /\ At(h, "upsert")
  /\ ledger' = [ledger EXCEPT ![h] = Upserted(ledger[h], work[h])]
  /\ work' = [work EXCEPT ![h].pc = "result"]
  /\ UNCHANGED <<opts, inventory, results>>

(* DiscoveryResult.result_status holds ten characters.                     *)
Overflows(status) == StrictColumns /\ status = "partially_imported"

RecordResult(h) ==
  /\ At(h, "result")
  /\ ~Overflows(work[h].status)
  /\ results' = results \cup
       {[host |-> h, method |-> work[h].method, status |-> work[h].status,
         device |-> work[h].device]}
  /\ Leave(h)
  /\ UNCHANGED <<opts, inventory, ledger>>

(* finalize_discovery raises: the result does not fit, or the database     *)
(* failed in one of the calls outside create_device_in_nautobot.           *)
FinalizeRaises(h) ==
  /\ \/ At(h, "result") /\ Overflows(work[h].status)
     \/ Faults /\ work[h].pc \in {"correlate", "upsert", "result"}
  /\ Leave(h)
  /\ UNCHANGED <<opts, inventory, ledger, results>>

(* The steps that touch no counter of the job.                             *)
FinalizeStep(h) ==
  \/ CorrelateDryRun(h) \/ CorrelateImported(h) \/ CorrelateNew(h) \/ CorrelateForReview(h)
  \/ LookupDisabled(h) \/ LookupNone(h) \/ LookupExisting(h)
  \/ Upgrade(h) \/ Insert(h) \/ AssignPrimary(h) \/ PrimaryFails(h) \/ CreateRaises(h)
  \/ Upsert(h)

CreatedNow(h) == work[h].status = "new" /\ work[h].device # NoDevice

(* The counters a job keeps of what its threads report.                    *)
Totals == [discovered : Nat, created : Nat, existing : Nat, conflicts : Nat, failed : Nat]

NoTotals == [discovered |-> 0, created |-> 0, existing |-> 0, conflicts |-> 0, failed |-> 0]

(* How the result of a thread is counted; the status partially_imported is *)
(* in none of the lists.                                                   *)
Count(t, h) ==
  LET status == work[h].status
  IN  IF CreatedNow(h) THEN [t EXCEPT !.created = @ + 1]
      ELSE IF status = "existing" THEN [t EXCEPT !.existing = @ + 1]
      ELSE IF status = "failed" THEN [t EXCEPT !.failed = @ + 1]
      ELSE IF status \in {"partial", "conflict"} THEN [t EXCEPT !.conflicts = @ + 1]
      ELSE t
---------------------------------------------------------------------------
FinalizeTypeOK ==
  /\ opts \in Options
  /\ inventory \in Inventory
  /\ ledger \in [Host -> LedgerRow \cup {NoRow}]
  /\ results \subseteq ResultRow
  /\ work \in [Host -> Work]

(* A thread that is about to save a device holds the object of a row.      *)
ObjectInHand ==
  \A h \in Host : work[h].pc \in {"upgrade", "primary"} =>
    work[h].device \in Rows(inventory) /\ work[h].obj \in DeviceRow

(* Every device a record links to, and every device a thread is about to   *)
(* link or to save, is a row of the Device table: no error path hands on   *)
(* the key of a device that was not created.                               *)
LinksExist ==
  /\ \A r \in results : r.device \in Rows(inventory) \cup {NoDevice}
  /\ \A h \in Host : work[h].device \in Rows(inventory) \cup {NoDevice}
  /\ \A h \in Host : ledger[h] # NoRow => ledger[h].device \in Rows(inventory) \cup {NoDevice}
=============================================================================
