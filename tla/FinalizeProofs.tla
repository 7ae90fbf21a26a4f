--------------------------- MODULE FinalizeProofs ---------------------------
(***************************************************************************)
(* What every step of finalize_discovery keeps, whichever job runs it: the *)
(* types, and that links and objects in hand refer to rows that exist.     *)
(***************************************************************************)
EXTENDS Finalize, TLAPS

Creating == {"lookup", "upgrade", "insert", "primary"}

(* In a dry run no thread gets as far as create_device_in_nautobot.        *)
DryRunReports == opts.dryrun => \A h \in Host : work[h].pc \notin Creating

FinalizeInv == FinalizeTypeOK /\ ObjectInHand /\ LinksExist /\ DryRunReports

(* The thread of h is at work and stays at work on what it collected; the  *)
(* other threads, the job's inputs and the results do not change.          *)
OnlyThread(h) ==
  /\ Running(h) /\ Running(h)'
  /\ work'[h].method = work[h].method
  /\ \A i \in Host \ {h} : work'[i] = work[i]
  /\ UNCHANGED <<opts, results>>

CorrelationAnswers == {"new", "conflict", "imported", "partially_imported"}

(* correlate_device answers one of four statuses, and a device that is     *)
(* there or none.                                                          *)
LEMMA CorrelationType ==
  ASSUME NEW inv \in Inventory, NEW ip, NEW name, NEW serial
  PROVE  /\ CorrelationStatus(inv, ip, name, serial) \in CorrelationAnswers
         /\ CorrelatedDevice(inv, ip, name, serial) \in Rows(inv) \cup {NoDevice}
<1> DEFINE M == Matches(inv, ip, name, serial)
<1>1. CorrelationStatus(inv, ip, name, serial) \in CorrelationAnswers
  BY DEF CorrelationStatus, CorrelationAnswers
<1>2. CorrelatedDevice(inv, ip, name, serial) \in Rows(inv) \cup {NoDevice}
  <2>1. M \subseteq Rows(inv)
    BY DEF Matches, DevicesWithIp
  <2>2. CASE IsOne(M)
    <3>1. (CHOOSE d \in M : TRUE) \in M
      BY <2>2 DEF IsOne
    <3> QED
      BY <2>1, <2>2, <3>1 DEF CorrelatedDevice
  <2>3. CASE ~IsOne(M)
    BY <2>3 DEF CorrelatedDevice
  <2> QED
    BY <2>2, <2>3
<1> QED
  BY <1>1, <1>2

(* A step of one thread keeps the invariant when what it leaves behind is  *)
(* well typed and refers to rows, and no row is deleted.                   *)
LEMMA ThreadStep ==
  ASSUME FinalizeInv, NEW h \in Host, NEW w \in Work,
         work' = [work EXCEPT ![h] = w],
         UNCHANGED opts,
         inventory' \in Inventory,
         Rows(inventory) \subseteq Rows(inventory'),
         w.device \in Rows(inventory') \cup {NoDevice},
         w.pc \in {"upgrade", "primary"} =>
           w.device \in Rows(inventory') /\ w.obj \in DeviceRow,
         opts.dryrun => w.pc \notin Creating,
         results' \subseteq ResultRow,
         \A r \in results' \ results : r.device \in Rows(inventory') \cup {NoDevice},
         \/ UNCHANGED ledger
         \/ \E row \in LedgerRow :
              /\ row.device \in Rows(inventory') \cup {NoDevice}
              /\ ledger' = [ledger EXCEPT ![h] = row]
  PROVE  FinalizeInv'
<1> USE DEF FinalizeInv
<1>1. FinalizeTypeOK'
  BY DEF FinalizeTypeOK
<1>2. ObjectInHand'
  BY DEF ObjectInHand, FinalizeTypeOK
<1>3. LinksExist'
  <2>1. \A r \in results' : r.device \in Rows(inventory') \cup {NoDevice}
    BY DEF LinksExist
  <2>2. \A i \in Host : work'[i].device \in Rows(inventory') \cup {NoDevice}
    BY DEF LinksExist, FinalizeTypeOK
  <2>3. \A i \in Host : ledger'[i] # NoRow => ledger'[i].device \in Rows(inventory') \cup {NoDevice}
    BY DEF LinksExist, FinalizeTypeOK
  <2> QED
    BY <2>1, <2>2, <2>3 DEF LinksExist
<1>4. DryRunReports'
  BY DEF DryRunReports, FinalizeTypeOK
<1> QED
  BY <1>1, <1>2, <1>3, <1>4
---------------------------------------------------------------------------
(* What a thread reads from the Device table while it correlates.          *)
LEMMA CorrelatedType ==
  ASSUME FinalizeInv, NEW h \in Host
  PROVE  \A ip : /\ Correlated(h, ip) \in CorrelationAnswers
                 /\ Match(h, ip) \in Rows(inventory) \cup {NoDevice}
BY CorrelationType DEF FinalizeInv, FinalizeTypeOK, Correlated, Match

(* The steps that only read, or that give up.                              *)
LEMMA StepKeeps ==
  ASSUME FinalizeInv, NEW h \in Host, Running(h),
         NEW pc \in Finalizing \ {"upgrade", "primary"}, NEW status \in ResultStatus,
         NEW device \in Rows(inventory) \cup {NoDevice},
         Step(h, pc, status, device),
         opts.dryrun => pc \notin Creating,
         UNCHANGED <<opts, inventory, ledger, results>>
  PROVE  FinalizeInv' /\ OnlyThread(h)
<1> DEFINE w == [work[h] EXCEPT !.pc = pc, !.status = status, !.device = device]
<1>1. w \in Work /\ work' = [work EXCEPT ![h] = w] /\ w.pc = pc /\ w.device = device
  BY DEF FinalizeInv, FinalizeTypeOK, Step, Work, Rows
<1>2. FinalizeInv'
  <2> HIDE DEF w
  <2> QED
    BY <1>1, ThreadStep DEF FinalizeInv, FinalizeTypeOK
<1>3. OnlyThread(h)
  BY <1>1 DEF OnlyThread, Running, Finalizing, FinalizeInv, FinalizeTypeOK, Work
<1> QED
  BY <1>2, <1>3

(* The four outcomes of the correlation.                                   *)
LEMMA CorrelateKeeps ==
  ASSUME FinalizeInv, NEW h \in Host,
         CorrelateDryRun(h) \/ CorrelateImported(h) \/ CorrelateNew(h) \/ CorrelateForReview(h)
  PROVE  FinalizeInv' /\ OnlyThread(h) /\ UNCHANGED inventory
<1>1. At(h, "correlate") /\ UNCHANGED <<opts, inventory, ledger, results>>
  BY DEF CorrelateDryRun, CorrelateImported, CorrelateNew, CorrelateForReview
<1>2. Running(h)
  BY <1>1 DEF At, Running, Finalizing
<1>3. PICK pc \in Finalizing \ {"upgrade", "primary"}, status \in ResultStatus,
           device \in Rows(inventory) \cup {NoDevice} :
        Step(h, pc, status, device) /\ (opts.dryrun => pc \notin Creating)
  BY CorrelatedType DEF CorrelateDryRun, CorrelateImported, CorrelateNew, CorrelateForReview,
     CorrelationAnswers, Finalizing, ResultStatus, Creating
<1> QED
  BY <1>1, <1>2, <1>3, StepKeeps

(* The lookup by name that ends create_device_in_nautobot or finds nothing,*)
(* and its exceptions.                                                     *)
LEMMA GiveUpKeeps ==
  ASSUME FinalizeInv, NEW h \in Host,
         LookupDisabled(h) \/ LookupNone(h) \/ CreateRaises(h)
  PROVE  FinalizeInv' /\ OnlyThread(h) /\ UNCHANGED inventory
<1>1. work[h].pc \in Creating /\ UNCHANGED <<opts, inventory, ledger, results>>
  BY DEF LookupDisabled, LookupNone, CreateRaises, At, Creating
<1>2. Running(h) /\ ~opts.dryrun
  BY <1>1 DEF Running, Finalizing, Creating, FinalizeInv, DryRunReports, FinalizeTypeOK, Options
<1>3. PICK pc \in Finalizing \ {"upgrade", "primary"}, status \in ResultStatus :
        Step(h, pc, status, NoDevice)
  BY DEF LookupDisabled, LookupNone, CreateRaises, Finalizing, ResultStatus
<1> QED
  BY <1>1, <1>2, <1>3, StepKeeps

(* A row that was found is taken in hand.                                  *)
LEMMA LookupKeeps ==
  ASSUME FinalizeInv, NEW h \in Host, LookupExisting(h)
  PROVE  FinalizeInv' /\ OnlyThread(h) /\ UNCHANGED inventory
<1> USE DEF FinalizeInv, FinalizeTypeOK
<1>1. PICK d \in Rows(inventory), obj \in DeviceRow, pc \in {"upgrade", "primary"} :
        work' = [work EXCEPT ![h].pc = pc, ![h].status = "existing",
                             ![h].device = d, ![h].obj = obj]
  <2>1. PICK d \in NamedExactly(inventory, work[h].name), save \in BOOLEAN :
          LET row   == inventory[d]
              blank == row.serial = NoSerial /\ work[h].serial # NoSerial
          IN  work' = [work EXCEPT
                ![h].pc = IF save THEN "upgrade" ELSE "primary",
                ![h].status = "existing",
                ![h].device = d,
                ![h].obj = IF blank THEN [row EXCEPT !.serial = work[h].serial] ELSE row]
    BY DEF LookupExisting
  <2>2. d \in Rows(inventory) /\ inventory[d] \in DeviceRow
    BY DEF NamedExactly, Rows, Inventory
  <2>3. [inventory[d] EXCEPT !.serial = work[h].serial] \in DeviceRow
    BY <2>2 DEF DeviceRow, Work
  <2> QED
    BY <2>1, <2>2, <2>3
<1>2. At(h, "lookup") /\ UNCHANGED <<opts, inventory, ledger, results>>
  BY DEF LookupExisting
<1>3. ~opts.dryrun
  BY <1>2 DEF At, DryRunReports, Creating, Options
<1> DEFINE w == [work[h] EXCEPT !.pc = pc, !.status = "existing", !.device = d, !.obj = obj]
<1>4. /\ w \in Work /\ work' = [work EXCEPT ![h] = w]
      /\ w.pc = pc /\ w.device = d /\ w.obj = obj /\ w.method = work[h].method
  BY <1>1 DEF Work, Rows, Finalizing, ResultStatus
<1>5. FinalizeInv'
  <2> HIDE DEF w
  <2> QED
    BY <1>1, <1>2, <1>3, <1>4, ThreadStep
<1>6. OnlyThread(h)
  <2> HIDE DEF w
  <2> QED
    BY <1>1, <1>2, <1>4 DEF OnlyThread, At, Running, Finalizing
<1> QED
  BY <1>2, <1>5, <1>6
---------------------------------------------------------------------------
(* The three writes to the Device table: a row is replaced or added.       *)
LEMMA WriteKeeps ==
  ASSUME FinalizeInv, NEW h \in Host,
         Upgrade(h) \/ Insert(h) \/ AssignPrimary(h)
  PROVE  FinalizeInv' /\ OnlyThread(h) /\ ~opts.dryrun
<1> USE DEF FinalizeInv, FinalizeTypeOK
<1>1. work[h].pc \in Creating /\ UNCHANGED <<opts, ledger, results>>
  BY DEF Upgrade, Insert, AssignPrimary, At, Creating
<1>2. ~opts.dryrun /\ Running(h)
  BY <1>1 DEF DryRunReports, Creating, Options, Running, Finalizing
<1>3. PICK key \in Device, row \in DeviceRow, pc \in {"primary", "upsert"}, obj \in DeviceRow :
        /\ \/ inventory' = [inventory EXCEPT ![key] = row]
           \/ (UNCHANGED inventory) /\ key \in Rows(inventory)
        /\ work' = [work EXCEPT ![h].pc = pc, ![h].device = key, ![h].obj = obj]
  <2>1. CASE Upgrade(h)
    <3> DEFINE d == work[h].device
               row == work[h].obj
    <3>1. d \in Rows(inventory) /\ row \in DeviceRow
      BY <2>1 DEF Upgrade, At, ObjectInHand
    <3>2. work' = [work EXCEPT ![h].pc = "primary", ![h].device = d, ![h].obj = row]
      BY <2>1 DEF Upgrade, Work
    <3>3. d \in Device /\ inventory' = [inventory EXCEPT ![d] = row]
      BY <2>1, <3>1 DEF Upgrade, Rows
    <3> HIDE DEF d, row
    <3> QED
      BY <3>1, <3>2, <3>3
  <2>2. CASE Insert(h)
    <3> DEFINE key == <<h, work[h].method>>
               row == [name |-> work[h].name, serial |-> work[h].serial, ip |-> NoIp]
    <3>1. key \in Device
      BY FinalizeAssumption DEF Work
    <3>2. row \in DeviceRow
      BY DEF Work, DeviceRow
    <3> QED
      BY <2>2, <3>1, <3>2 DEF Insert
  <2>3. CASE AssignPrimary(h)
    <3> DEFINE d == work[h].device
    <3>1. d \in Rows(inventory) /\ work[h].obj \in DeviceRow
      BY <2>3 DEF AssignPrimary, At, ObjectInHand
    <3>2. inventory[d] \in DeviceRow
      BY <3>1 DEF Rows, Inventory
    <3>3. \A ip \in AddressRows(h) : [inventory[d] EXCEPT !.ip = ip] \in DeviceRow
      BY <3>2, FinalizeAssumption DEF DeviceRow, AddressRows, IPAddress
    <3>4. work' = [work EXCEPT ![h].pc = "upsert", ![h].device = d, ![h].obj = work[h].obj]
      BY <2>3 DEF AssignPrimary, Work
    <3>5. CASE UNCHANGED inventory
      BY <3>1, <3>2, <3>4, <3>5 DEF Rows
    <3>6. CASE ~UNCHANGED inventory
      <4>1. PICK ip \in AddressRows(h) : inventory' = [inventory EXCEPT ![d].ip = ip]
        BY <2>3, <3>6 DEF AssignPrimary
      <4> DEFINE row == [inventory[d] EXCEPT !.ip = ip]
      <4>2. row \in DeviceRow /\ inventory' = [inventory EXCEPT ![d] = row]
        BY <3>3, <4>1
      <4> HIDE DEF row
      <4> QED
        BY <3>1, <3>4, <4>2 DEF Rows
    <3> QED
      BY <3>5, <3>6
  <2> QED
    BY <2>1, <2>2, <2>3
<1>4. inventory' \in Inventory /\ Rows(inventory) \subseteq Rows(inventory') /\ key \in Rows(inventory')
  BY <1>3, NoDeviceIsNoRow DEF Inventory, Rows
<1> DEFINE w == [work[h] EXCEPT !.pc = pc, !.device = key, !.obj = obj]
<1>5. /\ w \in Work /\ work' = [work EXCEPT ![h] = w]
      /\ w.pc = pc /\ w.device = key /\ w.obj = obj /\ w.method = work[h].method
  BY <1>3 DEF Work, Finalizing
<1> HIDE DEF w
<1>6. FinalizeInv'
  BY <1>1, <1>2, <1>3, <1>4, <1>5, ThreadStep
<1>7. OnlyThread(h)
  BY <1>1, <1>2, <1>3, <1>5 DEF OnlyThread, Running, Finalizing
<1> QED
  BY <1>2, <1>6, <1>7

(* A device without a primary IP is kept as it is.                         *)
LEMMA PrimaryFailsKeeps ==
  ASSUME FinalizeInv, NEW h \in Host, PrimaryFails(h)
  PROVE  FinalizeInv' /\ OnlyThread(h) /\ UNCHANGED inventory
<1> USE DEF FinalizeInv, FinalizeTypeOK
<1>1. At(h, "primary") /\ UNCHANGED <<opts, inventory, ledger, results>>
  BY DEF PrimaryFails
<1>2. Running(h) /\ Step(h, "upsert", work[h].status, work[h].device)
  BY <1>1 DEF PrimaryFails, At, Running, Finalizing, Step, Work
<1>3. work[h].status \in ResultStatus /\ work[h].device \in Rows(inventory) \cup {NoDevice}
  BY DEF Work, LinksExist
<1>4. "upsert" \in Finalizing \ {"upgrade", "primary"} /\ "upsert" \notin Creating
  BY DEF Finalizing, Creating
<1> QED
  BY <1>1, <1>2, <1>3, <1>4, StepKeeps

(* The row an address gets is a row that links to what its thread links to.*)
LEMMA UpsertedType ==
  ASSUME FinalizeInv, NEW h \in Host
  PROVE  /\ Upserted(ledger[h], work[h]) \in LedgerRow
         /\ Upserted(ledger[h], work[h]).device = work[h].device
         /\ work[h].device \in Rows(inventory) \cup {NoDevice}
<1> USE DEF FinalizeInv, FinalizeTypeOK
<1>1. CorrelationStatusFor(work[h].status) \in LedgerStatus
  BY DEF CorrelationStatusFor, LedgerStatus, Work, ResultStatus
<1>2. (IF ledger[h] = NoRow THEN NoGroup ELSE ledger[h].group) \in Group \cup {NoGroup}
  BY DEF LedgerRow
<1>3. work[h].device \in Rows(inventory) \cup {NoDevice}
  BY DEF LinksExist
<1>4. ledger[h] # NoRow => ledger[h].snmp \in BOOLEAN /\ ledger[h].ssh \in BOOLEAN
  BY DEF LedgerRow
<1> QED
  BY <1>1, <1>2, <1>3, <1>4 DEF Upserted, LedgerRow, Work

(* The row of the address.                                                 *)
LEMMA UpsertKeeps ==
  ASSUME FinalizeInv, NEW h \in Host, Upsert(h)
  PROVE  FinalizeInv' /\ OnlyThread(h) /\ UNCHANGED inventory
<1> USE DEF FinalizeInv, FinalizeTypeOK
<1>1. At(h, "upsert") /\ UNCHANGED <<opts, inventory, results>>
  BY DEF Upsert
<1> DEFINE row == Upserted(ledger[h], work[h])
           w == [work[h] EXCEPT !.pc = "result"]
<1>2. row \in LedgerRow /\ row.device \in Rows(inventory) \cup {NoDevice}
  BY UpsertedType
<1>3. ledger' = [ledger EXCEPT ![h] = row]
  BY DEF Upsert
<1>4. /\ w \in Work /\ work' = [work EXCEPT ![h] = w]
      /\ w.pc = "result" /\ w.device = work[h].device /\ w.method = work[h].method
  BY DEF Upsert, Work, Finalizing
<1> HIDE DEF w, row
<1>5. FinalizeInv'
  BY <1>1, <1>2, <1>3, <1>4, ThreadStep DEF LinksExist, Creating
<1>6. OnlyThread(h)
  BY <1>1, <1>4 DEF OnlyThread, At, Running, Finalizing
<1> QED
  BY <1>1, <1>5, <1>6
---------------------------------------------------------------------------
(* Every step of a thread within finalize_discovery keeps the invariant,   *)
(* is that thread's alone, and writes no Device in a dry run.              *)
THEOREM FinalizeStepKeeps ==
  ASSUME FinalizeInv, NEW h \in Host, FinalizeStep(h)
  PROVE  FinalizeInv' /\ OnlyThread(h) /\ (opts.dryrun => UNCHANGED inventory)
<1>1. CASE CorrelateDryRun(h) \/ CorrelateImported(h) \/ CorrelateNew(h) \/ CorrelateForReview(h)
  BY <1>1, CorrelateKeeps
<1>2. CASE LookupDisabled(h) \/ LookupNone(h) \/ CreateRaises(h)
  BY <1>2, GiveUpKeeps
<1>3. CASE LookupExisting(h)
  BY <1>3, LookupKeeps
<1>4. CASE Upgrade(h) \/ Insert(h) \/ AssignPrimary(h)
  BY <1>4, WriteKeeps
<1>5. CASE PrimaryFails(h)
  BY <1>5, PrimaryFailsKeeps
<1>6. CASE Upsert(h)
  BY <1>6, UpsertKeeps
<1> QED
  BY <1>1, <1>2, <1>3, <1>4, <1>5, <1>6 DEF FinalizeStep

(* The thread of h leaves, with or without a result.                       *)
LEMMA LeaveKeeps ==
  ASSUME FinalizeInv, NEW h \in Host, Leave(h), UNCHANGED <<opts, inventory>>,
         \/ UNCHANGED ledger
         \/ \E row \in LedgerRow :
              /\ row.device \in Rows(inventory) \cup {NoDevice}
              /\ ledger' = [ledger EXCEPT ![h] = row],
         \/ UNCHANGED results
         \/ results' = results \cup {[host |-> h, method |-> work[h].method,
                                      status |-> work[h].status, device |-> work[h].device]}
  PROVE  FinalizeInv' /\ work'[h].pc = "done" /\ \A i \in Host \ {h} : work'[i] = work[i]
<1> USE DEF FinalizeInv, FinalizeTypeOK
<1> DEFINE w == [work[h] EXCEPT !.pc = "done"]
<1>1. /\ w \in Work /\ work' = [work EXCEPT ![h] = w]
      /\ w.pc = "done" /\ w.device = work[h].device
  BY DEF Leave, Work
<1>2. results' \subseteq ResultRow /\ \A r \in results' \ results : r.device = work[h].device
  BY DEF ResultRow, Work
<1> HIDE DEF w
<1>3. FinalizeInv'
  BY <1>1, <1>2, ThreadStep DEF LinksExist, Creating
<1> QED
  BY <1>1, <1>3

(* A thread that collected an identity enters finalize_discovery.          *)
LEMMA EnterKeeps ==
  ASSUME FinalizeInv, NEW h \in Host, NEW method \in Method, NEW id \in Identity,
         Enter(h, method, id), UNCHANGED <<opts, inventory, results>>,
         \/ UNCHANGED ledger
         \/ \E row \in LedgerRow :
              /\ row.device \in Rows(inventory) \cup {NoDevice}
              /\ ledger' = [ledger EXCEPT ![h] = row]
  PROVE  /\ FinalizeInv' /\ Running(h)' /\ work'[h].method = method
         /\ \A i \in Host \ {h} : work'[i] = work[i]
<1> USE DEF FinalizeInv, FinalizeTypeOK
<1> DEFINE w == [work[h] EXCEPT !.pc = "correlate", !.method = method,
                                !.name = Strip[id.name], !.serial = id.serial,
                                !.status = "new", !.device = NoDevice, !.obj = NoDevice]
<1>1. Strip[id.name] \in Name /\ id.serial \in Serial \cup {NoSerial}
  BY FinalizeAssumption DEF Identity
<1>2. /\ w \in Work /\ work' = [work EXCEPT ![h] = w]
      /\ w.pc = "correlate" /\ w.device = NoDevice /\ w.method = method
  BY <1>1 DEF Enter, Work, Finalizing, ResultStatus
<1> HIDE DEF w
<1>3. FinalizeInv'
  BY <1>2, ThreadStep DEF Creating
<1> QED
  BY <1>2, <1>3 DEF Running, Finalizing
---------------------------------------------------------------------------
(* A step of the job outside finalize_discovery.                           *)
LEMMA FinalizeUnchanged ==
  ASSUME FinalizeInv, UNCHANGED finalizeVars
  PROVE  FinalizeInv'
BY DEF finalizeVars, FinalizeInv, FinalizeTypeOK, ObjectInHand, LinksExist, DryRunReports, Rows

(* A job that starts: its threads are idle, and the ledger links to rows.  *)
LEMMA FinalizeInit ==
  ASSUME Name # {}, opts \in Options, inventory \in Inventory,
         ledger \in [Host -> LedgerRow \cup {NoRow}],
         \A h \in Host : ledger[h] # NoRow => ledger[h].device \in Rows(inventory) \cup {NoDevice},
         results = {}, work = [h \in Host |-> Idle]
  PROVE  FinalizeInv /\ \A h \in Host : At(h, "idle") /\ ~Running(h)
<1>1. Idle \in Work /\ Idle.pc = "idle" /\ Idle.device = NoDevice
  BY DEF Idle, Work, Method, ResultStatus
<1> HIDE DEF Idle
<1>2. FinalizeTypeOK
  BY <1>1 DEF FinalizeTypeOK
<1>3. ObjectInHand /\ LinksExist /\ DryRunReports
  BY <1>1 DEF ObjectInHand, LinksExist, DryRunReports, Creating
<1>4. \A h \in Host : At(h, "idle") /\ ~Running(h)
  BY <1>1 DEF At, Running, Finalizing
<1> QED
  BY <1>2, <1>3, <1>4 DEF FinalizeInv
---------------------------------------------------------------------------
(* The addresses with a result.                                            *)
Recorded == {r.host : r \in results}

(* The ledger's row of h links to the device that was created for it.      *)
RowLinks(h, m) == ledger[h] # NoRow /\ ledger[h].device = <<h, m>>

(* Without database failures a device that was created for h is in the     *)
(* hands of its thread until the row of h links to it; after that no       *)
(* thread works on h.  A thread that is yet to create has created nothing. *)
CreatedIsKept ==
  /\ \A h \in Host : At(h, "insert") => work[h].status = "new"
  /\ ~Faults => \A h \in Host, m \in Method : inventory[<<h, m>>] # NoDevice =>
       \/ /\ work[h].pc \in {"primary", "upsert", "result"}
          /\ work[h].device = <<h, m>> /\ work[h].status = "new"
          /\ At(h, "result") => RowLinks(h, m)
       \/ ~Running(h) /\ h \in Recorded /\ RowLinks(h, m)

RowBeforeResult == \A h \in Host : At(h, "result") => ledger[h] # NoRow

(* No step of a thread deletes a row of the ledger, touches the row of     *)
(* another address, or creates a device in another thread's name.          *)
LEMMA OwnRecordsOnly ==
  ASSUME FinalizeInv, NEW h \in Host, FinalizeStep(h)
  PROVE  /\ \A i \in Host \ {h} : ledger'[i] = ledger[i]
         /\ \A i \in Host : ledger[i] # NoRow => ledger'[i] # NoRow
         /\ \A i \in Host \ {h}, m \in Method :
              inventory'[<<i, m>>] # NoDevice => inventory[<<i, m>>] # NoDevice
<1> USE DEF FinalizeInv, FinalizeTypeOK
<1>1. CASE UNCHANGED <<inventory, ledger>>
  BY <1>1
<1>2. CASE Upsert(h)
  <2> DEFINE row == Upserted(ledger[h], work[h])
  <2>1. row # NoRow
    BY UpsertedType, NoRowIsNoRow
  <2> HIDE DEF row
  <2>2. ledger' = [ledger EXCEPT ![h] = row] /\ UNCHANGED inventory
    BY <1>2 DEF Upsert, row
  <2> QED
    BY <2>1, <2>2
<1>3. CASE Upgrade(h) \/ AssignPrimary(h)
  <2>1. work[h].device \in Rows(inventory) /\ UNCHANGED ledger
    BY <1>3 DEF Upgrade, AssignPrimary, At, ObjectInHand
  <2>2. \A d \in Device \ {work[h].device} : inventory'[d] = inventory[d]
    BY <1>3 DEF Upgrade, AssignPrimary, Inventory
  <2>3. \A i \in Host, m \in Method : <<i, m>> \in Device
    BY FinalizeAssumption
  <2> QED
    BY <2>1, <2>2, <2>3 DEF Rows
<1>4. CASE Insert(h)
  <2> DEFINE key == <<h, work[h].method>>
  <2>1. \A i \in Host, m \in Method : <<i, m>> \in Device /\ (i # h => <<i, m>> # key)
    BY FinalizeAssumption
  <2>2. \A d \in Device \ {key} : inventory'[d] = inventory[d]
    BY <1>4 DEF Insert, Inventory
  <2> QED
    BY <1>4, <2>1, <2>2 DEF Insert
<1> QED
  BY <1>1, <1>2, <1>3, <1>4 DEF FinalizeStep, CorrelateDryRun, CorrelateImported, CorrelateNew,
     CorrelateForReview, LookupDisabled, LookupNone, LookupExisting, PrimaryFails, CreateRaises

(* Which step takes a thread to its insert, and which to its result.       *)
LEMMA StepTargets ==
  ASSUME FinalizeTypeOK, NEW h \in Host, FinalizeStep(h)
  PROVE  /\ At(h, "insert")' => work'[h].status = "new"
         /\ At(h, "result")' => Upsert(h)
<1> USE DEF FinalizeTypeOK
<1>1. ASSUME NEW pc, NEW status, NEW device, Step(h, pc, status, device)
      PROVE  work'[h].pc = pc /\ work'[h].status = status
  BY <1>1 DEF Step, Work
<1>2. CASE CorrelateDryRun(h) \/ CorrelateImported(h) \/ CorrelateNew(h) \/ CorrelateForReview(h)
  <2>1. work'[h].pc \in {"upsert", "lookup"}
    BY <1>1, <1>2 DEF CorrelateDryRun, CorrelateImported, CorrelateNew, CorrelateForReview
  <2> QED
    BY <2>1 DEF At
<1>3. CASE LookupDisabled(h) \/ CreateRaises(h)
  <2>1. work'[h].pc = "upsert"
    BY <1>1, <1>3 DEF LookupDisabled, CreateRaises
  <2> QED
    BY <2>1 DEF At
<1>4. CASE LookupNone(h)
  BY <1>1, <1>4 DEF LookupNone, At
<1>5. CASE LookupExisting(h)
  <2>1. work'[h].pc \in {"upgrade", "primary"}
    BY <1>5 DEF LookupExisting, Work
  <2> QED
    BY <2>1 DEF At
<1>6. CASE Upgrade(h) \/ Insert(h)
  <2>1. work'[h].pc = "primary"
    BY <1>6 DEF Upgrade, Insert, Work
  <2> QED
    BY <2>1 DEF At
<1>7. CASE AssignPrimary(h) \/ PrimaryFails(h)
  <2>1. work'[h].pc = "upsert"
    BY <1>7 DEF AssignPrimary, PrimaryFails, Work
  <2> QED
    BY <2>1 DEF At
<1>8. CASE Upsert(h)
  BY <1>8 DEF Upsert, At, Work
<1> QED
  BY <1>2, <1>3, <1>4, <1>5, <1>6, <1>7, <1>8 DEF FinalizeStep

LEMMA CreatedIsKeptByStep ==
  ASSUME FinalizeInv, CreatedIsKept, NEW h \in Host, FinalizeStep(h)
  PROVE  CreatedIsKept'
<1> USE DEF FinalizeInv, FinalizeTypeOK
<1>a. /\ \A i \in Host \ {h} : ledger'[i] = ledger[i] /\ work'[i] = work[i]
      /\ \A i \in Host \ {h}, m \in Method :
           inventory'[<<i, m>>] # NoDevice => inventory[<<i, m>>] # NoDevice
      /\ Running(h) /\ Running(h)' /\ Recorded' = Recorded
  BY OwnRecordsOnly, FinalizeStepKeeps DEF OnlyThread, Recorded
<1>b. h \in Host /\ (\A m \in Method : <<h, m>> \in Device)
  BY FinalizeAssumption
<1>1. ASSUME NEW i \in Host, At(i, "insert")'
      PROVE  work'[i].status = "new"
  <2>1. CASE i # h
    BY <1>1, <1>a, <2>1 DEF CreatedIsKept, At
  <2>2. CASE i = h
    BY <1>1, <2>2, StepTargets
  <2> QED
    BY <2>1, <2>2
<1>2. ASSUME ~Faults, NEW m \in Method, inventory'[<<h, m>>] # NoDevice
      PROVE  /\ work'[h].pc \in {"primary", "upsert", "result"}
             /\ work'[h].device = <<h, m>> /\ work'[h].status = "new"
             /\ At(h, "result")' => RowLinks(h, m)'
  <2>a. inventory[<<h, m>>] # NoDevice =>
          /\ work[h].pc \in {"primary", "upsert", "result"}
          /\ work[h].device = <<h, m>> /\ work[h].status = "new"
    BY <1>2, <1>a DEF CreatedIsKept
  <2>1. CASE work[h].pc \in {"correlate", "lookup"}
    <3>1. UNCHANGED inventory
      BY <2>1 DEF FinalizeStep, CorrelateDryRun, CorrelateImported, CorrelateNew,
       CorrelateForReview, LookupDisabled, LookupNone, LookupExisting, PrimaryFails, CreateRaises,
       Upgrade, Insert, AssignPrimary, Upsert, At
    <3> QED
      BY <1>2, <2>1, <2>a, <3>1
  <2>2. CASE Upgrade(h)
    <3>1. work[h].device \in Rows(inventory) /\ At(h, "upgrade")
      BY <2>2 DEF Upgrade, At, ObjectInHand
    <3>2. inventory[<<h, m>>] = NoDevice
      BY <2>a, <3>1 DEF At
    <3> QED
      BY <1>2, <1>b, <2>2, <3>1, <3>2 DEF Upgrade, Rows, Inventory
  <2>3. CASE Insert(h)
    <3>1. work[h].status = "new" /\ At(h, "insert")
      BY <2>3 DEF Insert, CreatedIsKept
    <3>2. inventory[<<h, m>>] = NoDevice
      BY <2>a, <3>1 DEF At
    <3>3. m = work[h].method
      BY <1>2, <1>b, <2>3, <3>2 DEF Insert, Inventory
    <3> QED
      BY <2>3, <3>1, <3>3 DEF Insert, At
  <2>4. CASE AssignPrimary(h)
    <3>1. work[h].device \in Rows(inventory)
      BY <2>4 DEF AssignPrimary, At, ObjectInHand
    <3>2. inventory[<<h, m>>] # NoDevice
      BY <1>2, <1>b, <2>4, <3>1 DEF AssignPrimary, Rows, Inventory
    <3> QED
      BY <2>4, <2>a, <3>2 DEF AssignPrimary, At
  <2>5. CASE Upsert(h)
    <3>1. inventory[<<h, m>>] # NoDevice
      BY <1>2, <2>5 DEF Upsert
    <3> DEFINE row == Upserted(ledger[h], work[h])
    <3>2. row # NoRow /\ row.device = work[h].device
      BY UpsertedType, NoRowIsNoRow
    <3> HIDE DEF row
    <3>3. ledger' = [ledger EXCEPT ![h] = row]
      BY <2>5 DEF Upsert, row
    <3>4. work'[h].pc = "result" /\ work'[h].device = work[h].device
          /\ work'[h].status = work[h].status
      BY <2>5 DEF Upsert
    <3> QED
      BY <2>a, <3>1, <3>2, <3>3, <3>4 DEF RowLinks
  <2> QED
    BY <1>2, <2>1, <2>2, <2>3, <2>4, <2>5 DEF FinalizeStep, CorrelateDryRun, CorrelateImported,
       CorrelateNew, CorrelateForReview, LookupDisabled, LookupNone, LookupExisting,
       PrimaryFails, CreateRaises, At
<1>3. ASSUME ~Faults, NEW i \in Host \ {h}, NEW m \in Method, inventory'[<<i, m>>] # NoDevice
      PROVE  \/ /\ work'[i].pc \in {"primary", "upsert", "result"}
                /\ work'[i].device = <<i, m>> /\ work'[i].status = "new"
                /\ At(i, "result")' => RowLinks(i, m)'
             \/ ~Running(i)' /\ i \in Recorded' /\ RowLinks(i, m)'
  BY <1>3, <1>a DEF CreatedIsKept, RowLinks, Running, At
<1> QED
  BY <1>1, <1>2, <1>3 DEF CreatedIsKept

LEMMA RowBeforeResultByStep ==
  ASSUME FinalizeInv, RowBeforeResult, NEW h \in Host, FinalizeStep(h)
  PROVE  RowBeforeResult'
<1> USE DEF FinalizeInv, FinalizeTypeOK
<1>1. \A i \in Host \ {h} : ledger'[i] = ledger[i] /\ work'[i] = work[i]
  BY OwnRecordsOnly, FinalizeStepKeeps DEF OnlyThread
<1>2. ASSUME At(h, "result")'
      PROVE  ledger'[h] # NoRow
  <2>1. Upsert(h)
    BY <1>2, StepTargets
  <2> DEFINE row == Upserted(ledger[h], work[h])
  <2>2. row # NoRow
    BY UpsertedType, NoRowIsNoRow
  <2> HIDE DEF row
  <2>3. ledger' = [ledger EXCEPT ![h] = row]
    BY <2>1 DEF Upsert, row
  <2> QED
    BY <2>2, <2>3
<1> QED
  BY <1>1, <1>2 DEF RowBeforeResult, At

(* A thread that starts on an address without a result, and one that ends. *)
LEMMA CreatedIsKeptByEnter ==
  ASSUME CreatedIsKept, NEW h \in Host, ~Running(h), h \notin Recorded,
         work'[h].pc = "correlate", \A i \in Host \ {h} : work'[i] = work[i],
         UNCHANGED <<inventory, results>>, \A i \in Host \ {h} : ledger'[i] = ledger[i]
  PROVE  CreatedIsKept'
<1>1. ~Faults => \A m \in Method : inventory[<<h, m>>] = NoDevice
  BY DEF CreatedIsKept, Running, Finalizing
<1>2. Recorded' = Recorded
  BY DEF Recorded
<1> QED
  BY <1>1, <1>2 DEF CreatedIsKept, RowLinks, Running, At

LEMMA CreatedIsKeptByLeave ==
  ASSUME FinalizeTypeOK, CreatedIsKept, NEW h \in Host, Leave(h), UNCHANGED <<inventory, ledger>>,
         \/ RecordResult(h)
         \/ FinalizeRaises(h) /\ UNCHANGED results
         \/ ~Running(h) /\ UNCHANGED results
         \/ Faults /\ UNCHANGED results
  PROVE  CreatedIsKept'
<1>1. work'[h].pc = "done" /\ \A i \in Host \ {h} : work'[i] = work[i]
  BY DEF Leave, FinalizeTypeOK, Work
<1>2. Recorded \subseteq Recorded' /\ (RecordResult(h) => h \in Recorded' /\ At(h, "result"))
  <2>1. RecordResult(h) => h \in Recorded'
    <3> DEFINE r == [host |-> h, method |-> work[h].method, status |-> work[h].status,
                     device |-> work[h].device]
    <3>1. r.host = h
      OBVIOUS
    <3>2. RecordResult(h) => r \in results'
      BY DEF RecordResult
    <3> HIDE DEF r
    <3> QED
      BY <3>1, <3>2 DEF Recorded
  <2> QED
    BY <2>1 DEF Recorded, RecordResult
<1>3. ASSUME ~Faults, NEW m \in Method, inventory[<<h, m>>] # NoDevice
      PROVE  h \in Recorded' /\ RowLinks(h, m)
  <2>1. CASE RecordResult(h)
    BY <1>2, <1>3, <2>1 DEF CreatedIsKept
  <2>2. CASE FinalizeRaises(h)
    <3>1. At(h, "result") /\ work[h].status = "partially_imported"
      BY <1>3, <2>2 DEF FinalizeRaises, Overflows
    <3> QED
      BY <1>3, <3>1 DEF CreatedIsKept, Running, Finalizing, At
  <2>3. CASE ~Running(h)
    BY <1>2, <1>3, <2>3 DEF CreatedIsKept, Running, Finalizing
  <2> QED
    BY <1>3, <2>1, <2>2, <2>3
<1> QED
  BY <1>1, <1>2, <1>3 DEF CreatedIsKept, RowLinks, Running, At, Finalizing

(* No step of the job touches what finalize_discovery keeps.               *)
LEMMA CreatedIsKeptUnchanged ==
  ASSUME CreatedIsKept, RowBeforeResult, UNCHANGED finalizeVars
  PROVE  CreatedIsKept' /\ RowBeforeResult'
BY DEF CreatedIsKept, RowBeforeResult, RowLinks, Running, At, Recorded, finalizeVars
=============================================================================
