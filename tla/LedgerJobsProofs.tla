--------------------------- MODULE LedgerJobsProofs ---------------------------
(***************************************************************************)
(* The sync and the onboarding of the ledger's rows, for every set of      *)
(* addresses, every pool, every list of credentials and whatever the       *)
(* network answers, while the operator deletes rows and enters devices.    *)
(***************************************************************************)
EXTENDS LedgerJobs, FinalizeProofs, FiniteSetTheorems, WellFoundedInduction

(* The sync job asks finalize_discovery to create nothing, so none of its  *)
(* threads gets as far as create_device_in_nautobot.                       *)
NoCreation == ~opts.create /\ \A h \in Host : work[h].pc \notin Creating

(* A thread that is about to remember a login has one.                     *)
LoginIsKnown == \A h \in Host : at[h] = "remember" => login[h] \in Credential

(* The onboarding: a row that is still to come, or whose transaction is    *)
(* open, was read and has no device of this job yet; a device that the     *)
(* transaction found is still there.                                       *)
OnboardState ==
  /\ onboardStage = "start" =>
       /\ queue = {} /\ current = NoHost
       /\ onboarded = [new |-> 0, existing |-> 0, failed |-> 0]
       /\ \A h \in Host : inventory[NewKey(h)] = NoDevice
  /\ \A h \in queue : devices[h] # NoRow /\ inventory[NewKey(h)] = NoDevice
  /\ current # NoHost =>
       /\ onboardStage = "loop" /\ ~onboard.dryrun
       /\ current \notin queue /\ devices[current] # NoRow
       /\ inventory[NewKey(current)] = NoDevice
  /\ existing # NoDevice =>
       current # NoHost /\ existing \in Rows(inventory) /\ object \in DeviceRow

LedgerInv ==
  /\ FinalizeInv /\ NoCreation
  /\ SyncTypeOK /\ LoginIsKnown
  /\ OnboardTypeOK /\ OnboardState
---------------------------------------------------------------------------
(* What is written past finalize_discovery keeps its invariant when it     *)
(* deletes no device and links to devices that are there.                  *)
LEMMA LedgerEdit ==
  ASSUME FinalizeInv, UNCHANGED <<opts, results, work>>,
         inventory' \in Inventory, Rows(inventory) \subseteq Rows(inventory'),
         ledger' \in [Host -> LedgerRow \cup {NoRow}],
         \A h \in Host : ledger'[h] # NoRow =>
           ledger'[h].device \in Rows(inventory') \cup {NoDevice}
  PROVE  FinalizeInv'
BY DEF FinalizeInv, FinalizeTypeOK, ObjectInHand, LinksExist, DryRunReports

(* A row of the ledger is changed, but not what it links to.               *)
LEMMA RowEdit ==
  ASSUME FinalizeInv, NEW h \in Host, NEW row \in LedgerRow, ledger[h] # NoRow,
         row.device = ledger[h].device, ledger' = [ledger EXCEPT ![h] = row],
         UNCHANGED <<opts, inventory, results, work>>
  PROVE  FinalizeInv'
<1>1. ledger' \in [Host -> LedgerRow \cup {NoRow}] /\ inventory' \in Inventory
  BY DEF FinalizeInv, FinalizeTypeOK
<1>2. \A i \in Host : ledger'[i] # NoRow => ledger'[i].device \in Rows(inventory) \cup {NoDevice}
  BY DEF FinalizeInv, FinalizeTypeOK, LinksExist
<1> QED
  BY <1>1, <1>2, LedgerEdit

(* Without creation a step of finalize_discovery reads, or writes the row. *)
LEMMA StepWithoutCreation ==
  ASSUME FinalizeInv, NoCreation, NEW h \in Host, FinalizeStep(h)
  PROVE  FinalizeInv' /\ NoCreation' /\ UNCHANGED inventory /\ (Upsert(h) \/ UNCHANGED ledger)
<1>1. FinalizeInv' /\ OnlyThread(h)
  BY FinalizeStepKeeps
<1>2. \/ CorrelateDryRun(h) \/ CorrelateImported(h) \/ CorrelateNew(h) \/ CorrelateForReview(h)
      \/ Upsert(h)
  BY DEF FinalizeStep, NoCreation, Creating, LookupDisabled, LookupNone, LookupExisting, Upgrade,
     Insert, AssignPrimary, PrimaryFails, CreateRaises, At
<1>3. UNCHANGED inventory /\ (Upsert(h) \/ UNCHANGED ledger)
  BY <1>2 DEF CorrelateDryRun, CorrelateImported, CorrelateNew, CorrelateForReview, Upsert
<1>4. work'[h].pc \in {"upsert", "result"}
  <2>1. CASE Upsert(h)
    BY <2>1 DEF Upsert, FinalizeInv, FinalizeTypeOK, Work
  <2>2. CASE ~Upsert(h)
    <3>1. PICK status, device : Step(h, "upsert", status, device)
      BY <1>2, <2>2 DEF CorrelateDryRun, CorrelateImported, CorrelateNew, CorrelateForReview,
         NoCreation
    <3> QED
      BY <3>1 DEF Step, FinalizeInv, FinalizeTypeOK, Work
  <2> QED
    BY <2>1, <2>2
<1>5. NoCreation'
  BY <1>1, <1>4 DEF OnlyThread, NoCreation, Creating
<1> QED
  BY <1>1, <1>3, <1>5
---------------------------------------------------------------------------
(* A set of naturals has a smallest one: of the intervals from 0 to its    *)
(* members one is minimal for inclusion.                                   *)
LEMMA SmallestMember ==
  ASSUME NEW S \in SUBSET Nat, S # {}
  PROVE  \E m \in S : \A n \in S : m <= n
<1>. DEFINE upTo == {0..n : n \in S}
<1>1. \A n \in S : 0..n \in FiniteSubsetsOf(Nat)
  <2>1. \A n \in Nat : IsFiniteSet(0..n) /\ 0..n \subseteq Nat
    BY FS_Interval
  <2>. QED BY <2>1 DEF FiniteSubsetsOf
<1>2. upTo \subseteq FiniteSubsetsOf(Nat) /\ upTo # {}
  BY <1>1
<1>3. PICK I \in upTo : \A J \in upTo : <<J, I>> \notin StrictSubsetOrdering(Nat)
  <2>. HIDE DEF upTo
  <2>. QED BY <1>2, FS_StrictSubsetOrderingWellFounded, WFMin
<1>4. PICK m \in S : I = 0..m
  BY <1>3
<1>5. ASSUME NEW n \in S PROVE m <= n
  <2>1. SUFFICES ASSUME n < m PROVE FALSE
    OBVIOUS
  <2>2. /\ 0..n \in SUBSET Nat /\ 0..m \in SUBSET Nat
        /\ 0..n \subseteq 0..m
        /\ m \in 0..m /\ m \notin 0..n
    BY <2>1
  <2>3. <<0..n, 0..m>> \in StrictSubsetOrdering(Nat)
    BY <2>2 DEF StrictSubsetOrdering
  <2>. QED BY <1>3, <1>4, <2>3
<1>. QED BY <1>5

(* The login that is found is one of those that are accepted.              *)
LEMMA FirstAcceptedType ==
  ASSUME NEW h \in Host, NEW accepts \in SUBSET Credential
  PROVE  FirstAccepted(Ordered(h), accepts) \in accepts \cup {NoLogin}
<1> DEFINE tried == Ordered(h)
           hits == {i \in DOMAIN tried : tried[i] \in accepts}
<1>1. DOMAIN tried \subseteq Nat
  BY DEF Ordered
<1> HIDE DEF tried
<1>2. ASSUME hits # {}
      PROVE  (CHOOSE i \in hits : \A j \in hits : i <= j) \in hits
  <2>1. hits \in SUBSET Nat
    BY <1>1
  <2> HIDE DEF hits
  <2>2. \E i \in hits : \A j \in hits : i <= j
    BY <1>2, <2>1, SmallestMember
  <2> QED
    BY <2>2
<1>3. FirstAccepted(tried, accepts) \in accepts \cup {NoLogin}
  BY <1>2 DEF FirstAccepted
<1> QED
  BY <1>3 DEF tried
---------------------------------------------------------------------------
(* What a thread of the sync pool does to the rows and to the records of   *)
(* finalize_discovery: it works on its own address, deletes no row, keeps  *)
(* what the row links to unless it finalizes, and makes no device.         *)
OwnAddress(h) ==
  /\ \A i \in Host \ {h} : ledger'[i] = ledger[i] /\ work'[i] = work[i]
  /\ ledger[h] # NoRow => ledger'[h] # NoRow
  /\ \A r \in results' \ results : r.host = h
  /\ results \subseteq results'
  /\ UNCHANGED <<opts, inventory>>

LEMMA SyncEditKeeps ==
  ASSUME LedgerInv, NEW h \in Host, SyncMark(h) \/ SyncClear(h) \/ SyncRemember(h)
  PROVE  FinalizeInv' /\ NoCreation' /\ OwnAddress(h)
<1> USE DEF LedgerInv
<1>1. UNCHANGED <<opts, inventory, results, work>>
  BY DEF SyncMark, SyncClear, SyncRemember
<1>2. CASE UNCHANGED ledger
  <2>1. UNCHANGED finalizeVars
    BY <1>1, <1>2 DEF finalizeVars
  <2> QED
    BY <1>1, <1>2, <2>1, FinalizeUnchanged DEF NoCreation, OwnAddress
<1>3. CASE ~UNCHANGED ledger
  <2>1. PICK row : /\ ledger[h] # NoRow /\ ledger' = [ledger EXCEPT ![h] = row]
                   /\ \/ row = [ledger[h] EXCEPT !.snmp = FALSE]
                      \/ row = [ledger[h] EXCEPT !.ssh = FALSE, !.group = NoGroup]
                      \/ row = [ledger[h] EXCEPT !.group = login[h]] /\ login[h] # NoGroup
                         /\ SyncRemember(h)
    BY <1>3 DEF SyncMark, SyncClear, SyncRemember, HasRow, Keeps
  <2>2. ledger[h] \in LedgerRow
    BY <2>1 DEF FinalizeInv, FinalizeTypeOK
  <2>3. SyncRemember(h) => login[h] \in Credential
    BY DEF SyncRemember, LoginIsKnown
  <2>4. row \in LedgerRow /\ row.device = ledger[h].device
    BY <2>1, <2>2, <2>3 DEF LedgerRow, Credential
  <2> QED
    BY <1>1, <2>1, <2>4, RowEdit, NoRowIsNoRow
       DEF NoCreation, OwnAddress, FinalizeInv, FinalizeTypeOK
<1> QED
  BY <1>2, <1>3

LEMMA SyncEnterKeeps ==
  ASSUME LedgerInv, NEW h \in Host, SyncSnmp(h) \/ SyncSsh(h)
  PROVE  FinalizeInv' /\ NoCreation' /\ OwnAddress(h)
<1> USE DEF LedgerInv
<1>1. PICK method \in Method, id \in Identity : Enter(h, method, id)
  <2>1. CASE SyncSnmp(h)
    BY <2>1, SyncAssumption DEF SyncSnmp, Method
  <2>2. CASE SyncSsh(h)
    <3>1. PICK answer \in SshSees[h] : Enter(h, "ssh", answer.id)
      BY <2>2 DEF SyncSsh
    <3>2. answer.id \in Identity
      BY SyncAssumption DEF SshAnswer
    <3> QED
      BY <3>1, <3>2 DEF Method
  <2> QED
    BY <2>1, <2>2
<1>2. UNCHANGED <<opts, inventory, ledger, results>>
  BY DEF SyncSnmp, SyncSsh
<1>3. FinalizeInv' /\ \A i \in Host \ {h} : work'[i] = work[i]
  BY <1>1, <1>2, EnterKeeps
<1>4. work'[h].pc = "correlate"
  BY <1>1 DEF Enter, FinalizeInv, FinalizeTypeOK, Work
<1> QED
  BY <1>2, <1>3, <1>4 DEF NoCreation, Creating, OwnAddress

LEMMA SyncFinalizeKeeps ==
  ASSUME LedgerInv, NEW h \in Host,
         SyncFinalize(h) \/ SyncRecord(h) \/ SyncFinalizeRaises(h)
  PROVE  FinalizeInv' /\ NoCreation' /\ OwnAddress(h)
<1> USE DEF LedgerInv
<1>1. CASE SyncFinalize(h)
  <2>1. OnlyThread(h)
    BY <1>1, FinalizeStepKeeps DEF SyncFinalize
  <2> QED
    BY <1>1, <2>1, StepWithoutCreation, OwnRecordsOnly DEF SyncFinalize, OnlyThread, OwnAddress
<1>2. CASE SyncRecord(h) \/ SyncFinalizeRaises(h)
  <2>1. /\ Leave(h) /\ UNCHANGED <<opts, inventory, ledger>>
        /\ \/ UNCHANGED results
           \/ results' = results \cup {[host |-> h, method |-> work[h].method,
                                        status |-> work[h].status, device |-> work[h].device]}
    BY <1>2 DEF SyncRecord, SyncFinalizeRaises, RecordResult, FinalizeRaises
  <2>2. FinalizeInv' /\ work'[h].pc = "done" /\ \A i \in Host \ {h} : work'[i] = work[i]
    BY <2>1, LeaveKeeps
  <2>3. results \subseteq results' /\ \A r \in results' \ results : r.host = h
    BY <2>1
  <2> QED
    BY <2>1, <2>2, <2>3 DEF NoCreation, Creating, OwnAddress
<1> QED
  BY <1>1, <1>2

LEMMA SyncQuietKeeps ==
  ASSUME LedgerInv, NEW h \in Host,
         SyncRead(h) \/ SyncSilent(h) \/ SyncSshFails(h) \/ SyncRaises(h)
  PROVE  FinalizeInv' /\ NoCreation' /\ OwnAddress(h)
<1>1. UNCHANGED finalizeVars
  BY DEF SyncRead, SyncSilent, SyncSshFails, SyncRaises
<1> QED
  BY <1>1, FinalizeUnchanged DEF LedgerInv, finalizeVars, NoCreation, OwnAddress

LEMMA SyncThreadKeeps ==
  ASSUME LedgerInv, NEW h \in Host, SyncThread(h)
  PROVE  FinalizeInv' /\ NoCreation' /\ OwnAddress(h)
BY SyncEditKeeps, SyncEnterKeeps, SyncFinalizeKeeps, SyncQuietKeeps DEF SyncThread

(* And to the variables of the job.                                        *)
OwnThread(h) ==
  /\ \A i \in Host \ {h} : at'[i] = at[i] /\ stored'[i] = stored[i] /\ login'[i] = login[i]
  /\ at'[h] # "wait"
  /\ UNCHANGED <<sync, syncStage, selected, rows, pk, refreshed>>

(* The ways in which a thread moves the job's variables.                   *)
LEMMA SyncThreadWrites ==
  ASSUME NEW h \in Host, SyncThread(h)
  PROVE  /\ \/ UNCHANGED counters
            \/ counters' = [counters EXCEPT !.snmp = @ + 1]
            \/ counters' = [counters EXCEPT !.snmp = @ - 1, !.ssh = @ + 1]
            \/ counters' = [counters EXCEPT !.not_reachable = @ + 1]
            \/ counters' = [counters EXCEPT !.failed = @ + 1]
         /\ \/ SyncFinalize(h) /\ at[h] = "finalize" /\ UNCHANGED at
            \/ \E step \in AtStep \ {"wait"} :
                 Goes(h, step) /\ (step = "remember" => SyncSsh(h))
         /\ \/ UNCHANGED stored
            \/ SyncRead(h) /\ HasRow(h) /\ stored' = [stored EXCEPT ![h] = ledger[h].group]
         /\ SyncSsh(h) \/ UNCHANGED login
         /\ UNCHANGED <<sync, syncStage, selected, rows, pk, refreshed>>
<1>1. CASE SyncRead(h)
  BY <1>1 DEF SyncRead, AtStep
<1>2. CASE SyncSnmp(h) \/ SyncSilent(h) \/ SyncMark(h)
  BY <1>2 DEF SyncSnmp, SyncSilent, SyncMark, AtStep
<1>3. CASE SyncSsh(h)
  BY <1>3 DEF SyncSsh, AtStep
<1>4. CASE SyncSshFails(h) \/ SyncClear(h) \/ SyncRemember(h)
  BY <1>4 DEF SyncSshFails, SyncClear, SyncRemember, AtStep
<1>5. CASE SyncFinalize(h)
  BY <1>5 DEF SyncFinalize, syncVars
<1>6. CASE SyncRecord(h)
  BY <1>6 DEF SyncRecord, AtStep
<1>7. CASE SyncFinalizeRaises(h) \/ SyncRaises(h)
  BY <1>7 DEF SyncFinalizeRaises, SyncRaises, SyncFailed, AtStep
<1> QED
  BY <1>1, <1>2, <1>3, <1>4, <1>5, <1>6, <1>7 DEF SyncThread

Counters == [snmp : Int, ssh : Nat, not_reachable : Nat, failed : Nat]

LEMMA CountersType ==
  ASSUME NEW c \in Counters
  PROVE  /\ [c EXCEPT !.snmp = @ + 1] \in Counters
         /\ [c EXCEPT !.snmp = @ - 1, !.ssh = @ + 1] \in Counters
         /\ [c EXCEPT !.not_reachable = @ + 1] \in Counters
         /\ [c EXCEPT !.failed = @ + 1] \in Counters
<1>1. c.snmp \in Int /\ c.ssh \in Nat /\ c.not_reachable \in Nat /\ c.failed \in Nat
  BY DEF Counters
<1>2. [c EXCEPT !.snmp = @ - 1, !.ssh = @ + 1] \in Counters
  <2>1. c.snmp - 1 \in Int /\ c.ssh + 1 \in Nat
    BY <1>1
  <2>2. \A a \in Int, b \in Nat : [c EXCEPT !.snmp = a, !.ssh = b] \in Counters
    BY DEF Counters
  <2> QED
    BY <2>1, <2>2
<1> QED
  BY <1>1, <1>2 DEF Counters

LEMMA SyncThreadTypes ==
  ASSUME LedgerInv, NEW h \in Host, SyncThread(h)
  PROVE  SyncTypeOK' /\ LoginIsKnown' /\ OwnThread(h)
<1> USE DEF LedgerInv, SyncTypeOK
<1>1. counters' \in Counters
  <2>1. counters \in Counters
    BY DEF Counters
  <2> HIDE DEF SyncTypeOK
  <2> QED
    BY <2>1, CountersType, SyncThreadWrites
<1>2. /\ at' \in [Host -> AtStep] /\ at'[h] # "wait" /\ \A i \in Host \ {h} : at'[i] = at[i]
      /\ at'[h] = "remember" => SyncSsh(h)
  BY SyncThreadWrites DEF Goes
<1>3. UNCHANGED <<sync, syncStage, selected, rows, pk, refreshed>>
  BY SyncThreadWrites
<1>4. stored' \in [Host -> Group \cup {NoGroup}] /\ \A i \in Host \ {h} : stored'[i] = stored[i]
  <2>1. HasRow(h) => ledger[h] \in LedgerRow
    BY DEF HasRow, Keeps, FinalizeInv, FinalizeTypeOK
  <2> QED
    BY <2>1, SyncThreadWrites DEF LedgerRow
<1>5. CASE SyncSsh(h)
  <2>1. PICK answer \in SshSees[h] :
          /\ FirstAccepted(Ordered(h), answer.accepts) # NoLogin
          /\ login' = [login EXCEPT ![h] = FirstAccepted(Ordered(h), answer.accepts)]
    BY <1>5 DEF SyncSsh
  <2>2. answer.accepts \in SUBSET Credential
    BY SyncAssumption DEF SshAnswer
  <2>3. FirstAccepted(Ordered(h), answer.accepts) \in Credential
    BY <2>1, <2>2, FirstAcceptedType
  <2>4. /\ login' \in [Host -> Credential \cup {NoLogin}] /\ login'[h] \in Credential
        /\ \A i \in Host \ {h} : login'[i] = login[i]
    BY <2>1, <2>3
  <2> QED
    BY <1>1, <1>2, <1>3, <1>4, <2>4 DEF OwnThread, LoginIsKnown, Counters
<1>6. CASE ~SyncSsh(h)
  <2>1. UNCHANGED login
    BY <1>6, SyncThreadWrites
  <2> QED
    BY <1>1, <1>2, <1>3, <1>4, <1>6, <2>1 DEF OwnThread, LoginIsKnown, Counters
<1> QED
  BY <1>5, <1>6
---------------------------------------------------------------------------
(* What the transaction writes is a device.                                *)
LEMMA WrittenType ==
  ASSUME LedgerInv, current # NoHost, NEW row \in Written(devices[current])
  PROVE  row \in DeviceRow /\ Key \in Device /\ current \in Host
<1> USE DEF LedgerInv
<1>1. current \in Host /\ devices[current] \in LedgerRow
  BY DEF OnboardTypeOK, OnboardState
<1>2. Key \in Device
  BY <1>1, FinalizeAssumption DEF Key, NewKey, OnboardTypeOK, Method
<1> DEFINE base == IF existing = NoDevice
                   THEN [name |-> devices[current].name, serial |-> devices[current].serial,
                         ip |-> NoIp]
                   ELSE IF object.serial = NoSerial
                   THEN [object EXCEPT !.serial = devices[current].serial]
                   ELSE object
<1>3. base \in DeviceRow
  BY <1>1 DEF LedgerRow, DeviceRow, OnboardState
<1>4. row = base \/ \E ip \in AddressRows(current) : row = [base EXCEPT !.ip = ip]
  BY DEF Written
<1> HIDE DEF base
<1>5. \A ip \in AddressRows(current) : [base EXCEPT !.ip = ip] \in DeviceRow
  BY <1>1, <1>3, FinalizeAssumption DEF DeviceRow, AddressRows, IPAddress
<1> QED
  BY <1>1, <1>2, <1>3, <1>4, <1>5

(* The commit writes one device, the one of the key, and links the row to  *)
(* it; every other address keeps its row and every other key its device.   *)
LEMMA CommitWrites ==
  ASSUME LedgerInv, OnboardCommit
  PROVE  /\ current \in Host /\ Key \in Device /\ ledger[current] # NoRow
         /\ inventory' \in Inventory /\ inventory'[Key] # NoDevice
         /\ \A d \in Device \ {Key} : inventory'[d] = inventory[d]
         /\ ledger' \in [Host -> LedgerRow \cup {NoRow}]
         /\ \A h \in Host \ {current} : ledger'[h] = ledger[h]
         /\ ledger'[current] # NoRow /\ ledger'[current].device = Key
         /\ ledger'[current].group = ledger[current].group
         /\ ledger'[current].snmp = ledger[current].snmp
<1> USE DEF LedgerInv, FinalizeInv, FinalizeTypeOK
<1>1. PICK row \in Written(devices[current]) : inventory' = [inventory EXCEPT ![Key] = row]
  BY DEF OnboardCommit
<1>2. row \in DeviceRow /\ Key \in Device /\ current \in Host
  BY WrittenType DEF OnboardCommit
<1>3. inventory' \in Inventory /\ inventory'[Key] # NoDevice
      /\ \A d \in Device \ {Key} : inventory'[d] = inventory[d]
  BY <1>1, <1>2, NoDeviceIsNoRow DEF Inventory
<1>4. ledger[current] # NoRow /\ ledger[current] \in LedgerRow
  BY <1>2 DEF OnboardCommit, HasOwnRow, Keeps
<1> DEFINE status == IF existing = NoDevice THEN "new" ELSE "imported"
           link == [ledger[current] EXCEPT !.device = Key, !.status = status]
<1>5. ledger' = [ledger EXCEPT ![current] = link]
  BY <1>2, <1>4 DEF OnboardCommit, LedgerRow
<1>6. /\ link \in LedgerRow /\ link.device = Key
      /\ link.group = ledger[current].group /\ link.snmp = ledger[current].snmp
  BY <1>2, <1>4 DEF LedgerRow, LedgerStatus
<1> HIDE DEF link
<1>7. /\ ledger' \in [Host -> LedgerRow \cup {NoRow}] /\ ledger'[current] = link
      /\ \A h \in Host \ {current} : ledger'[h] = ledger[h]
  BY <1>2, <1>5, <1>6
<1> QED
  BY <1>2, <1>3, <1>4, <1>6, <1>7, NoRowIsNoRow

(* The devices of the rows that are still to come are not there yet.       *)
LEMMA CommitIsNew ==
  ASSUME LedgerInv, OnboardCommit
  PROVE  /\ existing # NoDevice => inventory[Key] # NoDevice
         /\ \A h \in Host \ {current} : inventory'[NewKey(h)] = inventory[NewKey(h)]
                                        \/ inventory[NewKey(h)] # NoDevice
<1>1. \A h \in Host : NewKey(h) \in Device /\ (h # current => NewKey(h) # NewKey(current))
  BY FinalizeAssumption DEF NewKey, Method
<1>2. existing # NoDevice => inventory[existing] # NoDevice
  BY DEF LedgerInv, OnboardState, Rows
<1> QED
  BY <1>1, <1>2, CommitWrites DEF Key

LEMMA OnboardCommitKeeps ==
  ASSUME LedgerInv, OnboardCommit
  PROVE  FinalizeInv' /\ NoCreation' /\ OnboardTypeOK' /\ OnboardState'
<1> USE DEF LedgerInv
<1>1. UNCHANGED <<opts, results, work, onboard, onboardStage, devices, keys, queue>> /\ Close
  BY DEF OnboardCommit
<1>2. FinalizeInv'
  <2>1. Rows(inventory) \subseteq Rows(inventory') /\ Key \in Rows(inventory')
    BY CommitWrites DEF Rows
  <2>2. \A h \in Host : ledger'[h] # NoRow => ledger'[h].device \in Rows(inventory') \cup {NoDevice}
    BY <2>1, CommitWrites DEF FinalizeInv, LinksExist
  <2> QED
    BY <1>1, <2>1, <2>2, CommitWrites, LedgerEdit
<1>3. NoCreation'
  BY <1>1 DEF NoCreation
<1>4. OnboardTypeOK'
  <2>1. onboarded' \in [new : Nat, existing : Nat, failed : Nat]
    BY DEF OnboardCommit, Tally, OnboardTypeOK
  <2> QED
    BY <1>1, <2>1 DEF Close, OnboardTypeOK
<1>5. OnboardState'
  <2>1. \A h \in queue : h # current /\ h \in Host
    BY DEF OnboardCommit, OnboardState, OnboardTypeOK
  <2>2. onboardStage # "start"
    BY DEF OnboardCommit, OnboardState
  <2> QED
    BY <1>1, <2>1, <2>2, CommitIsNew DEF Close, OnboardState, NewKey
<1> QED
  BY <1>2, <1>3, <1>4, <1>5

LEMMA OnboardOtherKeeps ==
  ASSUME LedgerInv, OnboardStep, ~OnboardCommit
  PROVE  /\ FinalizeInv' /\ NoCreation' /\ OnboardTypeOK' /\ OnboardState'
         /\ UNCHANGED finalizeVars
<1> USE DEF LedgerInv
<1>1. UNCHANGED finalizeVars
  BY DEF OnboardStep, OnboardStart, OnboardFails, OnboardComplete, OnboardSkip, OnboardDryRun,
     OnboardLookup
<1>2. FinalizeInv' /\ NoCreation'
  BY <1>1, FinalizeUnchanged DEF finalizeVars, NoCreation
<1>3. UNCHANGED inventory /\ UNCHANGED ledger
  BY <1>1 DEF finalizeVars
<1>4. ASSUME NEW kind \in {"new", "failed"}, Tally(kind)
      PROVE  onboarded' \in [new : Nat, existing : Nat, failed : Nat]
  BY <1>4 DEF Tally, OnboardTypeOK
<1>5. CASE OnboardStart
  <2>1. OnboardTypeOK'
    BY <1>5 DEF OnboardStart, OnboardTypeOK, SyncTypeOK, FinalizeInv, FinalizeTypeOK, Picked,
       OnboardForm
  <2>2. OnboardState'
    BY <1>3, <1>5 DEF OnboardStart, OnboardState, Picked, OnboardTypeOK, OnboardForm
  <2> QED
    BY <1>1, <1>2, <2>1, <2>2
<1>6. ASSUME NEW h \in Host, OnboardSkip(h) \/ OnboardDryRun(h)
      PROVE  OnboardTypeOK' /\ OnboardState'
  <2>1. OnboardTypeOK'
    BY <1>4, <1>6 DEF OnboardSkip, OnboardDryRun, Takes, OnboardTypeOK
  <2>2. OnboardState'
    BY <1>3, <1>6 DEF OnboardSkip, OnboardDryRun, Takes, OnboardState, NewKey
  <2> QED
    BY <2>1, <2>2
<1>7. ASSUME NEW h \in Host, OnboardLookup(h)
      PROVE  OnboardTypeOK' /\ OnboardState'
  <2>1. \/ existing' \in Rows(inventory) /\ object' \in DeviceRow
        \/ existing' = NoDevice /\ object' = NoDevice
    BY <1>7 DEF OnboardLookup, NamedExactly, Rows, FinalizeInv, FinalizeTypeOK, Inventory
  <2>2. /\ onboardStage = "loop" /\ ~onboard.dryrun /\ h \in queue /\ queue' = queue \ {h}
        /\ current' = h /\ h # NoHost
        /\ UNCHANGED <<onboard, onboardStage, devices, keys, onboarded>>
    BY <1>7, OnboardAssumption DEF OnboardLookup, Takes
  <2>3. OnboardTypeOK'
    BY <2>1, <2>2 DEF OnboardTypeOK, Rows
  <2>4. OnboardState'
    BY <1>3, <2>1, <2>2 DEF OnboardState, NewKey
  <2> QED
    BY <2>3, <2>4
<1>8. CASE OnboardFails
  <2>1. OnboardTypeOK'
    BY <1>4, <1>8 DEF OnboardFails, Close, OnboardTypeOK
  <2>2. OnboardState'
    BY <1>3, <1>8 DEF OnboardFails, Close, OnboardState, NewKey
  <2> QED
    BY <1>1, <1>2, <2>1, <2>2
<1>9. CASE OnboardComplete
  <2>1. OnboardTypeOK'
    BY <1>9 DEF OnboardComplete, OnboardTypeOK
  <2>2. OnboardState'
    BY <1>3, <1>9 DEF OnboardComplete, OnboardState, NewKey
  <2> QED
    BY <1>1, <1>2, <2>1, <2>2
<1> QED
  BY <1>1, <1>2, <1>5, <1>6, <1>7, <1>8, <1>9 DEF OnboardStep

(* The other job and the operator neither touch the onboarding's variables *)
(* nor the devices it is to make, and delete no device.                    *)
LEMMA OnboardUndisturbed ==
  ASSUME LedgerInv, UNCHANGED onboardVars, inventory' \in Inventory,
         \A d \in Device : inventory'[d] = inventory[d] \/ (inventory[d] = NoDevice /\ d \in Seed)
  PROVE  OnboardTypeOK' /\ OnboardState'
<1> USE DEF LedgerInv
<1>1. \A h \in Host : NewKey(h) \in Device /\ NewKey(h) \notin Seed
  BY FinalizeAssumption DEF NewKey, Method
<1>2. \A h \in Host : inventory'[NewKey(h)] = inventory[NewKey(h)]
  BY <1>1
<1>3. Rows(inventory) \subseteq Rows(inventory')
  BY DEF Rows
<1>4. OnboardTypeOK'
  BY DEF onboardVars, OnboardTypeOK
<1>5. queue \subseteq Host /\ current \in Host \cup {NoHost}
  BY DEF OnboardTypeOK
<1>6. \A h \in Host : NewKey(h)' = NewKey(h)
  BY DEF NewKey
<1>7. OnboardState'
  BY <1>2, <1>3, <1>5, <1>6 DEF onboardVars, OnboardState, NewKey
<1> QED
  BY <1>4, <1>7
---------------------------------------------------------------------------
LEMMA OperatorKeeps ==
  ASSUME LedgerInv, Operator
  PROVE  LedgerInv'
<1> USE DEF LedgerInv
<1>1. UNCHANGED <<opts, results, work, syncVars, onboardVars>>
  BY DEF Operator, OperatorDeletes, OperatorEnters
<1>2. NoCreation' /\ LoginIsKnown'
  BY <1>1 DEF NoCreation, syncVars, LoginIsKnown
<1>3. ASSUME NEW h \in Host, OperatorDeletes(h)
      PROVE  FinalizeInv' /\ OnboardTypeOK' /\ OnboardState' /\ SyncTypeOK'
  <2>1. /\ ledger' \in [Host -> LedgerRow \cup {NoRow}] /\ UNCHANGED inventory
        /\ \A i \in Host : ledger'[i] # NoRow => ledger'[i] = ledger[i]
    BY <1>3 DEF OperatorDeletes, FinalizeInv, FinalizeTypeOK
  <2>2. FinalizeInv'
    BY <1>1, <2>1, LedgerEdit DEF FinalizeInv, FinalizeTypeOK, LinksExist
  <2>3. SyncTypeOK'
    BY <1>1, <1>3 DEF OperatorDeletes, syncVars, SyncTypeOK
  <2>4. OnboardTypeOK' /\ OnboardState'
    BY <1>1, <2>1, OnboardUndisturbed DEF FinalizeInv, FinalizeTypeOK
  <2> QED
    BY <2>2, <2>3, <2>4
<1>4. ASSUME NEW d \in Seed, OperatorEnters(d)
      PROVE  FinalizeInv' /\ OnboardTypeOK' /\ OnboardState' /\ SyncTypeOK'
  <2>1. PICK row \in Entered : inventory' = [inventory EXCEPT ![d] = row]
    BY <1>4 DEF OperatorEnters
  <2>2. d \in Device /\ row \in DeviceRow /\ inventory[d] = NoDevice /\ UNCHANGED <<ledger, pk>>
    BY <1>4, FinalizeAssumption, LedgerJobsAssumption DEF OperatorEnters
  <2>3. /\ inventory' \in Inventory
        /\ \A e \in Device : inventory'[e] = inventory[e] \/ (inventory[e] = NoDevice /\ e \in Seed)
    BY <2>1, <2>2 DEF Inventory, FinalizeInv, FinalizeTypeOK
  <2>4. Rows(inventory) \subseteq Rows(inventory')
    BY <2>3 DEF Rows
  <2>5. FinalizeInv'
    BY <1>1, <2>2, <2>3, <2>4, LedgerEdit DEF FinalizeInv, FinalizeTypeOK, LinksExist
  <2>6. SyncTypeOK'
    BY <1>1, <2>2 DEF syncVars, SyncTypeOK
  <2> QED
    BY <1>1, <2>3, <2>5, <2>6, OnboardUndisturbed
<1> QED
  BY <1>2, <1>3, <1>4 DEF Operator

LEMMA SyncKeeps ==
  ASSUME LedgerInv, SyncJob
  PROVE  LedgerInv'
<1> USE DEF LedgerInv
<1>1. UNCHANGED onboardVars
  BY DEF SyncJob
<1>2. CASE SyncEngine
  <2>1. UNCHANGED <<finalizeVars, sync, at, stored, login, pk, counters>>
    BY <1>2 DEF SyncEngine, SyncSelect, SyncComplete
  <2>2. FinalizeInv' /\ NoCreation' /\ LoginIsKnown'
    BY <2>1, FinalizeUnchanged DEF finalizeVars, NoCreation, LoginIsKnown
  <2>3. SyncTypeOK'
    <3>1. CASE SyncSelect
      BY <2>1, <3>1 DEF SyncSelect, SyncTypeOK
    <3>2. CASE SyncComplete
      <4>1. counters.snmp \in Int /\ counters.ssh \in Nat
        BY DEF SyncTypeOK
      <4>2. refreshed' \in Int
        BY <3>2, <4>1 DEF SyncComplete
      <4> QED
        BY <2>1, <3>2, <4>2 DEF SyncComplete, SyncTypeOK
    <3> QED
      BY <1>2, <3>1, <3>2 DEF SyncEngine
  <2>4. OnboardTypeOK' /\ OnboardState'
    BY <1>1, <2>1, OnboardUndisturbed DEF finalizeVars, FinalizeInv, FinalizeTypeOK
  <2> QED
    BY <2>2, <2>3, <2>4
<1>3. ASSUME NEW h \in Host, SyncThread(h)
      PROVE  LedgerInv'
  <2>1. FinalizeInv' /\ NoCreation' /\ UNCHANGED inventory /\ SyncTypeOK' /\ LoginIsKnown'
    BY <1>3, SyncThreadKeeps, SyncThreadTypes DEF OwnAddress
  <2>2. OnboardTypeOK' /\ OnboardState'
    BY <1>1, <2>1, OnboardUndisturbed DEF FinalizeInv, FinalizeTypeOK
  <2> QED
    BY <2>1, <2>2
<1> QED
  BY <1>2, <1>3 DEF SyncJob, SyncStep

LEMMA OnboardKeeps ==
  ASSUME LedgerInv, OnboardJob
  PROVE  LedgerInv'
<1>1. SyncTypeOK' /\ LoginIsKnown'
  BY DEF LedgerInv, OnboardJob, syncVars, SyncTypeOK, LoginIsKnown
<1> QED
  BY <1>1, OnboardCommitKeeps, OnboardOtherKeeps DEF LedgerInv, OnboardJob

LEMMA LedgerStutter ==
  ASSUME LedgerInv, UNCHANGED vars
  PROVE  LedgerInv'
<1> USE DEF LedgerInv
<1>1. UNCHANGED <<finalizeVars, pk, syncVars, onboardVars>>
  BY DEF vars
<1>2. FinalizeInv' /\ NoCreation'
  BY <1>1, FinalizeUnchanged DEF finalizeVars, NoCreation
<1>3. SyncTypeOK' /\ LoginIsKnown'
  BY <1>1 DEF syncVars, SyncTypeOK, LoginIsKnown
<1>4. OnboardTypeOK' /\ OnboardState'
  BY <1>1, OnboardUndisturbed DEF finalizeVars, FinalizeInv, FinalizeTypeOK
<1> QED
  BY <1>2, <1>3, <1>4

LEMMA LedgerInit == Init => LedgerInv
<1> SUFFICES ASSUME Init PROVE LedgerInv
  OBVIOUS
<1>1. FinalizeInv /\ \A h \in Host : At(h, "idle")
  <2>1. opts \in Options /\ inventory \in Inventory /\ ledger \in [Host -> LedgerRow \cup {NoRow}]
        /\ \A h \in Host : ledger[h] # NoRow => ledger[h].device \in Rows(inventory) \cup {NoDevice}
    BY LedgerJobsAssumption DEF Init
  <2> QED
    BY <2>1, SyncAssumption, FinalizeInit DEF Init
<1>2. NoCreation
  BY <1>1, LedgerJobsAssumption DEF Init, At, NoCreation, Creating
<1>3. SyncTypeOK /\ LoginIsKnown
  BY SyncAssumption DEF Init, SyncInit, SyncTypeOK, LoginIsKnown, NoCounters, AtStep
<1>4. OnboardTypeOK
  BY <1>3, OnboardAssumption DEF Init, OnboardInit, OnboardTypeOK, SyncTypeOK
<1>5. \A h \in Host : NewKey(h) \in Host \X Method
  BY DEF NewKey, Method
<1>6. OnboardState
  BY <1>5, LedgerJobsAssumption DEF Init, OnboardInit, OnboardState
<1> QED
  BY <1>1, <1>2, <1>3, <1>4, <1>6 DEF LedgerInv

LEMMA LedgerInvariance == Spec => []LedgerInv
<1>1. LedgerInv /\ [Next]_vars => LedgerInv'
  BY SyncKeeps, OnboardKeeps, OperatorKeeps, LedgerStutter DEF Next
<1> QED
  BY <1>1, LedgerInit, PTL DEF Spec

(* The values of the ledger jobs' variables, and of the tables they share. *)
THEOREM LedgerTypesHold == Spec => []LedgerTypeOK
<1>1. LedgerInv => LedgerTypeOK
  BY DEF LedgerInv, LedgerTypeOK, FinalizeInv
<1> QED
  BY <1>1, LedgerInvariance, PTL

(* Neither job, nor the operator, leaves a record or a thread with a       *)
(* device that is not in the Device table.                                 *)
THEOREM LedgerLinksExist == Spec => []LinksExist
<1>1. LedgerInv => LinksExist
  BY DEF LedgerInv, FinalizeInv
<1> QED
  BY <1>1, LedgerInvariance, PTL
---------------------------------------------------------------------------
(* Only the commit makes a device of the onboarding: the sync creates none *)
(* and an operator's devices have keys of their own.                       *)
LEMMA OnlyCommitMakes ==
  ASSUME LedgerInv, [Next]_vars, ~OnboardCommit, NEW h \in Host
  PROVE  inventory'[NewKey(h)] = inventory[NewKey(h)]
<1> USE DEF LedgerInv
<1>1. NewKey(h) \in Device /\ NewKey(h) \notin Seed
  BY FinalizeAssumption DEF NewKey, Method
<1>2. CASE SyncJob
  <2>1. ASSUME NEW i \in Host, SyncThread(i)
        PROVE  UNCHANGED inventory
    BY <2>1, SyncThreadKeeps DEF OwnAddress
  <2>2. CASE SyncEngine
    BY <2>2 DEF SyncEngine, SyncSelect, SyncComplete, finalizeVars
  <2> QED
    BY <1>2, <2>1, <2>2 DEF SyncJob, SyncStep
<1>3. CASE OnboardJob
  BY <1>3, OnboardOtherKeeps DEF OnboardJob, finalizeVars
<1>4. CASE Operator
  BY <1>1, <1>4 DEF Operator, OperatorDeletes, OperatorEnters, FinalizeInv, FinalizeTypeOK, Inventory
<1>5. CASE UNCHANGED vars
  BY <1>5 DEF vars, finalizeVars
<1> QED
  BY <1>2, <1>3, <1>4, <1>5 DEF Next

(* All or nothing: the step that makes a device for a row links the row to *)
(* it, although the row may have been deleted, or made anew under another  *)
(* primary key, since it was read.                                         *)
THEOREM OnboardingIsAtomic == Spec => OnboardIsAtomic
<1>1. ASSUME LedgerInv, [Next]_vars
      PROVE  \A h \in Host : inventory[NewKey(h)] = NoDevice /\ inventory'[NewKey(h)] # NoDevice
               => ledger'[h] # NoRow /\ ledger'[h].device = NewKey(h)
  <2>1. SUFFICES ASSUME NEW h \in Host, inventory[NewKey(h)] = NoDevice,
                        inventory'[NewKey(h)] # NoDevice
                 PROVE  ledger'[h] # NoRow /\ ledger'[h].device = NewKey(h)
    OBVIOUS
  <2>2. OnboardCommit
    BY <1>1, <2>1, OnlyCommitMakes
  <2>3. h = current /\ existing = NoDevice
    <3>1. NewKey(h) \in Device
      BY FinalizeAssumption DEF NewKey, Method
    <3>2. NewKey(h) = Key
      BY <1>1, <2>1, <2>2, <3>1, CommitWrites
    <3> QED
      BY <1>1, <2>1, <2>2, <3>2, CommitIsNew DEF Key, NewKey
  <2> QED
    BY <1>1, <2>2, <2>3, CommitWrites DEF Key
<1>2. LedgerInv /\ [Next]_vars =>
        [\A h \in Host : inventory[NewKey(h)] = NoDevice /\ inventory'[NewKey(h)] # NoDevice
           => ledger'[h] # NoRow /\ ledger'[h].device = NewKey(h)]_<<finalizeVars, onboardVars>>
  BY <1>1
<1> QED
  BY <1>2, LedgerInvariance, PTL DEF Spec, OnboardIsAtomic
---------------------------------------------------------------------------
(* The counting of the onboarding.                                         *)
PickedRows == {h \in onboard.picked : devices[h] # NoRow}

LEMMA OnboardCounts ==
  ASSUME LedgerInv
  PROVE  /\ IsFiniteSet(queue) /\ Cardinality(queue) \in Nat
         /\ IsFiniteSet(Onboarded) /\ Cardinality(Onboarded) \in Nat
         /\ IsFiniteSet(PickedRows) /\ Cardinality(PickedRows) \in Nat
         /\ onboarded.new \in Nat /\ onboarded.existing \in Nat /\ onboarded.failed \in Nat
<1>1. /\ queue \subseteq Host /\ Onboarded \subseteq Host /\ PickedRows \subseteq Host
      /\ onboarded.new \in Nat /\ onboarded.existing \in Nat /\ onboarded.failed \in Nat
  BY DEF LedgerInv, OnboardTypeOK, OnboardForm, Onboarded, PickedRows
<1>2. IsFiniteSet(queue) /\ IsFiniteSet(Onboarded) /\ IsFiniteSet(PickedRows)
  BY <1>1, HostIsFinite, FS_Subset
<1> QED
  BY <1>1, <1>2, FS_CardinalityType

(* A row that is taken from the queue is one that is tallied, or the one   *)
(* whose transaction is open.                                              *)
LEMMA TakeCounts ==
  ASSUME LedgerInv, NEW h \in Host, Takes(h)
  PROVE  Cardinality(queue') = Cardinality(queue) - 1
BY OnboardCounts, FS_RemoveElement DEF Takes

LEMMA TallyCounts ==
  ASSUME LedgerInv, NEW kind \in {"new", "existing", "failed"}, Tally(kind)
  PROVE  /\ onboarded'.new = IF kind = "new" THEN onboarded.new + 1 ELSE onboarded.new
         /\ onboarded'.new + onboarded'.existing + onboarded'.failed
              = onboarded.new + onboarded.existing + onboarded.failed + 1
BY DEF LedgerInv, Tally, OnboardTypeOK

LEMMA TotalsByOnboarding ==
  ASSUME LedgerInv, OnboardTotalsAreTrue, OnboardStep
  PROVE  OnboardTotalsAreTrue'
<1> USE DEF LedgerInv
<1> DEFINE Sum == onboarded.new + onboarded.existing + onboarded.failed
           Open == IF current = NoHost THEN 0 ELSE 1
<1>0. NoHost \notin Host
  BY OnboardAssumption
<1>1. /\ ~onboard.dryrun => onboarded.new = Cardinality(Onboarded)
      /\ onboardStage \in {"loop", "completed"} =>
           Sum + Cardinality(queue) + Open = Cardinality(PickedRows)
  BY DEF OnboardTotalsAreTrue, PickedRows
<1>2. SUFFICES /\ ~onboard'.dryrun => onboarded'.new = Cardinality(Onboarded)'
               /\ onboardStage' \in {"loop", "completed"} =>
                    Sum' + Cardinality(queue') + Open' = Cardinality(PickedRows)'
  BY DEF OnboardTotalsAreTrue, PickedRows
<1>3. /\ Cardinality(queue) \in Nat /\ Cardinality(Onboarded) \in Nat
      /\ Cardinality(PickedRows) \in Nat /\ Sum \in Nat /\ onboarded.new \in Nat
  BY OnboardCounts
<1>4. CASE OnboardStart
  <2>1. /\ onboardStage = "start" /\ queue' = PickedRows' /\ UNCHANGED <<inventory, onboard, onboarded>>
        /\ current' = NoHost /\ Sum' = 0
    BY <1>4 DEF OnboardStart, finalizeVars, OnboardState, Picked, PickedRows
  <2>2. Onboarded' = Onboarded
    BY <2>1 DEF Onboarded, NewKey
  <2>3. PickedRows' \subseteq Host
    BY <1>4 DEF OnboardStart, PickedRows, OnboardTypeOK, OnboardForm
  <2>4. Cardinality(PickedRows') \in Nat
    BY <2>3, HostIsFinite, FS_Subset, FS_CardinalityType
  <2>5. Cardinality(queue') = Cardinality(PickedRows)' /\ Open' = 0
    BY <2>1
  <2>6. ~onboard'.dryrun => onboarded'.new = Cardinality(Onboarded)'
    BY <1>1, <2>1, <2>2
  <2> HIDE DEF Sum, Open
  <2> QED
    BY <2>1, <2>4, <2>5, <2>6
<1>5. CASE OnboardCommit
  <2>1. /\ current \in Host /\ current' = NoHost /\ ~onboard.dryrun /\ onboardStage = "loop"
        /\ UNCHANGED <<onboard, onboardStage, devices, queue>>
        /\ inventory[NewKey(current)] = NoDevice
        /\ Tally(IF existing = NoDevice THEN "new" ELSE "existing")
    BY <1>5, CommitWrites DEF OnboardCommit, Close, OnboardState
  <2>2. /\ onboarded'.new = IF existing = NoDevice THEN onboarded.new + 1 ELSE onboarded.new
        /\ Sum' = Sum + 1
    BY <2>1, TallyCounts
  <2>3. Onboarded' = IF existing = NoDevice THEN Onboarded \cup {current} ELSE Onboarded
    <3>1. \A h \in Host : NewKey(h) \in Device
      BY FinalizeAssumption DEF NewKey, Method
    <3>2. CASE existing = NoDevice
      <4>1. Key = NewKey(current)
        BY <3>2 DEF Key
      <4>2. \A h \in Host \ {current} : NewKey(h) # Key
        BY <4>1 DEF NewKey
      <4> QED
        BY <1>5, <2>1, <3>1, <3>2, <4>1, <4>2, CommitWrites DEF Onboarded, NewKey
    <3>3. CASE existing # NoDevice
      <4>1. inventory[Key] # NoDevice
        BY <1>5, <3>3, CommitIsNew
      <4> QED
        BY <1>5, <2>1, <3>1, <3>3, <4>1, CommitWrites DEF Onboarded, NewKey
    <3> QED
      BY <3>2, <3>3
  <2>4. current \notin Onboarded
    BY <2>1 DEF Onboarded
  <2>5. Cardinality(Onboarded \cup {current}) = Cardinality(Onboarded) + 1
    BY <2>4, OnboardCounts, FS_AddElement
  <2>6. PickedRows' = PickedRows
    BY <2>1 DEF PickedRows
  <2> QED
    BY <1>0, <1>1, <1>3, <2>1, <2>2, <2>3, <2>5, <2>6
<1>6. CASE ~OnboardStart /\ ~OnboardCommit
  <2>1. UNCHANGED <<inventory, onboard, devices>> /\ UNCHANGED finalizeVars
    BY <1>6, OnboardOtherKeeps DEF OnboardStep, OnboardSkip, OnboardDryRun, OnboardLookup,
       OnboardFails, OnboardComplete, finalizeVars
  <2>2. Onboarded' = Onboarded /\ PickedRows' = PickedRows
    BY <2>1 DEF Onboarded, NewKey, PickedRows
  <2>3. ASSUME NEW h \in Host, OnboardSkip(h)
        PROVE  /\ ~onboard'.dryrun => onboarded'.new = Cardinality(Onboarded)
               /\ Sum' + Cardinality(queue') + Open' = Cardinality(PickedRows)
    <3>1. Takes(h) /\ Tally("failed") /\ UNCHANGED current
      BY <2>3 DEF OnboardSkip
    <3>2. /\ onboardStage = "loop" /\ onboarded'.new = onboarded.new /\ Sum' = Sum + 1
          /\ Cardinality(queue') = Cardinality(queue) - 1 /\ Open' = Open
      BY <3>1, TakeCounts, TallyCounts DEF Takes
    <3> QED
      BY <1>1, <1>3, <2>1, <3>2
  <2>4. ASSUME NEW h \in Host, OnboardDryRun(h)
        PROVE  /\ ~onboard'.dryrun => onboarded'.new = Cardinality(Onboarded)
               /\ Sum' + Cardinality(queue') + Open' = Cardinality(PickedRows)
    <3>1. Takes(h) /\ Tally("new") /\ UNCHANGED current /\ onboard.dryrun
      BY <2>4 DEF OnboardDryRun
    <3>2. /\ onboardStage = "loop" /\ Sum' = Sum + 1
          /\ Cardinality(queue') = Cardinality(queue) - 1 /\ Open' = Open
      BY <3>1, TakeCounts, TallyCounts DEF Takes
    <3> QED
      BY <1>1, <1>3, <2>1, <3>1, <3>2
  <2>5. ASSUME NEW h \in Host, OnboardLookup(h)
        PROVE  /\ ~onboard'.dryrun => onboarded'.new = Cardinality(Onboarded)
               /\ Sum' + Cardinality(queue') + Open' = Cardinality(PickedRows)
    <3>1. Takes(h) /\ UNCHANGED onboarded /\ current = NoHost /\ current' # NoHost
      BY <1>0, <2>5 DEF OnboardLookup, Takes
    <3>2. /\ onboardStage = "loop" /\ Sum' = Sum
          /\ Cardinality(queue') = Cardinality(queue) - 1 /\ Open' = Open + 1
      BY <3>1, TakeCounts DEF Takes
    <3> QED
      BY <1>1, <1>3, <2>1, <3>1, <3>2
  <2>6. CASE OnboardFails
    <3>1. /\ Tally("failed") /\ current # NoHost /\ current' = NoHost
          /\ onboardStage = "loop" /\ UNCHANGED <<onboardStage, queue>>
      BY <2>6 DEF OnboardFails, Close, OnboardState
    <3>2. onboarded'.new = onboarded.new /\ Sum' = Sum + 1 /\ Open = 1 /\ Open' = 0
      BY <3>1, TallyCounts
    <3> QED
      BY <1>1, <1>3, <2>1, <2>2, <3>1, <3>2
  <2>7. CASE OnboardComplete
    <3>1. onboardStage = "loop" /\ UNCHANGED <<onboarded, current, queue>>
      BY <2>7 DEF OnboardComplete
    <3> QED
      BY <1>1, <2>1, <2>2, <3>1
  <2> QED
    BY <1>6, <2>2, <2>3, <2>4, <2>5, <2>6, <2>7 DEF OnboardStep
<1> QED
  BY <1>4, <1>5, <1>6

LEMMA TotalsByOthers ==
  ASSUME LedgerInv, OnboardTotalsAreTrue, [Next]_vars, ~OnboardJob
  PROVE  OnboardTotalsAreTrue'
<1>1. UNCHANGED onboardVars
  BY DEF Next, SyncJob, Operator, OperatorDeletes, OperatorEnters, vars
<1>2. ~OnboardCommit
  BY <1>1 DEF OnboardCommit, Close, onboardVars
<1>3. \A h \in Host : inventory'[NewKey(h)] = inventory[NewKey(h)]
  BY <1>2, OnlyCommitMakes
<1>4. Onboarded' = Onboarded
  BY <1>3 DEF Onboarded, NewKey
<1> QED
  BY <1>1, <1>4 DEF OnboardTotalsAreTrue, onboardVars

(* The job's numbers are true, whoever deletes rows and enters devices     *)
(* while it runs and whichever of its transactions fail.                   *)
THEOREM OnboardingCountsRight == Spec => []OnboardTotalsAreTrue
<1>1. Init => OnboardTotalsAreTrue
  <2>1. SUFFICES ASSUME Init PROVE OnboardTotalsAreTrue
    OBVIOUS
  <2>2. Onboarded = {}
    BY <2>1, LedgerInit DEF LedgerInv, OnboardState, Onboarded, Init, OnboardInit
  <2> QED
    BY <2>1, <2>2, FS_EmptySet DEF OnboardTotalsAreTrue, Init, OnboardInit
<1>2. LedgerInv /\ OnboardTotalsAreTrue /\ [Next]_vars => OnboardTotalsAreTrue'
  BY TotalsByOnboarding, TotalsByOthers DEF OnboardJob
<1> QED
  BY <1>1, <1>2, LedgerInvariance, PTL DEF Spec
---------------------------------------------------------------------------
(* The rows of the sync pool.  An address whose selected row is gone never *)
(* gets it back: the next row it has is another one.                       *)
PoolState ==
  /\ syncStage = "select" => selected = {} /\ results = {} /\ \A h \in Host : at[h] = "wait"
  /\ syncStage = "completed" => \A h \in selected : at[h] = "done"
  /\ \A h \in Host : HasResult(h) => at[h] = "done"
  /\ \A h \in Host : rows[h] <= pk[h] /\ (h \in selected /\ ledger[h] = NoRow => rows[h] < pk[h])

(* What a row that is still there says while its thread is on its way: the *)
(* group it was read with until the job has logged in, the group that let  *)
(* it in from then on; and no SNMP, once that has been tried in vain.      *)
RowState(h) ==
  h \in selected /\ HasRow(h) =>
    /\ at[h] \in {"snmp", "mark", "ssh", "clear", "remember"} => ledger[h].group = stored[h]
    /\ (at[h] = "finalize" \/ HasResult(h)) /\ work[h].method = "ssh" =>
         /\ login[h] \in Group => ledger[h].group = login[h]
         /\ login[h] = NoGroup => ledger[h].group = stored[h]
    /\ ~opts.dryrun /\ at[h] \in {"ssh", "clear"} => ~ledger[h].snmp

(* The rows that SyncMissesNoRow counts, for the threads that have ended.  *)
Missed(h) ==
  h \in selected /\ at[h] = "done" /\ HasRow(h) /\ ~HasResult(h) /\ StillClaims(h)

MissedAreCounted == ~opts.dryrun => Cardinality({h \in Host : Missed(h)}) <= counters.failed

PoolInv == LedgerInv /\ PoolState /\ (\A h \in Host : RowState(h)) /\ MissedAreCounted

(* A step that is not of the thread of h: it may delete the row, but not   *)
(* change what the sync knows of it.                                       *)
Undisturbed(h) ==
  /\ at'[h] = at[h] /\ stored'[h] = stored[h] /\ login'[h] = login[h] /\ work'[h] = work[h]
  /\ HasResult(h)' <=> HasResult(h)
  /\ h \in selected /\ HasRow(h)' =>
       HasRow(h) /\ ledger'[h].group = ledger[h].group /\ ledger'[h].snmp = ledger[h].snmp

LEMMA UndisturbedRow ==
  ASSUME NEW h \in Host, RowState(h), Undisturbed(h), UNCHANGED <<opts, sync, selected>>
  PROVE  RowState(h)' /\ (Missed(h)' => Missed(h))
BY DEF RowState, Undisturbed, Missed, StillClaims, Preferred

LEMMA OthersUndisturbed ==
  ASSUME LedgerInv, NEW h \in Host, SyncThread(h), NEW i \in Host, i # h
  PROVE  Undisturbed(i)
<1>1. OwnAddress(h) /\ OwnThread(h)
  BY SyncThreadKeeps, SyncThreadTypes
<1>2. HasResult(i)' <=> HasResult(i)
  BY <1>1 DEF OwnAddress, HasResult
<1> QED
  BY <1>1, <1>2 DEF OwnAddress, OwnThread, Undisturbed, HasRow, Keeps

(* The thread of h works on the row it has read, or on none.               *)
LEMMA OwnRowStays ==
  ASSUME PoolInv, NEW h \in Host, SyncThread(h)
  PROVE  h \in selected /\ HasRow(h)' => HasRow(h)
<1>1. UNCHANGED <<rows, pk>> /\ rows[h] \in Nat /\ pk[h] \in Nat
  BY SyncThreadTypes DEF PoolInv, LedgerInv, OwnThread, SyncTypeOK
<1> QED
  BY <1>1 DEF PoolInv, PoolState, HasRow, Keeps

(* A thread that has ended does nothing more; only one step makes a result.*)
LEMMA SyncThreadBegins ==
  ASSUME LedgerInv, NEW h \in Host, SyncThread(h)
  PROVE  at[h] # "done" /\ (SyncRecord(h) \/ UNCHANGED results)
<1>1. at[h] # "done"
  BY DEF SyncThread, SyncRead, SyncSnmp, SyncSilent, SyncMark, SyncSsh, SyncSshFails, SyncClear,
     SyncRemember, SyncFinalize, SyncRecord, SyncFinalizeRaises, SyncRaises
<1>2. SyncFinalize(h) => UNCHANGED results
  BY FinalizeStepKeeps DEF SyncFinalize, LedgerInv, OnlyThread
<1>3. SyncRecord(h) \/ UNCHANGED results
  BY <1>2 DEF SyncThread, SyncRead, SyncSnmp, SyncSilent, SyncMark, SyncSsh, SyncSshFails,
     SyncClear, SyncRemember, SyncFinalizeRaises, FinalizeRaises, SyncRaises, finalizeVars
<1> QED
  BY <1>1, <1>3

LEMMA PoolStateByThread ==
  ASSUME PoolInv, NEW h \in Host, SyncThread(h)
  PROVE  PoolState'
<1> USE DEF PoolInv
<1>1. OwnAddress(h) /\ OwnThread(h)
  BY SyncThreadKeeps, SyncThreadTypes
<1>2. syncStage # "select"
  BY DEF PoolState, SyncThread, SyncRead, SyncSnmp, SyncSilent, SyncMark, SyncSsh, SyncSshFails,
     SyncClear, SyncRemember, SyncFinalize, SyncRecord, SyncFinalizeRaises, SyncRaises
<1>3. at[h] # "done"
  BY SyncThreadBegins
<1>4. HasResult(h)' => at'[h] = "done"
  <2>1. CASE SyncRecord(h)
    BY <2>1 DEF SyncRecord, Goes, LedgerInv, SyncTypeOK
  <2>2. CASE ~SyncRecord(h)
    BY <1>3, <2>2, SyncThreadBegins DEF PoolState, HasResult
  <2> QED
    BY <2>1, <2>2
<1>5. \A i \in Host \ {h} : HasResult(i)' => at'[i] = "done"
  BY <1>1 DEF OwnAddress, OwnThread, HasResult, PoolState
<1>6. \A i \in Host : rows'[i] <= pk'[i] /\ (i \in selected /\ ledger'[i] = NoRow => rows'[i] < pk'[i])
  BY <1>1 DEF OwnAddress, OwnThread, PoolState
<1>7. syncStage' # "select" /\ UNCHANGED selected
  BY <1>1, <1>2 DEF OwnThread
<1>8. syncStage' = "completed" => \A i \in selected : at'[i] = "done"
  BY <1>1, <1>2, <1>3 DEF OwnThread, PoolState, LedgerInv, SyncTypeOK
<1> QED
  BY <1>4, <1>5, <1>6, <1>7, <1>8 DEF PoolState

LEMMA RecordedHasResult ==
  ASSUME NEW h \in Host, RecordResult(h)
  PROVE  HasResult(h)'
<1> DEFINE r == [host |-> h, method |-> work[h].method, status |-> work[h].status,
                 device |-> work[h].device]
<1>1. r \in results' /\ r.host = h
  BY DEF RecordResult
<1> QED
  BY <1>1 DEF HasResult

(* What a thread does to its own row.                                      *)
LEMMA OwnRow ==
  ASSUME PoolInv, NEW h \in Host, SyncThread(h)
  PROVE  /\ RowState(h)'
         /\ ~opts.dryrun /\ Missed(h)' => counters' = [counters EXCEPT !.failed = @ + 1]
<1>1. SUFFICES ASSUME h \in selected, HasRow(h)'
               PROVE  /\ RowState(h)'
                      /\ ~opts.dryrun /\ Missed(h)' =>
                           counters' = [counters EXCEPT !.failed = @ + 1]
  BY SyncThreadTypes DEF PoolInv, OwnThread, RowState, Missed
<1>2. HasRow(h) /\ RowState(h) /\ ledger[h] \in LedgerRow /\ ~HasResult(h)
  BY <1>1, OwnRowStays, SyncThreadBegins DEF HasRow, Keeps, PoolInv, LedgerInv, FinalizeInv,
     FinalizeTypeOK, PoolState
<1>3. at \in [Host -> AtStep] /\ ledger \in [Host -> LedgerRow \cup {NoRow}]
  BY DEF PoolInv, LedgerInv, SyncTypeOK, FinalizeInv, FinalizeTypeOK
<1>4. UNCHANGED <<opts, sync, selected>>
  BY SyncThreadKeeps, SyncThreadTypes DEF PoolInv, OwnAddress, OwnThread
<1>5. UNCHANGED results => ~HasResult(h)'
  BY <1>2 DEF HasResult
<1>6. CASE SyncRead(h)
  <2>1. at'[h] = "snmp" /\ stored'[h] = ledger[h].group /\ UNCHANGED <<ledger, results>>
    BY <1>1, <1>2, <1>3, <1>6 DEF SyncRead, Goes, finalizeVars, PoolInv, LedgerInv, SyncTypeOK
  <2> QED
    BY <1>5, <2>1 DEF RowState, Missed
<1>7. CASE SyncSnmp(h)
  <2>1. PICK id \in SnmpSees[h] : Enter(h, "snmp", id)
    BY <1>7 DEF SyncSnmp
  <2>2. work'[h].method = "snmp" /\ at'[h] = "finalize"
    BY <1>3, <1>7, <2>1 DEF SyncSnmp, Enter, Goes, PoolInv, LedgerInv, FinalizeInv, FinalizeTypeOK, Work
  <2> QED
    BY <2>2 DEF RowState, Missed
<1>8. CASE SyncSilent(h)
  <2>1. at[h] = "snmp" /\ at'[h] = "mark" /\ UNCHANGED <<ledger, stored, results>>
    BY <1>3, <1>8 DEF SyncSilent, Goes, finalizeVars
  <2> QED
    BY <1>1, <1>2, <1>5, <2>1 DEF RowState, Missed
<1>9. CASE SyncMark(h)
  <2>1. /\ at[h] = "mark" /\ at'[h] = IF sync.ssh THEN "ssh" ELSE "done"
        /\ UNCHANGED <<stored, results>>
    BY <1>3, <1>9 DEF SyncMark, Goes
  <2>2. ledger'[h].group = ledger[h].group /\ (~opts.dryrun => ~ledger'[h].snmp)
    BY <1>1, <1>2, <1>3, <1>9 DEF SyncMark, LedgerRow
  <2> QED
    BY <1>1, <1>2, <1>4, <1>5, <2>1, <2>2 DEF RowState, Missed, StillClaims
<1>10. CASE SyncSsh(h)
  <2>1. at[h] = "ssh" /\ at'[h] = "remember" /\ UNCHANGED <<ledger, stored, results>>
    BY <1>3, <1>10 DEF SyncSsh, Goes
  <2> QED
    BY <1>1, <1>2, <1>5, <2>1 DEF RowState, Missed
<1>11. CASE SyncSshFails(h)
  <2>1. /\ at[h] = "ssh" /\ at'[h] = IF Preferred(h) THEN "clear" ELSE "done"
        /\ UNCHANGED <<ledger, stored, results>>
    BY <1>3, <1>11 DEF SyncSshFails, Goes, finalizeVars
  <2> QED
    BY <1>1, <1>2, <1>4, <1>5, <2>1 DEF RowState, Missed, StillClaims, Preferred
<1>12. CASE SyncClear(h)
  <2>1. at[h] = "clear" /\ at'[h] = "done" /\ UNCHANGED <<stored, results>>
    BY <1>3, <1>12 DEF SyncClear, Goes
  <2>2. ~opts.dryrun => ledger'[h].group = NoGroup /\ ledger'[h].snmp = ledger[h].snmp
    BY <1>1, <1>2, <1>3, <1>12 DEF SyncClear, LedgerRow
  <2>3. Preferred(h)' => stored'[h] # NoGroup
    BY SyncAssumption, FinalizeAssumption DEF Preferred
  <2> QED
    BY <1>1, <1>2, <1>4, <1>5, <2>1, <2>2, <2>3 DEF RowState, Missed, StillClaims
<1>13. CASE SyncRemember(h)
  <2>1. /\ at[h] = "remember" /\ at'[h] = "finalize" /\ UNCHANGED <<stored, login, results, work>>
    BY <1>3, <1>13 DEF SyncRemember, Goes
  <2>2. ledger'[h].group = IF login[h] # NoGroup THEN login[h] ELSE ledger[h].group
    BY <1>1, <1>2, <1>3, <1>13 DEF SyncRemember, LedgerRow
  <2> QED
    BY <1>1, <1>2, <1>5, <2>1, <2>2, FinalizeAssumption DEF RowState, Missed
<1>14. CASE SyncFinalize(h)
  <2>1. /\ at[h] = "finalize" /\ at'[h] = "finalize" /\ UNCHANGED <<stored, login>>
        /\ FinalizeStep(h)
    BY <1>14 DEF SyncFinalize, syncVars
  <2>2. work'[h].method = work[h].method /\ UNCHANGED results
    BY <2>1, FinalizeStepKeeps DEF PoolInv, LedgerInv, OnlyThread
  <2>3. ledger'[h].group = ledger[h].group
    <3>1. CASE Upsert(h)
      BY <1>1, <1>2, <1>3, <3>1 DEF Upsert, Upserted, HasRow, Keeps
    <3>2. CASE UNCHANGED ledger
      BY <3>2
    <3> QED
      BY <2>1, <3>1, <3>2, StepWithoutCreation DEF PoolInv, LedgerInv
  <2> QED
    BY <1>1, <1>2, <2>1, <2>2, <2>3 DEF RowState, Missed
<1>15. CASE SyncRecord(h)
  <2>1. /\ at[h] = "finalize" /\ at'[h] = "done" /\ UNCHANGED <<stored, login, ledger>>
        /\ RecordResult(h)
    BY <1>3, <1>15 DEF SyncRecord, RecordResult, Goes
  <2>2. work'[h].method = work[h].method
    BY <2>1 DEF RecordResult, Leave, PoolInv, LedgerInv, FinalizeInv, FinalizeTypeOK, Work
  <2>3. HasResult(h)'
    BY <2>1, RecordedHasResult
  <2> QED
    BY <1>1, <1>2, <2>1, <2>2, <2>3 DEF RowState, Missed
<1>16. CASE SyncFinalizeRaises(h) \/ SyncRaises(h)
  <2>1. SyncFailed(h) /\ UNCHANGED results
    BY <1>16 DEF SyncFinalizeRaises, SyncRaises, FinalizeRaises, finalizeVars
  <2>2. at'[h] = "done" /\ counters' = [counters EXCEPT !.failed = @ + 1]
    BY <1>3, <2>1 DEF SyncFailed, Goes
  <2> QED
    BY <1>5, <2>1, <2>2 DEF RowState, Missed
<1> QED
  BY <1>6, <1>7, <1>8, <1>9, <1>10, <1>11, <1>12, <1>13, <1>14, <1>15, <1>16 DEF SyncThread

(* Fewer rows are missed, or one more and one more has failed.             *)
LEMMA MissedCount ==
  ASSUME PoolInv, LedgerInv', UNCHANGED opts, NEW h,
         \A i \in Host \ {h} : Missed(i)' => Missed(i),
         counters'.failed >= counters.failed,
         ~opts.dryrun /\ h \in Host /\ Missed(h)' => Missed(h) \/ counters'.failed = counters.failed + 1
  PROVE  MissedAreCounted'
<1> DEFINE S == {i \in Host : Missed(i)}
           T == {i \in Host : Missed(i)'}
<1>1. SUFFICES ASSUME ~opts.dryrun PROVE Cardinality(T) <= counters'.failed
  BY DEF MissedAreCounted
<1>2. IsFiniteSet(S) /\ Cardinality(S) \in Nat /\ Cardinality(S) <= counters.failed
  <2>1. S \subseteq Host
    OBVIOUS
  <2>2. Cardinality(S) <= counters.failed
    BY <1>1 DEF PoolInv, MissedAreCounted
  <2> HIDE DEF S
  <2> QED
    BY <2>1, <2>2, HostIsFinite, FS_Subset, FS_CardinalityType
<1>3. counters.failed \in Nat /\ counters'.failed \in Nat
  BY DEF PoolInv, LedgerInv, SyncTypeOK
<1>4. CASE T \subseteq S
  <2> HIDE DEF S, T
  <2>1. Cardinality(T) \in Nat /\ Cardinality(T) <= Cardinality(S)
    BY <1>2, <1>4, FS_Subset, FS_CardinalityType
  <2> QED
    BY <1>2, <1>3, <2>1
<1>5. CASE ~(T \subseteq S)
  <2>1. h \in Host /\ Missed(h)' /\ ~Missed(h) /\ T \subseteq S \cup {h} /\ h \notin S
    BY <1>5
  <2>2. counters'.failed = counters.failed + 1
    BY <1>1, <2>1
  <2> HIDE DEF S, T
  <2>3. IsFiniteSet(S \cup {h}) /\ Cardinality(S \cup {h}) = Cardinality(S) + 1
    BY <1>2, <2>1, FS_AddElement
  <2>4. Cardinality(T) \in Nat /\ Cardinality(T) <= Cardinality(S \cup {h})
    BY <2>1, <2>3, FS_Subset, FS_CardinalityType
  <2> QED
    BY <1>2, <1>3, <2>2, <2>3, <2>4
<1> QED
  BY <1>4, <1>5

LEMMA PoolByThread ==
  ASSUME PoolInv, LedgerInv', NEW h \in Host, SyncThread(h)
  PROVE  PoolInv'
<1>1. PoolState'
  BY PoolStateByThread
<1>2. UNCHANGED <<opts, sync, selected>>
  BY SyncThreadKeeps, SyncThreadTypes DEF PoolInv, OwnAddress, OwnThread
<1>3. \A i \in Host \ {h} : RowState(i)' /\ (Missed(i)' => Missed(i))
  BY <1>2, OthersUndisturbed, UndisturbedRow DEF PoolInv
<1>4. /\ RowState(h)'
      /\ ~opts.dryrun /\ Missed(h)' => counters' = [counters EXCEPT !.failed = @ + 1]
  BY OwnRow
<1>5. /\ counters'.failed >= counters.failed
      /\ counters' = [counters EXCEPT !.failed = @ + 1] => counters'.failed = counters.failed + 1
  <2>1. counters \in Counters
    BY DEF PoolInv, LedgerInv, SyncTypeOK, Counters
  <2>2. \A c \in Counters :
          /\ [c EXCEPT !.failed = @ + 1].failed = c.failed + 1 /\ c.failed \in Nat
          /\ [c EXCEPT !.snmp = @ + 1].failed = c.failed
          /\ [c EXCEPT !.snmp = @ - 1, !.ssh = @ + 1].failed = c.failed
          /\ [c EXCEPT !.not_reachable = @ + 1].failed = c.failed
    BY DEF Counters
  <2>3. CASE counters' = [counters EXCEPT !.failed = @ + 1]
    BY <2>1, <2>2, <2>3
  <2>4. CASE counters' # [counters EXCEPT !.failed = @ + 1]
    <3>1. \/ UNCHANGED counters
          \/ counters' = [counters EXCEPT !.snmp = @ + 1]
          \/ counters' = [counters EXCEPT !.snmp = @ - 1, !.ssh = @ + 1]
          \/ counters' = [counters EXCEPT !.not_reachable = @ + 1]
      BY <2>4, SyncThreadWrites
    <3>2. counters'.failed = counters.failed
      BY <2>1, <2>2, <3>1
    <3> QED
      BY <2>1, <2>2, <2>4, <3>2
  <2> QED
    BY <2>3, <2>4
<1>6. MissedAreCounted'
  BY <1>2, <1>3, <1>4, <1>5, MissedCount
<1> QED
  BY <1>1, <1>3, <1>4, <1>6 DEF PoolInv

(* The onboarding and the operator may delete a row, for good, but not     *)
(* change what the sync has learned of it.                                 *)
LEMMA PoolUndisturbed ==
  ASSUME PoolInv, LedgerInv', UNCHANGED <<opts, results, work, syncVars>>,
         \A h \in Host : pk'[h] >= pk[h],
         \A h \in Host : ledger'[h] # NoRow =>
           /\ ledger[h] # NoRow
           /\ ledger'[h].group = ledger[h].group /\ ledger'[h].snmp = ledger[h].snmp,
         \A h \in Host : ledger[h] # NoRow /\ ledger'[h] = NoRow => pk'[h] > pk[h]
  PROVE  PoolInv'
<1>1. UNCHANGED <<sync, syncStage, selected, rows, at, stored, login, counters>>
  BY DEF syncVars
<1>2. \A h \in Host : rows[h] \in Nat /\ pk[h] \in Nat /\ pk'[h] \in Nat /\ rows[h] <= pk[h]
  BY DEF PoolInv, PoolState, LedgerInv, SyncTypeOK
<1>3. \A h \in Host : HasRow(h)' => HasRow(h)
  BY <1>1, <1>2 DEF HasRow, Keeps
<1>4. \A h \in Host : Undisturbed(h)
  BY <1>1, <1>3 DEF Undisturbed, HasResult, HasRow, Keeps
<1>5. \A h \in Host : RowState(h)' /\ (Missed(h)' => Missed(h))
  BY <1>1, <1>4, UndisturbedRow DEF PoolInv
<1>6. PoolState'
  <2>1. \A h \in Host : rows'[h] <= pk'[h] /\ (h \in selected' /\ ledger'[h] = NoRow => rows'[h] < pk'[h])
    BY <1>1, <1>2 DEF PoolInv, PoolState
  <2>2. \A h \in Host : HasResult(h)' => at'[h] = "done"
    BY <1>1 DEF PoolInv, PoolState, HasResult
  <2> QED
    BY <1>1, <2>1, <2>2 DEF PoolInv, PoolState
<1>7. MissedAreCounted'
  <2>1. counters'.failed >= counters.failed
    BY <1>1 DEF PoolInv, LedgerInv, SyncTypeOK
  <2> QED
    BY <1>1, <1>5, <2>1, MissedCount
<1> QED
  BY <1>5, <1>6, <1>7 DEF PoolInv

LEMMA PoolByOthers ==
  ASSUME PoolInv, LedgerInv', OnboardJob \/ Operator \/ UNCHANGED vars
  PROVE  PoolInv'
<1>1. pk \in [Host -> Nat] /\ ledger \in [Host -> LedgerRow \cup {NoRow}]
  BY DEF PoolInv, LedgerInv, SyncTypeOK, FinalizeInv, FinalizeTypeOK
<1>2. CASE OnboardCommit /\ OnboardJob
  <2>1. UNCHANGED <<opts, results, work, pk, syncVars>>
    BY <1>2 DEF OnboardCommit, OnboardJob
  <2>2. \A h \in Host : /\ ledger'[h] # NoRow <=> ledger[h] # NoRow
                        /\ ledger[h] # NoRow => /\ ledger'[h].group = ledger[h].group
                                                /\ ledger'[h].snmp = ledger[h].snmp
    BY <1>2, CommitWrites DEF PoolInv
  <2> QED
    BY <1>1, <2>1, <2>2, PoolUndisturbed
<1>3. CASE ~OnboardCommit /\ OnboardJob
  <2>1. UNCHANGED <<finalizeVars, pk, syncVars>>
    BY <1>3, OnboardOtherKeeps DEF OnboardJob, PoolInv
  <2> QED
    BY <1>1, <2>1, PoolUndisturbed DEF finalizeVars
<1>4. CASE Operator
  <2>1. /\ UNCHANGED <<opts, results, work, syncVars>>
        /\ \A h \in Host : \/ pk'[h] = pk[h] /\ ledger'[h] = ledger[h]
                           \/ pk'[h] = pk[h] + 1 /\ ledger'[h] = NoRow
    BY <1>1, <1>4 DEF Operator, OperatorDeletes, OperatorEnters
  <2> QED
    BY <1>1, <2>1, PoolUndisturbed
<1>5. CASE UNCHANGED vars
  BY <1>1, <1>5, PoolUndisturbed DEF vars, finalizeVars
<1> QED
  BY <1>2, <1>3, <1>4, <1>5

LEMMA PoolByEngine ==
  ASSUME PoolInv, LedgerInv', SyncEngine
  PROVE  PoolInv'
<1>1. UNCHANGED <<finalizeVars, sync, at, stored, login, pk, counters>>
  BY DEF SyncEngine, SyncSelect, SyncComplete
<1>2. pk \in [Host -> Nat] /\ rows \in [Host -> Nat] /\ counters.failed \in Nat
  BY DEF PoolInv, LedgerInv, SyncTypeOK
<1>3. CASE SyncSelect
  <2>1. /\ selected' = {h \in Host : Chosen(h)} /\ rows' = pk
        /\ syncStage' \in {"nothing", "pool"}
        /\ results = {} /\ \A h \in Host : at[h] = "wait"
    BY <1>3 DEF SyncSelect, PoolInv, PoolState
  <2>2. \A h \in Host : ~HasResult(h)' /\ at'[h] = "wait"
    BY <1>1, <2>1 DEF HasResult, finalizeVars
  <2>3. \A h \in Host : RowState(h)' /\ ~Missed(h)'
    BY <2>2 DEF RowState, Missed
  <2>4. PoolState'
    BY <1>1, <1>2, <2>1, <2>2 DEF PoolState, Chosen, finalizeVars
  <2>5. MissedAreCounted'
    <3>1. {h \in Host : Missed(h)'} = {}
      BY <2>3
    <3> QED
      BY <1>1, <1>2, <3>1, FS_EmptySet DEF MissedAreCounted
  <2> QED
    BY <2>3, <2>4, <2>5 DEF PoolInv
<1>4. CASE SyncComplete
  <2>1. /\ UNCHANGED <<opts, results, work, ledger, selected, rows>>
        /\ syncStage' = "completed" /\ \A h \in selected : at[h] = "done"
    BY <1>1, <1>4 DEF SyncComplete, finalizeVars
  <2>2. \A h \in Host : Undisturbed(h)
    BY <1>1, <2>1 DEF Undisturbed, HasResult, HasRow, Keeps
  <2>3. \A h \in Host : RowState(h)' /\ (Missed(h)' <=> Missed(h))
    BY <1>1, <2>1, <2>2, UndisturbedRow
       DEF PoolInv, Missed, HasResult, HasRow, Keeps, StillClaims, Preferred
  <2>4. PoolState'
    BY <1>1, <2>1 DEF PoolInv, PoolState, HasResult
  <2>5. MissedAreCounted'
    <3>1. {h \in Host : Missed(h)'} = {h \in Host : Missed(h)}
      BY <2>3
    <3> QED
      BY <1>1, <2>1, <3>1 DEF PoolInv, MissedAreCounted
  <2> QED
    BY <2>3, <2>4, <2>5 DEF PoolInv
<1> QED
  BY <1>3, <1>4 DEF SyncEngine

LEMMA PoolInit == Init => PoolInv
<1>1. SUFFICES ASSUME Init PROVE PoolInv
  OBVIOUS
<1>2. LedgerInv /\ \A h \in Host : at[h] = "wait" /\ ~HasResult(h)
  BY <1>1, LedgerInit DEF Init, SyncInit, HasResult
<1>3. PoolState
  BY <1>1, <1>2 DEF Init, SyncInit, PoolState
<1>4. \A h \in Host : RowState(h) /\ ~Missed(h)
  BY <1>2 DEF RowState, Missed
<1>5. {h \in Host : Missed(h)} = {}
  BY <1>4
<1>6. MissedAreCounted
  BY <1>1, <1>5, FS_EmptySet DEF MissedAreCounted, Init, SyncInit, NoCounters
<1> QED
  BY <1>2, <1>3, <1>4, <1>6 DEF PoolInv

LEMMA PoolInvariance == Spec => []PoolInv
<1>1. PoolInv /\ LedgerInv' /\ [Next]_vars => PoolInv'
  BY PoolByThread, PoolByOthers, PoolByEngine DEF Next, SyncJob, SyncStep
<1> QED
  BY <1>1, PoolInit, LedgerInvariance, PTL DEF Spec

(* When the sync ends, a row it selected has a new result, or no longer    *)
(* claims what was found not to be so, or is counted as failed.            *)
THEOREM NoRowIsMissed == Spec => []SyncMissesNoRow
<1>1. ASSUME PoolInv PROVE SyncMissesNoRow
  <2>1. SUFFICES ASSUME syncStage = "completed", ~opts.dryrun
                 PROVE  Cardinality({h \in selected : HasRow(h) /\ ~HasResult(h) /\ StillClaims(h)})
                          <= counters.failed
    BY DEF SyncMissesNoRow
  <2>2. {h \in selected : HasRow(h) /\ ~HasResult(h) /\ StillClaims(h)} = {h \in Host : Missed(h)}
    BY <1>1, <2>1 DEF PoolInv, PoolState, LedgerInv, SyncTypeOK, Missed
  <2> QED
    BY <1>1, <2>1, <2>2 DEF PoolInv, MissedAreCounted
<1> QED
  BY <1>1, PoolInvariance, PTL

(* A row that was collected over SSH keeps the group that let the job in,  *)
(* although the onboarding and the operator write the ledger meanwhile.    *)
THEOREM RowsRememberTheirGroup == Spec => []RememberedGroupWorks
<1>1. PoolInv => RememberedGroupWorks
  BY DEF PoolInv, RowState, RememberedGroupWorks, LedgerInv, SyncTypeOK
<1> QED
  BY <1>1, PoolInvariance, PTL
=============================================================================
