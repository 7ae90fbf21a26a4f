# Device Auto-Discovery: a verification development

TLA+ models of the Nautobot plugin in `src/nautobot_plugin_device_auto_discovery`,
their TLC instances, and theorems checked by TLAPS. The plugin scans networks over
ICMP, SNMP and SSH, correlates what it finds with the Nautobot inventory, creates
Device records, and keeps a `DiscoveredDevice` ledger of every address it has seen.
Paths below are relative to that directory unless they start with `src/`.

## 1. Inventory

### Parts, their state and their operations

| Part | Source | State | Operations |
|---|---|---|---|
| Correlation | `correlation.py` | none (reads Device and IPAddress) | `correlate_device`: new / imported / partially_imported / conflict |
| Finalization | `jobs.py` 262-442, 798-1013 | Device, DiscoveredDevice, DiscoveryResult tables | `finalize_discovery`: correlate, create or complete the device, upsert the ledger row, record the result |
| Full / Network Device Discovery | `jobs.py` 1781-2366 | the DiscoveryScan row; `live_hosts`, `snmp_results`, `discovered_hosts`, `ssh_targets`, `pre_scan_state`, five counters | ping sweep, SNMP batches, SSH, totals |
| Credentials, Fast Path | `secrets.py`, `jobs.py` 866-928 | the secrets group of a ledger row | candidate order, first success, remember the group, eligibility, self-correction |
| Crawl | `jobs.py` 2374-2701 | `visited`, the level queue, counters | breadth-first SNMP crawl with a depth and a device cap |
| Sync | `jobs.py` 3382-3660 | counters, ledger rows | re-collect known devices over SNMP then SSH |
| Onboarding | `jobs.py` 3147-3380 | Device and ledger rows | create devices for selected ledger rows |
| VRF routes | `jobs.py` 2704-3130 | VRF and Prefix rows, `seen_prefixes` | collect routes, create prefixes |
| Cables | `jobs.py` 450-640, `snmp_tables.py` 1011-1123 | Cable rows, interface caches | join two interfaces per neighbor entry |
| Population | `jobs.py` 1133-1462 | Interface, IPAddress, Prefix, VLAN, VRF rows | idempotent creation from SNMP tables |
| Classification | `classification.py`, `signals.py` | results per ledger row, a process-wide sentinel | evaluate ordered rules on every save |
| Configuration | `jobs.py` 171-175, 648-735 | the settings dict | precedence of profile, job input and settings |
| Hostname suffixes | `utils.py` | none | longest matching suffix |
| Collection | `snmp_tables.py`, `ssh_parsing.py`, `ssh_profiles.py`, `mappings.py`, `filters.py` | none | sessions and parsers |
| Presentation | `forms.py`, `views.py`, `tables.py`, `api/`, `templates/` | none | start jobs, list rows |

### Interactions

A job runs in one Celery worker. It starts a `ThreadPoolExecutor` per phase (per SNMP
batch, per crawl level) and joins it. Every thread collects one host and calls
`finalize_discovery`, so the threads meet in the database: there is no lock and no
transaction around correlation and creation, and `Device.name` is not unique for
devices without a tenant. Counters and dictionaries of the job are shared under a
lock. A ledger row's `post_save` signal runs the classification in the saving thread,
inside the transaction of an `update_or_create` and before it is committed. An
address has one IPAddress row per IPAM namespace; the plugin itself makes rows in the
namespace of each VRF, and looks an address up by the first row of the host.

### What is hard, and what makes each part correct

* *Interleavings of finalization.* Correct when two threads do not make two devices
  of one box, do not overwrite each other's columns, and link only to devices that
  exist.
* *Phases.* Correct when each host is recorded once, SSH covers exactly what SNMP
  left, whatever raises on the way, and the scan's totals account for every host.
* *Partial failure.* `create_device_in_nautobot` turns exceptions into a status,
  `finalize_discovery` lets them out, the SNMP phase only logs them, the SSH phase
  counts them.
* *Memory between runs.* Correct when a rerun recognises what the last run made, and
  the Fast Path finds what was remembered.
* *Bounded loops.* Batches, crawl depth and device caps. Correct when no address
  beyond a cap is probed and none below it is lost.
* *Stale reads.* Snapshots of rows, of interfaces and of whole Device objects; two
  jobs, a job and an operator, or two web requests work on the same rows. Correct
  when a row remembers what was learned last, an onboarding is all or nothing, an
  interface gets one cable and suggestions follow the rules in force.
* *Tags.* A route is tagged by the context or the command that showed it. Correct
  when nothing ends in the namespace of a VRF that does not have it.

`PROJECT.json` lists each hazard at its line.

## 2. Modules

| Module | Models | Uses |
|---|---|---|
| `Correlation` | the Device table as correlation sees it; `correlate_device` as operators | |
| `Finalize` | `finalize_discovery`, one action per database round trip | `Correlation` |
| `DiscoveryScan` | the three-phase engine composed with `Finalize` | `Finalize` |
| `ScanOutcome` | abstract specification: what a scan promises per host | |
| `Rediscovery` | one address probed again while devices are added | `Correlation` |
| `CrawlDiscovery` | the crawl job composed with `Finalize` | `Finalize` |
| `BoundedCrawl` | abstract specification: what a crawl promises | |
| `SyncDevices` | the sync job composed with `Finalize` | `Finalize` |
| `Onboarding` | the onboarding job, on the tables of `SyncDevices` | `SyncDevices` |
| `LedgerJobs` | both jobs and an operator at the same time | `Onboarding` |
| `VrfRoutes` | the VRF route job: collection by context and command, creation in IPAM | |
| `Cabling` | population of interfaces and addresses, neighbor tables, cables, two jobs | |
| `Classification` | rules, signal handlers and stored suggestions, in concurrent threads and transactions | |
| `LedgerJobsProofs` | theorems about `SyncDevices`, `Onboarding` and `LedgerJobs` | `LedgerJobs` |
| `CrawlProofs` | theorems about `CrawlDiscovery` and its refinement | `CrawlDiscovery` |
| other `...Proofs` | theorems | the module named |
| `MC...` | instances for TLC | |

### Correlation

A Device is its name, its serial and the IPAddress row that is its primary IP: a host
address in a `Namespace`. Blank values are `NoName`, `NoSerial`, `NoIp`.
`DevicesWithIp` takes one row, as `_devices_with_ip` takes the first of the host's
rows and finds only the devices that have that very row. `Matches` is the union of
the three queries of `_correlate`, `AllKnownAgree` the attribute comparison,
including that the address counts as agreeing when *some* device has its first row.
`Fold` stands for `iexact` on names; serials are taken up to case.

### Finalize

`work[h]` is the thread of host `h`: the step it is at, what it collected, the status
and device it holds, and `obj`, the Device object it read and will save.

| Action | Code |
|---|---|
| `CorrelateDryRun`, `CorrelateImported`, `CorrelateNew`, `CorrelateForReview` | the branches of `finalize_discovery`, with the queries of `correlate_device` |
| `LookupDisabled`, `LookupNone`, `LookupExisting` | the lookup by exact name in `resolve_nautobot_objects` |
| `Upgrade` | `existing_device.save()`, all columns |
| `Insert` | `Device.objects.create` |
| `AssignPrimary`, `PrimaryFails` | the primary IP, tested on the object in hand |
| `CreateRaises` | the `except` of `create_device_in_nautobot` |
| `Upsert` | `upsert_discovered_device` |
| `RecordResult`, `FinalizeRaises` | `DiscoveryResult.objects.create`, or an exception to the caller |

A query and the decision on its answer are one step; two queries are two steps. The
three queries of one correlation are one step, which only leaves out a device
changing between them. Which row of an address is its first is a choice at each
correlation (`Correlated`): rows are ordered by host and mask length only, and other
devices, jobs and operators add some at any time, so this allows orders that a
database with a fixed set of rows would not show. The device key a thread inserts is
`<<host, method>>`; keys are never compared otherwise. A device type or platform that
is a placeholder is not carried: `LookupExisting` allows the save it would cause at
any time. `StrictColumns` says whether the database refuses a value longer than its
column (PostgreSQL and MySQL do). `Faults` lets any database call raise.

### DiscoveryScan

`PingSweep` is one step because its threads only add to a set; which hosts answer is
a choice within `PingSees`. A batch is any subset of the right size (the code takes
sorted slices; order matters to no property). A pool of *n* threads is the guard
`Free(n)`. What a host answers is chosen when its thread probes it, within `SnmpSees`
and `SshSees`. `SshCollect` stores the working group *before* finalization, as the
code does. `SshFastPathLookup` is the lookup in `snmp_results` that fails for every
target. Counters are unbounded naturals, and finite because each host is worked on
once per phase.

### Rediscovery

`PluginAdds` is the undisturbed effect of finalizing a new host, `OperatorAdds`
anything a person enters, `AddressAdded` a row of the address in one more namespace.
Any row in `FirstRows` may be the one the next correlation takes. The address and
what it answers are fixed.

### CrawlDiscovery

`hop` is the visited set, with the level at which an address was queued; `level` is
the queue of one level and its pool is joined before `NextLevel`. After its result a
thread considers the entries of its neighbor table one at a time: `Admits` and the
update are one step because the code makes both under the lock, the lookups of
`ManagementIps` are in the same step because they only read. `ConsiderRaises` is the
exception that loses a thread's neighbors but not their place in the visited set.
`BoundedCrawl` knows only which address was reached at which hop and which were
discovered.

### SyncDevices, Onboarding, LedgerJobs

| Action | Code |
|---|---|
| `SyncSelect`, `SyncRead` | the queryset of the job; the row a thread reads by primary key |
| `SyncSnmp`, `SyncSilent`, `SyncMark` | `_collect_snmp`, `_mark_unreachable` |
| `SyncSsh`, `SyncSshFails`, `SyncClear`, `SyncRemember` | `_collect_ssh`: candidates, self-correction, `record_ssh_success` |
| `SyncFinalize`, `SyncRecord`, `SyncFinalizeRaises`, `SyncRaises` | `_apply` and the `except` of `sync_one` |
| `OnboardStart`, `OnboardSkip`, `OnboardDryRun` | selection and the early `continue`s |
| `OnboardLookup`, `OnboardCommit`, `OnboardFails` | one `transaction.atomic` block: its read, and all its writes or none |

A row has an address and a primary key: `pk` counts how often the row of an address
was deleted. Writes by primary key do nothing on another row of the same address,
writes by address (`update_or_create`) make one. `MaxDeletions` bounds the operator.
The transaction of an onboarding is two steps, as under the default isolation other
jobs commit between its read and its commit.

### VrfRoutes

`box` is what each device has. `Collect` is a whole collection, because it writes
nothing: the walks in `down` fail, SNMP version 3 walks the contexts of the VRFs it
has found, the walk without a context of its own shows the table of the form's
context (`Shown`), and `WithSsh` adds what the commands show, with the tag a parser
takes from the command. Creation is one action per `get_or_create`, each of which may
be refused; `MayRaise` are the lookups outside any `try`, `Raises` ends the thread
and `FutureRaised` is the main thread that finds the exception in its future and
counts it. The object of a VRF and its namespace are one value; `NamespaceOf` is the
fallback to the default namespace when a tag has no object.

### Cabling

A port is a primary key, an ifIndex and a name at once, and a *site* says what a box
reports: the LLDP or the CDP table, the column that translates LLDP port numbers,
names with or without domain, the addresses its ports have, and the address it
*announces* from each port: `lldpRemManAddr` and `cdpCacheAddress` are management
addresses of the neighbor, which may be on any of its interfaces, or on another box.
`assigned` is the interface of the first row of an address; a row of another
namespace may come before it. `TakeResult` reads the interfaces of a device with
their cable, `Examine` resolves the far end and tests its cable, `Connect` creates:
two jobs interleave between them.

### Classification

`doing` and `tasks` are the handlers of an actor. `CheckFlag` and `Recompute` are two
steps, as the code tests and sets `_SENTINEL` in two statements; `Evaluate` and
`Store` are the read of the rules and the write of one suggestion. A save is
committed at once (`save()` outside a transaction) or laid in the `draft` of the
actor, together with what its handlers write, until `Commit`: `update_or_create` and
`delete()` run their handlers inside a transaction of their own, and the views save
in one. Others see what is committed when they ask (read committed), wait for a row
that a draft has changed, and `Fails` undoes the draft, as it does for the loser of a
deadlock. `torn` is history: the rows whose last handlers overlapped, failed or were
dropped, or were at work when another actor committed a rule.

## 3. Runs

| Run | Instance | Checks |
|---|---|---|
| `ScanPool` | 2 hosts, 2 threads, 8 job forms, 3 inventories, 2 ledgers, no faults | types; no orphaned device; balanced totals; every answering host has a row; dry runs write no device; refinement of `ScanOutcome` |
| `ScanSerial` | 3 hosts with addresses in 2 namespaces, 1 thread, batches of 2, fairness, all job forms but the Fast Path | the scan completes; SSH reaches what SNMP did not identify; no duplicate devices and existing means agreement, which hold without interleavings only |
| `ScanFaults` | 3 hosts, 2 threads, batches of 2, faults | one result per host, the phase structure, links, finality, with exceptions anywhere |
| `Rediscovery` | 2 addresses, 2 namespaces, 3 spellings of 2 names, 2 serials, 3 devices, every row an operator may enter | the verdict's meaning and stability |
| `Crawl` | 5 addresses, 2 threads, 4 networks, 4 forms (depths 2 to 4, caps 4 and 6), faults, fairness | types; refinement of `BoundedCrawl`; no reachable neighbor is lost below the cap; the crawl ends |
| `LedgerJobs` | 2 rows, 2 groups, 3 sync forms, 3 onboarding forms, 1 deletion per row, 1 entered device, faults, fairness | types; no row is passed over; remembered groups work; onboarding is atomic and counted once; both jobs end |
| `VrfRoutes` | 2 boxes, 2 VRFs and the global table, 2 networks, 3 pairs of platforms, 3 outages, 7 forms | types; isolation of VRFs; a network is stored where its first report belongs; one count per host |
| `Cabling` | 2 boxes, 4 ports, 2 wires, up to 2 jobs; 3 sites that announce addresses of ports, 1 with a shared address and two jobs, 3 with one job (one row per neighbor, two rows, a hub) | types; when an interface has one cable; where a cable leads; what resolves is not passed over |
| `Classification` | 1 row, 2 rules in 4 versions, 2 threads of one process, with and without transactions | types; suggestions are those of the rules in force; the flag is held by a recomputation |

Two hosts are enough for the races of a scan, which are between two threads that find
one box; the third host makes batches of two leave a remainder and lets a thread work
while another ends. Names cover a stripped suffix, a case difference and a different
name; serials cover equal, different and blank. Three devices let a conflict of two
be joined by a third. The crawl's networks are a line, a square with a tail (one
address is reported by two threads of a level), a tree whose leaves compete for the
last place under the cap, and one that is known by names only; depth 4 lets a third
level begin. In `LedgerJobs` one row holds a group that may have stopped to work, and
one deletion is enough for a write by primary key to meet a row that was made again.
In `VrfRoutes` one network is in two VRFs of one box and in a VRF of the other. Two
namespaces are enough for a second row of an address to come before the first. The
wires of `Cabling` cross in the order of primary keys, so that sorting matters, and
box *a* numbers its LLDP ports differently from its interfaces; the shared management
address is on one of the two wired ports of its box, and the other link resolves to
that port. The rule versions of `Classification` are one that finds one object for
one hostname and two for the other, a later one that finds another object, and the
first switched off or with an empty scope: two rules compete for every suggestion.
One row is enough because rows meet only in the recomputation that takes them all;
the theorems speak of any number.

*Fairness.* The job's thread and each worker take a step when they can. Network calls
have timeouts and the pools have no other way to wait, so nothing in the code blocks
a thread for ever. No fairness is assumed of an operator. Cancelling a job (the soft
time limit) is not modelled.

Deadlock checking is off where a completed job stops.

### What the code does not keep

Each of these runs checks one statement of the documentation, a comment or a test,
and TLC finds it violated. `PROJECT.json` quotes the lines.

| Run | Statement | What happens |
|---|---|---|
| `ScanFastPath` | SSH covers hosts SNMP did not identify | `snmp_results[ip]` raises for every target with a stored row: with the Fast Path on, those hosts are skipped |
| `ScanSerialKept` | set data is not overwritten | a stale object is saved over it |
| `SyncDryRun` | a dry run of the sync touches nothing | the row of every host that answers is rewritten, without its link |

## 4. Proofs

All theorems hold for every set of hosts, addresses, names and serials, every
inventory and ledger, every pool and batch size. The assumptions are those the
modules name: `CorrelationAssumption`, `FinalizeAssumption` (the shapes of the
constants, and keys of new devices that are not in use), `ScanAssumption`,
`StartAssumption` (what a run may find: links of the ledger lead to rows),
`HostIsFinite` of the scan and of the sync, which the cardinalities of the counters
need, `CrawlAssumption`, `CrawlStart`, `SyncAssumption`, `OnboardAssumption` and
`LedgerJobsAssumption` (shapes of the constants, and links that lead to rows at the
start), `Rows0Assumption`, `RoutesAssumption` and `CablingAssumption` (shapes of the
constants; a wire has two ends), and `ClassificationAssumption` (rules are in the
order of their names; a query has finitely many objects to find). TLC evaluates each
of them.

`FinalizeProofs` shows what every step of finalization keeps, for any job that
composes it: `FinalizeInv`, the conjunction of the types, `ObjectInHand` (a thread
about to save holds a row, which makes `Upgrade` and `AssignPrimary` keep the types),
`LinksExist`, and `DryRunReports` (no thread of a dry run reaches creation).
`ThreadStep` is the frame rule, the other lemmas apply it action by action, and
`FinalizeStepKeeps` collects them with `OnlyThread`: the step belongs to one thread
and leaves its protocol, the other threads and the results alone. `CreatedIsKept` and
`RowBeforeResult` follow a device that was created: until its row links to it, it is
in the hands of its thread, and the row is written before the result. A scan and a
crawl have different phases but the same threads, so these lemmas are stated of a
thread's step and of the steps in which one enters or leaves finalization.

`DiscoveryScanProofs` proves `ScanInv`, which adds `PhasesAreSeparate` to it.
`OneResultPerHost` alone is not inductive: that an SNMP thread about to record has no
result yet follows from the dictionaries holding exactly the recorded hosts, whose
threads are done; that an SSH thread has none follows from the targets being disjoint
from them. There is one lemma per action and `NextKeeps` joins them. From `ScanInv`
follow `TypeCorrect`, `ResultsAreUnique`, `PoolsAreJoined`, `FastPathIsDead` and
`NoDanglingLink`; with `OnlyThread` the action properties `DryRunIsHarmless` and
`CompletedScanIsFinal`; and `EngineKeepsOutcome`, the refinement: recording a result
is `Record`, ending a phase is `Advance`, every other step stutters.

Six properties of a scan need more than `ScanInv`. `NoOrphans` is `CreatedIsKept`,
for each step of the engine. `AnsweringHostsAreRecorded` rests on `AnswerInv`: a host
whose row was stored, or whose result was, has a ledger row (`AnsweredHaveRows`); one
that always answers has a row or is still in `todo` or unfinished in its batch or
among the targets, and `BatchesAreFresh` says that the slices of the batches do not
take a host that a thread has had already. Nothing is lost between the phases because
SSH targets are what is live and not found. `TotalsAccount` rests on `Balance`: in
the SNMP phase nothing is counted but the keys of the dictionaries, which the results
equal in number; in the SSH phase every action moves as many hosts into `Collected`
as into `Accounted`, and only an exception of the database makes `Accounted` the
larger. `SshReachesWithoutFastPath` has the hypothesis that the Fast Path is off,
because `ScanFastPath` shows what happens otherwise; `SshIsCounted` counts a target
that always logs in when its thread begins. `OneThreadMakesNoTwins` and
`OneThreadImportsTruly` assume `SnmpWorkers = SshWorkers = 1`, because with more
threads the statements are false: nothing in `finalize_discovery` keeps two threads
apart. `SerialInv` says what its reads guarantee to a thread that works alone
(`StillSo`: what matched nothing at correlation matches nothing at the insert, what
was imported still is when it is recorded) and that its key is not in use
(`KeysAreFree`). It also shows that `LookupExisting` and `Upgrade` are never reached
without a race. None of these theorems assumes that the database does not fail,
unless the property says so.

`CrawlProofs` proves `CrawlInv`. `WorksOnLevel` and `Distances` tie threads to the
level being worked on and addresses to their hop; `ConsideredAreVisited` is
`CrawlCovers` for the neighbors considered so far, and becomes it when the crawl
completes, since every visited address has been taken unless something failed
(`NothingDropped`) and no neighbor is pending once the pool is joined (`Ended`).
`CrawlKeepsBounds` is the refinement: `Start` is `Begin`, `Consider` a `Reach` when
it admits an address, `Record` a `Discover`, `Complete` is `End`, and everything else
stutters. That a step of `BoundedCrawl` finds its reporter discovered is
`ResultsAreDone`: a thread turns to its neighbors after its result.
`CrawlStaysWithinCaps` says what the refinement promises of the caps in the crawl's
own terms, and `CrawlLeavesNoOrphan` is `CreatedIsKept` for its threads.

`LedgerJobsProofs` proves `LedgerInv` of both jobs and an operator together. A sync
never creates (`NoCreation`), so every new device is the onboarding's, and
`OnboardState` says that a row still to come, or in an open transaction, was read and
has no device of this job: that is what makes `OnboardIsAtomic` and the counts exact
although rows are deleted meanwhile. For the sync `PoolInv` adds what a row says
while its thread is on its way (`RowState`), unless it was deleted: primary keys only
grow, so a row that was made again is never taken for the one that was read
(`PoolState`). `RowState` gives `RowsRememberTheirGroup`; with `MissedAreCounted`,
the count of failures when threads end one by one, it gives `NoRowIsMissed`.

`RediscoveryProofs` proves, whichever row of the address comes first, the meaning of
imported; that a conflict stays one and a match stays found while the same row comes
first (and what name and serial match, whichever does); and what the next probe says
of a device the plugin created: never new; imported when its own row comes first,
conflict when that row is the primary IP of a second device, partially imported
otherwise.

`VrfRoutesProofs` proves `RoutesInv`: the types with `Isolated`, which says that
every row in a thread's hands carries the tag of a table its device has the network
in, or none (`Sound`, shown of each walk, command and context of a collection), and
so does everything stored. `VrfsAreIsolated` is its half about the tables.
`NetworksAreKept` needs two more facts. `Settled`: once VRFs are made, each VRF that
was collected is in `vrf_map` or was refused, so that the namespace a tag means no
longer changes; this is why VRFs are created before prefixes, and it rests on `Named`
(a tag of a route is the name of a collected VRF). `Pursued`: a collected row is
still to come or its network is in `seen_prefixes`, so that the row taken for a
network not yet seen is one of its first reports; and a network is seen only if one
of these was stored where it belongs, or was refused. `HostsAreCounted` counts the
threads at each end; one that raised is at none of them until the main thread has
counted it.

`CablingProofs` proves `Reality`: assigned addresses, rows, pairs and cables lead
from the end of a wire to what the other end announces. `CableEndsAreUnique` has two
cases. Where ports announce their own addresses two cables of one interface would be
the same, although both jobs decide on cached interfaces: what saves the tables is
that both make the same cable and `get_or_create` finds it. Where one job hears of
each neighbor once, `FreshHands` says that what it took for free still is: a port is
in one row (`OneRowPerPort`), and no other box is linked meanwhile (`AtWork`).
`LinksEndCabled` rests on `OnItsWay`: a link that can be resolved is cabled, or leads
to a cabled interface, or its device, row or pair is still in the job's hands; what
can be resolved is fixed once interfaces are populated.

`ClassificationProofs` proves `ClassInv`: types, `FlagIsHeld`, `Bookkeeping` and
`Rows`. `Bookkeeping` is about transactions: two never change one suggestion
(`Locked`), an actor that rests has neither a draft nor a row (`Resting`), and
suggestions of rows that an actor does not hold are in its draft only where there are
some and it has deleted a rule (`Cascade`). `Rows` follows each row that is not torn.
While a handler holds it, it is `InHand`: nobody else works on it, the handler knows
its status and hostname as they are, what it evaluated is the winner of the rules it
sees (`Evaluated`), and what it has written, in its draft or not, is what they say
(`Written`). When nobody does, it is `Settled`: its suggestions are current, or a
rule was committed and its handler is on its way. When nothing runs, only the first
is left, which is `SuggestionsFollowRules`. That the first of the rules exists comes
from `SmallestMember`, a lemma about naturals, since no bound is assumed of their
number.

Every safety property of a passing run is the subject of a theorem. Only
model-checked are the liveness properties `ScanCompletes`, `CrawlEnds` and
`LedgerJobsEnd`, which need ENABLED and are beyond the prover, and the runs that
expect a violation.

## 5. Limits of the code that the models show

Seen while modelling; no run of their own states them.

*Correlation.* `_devices_with_ip` asks only for the first IPAddress row of a host
(`correlation.py` 24-27), while the plugin makes a row per VRF namespace (`jobs.py`
1172-1189, 1424-1444) and the primary IP of a new device may be any of them
(421-436). A device that agrees in everything is only partially imported when another
row comes first, and a match by the address alone is lost: the address is new again.
`CreatedIsImported` and `ConflictStays` say exactly when.

*Finalization and scan.* Two threads that find one box create it twice (`NoTwins`
holds for pools of one thread only). Devices created in the SNMP phase are not in
`devices_created` (`jobs.py` 2127). `partially_imported` has no entry in
`_correlation_status_for` and is stored as `new`; it does not fit
`DiscoveryResult.result_status`. The first run of an address stores no secrets group,
because the row does not exist yet (2194). A stale object also overwrites the primary
IP (337, 434). A device that matches by hostname alone is partially imported, because
the address never agrees (`correlation.py` 85). `LookupExisting`, with all its
completing of blank fields, is reached only by a race, because correlation has found
any device of that name before.

*Crawl.* A maximum depth of *N* follows *N - 1* hops: the seed is level one. When the
cap is reached, the addresses that were admitted to the queue are not probed.

*Sync.* Counting: an SSH success takes one from the SNMP counter that was never
raised for it, so `devices_discovered` is the number of SNMP results only. The row's
status is never set to `not_reachable`. `update_or_create` makes a row again that was
deleted during the sync. An exception of a thread's first read (3586) is outside its
`try` and dropped by the main thread (3637); `SyncRead` does not raise in the model,
and `SyncMissesNoRow` holds only then. A stored group is given up only when it was
tried.

*Onboarding.* The lookup is by exact name only. A sync thread that correlated the row
before the device was made removes its link again.

*VRF routes.* `seen_prefixes` is keyed by the network only (3105): of two VRFs of a
box with one network only the first reported is stored, although
`ensure_vrf_namespace` says that addresses inside a VRF, "which may overlap the
global space or other VRFs", live in a namespace of their own (1175-1179). Routes
fall into the default namespace when VRFs are not populated or were refused, and for
the tags of Junos (`X.inet.0`) and Nokia (`route-table`), which name no VRF. With
`snmpv3_context_name` the default walk is that of a VRF and its rows have no tag:
they are stored as global. `FirstReportIsStored` therefore says where *one* report of
a network is stored, and `VrfIsolation` that nothing is stored in a VRF by mistake;
neither says that a network reaches each table it is in. The Fortinet parser also
reads Comware output (`ssh_parsing.py` 307-312); its rows, without a VRF, are not
modelled.

*Cables.* The far end is looked up by the address the neighbor announces first
(491-501). With one management address per box the cable leads to the interface with
that address, not to the port (`CablesAreReal` says so); of two links that share it
the second is passed over, because that interface is cabled (`LinksAreCabled`); and
two jobs, or the LLDP and the CDP row of one neighbor, may join one interface twice,
as *p* with *M* and *M* with *q* differ in both sides and Nautobot compares
terminations of the same side only, although "any endpoint that is already cabled" is
meant to be skipped (533-534). A hub port with several neighbors can end in two
cables, since `local_iface.cable` is cached (556, 570). `CableEndsUnique` states the
conditions. `OID_LLDPLOCPORTIFINDEX` is column 4 of `lldpLocPortTable`, in LLDP-MIB a
description; a box without an ifIndex there gets no cable from its LLDP rows
(`column` of a site). Addresses are looked up in any namespace.

*Classification.* Handlers of one row that overlap leave suggestions of rules that
are no longer in force (`torn`), although the handlers are meant to keep them
current; so do a recomputation that another thread's flag suppresses and one that
cannot see a rule which is saved or deleted in a transaction that is still open.

## 6. Not modelled

* `populate_vlans`, namespaces of population, device types, platforms and tags:
  idempotent calls on one device that no other part reads.
* The text of collection: sessions, prompts, regular expressions, OID decoding. The
  models take what a collector may return, and where a parser decides something that
  matters later (the VRF tag, the port number) they model the decision.
* Configuration: the precedence of profile, job input and settings is straight-line
  code; runs take its outcome as a constant.
* Job cancellation. Nothing in the code recovers from it.
* The Fast Path's freshness test (`fast_path_eligible`): the engine fails before it.
* Migrations, forms, views, filters, the API: no state of their own.

## 7. Plan

1. `HostnameSuffix` and the batch slicing as algorithms against a reference.
2. A cancelled job as a crash action of the engine.
