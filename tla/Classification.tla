--------------------------- MODULE Classification ---------------------------
(***************************************************************************)
(* Suggestions of location, role and tenant for the rows of the ledger     *)
(* that are not imported.  classify_device evaluates the rules and replaces*)
(* the stored suggestions of a row, target by target, each with a query of *)
(* its own.  Signal handlers run it: when a rule is saved or deleted, for  *)
(* every new row; when a row is saved, for that row.  Web requests and     *)
(* jobs do both at once; a flag that belongs to the process keeps a        *)
(* recomputation from starting another one.                                *)
(*                                                                         *)
(* What a rule extracts from a hostname and finds with it is one function: *)
(* finds[hostname] is what its query returns.  Devices and targets of one  *)
(* handler are taken in any order.                                         *)
(*                                                                         *)
(* A rule that is deleted, and whatever is saved by update_or_create or by *)
(* a view, is saved in a transaction, and its handlers run before it is    *)
(* committed: until then others see neither the rule or row nor what the   *)
(* handlers store.  A plain save() is committed at once, and so is each    *)
(* query of its handlers.  Queries see what is committed when they start;  *)
(* a row of the database that one transaction has changed makes the others *)
(* that want to change it wait.                                            *)
(***************************************************************************)
EXTENDS Naturals, FiniteSets

CONSTANTS
  Host, Hostname, Target, Object,
  Rule,          \* the rules, in the order of their names
  RuleVersions,  \* what an editor may make of a rule
  NoRule, NoResult, NoTask,
  Same,          \* a transaction has not changed this
  Actor,         \* threads that save rules and rows
  Process,
  ProcessOf

Status == {"new", "other"}

RuleVersion ==
  [target : Target, weight : Nat, active : BOOLEAN,
   scope : SUBSET Host, finds : [Hostname -> SUBSET Object]]

DeviceRow == [status : Status, hostname : Hostname]

Result == [rule : Rule \cup {NoRule}, object : Object]

Task == [host : Host, hostname : Hostname, target : Target]

(* What a transaction has changed.                                         *)
Draft ==
  [rules : [Rule -> RuleVersions \cup {NoRule, Same}],
   ledger : [Host -> DeviceRow \cup {Same}],
   results : [Host \X Target -> Result \cup {NoResult, Same}]]

NoDraft ==
  [rules |-> [r \in Rule |-> Same], ledger |-> [h \in Host |-> Same],
   results |-> [key \in Host \X Target |-> Same]]

ASSUME ClassificationAssumption ==
  /\ Rule \subseteq Nat
  /\ RuleVersions \subseteq RuleVersion
  /\ NoRule \notin RuleVersions /\ NoRule \notin Rule
  /\ NoResult \notin Result
  /\ Same \notin RuleVersions \cup {NoRule} \cup DeviceRow \cup Result \cup {NoResult}
  /\ IsFiniteSet(Object)
  /\ ProcessOf \in [Actor -> Process]

VARIABLES
  rules, ledger,
  results,  \* the stored suggestions
  draft,    \* what the transaction of each actor has changed of these
  doing,    \* of each actor: "idle", "signal", "enter", "recompute", "save", "purge", "commit"
  tasks,    \* the rows and targets it has yet to write
  task,     \* the one it has evaluated
  winner,   \* and the outcome
  flag,     \* _SENTINEL of each process
  held,     \* the rows its handler works on, until it ends or commits (history)
  torn      \* rows whose handlers overlapped or were dropped (history)

actorVars == <<doing, tasks, task, winner>>
vars == <<rules, ledger, results, draft, actorVars, flag, held, torn>>

Init ==
  /\ rules = [r \in Rule |-> NoRule]
  /\ ledger \in [Host -> DeviceRow]
  /\ results = [key \in Host \X Target |-> NoResult]
  /\ draft = [a \in Actor |-> NoDraft]
  /\ doing = [a \in Actor |-> "idle"]
  /\ tasks = [a \in Actor |-> {}]
  /\ task = [a \in Actor |-> NoTask]
  /\ winner = [a \in Actor |-> NoResult]
  /\ flag = [p \in Process |-> FALSE]
  /\ held = [a \in Actor |-> {}]
  /\ torn = {}

Enter(a, next) == doing' = [doing EXCEPT ![a] = next]
---------------------------------------------------------------------------
(* Transactions.                                                           *)

Open(a) == draft[a] # NoDraft

Laid(changes, table) == [x \in DOMAIN table |-> IF changes[x] = Same THEN table[x] ELSE changes[x]]

(* What an actor sees: the changes of its transaction on what is committed.*)
RulesSeen(a) == Laid(draft[a].rules, rules)
ResultsSeen(a) == Laid(draft[a].results, results)

Others(a) == Actor \ {a}

HeldByOthers(a) == UNION {held[b] : b \in Others(a)}

(* A handler takes rows over; what nobody else works on is sound again.    *)
TakeOver(a, hosts) ==
  /\ held' = [held EXCEPT ![a] = hosts]
  /\ torn' = (torn \ hosts) \cup (hosts \cap HeldByOthers(a))

(* The suggestions of these rows and targets become res, in a transaction  *)
(* or at once; there is nothing to delete, or to wait for, where there is  *)
(* none.                                                                   *)
Write(a, keys, res) ==
  LET touched == {key \in keys : res # NoResult \/ ResultsSeen(a)[key] # NoResult}
      Changed(f) == [key \in Host \X Target |-> IF key \in touched THEN res ELSE f[key]]
  IN /\ \A b \in Others(a), key \in touched : draft[b].results[key] = Same
     /\ IF Open(a) THEN /\ draft' = [draft EXCEPT ![a].results = Changed(@)]
                        /\ UNCHANGED results
                   ELSE results' = Changed(results) /\ UNCHANGED draft

(* A handler that has ended: its transaction is about to be committed.     *)
EndHandler(a) ==
  IF Open(a) THEN Enter(a, "commit") /\ UNCHANGED held
             ELSE Enter(a, "idle") /\ held' = [held EXCEPT ![a] = {}]

NewRows == {h \in Host : ledger[h].status = "new"}

(* With a rule the rows change that were not recomputed with it, or that   *)
(* others work on.                                                         *)
Commit(a) ==
  /\ doing[a] = "commit"
  /\ rules' = RulesSeen(a)
  /\ ledger' = Laid(draft[a].ledger, ledger)
  /\ results' = ResultsSeen(a)
  /\ torn' = IF draft[a].rules = NoDraft.rules THEN torn
             ELSE torn \cup (NewRows \ held[a]) \cup HeldByOthers(a)
  /\ draft' = [draft EXCEPT ![a] = NoDraft]
  /\ held' = [held EXCEPT ![a] = {}]
  /\ Enter(a, "idle")
  /\ UNCHANGED <<tasks, task, winner, flag>>
---------------------------------------------------------------------------
(* Evaluation.                                                             *)

(* order_by("weight", "name").                                             *)
Before(seen, r, s) ==
  \/ seen[r].weight < seen[s].weight
  \/ seen[r].weight = seen[s].weight /\ r <= s

(* _ip_in_scope, _extract_value and _match_object: exactly one object.     *)
Matches(rule, h, hostname) ==
  /\ h \in rule.scope
  /\ Cardinality(rule.finds[hostname]) = 1

(* The first active rule of a target that finds exactly one object wins.   *)
Winner(seen, h, hostname, target) ==
  LET fit == {r \in Rule : /\ seen[r] # NoRule
                           /\ seen[r].active
                           /\ seen[r].target = target
                           /\ Matches(seen[r], h, hostname)}
  IN IF fit = {} THEN NoResult
     ELSE LET r == CHOOSE r \in fit : \A s \in fit : Before(seen, r, s)
          IN [rule |-> r, object |-> CHOOSE o \in seen[r].finds[hostname] : TRUE]

TasksFor(hosts) ==
  {[host |-> h, hostname |-> ledger[h].hostname, target |-> t] : h \in hosts, t \in Target}
---------------------------------------------------------------------------
(* Rules.                                                                  *)

NotBeingChanged(r) == \A b \in Actor : draft[b].rules[r] = Same

SaveRule(a, r, version) ==
  /\ doing[a] = "idle"
  /\ NotBeingChanged(r)
  /\ \/ /\ rules' = [rules EXCEPT ![r] = version]
        /\ torn' = torn \cup HeldByOthers(a)
        /\ UNCHANGED draft
     \/ /\ draft' = [draft EXCEPT ![a].rules[r] = version]
        /\ UNCHANGED <<rules, torn>>
  /\ Enter(a, "signal")
  /\ UNCHANGED <<ledger, results, tasks, task, winner, flag, held>>

(* Results of the rule stay, without it.                                   *)
DeleteRule(a, r) ==
  LET orphans == {key \in Host \X Target : results[key] # NoResult /\ results[key].rule = r}
  IN /\ doing[a] = "idle"
     /\ NotBeingChanged(r)
     /\ rules[r] # NoRule
     /\ \A b \in Actor, key \in Host \X Target :
          /\ key \in orphans => draft[b].results[key] = Same
          /\ draft[b].results[key] \notin {[rule |-> r, object |-> o] : o \in Object}
     /\ draft' = [draft EXCEPT
          ![a].rules[r] = NoRule,
          ![a].results = [key \in Host \X Target |->
             IF key \in orphans THEN [results[key] EXCEPT !.rule = NoRule] ELSE @[key]]]
     /\ Enter(a, "signal")
     /\ UNCHANGED <<rules, ledger, results, tasks, task, winner, flag, held, torn>>

(* _recompute_all_not_imported: while the process recomputes, the change   *)
(* of a rule is not followed by a recomputation of its own.                *)
SkipRecompute(a) ==
  /\ doing[a] = "signal"
  /\ flag[ProcessOf[a]]
  /\ torn' = torn \cup NewRows
  /\ EndHandler(a)
  /\ UNCHANGED <<rules, ledger, results, draft, tasks, task, winner, flag>>

CheckFlag(a) ==
  /\ doing[a] = "signal"
  /\ ~flag[ProcessOf[a]]
  /\ Enter(a, "enter")
  /\ UNCHANGED <<rules, ledger, results, draft, tasks, task, winner, flag, held, torn>>

(* classify_all: the new rows as they are now.                             *)
Recompute(a) ==
  /\ doing[a] = "enter"
  /\ flag' = [flag EXCEPT ![ProcessOf[a]] = TRUE]
  /\ tasks' = [tasks EXCEPT ![a] = TasksFor(NewRows)]
  /\ TakeOver(a, NewRows)
  /\ Enter(a, "recompute")
  /\ UNCHANGED <<rules, ledger, results, draft, task, winner>>
---------------------------------------------------------------------------
(* Rows.                                                                   *)

(* device_saved: a new row is classified, the results of any other go.     *)
(* SaveDevice is a save of all columns or of the tracked ones; a save of   *)
(* others, such as the secrets group, does nothing to a new row.           *)
SaveDevice(a, h, row) ==
  /\ doing[a] = "idle"
  /\ \A b \in Actor : draft[b].ledger[h] = Same
  /\ \/ ledger' = [ledger EXCEPT ![h] = row] /\ UNCHANGED draft
     \/ draft' = [draft EXCEPT ![a].ledger[h] = row] /\ UNCHANGED ledger
  /\ tasks' = [tasks EXCEPT ![a] = {[host |-> h, hostname |-> row.hostname, target |-> t] : t \in Target}]
  /\ TakeOver(a, {h})
  /\ Enter(a, IF row.status = "new" THEN "save" ELSE "purge")
  /\ UNCHANGED <<rules, results, task, winner, flag>>

Purge(a) ==
  /\ doing[a] = "purge"
  /\ Write(a, held[a] \X Target, NoResult)
  /\ tasks' = [tasks EXCEPT ![a] = {}]
  /\ EndHandler(a)
  /\ UNCHANGED <<rules, ledger, task, winner, flag, torn>>

(* One target of classify_device: the rules are read,                      *)
Evaluate(a, t) ==
  /\ doing[a] \in {"recompute", "save"}
  /\ task[a] = NoTask
  /\ t \in tasks[a]
  /\ task' = [task EXCEPT ![a] = t]
  /\ winner' = [winner EXCEPT ![a] = Winner(RulesSeen(a), t.host, t.hostname, t.target)]
  /\ UNCHANGED <<rules, ledger, results, draft, doing, tasks, flag, held, torn>>

(* A rule that is gone by the time its result is stored is refused by the  *)
(* database; one that is being deleted makes it wait.                      *)
StillThere(a, r) == RulesSeen(a)[r] # NoRule /\ \A b \in Others(a) : draft[b].rules[r] # NoRule

(* Mutant: a winner is stored, the lack of one is not.                     *)
StoreWinner(a) ==
  /\ task[a] # NoTask
  /\ winner[a] # NoResult => StillThere(a, winner[a].rule)
  /\ IF winner[a] = NoResult THEN UNCHANGED <<results, draft>>
     ELSE Write(a, {<<task[a].host, task[a].target>>}, winner[a])
  /\ tasks' = [tasks EXCEPT ![a] = @ \ {task[a]}]
  /\ task' = [task EXCEPT ![a] = NoTask]
  /\ winner' = [winner EXCEPT ![a] = NoResult]
  /\ UNCHANGED <<rules, ledger, doing, flag, held, torn>>

(* and the result is updated, created or deleted.                          *)
Store(a) ==
  /\ task[a] # NoTask
  /\ winner[a] # NoResult => StillThere(a, winner[a].rule)
  /\ Write(a, {<<task[a].host, task[a].target>>}, winner[a])
  /\ tasks' = [tasks EXCEPT ![a] = @ \ {task[a]}]
  /\ task' = [task EXCEPT ![a] = NoTask]
  /\ winner' = [winner EXCEPT ![a] = NoResult]
  /\ UNCHANGED <<rules, ledger, doing, flag, held, torn>>

(* Mutant: the flag is taken down by a recomputation that ends well.       *)
LeaveFlagAtEnd(a) ==
  flag' = IF doing[a] = "recompute" /\ tasks[a] = {}
          THEN [flag EXCEPT ![ProcessOf[a]] = FALSE] ELSE flag

LeaveFlag(a) ==
  flag' = IF doing[a] = "recompute" THEN [flag EXCEPT ![ProcessOf[a]] = FALSE] ELSE flag

Finish(a) ==
  /\ doing[a] \in {"recompute", "save"}
  /\ tasks[a] = {}
  /\ LeaveFlag(a)
  /\ EndHandler(a)
  /\ UNCHANGED <<rules, ledger, results, draft, tasks, task, winner, torn>>

Drop(a) ==
  /\ torn' = torn \cup held[a]
  /\ draft' = [draft EXCEPT ![a] = NoDraft]
  /\ held' = [held EXCEPT ![a] = {}]
  /\ Enter(a, "idle")

(* Mutant: what was evaluated is stored although the handler has ended.    *)
FailsLate(a) ==
  /\ doing[a] \in {"recompute", "save", "purge"}
  /\ tasks[a] # {}
  /\ LeaveFlag(a)
  /\ tasks' = [tasks EXCEPT ![a] = {}]
  /\ Drop(a)
  /\ UNCHANGED <<rules, ledger, results, task, winner>>

(* A query raises, or is chosen to end a deadlock: the handler ends, its    *)
(* flag is taken down and its transaction is undone.                       *)
Fails(a) ==
  /\ doing[a] \in {"recompute", "save", "purge"}
  /\ tasks[a] # {}
  /\ LeaveFlag(a)
  /\ tasks' = [tasks EXCEPT ![a] = {}]
  /\ task' = [task EXCEPT ![a] = NoTask]
  /\ winner' = [winner EXCEPT ![a] = NoResult]
  /\ Drop(a)
  /\ UNCHANGED <<rules, ledger, results>>

Editor(a) ==
  \/ \E r \in Rule : DeleteRule(a, r) \/ \E version \in RuleVersions : SaveRule(a, r, version)
  \/ \E h \in Host, row \in DeviceRow : SaveDevice(a, h, row)

Handler(a) ==
  \/ SkipRecompute(a) \/ CheckFlag(a) \/ Recompute(a)
  \/ Purge(a) \/ Store(a) \/ Finish(a) \/ Fails(a) \/ Commit(a)
  \/ \E t \in tasks[a] : Evaluate(a, t)

Next == \E a \in Actor : Editor(a) \/ Handler(a)

Spec == Init /\ [][Next]_vars
---------------------------------------------------------------------------
ClassTypeOK ==
  /\ rules \in [Rule -> RuleVersions \cup {NoRule}]
  /\ ledger \in [Host -> DeviceRow]
  /\ results \in [Host \X Target -> Result \cup {NoResult}]
  /\ draft \in [Actor -> Draft]
  /\ doing \in [Actor -> {"idle", "signal", "enter", "recompute", "save", "purge", "commit"}]
  /\ tasks \in [Actor -> SUBSET Task]
  /\ task \in [Actor -> Task \cup {NoTask}]
  /\ \A a \in Actor : task[a] \in tasks[a] \cup {NoTask}
  /\ winner \in [Actor -> Result \cup {NoResult}]
  /\ flag \in [Process -> BOOLEAN]
  /\ held \in [Actor -> SUBSET Host]
  /\ torn \subseteq Host

Decides(seen, r, h, hostname, t) ==
  /\ seen[r] # NoRule /\ seen[r].active /\ seen[r].target = t /\ h \in seen[r].scope
  /\ \E o \in Object : seen[r].finds[hostname] = {o}

(* What the rules say of a row: the object of the first that decides.      *)
Suits(seen, h, row, t, res) ==
  IF row.status = "new" /\ \E r \in Rule : Decides(seen, r, h, row.hostname, t)
  THEN /\ res # NoResult
       /\ \E r \in Rule :
            /\ Decides(seen, r, h, row.hostname, t)
            /\ \A s \in Rule : Decides(seen, s, h, row.hostname, t) => Before(seen, r, s)
            /\ res.rule = r
            /\ seen[r].finds[row.hostname] = {res.object}
  ELSE res = NoResult

Current(h, t) == Suits(rules, h, ledger[h], t, results[<<h, t>>])

(* When no handler runs, the stored suggestions are what the rules say of  *)
(* the rows now, after any sequence of saved, deleted and switched rules   *)
(* and of rows imported and taken back, committed at once or at the end;   *)
(* excepted are the rows whose last handlers overlapped, failed or were    *)
(* dropped, or had not seen a rule that was committed meanwhile.           *)
SuggestionsAreCurrent ==
  (\A a \in Actor : doing[a] = "idle") =>
    \A h \in Host \ torn, t \in Target : Current(h, t)

(* The flag of a process is up only while one of its threads recomputes:   *)
(* a flag left behind would suppress every later recomputation.  Holds     *)
(* although two threads may pass the check before either sets the flag.    *)
FlagIsHeld ==
  \A p \in Process : flag[p] => \E a \in Actor : ProcessOf[a] = p /\ doing[a] = "recompute"
=============================================================================
