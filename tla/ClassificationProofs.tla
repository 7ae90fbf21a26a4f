------------------------ MODULE ClassificationProofs ------------------------
(***************************************************************************)
(* Theorems of Classification, for any rules, rows, threads and processes. *)
(***************************************************************************)
EXTENDS Classification, FiniteSetTheorems, WellFoundedInduction, TLAPS

(* A set of naturals has a smallest one: of the intervals from 0 to its    *)
(* members one is minimal for inclusion.                                   *)
LEMMA SmallestMember ==
  ASSUME NEW S \in SUBSET Nat, S # {}
  PROVE  \E m \in S : \A n \in S : m <= n
<1>. DEFINE upTo == {0..n : n \in S}
<1>1. \A n \in S : 0..n \in FiniteSubsetsOf(Nat)
  <2>1. \A n \in Nat : IsFiniteSet(0..n) /\ 0..n \subseteq Nat
    BY FS_Interval
  <2>. QED BY <2>1 DEF FiniteSubsetsOf
<1>2. upTo \subseteq FiniteSubsetsOf(Nat) /\ upTo # {}
  BY <1>1
<1>3. PICK I \in upTo : \A J \in upTo : <<J, I>> \notin StrictSubsetOrdering(Nat)
  <2>. HIDE DEF upTo
  <2>. QED BY <1>2, FS_StrictSubsetOrderingWellFounded, WFMin
<1>4. PICK m \in S : I = 0..m
  BY <1>3
<1>5. ASSUME NEW n \in S PROVE m <= n
  <2>1. SUFFICES ASSUME n < m PROVE FALSE
    OBVIOUS
  <2>2. /\ 0..n \in SUBSET Nat /\ 0..m \in SUBSET Nat
        /\ 0..n \subseteq 0..m
        /\ m \in 0..m /\ m \notin 0..n
    BY <2>1
  <2>3. <<0..n, 0..m>> \in StrictSubsetOrdering(Nat)
    BY <2>2 DEF StrictSubsetOrdering
  <2>. QED BY <1>3, <1>4, <2>3
<1>. QED BY <1>5

Rules == [Rule -> RuleVersions \cup {NoRule}]

Fits(seen, r, h, hostname, target) ==
  /\ seen[r] # NoRule
  /\ seen[r].active
  /\ seen[r].target = target
  /\ Matches(seen[r], h, hostname)

FirstFit(seen, r, h, hostname, target) ==
  /\ r \in Rule
  /\ Fits(seen, r, h, hostname, target)
  /\ \A s \in Rule : Fits(seen, s, h, hostname, target) => Before(seen, r, s)

(* Of the rules that fit, one comes first.                                 *)
LEMMA FirstFitExists ==
  ASSUME NEW seen \in Rules, NEW h, NEW hostname, NEW target,
         NEW q \in Rule, Fits(seen, q, h, hostname, target)
  PROVE  \E r : FirstFit(seen, r, h, hostname, target)
<1>. DEFINE fit == {r \in Rule : Fits(seen, r, h, hostname, target)}
            weights == {seen[r].weight : r \in fit}
<1>1. \A r \in fit : r \in Nat /\ seen[r].weight \in Nat
  BY ClassificationAssumption DEF Rules, Fits, RuleVersion
<1>2. PICK w \in weights : \A v \in weights : w <= v
  <2>1. weights \in SUBSET Nat /\ weights # {}
    BY <1>1
  <2>. HIDE DEF weights
  <2>. QED BY <2>1, SmallestMember
<1>. DEFINE lightest == {r \in fit : seen[r].weight = w}
<1>3. PICK r \in lightest : \A s \in lightest : r <= s
  <2>1. lightest \in SUBSET Nat /\ lightest # {}
    BY <1>1, <1>2
  <2>. HIDE DEF lightest
  <2>. QED BY <2>1, SmallestMember
<1>4. ASSUME NEW s \in fit PROVE Before(seen, r, s)
  <2>1. w \in Nat /\ seen[s].weight \in Nat /\ w <= seen[s].weight /\ seen[r].weight = w
    BY <1>1, <1>2, <1>3
  <2>2. CASE seen[s].weight = w
    BY <1>3, <2>1, <2>2 DEF Before
  <2>3. CASE seen[s].weight # w
    BY <2>1, <2>3 DEF Before
  <2>. QED BY <2>2, <2>3
<1>. QED BY <1>3, <1>4 DEF FirstFit

(* Winner is what the first rule that fits finds, and nothing when none    *)
(* does.                                                                   *)
LEMMA WinnerIsFirst ==
  ASSUME NEW seen \in Rules, NEW h, NEW hostname \in Hostname, NEW target
  PROVE  \/ /\ Winner(seen, h, hostname, target) = NoResult
            /\ \A r \in Rule : ~Fits(seen, r, h, hostname, target)
         \/ \E r \in Rule, o \in Object :
              /\ FirstFit(seen, r, h, hostname, target)
              /\ seen[r].finds[hostname] = {o}
              /\ Winner(seen, h, hostname, target) = [rule |-> r, object |-> o]
<1>. DEFINE fit == {r \in Rule : /\ seen[r] # NoRule
                                 /\ seen[r].active
                                 /\ seen[r].target = target
                                 /\ Matches(seen[r], h, hostname)}
            first == CHOOSE r \in fit : \A s \in fit : Before(seen, r, s)
            object == CHOOSE o \in seen[first].finds[hostname] : TRUE
<1>1. fit = {r \in Rule : Fits(seen, r, h, hostname, target)}
  BY DEF Fits
<1>2. Winner(seen, h, hostname, target) = IF fit = {} THEN NoResult ELSE [rule |-> first, object |-> object]
  BY DEF Winner
<1>3. CASE fit = {}
  BY <1>1, <1>2, <1>3
<1>4. CASE fit # {}
  <2>1. PICK q \in Rule : Fits(seen, q, h, hostname, target)
    BY <1>1, <1>4
  <2>2. \E r \in fit : \A s \in fit : Before(seen, r, s)
    BY <1>1, <2>1, FirstFitExists DEF FirstFit
  <2>3. first \in fit /\ \A s \in fit : Before(seen, first, s)
    BY <2>2
  <2>4. FirstFit(seen, first, h, hostname, target)
    BY <1>1, <2>3 DEF FirstFit
  <2>. HIDE DEF first
  <2>5. /\ seen[first].finds[hostname] \in SUBSET Object
        /\ Cardinality(seen[first].finds[hostname]) = 1
    BY <2>4, ClassificationAssumption DEF FirstFit, Fits, Matches, Rules, RuleVersion
  <2>6. \E o : seen[first].finds[hostname] = {o}
    BY <2>5, ClassificationAssumption, FS_Subset, FS_Singleton
  <2>7. seen[first].finds[hostname] = {object} /\ object \in Object
    BY <2>5, <2>6
  <2>. HIDE DEF object, fit
  <2>. QED BY <1>2, <1>4, <2>4, <2>7 DEF FirstFit
<1>. QED BY <1>3, <1>4

LEMMA WinnerType ==
  ASSUME NEW seen \in Rules, NEW h, NEW hostname \in Hostname, NEW target
  PROVE  Winner(seen, h, hostname, target) \in Result \cup {NoResult}
BY WinnerIsFirst DEF Result, FirstFit

(* The winner is what the rules say of a new row.                          *)
LEMMA WinnerSuits ==
  ASSUME NEW seen \in Rules, NEW h \in Host, NEW row \in DeviceRow, row.status = "new", NEW t \in Target
  PROVE  Suits(seen, h, row, t, Winner(seen, h, row.hostname, t))
<1>. DEFINE hostname == row.hostname
            res == Winner(seen, h, hostname, t)
<1>1. hostname \in Hostname
  BY DEF DeviceRow
<1>2. ASSUME NEW r \in Rule PROVE Decides(seen, r, h, hostname, t) <=> Fits(seen, r, h, hostname, t)
  <2>1. CASE seen[r] = NoRule
    BY <2>1 DEF Decides, Fits
  <2>2. CASE seen[r] # NoRule
    <3>1. seen[r].finds[hostname] \in SUBSET Object
      BY <1>1, <2>2, ClassificationAssumption DEF Rules, RuleVersion
    <3>2. Cardinality(seen[r].finds[hostname]) = 1 <=> \E o \in Object : seen[r].finds[hostname] = {o}
      BY <3>1, ClassificationAssumption, FS_Subset, FS_Singleton
    <3>. QED BY <3>2 DEF Decides, Fits, Matches
  <2>. QED BY <2>1, <2>2
<1>3. \/ /\ res = NoResult
         /\ \A r \in Rule : ~Fits(seen, r, h, hostname, t)
      \/ \E r \in Rule, o \in Object :
           /\ FirstFit(seen, r, h, hostname, t)
           /\ seen[r].finds[hostname] = {o}
           /\ res = [rule |-> r, object |-> o]
  <2>. HIDE DEF hostname
  <2>. QED BY <1>1, WinnerIsFirst
<1>. HIDE DEF res
<1>4. CASE res = NoResult /\ \A r \in Rule : ~Fits(seen, r, h, hostname, t)
  BY <1>2, <1>4 DEF Suits, res
<1>5. ASSUME NEW r \in Rule, NEW o \in Object, FirstFit(seen, r, h, hostname, t),
             seen[r].finds[hostname] = {o}, res = [rule |-> r, object |-> o]
      PROVE  Suits(seen, h, row, t, res)
  <2>1. Decides(seen, r, h, hostname, t) /\ \A s \in Rule : Decides(seen, s, h, hostname, t) => Before(seen, r, s)
    BY <1>2, <1>5 DEF FirstFit
  <2>2. res \in Result
    BY <1>5 DEF Result
  <2>3. res # NoResult /\ res.rule = r /\ res.object = o
    BY <1>5, <2>2, ClassificationAssumption
  <2>. QED BY <1>5, <2>1, <2>3 DEF Suits
<1>. QED BY <1>3, <1>4, <1>5 DEF res

(* The rules ask nothing of a row that is not new.                         *)
LEMMA NothingSuitsOtherRows ==
  ASSUME NEW seen, NEW h, NEW row, row.status # "new", NEW t, NEW res
  PROVE  Suits(seen, h, row, t, res) <=> res = NoResult
BY DEF Suits
---------------------------------------------------------------------------
(* The inductive invariant.                                                *)

LedgerSeen(a) == Laid(draft[a].ledger, ledger)

(* A change of the rules that is committed has not reached the rows yet.   *)
Announcing == \E a \in Actor : doing[a] \in {"signal", "enter"} /\ ~Open(a)

(* What an actor holds at each stage.                                      *)
Resting(a) ==
  /\ doing[a] \in {"idle", "signal", "enter"} => tasks[a] = {} /\ held[a] = {}
  /\ doing[a] = "idle" => draft[a] = NoDraft
  /\ doing[a] = "commit" => tasks[a] = {}
  /\ task[a] # NoTask => doing[a] \in {"recompute", "save"}
  /\ \A tk \in tasks[a] : tk.host \in held[a]
  /\ \A h \in Host : draft[a].ledger[h] # Same => h \in held[a]

(* A transaction changes suggestions of the rows it works on and, when it  *)
(* deletes a rule, suggestions that there are.                             *)
Cascade(a) ==
  \A h \in Host, t \in Target :
    draft[a].results[<<h, t>>] # Same /\ h \notin held[a] =>
      results[<<h, t>>] # NoResult /\ draft[a].rules # NoDraft.rules

Locked ==
  \A a, b \in Actor, key \in Host \X Target :
    draft[a].results[key] # Same /\ draft[b].results[key] # Same => a = b

(* The handler that works on a row knows it as it is, has evaluated the    *)
(* rules it sees, and has stored what they say for the targets it is done  *)
(* with.                                                                   *)
Knows(a, h) ==
  /\ doing[a] \in {"recompute", "save"} => LedgerSeen(a)[h].status = "new"
  /\ doing[a] = "purge" => LedgerSeen(a)[h].status # "new"
  /\ \A tk \in tasks[a] : tk.host = h => tk.hostname = LedgerSeen(a)[h].hostname

Evaluated(a, h) ==
  task[a] # NoTask /\ task[a].host = h =>
    winner[a] = Winner(RulesSeen(a), h, task[a].hostname, task[a].target)

Waits(a, h, t) == \E tk \in tasks[a] : tk.host = h /\ tk.target = t

Written(a, h) ==
  \A t \in Target :
    Waits(a, h, t) \/ Suits(RulesSeen(a), h, LedgerSeen(a)[h], t, ResultsSeen(a)[<<h, t>>])

InHand(a, h) ==
  /\ \A b \in Actor : h \in held[b] => b = a
  /\ Knows(a, h)
  /\ Evaluated(a, h)
  /\ Written(a, h)

Settled(h) ==
  \A t \in Target : Current(h, t) \/ (ledger[h].status = "new" /\ Announcing)

Rows ==
  \A h \in Host \ torn :
    /\ \A a \in Actor : h \in held[a] => InHand(a, h)
    /\ (\A a \in Actor : h \notin held[a]) => Settled(h)

Bookkeeping == Locked /\ \A a \in Actor : Resting(a) /\ Cascade(a)

ClassInv == ClassTypeOK /\ Bookkeeping /\ FlagIsHeld /\ Rows

LEMMA InitInv == Init => ClassInv
<1>. SUFFICES ASSUME Init PROVE ClassInv
  OBVIOUS
<1>1. NoDraft \in Draft
  BY DEF NoDraft, Draft
<1>2. ClassTypeOK
  BY <1>1, ClassificationAssumption DEF Init, ClassTypeOK
<1>3. Bookkeeping /\ FlagIsHeld
  BY DEF Init, Bookkeeping, Locked, Resting, Cascade, FlagIsHeld, NoDraft
<1>4. ASSUME NEW h \in Host, NEW t \in Target PROVE Current(h, t)
  <2>1. results[<<h, t>>] = NoResult
    BY DEF Init
  <2>2. \A r \in Rule : ~Decides(rules, r, h, ledger[h].hostname, t)
    BY DEF Init, Decides
  <2>. QED BY <2>1, <2>2 DEF Current, Suits
<1>5. \A a \in Actor : held[a] = {}
  BY DEF Init
<1>. QED BY <1>2, <1>3, <1>4, <1>5 DEF ClassInv, Rows, Settled
---------------------------------------------------------------------------
(* Types.                                                                  *)

LEMMA LaidType ==
  ASSUME NEW X, NEW V, Same \notin V, NEW table \in [X -> V], NEW changes \in [X -> V \cup {Same}]
  PROVE  Laid(changes, table) \in [X -> V]
BY DEF Laid

LEMMA SeenType ==
  ASSUME ClassTypeOK, NEW a \in Actor
  PROVE  /\ RulesSeen(a) \in Rules
         /\ LedgerSeen(a) \in [Host -> DeviceRow]
         /\ ResultsSeen(a) \in [Host \X Target -> Result \cup {NoResult}]
<1>1. draft[a] \in Draft
  BY DEF ClassTypeOK
<1>2. /\ draft[a].rules \in [Rule -> (RuleVersions \cup {NoRule}) \cup {Same}]
      /\ draft[a].ledger \in [Host -> DeviceRow \cup {Same}]
      /\ draft[a].results \in [Host \X Target -> (Result \cup {NoResult}) \cup {Same}]
  BY <1>1 DEF Draft
<1>3. RulesSeen(a) \in [Rule -> RuleVersions \cup {NoRule}]
  BY <1>2, LaidType, ClassificationAssumption DEF ClassTypeOK, RulesSeen
<1>4. LedgerSeen(a) \in [Host -> DeviceRow]
  BY <1>2, LaidType, ClassificationAssumption DEF ClassTypeOK, LedgerSeen
<1>5. ResultsSeen(a) \in [Host \X Target -> Result \cup {NoResult}]
  BY <1>2, LaidType, ClassificationAssumption DEF ClassTypeOK, ResultsSeen
<1>. QED BY <1>3, <1>4, <1>5 DEF Rules

(* A step of one actor leaves the others where they are.                   *)
LEMMA OthersRest ==
  ASSUME ClassTypeOK, NEW a \in Actor, Editor(a) \/ Handler(a), NEW b \in Actor, b # a
  PROVE  /\ draft'[b] = draft[b] /\ doing'[b] = doing[b] /\ held'[b] = held[b]
         /\ tasks'[b] = tasks[b] /\ task'[b] = task[b] /\ winner'[b] = winner[b]
<1>. USE DEF ClassTypeOK, Enter, TakeOver, EndHandler, Drop
<1>1. ASSUME NEW r \in Rule, NEW version \in RuleVersions, SaveRule(a, r, version) PROVE UNCHANGED <<draft[b], doing[b], held[b], tasks[b], task[b], winner[b]>>
  BY <1>1 DEF SaveRule
<1>2. ASSUME NEW r \in Rule, DeleteRule(a, r) PROVE UNCHANGED <<draft[b], doing[b], held[b], tasks[b], task[b], winner[b]>>
  BY <1>2 DEF DeleteRule
<1>3. ASSUME NEW h \in Host, NEW row \in DeviceRow, SaveDevice(a, h, row) PROVE UNCHANGED <<draft[b], doing[b], held[b], tasks[b], task[b], winner[b]>>
  BY <1>3 DEF SaveDevice
<1>4. CASE SkipRecompute(a) \/ CheckFlag(a) \/ Recompute(a)
  BY <1>4 DEF SkipRecompute, CheckFlag, Recompute
<1>5. CASE Purge(a)
  BY <1>5 DEF Purge, Write
<1>6. CASE Store(a)
  BY <1>6 DEF Store, Write
<1>7. CASE Finish(a) \/ Fails(a) \/ Commit(a)
  BY <1>7 DEF Finish, Fails, Commit
<1>8. ASSUME NEW t \in tasks[a], Evaluate(a, t) PROVE UNCHANGED <<draft[b], doing[b], held[b], tasks[b], task[b], winner[b]>>
  BY <1>8 DEF Evaluate
<1>. QED BY <1>1, <1>2, <1>3, <1>4, <1>5, <1>6, <1>7, <1>8 DEF Editor, Handler

(* What a write does to the suggestions an actor sees, and to those others *)
(* see.                                                                    *)
Wrote(a, keys, res) ==
  /\ results' \in [Host \X Target -> Result \cup {NoResult}]
  /\ draft' \in [Actor -> Draft]
  /\ draft'[a].rules = draft[a].rules /\ draft'[a].ledger = draft[a].ledger
  /\ \A key \in keys : ResultsSeen(a)'[key] = res
  /\ \A key \in (Host \X Target) \ keys :
       results'[key] = results[key] /\ draft'[a].results[key] = draft[a].results[key]
  /\ \A key \in Host \X Target :
       results'[key] # results[key] \/ draft'[a].results[key] # draft[a].results[key] =>
         \A b \in Others(a) : draft[b].results[key] = Same
  /\ IF Open(a) THEN results' = results ELSE draft' = draft

LEMMA Writing ==
  ASSUME ClassTypeOK, NEW a \in Actor, NEW keys \in SUBSET (Host \X Target),
         NEW res \in Result \cup {NoResult}, Write(a, keys, res)
  PROVE  Wrote(a, keys, res)
<1>. DEFINE touched == {key \in keys : res # NoResult \/ ResultsSeen(a)[key] # NoResult}
            Changed(f) == [key \in Host \X Target |-> IF key \in touched THEN res ELSE f[key]]
<1>1. /\ \A b \in Others(a), key \in touched : draft[b].results[key] = Same
      /\ IF Open(a) THEN /\ draft' = [draft EXCEPT ![a].results = Changed(@)]
                         /\ UNCHANGED results
                    ELSE results' = Changed(results) /\ UNCHANGED draft
  BY DEF Write
<1>2. /\ draft[a] \in Draft /\ draft \in [Actor -> Draft]
      /\ results \in [Host \X Target -> Result \cup {NoResult}]
      /\ draft[a].results \in [Host \X Target -> Result \cup {NoResult, Same}]
  BY DEF ClassTypeOK, Draft
<1>3. \A key \in Host \X Target :
        ResultsSeen(a)[key] = IF draft[a].results[key] = Same THEN results[key] ELSE draft[a].results[key]
  BY <1>2 DEF ResultsSeen, Laid
<1>4. \A key \in keys \ touched : ResultsSeen(a)[key] = res
  OBVIOUS
<1>5. touched \subseteq keys
  OBVIOUS
<1>6. res # Same
  BY ClassificationAssumption
<1>. HIDE DEF touched
<1>7. CASE Open(a)
  <2>1. draft' = [draft EXCEPT ![a] = [draft[a] EXCEPT !.results = Changed(draft[a].results)]] /\ results' = results
    BY <1>1, <1>7
  <2>2. Changed(draft[a].results) \in [Host \X Target -> Result \cup {NoResult, Same}]
    BY <1>2
  <2>3. draft'[a] = [draft[a] EXCEPT !.results = Changed(draft[a].results)] /\ draft'[a] \in Draft
    BY <1>2, <2>1, <2>2 DEF Draft
  <2>4. /\ draft'[a].results = Changed(draft[a].results)
        /\ draft'[a].rules = draft[a].rules /\ draft'[a].ledger = draft[a].ledger
    BY <1>2, <2>3 DEF Draft
  <2>5. \A key \in Host \X Target :
          ResultsSeen(a)'[key] = IF draft'[a].results[key] = Same THEN results'[key] ELSE draft'[a].results[key]
    BY <1>2, <2>1 DEF ResultsSeen, Laid
  <2>6. \A key \in keys : ResultsSeen(a)'[key] = res
    BY <1>3, <1>4, <1>5, <1>6, <2>1, <2>4, <2>5
  <2>7. draft' \in [Actor -> Draft]
    BY <1>2, <2>1, <2>3
  <2>. QED BY <1>1, <1>2, <1>5, <1>7, <2>1, <2>4, <2>6, <2>7 DEF Wrote
<1>8. CASE ~Open(a)
  <2>1. results' = Changed(results) /\ draft' = draft
    BY <1>1, <1>8
  <2>2. results' \in [Host \X Target -> Result \cup {NoResult}]
    BY <1>2, <2>1
  <2>3. \A key \in Host \X Target : draft[a].results[key] = Same
    BY <1>8 DEF Open, NoDraft
  <2>4. \A key \in Host \X Target : ResultsSeen(a)'[key] = results'[key] /\ ResultsSeen(a)[key] = results[key]
    BY <1>2, <1>3, <2>1, <2>2, <2>3 DEF ResultsSeen, Laid
  <2>5. \A key \in keys : ResultsSeen(a)'[key] = res
    BY <1>4, <1>5, <2>1, <2>4
  <2>. QED BY <1>1, <1>2, <1>5, <1>8, <2>1, <2>2, <2>5 DEF Wrote
<1>. QED BY <1>7, <1>8

LEMMA Storing ==
  ASSUME ClassTypeOK, NEW a \in Actor, Store(a)
  PROVE  Wrote(a, {<<task[a].host, task[a].target>>}, winner[a])
<1>1. {<<task[a].host, task[a].target>>} \in SUBSET (Host \X Target) /\ winner[a] \in Result \cup {NoResult}
  BY DEF Store, ClassTypeOK, Task
<1>2. Write(a, {<<task[a].host, task[a].target>>}, winner[a])
  BY DEF Store
<1>. QED BY <1>1, <1>2, Writing

LEMMA Purging ==
  ASSUME ClassTypeOK, NEW a \in Actor, Purge(a)
  PROVE  Wrote(a, held[a] \X Target, NoResult)
<1>1. held[a] \X Target \in SUBSET (Host \X Target)
  BY DEF ClassTypeOK
<1>2. Write(a, held[a] \X Target, NoResult)
  BY DEF Purge
<1>. QED BY <1>1, <1>2, Writing

LEMMA TypeStep ==
  ASSUME ClassTypeOK, \A b \in Actor : Resting(b), NEW a \in Actor, Editor(a) \/ Handler(a)
  PROVE  ClassTypeOK'
<1>. USE DEF ClassTypeOK, Enter
<1>. DEFINE Stages == {"idle", "signal", "enter", "recompute", "save", "purge", "commit"}
<1>0. NoDraft \in Draft
  BY DEF NoDraft, Draft
<1>1. ASSUME NEW r \in Rule, NEW version \in RuleVersions, SaveRule(a, r, version)
      PROVE  ClassTypeOK'
  <2>1. [draft EXCEPT ![a].rules[r] = version] \in [Actor -> Draft]
    BY DEF Draft
  <2>2. draft' \in [Actor -> Draft] /\ torn' \subseteq Host /\ rules' \in [Rule -> RuleVersions \cup {NoRule}]
    BY <1>1, <2>1 DEF SaveRule, HeldByOthers, Others
  <2>. QED BY <1>1, <2>2 DEF SaveRule
<1>2. ASSUME NEW r \in Rule, DeleteRule(a, r)
      PROVE  ClassTypeOK'
  <2>1. \A res \in Result : [res EXCEPT !.rule = NoRule] \in Result
    BY DEF Result
  <2>2. draft[a] = NoDraft
    BY <1>2 DEF DeleteRule, Resting
  <2>. DEFINE orphans == {key \in Host \X Target : results[key] # NoResult /\ results[key].rule = r}
              cut == [key \in Host \X Target |->
                        IF key \in orphans THEN [results[key] EXCEPT !.rule = NoRule] ELSE draft[a].results[key]]
  <2>3. cut \in [Host \X Target -> Result \cup {NoResult, Same}]
    BY <2>1, <2>2 DEF NoDraft
  <2>4. [draft[a].rules EXCEPT ![r] = NoRule] \in [Rule -> RuleVersions \cup {NoRule, Same}]
    BY <2>2 DEF NoDraft
  <2>5. draft' = [draft EXCEPT ![a].rules[r] = NoRule, ![a].results = cut]
    BY <1>2 DEF DeleteRule
  <2>. HIDE DEF cut
  <2>6. draft' \in [Actor -> Draft]
    BY <1>0, <2>2, <2>3, <2>4, <2>5 DEF Draft
  <2>. QED BY <1>2, <2>6 DEF DeleteRule
<1>3. ASSUME NEW h \in Host, NEW row \in DeviceRow, SaveDevice(a, h, row)
      PROVE  ClassTypeOK'
  <2>1. {[host |-> h, hostname |-> row.hostname, target |-> t] : t \in Target} \in SUBSET Task
    BY DEF DeviceRow, Task
  <2>2. /\ tasks' \in [Actor -> SUBSET Task] /\ task[a] = NoTask
        /\ held' \in [Actor -> SUBSET Host] /\ torn' \subseteq Host
    BY <1>3, <2>1 DEF SaveDevice, TakeOver, Resting
  <2>3. [draft EXCEPT ![a].ledger[h] = row] \in [Actor -> Draft]
    BY DEF Draft
  <2>4. draft' \in [Actor -> Draft] /\ ledger' \in [Host -> DeviceRow]
    BY <1>3, <2>3 DEF SaveDevice
  <2>5. doing' \in [Actor -> Stages]
    BY <1>3 DEF SaveDevice
  <2>. QED BY <1>3, <2>2, <2>4, <2>5 DEF SaveDevice
<1>4. CASE SkipRecompute(a)
  BY <1>4 DEF SkipRecompute, NewRows, EndHandler
<1>5. CASE CheckFlag(a)
  BY <1>5 DEF CheckFlag
<1>6. CASE Recompute(a)
  <2>1. TasksFor(NewRows) \in SUBSET Task
    BY DEF TasksFor, NewRows, Task, DeviceRow
  <2>2. /\ tasks' \in [Actor -> SUBSET Task] /\ task[a] = NoTask
        /\ held' \in [Actor -> SUBSET Host] /\ torn' \subseteq Host
    BY <1>6, <2>1 DEF Recompute, TakeOver, NewRows, Resting
  <2>. QED BY <1>6, <2>2, ClassificationAssumption DEF Recompute
<1>7. CASE Purge(a)
  <2>1. results' \in [Host \X Target -> Result \cup {NoResult}] /\ draft' \in [Actor -> Draft]
    BY <1>7, Purging DEF Wrote
  <2>2. held' \in [Actor -> SUBSET Host] /\ doing' \in [Actor -> Stages]
    BY <1>7 DEF Purge, EndHandler
  <2>3. task[a] = NoTask
    BY <1>7 DEF Purge, Resting
  <2>. QED BY <1>7, <2>1, <2>2, <2>3 DEF Purge
<1>8. CASE Store(a)
  <2>1. results' \in [Host \X Target -> Result \cup {NoResult}] /\ draft' \in [Actor -> Draft]
    BY <1>8, Storing DEF Wrote
  <2>. QED BY <1>8, <2>1 DEF Store
<1>9. CASE Finish(a)
  <2>1. /\ flag' \in [Process -> BOOLEAN] /\ held' \in [Actor -> SUBSET Host]
        /\ doing' \in [Actor -> Stages]
    BY <1>9 DEF Finish, LeaveFlag, EndHandler
  <2>. QED BY <1>9, <2>1 DEF Finish
<1>10. CASE Fails(a)
  <2>1. /\ flag' \in [Process -> BOOLEAN] /\ torn' \subseteq Host
        /\ held' \in [Actor -> SUBSET Host] /\ draft' \in [Actor -> Draft]
    BY <1>0, <1>10 DEF Fails, LeaveFlag, Drop
  <2>. QED BY <1>10, <2>1 DEF Fails, Drop
<1>11. CASE Commit(a)
  <2>1. /\ rules' \in [Rule -> RuleVersions \cup {NoRule}]
        /\ ledger' \in [Host -> DeviceRow]
        /\ results' \in [Host \X Target -> Result \cup {NoResult}]
    BY <1>11, SeenType DEF Commit, LedgerSeen, Rules
  <2>2. draft' \in [Actor -> Draft] /\ held' \in [Actor -> SUBSET Host] /\ torn' \subseteq Host
    BY <1>0, <1>11 DEF Commit, NewRows, HeldByOthers, Others
  <2>. QED BY <1>11, <2>1, <2>2 DEF Commit
<1>12. ASSUME NEW t \in tasks[a], Evaluate(a, t)
       PROVE  ClassTypeOK'
  <2>1. Winner(RulesSeen(a), t.host, t.hostname, t.target) \in Result \cup {NoResult}
    BY SeenType, WinnerType DEF Task
  <2>2. winner' \in [Actor -> Result \cup {NoResult}]
    BY <1>12, <2>1 DEF Evaluate
  <2>. QED BY <1>12, <2>2 DEF Evaluate
<1>. QED BY <1>1, <1>2, <1>3, <1>4, <1>5, <1>6, <1>7, <1>8, <1>9, <1>10, <1>11, <1>12 DEF Editor, Handler
---------------------------------------------------------------------------
(* The flag.                                                               *)

LEMMA FlagStep ==
  ASSUME ClassTypeOK, FlagIsHeld, NEW a \in Actor, Editor(a) \/ Handler(a)
  PROVE  FlagIsHeld'
<1>. USE DEF ClassTypeOK, FlagIsHeld, Enter, EndHandler, Drop
<1>1. CASE flag' = flag /\ (doing[a] # "recompute" \/ doing' = doing)
  <2>1. \A b \in Actor : doing[b] = "recompute" => doing'[b] = "recompute"
    BY <1>1, OthersRest
  <2>. QED BY <1>1, <2>1
<1>2. CASE Recompute(a)
  BY <1>2, ClassificationAssumption DEF Recompute
<1>3. CASE Finish(a) \/ Fails(a)
  BY <1>3 DEF Finish, Fails, LeaveFlag
<1>4. CASE SkipRecompute(a) \/ CheckFlag(a) \/ Purge(a) \/ Store(a) \/ Commit(a)
  BY <1>1, <1>4 DEF SkipRecompute, CheckFlag, Purge, Store, Commit
<1>. QED BY <1>1, <1>2, <1>3, <1>4 DEF Editor, Handler, SaveRule, DeleteRule, SaveDevice, Evaluate
---------------------------------------------------------------------------
(* Handlers and their transactions.                                        *)

LEMMA RestingStep ==
  ASSUME ClassTypeOK, \A b \in Actor : Resting(b), NEW a \in Actor, Editor(a) \/ Handler(a), NEW b \in Actor
  PROVE  Resting(b)'
<1>. USE DEF ClassTypeOK, Enter
<1>1. CASE b # a
  BY <1>1, OthersRest DEF Resting
<1>. SUFFICES ASSUME b = a PROVE Resting(a)'
  BY <1>1
<1>2. ASSUME NEW r \in Rule, NEW version \in RuleVersions, SaveRule(a, r, version)
      PROVE  Resting(a)'
  <2>1. draft'[a].ledger = draft[a].ledger
    BY <1>2 DEF SaveRule, Draft
  <2>. QED BY <1>2, <2>1 DEF SaveRule, Resting
<1>3. ASSUME NEW r \in Rule, DeleteRule(a, r) PROVE Resting(a)'
  <2>1. draft'[a].ledger = draft[a].ledger
    BY <1>3 DEF DeleteRule, Draft
  <2>. QED BY <1>3, <2>1 DEF DeleteRule, Resting
<1>4. ASSUME NEW h \in Host, NEW row \in DeviceRow, SaveDevice(a, h, row) PROVE Resting(a)'
  <2>1. draft[a] = NoDraft /\ task[a] = NoTask
    BY <1>4 DEF SaveDevice, Resting
  <2>2. \A g \in Host : draft'[a].ledger[g] # Same => g = h
    BY <1>4, <2>1 DEF SaveDevice, NoDraft, Draft
  <2>3. /\ held'[a] = {h} /\ \A tk \in tasks'[a] : tk.host = h
        /\ doing'[a] \in {"save", "purge"} /\ task'[a] = NoTask
    BY <1>4, <2>1 DEF SaveDevice, TakeOver
  <2>. QED BY <2>2, <2>3 DEF Resting
<1>5. CASE SkipRecompute(a) \/ CheckFlag(a)
  BY <1>5 DEF SkipRecompute, CheckFlag, EndHandler, Open, NoDraft, Resting
<1>6. CASE Recompute(a)
  <2>1. task[a] = NoTask /\ \A h \in Host : draft[a].ledger[h] = Same
    BY <1>6 DEF Recompute, Resting
  <2>2. /\ held'[a] = NewRows /\ \A tk \in tasks'[a] : tk.host \in NewRows
        /\ doing'[a] = "recompute" /\ task'[a] = NoTask /\ draft' = draft
    BY <1>6, <2>1 DEF Recompute, TakeOver, TasksFor
  <2>. QED BY <2>1, <2>2 DEF Resting
<1>7. CASE Purge(a)
  <2>1. draft'[a].ledger = draft[a].ledger /\ (~Open(a) => draft' = draft)
    BY <1>7, Purging DEF Wrote
  <2>2. task[a] = NoTask /\ tasks'[a] = {} /\ task' = task
    BY <1>7 DEF Purge, Resting
  <2>3. CASE Open(a)
    BY <1>7, <2>1, <2>2, <2>3 DEF Purge, EndHandler, Resting
  <2>4. CASE ~Open(a)
    BY <1>7, <2>1, <2>2, <2>4 DEF Purge, EndHandler, Resting, Open, NoDraft
  <2>. QED BY <2>3, <2>4
<1>8. CASE Store(a)
  <2>1. draft'[a].ledger = draft[a].ledger
    BY <1>8, Storing DEF Wrote
  <2>2. doing[a] \in {"recompute", "save"}
    BY <1>8 DEF Store, Resting
  <2>. QED BY <1>8, <2>1, <2>2 DEF Store, Resting
<1>9. CASE Finish(a)
  <2>1. task[a] = NoTask
    BY <1>9 DEF Finish
  <2>. QED BY <1>9, <2>1 DEF Finish, EndHandler, Resting, Open, NoDraft
<1>10. CASE Fails(a) \/ Commit(a)
  <2>1. draft'[a] = NoDraft /\ held'[a] = {} /\ tasks'[a] = {} /\ task'[a] = NoTask /\ doing'[a] = "idle"
    BY <1>10 DEF Fails, Drop, Commit, Resting
  <2>. QED BY <2>1 DEF Resting, NoDraft
<1>11. ASSUME NEW t \in tasks[a], Evaluate(a, t) PROVE Resting(a)'
  BY <1>11 DEF Evaluate, Resting
<1>. QED BY <1>2, <1>3, <1>4, <1>5, <1>6, <1>7, <1>8, <1>9, <1>10, <1>11 DEF Editor, Handler

(* Two transactions never change one suggestion: the second waits.         *)
LEMMA TouchedAlone ==
  ASSUME ClassTypeOK, Bookkeeping, NEW a \in Actor, Editor(a) \/ Handler(a),
         NEW key \in Host \X Target,
         \/ results'[key] # results[key]
         \/ draft'[a].results[key] # Same /\ draft'[a].results[key] # draft[a].results[key],
         NEW b \in Actor, b # a
  PROVE  draft[b].results[key] = Same
<1>. USE DEF ClassTypeOK
<1>1. ASSUME NEW r \in Rule, NEW version \in RuleVersions, SaveRule(a, r, version) PROVE FALSE
  BY <1>1 DEF SaveRule, Draft
<1>2. ASSUME NEW r \in Rule, DeleteRule(a, r) PROVE draft[b].results[key] = Same
  <2>1. CASE results[key] # NoResult /\ results[key].rule = r
    BY <1>2, <2>1 DEF DeleteRule
  <2>2. CASE ~(results[key] # NoResult /\ results[key].rule = r)
    BY <1>2, <2>2 DEF DeleteRule, Draft
  <2>. QED BY <2>1, <2>2
<1>3. ASSUME NEW h \in Host, NEW row \in DeviceRow, SaveDevice(a, h, row) PROVE FALSE
  BY <1>3 DEF SaveDevice, Draft
<1>4. CASE SkipRecompute(a) \/ CheckFlag(a) \/ Recompute(a) \/ Finish(a)
  BY <1>4 DEF SkipRecompute, CheckFlag, Recompute, Finish
<1>5. CASE Purge(a)
  BY <1>5, Purging DEF Wrote, Others
<1>6. CASE Store(a)
  <2>1. Wrote(a, {<<task[a].host, task[a].target>>}, winner[a])
    BY <1>6, Storing
  <2>2. results'[key] # results[key] \/ draft'[a].results[key] # draft[a].results[key] =>
          \A c \in Others(a) : draft[c].results[key] = Same
    BY <2>1 DEF Wrote
  <2>. QED BY <2>2 DEF Others
<1>7. CASE Fails(a)
  BY <1>7 DEF Fails, Drop, NoDraft
<1>8. CASE Commit(a)
  <2>1. results' = ResultsSeen(a) /\ draft'[a] = NoDraft
    BY <1>8 DEF Commit
  <2>2. draft'[a].results[key] = Same
    BY <2>1 DEF NoDraft
  <2>3. results'[key] # results[key]
    BY <2>2
  <2>4. ResultsSeen(a)[key] = IF draft[a].results[key] = Same THEN results[key] ELSE draft[a].results[key]
    BY DEF ResultsSeen, Laid
  <2>5. draft[a].results[key] # Same
    BY <2>1, <2>3, <2>4
  <2>. QED BY <2>5 DEF Bookkeeping, Locked
<1>9. ASSUME NEW t \in tasks[a], Evaluate(a, t) PROVE FALSE
  BY <1>9 DEF Evaluate
<1>. QED BY <1>1, <1>2, <1>3, <1>4, <1>5, <1>6, <1>7, <1>8, <1>9 DEF Editor, Handler

LEMMA LockedStep ==
  ASSUME ClassTypeOK, Bookkeeping, NEW a \in Actor, Editor(a) \/ Handler(a)
  PROVE  Locked'
<1>1. SUFFICES ASSUME NEW b \in Actor, NEW c \in Actor, NEW key \in Host \X Target, b # c,
                      draft'[b].results[key] # Same, draft'[c].results[key] # Same
               PROVE  FALSE
  BY DEF Locked
<1>2. \A d \in Actor : d # a => draft'[d] = draft[d]
  BY OthersRest
<1>3. ~(draft[b].results[key] # Same /\ draft[c].results[key] # Same)
  BY <1>1 DEF Bookkeeping, Locked
<1>4. \A d \in Actor : d # a /\ draft[d].results[key] # Same =>
        draft'[a].results[key] = Same \/ draft'[a].results[key] = draft[a].results[key]
  BY TouchedAlone
<1>5. CASE b = a
  BY <1>1, <1>2, <1>3, <1>4, <1>5
<1>6. CASE c = a
  BY <1>1, <1>2, <1>3, <1>4, <1>6
<1>7. CASE b # a /\ c # a
  BY <1>1, <1>2, <1>3, <1>7
<1>. QED BY <1>5, <1>6, <1>7

LEMMA CascadeStep ==
  ASSUME ClassTypeOK, Bookkeeping, NEW a \in Actor, Editor(a) \/ Handler(a), NEW b \in Actor
  PROVE  Cascade(b)'
<1>1. CASE b # a
  <2>1. draft'[b] = draft[b] /\ held'[b] = held[b]
    BY <1>1, OthersRest
  <2>2. ASSUME NEW h \in Host, NEW t \in Target, draft[b].results[<<h, t>>] # Same
        PROVE  results'[<<h, t>>] = results[<<h, t>>]
    BY <1>1, <2>2, TouchedAlone
  <2>. QED BY <2>1, <2>2 DEF Bookkeeping, Cascade
<1>. SUFFICES ASSUME b = a PROVE Cascade(a)'
  BY <1>1
<1>. USE DEF ClassTypeOK
<1>2. Cascade(a) /\ Resting(a)
  BY DEF Bookkeeping
<1>3. ASSUME NEW r \in Rule, NEW version \in RuleVersions, SaveRule(a, r, version) PROVE Cascade(a)'
  <2>1. draft[a] = NoDraft
    BY <1>2, <1>3 DEF SaveRule, Resting
  <2>2. draft'[a].results = NoDraft.results
    BY <1>3, <2>1 DEF SaveRule, Draft
  <2>. QED BY <2>2 DEF Cascade, NoDraft
<1>4. ASSUME NEW r \in Rule, DeleteRule(a, r) PROVE Cascade(a)'
  <2>1. draft[a] = NoDraft
    BY <1>2, <1>4 DEF DeleteRule, Resting
  <2>2. ASSUME NEW key \in Host \X Target, draft'[a].results[key] # Same PROVE results'[key] # NoResult
    BY <1>4, <2>1, <2>2 DEF DeleteRule, NoDraft, Draft
  <2>3. draft'[a].rules[r] = NoRule
    BY <1>4, <2>1 DEF DeleteRule, NoDraft, Draft
  <2>4. draft'[a].rules # NoDraft.rules
    BY <2>3, ClassificationAssumption DEF NoDraft
  <2>. QED BY <2>2, <2>4 DEF Cascade
<1>5. ASSUME NEW h \in Host, NEW row \in DeviceRow, SaveDevice(a, h, row) PROVE Cascade(a)'
  <2>1. draft[a] = NoDraft
    BY <1>2, <1>5 DEF SaveDevice, Resting
  <2>2. draft'[a].results = NoDraft.results
    BY <1>5, <2>1 DEF SaveDevice, Draft
  <2>. QED BY <2>2 DEF Cascade, NoDraft
<1>6. CASE SkipRecompute(a) \/ CheckFlag(a) \/ Finish(a)
  <2>1. draft' = draft /\ results' = results /\ (Open(a) => held'[a] = held[a])
    BY <1>6 DEF SkipRecompute, CheckFlag, Finish, EndHandler
  <2>2. CASE Open(a)
    BY <1>2, <2>1, <2>2 DEF Cascade
  <2>3. CASE ~Open(a)
    BY <2>1, <2>3 DEF Cascade, Open, NoDraft
  <2>. QED BY <2>2, <2>3
<1>7. CASE Recompute(a)
  BY <1>2, <1>7 DEF Recompute, TakeOver, Cascade, Resting
<1>8. CASE Purge(a)
  <2>1. Wrote(a, held[a] \X Target, NoResult)
    BY <1>8, Purging
  <2>2. Open(a) => held'[a] = held[a]
    BY <1>8 DEF Purge, EndHandler
  <2>3. CASE Open(a)
    BY <1>2, <2>1, <2>2, <2>3 DEF Cascade, Wrote
  <2>4. CASE ~Open(a)
    BY <2>1, <2>4 DEF Cascade, Wrote, Open, NoDraft
  <2>. QED BY <2>3, <2>4
<1>9. CASE Store(a)
  <2>1. Wrote(a, {<<task[a].host, task[a].target>>}, winner[a]) /\ task[a].host \in held[a] /\ held' = held
    BY <1>2, <1>9, Storing DEF Store, Resting
  <2>2. ASSUME NEW h \in Host, NEW t \in Target, h \notin held[a]
        PROVE  /\ results'[<<h, t>>] = results[<<h, t>>]
               /\ draft'[a].results[<<h, t>>] = draft[a].results[<<h, t>>]
    BY <2>1, <2>2 DEF Wrote
  <2>3. draft'[a].rules = draft[a].rules
    BY <2>1 DEF Wrote
  <2>. QED BY <1>2, <2>1, <2>2, <2>3 DEF Cascade
<1>10. CASE Fails(a) \/ Commit(a)
  <2>1. draft'[a] = NoDraft
    BY <1>10 DEF Fails, Drop, Commit
  <2>. QED BY <2>1 DEF Cascade, NoDraft
<1>11. ASSUME NEW t \in tasks[a], Evaluate(a, t) PROVE Cascade(a)'
  BY <1>2, <1>11 DEF Evaluate, Cascade
<1>. QED BY <1>3, <1>4, <1>5, <1>6, <1>7, <1>8, <1>9, <1>10, <1>11 DEF Editor, Handler
---------------------------------------------------------------------------
(* The rows.                                                               *)

(* What an actor sees of a row and of the rules, when neither it nor what  *)
(* is committed changes these.                                             *)
LEMMA SeenKept ==
  ASSUME ClassTypeOK, ClassTypeOK', NEW b \in Actor, NEW h \in Host,
         draft'[b].rules = draft[b].rules, draft'[b].ledger = draft[b].ledger,
         rules' = rules, ledger'[h] = ledger[h]
  PROVE  RulesSeen(b)' = RulesSeen(b) /\ LedgerSeen(b)'[h] = LedgerSeen(b)[h]
BY DEF ClassTypeOK, RulesSeen, LedgerSeen, Laid

LEMMA ResultSeenKept ==
  ASSUME ClassTypeOK, ClassTypeOK', NEW b \in Actor, NEW key \in Host \X Target,
         draft'[b].results[key] = draft[b].results[key], results'[key] = results[key]
  PROVE  ResultsSeen(b)'[key] = ResultsSeen(b)[key]
BY DEF ClassTypeOK, ResultsSeen, Laid

(* Without a transaction an actor sees what is committed.                  *)
LEMMA ClosedSees ==
  ASSUME ClassTypeOK, NEW a \in Actor, ~Open(a)
  PROVE  RulesSeen(a) = rules /\ LedgerSeen(a) = ledger /\ ResultsSeen(a) = results
BY DEF ClassTypeOK, Open, NoDraft, RulesSeen, LedgerSeen, ResultsSeen, Laid

(* What one actor has of a row it works on is not disturbed by a step of   *)
(* another, or the row is torn.                                            *)
LEMMA OtherHandler ==
  ASSUME ClassTypeOK, ClassTypeOK', Bookkeeping, Rows, NEW a \in Actor, Editor(a) \/ Handler(a),
         NEW b \in Actor, b # a, NEW h \in Host \ torn', h \in held[b]
  PROVE  /\ h \notin torn /\ h \notin held'[a]
         /\ rules' = rules /\ ledger'[h] = ledger[h]
         /\ \A t \in Target : results'[<<h, t>>] = results[<<h, t>>]
<1>. DEFINE Goal == /\ h \notin torn /\ h \notin held'[a]
                    /\ rules' = rules /\ ledger'[h] = ledger[h]
                    /\ \A t \in Target : results'[<<h, t>>] = results[<<h, t>>]
<1>0. h \in HeldByOthers(a)
  BY DEF HeldByOthers, Others
<1>a. h \notin torn => h \notin held[a]
  BY DEF Rows, InHand
<1>. USE DEF ClassTypeOK
<1>1. ASSUME NEW r \in Rule, NEW version \in RuleVersions, SaveRule(a, r, version) PROVE Goal
  BY <1>0, <1>a, <1>1 DEF SaveRule
<1>2. ASSUME NEW r \in Rule, DeleteRule(a, r) PROVE Goal
  BY <1>a, <1>2 DEF DeleteRule
<1>3. ASSUME NEW g \in Host, NEW row \in DeviceRow, SaveDevice(a, g, row) PROVE Goal
  <2>1. g # h /\ h \notin torn /\ held'[a] = {g}
    BY <1>0, <1>3 DEF SaveDevice, TakeOver
  <2>. QED BY <1>3, <2>1 DEF SaveDevice
<1>4. CASE Recompute(a)
  <2>1. h \notin NewRows /\ h \notin torn /\ held'[a] = NewRows
    BY <1>0, <1>4 DEF Recompute, TakeOver, NewRows
  <2>. QED BY <1>4, <2>1 DEF Recompute
<1>5. CASE SkipRecompute(a) \/ CheckFlag(a) \/ Finish(a)
  BY <1>a, <1>5 DEF SkipRecompute, CheckFlag, Finish, EndHandler
<1>6. CASE Purge(a)
  <2>1. Wrote(a, held[a] \X Target, NoResult)
    BY <1>6, Purging
  <2>2. h \notin torn /\ h \notin held[a] /\ h \notin held'[a]
    BY <1>a, <1>6 DEF Purge, EndHandler
  <2>. QED BY <1>6, <2>1, <2>2 DEF Purge, Wrote
<1>7. CASE Store(a)
  <2>1. Wrote(a, {<<task[a].host, task[a].target>>}, winner[a]) /\ task[a].host \in held[a]
    BY <1>7, Storing DEF Store, Bookkeeping, Resting
  <2>2. h \notin torn /\ h \notin held[a] /\ held' = held
    BY <1>a, <1>7 DEF Store
  <2>. QED BY <1>7, <2>1, <2>2 DEF Store, Wrote
<1>8. CASE Fails(a)
  BY <1>8 DEF Fails, Drop
<1>9. CASE Commit(a)
  <2>1. /\ draft[a].rules = NoDraft.rules /\ h \notin torn
        /\ rules' = RulesSeen(a) /\ ledger' = LedgerSeen(a) /\ results' = ResultsSeen(a)
        /\ held'[a] = {}
    BY <1>0, <1>9 DEF Commit, LedgerSeen
  <2>2. draft[a].ledger[h] = Same
    BY <1>a, <2>1 DEF Bookkeeping, Resting
  <2>3. ASSUME NEW t \in Target PROVE draft[a].results[<<h, t>>] = Same
    BY <1>a, <2>1 DEF Bookkeeping, Cascade
  <2>4. rules' = rules
    BY <2>1 DEF RulesSeen, Laid, NoDraft
  <2>5. ledger'[h] = ledger[h]
    BY <2>1, <2>2 DEF LedgerSeen, Laid
  <2>6. ASSUME NEW t \in Target PROVE results'[<<h, t>>] = results[<<h, t>>]
    BY <2>1, <2>3 DEF ResultsSeen, Laid
  <2>. QED BY <2>1, <2>4, <2>5, <2>6
<1>10. ASSUME NEW t \in tasks[a], Evaluate(a, t) PROVE Goal
  BY <1>a, <1>10 DEF Evaluate
<1>. QED BY <1>1, <1>2, <1>3, <1>4, <1>5, <1>6, <1>7, <1>8, <1>9, <1>10 DEF Editor, Handler

LEMMA OthersInHand ==
  ASSUME ClassTypeOK, ClassTypeOK', Bookkeeping, Rows, NEW a \in Actor, Editor(a) \/ Handler(a),
         NEW b \in Actor, b # a, NEW h \in Host \ torn', h \in held'[b]
  PROVE  InHand(b, h)'
<1>1. /\ draft'[b] = draft[b] /\ doing'[b] = doing[b] /\ held'[b] = held[b]
      /\ tasks'[b] = tasks[b] /\ task'[b] = task[b] /\ winner'[b] = winner[b]
  BY OthersRest
<1>2. /\ h \notin torn /\ h \notin held'[a]
      /\ rules' = rules /\ ledger'[h] = ledger[h]
      /\ \A t \in Target : results'[<<h, t>>] = results[<<h, t>>]
  BY <1>1, OtherHandler
<1>3. InHand(b, h)
  BY <1>1, <1>2 DEF Rows
<1>4. ASSUME NEW c \in Actor, h \in held'[c] PROVE c = b
  <2>1. c # a
    BY <1>2, <1>4
  <2>2. held'[c] = held[c]
    BY <2>1, OthersRest
  <2>. QED BY <1>3, <1>4, <2>2 DEF InHand
<1>5. RulesSeen(b)' = RulesSeen(b) /\ LedgerSeen(b)'[h] = LedgerSeen(b)[h]
  BY <1>1, <1>2, SeenKept
<1>6. ASSUME NEW t \in Target PROVE ResultsSeen(b)'[<<h, t>>] = ResultsSeen(b)[<<h, t>>]
  BY <1>1, <1>2, ResultSeenKept
<1>7. Knows(b, h)'
  BY <1>1, <1>3, <1>5 DEF InHand, Knows
<1>8. Evaluated(b, h)'
  BY <1>1, <1>3, <1>5 DEF InHand, Evaluated
<1>9. Written(b, h)'
  BY <1>1, <1>3, <1>5, <1>6 DEF InHand, Written, Waits
<1>. QED BY <1>4, <1>7, <1>8, <1>9 DEF InHand

(* The rows an actor works on.                                             *)
LEMMA OwnInHand ==
  ASSUME ClassTypeOK, ClassTypeOK', Bookkeeping, Rows, NEW a \in Actor, Editor(a) \/ Handler(a),
         NEW h \in Host \ torn', h \in held'[a]
  PROVE  Knows(a, h)' /\ Evaluated(a, h)' /\ Written(a, h)'
<1>. DEFINE Goal == Knows(a, h)' /\ Evaluated(a, h)' /\ Written(a, h)'
<1>1. Resting(a) /\ (h \in held[a] /\ h \notin torn => InHand(a, h))
  BY DEF Bookkeeping, Rows
<1>2. ASSUME NEW r \in Rule, NEW version \in RuleVersions, SaveRule(a, r, version) PROVE FALSE
  BY <1>1, <1>2 DEF SaveRule, Resting
<1>3. ASSUME NEW r \in Rule, DeleteRule(a, r) PROVE FALSE
  BY <1>1, <1>3 DEF DeleteRule, Resting
<1>4. ASSUME NEW g \in Host, NEW row \in DeviceRow, SaveDevice(a, g, row) PROVE Goal
  <2>1. task[a] = NoTask /\ draft[a] = NoDraft
    BY <1>1, <1>4 DEF SaveDevice, Resting
  <2>2. /\ g = h /\ task'[a] = NoTask
        /\ tasks'[a] = {[host |-> h, hostname |-> row.hostname, target |-> t] : t \in Target}
        /\ doing'[a] = IF row.status = "new" THEN "save" ELSE "purge"
    BY <1>4, <2>1 DEF SaveDevice, TakeOver, Enter, ClassTypeOK
  <2>3. LedgerSeen(a)'[h] = IF draft'[a].ledger[h] = Same THEN ledger'[h] ELSE draft'[a].ledger[h]
    BY DEF ClassTypeOK, LedgerSeen, Laid
  <2>4. (draft'[a].ledger[h] = Same /\ ledger'[h] = row) \/ draft'[a].ledger[h] = row
    <3>1. CASE ledger' = [ledger EXCEPT ![g] = row] /\ UNCHANGED draft
      BY <2>1, <2>2, <3>1 DEF ClassTypeOK, NoDraft
    <3>2. CASE draft' = [draft EXCEPT ![a].ledger[g] = row] /\ UNCHANGED ledger
      BY <2>1, <2>2, <3>2 DEF ClassTypeOK, NoDraft
    <3>. QED BY <1>4, <3>1, <3>2 DEF SaveDevice
  <2>5. LedgerSeen(a)'[h] = row
    BY <2>3, <2>4, ClassificationAssumption
  <2>6. ASSUME NEW t \in Target PROVE Waits(a, h, t)'
    <3>. DEFINE tk == [host |-> h, hostname |-> row.hostname, target |-> t]
    <3>1. tk \in tasks'[a] /\ tk.host = h /\ tk.target = t
      BY <2>2
    <3>. QED BY <3>1 DEF Waits
  <2>7. Knows(a, h)'
    BY <2>2, <2>5 DEF Knows
  <2>. QED BY <2>2, <2>6, <2>7 DEF Evaluated, Written
<1>5. CASE SkipRecompute(a) \/ CheckFlag(a)
  BY <1>1, <1>5 DEF SkipRecompute, CheckFlag, EndHandler, Resting, ClassTypeOK
<1>6. CASE Recompute(a)
  <2>1. /\ task[a] = NoTask /\ \A g \in Host : draft[a].ledger[g] = Same
    BY <1>1, <1>6 DEF Recompute, Resting
  <2>2. /\ h \in NewRows /\ task'[a] = NoTask /\ tasks'[a] = TasksFor(NewRows)
        /\ doing'[a] = "recompute" /\ ledger' = ledger /\ draft' = draft
    BY <1>6, <2>1 DEF Recompute, TakeOver, Enter, ClassTypeOK
  <2>3. LedgerSeen(a)'[h] = ledger[h]
    BY <2>1, <2>2 DEF ClassTypeOK, LedgerSeen, Laid
  <2>4. ASSUME NEW t \in Target PROVE Waits(a, h, t)'
    <3>. DEFINE tk == [host |-> h, hostname |-> ledger[h].hostname, target |-> t]
    <3>1. tk \in tasks'[a] /\ tk.host = h /\ tk.target = t
      BY <2>2 DEF TasksFor
    <3>. QED BY <3>1 DEF Waits
  <2>5. Knows(a, h)'
    BY <2>2, <2>3 DEF Knows, TasksFor, NewRows
  <2>. QED BY <2>2, <2>4, <2>5 DEF Evaluated, Written
<1>7. CASE Purge(a)
  <2>1. /\ Wrote(a, held[a] \X Target, NoResult)
        /\ UNCHANGED <<rules, ledger, task, winner, torn>>
        /\ task[a] = NoTask /\ tasks'[a] = {} /\ doing[a] = "purge"
    BY <1>1, <1>7, Purging DEF Purge, Resting, ClassTypeOK
  <2>2. Open(a) /\ held'[a] = held[a] /\ doing'[a] = "commit"
    BY <1>7 DEF Purge, EndHandler, Enter, ClassTypeOK
  <2>3. RulesSeen(a)' = RulesSeen(a) /\ LedgerSeen(a)'[h] = LedgerSeen(a)[h]
    BY <2>1, SeenKept DEF Wrote
  <2>4. InHand(a, h) /\ LedgerSeen(a)[h].status # "new"
    BY <1>1, <2>1, <2>2 DEF InHand, Knows
  <2>5. ASSUME NEW t \in Target PROVE ResultsSeen(a)'[<<h, t>>] = NoResult
    BY <2>1, <2>2 DEF Wrote
  <2>6. ASSUME NEW t \in Target
        PROVE  Suits(RulesSeen(a)', h, LedgerSeen(a)'[h], t, ResultsSeen(a)'[<<h, t>>])
    BY <2>3, <2>4, <2>5, NothingSuitsOtherRows
  <2>. QED BY <2>1, <2>2, <2>6 DEF Knows, Evaluated, Written
<1>8. CASE Store(a)
  <2>. DEFINE tk == task[a]
  <2>1. /\ Wrote(a, {<<tk.host, tk.target>>}, winner[a])
        /\ UNCHANGED <<rules, ledger, doing, held, torn>>
        /\ tk \in tasks[a] /\ tk.host \in Host /\ tk.target \in Target
        /\ tasks'[a] = tasks[a] \ {tk} /\ task'[a] = NoTask
        /\ doing[a] \in {"recompute", "save"}
    BY <1>1, <1>8, Storing DEF Store, ClassTypeOK, Resting, Task
  <2>2. InHand(a, h)
    BY <1>1, <2>1
  <2>3. RulesSeen(a)' = RulesSeen(a) /\ LedgerSeen(a)'[h] = LedgerSeen(a)[h]
    BY <2>1, SeenKept DEF Wrote
  <2>4. Knows(a, h)'
    BY <2>1, <2>2, <2>3 DEF InHand, Knows
  <2>5. ASSUME NEW t \in Target, h = tk.host, t = tk.target
        PROVE  Suits(RulesSeen(a)', h, LedgerSeen(a)'[h], t, ResultsSeen(a)'[<<h, t>>])
    <3>1. tk.hostname = LedgerSeen(a)[h].hostname /\ LedgerSeen(a)[h].status = "new"
      BY <2>1, <2>2, <2>5 DEF InHand, Knows
    <3>2. winner[a] = Winner(RulesSeen(a), h, LedgerSeen(a)[h].hostname, t)
      BY <1>8, <2>2, <2>5, <3>1 DEF InHand, Evaluated, Store
    <3>3. ResultsSeen(a)'[<<h, t>>] = winner[a]
      BY <2>1, <2>5 DEF Wrote
    <3>4. RulesSeen(a) \in Rules /\ LedgerSeen(a)[h] \in DeviceRow
      BY SeenType
    <3>. QED BY <2>3, <3>1, <3>2, <3>3, <3>4, WinnerSuits
  <2>6. ASSUME NEW t \in Target, ~(h = tk.host /\ t = tk.target), ~Waits(a, h, t)'
        PROVE  Suits(RulesSeen(a)', h, LedgerSeen(a)'[h], t, ResultsSeen(a)'[<<h, t>>])
    <3>1. ~Waits(a, h, t)
      BY <2>1, <2>6 DEF Waits
    <3>2. results'[<<h, t>>] = results[<<h, t>>] /\ draft'[a].results[<<h, t>>] = draft[a].results[<<h, t>>]
      BY <2>1, <2>6 DEF Wrote
    <3>3. ResultsSeen(a)'[<<h, t>>] = ResultsSeen(a)[<<h, t>>]
      BY <3>2, ResultSeenKept
    <3>. QED BY <2>2, <2>3, <3>1, <3>3 DEF InHand, Written
  <2>7. Written(a, h)'
    BY <2>5, <2>6 DEF Written
  <2>. QED BY <2>1, <2>4, <2>7 DEF Evaluated
<1>9. CASE Finish(a)
  <2>1. /\ UNCHANGED <<rules, ledger, results, draft, tasks, task, winner, torn>>
        /\ task[a] = NoTask /\ tasks[a] = {}
        /\ held'[a] = held[a] /\ doing'[a] = "commit"
    BY <1>9 DEF Finish, EndHandler, Enter, ClassTypeOK
  <2>2. InHand(a, h)
    BY <1>1, <2>1
  <2>. QED BY <2>1, <2>2 DEF InHand, Knows, Evaluated, Written, Waits, LedgerSeen, RulesSeen, ResultsSeen
<1>10. CASE Fails(a) \/ Commit(a)
  BY <1>10 DEF Fails, Drop, Commit, ClassTypeOK
<1>11. ASSUME NEW tk \in tasks[a], Evaluate(a, tk) PROVE Goal
  <2>1. /\ UNCHANGED <<rules, ledger, results, draft, doing, tasks, held, torn>>
        /\ task'[a] = tk
        /\ winner'[a] = Winner(RulesSeen(a), tk.host, tk.hostname, tk.target)
    BY <1>11 DEF Evaluate, ClassTypeOK
  <2>2. InHand(a, h)
    BY <1>1, <2>1
  <2>3. RulesSeen(a)' = RulesSeen(a) /\ LedgerSeen(a)' = LedgerSeen(a) /\ ResultsSeen(a)' = ResultsSeen(a)
    BY <2>1 DEF RulesSeen, LedgerSeen, ResultsSeen
  <2>. QED BY <2>1, <2>2, <2>3 DEF InHand, Knows, Evaluated, Written, Waits
<1>. QED BY <1>2, <1>3, <1>4, <1>5, <1>6, <1>7, <1>8, <1>9, <1>10, <1>11 DEF Editor, Handler

(* The rows nobody works on.                                               *)
LEMMA SettledKept ==
  ASSUME NEW h \in Host, Settled(h), rules' = rules, ledger'[h] = ledger[h],
         \A t \in Target : results'[<<h, t>>] = results[<<h, t>>],
         ledger[h].status = "new" /\ Announcing => Announcing'
  PROVE  Settled(h)'
BY DEF Settled, Current

LEMMA OtherRowSettled ==
  ASSUME NEW h \in Host, ledger'[h].status # "new", \A t \in Target : results'[<<h, t>>] = NoResult
  PROVE  Settled(h)'
BY NothingSuitsOtherRows DEF Settled, Current

LEMMA AnnouncingKept ==
  ASSUME ClassTypeOK, NEW a \in Actor, Editor(a) \/ Handler(a),
         doing[a] \notin {"signal", "enter"} \/ Open(a), Announcing
  PROVE  Announcing'
<1>1. PICK b \in Actor : doing[b] \in {"signal", "enter"} /\ ~Open(b)
  BY DEF Announcing
<1>2. doing'[b] = doing[b] /\ draft'[b] = draft[b]
  BY <1>1, OthersRest
<1>. QED BY <1>1, <1>2 DEF Announcing, Open

(* A row that its handler has left, or whose transaction is committed.     *)
LEMMA Released ==
  ASSUME ClassTypeOK, Bookkeeping, Rows, NEW a \in Actor, Editor(a) \/ Handler(a),
         NEW h \in Host \ torn', h \in held[a], h \notin held'[a]
  PROVE  \A t \in Target : Current(h, t)'
<1>. DEFINE Goal == \A t \in Target : Current(h, t)'
<1>1. Resting(a) /\ (h \notin torn => InHand(a, h))
  BY DEF Bookkeeping, Rows
<1>2. CASE doing[a] \in {"idle", "signal", "enter"}
  BY <1>1, <1>2 DEF Resting
<1>3. CASE Purge(a)
  <2>1. /\ ~Open(a) /\ Wrote(a, held[a] \X Target, NoResult) /\ ledger' = ledger /\ h \notin torn
        /\ doing[a] = "purge"
    BY <1>3, Purging DEF Purge, EndHandler
  <2>2. ledger'[h].status # "new"
    BY <1>1, <2>1, ClosedSees DEF InHand, Knows
  <2>3. ASSUME NEW t \in Target PROVE results'[<<h, t>>] = NoResult
    <3>1. draft'[a].results[<<h, t>>] = Same
      BY <2>1 DEF Wrote, Open, NoDraft
    <3>2. ResultsSeen(a)'[<<h, t>>] = results'[<<h, t>>]
      BY <2>1, <3>1 DEF Wrote, ResultsSeen, Laid
    <3>. QED BY <2>1, <3>2 DEF Wrote
  <2>. QED BY <2>2, <2>3, NothingSuitsOtherRows DEF Current
<1>4. CASE Finish(a)
  <2>1. /\ ~Open(a) /\ UNCHANGED <<rules, ledger, results>> /\ h \notin torn /\ tasks[a] = {}
    BY <1>4 DEF Finish, EndHandler
  <2>2. \A t \in Target : Current(h, t)
    BY <1>1, <2>1, ClosedSees DEF InHand, Written, Waits, Current
  <2>. QED BY <2>1, <2>2 DEF Current
<1>5. CASE Commit(a)
  <2>1. /\ rules' = RulesSeen(a) /\ ledger' = LedgerSeen(a) /\ results' = ResultsSeen(a)
        /\ torn \subseteq torn' /\ doing[a] = "commit"
    BY <1>5 DEF Commit, LedgerSeen
  <2>2. InHand(a, h) /\ tasks[a] = {}
    BY <1>1, <2>1 DEF Resting
  <2>3. ASSUME NEW t \in Target
        PROVE  Suits(RulesSeen(a), h, LedgerSeen(a)[h], t, ResultsSeen(a)[<<h, t>>])
    BY <2>2 DEF InHand, Written, Waits
  <2>. QED BY <2>1, <2>3 DEF Current
<1>6. CASE Fails(a)
  BY <1>6 DEF Fails, Drop
<1>7. CASE Store(a)
  BY <1>7 DEF Store
<1>8. ASSUME NEW t \in tasks[a], Evaluate(a, t) PROVE FALSE
  BY <1>8 DEF Evaluate
<1>. QED BY <1>2, <1>3, <1>4, <1>5, <1>6, <1>7, <1>8
         DEF Editor, Handler, SaveRule, DeleteRule, SaveDevice, SkipRecompute, CheckFlag, Recompute

LEMMA FreeSettled ==
  ASSUME ClassTypeOK, ClassTypeOK', Bookkeeping, Rows, NEW a \in Actor, Editor(a) \/ Handler(a),
         NEW h \in Host \ torn', \A c \in Actor : h \notin held'[c]
  PROVE  Settled(h)'
<1>1. \A c \in Actor : c # a => h \notin held[c]
  BY OthersRest
<1>2. CASE h \in held[a]
  BY <1>2, Released DEF Settled
<1>. SUFFICES ASSUME h \notin held[a] PROVE Settled(h)'
  BY <1>2
<1>3. h \notin torn => Settled(h)
  BY <1>1 DEF Rows
<1>4. Resting(a) /\ Cascade(a)
  BY DEF Bookkeeping
<1>5. Settled(h) /\ ledger[h].status # "new" => \A t \in Target : results[<<h, t>>] = NoResult
  BY NothingSuitsOtherRows DEF Settled, Current
<1>6. ASSUME NEW r \in Rule, NEW version \in RuleVersions, SaveRule(a, r, version) PROVE Settled(h)'
  <2>1. /\ doing[a] = "idle" /\ doing'[a] = "signal" /\ torn \subseteq torn'
        /\ ledger' = ledger /\ results' = results /\ draft[a] = NoDraft
    BY <1>4, <1>6 DEF SaveRule, Enter, Resting, ClassTypeOK
  <2>2. CASE rules' = rules
    BY <1>3, <2>1, <2>2, SettledKept, AnnouncingKept
  <2>3. CASE draft' = draft /\ ledger[h].status = "new"
    <3>1. Announcing'
      BY <2>1, <2>3 DEF Announcing, Open
    <3>. QED BY <2>1, <2>3, <3>1 DEF Settled
  <2>4. CASE ledger[h].status # "new"
    BY <1>3, <1>5, <2>1, <2>4, OtherRowSettled
  <2>. QED BY <1>6, <2>2, <2>3, <2>4 DEF SaveRule
<1>7. ASSUME NEW r \in Rule, DeleteRule(a, r) PROVE Settled(h)'
  <2>1. doing[a] = "idle" /\ UNCHANGED <<rules, ledger, results, torn>>
    BY <1>7 DEF DeleteRule
  <2>. QED BY <1>3, <2>1, SettledKept, AnnouncingKept
<1>8. ASSUME NEW g \in Host, NEW row \in DeviceRow, SaveDevice(a, g, row) PROVE Settled(h)'
  <2>1. g # h /\ h \notin torn
    BY <1>8 DEF SaveDevice, TakeOver, ClassTypeOK
  <2>2. doing[a] = "idle" /\ ledger'[h] = ledger[h] /\ UNCHANGED <<rules, results>>
    BY <1>8, <2>1 DEF SaveDevice, ClassTypeOK
  <2>. QED BY <1>3, <2>1, <2>2, SettledKept, AnnouncingKept
<1>9. CASE SkipRecompute(a)
  <2>1. h \notin torn /\ ledger[h].status # "new" /\ UNCHANGED <<rules, ledger, results>>
    BY <1>9 DEF SkipRecompute, NewRows
  <2>. QED BY <1>3, <2>1, SettledKept
<1>10. CASE CheckFlag(a)
  <2>1. UNCHANGED <<rules, ledger, results, draft, torn>> /\ doing' = [doing EXCEPT ![a] = "enter"]
    BY <1>10 DEF CheckFlag, Enter
  <2>2. Announcing => Announcing'
    BY <2>1 DEF Announcing, Open, ClassTypeOK
  <2>. QED BY <1>3, <2>1, <2>2, SettledKept
<1>11. CASE Recompute(a)
  <2>1. h \notin torn /\ ledger[h].status # "new" /\ UNCHANGED <<rules, ledger, results>>
    BY <1>11 DEF Recompute, TakeOver, NewRows, ClassTypeOK
  <2>. QED BY <1>3, <2>1, SettledKept
<1>12. CASE Purge(a)
  <2>1. Wrote(a, held[a] \X Target, NoResult) /\ doing[a] = "purge" /\ UNCHANGED <<rules, ledger, torn>>
    BY <1>12, Purging DEF Purge
  <2>2. \A t \in Target : results'[<<h, t>>] = results[<<h, t>>]
    BY <2>1 DEF Wrote
  <2>. QED BY <1>3, <2>1, <2>2, SettledKept, AnnouncingKept
<1>13. CASE Store(a)
  <2>1. /\ Wrote(a, {<<task[a].host, task[a].target>>}, winner[a]) /\ task[a].host \in held[a]
        /\ doing[a] \in {"recompute", "save"} /\ UNCHANGED <<rules, ledger, torn>>
    BY <1>4, <1>13, Storing DEF Store, Resting, ClassTypeOK
  <2>2. \A t \in Target : results'[<<h, t>>] = results[<<h, t>>]
    BY <2>1 DEF Wrote
  <2>. QED BY <1>3, <2>1, <2>2, SettledKept, AnnouncingKept
<1>14. CASE Finish(a) \/ Fails(a)
  <2>1. h \notin torn /\ doing[a] \notin {"signal", "enter"} /\ UNCHANGED <<rules, ledger, results>>
    BY <1>14 DEF Finish, Fails, Drop
  <2>. QED BY <1>3, <2>1, SettledKept, AnnouncingKept
<1>15. CASE Commit(a)
  <2>1. /\ rules' = RulesSeen(a) /\ ledger' = LedgerSeen(a) /\ results' = ResultsSeen(a)
        /\ h \notin torn /\ doing[a] = "commit"
        /\ draft[a].rules # NoDraft.rules => ledger[h].status # "new"
    BY <1>15 DEF Commit, LedgerSeen, NewRows
  <2>2. Settled(h) /\ draft[a].ledger[h] = Same
    BY <1>3, <1>4, <2>1 DEF Resting
  <2>3. ledger'[h] = ledger[h]
    BY <2>1, <2>2 DEF LedgerSeen, Laid, ClassTypeOK
  <2>4. ASSUME NEW t \in Target PROVE results'[<<h, t>>] = results[<<h, t>>]
    <3>1. draft[a].results[<<h, t>>] = Same
      BY <1>4, <1>5, <2>1, <2>2 DEF Cascade
    <3>. QED BY <2>1, <3>1 DEF ResultsSeen, Laid, ClassTypeOK
  <2>5. CASE draft[a].rules = NoDraft.rules
    <3>1. rules' = rules
      BY <2>1, <2>5 DEF RulesSeen, Laid, NoDraft, ClassTypeOK
    <3>. QED BY <2>1, <2>2, <2>3, <2>4, <3>1, SettledKept, AnnouncingKept
  <2>6. CASE ledger[h].status # "new"
    BY <1>5, <2>2, <2>3, <2>4, <2>6, OtherRowSettled
  <2>. QED BY <2>1, <2>5, <2>6
<1>16. ASSUME NEW t \in tasks[a], Evaluate(a, t) PROVE Settled(h)'
  <2>1. doing[a] \in {"recompute", "save"} /\ UNCHANGED <<rules, ledger, results, torn>>
    BY <1>16 DEF Evaluate
  <2>. QED BY <1>3, <1>16, <2>1, SettledKept, AnnouncingKept
<1>. QED BY <1>6, <1>7, <1>8, <1>9, <1>10, <1>11, <1>12, <1>13, <1>14, <1>15, <1>16 DEF Editor, Handler
---------------------------------------------------------------------------
(* The theorems.                                                           *)

LEMMA RowsStep ==
  ASSUME ClassTypeOK, ClassTypeOK', Bookkeeping, Rows, NEW a \in Actor, Editor(a) \/ Handler(a)
  PROVE  Rows'
<1>1. ASSUME NEW h \in Host \ torn', NEW b \in Actor, h \in held'[b] PROVE InHand(b, h)'
  <2>1. CASE b # a
    BY <1>1, <2>1, OthersInHand
  <2>2. CASE b = a
    <3>1. ASSUME NEW c \in Actor, h \in held'[c] PROVE c = a
      <4>1. SUFFICES ASSUME c # a PROVE FALSE
        OBVIOUS
      <4>2. h \in held[c]
        BY <3>1, <4>1, OthersRest
      <4>. QED BY <1>1, <2>2, <4>1, <4>2, OtherHandler
    <3>. QED BY <1>1, <2>2, <3>1, OwnInHand DEF InHand
  <2>. QED BY <2>1, <2>2
<1>2. ASSUME NEW h \in Host \ torn', \A c \in Actor : h \notin held'[c] PROVE Settled(h)'
  BY <1>2, FreeSettled
<1>. QED BY <1>1, <1>2 DEF Rows

LEMMA NextInv == ClassInv /\ [Next]_vars => ClassInv'
<1>1. ASSUME ClassInv, Next PROVE ClassInv'
  <2>1. PICK a \in Actor : Editor(a) \/ Handler(a)
    BY <1>1 DEF Next
  <2>2. ClassTypeOK /\ Bookkeeping /\ FlagIsHeld /\ Rows /\ \A b \in Actor : Resting(b)
    BY <1>1 DEF ClassInv, Bookkeeping
  <2>3. ClassTypeOK' /\ FlagIsHeld'
    BY <2>1, <2>2, TypeStep, FlagStep
  <2>4. ASSUME NEW b \in Actor PROVE Resting(b)' /\ Cascade(b)'
    BY <2>1, <2>2, RestingStep, CascadeStep
  <2>5. Locked'
    BY <2>1, <2>2, LockedStep
  <2>6. Rows'
    BY <2>1, <2>2, <2>3, RowsStep
  <2>. QED BY <2>3, <2>4, <2>5, <2>6 DEF ClassInv, Bookkeeping
<1>2. ASSUME ClassInv, UNCHANGED vars PROVE ClassInv'
  <2>. USE <1>2 DEF vars, actorVars
  <2>1. ClassTypeOK' /\ FlagIsHeld'
    BY DEF ClassInv, ClassTypeOK, FlagIsHeld
  <2>2. Bookkeeping'
    BY DEF ClassInv, Bookkeeping, Locked, Resting, Cascade
  <2>3. Rows'
    BY DEF ClassInv, Rows, InHand, Knows, Evaluated, Written, Waits, Settled, Current, Announcing,
           Open, LedgerSeen, RulesSeen, ResultsSeen
  <2>. QED BY <2>1, <2>2, <2>3 DEF ClassInv
<1>. QED BY <1>1, <1>2

(* A row in the hands of one handler has what that handler sees fit; one   *)
(* that nobody works on has current suggestions, or a recomputation ahead. *)
THEOREM ClassificationInvariant == Spec => []ClassInv
BY InitInv, NextInv, PTL DEF Spec

(* Rules, rows, suggestions, transactions and handlers stay in their sets. *)
THEOREM ClassificationTypeCorrect == Spec => []ClassTypeOK
<1>1. ClassInv => ClassTypeOK
  BY DEF ClassInv
<1>. QED BY <1>1, ClassificationInvariant, PTL

(* The flag of a process never outlives the recomputation that raised it.  *)
THEOREM FlagIsTakenDown == Spec => []FlagIsHeld
<1>1. ClassInv => FlagIsHeld
  BY DEF ClassInv
<1>. QED BY <1>1, ClassificationInvariant, PTL

(* Without a handler at work, the suggestions of every row whose handlers  *)
(* did not overlap, with each other or with the commit of a rule, are what *)
(* the rules say of it.                                                    *)
THEOREM SuggestionsFollowRules == Spec => []SuggestionsAreCurrent
<1>1. ASSUME ClassInv, \A a \in Actor : doing[a] = "idle", NEW h \in Host \ torn, NEW t \in Target
      PROVE  Current(h, t)
  <2>1. ~Announcing /\ \A a \in Actor : h \notin held[a]
    BY <1>1 DEF ClassInv, Bookkeeping, Resting, Announcing
  <2>2. Settled(h)
    BY <1>1, <2>1 DEF ClassInv, Rows
  <2>. QED BY <2>1, <2>2 DEF Settled
<1>2. ClassInv => SuggestionsAreCurrent
  BY <1>1 DEF SuggestionsAreCurrent
<1>. QED BY <1>2, ClassificationInvariant, PTL
=============================================================================
