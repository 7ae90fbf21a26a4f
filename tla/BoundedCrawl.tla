---------------------------- MODULE BoundedCrawl ----------------------------
(***************************************************************************)
(* What a crawl promises, with its threads, levels and counters left out:  *)
(* starting from one address it reaches others one hop at a time, each     *)
(* from an address that was discovered, never more hops away than the      *)
(* depth allows and never more of them than the cap; no address is         *)
(* discovered twice, and after its end nothing is reached or discovered.   *)
(***************************************************************************)
EXTENDS Naturals, FiniteSets

CONSTANTS Address, Unreached

VARIABLES
  bound,       \* [maxDepth, maxDevices]: the caps the crawl was given
  hop,         \* how many hops away each address was reached
  discovered,  \* the addresses with a result
  over         \* the crawl has ended

bvars == <<bound, hop, discovered, over>>

Reached == {a \in Address : hop[a] # Unreached}

BInit ==
  /\ hop = [a \in Address |-> Unreached]
  /\ discovered = {}
  /\ over = FALSE

Begin(a) ==
  /\ ~over
  /\ Reached = {}
  /\ hop' = [hop EXCEPT ![a] = 0]
  /\ UNCHANGED <<bound, discovered, over>>

Discover(a) ==
  /\ ~over
  /\ a \in Reached \ discovered
  /\ discovered' = discovered \cup {a}
  /\ UNCHANGED <<bound, hop, over>>

Reach(a, b) ==
  /\ ~over
  /\ a \in discovered
  /\ b \notin Reached
  /\ hop[a] + 1 < bound.maxDepth
  /\ Cardinality(Reached) < bound.maxDevices
  /\ hop' = [hop EXCEPT ![b] = hop[a] + 1]
  /\ UNCHANGED <<bound, discovered, over>>

End ==
  /\ over' = TRUE
  /\ UNCHANGED <<bound, hop, discovered>>

BNext ==
  \/ \E a \in Address : Begin(a) \/ Discover(a)
  \/ \E a, b \in Address : Reach(a, b)
  \/ End

BSpec == BInit /\ [][BNext]_bvars
=============================================================================
