---------------------------- MODULE ScanOutcome ----------------------------
(***************************************************************************)
(* What a discovery scan promises, host by host: every host of the target  *)
(* has at most one DiscoveryResult, over SNMP or over SSH; SSH results     *)
(* appear only once no more SNMP result can; and when the scan is          *)
(* completed its results are final.                                        *)
(***************************************************************************)
CONSTANTS Host

VARIABLES
  outcome,  \* the protocols that produced a result for the host
  stage     \* "snmp", then "ssh", then "completed"

outcomeVars == <<outcome, stage>>

OutcomeInit == outcome = [h \in Host |-> {}] /\ stage = "snmp"

Record(h, protocol) ==
  /\ stage = protocol
  /\ outcome[h] = {}
  /\ outcome' = [outcome EXCEPT ![h] = {protocol}]
  /\ UNCHANGED stage

Advance ==
  /\ \/ stage = "snmp" /\ stage' = "ssh"
     \/ stage = "ssh"  /\ stage' = "completed"
  /\ UNCHANGED outcome

OutcomeNext == Advance \/ \E h \in Host, p \in {"snmp", "ssh"} : Record(h, p)

OutcomeSpec == OutcomeInit /\ [][OutcomeNext]_outcomeVars
=============================================================================
