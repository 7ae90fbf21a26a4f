---------------------------- MODULE MCLedgerJobs ----------------------------
(***************************************************************************)
(* Instances of LedgerJobs for TLC: two addresses with rows, two secrets   *)
(* groups of which one may have stopped to work.                           *)
(***************************************************************************)
EXTENDS LedgerJobs, TLC

CONSTANTS h1, h2, seed, g1, g2

MCHost == {h1, h2}
MCName == {"sw1", "sw2"}
MCSame == [n \in MCName |-> n]
MCDevice == {seed} \cup (MCHost \X Method)

Id(n, s) == [name |-> n, serial |-> s]
MCSnmp == (h1 :> {Id("sw1", "s1"), NoInfo}) @@ (h2 :> {NoInfo})
Ssh(S, id) == [accepts |-> S, id |-> id]
MCSsh == (h1 :> {Ssh({NoGroup}, Id("sw1", "s1"))})
         @@ (h2 :> {Ssh({}, Id("sw2", NoSerial)), Ssh({g2}, Id("sw2", NoSerial))})

MCOrder == <<g1, g2>>

Row(st, n, g) == [status |-> st, device |-> NoDevice, name |-> n, serial |-> NoSerial,
                  snmp |-> TRUE, ssh |-> g # NoGroup, group |-> g]
MCLedgers == {(h1 :> Row("conflict", "sw1", NoGroup)) @@ (h2 :> Row("new", "sw2", g1))}

NoDevices == [d \in MCDevice |-> NoDevice]
MCInventories == {NoDevices}
MCEntered == {[name |-> "sw2", serial |-> NoSerial, ip |-> NoIp]}

Form(prof, ssh, st) == [profile |-> prof, scope |-> MCHost, statuses |-> st, ssh |-> ssh]
MCSyncForms == {Form(TRUE, TRUE, {}), Form(FALSE, TRUE, {"new"}), Form(TRUE, FALSE, {"failed"})}

Pick(S, dry, def) == [picked |-> S, dryrun |-> dry, defaults |-> def]
MCOnboardForms == {Pick(MCHost, FALSE, TRUE), Pick({h2}, TRUE, TRUE), Pick({h2}, FALSE, FALSE)}

Job(dry, missing) == [dryrun |-> dry, create |-> FALSE, createMissing |-> missing,
  fastPath |-> FALSE, ping |-> FALSE, snmp |-> TRUE, ssh |-> TRUE, candidates |-> TRUE]
MCJobs == {Job(FALSE, TRUE)}
MCDryJobs == {Job(TRUE, TRUE)}
=============================================================================
