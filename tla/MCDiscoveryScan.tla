-------------------------- MODULE MCDiscoveryScan --------------------------
(***************************************************************************)
(* Instances of DiscoveryScan for TLC.  Three spellings of one hostname    *)
(* ("sw1", "SW1" and "sw1.corp", whose suffix is stripped) and a second    *)
(* name; a serial; one device that may be in Nautobot beforehand.          *)
(***************************************************************************)
EXTENDS DiscoveryScan

CONSTANTS h1, h2, h3, seed, other, g1, global

MCName == {"sw1", "SW1", "sw1.corp", "sw2"}
MCFold == [n \in MCName |-> IF n = "SW1" THEN "sw1" ELSE n]
MCStrip == [n \in MCName |-> IF n = "sw1.corp" THEN "sw1" ELSE n]
MCSerial == {"s1", "s2"}
MCSeed == {seed}
MCDevice == MCSeed \cup (Host \X Method)
MCIp == Host \cup {other}

Id(n, s) == [name |-> n, serial |-> s]
Via(g, id) == [id |-> id, group |-> g]

(* The Device table: nothing, a device that h1 finds imported, a device    *)
(* with a blank serial at another address, one with another spelling.      *)
Table(rows) == [d \in Device |-> IF d \in DOMAIN rows THEN rows[d] ELSE NoDevice]
With(n, s, ip) == Table([d \in {seed} |->
  [name |-> n, serial |-> s, ip |-> [host |-> ip, space |-> global]]])
NoDevices == Table([d \in {} |-> d])
MCInventories == {NoDevices, With("sw1", "s1", h1), With("SW1", NoSerial, other)}
MCNoDevices == {NoDevices}

Unknown == [h \in Host |-> NoRow]
Row(h, st) == [status |-> st, device |-> NoDevice, name |-> "sw2", serial |-> NoSerial,
               snmp |-> FALSE, ssh |-> TRUE, group |-> g1]
MCUnknown == {Unknown}
MCLedgers == {Unknown, [Unknown EXCEPT ![h1] = Row(h1, "new")]}

Same(choices) == [h \in Host |-> choices]
MCPing == [h \in Host |-> IF h = h1 THEN {TRUE} ELSE BOOLEAN]
MCAlive == Same({TRUE})

(* Two addresses of one box, or of two boxes, or a silent one.             *)
MCSnmp == [h \in Host |-> IF h = h1 THEN {Id("sw1", "s1"), NoInfo}
                          ELSE {Id("sw1.corp", "s1"), Id("SW1", NoSerial), NoInfo}]
MCSsh == [h \in Host |-> IF h = h1 THEN {Via(g1, Id("sw1", NoSerial)), NoInfo}
                         ELSE {Via(NoGroup, Id("sw2", "s1"))}]

(* One name at every address: without a serial, then with different ones.  *)
MCBlankThenSerial == [h \in Host |-> {Id("sw1", IF h = h1 THEN NoSerial
                                             ELSE IF h = h2 THEN "s1" ELSE "s2")}]
MCSilent == Same({NoInfo})
MCSshOnly == Same({Via(g1, Id("sw1", "s1"))})

Job(dry, create, missing, fast, ping, snmp, ssh) ==
  [dryrun |-> dry, create |-> create, createMissing |-> missing, fastPath |-> fast,
   ping |-> ping, snmp |-> snmp, ssh |-> ssh, candidates |-> TRUE]

Full == Job(FALSE, TRUE, TRUE, FALSE, TRUE, TRUE, TRUE)
MCFull == {Full}

(* The job form's choices, one at a time and the combinations that matter. *)
MCJobs == {Full, [Full EXCEPT !.dryrun = TRUE], [Full EXCEPT !.create = FALSE],
           [Full EXCEPT !.createMissing = FALSE], [Full EXCEPT !.fastPath = TRUE],
           [Full EXCEPT !.ping = FALSE, !.snmp = FALSE], [Full EXCEPT !.ssh = FALSE],
           [Full EXCEPT !.candidates = FALSE]}
MCSlowJobs == {job \in MCJobs : ~job.fastPath}
MCFast == {[Full EXCEPT !.fastPath = TRUE]}
=============================================================================
