----------------------------- MODULE MCCabling -----------------------------
(* Two boxes, a with the ports 1 and 3, b with 2 and 4; box a numbers its   *)
(* LLDP ports the other way.                                                *)
EXTENDS Cabling, TLC

CONSTANTS a, b, j1, j2

MCPort == 1..4

MCBoxOf == [p \in MCPort |-> IF p \in {1, 3} THEN a ELSE b]

MCAddress == {"a1", "a2", "a3", "a4"}

Own(ports) ==
  [p \in MCPort |-> IF p \in ports THEN <<"a1", "a2", "a3", "a4">>[p] ELSE NoAddress]

Numbers == [p \in MCPort |-> CASE p = 1 -> 3 [] p = 3 -> 1 [] OTHER -> p]

Both == [j \in Job |-> Box]

(* The wires cross in the order of primary keys.                            *)
Announcing(lldp, cdp, column, addressed, fqdn, stored) ==
  [wires |-> {{1, 4}, {2, 3}}, scanned |-> Both, lldp |-> lldp, cdp |-> cdp,
   number |-> Numbers, column |-> column, address |-> Own(addressed),
   lldpIp |-> Own(addressed), cdpIp |-> Own(addressed),
   named |-> {1, 2, 3}, fqdn |-> fqdn, stored |-> stored]

(* A box with a single address, that of the port m, which all its ports     *)
(* announce in CDP and perhaps in LLDP.                                     *)
Managed(m, scanned, lldp, cdp, lldpIp) ==
  LET shared == [p \in MCPort |-> IF MCBoxOf[p] = MCBoxOf[m] THEN Own({m})[m] ELSE NoAddress]
  IN  [Announcing(lldp, cdp, {a, b}, {m}, {}, {}) EXCEPT
         !.scanned = scanned, !.cdpIp = shared, !.named = MCPort,
         !.lldpIp = IF lldpIp THEN shared ELSE Own({})]

OneJob == {[i \in Job |-> IF i = j THEN Box ELSE {}] : j \in Job}

(* Two jobs and addresses of the ports; two jobs and an address that two    *)
(* links share; and a single job, with one row for each neighbor, with two  *)
(* rows and with a hub on port 2.                                           *)
MCSites ==
  {Announcing({1, 2, 3}, {4}, {a, b}, {1, 4}, {a}, {}),
   Announcing({1, 3, 4}, {1, 2}, {b}, {2, 4}, {b}, {a}),
   Announcing({1, 2, 3, 4}, {}, {a}, {3}, {}, {b}),
   Managed(2, Both, {1, 3}, {2, 4}, TRUE)}
  \cup UNION {{Managed(2, s, {2, 4}, {1, 3}, FALSE),
              Managed(1, s, {2, 4}, {2, 4}, FALSE),
              [Managed(2, s, {2}, {1, 3}, FALSE) EXCEPT !.wires = {{1, 2}, {2, 3}}]} : s \in OneJob}

JobsAlike == Permutations(Job)
=============================================================================
