---------------------------- MODULE MCVrfRoutes ----------------------------
(* Two boxes that share a network across VRFs and tables, of platforms that *)
(* tag differently, and every way the walks of one collector can fail.      *)
EXTENDS VrfRoutes

CONSTANTS h1, h2, red, blue, n1, n2

(* n1 is in use in two VRFs of one box.                                     *)
Pe(platform) ==
  [vrfs |-> {red, blue}, platform |-> platform,
   routes |-> {<<n1, red>>, <<n1, blue>>},
   ips |-> {<<n1, red>>}]

Ce(platform) ==
  [vrfs |-> {red}, platform |-> platform,
   routes |-> {<<n2, Global>>, <<n1, red>>},
   ips |-> {<<n2, Global>>}]

MCNetworks ==
  {[h \in Host |-> IF h = h1 THEN Pe(p) ELSE Ce("cisco")] : p \in {"junos", "cisco"}}
  \cup {[h \in Host |-> IF h = h1 THEN Pe("comware") ELSE Ce("nokia")]}

MCOutages == {{}, Walk, {<<"routes", t>> : t \in Table}}

(* The usual job over version 3, one in the context of a VRF, and one with  *)
(* each option reversed.                                                    *)
MCForms ==
  LET usual == [v3 |-> TRUE, context |-> Global, ssh |-> TRUE, dryrun |-> FALSE,
                vrfs |-> TRUE, prefixes |-> TRUE]
  IN {usual, [usual EXCEPT !.context = red]}
       \cup {[usual EXCEPT ![o] = ~@] : o \in DOMAIN usual \ {"context"}}
=============================================================================
