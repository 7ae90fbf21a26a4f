--------------------------- MODULE MCRediscovery ---------------------------
(***************************************************************************)
(* Two addresses, of which one is probed, and two namespaces; two names of *)
(* which one has a second spelling, two serials; up to three devices, so   *)
(* that a conflict of two can be joined by a third.                        *)
(***************************************************************************)
EXTENDS Rediscovery, TLC

CONSTANTS ip1, ip2, global, vrf

MCName == {"sw1", "SW1", "sw2"}
MCFold == [n \in MCName |-> IF n = "SW1" THEN "sw1" ELSE n]

(* The namespace of an address that is not probed is of no consequence.    *)
MCRows0 == {row \in DeviceRow : row.ip # [host |-> ip2, space |-> vrf]}

MCInit == RInit /\ probe.ip = ip1

MCSpec == MCInit /\ [][RNext]_rvars

MCSymmetry == Permutations(Device) \cup Permutations(Serial)
=============================================================================
