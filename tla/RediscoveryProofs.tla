-------------------------- MODULE RediscoveryProofs --------------------------
(***************************************************************************)
(* The verdict of correlate_device, for every inventory, every set of rows *)
(* an address has and whichever of them comes first: what imported means,  *)
(* what becomes of a device the plugin creates, and that a conflict does   *)
(* not dissolve as the inventory grows.                                    *)
(***************************************************************************)
EXTENDS Rediscovery, TLAPS

(* The row the plugin creates is a Device row.                             *)
LEMMA CreatedType ==
  ASSUME RTypeOK, NEW ip \in AddressRows(probe.ip), probe.name # NoName
  PROVE  Created(ip) \in DeviceRow /\ ip \in IPAddress
BY DEF RTypeOK, Probe, Created, DeviceRow, AddressRows, IPAddress

LEMMA InvKept == RTypeOK /\ [RNext]_rvars => RTypeOK'
<1> SUFFICES ASSUME RTypeOK, [RNext]_rvars PROVE RTypeOK'
  OBVIOUS
<1> USE DEF RTypeOK
<1>1. ASSUME NEW d \in Device, NEW ip \in AddressRows(probe.ip), PluginAdds(d, ip)
      PROVE  RTypeOK'
  <2>1. Created(ip) \in DeviceRow
    BY <1>1, CreatedType DEF PluginAdds
  <2> QED
    BY <1>1, <2>1 DEF PluginAdds, Inventory
<1>2. ASSUME NEW d \in Device, NEW row \in Rows0, OperatorAdds(d, row) PROVE RTypeOK'
  BY <1>2, Rows0Assumption DEF OperatorAdds, Inventory
<1>3. ASSUME NEW ip \in AddressRows(probe.ip), AddressAdded(ip) PROVE RTypeOK'
  BY <1>3 DEF AddressAdded
<1> QED
  BY <1>1, <1>2, <1>3 DEF RNext, rvars

(* The inventory, the probe and the rows of the address keep their types.  *)
THEOREM RTypeCorrect == RSpec => []RTypeOK
<1>1. RInit => RTypeOK
  BY DEF RInit, RTypeOK, Inventory
<1> QED
  BY <1>1, InvKept, PTL DEF RSpec

(* The address itself is compared only through the existence of a device   *)
(* whose primary IP is its first row; with a single match this is the      *)
(* matched device.                                                         *)
LEMMA ImportedMeaning == RTypeOK => ImportedAsDocumented
<1> SUFFICES ASSUME RTypeOK, NEW ip \in FirstRows
             PROVE  Status(ip) = "imported" <=>
                      \E d \in Rows(inv) : AgreesWith(d, ip) /\ Found(ip) = {d}
  BY DEF ImportedAsDocumented
<1> DEFINE M == Matches(inv, ip, probe.name, probe.serial)
<1>1. DevicesWithIp(inv, ip) \subseteq M
  BY DEF Matches
<1>2. ip = NoIp \/ ip \in AddressRows(probe.ip)
  BY DEF FirstRows, RTypeOK
<1>3. NoIp \notin AddressRows(probe.ip)
  BY NoIpIsNoAddress DEF AddressRows, IPAddress, RTypeOK, Probe
<1>4. ASSUME NEW d \in Device, M = {d}
      PROVE  AllKnownAgree(inv, d, ip, probe.name, probe.serial) <=> AgreesWith(d, ip)
  <2>1. d \in Rows(inv)
    BY <1>4 DEF Matches, DevicesWithIp
  <2>2. DevicesWithIp(inv, ip) # {} <=> ip # NoIp /\ inv[d].ip = ip
    BY <1>1, <1>4, <2>1 DEF DevicesWithIp
  <2> QED
    BY <1>2, <1>3, <2>2 DEF AllKnownAgree, AgreesWith
<1>5. M \subseteq Rows(inv) /\ Rows(inv) \subseteq Device
  BY DEF Matches, DevicesWithIp, Rows
<1>6. Status(ip) = "imported" <=>
        \E d \in M : M = {d} /\ AllKnownAgree(inv, d, ip, probe.name, probe.serial)
  BY DEF Status, CorrelationStatus, IsOne
<1> HIDE DEF M
<1>7. Status(ip) = "imported" <=> \E d \in Rows(inv) : AgreesWith(d, ip) /\ M = {d}
  BY <1>4, <1>5, <1>6
<1> QED
  BY <1>7 DEF Found, M

(* Imported means that one device matches, that it agrees in everything    *)
(* that was discovered and has the first row of the address.               *)
THEOREM ImportedMeansAgreement == RSpec => []ImportedAsDocumented
BY RTypeCorrect, ImportedMeaning, PTL

(* A device that was there still matches after a step of the inventory, as *)
(* long as the same row comes first.                                       *)
LEMMA MatchesGrow ==
  ASSUME RTypeOK, [RNext]_rvars, NEW ip, NEW next, ip = next \/ ip = NoIp
  PROVE  /\ probe' = probe
         /\ Matches(inv, ip, probe.name, probe.serial)
              \subseteq Matches(inv', next, probe.name, probe.serial)
<1>1. probe' = probe /\ \A d \in Rows(inv) : d \in Rows(inv') /\ inv'[d] = inv[d]
  BY DEF RTypeOK, RNext, rvars, PluginAdds, OperatorAdds, AddressAdded, Inventory, Rows
<1> QED
  BY <1>1 DEF Matches, DevicesWithIp, SameName, Rows

(* A conflict stays one while devices and addresses are only added, and an *)
(* address that matched a device matches one again, if the first row is    *)
(* the same or the match did not need it.                                  *)
THEOREM ConflictIsStable == RSpec => ConflictStays
<1>1. ASSUME RTypeOK, [RNext]_rvars
      PROVE  [\A ip \in FirstRows, next \in FirstRows' : ip = next \/ ip = NoIp =>
                /\ Status(ip) = "conflict" => Status(next)' = "conflict"
                /\ Status(ip) # "new" => Status(next)' # "new"]_rvars
  <2> SUFFICES ASSUME NEW ip, NEW next, ip = next \/ ip = NoIp
               PROVE  /\ Status(ip) = "conflict" => Status(next)' = "conflict"
                      /\ Status(ip) # "new" => Status(next)' # "new"
    OBVIOUS
  <2> DEFINE M == Matches(inv, ip, probe.name, probe.serial)
             N == Matches(inv', next, probe'.name, probe'.serial)
  <2>1. M \subseteq N
    BY <1>1, MatchesGrow
  <2>2. Status(ip) = "conflict" <=> M # {} /\ ~IsOne(M)
    BY DEF Status, CorrelationStatus
  <2>3. Status(next)' = "conflict" <=> N # {} /\ ~IsOne(N)
    BY DEF Status, CorrelationStatus
  <2>4. (Status(ip) = "new" <=> M = {}) /\ (Status(next)' = "new" <=> N = {})
    BY DEF Status, CorrelationStatus
  <2> HIDE DEF M, N
  <2> QED
    BY <2>1, <2>2, <2>3, <2>4 DEF IsOne
<1> QED
  BY <1>1, RTypeCorrect, PTL DEF RSpec, ConflictStays

(* What a probe finds just after the plugin created d: d, by its name, and *)
(* the other devices whose primary IP is the row that comes first.         *)
LEMMA FoundAfterCreation ==
  ASSUME RTypeOK, NEW d \in Device, NEW ip \in AddressRows(probe.ip), PluginAdds(d, ip),
         NEW first \in AddressRows(probe.ip)
  PROVE  /\ probe' = probe /\ inv[d] = NoDevice /\ inv'[d] = Created(ip)
         /\ Matches(inv', first, probe.name, probe.serial) =
              {d} \cup {e \in Rows(inv) : inv[e].ip = first}
         /\ DevicesWithIp(inv', first) # {} <=>
              first = ip \/ \E e \in Rows(inv) : inv[e].ip = first
<1>1. PICK before \in FirstRows : Status(before) = "new"
  BY DEF PluginAdds
<1>2. /\ probe' = probe /\ probe.name \in Name /\ probe.name # NoName
      /\ inv' = [inv EXCEPT ![d] = Created(ip)] /\ inv \in Inventory /\ inv[d] = NoDevice
  BY DEF RTypeOK, PluginAdds, Probe
<1>3. Matches(inv, before, probe.name, probe.serial) = {}
  BY <1>1 DEF Status, CorrelationStatus
<1>4. Created(ip) \in DeviceRow /\ first \in IPAddress
  BY <1>2, CreatedType
<1>5. inv'[d] = Created(ip) /\ Rows(inv') = Rows(inv) \cup {d} /\ d \notin Rows(inv)
  BY <1>2, <1>4, NoDeviceIsNoRow DEF Inventory, Rows
<1>6. \A e \in Rows(inv) : inv'[e] = inv[e]
  BY <1>2 DEF Rows, Inventory
<1>7. first # NoIp
  BY <1>4, NoIpIsNoAddress
<1>8. \A e \in Rows(inv) : e \in DevicesWithIp(inv', first) <=> inv[e].ip = first
  BY <1>5, <1>6, <1>7 DEF DevicesWithIp
<1>9. d \in DevicesWithIp(inv', first) <=> first = ip
  BY <1>5, <1>7 DEF DevicesWithIp, Created
<1>10. \A e \in Rows(inv) : e \in Matches(inv', first, probe.name, probe.serial)
                              <=> e \in DevicesWithIp(inv', first)
  BY <1>3, <1>5, <1>6 DEF Matches, SameName
<1>11. SameName(inv', d, probe.name)
  BY <1>5 DEF SameName, Created
<1>12. d \in Matches(inv', first, probe.name, probe.serial)
  BY <1>2, <1>5, <1>11 DEF Matches
<1>13. /\ Matches(inv', first, probe.name, probe.serial) \subseteq Rows(inv')
       /\ DevicesWithIp(inv', first) \subseteq Rows(inv')
  BY DEF Matches, DevicesWithIp
<1> QED
  BY <1>2, <1>5, <1>8, <1>9, <1>10, <1>12, <1>13

(* What the plugin creates it recognises: the next probe of an address for *)
(* which a device was created does not answer new, and answers imported    *)
(* when the row the device was given comes first and no other device has   *)
(* it as primary IP.                                                       *)
THEOREM RerunIsIdempotent == RSpec => CreatedIsImported
<1>1. ASSUME RTypeOK, [RNext]_rvars
      PROVE  [\A d \in Device, ip \in AddressRows(probe.ip) : PluginAdds(d, ip) =>
                \A first \in FirstRows' :
                  Status(first)' =
                    IF \E e \in Rows(inv) : inv[e].ip = first THEN "conflict"
                    ELSE IF first = ip THEN "imported" ELSE "partially_imported"]_rvars
  <2> SUFFICES ASSUME NEW d \in Device, NEW ip \in AddressRows(probe.ip), PluginAdds(d, ip),
                      NEW first \in FirstRows'
               PROVE  Status(first)' =
                        IF \E e \in Rows(inv) : inv[e].ip = first THEN "conflict"
                        ELSE IF first = ip THEN "imported" ELSE "partially_imported"
    OBVIOUS
  <2>1. first \in AddressRows(probe.ip)
    BY <1>1 DEF FirstRows, PluginAdds, RTypeOK
  <2> DEFINE others == {e \in Rows(inv) : inv[e].ip = first}
             N == Matches(inv', first, probe.name, probe.serial)
             found == DevicesWithIp(inv', first)
  <2>2. /\ probe' = probe /\ inv[d] = NoDevice /\ inv'[d] = Created(ip)
        /\ N = {d} \cup others
        /\ found # {} <=> first = ip \/ others # {}
    BY <1>1, <2>1, FoundAfterCreation
  <2>3. d \notin others
    BY <2>2 DEF Rows
  <2>4. Status(first)' = IF ~IsOne(N) THEN "conflict"
                         ELSE IF \E e \in N : AllKnownAgree(inv', e, first, probe.name, probe.serial)
                         THEN "imported" ELSE "partially_imported"
    BY <2>2 DEF Status, CorrelationStatus
  <2>5. AllKnownAgree(inv', d, first, probe.name, probe.serial) <=> found # {}
    BY <2>2 DEF AllKnownAgree, SameName, Created
  <2>6. IsOne(N) <=> others = {}
    <3> HIDE DEF N, others
    <3> QED
      BY <2>2, <2>3 DEF IsOne
  <2>7. others = {} => N = {d}
    BY <2>2
  <2> HIDE DEF N, others, found
  <2>8. Status(first)' = IF others # {} THEN "conflict"
                         ELSE IF first = ip THEN "imported" ELSE "partially_imported"
    BY <2>2, <2>4, <2>5, <2>6, <2>7
  <2> QED
    BY <2>8 DEF others
<1> QED
  BY <1>1, RTypeCorrect, PTL DEF RSpec, CreatedIsImported
=============================================================================
