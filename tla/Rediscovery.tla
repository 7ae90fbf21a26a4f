---------------------------- MODULE Rediscovery ----------------------------
(***************************************************************************)
(* One address is probed again and again, by one scan at a time, while     *)
(* devices are added to Nautobot: by the operator, with any attributes, or *)
(* by the plugin, with the attributes it discovered.  Rows of the address  *)
(* come up in one namespace and another.  It asks whether the verdict of   *)
(* correlate_device is stable enough to be acted upon.                     *)
(***************************************************************************)
EXTENDS Correlation

CONSTANTS Rows0   \* the rows the operator may enter

ASSUME Rows0Assumption == Rows0 \subseteq DeviceRow

VARIABLES
  inv,      \* the Device table
  probe,    \* what the address answers: its address, name and serial
  address   \* the IPAddress rows of the address

rvars == <<inv, probe, address>>

Probe == [ip : Ip, name : Name \cup {NoName}, serial : Serial \cup {NoSerial}]

(* IPAddress.objects.filter(host=...).first(): which row comes first is not*)
(* determined when they have one mask length, and changes as rows come.    *)
FirstRows == IF address = {} THEN {NoIp} ELSE address

Found(ip) == Matches(inv, ip, probe.name, probe.serial)

(* The verdict when ip is the first row.                                   *)
Status(ip) == CorrelationStatus(inv, ip, probe.name, probe.serial)

RInit ==
  /\ inv = [d \in Device |-> NoDevice]
  /\ probe \in Probe
  /\ address = {}

(* An operator's device; its primary IP is a row of the IPAddress table.   *)
OperatorAdds(d, row) ==
  /\ inv[d] = NoDevice
  /\ inv' = [inv EXCEPT ![d] = row]
  /\ address' = address \cup ({row.ip} \cap AddressRows(probe.ip))
  /\ UNCHANGED probe

(* An operator, or the interface table of another device, records the      *)
(* address in one more namespace.                                          *)
AddressAdded(ip) ==
  /\ ip \notin address
  /\ address' = address \cup {ip}
  /\ UNCHANGED <<inv, probe>>

Created(ip) == [name |-> probe.name, serial |-> probe.serial, ip |-> ip]

(* Mutant: a device is created for an identity without a name.             *)
PluginAddsUnnamed(d, ip) ==
  /\ \E first \in FirstRows : Status(first) = "new"
  /\ inv[d] = NoDevice
  /\ inv' = [inv EXCEPT ![d] = Created(ip)]
  /\ address' = address \cup {ip}
  /\ UNCHANGED probe

(* finalize_discovery with auto_create, undisturbed: the device gets the   *)
(* name and serial that were read, and the probed address as primary IP:   *)
(* the row of the namespace it is reported in, found or made.              *)
PluginAdds(d, ip) ==
  /\ \E first \in FirstRows : Status(first) = "new"
  /\ probe.name # NoName
  /\ inv[d] = NoDevice
  /\ inv' = [inv EXCEPT ![d] = Created(ip)]
  /\ address' = address \cup {ip}
  /\ UNCHANGED probe

RNext ==
  \/ \E d \in Device, ip \in AddressRows(probe.ip) : PluginAdds(d, ip)
  \/ \E d \in Device, row \in Rows0 : OperatorAdds(d, row)
  \/ \E ip \in AddressRows(probe.ip) : AddressAdded(ip)

RSpec == RInit /\ [][RNext]_rvars
---------------------------------------------------------------------------
RTypeOK ==
  /\ inv \in Inventory
  /\ probe \in Probe
  /\ address \subseteq AddressRows(probe.ip)

(* imported, against its reading in the README: one device, and no other,  *)
(* matches, its name and serial agree with all that was discovered, and    *)
(* its primary IP is the address -- in its first row.  correlate_device    *)
(* tests the address by whether some device has that row, which must come  *)
(* to the same.  (A device that has another row of the address, and agrees *)
(* in everything, is only partially_imported.)                             *)
AgreesWith(d, ip) ==
  /\ inv[d].ip = ip /\ inv[d].ip \in AddressRows(probe.ip)
  /\ probe.name # NoName => SameName(inv, d, probe.name)
  /\ probe.serial # NoSerial => inv[d].serial = probe.serial

ImportedAsDocumented ==
  \A ip \in FirstRows :
    Status(ip) = "imported" <=> \E d \in Rows(inv) : AgreesWith(d, ip) /\ Found(ip) = {d}

(* Probing again after the plugin created a device never finds the address *)
(* new, so that it is not created a second time.  It is imported exactly   *)
(* when the row the device was given comes first; when another row does,   *)
(* the rerun flags it for review, as it does when that row is the primary  *)
(* IP of a second device.                                                  *)
CreatedIsImported ==
  [][\A d \in Device, ip \in AddressRows(probe.ip) : PluginAdds(d, ip) =>
       \A first \in FirstRows' :
         Status(first)' = IF \E e \in Rows(inv) : inv[e].ip = first THEN "conflict"
                          ELSE IF first = ip THEN "imported" ELSE "partially_imported"]_rvars

(* A conflict is not resolved, and a match does not disappear, by adding   *)
(* devices or addresses, as long as the same row comes first; what is found*)
(* by name or serial alone stays found whichever row comes first.          *)
ConflictStays ==
  [][\A ip \in FirstRows, next \in FirstRows' : ip = next \/ ip = NoIp =>
       /\ Status(ip) = "conflict" => Status(next)' = "conflict"
       /\ Status(ip) # "new" => Status(next)' # "new"]_rvars
=============================================================================
