---------------------------- MODULE Correlation ----------------------------
(***************************************************************************)
(* The Nautobot inventory as the plugin reads it, and the correlation of a *)
(* discovered identity with it (correlation.py).                           *)
(*                                                                         *)
(* A Device is what correlation can tell about it: its name, its serial    *)
(* number and the IPAddress row that is its primary IP.  A host address    *)
(* has a row in each Namespace it was recorded in: the Global one, the one *)
(* of each VRF, and those an operator made.  A discovered identity is the  *)
(* address that was probed and the (name, serial) pair that was read from  *)
(* it.  The blank string is NoName, NoSerial; an unset primary IP is NoIp. *)
(***************************************************************************)
CONSTANTS
  Ip,         \* management IP addresses
  Namespace,  \* IPAM namespaces
  Name,       \* hostnames
  Serial,     \* serial numbers, equal when they agree up to case and blanks
  Device,     \* primary keys a Device row can have
  Fold,       \* lower case of a hostname: a function on Name
  NoIp, NoName, NoSerial,
  NoDevice    \* no row, and the NULL of a foreign key to a Device

ASSUME CorrelationAssumption ==
  /\ NoIp \notin Ip
  /\ NoName \notin Name
  /\ NoSerial \notin Serial
  /\ NoDevice \notin Device
  /\ Fold \in [Name -> Name]

IPAddress == [host : Ip, space : Namespace]

ASSUME NoIpIsNoAddress == NoIp \notin IPAddress

(* The rows an address can have.                                           *)
AddressRows(host) == [host : {host}, space : Namespace]

DeviceRow == [name : Name, serial : Serial \cup {NoSerial}, ip : IPAddress \cup {NoIp}]

ASSUME NoDeviceIsNoRow == NoDevice \notin DeviceRow

(* An inventory maps a primary key to its row, or to NoDevice.             *)
Inventory == [Device -> DeviceRow \cup {NoDevice}]

Rows(inv) == {d \in Device : inv[d] # NoDevice}

(* device.primary_ip4.host, as the jobs read it.                           *)
PrimaryHost(row) == IF row.ip = NoIp THEN NoIp ELSE row.ip.host

(* What a collection reads from a device; a hostname is never blank, the   *)
(* collectors put the address in its place.                                *)
Identity == [name : Name, serial : Serial \cup {NoSerial}]
---------------------------------------------------------------------------
(* _devices_with_ip: of the rows of an address it takes the first, which   *)
(* is ip here, and asks whose primary IP that one is; the devices that have*)
(* another row of the address are not found.  NoIp: there is no row.       *)
DevicesWithIp(inv, ip) == {d \in Rows(inv) : ip # NoIp /\ inv[d].ip = ip}

SameName(inv, d, name) == Fold[inv[d].name] = Fold[name]

(* Mutant: the serial is not searched for.                                 *)
MatchesWithoutSerial(inv, ip, name, serial) ==
  DevicesWithIp(inv, ip) \cup {d \in Rows(inv) : name # NoName /\ SameName(inv, d, name)}

(* Mutant: devices are searched by name and serial within the address.     *)
MatchesWithinIp(inv, ip, name, serial) ==
  IF DevicesWithIp(inv, ip) # {} THEN DevicesWithIp(inv, ip)
  ELSE {d \in Rows(inv) : name # NoName /\ SameName(inv, d, name)}
         \cup {d \in Rows(inv) : serial # NoSerial /\ inv[d].serial = serial}

(* Candidates by primary IP, by name (any case) and by serial (_correlate).*)
Matches(inv, ip, name, serial) ==
  DevicesWithIp(inv, ip)
    \cup {d \in Rows(inv) : name # NoName /\ SameName(inv, d, name)}
    \cup {d \in Rows(inv) : serial # NoSerial /\ inv[d].serial = serial}

(* Mutant: the address is known only when some device has it.              *)
AgreeWithoutIp(inv, d, ip, name, serial) ==
  /\ name # NoName => SameName(inv, d, name)
  /\ serial # NoSerial => inv[d].serial = serial

(* Mutant: a blank serial is compared too, as unequal.                     *)
AgreeOnBlanks(inv, d, ip, name, serial) ==
  /\ DevicesWithIp(inv, ip) # {}
  /\ name # NoName => SameName(inv, d, name)
  /\ serial # NoSerial /\ inv[d].serial = serial

(* Every attribute that was discovered agrees; the address is always one,  *)
(* and agrees when any device is found by it.                              *)
AllKnownAgree(inv, d, ip, name, serial) ==
  /\ DevicesWithIp(inv, ip) # {}
  /\ name # NoName => SameName(inv, d, name)
  /\ serial # NoSerial => inv[d].serial = serial

IsOne(S) == \E d \in S : S = {d}

(* The status correlate_device returns.                                    *)
CorrelationStatus(inv, ip, name, serial) ==
  LET matches == Matches(inv, ip, name, serial)
  IN  IF matches = {} THEN "new"
      ELSE IF ~IsOne(matches) THEN "conflict"
      ELSE IF \E d \in matches : AllKnownAgree(inv, d, ip, name, serial) THEN "imported"
      ELSE "partially_imported"

(* The device it returns: the single match, and none in a conflict.        *)
CorrelatedDevice(inv, ip, name, serial) ==
  LET matches == Matches(inv, ip, name, serial)
  IN  IF IsOne(matches) THEN CHOOSE d \in matches : TRUE ELSE NoDevice
=============================================================================
