--------------------------- MODULE MCSmartHomeNet ---------------------------
(***************************************************************************)
(* Instances of SmartHomeNet for TLC: a coordinator at which users type    *)
(* commands, a door light, and a third device that may come to live at an  *)
(* address the coordinator remembers for the light.                        *)
(***************************************************************************)
EXTENDS SmartHomeNet, TLC

CONSTANTS coord, door, other,          \* devices
          Coord, DoorLight, DoorLight2, Sensor, Long,  \* names
          OtherName,                                   \* the name of other
          a0, a1, a2, a3                               \* addresses

MCInitName == (coord :> Coord) @@ (door :> DoorLight) @@ (other :> OtherName)
MCInitAddr == (coord :> a0) @@ (door :> a1) @@ (other :> a2)

\* Every device's NV item was made for the longest name.
MCFitting == [n \in Node |-> Name]

\* Long is too long to be cached: more than 21 characters.
MCCachedName == Name \ {Long}

\* DoorLight2 begins with DoorLight.
MCPrefix == {<<n, n>> : n \in Name} \cup ({<<DoorLight, DoorLight2>>} \cap (Name \X Name))

=============================================================================
