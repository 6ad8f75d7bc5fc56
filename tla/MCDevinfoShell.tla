--------------------------- MODULE MCDevinfoShell ---------------------------
(***************************************************************************)
(* The shared command on a port with two shell getters: the items of       *)
(* Armadillo-IoT from the interfaces to the OS, and before them the        *)
(* firmware version, whose getter can leave the manager waiting, too.      *)
(***************************************************************************)
EXTENDS DevinfoShell, DevinfoPorts

Part == <<FwVersion, Interface, Nameserver, Sim, Os>>
PartLast == 5
PartGetter == [i \in 1 .. PartLast |-> ArmadilloGetter[Part[i]]]
PartPolicy == [i \in 1 .. PartLast |-> ItemPolicy[Part[i]]]
PartObjects == {i \in 1 .. PartLast : Part[i] \in ItemsOfObjectType}
=============================================================================
