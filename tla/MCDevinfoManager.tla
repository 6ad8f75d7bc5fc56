-------------------------- MODULE MCDevinfoManager --------------------------
(***************************************************************************)
(* Instances of the manager for TLC: a short report with one item of each  *)
(* behaviour, and the full sixteen-item tables of the ports.               *)
(***************************************************************************)
EXTENDS DevinfoManager, DevinfoPorts

\* Three items: a MUST item that keeps its preset, and a string list and an
\* object list that are read by shell processes.
ShortLast == 3
ShortGetter == <<"probe", "shell", "shell">>
ShortPolicy == <<"keepPreset", "list", "list">>
ShortObjects == {3}
ShortPreset == {1, 2}

\* A report on a port whose MUST item is a firmware file.
FirmwareLast == 3
FirmwareGetter == <<"firmwareFile", "shell", "object">>
FirmwarePolicy == <<"blankOut", "list", "plain">>
FirmwareObjects == {3}
NoItems == {}
=============================================================================
