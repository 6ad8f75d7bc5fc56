---------------------------- MODULE MCDevinfoApp ----------------------------
(***************************************************************************)
(* The application with the shortest report a shell process takes part in. *)
(***************************************************************************)
EXTENDS DevinfoApp

TwoLast == 2
TwoGetter == <<"probe", "shell">>
TwoPolicy == <<"keepPreset", "list">>
=============================================================================
