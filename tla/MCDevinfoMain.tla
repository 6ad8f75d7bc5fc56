---------------------------- MODULE MCDevinfoMain ----------------------------
(***************************************************************************)
(* The program with the shortest report in which the late events of a      *)
(* shell process of one collection can meet the process of the next one.   *)
(* The repository's unit tests are evaluated along with it.                *)
(***************************************************************************)
EXTENDS DevinfoMain, DevinfoRepositoryTests

TwoLast == 2
TwoGetter == <<"probe", "shell">>
TwoPolicy == <<"keepPreset", "list">>
TwoPreset == {1}
=============================================================================
