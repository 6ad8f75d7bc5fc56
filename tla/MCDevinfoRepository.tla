------------------------- MODULE MCDevinfoRepository -------------------------
(***************************************************************************)
(* The repository with three values, one entry of the platform, one list   *)
(* and the configurations that an operation can trip over.                 *)
(***************************************************************************)
EXTENDS DevinfoRepository, TLC

HardwareNames == {"hardware", "platform", "vendor", "network", "interface",
                  "name"}
AllNames == HardwareNames \cup SoftwareNames

Platform(name) == <<"hardware", "platform", name>>
Interface == <<"hardware", "network", "interface">>
Os(name) == <<"software", "os", name>>

VendorPaths == {Platform("vendor")}
InterfacePaths == {Interface}

\* A vendor; no object where one is needed; an object, empty or not, where a
\* value is needed; a list with and without entries; something else where a
\* list is needed; one of the two values of the OS.
Confs ==
  { TreeOf(leaf) : leaf \in
    { Platform("vendor") :> Value("preset"),
      <<"hardware">> :> Value("preset"),
      Platform("vendor") :> Object,
      Append(Platform("vendor"), "name") :> Value("preset"),
      Interface :> List(<<"preset">>),
      Interface :> List(<<>>),
      Interface :> Value("preset"),
      Os("version") :> Value("preset"),
      <<"software", "os">> :> Value("preset") } }
=============================================================================
