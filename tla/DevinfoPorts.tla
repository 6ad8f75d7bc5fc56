---------------------------- MODULE DevinfoPorts ----------------------------
(***************************************************************************)
(* The constant tables of the program: the sixteen items in the order of   *)
(* the manager's state enumeration, how the manager stores each of them,   *)
(* and which kind of getter each gateway port links in.  A port takes the  *)
(* getters of the reference port unless it defines its own.                *)
(***************************************************************************)
EXTENDS Naturals

Vendor == 1       Product == 2      Model == 3        Serial == 4
HwVersion == 5    FwVersion == 6    DeviceId == 7     Category == 8
ModemType == 9    ModemHw == 10     ModemFw == 11     Interface == 12
Nameserver == 13  Sim == 14         Os == 15          Sscl == 16

ItemCount == 16

\* DEVINFO_MANAGER_GET_DEVINFO_PROC_TABLE, by what each callback stores.
ItemPolicy ==
  [i \in 1 .. ItemCount |->
     IF i \in {Vendor, Product, Model, Serial} THEN "keepPreset"
     ELSE IF i \in {FwVersion, DeviceId} THEN "blankOut"
     ELSE IF i \in {Interface, Nameserver, Sim} THEN "list"
     ELSE "plain"]

\* The callbacks that begin with moat_value_get_object.
ItemsOfObjectType == {Interface, Sim, Os, Sscl}

\* Reference port: Intel PCs, and the Raspberry Pi, which adds only presets.
RiGetter ==
  [i \in 1 .. ItemCount |->
     IF i \in {Vendor, Product, DeviceId} THEN "probe"
     ELSE IF i \in {Model, Serial, HwVersion} THEN "cpuinfo"
     ELSE IF i = Category THEN "fixed"
     ELSE IF i = Interface THEN "interfaces"
     ELSE IF i = Nameserver THEN "shell"
     ELSE IF i \in {Os, Sscl} THEN "object"
     ELSE "noEntry"]

\* OpenBlocks IoT.
ObsGetter ==
  [i \in 1 .. ItemCount |->
     IF i \in {Vendor, Product, Model, HwVersion} THEN "noEntry"
     ELSE IF i \in {Serial, FwVersion} THEN "probe"
     ELSE IF i = Sim THEN "simFile"
     ELSE RiGetter[i]]

\* Armadillo-IoT.
ArmadilloGetter ==
  [RiGetter EXCEPT ![FwVersion] = "firmwareFile", ![Sim] = "shell"]

\* The keys of each port's devinfo.conf.
RiPreset == {}
ObsPreset == {Vendor, Product}
RaspberryPreset == {Vendor, Product}
ArmadilloPreset == {Vendor, Product, Model}

=============================================================================
