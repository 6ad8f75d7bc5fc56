----------------------- MODULE DevinfoRepositoryTests -----------------------
(***************************************************************************)
(* The repository's unit tests, run on the model: each one is the sequence *)
(* of operations of the test, and an assumption says what it expects of    *)
(* them.  An entry of a list that is an object in the code stands here for *)
(* the string that names it.  The runtime refuses nothing here, so that     *)
(* there is one outcome.                                                   *)
(***************************************************************************)
EXTENDS TLC
LOCAL INSTANCE SequencesExt
LOCAL INSTANCE DevinfoRepository
  WITH Names <- STRING, Values <- STRING, Blank <- "", DeviceValues <- STRING,
       Configurations <- {}, ValuePaths <- {}, ListPaths <- {}, MaxEntries <- 0,
       RuntimeMayFail <- FALSE, fDevinfo <- <<>>, last <- <<>>

Platform(name) == <<"hardware", "platform", name>>
Modem(name) == <<"hardware", "modem", name>>
Interface == <<"hardware", "network", "interface">>
Nameserver == <<"hardware", "network", "nameserver">>
Sim == <<"hardware", "sim">>
Os(name) == <<"software", "os", name>>
Sscl(name) == <<"software", "sscl", name>>

\* An operation after others that have succeeded.
And(before, op(_)) ==
  UNION {IF o.err # "ok" THEN {o} ELSE op(o.tree) : o \in before}

Start == {Outcome("ok", EmptyTree)}
SetEach(before, entries) ==
  FoldLeft(LAMBDA o, e : And(o, LAMBDA d : SetDevinfo(d, e[1], Value(e[2]))),
           before, entries)
AddEach(before, entries) ==
  FoldLeft(LAMBDA o, e : And(o, LAMBDA d : AddToList(d, e[1], e[2])),
           before, entries)

\* The file of the tests, devinfo.json, as the expected JSON prints it.
TestFile ==
  TreeOf(
    Platform("vendor") :> Value("Inventit") @@
    Platform("product") :> Value("IVI IoT Gateway") @@
    Platform("model") :> Value("IVI-0001") @@
    Platform("serial") :> Value("123456") @@
    Platform("hwVersion") :> Value("1.0.0") @@
    Platform("fwVersion") :> Value("2.0.1") @@
    Platform("deviceId") :> Value("IVI:SN:123456") @@
    Platform("category") :> Value("gateway") @@
    Modem("type") :> Value("XXX") @@
    Modem("hwVersion") :> Value("rev1.2.0") @@
    Modem("fwVersion") :> Value("v2.0.0") @@
    Interface :> List(<<"eth0", "usb0">>) @@
    Nameserver :> List(<<"222.146.35.1", "221.184.25.1">>) @@
    Sim :> List(<<"898110011111111111111">>) @@
    Os("type") :> Value("Linux") @@
    Os("version") :> Value("2.6.26") @@
    Sscl("type") :> Value("SSEGW") @@
    Sscl("version") :> Value("1.0.6") @@
    Sscl("sdkVersion") :> Value("1.0.5"))

add_vendor == SetDevinfo(EmptyTree, Platform("vendor"), Value("ABC Corp."))
overwrite_vendor == SetDevinfo(TestFile, Platform("vendor"), Value("ABC Corp."))
add_interfaces == AddEach(Start, << <<Interface, "eth0">>, <<Interface, "usb0">> >>)

\* Every item; the second SIM has nothing but a phone number.
add_all_items ==
  LET items ==
        SetEach(Start,
          << <<Platform("vendor"), "Raspberry Pi Fundation">>,
             <<Platform("product"), "Raspberry Pi">>,
             <<Platform("model"), "RASPBERRY PI 1 MODEL B+">>,
             <<Platform("serial"), "ABC12345">>,
             <<Platform("hwVersion"), "1.2.3">>,
             <<Platform("fwVersion"), "2.4.5">>,
             <<Platform("deviceId"), "RSP:SN:123456">>,
             <<Platform("category"), "gateway">>,
             <<Modem("type"), "MC8090">>,
             <<Modem("hwVersion"), "1.2.3">>,
             <<Modem("fwVersion"), "4.5.6">> >>)
      lists ==
        AddEach(items,
          << <<Interface, "eth0">>, <<Interface, "wlan0">>, <<Interface, "usb0">>,
             <<Nameserver, "222.146.35.1">>, <<Nameserver, "221.184.25.1">>,
             <<Sim, "898110011111111111111">>, <<Sim, "08056781234">> >>)
  IN  And(And(lists, LAMBDA d : SetSoftwareOS(d, "Linux", "2.6.26")),
          LAMBDA d : SetSoftwareSscl(d, "SSEGW", "1.0.7", "1.0.5"))

\* The report is the vendor alone.
ASSUME AddVendorTest ==
  add_vendor = {Outcome("ok", TreeOf(Platform("vendor") :> Value("ABC Corp.")))}

\* The vendor is new and the rest of the file is still there.
ASSUME OverwriteVendorTest ==
  overwrite_vendor =
    {Outcome("ok", [TestFile EXCEPT ![Platform("vendor")] = Value("ABC Corp.")])}

\* Both interfaces are in the report, and no more than that.
ASSUME AddInterfacesTest ==
  add_interfaces =
    {Outcome("ok", TreeOf(Interface :> List(<<"eth0", "usb0">>)))}

\* Every call succeeds; the report has the entries that the test file has, and
\* the lists hold what was added, in that order.
ASSUME AddAllItemsTest ==
  \E o \in add_all_items :
    /\ add_all_items = {o}
    /\ o.err = "ok"
    /\ DOMAIN o.tree = DOMAIN TestFile
    /\ o.tree[Interface] = List(<<"eth0", "wlan0", "usb0">>)
    /\ Len(o.tree[Sim].entries) = 2

=============================================================================
