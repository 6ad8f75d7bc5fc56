-------------------------- MODULE DevinfoRepository --------------------------
(***************************************************************************)
(* The repository: the report as a tree of objects, lists and other values,*)
(* addressed by paths such as hardware.platform.vendor.                    *)
(*                                                                         *)
(* The tree is a function from the paths that exist to their nodes; the    *)
(* root object has the empty path and is not in it.  An operation on a tree*)
(* may have several outcomes: the code it returns and the tree it leaves   *)
(* behind.                                                                 *)
(***************************************************************************)
EXTENDS Naturals, Sequences

CONSTANTS
  Names,           \* names of the entries of an object
  Values,          \* values that are neither an object nor a list
  Blank,           \* the empty string
  DeviceValues,    \* values that getters deliver
  Configurations,  \* the trees that devinfo.conf may hold
  ValuePaths,      \* paths of the entries that are set
  ListPaths,       \* paths of the lists that are appended to
  MaxEntries,      \* bound on the length of a list
  RuntimeMayFail   \* TRUE: the runtime may refuse to add an object or a value

Paths == Seq(Names) \ {<<>>}

SoftwareNames == {"software", "os", "sscl", "type", "version", "sdkVersion"}

ASSUME NamesAssumption == SoftwareNames \subseteq Names
ASSUME ValuesAssumption == Blank \in Values /\ DeviceValues \subseteq Values
ASSUME PathsAssumption == ValuePaths \subseteq Paths /\ ListPaths \subseteq Paths
ASSUME MaxEntriesAssumption == MaxEntries \in Nat
ASSUME RuntimeMayFailAssumption == RuntimeMayFail \in BOOLEAN

Object == [type |-> "object"]
Value(v) == [type |-> "value", value |-> v]
List(s) == [type |-> "list", entries |-> s]

Nodes == {Object} \cup [type : {"value"}, value : Values]
                  \cup [type : {"list"}, entries : Seq(Values)]

\* The objects that a path goes through below the root.
Above(p) == {SubSeq(p, 1, n) : n \in 1 .. Len(p) - 1}

\* q is p or below p.
IsUnder(q, p) == Len(q) >= Len(p) /\ SubSeq(q, 1, Len(p)) = p

\* Every node has a path of objects from the root.
WellFormedTree(d) ==
  /\ DOMAIN d \subseteq Paths
  /\ \A p \in DOMAIN d :
       /\ d[p] \in Nodes
       /\ \A q \in Above(p) : q \in DOMAIN d /\ d[q] = Object

\* The entries of the report: those of the OS and of the client are set in one
\* call, in the order of their row.
\* None is another one or part of it, and a list is not set like a value.
OsRow == << <<"software", "os", "type">>, <<"software", "os", "version">> >>
SsclRow == << <<"software", "sscl", "type">>, <<"software", "sscl", "version">>,
              <<"software", "sscl", "sdkVersion">> >>
OsPaths == {OsRow[k] : k \in 1 .. 2}
SsclPaths == {SsclRow[k] : k \in 1 .. 3}
EntryPaths == ValuePaths \cup ListPaths \cup OsPaths \cup SsclPaths

ASSUME EntriesAssumption ==
  /\ \A p, q \in EntryPaths : IsUnder(p, q) => p = q
  /\ ListPaths \cap (ValuePaths \cup OsPaths \cup SsclPaths) = {}

ASSUME ConfigurationsAssumption ==
  \A d \in Configurations : WellFormedTree(d)

EmptyTree == [p \in {} |-> Object]

\* A tree of the given leaves: the objects above them and nothing else.
TreeOf(leaves) ==
  [p \in DOMAIN leaves \cup UNION {Above(q) : q \in DOMAIN leaves} |->
     IF p \in DOMAIN leaves THEN leaves[p] ELSE Object]

-----------------------------------------------------------------------------

Outcome(err, tree) == [err |-> err, tree |-> tree]

\* The tree with node at path p: missing objects on the way are created,
\* whatever was at p or below it is replaced.
PlaceAt(d, p, node) ==
  [q \in {r \in DOMAIN d : ~IsUnder(r, p)} \cup Above(p) \cup {p} |->
     IF q = p THEN node ELSE IF q \in DOMAIN d THEN d[q] ELSE Object]

\* A path cannot go through a node that is not an object.
Blocked(d, p) == \E q \in Above(p) \cap DOMAIN d : d[q] # Object

\* The runtime refuses the object at place n of the path, or the value at its
\* end: the objects created up to there stay, and nothing else has changed.
Refused(d, p) ==
  { Outcome("refused",
            [q \in DOMAIN d \cup {r \in Above(p) : Len(r) < n} |->
               IF q \in DOMAIN d THEN d[q] ELSE Object]) :
    n \in IF RuntimeMayFail THEN 1 .. Len(p) ELSE {} }

\* Mutant: the objects on the way are replaced by new ones.
SetDevinfoAnew(d, p, node) ==
  { Outcome("ok",
            [q \in {r \in DOMAIN d : ~IsUnder(r, SubSeq(p, 1, 1))}
                     \cup Above(p) \cup {p} |->
               IF q = p THEN node ELSE IF q \in Above(p) THEN Object ELSE d[q]]) }

\* Mutant: a node on the way that is not an object is not noticed.
SetDevinfoThrough(d, p, node) ==
  {Outcome("ok", PlaceAt(d, p, node))} \cup Refused(d, p)

\* Mutant: what is there is removed before the new value is added.
SetDevinfoRemoves(d, p, node) ==
  IF Blocked(d, p) THEN {Outcome("inTheWay", d)}
  ELSE {Outcome("ok", PlaceAt(d, p, node))} \cup
       { Outcome("refused", [q \in {r \in DOMAIN o.tree : ~IsUnder(r, p)} |->
                               o.tree[q]]) : o \in Refused(d, p) }

SetDevinfo(d, p, node) ==
  IF Blocked(d, p) THEN {Outcome("inTheWay", d)}
  ELSE {Outcome("ok", PlaceAt(d, p, node))} \cup Refused(d, p)

\* A lookup: the path exists.
Found(d, p) == p \in DOMAIN d

\* Mutant: the error of an entry does not keep the next one from being set.
AndSetAnyway(before, p, node) ==
  UNION {SetDevinfo(o.tree, p, node) : o \in before}

\* Several entries are set one after the other, up to the first error.
AndSet(before, p, node) ==
  UNION { IF o.err = "ok" THEN SetDevinfo(o.tree, p, node) ELSE {o} :
          o \in before }

SetSoftwareOS(d, type, version) ==
  AndSet(SetDevinfo(d, OsRow[1], Value(type)), OsRow[2], Value(version))

SetSoftwareSscl(d, type, version, sdkVersion) ==
  AndSet(AndSet(SetDevinfo(d, SsclRow[1], Value(type)),
                SsclRow[2], Value(version)),
         SsclRow[3], Value(sdkVersion))

\* An entry that the device has no source for: a value that is there is stored
\* back where it is, with all that is below it.
SetMissing(d, p) ==
  IF Found(d, p) THEN {Outcome("ok", d)} \cup Refused(d, p)
  ELSE SetDevinfo(d, p, Value(Blank))

\* The list is fetched, the entry is added to its links, and the list is stored
\* back.  An empty list has no link to add to: the new entry is not part of
\* the value that is stored back.
Appended(list, entry) ==
  IF list.entries = <<>> THEN list ELSE List(Append(list.entries, entry))

\* Mutant: the list is begun anew.
AddToListAnew(d, p, entry) == SetDevinfo(d, p, List(<<entry>>))

AddToList(d, p, entry) ==
  IF ~Found(d, p) THEN SetDevinfo(d, p, List(<<entry>>))
  ELSE IF d[p].type # "list" THEN {Outcome("inTheWay", d)}
  ELSE SetDevinfo(d, p, Appended(d[p], entry))

-----------------------------------------------------------------------------

VARIABLES
  fDevinfo,  \* the tree
  last       \* the last operation: which entries it was about, what it returned

vars == <<fDevinfo, last>>

Lasts == [op : {"load", "set", "keepOrBlank", "add"}, about : SUBSET Paths,
          err : {"ok", "inTheWay", "refused"}]

TypeOK ==
  /\ WellFormedTree(fDevinfo)
  /\ last \in Lasts

\* The configuration is loaded over an empty tree, which stays if it cannot be.
Load ==
  /\ fDevinfo' \in Configurations \cup {EmptyTree}
  /\ last' = [op |-> "load", about |-> {}, err |-> "ok"]

Init ==
  /\ fDevinfo \in Configurations \cup {EmptyTree}
  /\ last = [op |-> "load", about |-> {}, err |-> "ok"]

Perform(op, about, outcomes) ==
  \E o \in outcomes :
    /\ fDevinfo' = o.tree
    /\ last' = [op |-> op, about |-> about, err |-> o.err]

SetValue(p) ==
  \E v \in DeviceValues : Perform("set", {p}, SetDevinfo(fDevinfo, p, Value(v)))

KeepOrBlank(p) == Perform("keepOrBlank", {p}, SetMissing(fDevinfo, p))

SetOS ==
  \E t, v \in DeviceValues : Perform("set", OsPaths, SetSoftwareOS(fDevinfo, t, v))

SetSscl ==
  \E t, v, s \in DeviceValues :
    Perform("set", SsclPaths, SetSoftwareSscl(fDevinfo, t, v, s))

Add(p) ==
  /\ Found(fDevinfo, p) /\ fDevinfo[p].type = "list" =>
       Len(fDevinfo[p].entries) < MaxEntries
  /\ \E v \in DeviceValues : Perform("add", {p}, AddToList(fDevinfo, p, v))

Next ==
  \/ Load
  \/ \E p \in ValuePaths : SetValue(p) \/ KeepOrBlank(p)
  \/ \E p \in ListPaths : Add(p)
  \/ SetOS
  \/ SetSscl

Spec == Init /\ [][Next]_vars

-----------------------------------------------------------------------------

\* What the entries hold, and which of them cannot be reached.
Table(d) ==
  [p \in EntryPaths |-> IF Found(d, p) THEN d[p] ELSE [type |-> "none"]]
Closed(d) == {p \in EntryPaths : Blocked(d, p)}

\* An operation that returns an error has destroyed nothing.  One that something
\* is in the way of has changed nothing at all, the entries of the OS and of the
\* client included, which are set in one call.  One that the runtime has refused
\* may have set some of its entries, but neither lost nor blanked another, has
\* left at least one of its own as it was, and has added nothing else than the
\* objects that lead to them.
FailureLosesNothing ==
  [][last'.err # "ok" =>
       /\ last'.err = "inTheWay" => UNCHANGED fDevinfo
       /\ \A p \in EntryPaths : Found(fDevinfo, p) => Found(fDevinfo', p)
       /\ \E p \in last'.about : Table(fDevinfo')[p] = Table(fDevinfo)[p]
       /\ \A q \in DOMAIN fDevinfo' \ DOMAIN fDevinfo :
            \/ q \in last'.about
            \/ fDevinfo'[q] = Object /\ \E p \in last'.about : q \in Above(p)]_vars

\* An operation leaves every entry alone that it is not about, siblings on the
\* same path included, unless the repository is reset.
OthersKept ==
  [][last'.op # "load" =>
       \A q \in DOMAIN fDevinfo :
         (\A p \in last'.about : ~IsUnder(q, p)) =>
           q \in DOMAIN fDevinfo' /\ fDevinfo'[q] = fDevinfo[q]]_vars

\* Entries of a list stay in it, in their order, until the repository is reset.
ListsGrow ==
  [][last'.op # "load" =>
       \A p \in DOMAIN fDevinfo \cap ListPaths :
         fDevinfo[p].type = "list" =>
           /\ p \in DOMAIN fDevinfo' /\ fDevinfo'[p].type = "list"
           /\ IsUnder(fDevinfo'[p].entries, fDevinfo[p].entries)]_vars

\* To those who fill it the tree is a table of entries: an operation changes
\* the entries it is about and no others, those of the OS and of the client in
\* their order up to the first refusal, fails for no other reason than that the
\* configuration file is in its way or the runtime refuses, and nothing but a
\* new file brings an entry into the way of another or out of it.
Report == INSTANCE ReportEntries WITH
  Alone <- ValuePaths,
  Together <- {OsRow, SsclRow},
  Lists <- ListPaths,
  entries <- Table(fDevinfo),
  unusable <- Closed(fDevinfo)
ReportSpec == Report!Spec

\* An operation on a list that succeeds has added an entry to it ("Add new if
\* into the existing list.").
EntryIsAdded ==
  last.err = "ok" =>
    \A p \in ListPaths \cap last.about :
      p \in DOMAIN fDevinfo => fDevinfo[p] # List(<<>>)

=============================================================================
