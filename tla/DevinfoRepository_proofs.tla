----------------------- MODULE DevinfoRepository_proofs -----------------------
(***************************************************************************)
(* What holds of the repository for every configuration, path and value:   *)
(* it stays a tree, and an operation that fails has destroyed nothing.     *)
(***************************************************************************)
EXTENDS DevinfoRepository, SequenceTheorems, TLAPS

(* Paths and the objects they go through. *)

\* A prefix of a path is a path; a prefix of a prefix is a prefix.
LEMMA PrefixOfPath ==
  ASSUME NEW p \in Paths, NEW n \in 1 .. Len(p)
  PROVE  /\ SubSeq(p, 1, n) \in Paths
         /\ Len(SubSeq(p, 1, n)) = n
         /\ \A m \in 1 .. n : SubSeq(SubSeq(p, 1, n), 1, m) = SubSeq(p, 1, m)
<1>1. p \in Seq(Names) /\ Len(p) \in Nat /\ n \in Nat /\ n >= 1 /\ n <= Len(p)
  BY LenProperties DEF Paths
<1>2. \A i \in 1 .. n : p[i] \in Names
  BY <1>1, ElementOfSeq
<1>3. SubSeq(p, 1, n) \in Seq(Names) /\ Len(SubSeq(p, 1, n)) = n
  BY <1>1, <1>2, SubSeqProperties
<1>4. SubSeq(p, 1, n) # <<>>
  BY <1>1, <1>3
<1>5. ASSUME NEW m \in 1 .. n
      PROVE  SubSeq(SubSeq(p, 1, n), 1, m) = SubSeq(p, 1, m)
  BY <1>1, <1>5, SubSeqOfSubSeq
<1>6. QED
  BY <1>3, <1>4, <1>5 DEF Paths

LEMMA AboveProperties ==
  ASSUME NEW p \in Paths, NEW q \in Above(p)
  PROVE  /\ q \in Paths
         /\ Len(q) < Len(p)
         /\ Above(q) \subseteq Above(p)
         /\ IsUnder(p, q)
<1>1. Len(p) \in Nat
  BY LenProperties DEF Paths
<1>2. PICK n \in 1 .. Len(p) - 1 : q = SubSeq(p, 1, n)
  BY DEF Above
<1>3. q \in Paths /\ Len(q) = n
  BY <1>1, <1>2, PrefixOfPath
<1>4. ASSUME NEW r \in Above(q) PROVE r \in Above(p)
  <2>1. PICK m \in 1 .. n - 1 : r = SubSeq(q, 1, m)
    BY <1>3, <1>4 DEF Above
  <2>2. r = SubSeq(p, 1, m)
    BY <1>1, <1>2, <2>1, PrefixOfPath
  <2>3. QED
    BY <1>1, <1>2, <2>1, <2>2 DEF Above
<1>5. QED
  BY <1>1, <1>2, <1>3, <1>4 DEF IsUnder

LEMMA UnderProperties ==
  ASSUME NEW p \in Paths
  PROVE  /\ IsUnder(p, p)
         /\ \A q \in Above(p) : ~IsUnder(q, p) /\ q # p
         /\ \A r \in Paths : \A q \in Above(r) : IsUnder(q, p) => IsUnder(r, p)
<1>1. p \in Seq(Names) /\ Len(p) \in Nat /\ Len(p) >= 1
  BY LenProperties, EmptySeq DEF Paths
<1>2. SubSeq(p, 1, Len(p)) = p
  BY <1>1, SubSeqFull
<1>3. ASSUME NEW q \in Above(p) PROVE ~IsUnder(q, p) /\ q # p
  <2>1. Len(q) < Len(p) /\ Len(q) \in Nat
    BY <1>3, AboveProperties, LenProperties DEF Paths
  <2>2. QED
    BY <1>1, <2>1 DEF IsUnder
<1>4. ASSUME NEW r \in Paths, NEW q \in Above(r), IsUnder(q, p)
      PROVE  IsUnder(r, p)
  <2>1. Len(r) \in Nat
    BY LenProperties DEF Paths
  <2>2. PICK n \in 1 .. Len(r) - 1 : q = SubSeq(r, 1, n)
    BY <1>4 DEF Above
  <2>3. Len(q) = n /\ Len(q) >= Len(p)
    BY <1>4, <2>1, <2>2, PrefixOfPath DEF IsUnder
  <2>4. SubSeq(q, 1, Len(p)) = SubSeq(r, 1, Len(p))
    BY <1>1, <2>1, <2>2, <2>3, PrefixOfPath
  <2>5. QED
    BY <1>1, <1>4, <2>1, <2>3, <2>4 DEF IsUnder
<1>5. QED
  BY <1>1, <1>2, <1>3, <1>4 DEF IsUnder

-----------------------------------------------------------------------------

\* Placing a node where no path is blocked leaves a tree.
LEMMA PlaceAtIsTree ==
  ASSUME NEW d, WellFormedTree(d), NEW p \in Paths, NEW node \in Nodes,
         ~Blocked(d, p)
  PROVE  WellFormedTree(PlaceAt(d, p, node))
<1> DEFINE D == {r \in DOMAIN d : ~IsUnder(r, p)} \cup Above(p) \cup {p}
           e == PlaceAt(d, p, node)
<1>1. DOMAIN e = D
  BY DEF PlaceAt
<1>2. DOMAIN e \subseteq Paths
  BY <1>1, AboveProperties DEF WellFormedTree
<1>3. ASSUME NEW q \in Above(p) PROVE q \in D /\ e[q] = Object
  <2>1. q # p
    BY <1>3, UnderProperties
  <2>2. q \in DOMAIN d => d[q] = Object
    BY <1>3 DEF Blocked
  <2>3. QED
    BY <1>3, <2>1, <2>2 DEF PlaceAt
<1>4. ASSUME NEW r \in D PROVE e[r] \in Nodes
  BY <1>4 DEF PlaceAt, WellFormedTree, Nodes
<1>5. ASSUME NEW r \in D, NEW q \in Above(r) PROVE q \in D /\ e[q] = Object
  <2>1. CASE r \in DOMAIN d /\ ~IsUnder(r, p)
    <3>1. r \in Paths /\ q \in DOMAIN d /\ d[q] = Object
      BY <2>1, <1>5 DEF WellFormedTree
    <3>2. ~IsUnder(q, p) /\ q # p
      BY <2>1, <3>1, <1>5, UnderProperties
    <3>3. QED
      BY <3>1, <3>2 DEF PlaceAt
  <2>2. CASE r \in Above(p)
    BY <1>3, <1>5, <2>2, AboveProperties
  <2>3. CASE r = p
    BY <1>3, <1>5, <2>3
  <2>4. QED
    BY <2>1, <2>2, <2>3
<1>6. QED
  BY <1>1, <1>2, <1>4, <1>5 DEF WellFormedTree

\* A tree e that has all of d, and besides only objects that p goes through.
Opens(e, d, p) ==
  /\ DOMAIN d \subseteq DOMAIN e
  /\ \A q \in DOMAIN d : e[q] = d[q]
  /\ \A q \in DOMAIN e \ DOMAIN d :
       q \in Above(p) /\ e[q] = Object /\ Above(q) \subseteq DOMAIN e

\* What a refusal leaves behind.
LEMMA RefusedOpens ==
  ASSUME NEW d, NEW p \in Paths, NEW o \in Refused(d, p)
  PROVE  o.err = "refused" /\ Opens(o.tree, d, p)
<1> DEFINE e(n) == [q \in DOMAIN d \cup {r \in Above(p) : Len(r) < n} |->
                      IF q \in DOMAIN d THEN d[q] ELSE Object]
<1>1. PICK n \in 1 .. Len(p) : o = Outcome("refused", e(n))
  BY DEF Refused
<1>2. ASSUME NEW q \in DOMAIN e(n) \ DOMAIN d
      PROVE  q \in Above(p) /\ e(n)[q] = Object /\ Above(q) \subseteq DOMAIN e(n)
  <2>1. q \in Above(p) /\ Len(q) < n
    BY <1>2
  <2>2. q \in Paths /\ Len(q) \in Nat /\ n \in Nat
    BY <2>1, AboveProperties, LenProperties DEF Paths
  <2>3. ASSUME NEW r \in Above(q) PROVE r \in DOMAIN e(n)
    <3>1. r \in Paths /\ Len(r) < Len(q) /\ r \in Above(p)
      BY <2>1, <2>2, <2>3, AboveProperties
    <3>2. Len(r) \in Nat
      BY <3>1, LenProperties DEF Paths
    <3>3. QED
      BY <2>1, <2>2, <3>1, <3>2
  <2>4. QED
    BY <1>2, <2>1, <2>3
<1>3. Opens(e(n), d, p)
  BY <1>2 DEF Opens
<1>4. QED
  BY <1>1, <1>3 DEF Outcome

LEMMA OpensIsTree ==
  ASSUME NEW d, WellFormedTree(d), NEW p \in Paths, ~Blocked(d, p),
         NEW e, Opens(e, d, p)
  PROVE  WellFormedTree(e)
<1>1. ASSUME NEW q \in DOMAIN e
      PROVE  /\ q \in Paths /\ e[q] \in Nodes
             /\ \A r \in Above(q) : r \in DOMAIN e /\ e[r] = Object
  <2>1. CASE q \in DOMAIN d
    BY <2>1 DEF Opens, WellFormedTree
  <2>2. CASE q \notin DOMAIN d
    <3>1. q \in Above(p) /\ e[q] = Object /\ Above(q) \subseteq DOMAIN e
      BY <1>1, <2>2 DEF Opens
    <3>2. q \in Paths /\ Above(q) \subseteq Above(p)
      BY <3>1, AboveProperties
    <3>3. ASSUME NEW r \in Above(q) PROVE e[r] = Object
      BY <3>1, <3>2, <3>3 DEF Opens, Blocked
    <3>4. QED
      BY <3>1, <3>2, <3>3 DEF Nodes
  <2>3. QED
    BY <2>1, <2>2
<1>2. QED
  BY <1>1 DEF WellFormedTree

\* The three ways in which setting an entry ends.
LEMMA SetDevinfoEnds ==
  ASSUME NEW d, NEW p, NEW node, NEW o \in SetDevinfo(d, p, node)
  PROVE  \/ Blocked(d, p) /\ o = Outcome("inTheWay", d)
         \/ ~Blocked(d, p) /\ o = Outcome("ok", PlaceAt(d, p, node))
         \/ ~Blocked(d, p) /\ o \in Refused(d, p)
BY DEF SetDevinfo

\* Outcomes are typed if their trees are trees and their codes the three.
TypedOutcome(o) ==
  /\ WellFormedTree(o.tree)
  /\ o.err \in {"ok", "inTheWay", "refused"}
Typed(outcomes) == \A o \in outcomes : TypedOutcome(o)

LEMMA RefusedType ==
  ASSUME NEW d, WellFormedTree(d), NEW p \in Paths, ~Blocked(d, p)
  PROVE  Typed(Refused(d, p))
BY RefusedOpens, OpensIsTree DEF Typed, TypedOutcome

LEMMA SetDevinfoType ==
  ASSUME NEW d, WellFormedTree(d), NEW p \in Paths, NEW node \in Nodes
  PROVE  Typed(SetDevinfo(d, p, node))
<1> SUFFICES ASSUME NEW o \in SetDevinfo(d, p, node) PROVE TypedOutcome(o)
  BY DEF Typed
<1>1. QED
  BY SetDevinfoEnds, PlaceAtIsTree, RefusedType DEF Typed, TypedOutcome, Outcome

LEMMA AndSetType ==
  ASSUME NEW O, Typed(O), NEW p \in Paths, NEW node \in Nodes
  PROVE  Typed(AndSet(O, p, node))
<1>1. ASSUME NEW o \in O PROVE Typed(SetDevinfo(o.tree, p, node))
  BY SetDevinfoType DEF Typed, TypedOutcome
<1>2. QED
  BY <1>1 DEF AndSet, Typed

LEMMA SoftwarePaths ==
  /\ OsPaths \subseteq Paths /\ SsclPaths \subseteq Paths
  /\ OsPaths = {OsRow[1], OsRow[2]} /\ OsRow[1] # OsRow[2]
  /\ SsclPaths = {SsclRow[1], SsclRow[2], SsclRow[3]}
  /\ SsclRow[1] # SsclRow[2] /\ SsclRow[1] # SsclRow[3] /\ SsclRow[2] # SsclRow[3]
<1>1. ASSUME NEW a \in Names, NEW b \in Names, NEW c \in Names
      PROVE  <<a, b, c>> \in Paths
  BY DEF Paths
<1>2. OsRow[1] \in Paths /\ OsRow[2] \in Paths
  BY <1>1, NamesAssumption DEF SoftwareNames, OsRow
<1>3. SsclRow[1] \in Paths /\ SsclRow[2] \in Paths /\ SsclRow[3] \in Paths
  BY <1>1, NamesAssumption DEF SoftwareNames, SsclRow
<1>4. OsRow[1] # OsRow[2]
  BY DEF OsRow
<1>5. SsclRow[1] # SsclRow[2] /\ SsclRow[1] # SsclRow[3] /\ SsclRow[2] # SsclRow[3]
  BY DEF SsclRow
<1>6. OsPaths = {OsRow[1], OsRow[2]}
  BY DEF OsPaths
<1>7. SsclPaths = {SsclRow[1], SsclRow[2], SsclRow[3]}
  BY DEF SsclPaths
<1>8. QED
  BY <1>2, <1>3, <1>4, <1>5, <1>6, <1>7

LEMMA ValueType == \A v \in Values : Value(v) \in Nodes
BY DEF Value, Nodes

LEMMA SoftwareType ==
  ASSUME NEW d, WellFormedTree(d),
         NEW t \in Values, NEW v \in Values, NEW s \in Values
  PROVE  /\ Typed(SetSoftwareOS(d, t, v))
         /\ Typed(SetSoftwareSscl(d, t, v, s))
BY SetDevinfoType, AndSetType, SoftwarePaths, ValueType
   DEF SetSoftwareOS, SetSoftwareSscl

\* Nothing is found at an entry that cannot be reached.
LEMMA ClosedIsEmpty ==
  ASSUME NEW d, WellFormedTree(d), NEW p, Blocked(d, p)
  PROVE  ~Found(d, p)
BY DEF Blocked, Found, WellFormedTree

LEMMA SetMissingType ==
  ASSUME NEW d, WellFormedTree(d), NEW p \in Paths
  PROVE  Typed(SetMissing(d, p))
<1>1. Typed(SetDevinfo(d, p, Value(Blank)))
  BY ValueType, ValuesAssumption, SetDevinfoType
<1>2. TypedOutcome(Outcome("ok", d))
  BY DEF TypedOutcome, Outcome
<1>3. Found(d, p) => Typed(Refused(d, p))
  BY ClosedIsEmpty, RefusedType
<1>4. QED
  BY <1>1, <1>2, <1>3 DEF SetMissing, Typed

LEMMA ListType ==
  /\ \A s \in Seq(Values) : List(s) \in Nodes
  /\ \A n \in Nodes : n.type = "list" => n = List(n.entries) /\ n.entries \in Seq(Values)
BY DEF List, Nodes, Object

LEMMA AddToListType ==
  ASSUME NEW d, WellFormedTree(d), NEW p \in Paths, NEW v \in Values
  PROVE  Typed(AddToList(d, p, v))
<1>1. CASE ~Found(d, p)
  <2>1. <<v>> \in Seq(Values)
    OBVIOUS
  <2>2. QED
    BY <1>1, <2>1, ListType, SetDevinfoType DEF AddToList
<1>2. CASE Found(d, p) /\ d[p].type # "list"
  BY <1>2 DEF AddToList, Typed, TypedOutcome, Outcome
<1>3. CASE Found(d, p) /\ d[p].type = "list"
  <2>1. d[p] \in Nodes
    BY <1>3 DEF Found, WellFormedTree
  <2>2. d[p].entries \in Seq(Values)
    BY <1>3, <2>1, ListType
  <2>3. Append(d[p].entries, v) \in Seq(Values)
    BY <2>2
  <2>4. Appended(d[p], v) \in Nodes
    BY <2>1, <2>3, ListType DEF Appended
  <2>5. QED
    BY <1>3, <2>4, SetDevinfoType DEF AddToList
<1>4. QED
  BY <1>1, <1>2, <1>3

LEMMA EmptyIsTree == WellFormedTree(EmptyTree)
BY DEF WellFormedTree, EmptyTree

\* What an operation leaves behind is well typed.
LEMMA PerformType ==
  ASSUME NEW op \in {"set", "keepOrBlank", "add"}, NEW about \in SUBSET Paths,
         NEW outcomes, Typed(outcomes), Perform(op, about, outcomes)
  PROVE  TypeOK'
BY DEF Perform, Typed, TypedOutcome, TypeOK, Lasts

LEMMA TypeStep == TypeOK /\ [Next]_vars => TypeOK'
<1> SUFFICES ASSUME TypeOK, [Next]_vars PROVE TypeOK'
  OBVIOUS
<1>0. WellFormedTree(fDevinfo)
  BY DEF TypeOK
<1>1. CASE Load
  BY <1>1, EmptyIsTree, ConfigurationsAssumption DEF Load, TypeOK, Lasts
<1>2. ASSUME NEW p \in ValuePaths, SetValue(p) PROVE TypeOK'
  BY <1>0, <1>2, SetDevinfoType, ValueType, PathsAssumption, ValuesAssumption,
     PerformType DEF SetValue
<1>3. ASSUME NEW p \in ValuePaths, KeepOrBlank(p) PROVE TypeOK'
  BY <1>0, <1>3, SetMissingType, PathsAssumption, ValuesAssumption,
     PerformType DEF KeepOrBlank
<1>4. ASSUME NEW p \in ListPaths, Add(p) PROVE TypeOK'
  BY <1>0, <1>4, AddToListType, PathsAssumption, ValuesAssumption,
     PerformType DEF Add
<1>5. CASE SetOS
  BY <1>0, <1>5, SoftwareType, SoftwarePaths, ValuesAssumption,
     PerformType DEF SetOS
<1>6. CASE SetSscl
  BY <1>0, <1>6, SoftwareType, SoftwarePaths, ValuesAssumption,
     PerformType DEF SetSscl
<1>7. CASE UNCHANGED vars
  BY <1>7 DEF vars, TypeOK
<1>8. QED
  BY <1>1, <1>2, <1>3, <1>4, <1>5, <1>6, <1>7 DEF Next

\* The repository stays a tree: every node is reached from the root through
\* objects, whatever the configuration file puts in the way.
THEOREM TreeCorrect == Spec => []TypeOK
<1>1. Init => TypeOK
  BY EmptyIsTree, ConfigurationsAssumption DEF Init, TypeOK, Lasts
<1>2. QED
  BY <1>1, TypeStep, PTL DEF Spec

-----------------------------------------------------------------------------
(* Entries that are not addressed.                                         *)

\* Every node of d is kept that is not at or below one of the paths P.
Keeps(o, d, P) ==
  \A q \in DOMAIN d :
    (\A p \in P : ~IsUnder(q, p)) => q \in DOMAIN o.tree /\ o.tree[q] = d[q]

AllKeep(outcomes, d, P) == \A o \in outcomes : Keeps(o, d, P)

LEMMA RefusedKeeps ==
  ASSUME NEW d, NEW P, NEW p \in Paths
  PROVE  AllKeep(Refused(d, p), d, P)
BY RefusedOpens DEF AllKeep, Keeps, Opens

LEMMA SetDevinfoKeeps ==
  ASSUME NEW d, NEW P \in SUBSET Paths, NEW p \in P, NEW node
  PROVE  AllKeep(SetDevinfo(d, p, node), d, P)
<1>1. ASSUME NEW q \in DOMAIN d, \A r \in P : ~IsUnder(q, r)
      PROVE  /\ q \in DOMAIN PlaceAt(d, p, node)
             /\ PlaceAt(d, p, node)[q] = d[q]
  <2>1. q # p
    BY <1>1, UnderProperties
  <2>2. QED
    BY <1>1, <2>1 DEF PlaceAt
<1>2. Keeps(Outcome("ok", PlaceAt(d, p, node)), d, P)
  BY <1>1 DEF Outcome, Keeps
<1>3. Keeps(Outcome("inTheWay", d), d, P)
  BY DEF Outcome, Keeps
<1>4. QED
  BY <1>2, <1>3, RefusedKeeps, SetDevinfoEnds DEF AllKeep

LEMMA AndSetKeeps ==
  ASSUME NEW d, NEW P \in SUBSET Paths, NEW O, AllKeep(O, d, P),
         NEW p \in P, NEW node
  PROVE  AllKeep(AndSet(O, p, node), d, P)
<1>1. ASSUME NEW o \in O PROVE AllKeep(SetDevinfo(o.tree, p, node), d, P)
  <2>1. AllKeep(SetDevinfo(o.tree, p, node), o.tree, P) /\ Keeps(o, d, P)
    BY SetDevinfoKeeps DEF AllKeep
  <2>2. QED
    BY <2>1 DEF AllKeep, Keeps
<1>2. QED
  BY <1>1 DEF AndSet, AllKeep

LEMMA SoftwareKeeps ==
  ASSUME NEW d, NEW t, NEW v, NEW s
  PROVE  /\ AllKeep(SetSoftwareOS(d, t, v), d, OsPaths)
         /\ AllKeep(SetSoftwareSscl(d, t, v, s), d, SsclPaths)
BY SetDevinfoKeeps, AndSetKeeps, SoftwarePaths
   DEF SetSoftwareOS, SetSoftwareSscl

LEMMA AddToListKeeps ==
  ASSUME NEW d, NEW p \in Paths, NEW v
  PROVE  AllKeep(AddToList(d, p, v), d, {p})
<1>1. Keeps(Outcome("inTheWay", d), d, {p})
  BY DEF Keeps, Outcome
<1>2. QED
  BY <1>1, SetDevinfoKeeps DEF AddToList, AllKeep

LEMMA SetMissingKeeps ==
  ASSUME NEW d, NEW p \in Paths
  PROVE  AllKeep(SetMissing(d, p), d, {p})
<1>1. Keeps(Outcome("ok", d), d, {p})
  BY DEF Keeps, Outcome
<1>2. QED
  BY <1>1, SetDevinfoKeeps, RefusedKeeps DEF SetMissing, AllKeep

\* An operation leaves every entry alone that it is not about, those next to it
\* included, until the repository is reset.
THEOREM OthersKeptCorrect == Spec => OthersKept
<1> DEFINE Step == last'.op # "load" =>
             \A q \in DOMAIN fDevinfo :
               (\A p \in last'.about : ~IsUnder(q, p)) =>
                 q \in DOMAIN fDevinfo' /\ fDevinfo'[q] = fDevinfo[q]
<1>1. ASSUME NEW op, NEW P, NEW O, Perform(op, P, O), AllKeep(O, fDevinfo, P)
      PROVE  Step
  BY <1>1 DEF Perform, AllKeep, Keeps
<1>2. [Next]_vars => [Step]_vars
  <2> SUFFICES ASSUME Next PROVE Step
    OBVIOUS
  <2> HIDE DEF Step
  <2>1. CASE Load
    BY <2>1 DEF Load, Step
  <2>2. ASSUME NEW p \in ValuePaths, SetValue(p) PROVE Step
    BY <1>1, <2>2, SetDevinfoKeeps, PathsAssumption DEF SetValue
  <2>3. ASSUME NEW p \in ValuePaths, KeepOrBlank(p) PROVE Step
    BY <1>1, <2>3, SetMissingKeeps, PathsAssumption DEF KeepOrBlank
  <2>4. ASSUME NEW p \in ListPaths, Add(p) PROVE Step
    BY <1>1, <2>4, AddToListKeeps, PathsAssumption DEF Add
  <2>5. CASE SetOS
    BY <1>1, <2>5, SoftwareKeeps DEF SetOS
  <2>6. CASE SetSscl
    BY <1>1, <2>6, SoftwareKeeps DEF SetSscl
  <2>7. QED
    BY <2>1, <2>2, <2>3, <2>4, <2>5, <2>6 DEF Next
<1>3. QED
  BY <1>2, PTL DEF Spec, OthersKept

-----------------------------------------------------------------------------
(* Lists.                                                                  *)

\* The paths of the entries that an operation sets, list entries apart.
SetPaths == ValuePaths \cup OsPaths \cup SsclPaths

\* No list that is appended to is an entry that is set, or below one.
LEMMA ListsApart ==
  ASSUME NEW p \in ListPaths, NEW q \in SetPaths
  PROVE  ~IsUnder(p, q)
BY EntriesAssumption DEF SetPaths, EntryPaths

\* Sequences that agree up to n have the same prefix of length n.
LEMMA SamePrefix ==
  ASSUME NEW S, NEW s \in Seq(S), NEW t \in Seq(S), NEW n \in Nat,
         n <= Len(s), n <= Len(t), \A i \in 1 .. n : s[i] = t[i]
  PROVE  SubSeq(s, 1, n) = SubSeq(t, 1, n)
<1>1. Len(s) \in Nat /\ Len(t) \in Nat
  BY LenProperties
<1>2. \A i \in 1 .. n : s[i] \in S /\ t[i] \in S
  BY <1>1, ElementOfSeq
<1>3. /\ SubSeq(s, 1, n) \in Seq(S) /\ Len(SubSeq(s, 1, n)) = n
      /\ \A i \in 1 .. n : SubSeq(s, 1, n)[i] = s[i]
  BY <1>2, SubSeqProperties
<1>4. /\ SubSeq(t, 1, n) \in Seq(S) /\ Len(SubSeq(t, 1, n)) = n
      /\ \A i \in 1 .. n : SubSeq(t, 1, n)[i] = t[i]
  BY <1>2, SubSeqProperties
<1>5. QED
  BY <1>3, <1>4, SeqEqual

\* A list is extended by an entry or stays as it is.
LEMMA ExtendedList ==
  ASSUME NEW s \in Seq(Values), NEW v \in Values
  PROVE  IsUnder(s, s) /\ IsUnder(Append(s, v), s)
<1>1. Len(s) \in Nat /\ SubSeq(s, 1, Len(s)) = s
  BY LenProperties, SubSeqFull
<1>2. /\ Append(s, v) \in Seq(Values) /\ Len(Append(s, v)) = Len(s) + 1
      /\ \A i \in 1 .. Len(s) : Append(s, v)[i] = s[i]
  BY AppendProperties
<1>3. SubSeq(Append(s, v), 1, Len(s)) = SubSeq(s, 1, Len(s))
  BY <1>1, <1>2, SamePrefix
<1>4. QED
  BY <1>1, <1>2, <1>3 DEF IsUnder

LEMMA UnderIsAbove ==
  ASSUME NEW p \in Paths, NEW q \in Paths, IsUnder(p, q), q # p
  PROVE  q \in Above(p)
<1>1. Len(p) \in Nat /\ Len(q) \in Nat /\ Len(q) >= 1
  BY LenProperties, EmptySeq DEF Paths
<1>2. SubSeq(p, 1, Len(p)) = p
  BY SubSeqFull DEF Paths
<1>3. Len(q) \in 1 .. Len(p) - 1
  BY <1>1, <1>2 DEF IsUnder
<1>4. QED
  BY <1>3 DEF IsUnder, Above

ListsIn(d) == {p \in DOMAIN d \cap ListPaths : d[p].type = "list"}

Grows(o, d) ==
  \A p \in ListsIn(d) :
    /\ p \in DOMAIN o.tree /\ o.tree[p].type = "list"
    /\ IsUnder(o.tree[p].entries, d[p].entries)

LEMMA ListEntries ==
  ASSUME NEW d, WellFormedTree(d), NEW p \in ListsIn(d)
  PROVE  d[p].entries \in Seq(Values) /\ IsUnder(d[p].entries, d[p].entries)
<1>1. d[p].entries \in Seq(Values)
  BY ListType DEF ListsIn, WellFormedTree
<1>2. QED
  BY <1>1, ExtendedList, ValuesAssumption

\* Setting entries apart from the lists does not touch them.
LEMMA KeepsGrows ==
  ASSUME NEW d, WellFormedTree(d), NEW P \in SUBSET SetPaths,
         NEW o, Keeps(o, d, P)
  PROVE  Grows(o, d)
<1> SUFFICES ASSUME NEW p \in ListsIn(d)
             PROVE  /\ p \in DOMAIN o.tree /\ o.tree[p].type = "list"
                    /\ IsUnder(o.tree[p].entries, d[p].entries)
  BY DEF Grows
<1>1. p \in DOMAIN o.tree /\ o.tree[p] = d[p]
  BY ListsApart DEF Keeps, ListsIn
<1>2. QED
  BY <1>1, ListEntries DEF ListsIn

AllGrow(outcomes, d) == \A o \in outcomes : Grows(o, d)

LEMMA AllKeepAllGrow ==
  ASSUME NEW d, WellFormedTree(d), NEW P \in SUBSET SetPaths,
         NEW O, AllKeep(O, d, P)
  PROVE  AllGrow(O, d)
BY KeepsGrows DEF AllKeep, AllGrow

LEMMA AddToListGrows ==
  ASSUME NEW d, WellFormedTree(d), NEW q \in ListPaths, NEW v \in Values
  PROVE  AllGrow(AddToList(d, q, v), d)
<1> SUFFICES ASSUME NEW o \in AddToList(d, q, v), NEW p \in ListsIn(d)
             PROVE  /\ p \in DOMAIN o.tree /\ o.tree[p].type = "list"
                    /\ IsUnder(o.tree[p].entries, d[p].entries)
  BY DEF Grows, AllGrow
<1>1. /\ p \in Paths /\ q \in Paths /\ p \in DOMAIN d /\ d[p].type = "list"
      /\ d[p].entries \in Seq(Values) /\ IsUnder(d[p].entries, d[p].entries)
  BY ListEntries, PathsAssumption DEF ListsIn
<1>2. CASE p \in DOMAIN o.tree /\ o.tree[p] = d[p]
  BY <1>1, <1>2
<1>3. CASE ~IsUnder(p, q)
  <2>1. p \in DOMAIN o.tree /\ o.tree[p] = d[p]
    BY <1>1, <1>3, AddToListKeeps DEF AllKeep, Keeps
  <2>2. QED
    BY <1>1, <2>1
<1>4. CASE q = p
  <2>1. o \in SetDevinfo(d, p, Appended(d[p], v))
    BY <1>1, <1>4 DEF AddToList, Found
  <2>2. CASE o = Outcome("ok", PlaceAt(d, p, Appended(d[p], v)))
    <3>1. p \in DOMAIN o.tree /\ o.tree[p] = Appended(d[p], v)
      BY <2>2 DEF PlaceAt, Outcome
    <3>2. /\ Appended(d[p], v).type = "list"
          /\ \/ Appended(d[p], v).entries = d[p].entries
             \/ Appended(d[p], v).entries = Append(d[p].entries, v)
      BY <1>1 DEF Appended, List
    <3>3. QED
      BY <1>1, <3>1, <3>2, ExtendedList
  <2>3. CASE o = Outcome("inTheWay", d)
    BY <1>1, <1>2, <2>3 DEF Outcome
  <2>4. CASE o \in Refused(d, p)
    BY <1>1, <1>2, <2>4, RefusedOpens DEF Opens
  <2>5. QED
    BY <2>1, <2>2, <2>3, <2>4, SetDevinfoEnds
<1>5. CASE IsUnder(p, q) /\ q # p
  <2>1. q \in DOMAIN d /\ d[q] = Object
    BY <1>1, <1>5, UnderIsAbove DEF WellFormedTree
  <2>2. o.tree = d
    BY <2>1 DEF AddToList, Found, Object, Outcome
  <2>3. QED
    BY <1>1, <1>2, <2>2
<1>6. QED
  BY <1>3, <1>4, <1>5

\* The entries of a list stay in it in their order until the repository is
\* reset.
THEOREM ListsGrowCorrect == Spec => ListsGrow
<1> DEFINE Step == last'.op # "load" =>
             \A p \in DOMAIN fDevinfo \cap ListPaths :
               fDevinfo[p].type = "list" =>
                 /\ p \in DOMAIN fDevinfo' /\ fDevinfo'[p].type = "list"
                 /\ IsUnder(fDevinfo'[p].entries, fDevinfo[p].entries)
<1>1. ASSUME NEW op, NEW P, NEW O, Perform(op, P, O), AllGrow(O, fDevinfo)
      PROVE  Step
  BY <1>1 DEF Perform, AllGrow, Grows, ListsIn
<1>2. TypeOK /\ [Next]_vars => [Step]_vars
  <2> SUFFICES ASSUME TypeOK, Next PROVE Step
    OBVIOUS
  <2> HIDE DEF Step
  <2>0. WellFormedTree(fDevinfo)
    BY DEF TypeOK
  <2>1. CASE Load
    BY <2>1 DEF Load, Step
  <2>2. ASSUME NEW p \in ValuePaths, SetValue(p) \/ KeepOrBlank(p) PROVE Step
    <3>1. p \in Paths /\ {p} \subseteq SetPaths
      BY PathsAssumption DEF SetPaths
    <3>2. QED
      BY <1>1, <2>0, <2>2, <3>1, AllKeepAllGrow, SetDevinfoKeeps,
         SetMissingKeeps
         DEF SetValue, KeepOrBlank
  <2>3. ASSUME NEW p \in ListPaths, Add(p) PROVE Step
    BY <1>1, <2>0, <2>3, AddToListGrows, ValuesAssumption DEF Add
  <2>4. CASE SetOS
    BY <1>1, <2>0, <2>4, AllKeepAllGrow, SoftwareKeeps DEF SetOS, SetPaths
  <2>5. CASE SetSscl
    BY <1>1, <2>0, <2>5, AllKeepAllGrow, SoftwareKeeps DEF SetSscl, SetPaths
  <2>6. QED
    BY <2>1, <2>2, <2>3, <2>4, <2>5 DEF Next
<1>3. QED
  BY <1>2, TreeCorrect, PTL DEF Spec, ListsGrow

-----------------------------------------------------------------------------
(* The tree as a table of entries that do not depend on each other.        *)

LEMMA EntriesArePaths == EntryPaths \subseteq Paths
BY PathsAssumption, SoftwarePaths DEF EntryPaths

\* An entry is apart from another one and from the objects above it.
LEMMA EntriesApart ==
  ASSUME NEW p \in EntryPaths, NEW q \in EntryPaths, p # q
  PROVE  ~IsUnder(q, p) /\ q \notin Above(p)
<1>1. ~IsUnder(q, p) /\ ~IsUnder(p, q)
  BY EntriesAssumption
<1>2. QED
  BY <1>1, EntriesArePaths, AboveProperties

\* What is placed at an entry is the only change to the table.
LEMMA PlaceAtTable ==
  ASSUME NEW d, NEW p \in EntryPaths, NEW node
  PROVE  Table(PlaceAt(d, p, node)) =
           [q \in EntryPaths |-> IF q = p THEN node ELSE Table(d)[q]]
<1>1. ASSUME NEW q \in EntryPaths, q # p
      PROVE  /\ q \in DOMAIN PlaceAt(d, p, node) <=> q \in DOMAIN d
             /\ q \in DOMAIN d => PlaceAt(d, p, node)[q] = d[q]
  BY <1>1, EntriesApart DEF PlaceAt
<1>2. p \in DOMAIN PlaceAt(d, p, node) /\ PlaceAt(d, p, node)[p] = node
  BY DEF PlaceAt
<1>3. QED
  BY <1>1, <1>2 DEF Table, Found

\* Nor does it bring an entry into the way of another, or out of it.
LEMMA PlaceAtClosed ==
  ASSUME NEW d, NEW p \in EntryPaths, NEW node, ~Blocked(d, p)
  PROVE  Closed(PlaceAt(d, p, node)) = Closed(d)
<1> DEFINE e == PlaceAt(d, p, node)
<1> SUFFICES ASSUME NEW q \in EntryPaths
             PROVE  Blocked(e, q) <=> Blocked(d, q)
  BY DEF Closed
<1>1. p \in Paths /\ q \in Paths
  BY EntriesArePaths
<1>2. p \notin Above(q)
  BY <1>1, EntriesApart, UnderProperties
<1>3. ASSUME Blocked(e, q) PROVE Blocked(d, q)
  <2>1. PICK r \in Above(q) \cap DOMAIN e : e[r] # Object
    BY <1>3 DEF Blocked
  <2>2. r # p
    BY <1>2
  <2>3. r \in DOMAIN d /\ d[r] = e[r]
    BY <2>1, <2>2 DEF PlaceAt
  <2>4. QED
    BY <2>1, <2>3 DEF Blocked
<1>4. ASSUME Blocked(d, q) PROVE Blocked(e, q)
  <2>1. PICK r \in Above(q) \cap DOMAIN d : d[r] # Object
    BY <1>4 DEF Blocked
  <2>2. q # p
    BY <1>4
  <2>3. ~IsUnder(r, p) /\ r # p
    BY <1>1, <1>2, <2>2, EntriesApart, UnderProperties
  <2>4. r \in DOMAIN e /\ e[r] = d[r]
    BY <2>1, <2>3 DEF PlaceAt
  <2>5. QED
    BY <2>1, <2>4 DEF Blocked
<1>5. QED
  BY <1>3, <1>4

\* Nor do the objects that a refusal leaves behind change the table.
LEMMA OpensTable ==
  ASSUME NEW d, NEW p \in EntryPaths, NEW e, Opens(e, d, p)
  PROVE  Table(e) = Table(d) /\ Closed(e) = Closed(d)
<1>1. ASSUME NEW q \in EntryPaths
      PROVE  /\ q \in DOMAIN e <=> q \in DOMAIN d
             /\ q \in DOMAIN d => e[q] = d[q]
  <2>1. q \notin Above(p)
    BY EntriesApart, EntriesArePaths, UnderProperties
  <2>2. QED
    BY <2>1 DEF Opens
<1>2. Table(e) = Table(d)
  BY <1>1 DEF Table, Found
<1>3. ASSUME NEW q PROVE Blocked(e, q) <=> Blocked(d, q)
  BY DEF Opens, Blocked
<1>4. QED
  BY <1>2, <1>3 DEF Closed

\* The outcome o of an operation on d about the entries P has given the entries
\* S the contents c, and returned err; or something was in its way.
Puts(o, d, P, err, S, c) ==
  /\ o.err = err
  /\ P \cap Closed(d) = {}
  /\ \A e \in EntryPaths :
       Table(o.tree)[e] = IF e \in S THEN c[e] ELSE Table(d)[e]
  /\ Closed(o.tree) = Closed(d)

Fails(o, d) == o.err = "inTheWay" /\ o.tree = d

\* The outcomes of setting the entries P in a row: when the operation is refused
\* it has set one of the sets in C, of which each lacks an entry.
Sets(outcomes, d, P, c, C) ==
  /\ C \subseteq SUBSET P /\ P \notin C
  /\ \A o \in outcomes :
       \/ Puts(o, d, P, "ok", P, c)
       \/ \E S \in C : Puts(o, d, P, "refused", S, c)
       \/ Fails(o, d) /\ P \cap Closed(d) # {}

\* What has been set when an operation on a single entry is refused.
Unset == {{}}

LEMMA RefusedPuts ==
  ASSUME NEW d, NEW p \in EntryPaths, ~Blocked(d, p), NEW o \in Refused(d, p), NEW c
  PROVE  Puts(o, d, {p}, "refused", {}, c)
<1>1. o.err = "refused" /\ Opens(o.tree, d, p)
  BY RefusedOpens, EntriesArePaths
<1>2. Table(o.tree) = Table(d) /\ Closed(o.tree) = Closed(d)
  BY <1>1, OpensTable
<1>3. QED
  BY <1>1, <1>2 DEF Puts, Closed, Table

LEMMA SetDevinfoPuts ==
  ASSUME NEW d, NEW p \in EntryPaths, NEW node, NEW c, c[p] = node,
         NEW o \in SetDevinfo(d, p, node)
  PROVE  \/ Puts(o, d, {p}, "ok", {p}, c)
         \/ Puts(o, d, {p}, "refused", {}, c)
         \/ Fails(o, d) /\ {p} \cap Closed(d) # {}
<1>1. CASE ~Blocked(d, p) /\ o = Outcome("ok", PlaceAt(d, p, node))
  <2>1. o.tree = PlaceAt(d, p, node) /\ o.err = "ok"
    BY <1>1 DEF Outcome
  <2>2. {p} \cap Closed(d) = {}
    BY <1>1 DEF Closed
  <2>3. \A e \in EntryPaths :
          Table(o.tree)[e] = IF e \in {p} THEN c[e] ELSE Table(d)[e]
    <3> DEFINE t == Table(PlaceAt(d, p, node))
               u == Table(d)
    <3>1. t = [q \in EntryPaths |-> IF q = p THEN node ELSE u[q]]
      BY PlaceAtTable
    <3> HIDE DEF t, u
    <3>2. \A e \in EntryPaths : t[e] = IF e \in {p} THEN c[e] ELSE u[e]
      BY <3>1
    <3>3. QED
      BY <2>1, <3>2 DEF t, u
  <2>4. Closed(o.tree) = Closed(d)
    BY <1>1, <2>1, PlaceAtClosed
  <2>5. QED
    BY <2>1, <2>2, <2>3, <2>4 DEF Puts
<1>2. CASE Blocked(d, p) /\ o = Outcome("inTheWay", d)
  BY <1>2 DEF Outcome, Fails, Closed
<1>3. CASE ~Blocked(d, p) /\ o \in Refused(d, p)
  BY <1>3, RefusedPuts
<1>4. QED
  BY <1>1, <1>2, <1>3, SetDevinfoEnds

LEMMA SetDevinfoSets ==
  ASSUME NEW d, NEW p \in EntryPaths, NEW node, NEW c, c[p] = node
  PROVE  Sets(SetDevinfo(d, p, node), d, {p}, c, Unset)
BY SetDevinfoPuts DEF Sets, Unset

\* One more entry in the row, closed if and only if the others are.
LEMMA AndSetPuts ==
  ASSUME NEW d, NEW O, NEW P, NEW c, NEW C, Sets(O, d, P, c, C),
         NEW p \in EntryPaths \ P, ~Blocked(d, p) \/ P \cap Closed(d) # {}
  PROVE  Sets(AndSet(O, p, c[p]), d, P \cup {p}, c, C \cup {P})
<1> DEFINE Q == P \cup {p}
<1> SUFFICES ASSUME NEW o \in AndSet(O, p, c[p])
             PROVE  \/ Puts(o, d, Q, "ok", Q, c)
                    \/ \E S \in C \cup {P} : Puts(o, d, Q, "refused", S, c)
                    \/ Fails(o, d) /\ Q \cap Closed(d) # {}
  BY DEF Sets
<1>1. PICK o1 \in O : IF o1.err = "ok" THEN o \in SetDevinfo(o1.tree, p, c[p])
                      ELSE o = o1
  BY DEF AndSet
<1>2. CASE Puts(o1, d, P, "ok", P, c)
  <2>1. ~Blocked(d, p) /\ p \notin Closed(d) /\ p \notin Closed(o1.tree)
    BY <1>2 DEF Puts, Closed
  <2>2. o \in SetDevinfo(o1.tree, p, c[p]) /\ {p} \cap Closed(o1.tree) = {}
    BY <1>1, <1>2, <2>1 DEF Puts
  <2>4. \/ Puts(o, o1.tree, {p}, "ok", {p}, c)
        \/ Puts(o, o1.tree, {p}, "refused", {}, c)
    BY <2>2, SetDevinfoPuts
  <2>5. CASE Puts(o, o1.tree, {p}, "ok", {p}, c)
    BY <1>2, <2>1, <2>5 DEF Puts
  <2>6. CASE Puts(o, o1.tree, {p}, "refused", {}, c)
    <3>1. Puts(o, d, Q, "refused", P, c)
      BY <1>2, <2>1, <2>6 DEF Puts
    <3>2. QED
      BY <3>1
  <2>7. QED
    BY <2>4, <2>5, <2>6
<1>3. ASSUME NEW S \in C, Puts(o1, d, P, "refused", S, c)
      PROVE  Puts(o, d, Q, "refused", S, c)
  <2>1. o = o1 /\ ~Blocked(d, p)
    BY <1>1, <1>3 DEF Puts
  <2>2. QED
    BY <1>3, <2>1 DEF Puts, Closed
<1>4. CASE Fails(o1, d) /\ P \cap Closed(d) # {}
  BY <1>1, <1>4 DEF Fails
<1>5. QED
  BY <1>2, <1>3, <1>4 DEF Sets

\* The entries of the OS have their objects in common, and so have those of
\* the client.
LEMMA SoftwareAbove ==
  /\ Above(OsRow[2]) = Above(OsRow[1])
  /\ Above(SsclRow[2]) = Above(SsclRow[1])
  /\ Above(SsclRow[3]) = Above(SsclRow[1])
<1>1. ASSUME NEW a \in Names, NEW b \in Names, NEW c \in Names, NEW e \in Names
      PROVE  Above(<<a, b, c>>) = Above(<<a, b, e>>)
  <2>1. <<a, b, c>> \in Seq(Names) /\ <<a, b, e>> \in Seq(Names)
    OBVIOUS
  <2>2. Len(<<a, b, c>>) = 3 /\ Len(<<a, b, e>>) = 3
    OBVIOUS
  <2>3. ASSUME NEW n \in 1 .. 2
        PROVE  SubSeq(<<a, b, c>>, 1, n) = SubSeq(<<a, b, e>>, 1, n)
    <3>1. \A i \in 1 .. n : <<a, b, c>>[i] = <<a, b, e>>[i]
      OBVIOUS
    <3>2. QED
      BY <2>1, <2>2, <3>1, SamePrefix
  <2>4. QED
    BY <2>2, <2>3 DEF Above
<1>2. QED
  BY <1>1, NamesAssumption DEF SoftwareNames, OsRow, SsclRow

\* What has been set when an operation on a row is refused.
Parts(row) == {Report!Before(row, n) : n \in 1 .. Len(row)}

LEMMA RowParts ==
  /\ Len(OsRow) = 2 /\ Report!Members(OsRow) = OsPaths
  /\ Len(SsclRow) = 3 /\ Report!Members(SsclRow) = SsclPaths
  /\ Parts(OsRow) = {{}, {OsRow[1]}}
  /\ Parts(SsclRow) = {{}, {SsclRow[1]}, {SsclRow[1], SsclRow[2]}}
<1>1. Len(OsRow) = 2 /\ Len(SsclRow) = 3
  BY DEF OsRow, SsclRow
<1>2. ASSUME NEW row
      PROVE  /\ Report!Before(row, 1) = {}
             /\ Report!Before(row, 2) = {row[1]}
             /\ Report!Before(row, 3) = {row[1], row[2]}
  BY DEF Report!Before
<1>3. Report!Members(OsRow) = OsPaths /\ Report!Members(SsclRow) = SsclPaths
  BY <1>1 DEF Report!Members, Report!Before, OsPaths, SsclPaths
<1>4. ASSUME NEW row, Len(row) = 2 PROVE Parts(row) = {{}, {row[1]}}
  <2>1. 1 .. Len(row) = {1, 2}
    BY <1>4
  <2>2. Parts(row) = {Report!Before(row, 1), Report!Before(row, 2)}
    BY <2>1 DEF Parts
  <2>3. QED
    BY <1>2, <2>2
<1>5. ASSUME NEW row, Len(row) = 3
      PROVE  Parts(row) = {{}, {row[1]}, {row[1], row[2]}}
  <2>1. 1 .. Len(row) = {1, 2, 3}
    BY <1>5
  <2>2. Parts(row) = {Report!Before(row, 1), Report!Before(row, 2),
                      Report!Before(row, 3)}
    BY <2>1 DEF Parts
  <2>3. QED
    BY <1>2, <2>2
<1>6. QED
  BY <1>1, <1>3, <1>4, <1>5

RowSets(outcomes, d, P, row) ==
  \E v \in [P -> Values] :
    Sets(outcomes, d, P, [e \in P |-> Value(v[e])], Parts(row))

\* The rows of the OS and of the client are set in their order.
LEMMA SetOSPuts ==
  ASSUME NEW d, NEW t \in Values, NEW v \in Values
  PROVE  RowSets(SetSoftwareOS(d, t, v), d, OsPaths, OsRow)
<1> DEFINE p == OsRow[1]
           q == OsRow[2]
           c == [e \in OsPaths |-> IF e = q THEN v ELSE t]
           f == [e \in OsPaths |-> Value(c[e])]
<1>1. OsPaths = {p} \cup {q} /\ p # q /\ p \in EntryPaths /\ q \in EntryPaths
  BY SoftwarePaths DEF EntryPaths
<1>2. ~Blocked(d, q) \/ {p} \cap Closed(d) # {}
  BY <1>1, SoftwareAbove DEF Blocked, Closed
<1>3. SetSoftwareOS(d, t, v) = AndSet(SetDevinfo(d, p, Value(t)), q, Value(v))
  BY DEF SetSoftwareOS
<1> HIDE DEF p, q
<1>4. f[p] = Value(t) /\ f[q] = Value(v) /\ c \in [OsPaths -> Values]
  BY <1>1
<1> HIDE DEF f
<1>5. Sets(SetDevinfo(d, p, Value(t)), d, {p}, f, Unset)
  BY <1>1, <1>4, SetDevinfoSets
<1>6. q \in EntryPaths \ {p}
  BY <1>1
<1>7. Sets(AndSet(SetDevinfo(d, p, Value(t)), q, f[q]), d, {p} \cup {q}, f,
           Unset \cup {{p}})
  BY <1>2, <1>5, <1>6, AndSetPuts
<1>8. Unset \cup {{p}} = Parts(OsRow)
  <2>1. Unset \cup {{p}} = {{}, {p}}
    BY DEF Unset
  <2>2. QED
    BY <2>1, RowParts DEF p, Unset
<1>9. Sets(SetSoftwareOS(d, t, v), d, OsPaths, f, Parts(OsRow))
  BY <1>1, <1>3, <1>4, <1>7, <1>8
<1>10. QED
  BY <1>4, <1>9 DEF f, RowSets

LEMMA SetSsclPuts ==
  ASSUME NEW d, NEW t \in Values, NEW v \in Values, NEW s \in Values
  PROVE  RowSets(SetSoftwareSscl(d, t, v, s), d, SsclPaths, SsclRow)
<1> DEFINE p == SsclRow[1]
           q == SsclRow[2]
           r == SsclRow[3]
           first == SetDevinfo(d, p, Value(t))
           second == AndSet(first, q, Value(v))
           two == {p} \cup {q}
           c == [e \in SsclPaths |-> IF e = r THEN s ELSE IF e = q THEN v ELSE t]
           f == [e \in SsclPaths |-> Value(c[e])]
<1>1. /\ SsclPaths = two \cup {r} /\ p # q /\ r \notin two
      /\ p \in EntryPaths /\ q \in EntryPaths /\ r \in EntryPaths
  BY SoftwarePaths DEF EntryPaths
<1>2. /\ ~Blocked(d, q) \/ {p} \cap Closed(d) # {}
      /\ ~Blocked(d, r) \/ two \cap Closed(d) # {}
  BY <1>1, SoftwareAbove DEF Blocked, Closed
<1>3. SetSoftwareSscl(d, t, v, s) = AndSet(second, r, Value(s))
  BY DEF SetSoftwareSscl
<1> HIDE DEF p, q, r
<1>4. /\ f[p] = Value(t) /\ f[q] = Value(v) /\ f[r] = Value(s)
      /\ c \in [SsclPaths -> Values]
  BY <1>1
<1> HIDE DEF f
<1>5. Sets(first, d, {p}, f, Unset)
  BY <1>1, <1>4, SetDevinfoSets
<1> HIDE DEF first
<1>6. Sets(second, d, two, f, Unset \cup {{p}})
  <2>1. q \in EntryPaths \ {p}
    BY <1>1
  <2>2. Sets(AndSet(first, q, f[q]), d, {p} \cup {q}, f, Unset \cup {{p}})
    BY <1>2, <1>5, <2>1, AndSetPuts
  <2>3. QED
    BY <1>4, <2>2
<1>7. Sets(AndSet(second, r, f[r]), d, two \cup {r}, f,
           (Unset \cup {{p}}) \cup {two})
  <2>1. r \in EntryPaths \ two
    BY <1>1
  <2> HIDE DEF second, two
  <2>2. QED
    BY <1>2, <1>6, <2>1, AndSetPuts
<1>8. (Unset \cup {{p}}) \cup {two} = Parts(SsclRow)
  <2>1. (Unset \cup {{p}}) \cup {two} = {{}, {p}, {p, q}}
    BY DEF Unset
  <2>2. QED
    BY <2>1, RowParts DEF p, q, Unset
<1>9. Sets(SetSoftwareSscl(d, t, v, s), d, SsclPaths, f, Parts(SsclRow))
  <2> HIDE DEF second
  <2>1. QED
    BY <1>1, <1>3, <1>4, <1>7, <1>8
<1>10. QED
  BY <1>4, <1>9 DEF f, RowSets

\* What an entry of a tree holds, and that it is nothing if it is not there.
LEMMA TableContents ==
  ASSUME NEW d, WellFormedTree(d), NEW p \in EntryPaths
  PROVE  /\ Table(d)[p] \in Report!Contents
         /\ Found(d, p) => Table(d)[p] = d[p] /\ d[p] \in Nodes
         /\ Table(d)[p] = Report!Nothing <=> ~Found(d, p)
<1>1. Report!Nothing \notin Nodes
  BY DEF Report!Nothing, Nodes, Object
<1>2. Nodes \cup {Report!Nothing} = Report!Contents
  BY DEF Nodes, Object, Report!Contents
<1>3. Found(d, p) => d[p] \in Nodes
  BY DEF Found, WellFormedTree
<1>4. Table(d)[p] = IF Found(d, p) THEN d[p] ELSE Report!Nothing
  BY DEF Table, Report!Nothing
<1>5. QED
  BY <1>1, <1>2, <1>3, <1>4

LEMMA SetMissingPuts ==
  ASSUME NEW d, WellFormedTree(d), NEW p \in EntryPaths
  PROVE  Sets(SetMissing(d, p), d, {p},
              [f \in {p} |-> Report!Present(Table(d)[p])], Unset)
<1> DEFINE c == [f \in {p} |-> Report!Present(Table(d)[p])]
<1>1. CASE Found(d, p)
  <2>1. ~Blocked(d, p) /\ {p} \cap Closed(d) = {}
    BY <1>1, ClosedIsEmpty DEF Closed
  <2>2. Report!Present(Table(d)[p]) = Table(d)[p]
    BY <1>1, TableContents DEF Report!Present
  <2>3. \A e \in EntryPaths : Table(d)[e] = IF e \in {p} THEN c[e] ELSE Table(d)[e]
    BY <2>2
  <2>4. Puts(Outcome("ok", d), d, {p}, "ok", {p}, c)
    BY <2>1, <2>3 DEF Puts, Outcome
  <2>5. \A o \in Refused(d, p) : Puts(o, d, {p}, "refused", {}, c)
    BY <2>1, RefusedPuts
  <2> HIDE DEF c
  <2>6. Sets(SetMissing(d, p), d, {p}, c, Unset)
    BY <1>1, <2>4, <2>5 DEF SetMissing, Sets, Unset
  <2>7. QED
    BY <2>6 DEF c
<1>2. CASE ~Found(d, p)
  <2>1. Report!Present(Table(d)[p]) = Value(Blank)
    BY <1>2, TableContents DEF Report!Present, Report!Value, Value
  <2>2. c[p] = Value(Blank)
    BY <2>1
  <2>3. SetMissing(d, p) = SetDevinfo(d, p, Value(Blank))
    BY <1>2 DEF SetMissing
  <2> HIDE DEF c
  <2>4. Sets(SetDevinfo(d, p, Value(Blank)), d, {p}, c, Unset)
    BY <2>2, SetDevinfoSets
  <2>5. QED
    BY <2>3, <2>4 DEF c
<1>3. QED
  BY <1>1, <1>2

LEMMA AddToListPuts ==
  ASSUME NEW d, WellFormedTree(d), NEW p \in EntryPaths, NEW v \in Values
  PROVE  \/ /\ Table(d)[p].type \in {"none", "list"}
            /\ Sets(AddToList(d, p, v), d, {p},
                    [f \in {p} |-> Report!Extended(Table(d)[p], v)], Unset)
         \/ /\ Table(d)[p].type \notin {"none", "list"}
            /\ \A o \in AddToList(d, p, v) : Fails(o, d)
<1> DEFINE c == [f \in {p} |-> Report!Extended(Table(d)[p], v)]
<1>1. CASE ~Found(d, p)
  <2>1. Table(d)[p] = Report!Nothing
    BY <1>1, TableContents
  <2>2. c[p] = List(<<v>>) /\ Table(d)[p].type = "none"
    BY <2>1 DEF Report!Extended, Report!List, List, Report!Nothing
  <2> HIDE DEF c
  <2>3. Sets(AddToList(d, p, v), d, {p}, c, Unset)
    BY <1>1, <2>2, SetDevinfoSets DEF AddToList
  <2>4. QED
    BY <2>2, <2>3 DEF c
<1>2. CASE Found(d, p) /\ d[p].type # "list"
  <2>1. Table(d)[p].type \notin {"none", "list"}
    BY <1>2, TableContents DEF Nodes, Object
  <2>2. QED
    BY <1>2, <2>1 DEF AddToList, Fails, Outcome
<1>3. CASE Found(d, p) /\ d[p].type = "list"
  <2>1. Table(d)[p] = d[p] /\ d[p] # Report!Nothing
    BY <1>3, TableContents
  <2>2. d[p] = List(d[p].entries)
    BY <1>3, TableContents, ListType
  <2>3. d[p] = List(<<>>) <=> d[p].entries = <<>>
    BY <2>2 DEF List
  <2>4. c[p] = Appended(d[p], v)
    BY <2>1, <2>2, <2>3 DEF Report!Extended, Report!List, List, Appended
  <2> HIDE DEF c
  <2>5. Sets(AddToList(d, p, v), d, {p}, c, Unset)
    BY <1>3, <2>4, SetDevinfoSets DEF AddToList
  <2>6. QED
    BY <1>3, <2>1, <2>5 DEF c
<1>4. QED
  BY <1>1, <1>2, <1>3

-----------------------------------------------------------------------------
(* Failing operations.                                                     *)

\* What is new in o.tree are entries of P and objects that lead to them.
Adds(o, d, P) ==
  \A q \in DOMAIN o.tree \ DOMAIN d :
    \/ q \in P
    \/ o.tree[q] = Object /\ \E p \in P : q \in Above(p)
AllAdd(outcomes, d, P) == \A o \in outcomes : Adds(o, d, P)

LEMMA RefusedAdds ==
  ASSUME NEW d, NEW P, NEW p \in P, p \in Paths
  PROVE  AllAdd(Refused(d, p), d, P)
BY RefusedOpens DEF AllAdd, Adds, Opens

LEMMA SetDevinfoAdds ==
  ASSUME NEW d, NEW P \in SUBSET Paths, NEW p \in P, NEW node
  PROVE  AllAdd(SetDevinfo(d, p, node), d, P)
<1>1. Adds(Outcome("ok", PlaceAt(d, p, node)), d, P)
  BY DEF Outcome, Adds, PlaceAt
<1>2. Adds(Outcome("inTheWay", d), d, P)
  BY DEF Outcome, Adds
<1>3. QED
  BY <1>1, <1>2, RefusedAdds, SetDevinfoEnds DEF AllAdd

LEMMA AndSetAdds ==
  ASSUME NEW d, NEW P \in SUBSET Paths, NEW O, AllAdd(O, d, P),
         NEW p \in P, NEW node
  PROVE  AllAdd(AndSet(O, p, node), d, P)
<1> SUFFICES ASSUME NEW o1 \in O, NEW o \in SetDevinfo(o1.tree, p, node)
             PROVE  Adds(o, d, P)
  BY DEF AndSet, AllAdd
<1>1. Adds(o1, d, P) /\ Adds(o, o1.tree, P)
  BY SetDevinfoAdds DEF AllAdd
<1>2. ASSUME NEW q \in DOMAIN o.tree \cap DOMAIN o1.tree, q # p
      PROVE  o.tree[q] = o1.tree[q]
  <2>1. PlaceAt(o1.tree, p, node)[q] = o1.tree[q] \/
          q \notin DOMAIN PlaceAt(o1.tree, p, node)
    BY <1>2 DEF PlaceAt
  <2>2. QED
    BY <1>2, <2>1, SetDevinfoEnds, RefusedOpens DEF Outcome, Opens
<1>3. QED
  BY <1>1, <1>2 DEF Adds

LEMMA SoftwareAdds ==
  ASSUME NEW d, NEW t, NEW v, NEW s
  PROVE  /\ AllAdd(SetSoftwareOS(d, t, v), d, OsPaths)
         /\ AllAdd(SetSoftwareSscl(d, t, v, s), d, SsclPaths)
BY SetDevinfoAdds, AndSetAdds, SoftwarePaths
   DEF SetSoftwareOS, SetSoftwareSscl

LEMMA SetMissingAdds ==
  ASSUME NEW d, NEW p \in Paths
  PROVE  AllAdd(SetMissing(d, p), d, {p})
<1>1. Adds(Outcome("ok", d), d, {p})
  BY DEF Adds, Outcome
<1>2. QED
  BY <1>1, SetDevinfoAdds, RefusedAdds DEF SetMissing, AllAdd

LEMMA AddToListAdds ==
  ASSUME NEW d, NEW p \in Paths, NEW v
  PROVE  AllAdd(AddToList(d, p, v), d, {p})
<1>1. Adds(Outcome("inTheWay", d), d, {p})
  BY DEF Adds, Outcome
<1>2. QED
  BY <1>1, SetDevinfoAdds DEF AddToList, AllAdd

\* What FailureLosesNothing says of a step.
LosesNothing ==
  last'.err # "ok" =>
    /\ last'.err = "inTheWay" => UNCHANGED fDevinfo
    /\ \A p \in EntryPaths : Found(fDevinfo, p) => Found(fDevinfo', p)
    /\ \E p \in last'.about : Table(fDevinfo')[p] = Table(fDevinfo)[p]
    /\ \A q \in DOMAIN fDevinfo' \ DOMAIN fDevinfo :
         \/ q \in last'.about
         \/ fDevinfo'[q] = Object /\ \E p \in last'.about : q \in Above(p)

LEMMA FailsLosesNothing ==
  ASSUME NEW op, NEW P, P # {}, NEW O, Perform(op, P, O),
         \A o \in O : Fails(o, fDevinfo)
  PROVE  LosesNothing
BY DEF Perform, Fails, LosesNothing

\* An operation that sets a row of entries to something.
LEMMA SetsLosesNothing ==
  ASSUME NEW op, NEW P \in SUBSET EntryPaths, P # {}, NEW O, NEW c, NEW C,
         Perform(op, P, O), Sets(O, fDevinfo, P, c, C), AllAdd(O, fDevinfo, P),
         \A e \in P : c[e] # Report!Nothing, TypeOK, TypeOK'
  PROVE  LosesNothing
<1>1. PICK o \in O : fDevinfo' = o.tree /\ last' = [op |-> op, about |-> P, err |-> o.err]
  BY DEF Perform
<1>2. last'.about = P /\ last'.err = o.err /\ Adds(o, fDevinfo, P)
  BY <1>1 DEF AllAdd
<1>3. CASE Puts(o, fDevinfo, P, "ok", P, c)
  BY <1>2, <1>3 DEF Puts, LosesNothing
<1>4. CASE Fails(o, fDevinfo)
  BY <1>1, <1>2, <1>4 DEF Fails, LosesNothing
<1>5. ASSUME NEW S \in C, Puts(o, fDevinfo, P, "refused", S, c)
      PROVE  LosesNothing
  <2>1. S \subseteq P /\ S # P
    BY DEF Sets
  <2>2. /\ o.err = "refused"
        /\ \A e \in EntryPaths :
             Table(fDevinfo')[e] = IF e \in S THEN c[e] ELSE Table(fDevinfo)[e]
    BY <1>1, <1>5 DEF Puts
  <2>3. ASSUME NEW p \in EntryPaths, Found(fDevinfo, p) PROVE Found(fDevinfo', p)
    <3>1. Table(fDevinfo)[p] # Report!Nothing
      BY <2>3, TableContents DEF TypeOK
    <3>2. Table(fDevinfo')[p] # Report!Nothing
      BY <2>1, <2>2, <3>1
    <3>3. WellFormedTree(fDevinfo')
      BY DEF TypeOK
    <3>4. QED
      BY <3>2, <3>3, TableContents
  <2>4. \E p \in P : Table(fDevinfo')[p] = Table(fDevinfo)[p]
    BY <2>1, <2>2
  <2>5. QED
    BY <1>1, <1>2, <2>2, <2>3, <2>4 DEF Adds, LosesNothing
<1>6. QED
  BY <1>3, <1>4, <1>5 DEF Sets

\* An operation that fails has destroyed nothing: if something was in its way it
\* has changed nothing, and if it was refused it has lost no entry, has left one
\* of its own as it was, and has added only objects that lead to its entries.
THEOREM FailureLosesNothingCorrect == Spec => FailureLosesNothing
<1>1. \A v : Value(v) # Report!Nothing
  BY DEF Value, Report!Nothing
<1>2. TypeOK /\ TypeOK' /\ [Next]_vars => [LosesNothing]_vars
  <2> SUFFICES ASSUME TypeOK, TypeOK', Next PROVE LosesNothing
    OBVIOUS
  <2>0. WellFormedTree(fDevinfo) /\ EntryPaths \subseteq Paths
    BY EntriesArePaths DEF TypeOK
  <2>1. CASE Load
    BY <2>1 DEF Load, LosesNothing
  <2>2. ASSUME NEW p \in ValuePaths, SetValue(p) PROVE LosesNothing
    <3>1. p \in EntryPaths
      BY DEF EntryPaths
    <3>2. PICK v \in Values : Perform("set", {p}, SetDevinfo(fDevinfo, p, Value(v)))
      BY <2>2, ValuesAssumption DEF SetValue
    <3> DEFINE c == [e \in {p} |-> Value(v)]
    <3>3. c[p] = Value(v)
      OBVIOUS
    <3> HIDE DEF c
    <3>4. Sets(SetDevinfo(fDevinfo, p, Value(v)), fDevinfo, {p}, c, Unset)
      BY <3>1, <3>3, SetDevinfoSets
    <3>5. AllAdd(SetDevinfo(fDevinfo, p, Value(v)), fDevinfo, {p})
      BY <2>0, <3>1, SetDevinfoAdds
    <3>6. \A e \in {p} : c[e] # Report!Nothing
      BY <1>1, <3>3
    <3>7. QED
      BY <3>1, <3>2, <3>4, <3>5, <3>6, SetsLosesNothing
  <2>3. ASSUME NEW p \in ValuePaths, KeepOrBlank(p) PROVE LosesNothing
    <3>1. p \in EntryPaths /\ Perform("keepOrBlank", {p}, SetMissing(fDevinfo, p))
      BY <2>3 DEF EntryPaths, KeepOrBlank
    <3> DEFINE c == [f \in {p} |-> Report!Present(Table(fDevinfo)[p])]
    <3>2. Sets(SetMissing(fDevinfo, p), fDevinfo, {p}, c, Unset)
      BY <2>0, <3>1, SetMissingPuts
    <3>3. AllAdd(SetMissing(fDevinfo, p), fDevinfo, {p})
      BY <2>0, <3>1, SetMissingAdds
    <3>4. \A e \in {p} : c[e] # Report!Nothing
      BY DEF Report!Present, Report!Value, Report!Nothing
    <3> HIDE DEF c
    <3>5. QED
      BY <3>1, <3>2, <3>3, <3>4, SetsLosesNothing
  <2>4. ASSUME NEW p \in ListPaths, Add(p) PROVE LosesNothing
    <3>1. p \in EntryPaths
      BY DEF EntryPaths
    <3>2. PICK v \in Values : Perform("add", {p}, AddToList(fDevinfo, p, v))
      BY <2>4, ValuesAssumption DEF Add
    <3>3. AllAdd(AddToList(fDevinfo, p, v), fDevinfo, {p})
      BY <2>0, <3>1, AddToListAdds
    <3> DEFINE c == [f \in {p} |-> Report!Extended(Table(fDevinfo)[p], v)]
    <3>4. \A e \in {p} : c[e] # Report!Nothing
      BY DEF Report!Extended, Report!List, Report!Nothing
    <3>5. \/ Sets(AddToList(fDevinfo, p, v), fDevinfo, {p}, c, Unset)
          \/ \A o \in AddToList(fDevinfo, p, v) : Fails(o, fDevinfo)
      BY <2>0, <3>1, AddToListPuts
    <3> HIDE DEF c
    <3>6. QED
      BY <3>1, <3>2, <3>3, <3>4, <3>5, SetsLosesNothing, FailsLosesNothing
  <2>5. CASE SetOS
    <3>1. PICK t \in Values, v \in Values :
            Perform("set", OsPaths, SetSoftwareOS(fDevinfo, t, v))
      BY <2>5, ValuesAssumption DEF SetOS
    <3>2. RowSets(SetSoftwareOS(fDevinfo, t, v), fDevinfo, OsPaths, OsRow)
      BY SetOSPuts
    <3>3. PICK c \in [OsPaths -> Values] :
            Sets(SetSoftwareOS(fDevinfo, t, v), fDevinfo, OsPaths,
                 [e \in OsPaths |-> Value(c[e])], Parts(OsRow))
      BY <3>2 DEF RowSets
    <3> DEFINE f == [e \in OsPaths |-> Value(c[e])]
    <3>4. \A e \in OsPaths : f[e] # Report!Nothing
      BY <1>1
    <3>5. OsPaths \subseteq EntryPaths /\ OsPaths # {}
      BY SoftwarePaths DEF EntryPaths
    <3> HIDE DEF f
    <3>6. Sets(SetSoftwareOS(fDevinfo, t, v), fDevinfo, OsPaths, f, Parts(OsRow))
      BY <3>3 DEF f
    <3>7. QED
      BY <3>1, <3>4, <3>5, <3>6, SoftwareAdds, SetsLosesNothing
  <2>6. CASE SetSscl
    <3>1. PICK t \in Values, v \in Values, s \in Values :
            Perform("set", SsclPaths, SetSoftwareSscl(fDevinfo, t, v, s))
      BY <2>6, ValuesAssumption DEF SetSscl
    <3>2. RowSets(SetSoftwareSscl(fDevinfo, t, v, s), fDevinfo, SsclPaths, SsclRow)
      BY SetSsclPuts
    <3>3. PICK c \in [SsclPaths -> Values] :
            Sets(SetSoftwareSscl(fDevinfo, t, v, s), fDevinfo, SsclPaths,
                 [e \in SsclPaths |-> Value(c[e])], Parts(SsclRow))
      BY <3>2 DEF RowSets
    <3> DEFINE f == [e \in SsclPaths |-> Value(c[e])]
    <3>4. \A e \in SsclPaths : f[e] # Report!Nothing
      BY <1>1
    <3>5. SsclPaths \subseteq EntryPaths /\ SsclPaths # {}
      BY SoftwarePaths DEF EntryPaths
    <3> HIDE DEF f
    <3>6. Sets(SetSoftwareSscl(fDevinfo, t, v, s), fDevinfo, SsclPaths, f,
              Parts(SsclRow))
      BY <3>3 DEF f
    <3>7. QED
      BY <3>1, <3>4, <3>5, <3>6, SoftwareAdds, SetsLosesNothing
  <2>7. QED
    BY <2>1, <2>2, <2>3, <2>4, <2>5, <2>6 DEF Next
<1>3. Spec => [][LosesNothing]_vars
  BY <1>2, TreeCorrect, PTL DEF Spec
<1>4. QED
  BY <1>3 DEF FailureLosesNothing, LosesNothing

-----------------------------------------------------------------------------
(* The refinement.                                                         *)

LEMMA ReportEntriesAre == Report!Entries = EntryPaths
BY RowParts DEF Report!Entries, EntryPaths

LEMMA AloneParts ==
  ASSUME NEW p
  PROVE  /\ Len(<<p>>) = 1 /\ Report!Members(<<p>>) = {p}
         /\ Parts(<<p>>) = Unset
<1>1. Len(<<p>>) = 1 /\ <<p>>[1] = p
  OBVIOUS
<1>2. Report!Members(<<p>>) = {p} /\ Report!Before(<<p>>, 1) = {}
  BY <1>1 DEF Report!Members, Report!Before
<1>3. 1 .. Len(<<p>>) = {1}
  BY <1>1
<1>4. QED
  BY <1>1, <1>2, <1>3 DEF Parts, Unset

\* The operations of the abstract table.
LEMMA PutStep ==
  ASSUME NEW op, NEW P, NEW err, NEW S, NEW c, NEW o,
         fDevinfo' = o.tree, last' = [op |-> op, about |-> P, err |-> o.err],
         Puts(o, fDevinfo, P, err, S, c)
  PROVE  Report!Put(op, P, err, S, c)
<1>1. Table(fDevinfo)' = Table(o.tree) /\ Closed(fDevinfo)' = Closed(o.tree)
  BY DEF Table, Closed, Found, Blocked
<1>2. last' = [op |-> op, about |-> P, err |-> err]
  BY DEF Puts
<1>3. Table(o.tree) =
        [e \in EntryPaths |-> IF e \in S THEN c[e] ELSE Table(fDevinfo)[e]]
  <2> DEFINE t == Table(o.tree)
             u == Table(fDevinfo)
  <2>1. t = [e \in EntryPaths |-> t[e]]
    BY DEF Table
  <2>2. \A e \in EntryPaths : t[e] = IF e \in S THEN c[e] ELSE u[e]
    BY DEF Puts
  <2> HIDE DEF t, u
  <2>3. t = [e \in EntryPaths |-> IF e \in S THEN c[e] ELSE u[e]]
    BY <2>1, <2>2
  <2>4. QED
    BY <2>3 DEF t, u
<1>4. QED
  BY <1>1, <1>2, <1>3, ReportEntriesAre DEF Puts, Report!Put

LEMMA RefuseStep ==
  ASSUME NEW op, NEW P, NEW c, Report!Put(op, P, "refused", {}, c)
  PROVE  Report!Refuse(op, P)
BY DEF Report!Put, Report!Refuse

LEMMA FailStep ==
  ASSUME NEW op, NEW P, NEW o,
         fDevinfo' = o.tree, last' = [op |-> op, about |-> P, err |-> o.err],
         Fails(o, fDevinfo)
  PROVE  Report!Fail(op, P)
<1>1. Table(fDevinfo)' = Table(fDevinfo) /\ Closed(fDevinfo)' = Closed(fDevinfo)
  BY DEF Fails, Table, Closed, Found, Blocked
<1>2. last' = [op |-> op, about |-> P, err |-> "inTheWay"]
  BY DEF Fails
<1>3. QED
  BY <1>1, <1>2 DEF Report!Fail

LEMMA SetsStep ==
  ASSUME NEW op, NEW P, NEW O, NEW c, NEW C,
         Perform(op, P, O), Sets(O, fDevinfo, P, c, C)
  PROVE  \/ Report!Put(op, P, "ok", P, c)
         \/ \E S \in C : Report!Put(op, P, "refused", S, c)
         \/ P \cap Closed(fDevinfo) # {} /\ Report!Fail(op, P)
<1>1. PICK o \in O : fDevinfo' = o.tree /\ last' = [op |-> op, about |-> P, err |-> o.err]
  BY DEF Perform
<1>2. CASE Puts(o, fDevinfo, P, "ok", P, c)
  BY <1>1, <1>2, PutStep
<1>3. ASSUME NEW S \in C, Puts(o, fDevinfo, P, "refused", S, c)
      PROVE  Report!Put(op, P, "refused", S, c)
  BY <1>1, <1>3, PutStep
<1>4. CASE Fails(o, fDevinfo) /\ P \cap Closed(fDevinfo) # {}
  BY <1>1, <1>4, FailStep
<1>5. QED
  BY <1>2, <1>3, <1>4 DEF Sets

\* A single entry is set, kept or extended, or nothing is.
LEMMA OneStep ==
  ASSUME NEW op, NEW p, NEW O, NEW c,
         Perform(op, {p}, O), Sets(O, fDevinfo, {p}, c, Unset)
  PROVE  \/ Report!Put(op, {p}, "ok", {p}, c)
         \/ Report!Refuse(op, {p})
         \/ p \in Closed(fDevinfo) /\ Report!Fail(op, {p})
<1>1. \/ Report!Put(op, {p}, "ok", {p}, c)
      \/ \E S \in Unset : Report!Put(op, {p}, "refused", S, c)
      \/ {p} \cap Closed(fDevinfo) # {} /\ Report!Fail(op, {p})
  BY SetsStep
<1>2. ASSUME NEW S \in Unset, Report!Put(op, {p}, "refused", S, c)
      PROVE  Report!Refuse(op, {p})
  BY <1>2, RefuseStep DEF Unset
<1>3. QED
  BY <1>1, <1>2

\* A row of entries is set.
LEMMA RowStep ==
  ASSUME NEW row, NEW P, P = Report!Members(row), NEW O, Perform("set", P, O),
         RowSets(O, fDevinfo, P, row)
  PROVE  Report!SetRow(row)
<1>0. PICK v \in [P -> Values] :
        Sets(O, fDevinfo, P, [e \in P |-> Value(v[e])], Parts(row))
  BY DEF RowSets
<1> DEFINE c == [e \in P |-> Report!Value(v[e])]
<1>1. [e \in P |-> Value(v[e])] = c
  BY DEF Value, Report!Value
<1>2. \/ Report!Put("set", P, "ok", P, c)
      \/ \E S \in Parts(row) : Report!Put("set", P, "refused", S, c)
      \/ P \cap Closed(fDevinfo) # {} /\ Report!Fail("set", P)
  <2> HIDE DEF c
  <2>1. Sets(O, fDevinfo, P, c, Parts(row))
    BY <1>0, <1>1
  <2>2. QED
    BY <2>1, SetsStep
<1>3. ASSUME NEW S \in Parts(row), Report!Put("set", P, "refused", S, c)
      PROVE  \E n \in 1 .. Len(row) :
               Report!Put("set", P, "refused", Report!Before(row, n), c)
  BY <1>3 DEF Parts
<1>4. QED
  BY <1>2, <1>3 DEF Report!SetRow

\* What a file makes of the table.
LEMMA LoadedTable ==
  ASSUME NEW d, WellFormedTree(d)
  PROVE  Report!Loaded(Table(d), Closed(d))
<1>1. Table(d) \in [Report!Entries -> Report!Contents]
  BY TableContents, ReportEntriesAre DEF Table
<1>2. ASSUME NEW p \in Closed(d) PROVE Table(d)[p] = Report!Nothing
  BY <1>2, TableContents, ClosedIsEmpty DEF Closed
<1>3. QED
  BY <1>1, <1>2, ReportEntriesAre DEF Report!Loaded, Closed

LEMMA ReportStep == TypeOK /\ [Next]_vars => [Report!Next]_(Report!vars)
<1> SUFFICES ASSUME TypeOK, [Next]_vars PROVE [Report!Next]_(Report!vars)
  OBVIOUS
<1>0. WellFormedTree(fDevinfo)
  BY DEF TypeOK
<1>1. CASE Load
  <2>1. WellFormedTree(fDevinfo')
    BY <1>1, EmptyIsTree, ConfigurationsAssumption DEF Load
  <2>2. Report!Loaded(Table(fDevinfo'), Closed(fDevinfo'))
    BY <2>1, LoadedTable
  <2>3. Table(fDevinfo)' = Table(fDevinfo') /\ Closed(fDevinfo)' = Closed(fDevinfo')
    BY DEF Table, Closed, Found, Blocked
  <2>4. Report!Load
    BY <1>1, <2>2, <2>3 DEF Load, Report!Load, Report!Fresh
  <2>5. QED
    BY <2>4 DEF Report!Next
<1>2. ASSUME NEW p \in ValuePaths, SetValue(p) PROVE Report!Next
  <2>1. PICK v \in Values : Perform("set", {p}, SetDevinfo(fDevinfo, p, Value(v)))
    BY <1>2, ValuesAssumption DEF SetValue
  <2>2. p \in EntryPaths
    BY DEF EntryPaths
  <2> DEFINE w == [e \in {p} |-> v]
             c == [e \in {p} |-> Value(w[e])]
  <2>3. c[p] = Value(v) /\ w \in [{p} -> Values]
    OBVIOUS
  <2>4. RowSets(SetDevinfo(fDevinfo, p, Value(v)), fDevinfo, {p}, <<p>>)
    <3> HIDE DEF c
    <3>1. Sets(SetDevinfo(fDevinfo, p, Value(v)), fDevinfo, {p}, c, Unset)
      BY <2>2, <2>3, SetDevinfoSets
    <3>2. Sets(SetDevinfo(fDevinfo, p, Value(v)), fDevinfo, {p}, c, Parts(<<p>>))
      BY <3>1, AloneParts
    <3> HIDE DEF w
    <3>3. QED
      BY <2>3, <3>2 DEF RowSets, c
  <2>5. Report!SetRow(<<p>>)
    BY <2>1, <2>4, AloneParts, RowStep
  <2>6. QED
    BY <2>5 DEF Report!Next
<1>3. ASSUME NEW p \in ValuePaths, KeepOrBlank(p) PROVE Report!Next
  <2>1. Perform("keepOrBlank", {p}, SetMissing(fDevinfo, p)) /\ p \in EntryPaths
    BY <1>3 DEF KeepOrBlank, EntryPaths
  <2>2. Sets(SetMissing(fDevinfo, p), fDevinfo, {p},
             [f \in {p} |-> Report!Present(Table(fDevinfo)[p])], Unset)
    BY <1>0, <2>1, SetMissingPuts
  <2>3. Report!KeepOrBlank(p)
    BY <2>1, <2>2, OneStep DEF Report!KeepOrBlank
  <2>4. QED
    BY <2>3 DEF Report!Next
<1>4. ASSUME NEW p \in ListPaths, Add(p) PROVE Report!Next
  <2>1. PICK v \in Values : Perform("add", {p}, AddToList(fDevinfo, p, v))
    BY <1>4, ValuesAssumption DEF Add
  <2>2. p \in EntryPaths
    BY DEF EntryPaths
  <2> DEFINE c == [f \in {p} |-> Report!Extended(Table(fDevinfo)[p], v)]
  <2>3. ASSUME Table(fDevinfo)[p].type \in {"none", "list"},
               Sets(AddToList(fDevinfo, p, v), fDevinfo, {p}, c, Unset)
        PROVE  Report!Add(p)
    <3>1. \/ Report!Put("add", {p}, "ok", {p}, c)
          \/ Report!Refuse("add", {p})
          \/ p \in Closed(fDevinfo) /\ Report!Fail("add", {p})
      <4> HIDE DEF c
      <4>1. QED
        BY <2>1, <2>3, OneStep
    <3>2. QED
      BY <2>3, <3>1 DEF Report!Add
  <2>4. ASSUME Table(fDevinfo)[p].type \notin {"none", "list"},
               \A o \in AddToList(fDevinfo, p, v) : Fails(o, fDevinfo)
        PROVE  Report!Add(p)
    <3>1. Report!Fail("add", {p})
      BY <2>1, <2>4, FailStep DEF Perform
    <3>2. QED
      BY <2>4, <3>1 DEF Report!Add
  <2>5. Report!Add(p)
    <3> HIDE DEF c
    <3>1. \/ /\ Table(fDevinfo)[p].type \in {"none", "list"}
             /\ Sets(AddToList(fDevinfo, p, v), fDevinfo, {p}, c, Unset)
          \/ /\ Table(fDevinfo)[p].type \notin {"none", "list"}
             /\ \A o \in AddToList(fDevinfo, p, v) : Fails(o, fDevinfo)
      BY <1>0, <2>2, AddToListPuts DEF c
    <3>2. QED
      BY <2>3, <2>4, <3>1
  <2>6. QED
    BY <2>5 DEF Report!Next
<1>5. CASE SetOS
  <2>1. PICK t \in Values, v \in Values :
          Perform("set", OsPaths, SetSoftwareOS(fDevinfo, t, v))
    BY <1>5, ValuesAssumption DEF SetOS
  <2>2. RowSets(SetSoftwareOS(fDevinfo, t, v), fDevinfo, OsPaths, OsRow)
    BY SetOSPuts
  <2>3. Report!SetRow(OsRow)
    BY <2>1, <2>2, RowParts, RowStep
  <2>4. QED
    BY <2>3 DEF Report!Next
<1>6. CASE SetSscl
  <2>1. PICK t \in Values, v \in Values, s \in Values :
          Perform("set", SsclPaths, SetSoftwareSscl(fDevinfo, t, v, s))
    BY <1>6, ValuesAssumption DEF SetSscl
  <2>2. RowSets(SetSoftwareSscl(fDevinfo, t, v, s), fDevinfo, SsclPaths, SsclRow)
    BY SetSsclPuts
  <2>3. Report!SetRow(SsclRow)
    BY <2>1, <2>2, RowParts, RowStep
  <2>4. QED
    BY <2>3 DEF Report!Next
<1>7. CASE UNCHANGED vars
  <2>1. UNCHANGED <<Table(fDevinfo), Closed(fDevinfo), last>>
    BY <1>7 DEF vars, Table, Closed, Found, Blocked
  <2>2. QED
    BY <2>1 DEF Report!vars
<1>8. QED
  BY <1>1, <1>2, <1>3, <1>4, <1>5, <1>6, <1>7 DEF Next

\* The tree implements the table of entries: whatever the configuration file
\* holds and wherever the runtime refuses, an operation changes the entries it
\* is about and no others, those of the OS and of the client in their order up
\* to the first refusal, and it fails for no other reason than a refusal or
\* something that the file has put in its way, which only another file removes.
THEOREM RepositoryImplementsReport == Spec => ReportSpec
<1>1. Init => Report!Init
  <2> SUFFICES ASSUME Init PROVE Report!Init
    OBVIOUS
  <2>1. WellFormedTree(fDevinfo)
    BY EmptyIsTree, ConfigurationsAssumption DEF Init
  <2>2. QED
    BY <2>1, LoadedTable DEF Init, Report!Init, Report!Fresh
<1>2. QED
  BY <1>1, ReportStep, TreeCorrect, PTL DEF Spec, ReportSpec, Report!Spec

=============================================================================
