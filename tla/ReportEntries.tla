---------------------------- MODULE ReportEntries ----------------------------
(***************************************************************************)
(* What the repository promises to those who fill it: the report is a table*)
(* of entries that do not depend on each other.  Some are set alone, some  *)
(* in a row, and some are lists.  The configuration file gives some of     *)
(* them a content, and may make some unusable; an unusable entry is empty  *)
(* and an operation on it fails without any effect, until the next file is *)
(* loaded.  An operation on a usable entry succeeds, unless it would add   *)
(* to something that is no list, or is refused: then a row is set up to    *)
(* the entry that was refused, and nothing else is changed.                *)
(***************************************************************************)
EXTENDS Naturals, Sequences

CONSTANTS
  Alone,     \* entries that are set one at a time
  Together,  \* rows (sequences) of entries that are set by one operation
  Lists,     \* entries that are appended to
  Values,    \* values that are neither an object nor a list
  Blank      \* the empty string

VARIABLES
  entries,   \* the content of each entry
  unusable,  \* entries that the configuration file has made unusable
  last       \* the last operation, the entries it was about, what it returned

vars == <<entries, unusable, last>>

\* The entries of a row before place n.
Before(row, n) == {row[k] : k \in 1 .. n - 1}
Members(row) == Before(row, Len(row) + 1)

Entries == Alone \cup Lists \cup UNION {Members(row) : row \in Together}

Nothing == [type |-> "none"]
Value(v) == [type |-> "value", value |-> v]
List(s) == [type |-> "list", entries |-> s]

Contents == {Nothing, [type |-> "object"]} \cup [type : {"value"}, value : Values]
              \cup [type : {"list"}, entries : Seq(Values)]

\* What a configuration file can make of the entries.
Loaded(content, closed) ==
  /\ content \in [Entries -> Contents]
  /\ closed \subseteq Entries
  /\ \A e \in closed : content[e] = Nothing

Fresh == [op |-> "load", about |-> {}, err |-> "ok"]

Init == Loaded(entries, unusable) /\ last = Fresh

Load == Loaded(entries', unusable') /\ last' = Fresh

\* An operation about the entries in group, all usable: the entries of g get the
\* contents that the function c gives them.
Put(op, group, err, g, c) ==
  /\ group \cap unusable = {}
  /\ entries' = [e \in Entries |-> IF e \in g THEN c[e] ELSE entries[e]]
  /\ last' = [op |-> op, about |-> group, err |-> err]
  /\ UNCHANGED unusable

\* The operation is refused before it has changed anything.
Refuse(op, group) == Put(op, group, "refused", {}, entries)

Fail(op, group) ==
  /\ last' = [op |-> op, about |-> group, err |-> "inTheWay"]
  /\ UNCHANGED <<entries, unusable>>

SetRow(row) ==
  LET g == Members(row) IN
  \/ \E v \in [g -> Values] :
       LET c == [e \in g |-> Value(v[e])] IN
       \/ Put("set", g, "ok", g, c)
       \/ \E n \in 1 .. Len(row) : Put("set", g, "refused", Before(row, n), c)
  \/ g \cap unusable # {} /\ Fail("set", g)

\* The device has no source for the entry: what is there stays.
Present(content) == IF content = Nothing THEN Value(Blank) ELSE content

KeepOrBlank(e) ==
  \/ Put("keepOrBlank", {e}, "ok", {e}, [f \in {e} |-> Present(entries[e])])
  \/ Refuse("keepOrBlank", {e})
  \/ e \in unusable /\ Fail("keepOrBlank", {e})

\* A list that is there but empty stays empty.
Extended(content, v) ==
  CASE content = Nothing  -> List(<<v>>)
    [] content = List(<<>>) -> content
    [] OTHER -> List(Append(content.entries, v))

Add(e) ==
  \/ /\ entries[e].type \in {"none", "list"}
     /\ \/ Refuse("add", {e})
        \/ \E v \in Values :
             Put("add", {e}, "ok", {e}, [f \in {e} |-> Extended(entries[e], v)])
  \/ (e \in unusable \/ entries[e].type \notin {"none", "list"}) /\ Fail("add", {e})

Next ==
  \/ Load
  \/ \E e \in Alone : SetRow(<<e>>) \/ KeepOrBlank(e)
  \/ \E row \in Together : SetRow(row)
  \/ \E e \in Lists : Add(e)

Spec == Init /\ [][Next]_vars

=============================================================================
