---------------------------- MODULE MCDeviceText ----------------------------
(***************************************************************************)
(* Texts for TLC: every short line, lines longer than the buffer, cpuinfo  *)
(* files with and without well-formed entries, and every order of the      *)
(* kinds of lines that the modem may have left in the SIM's file.          *)
(***************************************************************************)
EXTENDS ResolvConf, FiniteSets

LOCAL INSTANCE SequencesExt

TextChars == {"x", "y", " ", ":", "k", "m", "C", "N", "1", "2", "r", "n"}

\* Lines of at most n of the characters, ended or not.
Body(cs, n) == UNION {[1 .. k -> cs] : k \in 0 .. n}
Ended(bodies) ==
  {b \o <<"n">> : b \in bodies} \cup {b \o <<"r", "n">> : b \in bodies}
    \cup (bodies \ {<<>>})

ProcFiles ==
  {<<l>> : l \in Ended(Body({"x", "y", " ", "r"}, 3))
                   \cup Ended([1 .. 5 -> {"x", " "}] \cup [1 .. 6 -> {"x"}])}
    \cup {<<<<"n">>, <<"x", "n">>>>, <<>>}

VersionFiles ==
  {<<l>> : l \in Ended({<<"x", "y">> \o b : b \in Body({"x", " "}, 4)})
                   \cup {<<"n">>, <<"x">>, <<"x", "n">>, <<"x", "r", "n">>}}

CpuLines ==
  {<<"k", ":", " ", "n">>, <<"k", ":", " ", "x", "n">>, <<"k", "m", ":", " ", "y", "n">>,
   <<"k", ":", " ", "x", " ", ":", "n">>, <<"k", ":", "n">>, <<"k", "x", "n">>, <<"k", "n">>,
   <<"m", ":", " ", "y", "n">>, <<"n">>}
LastCpuLines == {<<"k", ":">>, <<"k">>, <<"k", ":", " ">>, <<"k", ":", " ", "x">>}
CpuFiles ==
  LET files == UNION {[1 .. k -> CpuLines] : k \in 0 .. 3}
  IN  files \cup {f \o <<l>> : f \in {g \in files : Len(g) < 3}, l \in LastCpuLines}

\* Lines with the numbers at their places, with none, too short for the number
\* (also behind longer lines), and too long for the buffer.
SimLines ==
  {<<"1", "2", "1", "n">>, <<"2", "2", "2", "2", "n">>, <<"C", " ", "1", "2", "n">>,
   <<"C", " ", "2", "1", "1", "n">>, <<"C", "n">>, <<"N", " ", " ", "1", "n">>,
   <<"N", " ", " ", "2", "2", "n">>, <<"N", "n">>, <<"x", "n">>,
   <<"N", " ", " ", "1", "2", "1", "C", "2", "n">>,
   <<"1", "2", "1", "2", "1", "1", "N", "n">>}
LastSimLines == {<<>>, <<"C", " ", "1">>, <<"N">>, <<"N", " ">>}

\* A line as fgets hands it out.
PiecesOf(line) ==
  IF line = <<>> THEN <<>>
  ELSE IF Len(line) < Size THEN <<line>>
  ELSE <<SubSeq(line, 1, Size - 1), SubSeq(line, Size, Len(line))>>

SimFiles ==
  LET files == UNION {[1 .. k -> SimLines] : k \in 0 .. 3}
      all(f, l) == FlattenSeq([i \in DOMAIN f |-> PiecesOf(f[i])]) \o PiecesOf(l)
  IN  {all(f, l) : f \in files, l \in LastSimLines}

TextFiles ==
  [proc |-> ProcFiles, firmware |-> VersionFiles, cpuinfo |-> CpuFiles,
   sim |-> SimFiles]

KeyName == <<"k">>
CcidName == <<"C">>
CnumName == <<"N">>
NameserverName == <<"k", "m">>

Addresses == Body({"1", " ", "k"}, 3)
ResolvLines == Body({"k", "m", " ", "1"}, 6)

\* Addresses are read as they stand, blanks included (GetHardwareNetworkNameserver's
\* read callback cuts at the first space only).
ASSUME AddressesAreRead == \A a \in Addresses : AddressIsRead(a)

\* No line without the key is reported.
ASSUME OnlyKeysAreRead == \A l \in ResolvLines : OnlyKeyIsRead(l)

\* A file's name servers are reported in its order.
ASSUME NameserversInOrder ==
  Nameservers(<< <<"k", "m", " ", "1">>, <<"x">>, <<"k", "m">>, <<"k", "m", " ">>,
                 <<"k", "m", " ", "2">> >>) = << <<"1">>, <<"2">> >>
=============================================================================
