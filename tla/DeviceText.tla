----------------------------- MODULE DeviceText -----------------------------
(***************************************************************************)
(* How the getters take a value out of a text file of the device.          *)
(*                                                                         *)
(* "proc": one line is read into a fixed buffer and cut at its line end    *)
(* (DMI files, OS type and version).  "firmware": as "proc", and then the  *)
(* first word after the first character is taken (Armadillo-IoT).          *)
(* "cpuinfo": lines are read until one has the key, and the text behind    *)
(* its colon is taken.  "sim": the three numbers are picked out of the     *)
(* lines at fixed places (OpenBlocks IoT).                                 *)
(*                                                                         *)
(* Buffers are memory, indexed from 0: a byte that the getter has not      *)
(* written is Junk, and looked is the furthest byte it has looked at.      *)
(***************************************************************************)
EXTENDS Integers, Sequences

CONSTANTS
  Char,                                   \* what a text consists of
  LineFeed, CarriageReturn, Space, Colon, \* some of the characters
  Nul,        \* the end of a string
  Junk,       \* a byte that was never written
  Size,       \* size of the buffer that a line is read into
  MaxSize,    \* largest value of an unsigned sse_size
  Key,        \* key that is looked for in cpuinfo
  ImsiWidth,  \* digits of an IMSI (15 in the code)
  CcidKey,    \* "+CCID:"
  CcidWidth,  \* digits taken behind it (19)
  CnumKey,    \* "+CNUM:"
  CnumOffset, \* place of the phone number in its line (11)
  CnumWidth,  \* digits taken there (11)
  NoText,     \* no value
  Files       \* the texts that each source may hold, as sequences of lines
              \* ("sim": of the pieces that fgets hands out)

LineEnds == {CarriageReturn, LineFeed}
Bytes == Char \cup {Nul, Junk}
Sources == {"proc", "firmware", "cpuinfo", "sim"}

\* A line ends at its line feed; the last line of a text may have none.
Lines == {l \in Seq(Char) :
            l # <<>> /\ \A i \in 1 .. Len(l) - 1 : l[i] # LineFeed}

StartsWith(line, key) ==
  Len(line) > Len(key) /\ SubSeq(line, 1, Len(key)) = key

ASSUME CharAssumption ==
  /\ {LineFeed, CarriageReturn, Space, Colon} \subseteq Char
  /\ Space \notin LineEnds
  /\ Nul \notin Char /\ Junk \notin Char /\ Nul # Junk
  /\ NoText \notin Seq(Char \cup {Junk})
ASSUME SizeAssumption == Size \in Nat \ {0, 1} /\ MaxSize \in Nat
ASSUME KeysAssumption ==
  /\ {Key, CcidKey, CnumKey} \subseteq Seq(Char)
  /\ \E i \in 1 .. Len(CcidKey) \cap 1 .. Len(CnumKey) : CcidKey[i] # CnumKey[i]
\* The places are in the buffer, if not in every line.
ASSUME PlacesAssumption ==
  /\ {ImsiWidth, CcidWidth, CnumWidth, CnumOffset} \subseteq Nat \ {0}
  /\ ImsiWidth <= Size
  /\ Len(CcidKey) + 1 + CcidWidth <= Size
  /\ CnumOffset + CnumWidth <= Size
ASSUME FilesAssumption ==
  \A s \in Sources : Files[s] \subseteq Seq(Lines)

\* The kernel's version begins with "#" and a word.
ASSUME VersionAssumption ==
  \A f \in Files["firmware"] : \A i \in 1 .. Len(f) :
    Space \notin {f[i][j] : j \in 1 .. Len(f[i]) \cap 1 .. 2}

\* A piece fits into the buffer, and fills it if the line goes on.
ASSUME PiecesAssumption ==
  \A f \in Files["sim"] : \A i \in 1 .. Len(f) :
    /\ Len(f[i]) < Size
    /\ i < Len(f) /\ f[i][Len(f[i])] # LineFeed => Len(f[i]) = Size - 1

VARIABLES
  source,  \* the kind of file
  lines,   \* the text
  unread,  \* the lines that have not been read
  buff,    \* the buffer
  end,     \* where the line in the buffer was terminated when it was read
  looked,  \* furthest byte of the buffer looked at since then
  p,       \* the pointer of the loop that cuts line ends
  pc,      \* where the getter is
  report,  \* the values it has found
  code     \* the code it hands over

vars == <<source, lines, unread, buff, end, looked, p, pc, report, code>>

Fields == {"text", "imsi", "iccid", "msisdn"}
NoReport == [f \in Fields |-> NoText]

TypeOK ==
  /\ source \in Sources
  /\ lines \in Seq(Lines) /\ unread \in Seq(Lines)
  /\ end \in Nat /\ looked \in Nat /\ p \in Nat
  /\ \A i \in DOMAIN buff : buff[i] \in Bytes
  /\ pc \in {"open", "strip", "extract", "search", "modem", "done", "dead"}
  /\ report \in [Fields -> Seq(Char \cup {Junk}) \cup {NoText}]
  /\ \A f \in Fields \ {"msisdn"} : report[f] \in Seq(Char) \cup {NoText}
  /\ code \in {"none", "ok", "noent", "acces", "error", "undefined"}

Init ==
  /\ source \in Sources
  /\ lines \in Files[source]
  /\ unread = lines
  /\ buff = [i \in 0 .. Size - 1 |-> Junk]
  /\ end = 0 /\ looked = 0 /\ p = 0
  /\ pc = "open"
  /\ report = NoReport
  /\ code = "none"

-----------------------------------------------------------------------------
(* Strings in memory.                                                      *)

\* The buffer after the string s was copied to its beginning.
Fill(b, s) ==
  [i \in DOMAIN b |->
     IF i < Len(s) THEN s[i + 1] ELSE IF i = Len(s) THEN Nul ELSE b[i]]

\* n bytes of the buffer from i on.
Slice(b, i, n) == [k \in 1 .. n |-> b[i + k - 1]]

\* The string that begins at i.
StringEnd(b, i) ==
  CHOOSE j \in DOMAIN b : /\ j >= i /\ b[j] = Nul
                          /\ \A k \in i .. j - 1 : b[k] # Nul
StringAt(b, i) == Slice(b, i, StringEnd(b, i) - i)

\* The lengths that a copy of at most n characters from i on may have: it ends at
\* a terminator, and an unwritten byte may be one.
CopyLengths(b, i, n) ==
  { m \in 0 .. n : /\ \A k \in 0 .. m - 1 : b[i + k] # Nul
                   /\ m < n => b[i + m] \in {Nul, Junk} }

\* At most n characters of a string, which a copy does not go behind the end of.
Upto(s, n) == SubSeq(s, 1, IF n < Len(s) THEN n ELSE Len(s))

\* Place of the first c in the string s, counted from 1.
Place(s, c) ==
  CHOOSE i \in 1 .. Len(s) : s[i] = c /\ \A j \in 1 .. i - 1 : s[j] # c
Occurs(s, c) == \E i \in 1 .. Len(s) : s[i] = c

Finish(c) == pc' = "done" /\ code' = c

-----------------------------------------------------------------------------
(* "proc" and "firmware".                                                  *)

\* The file cannot be opened, or nothing can be read from it; a missing file of
\* the SIM says that there is no SIM.
CannotRead ==
  /\ pc = "open"
  /\ Finish(IF source = "sim" THEN "noent" ELSE "acces")
  /\ UNCHANGED <<source, lines, unread, buff, end, looked, p, report>>

\* A line, as much of it as fits.
ReadLine ==
  /\ pc = "open"
  /\ source \in {"proc", "firmware"}
  /\ unread # <<>>
  /\ LET taken == Upto(Head(unread), Size - 1) IN
       /\ buff' = Fill(buff, taken)
       /\ end' = Len(taken)
  /\ looked' = 0
  /\ p' = 0
  /\ pc' = "strip"
  /\ UNCHANGED <<source, lines, unread, report, code>>

\* Mutant: only line feeds are cut.
StripLineFeed ==
  /\ pc = "strip"
  /\ buff[p] # Nul
  /\ p' = p + 1
  /\ looked' = p + 1
  /\ buff' = IF buff[p + 1] = LineFeed
             THEN [buff EXCEPT ![p + 1] = Nul] ELSE buff
  /\ UNCHANGED <<source, lines, unread, end, pc, report, code>>

\* A turn of the loop: the byte behind the one that was tested is cut.
Strip ==
  /\ pc = "strip"
  /\ buff[p] # Nul
  /\ p' = p + 1
  /\ looked' = p + 1
  /\ buff' = IF buff[p + 1] \in LineEnds
             THEN [buff EXCEPT ![p + 1] = Nul] ELSE buff
  /\ UNCHANGED <<source, lines, unread, end, pc, report, code>>

StripEnds ==
  /\ pc = "strip"
  /\ buff[p] = Nul
  /\ p' = p + 1
  /\ pc' = "extract"
  /\ UNCHANGED <<source, lines, unread, buff, end, looked, report, code>>

\* Mutant: the terminator is taken too.
ExtractLineTerminated ==
  /\ pc = "extract"
  /\ source = "proc"
  /\ report' = [report EXCEPT !["text"] = Slice(buff, 0, StringEnd(buff, 0) + 1)]
  /\ Finish("ok")
  /\ UNCHANGED <<source, lines, unread, buff, end, looked, p>>

ExtractLine ==
  /\ pc = "extract"
  /\ source = "proc"
  /\ report' = [report EXCEPT !["text"] = StringAt(buff, 0)]
  /\ Finish("ok")
  /\ UNCHANGED <<source, lines, unread, buff, end, looked, p>>

\* Mutant: the length is that of the word and the character before it.
VersionLengthOne(s) == IF Occurs(s, Space) THEN Place(s, Space) - 1 ELSE 0

\* Length of the word between the first character and the first space; 0, which
\* asks for the whole string, if there is no space.
VersionLength(s) == IF Occurs(s, Space) THEN Place(s, Space) - 2 ELSE 0

ExtractVersion ==
  /\ pc = "extract"
  /\ source = "firmware"
  /\ LET length == VersionLength(StringAt(buff, 0)) IN
       report' = [report EXCEPT !["text"] =
                    IF length = 0 THEN StringAt(buff, 1)
                    ELSE Slice(buff, 1, length)]
  /\ Finish("ok")
  /\ UNCHANGED <<source, lines, unread, buff, end, looked, p>>

-----------------------------------------------------------------------------
(* "cpuinfo".                                                              *)

OpenCpuInfo ==
  /\ pc = "open"
  /\ source = "cpuinfo"
  /\ pc' = "search"
  /\ UNCHANGED <<source, lines, unread, buff, end, looked, p, report, code>>

\* getline: the buffer is as large as the line needs.
GetLine ==
  /\ pc = "search"
  /\ unread # <<>>
  /\ unread' = Tail(unread)
  /\ end' = Len(Head(unread))
  /\ buff' = Fill([i \in 0 .. Len(Head(unread)) |-> Junk], Head(unread))
  /\ UNCHANGED <<source, lines, p>>

Searched == Head(unread)

\* Mutant: the line may end at the colon.
HasValueUnguarded(line) == Occurs(line, Colon)

\* Behind the colon there is room for one more character.
HasValue(line) == Occurs(line, Colon) /\ Len(line) >= Place(line, Colon) + 1

SkipLine ==
  /\ GetLine
  /\ ~StartsWith(Searched, Key)
  /\ looked' = 0
  /\ UNCHANGED <<pc, report, code>>

\* Logged with "%s" and no argument: the program may end here.
NoValue ==
  /\ GetLine
  /\ StartsWith(Searched, Key)
  /\ ~HasValue(Searched)
  /\ looked' = end'
  /\ \/ Finish("noent")
     \/ pc' = "dead" /\ UNCHANGED code
  /\ UNCHANGED report

\* Mutant: the line end stays.
TakenWithLineEnd(s) == s

\* A number as an unsigned size: -1 is the largest one.
AsSize(n) == IF n < 0 THEN MaxSize + 1 + n ELSE n

\* The value without the last character, the line end.  Behind the end of a line
\* there is nothing, and the length asked for is not negative but MaxSize.
Taken(s) == Upto(s, AsSize(Len(s) - 1))

\* The value begins one character behind the colon.
TakeValue ==
  /\ GetLine
  /\ StartsWith(Searched, Key)
  /\ HasValue(Searched)
  /\ LET from == Place(Searched, Colon) + 1 IN
       /\ looked' = IF from > end' THEN from ELSE end'
       /\ report' = [report EXCEPT !["text"] =
                       Taken(SubSeq(Searched, from + 1, Len(Searched)))]
  /\ Finish("ok")

SearchEnds ==
  /\ pc = "search"
  /\ unread = <<>>
  /\ Finish("noent")
  /\ UNCHANGED <<source, lines, unread, buff, end, looked, p, report>>

-----------------------------------------------------------------------------
(* "sim".                                                                  *)

OpenModem ==
  /\ pc = "open"
  /\ source = "sim"
  /\ pc' = "modem"
  /\ UNCHANGED <<source, lines, unread, buff, end, looked, p, report, code>>

IsImsi(s) == report["imsi"] = NoText /\ Len(s) > ImsiWidth

\* Mutant: a later line replaces an earlier one.
IsIccidAgain(s) == ~IsImsi(s) /\ StartsWith(s, CcidKey)

IsIccid(s) == ~IsImsi(s) /\ report["iccid"] = NoText /\ StartsWith(s, CcidKey)

IsMsisdn(s) ==
  /\ ~IsImsi(s) /\ ~IsIccid(s)
  /\ report["msisdn"] = NoText /\ StartsWith(s, CnumKey)

ReadModemLine ==
  /\ pc = "modem"
  /\ unread # <<>>
  /\ unread' = Tail(unread)
  /\ buff' = Fill(buff, Head(unread))
  /\ end' = Len(Head(unread))
  /\ UNCHANGED <<source, lines, p, code>>

\* The number of at most width characters at the offset is kept.  If the line is
\* over before, the buffer is read as it was left by other lines.
Keep(field, offset, width) ==
  \E n \in CopyLengths(buff', offset, width) :
    LET last == offset + IF n < width THEN n ELSE width - 1 IN
      /\ report' = [report EXCEPT ![field] = Slice(buff', offset, n)]
      /\ looked' = IF last > end' THEN last ELSE end'

\* The first line that is long enough, whatever it holds.  It is logged with a
\* conversion that does not exist ("%["): the program may end here.
TakeImsi ==
  /\ ReadModemLine
  /\ IsImsi(Head(unread))
  /\ Keep("imsi", 0, ImsiWidth)
  /\ pc' \in {"modem", "dead"}

TakeIccid ==
  /\ ReadModemLine
  /\ UNCHANGED pc
  /\ IsIccid(Head(unread))
  /\ Keep("iccid", Len(CcidKey) + 1, CcidWidth)

TakeMsisdn ==
  /\ ReadModemLine
  /\ UNCHANGED pc
  /\ IsMsisdn(Head(unread))
  /\ Keep("msisdn", CnumOffset, CnumWidth)

PassOver ==
  /\ ReadModemLine
  /\ ~IsImsi(Head(unread)) /\ ~IsIccid(Head(unread)) /\ ~IsMsisdn(Head(unread))
  /\ looked' = end'
  /\ UNCHANGED <<pc, report>>

\* Mutant: the code is that of adding the IMSI.
ModemCodesOfImsi == IF report["imsi"] = NoText THEN {"undefined"} ELSE {"ok", "error"}

\* The code is that of the last number that was added to the object; with no
\* number it is the value of an uninitialized variable.
ModemCodes == IF report = NoReport THEN {"undefined"} ELSE {"ok", "error"}

ModemEnds ==
  /\ pc = "modem"
  /\ unread = <<>>
  /\ \E c \in ModemCodes : Finish(c)
  /\ UNCHANGED <<source, lines, unread, buff, end, looked, p, report>>

-----------------------------------------------------------------------------

Next ==
  \/ CannotRead
  \/ ReadLine \/ Strip \/ StripEnds \/ ExtractLine \/ ExtractVersion
  \/ OpenCpuInfo \/ SkipLine \/ NoValue \/ TakeValue \/ SearchEnds
  \/ OpenModem \/ TakeImsi \/ TakeIccid \/ TakeMsisdn \/ PassOver \/ ModemEnds

Spec == Init /\ [][Next]_vars

-----------------------------------------------------------------------------
(* Properties.                                                             *)

\* Once a line has been put into the buffer, the getter looks at nothing
\* behind the place where the line was terminated (DEVINFOCollector_ReadProc,
\* whose loop tests one byte and looks at the next; the text behind the colon in
\* DEVINFOCollector_FindEntryFromCpuInfo; the fixed places of the SIM's lines),
\* with one exception: the phone number of a "+CNUM:" line that is over before
\* the place of the number.  Then, too, it stays in the buffer.
LooksInLine ==
  /\ looked \in DOMAIN buff
  /\ looked > end => /\ source = "sim" /\ end < CnumOffset
                     /\ StartsWith(StringAt(buff, 0), CnumKey)

\* As much of the first line as fits into the buffer.
FirstLine == Upto(lines[1], Size - 1)

\* The value of a "proc" file is the first line up to its line end, or up to
\* the size of the buffer; a line end can only be left as its first character.
StripsLine ==
  source = "proc" /\ code = "ok" =>
    LET value == report["text"]
        n     == Len(value)
    IN  /\ n <= Len(FirstLine)
        /\ \A i \in 1 .. n : value[i] = FirstLine[i]
        /\ \A i \in 2 .. n : value[i] \notin LineEnds
        /\ n < Len(FirstLine) => n > 0 /\ FirstLine[n + 1] \in LineEnds

\* The firmware version is the first word of the first line without its first
\* character, "SS-Trial_1.1.0" of "#SS-Trial_1.1.0 PREEMPT ...": it ends where
\* a space, the line end or the buffer ends it, and holds none of them.
FirmwareIsFirstWord ==
  source = "firmware" /\ code = "ok" =>
    LET value == report["text"]
        n     == Len(value)
    IN  /\ n < Len(FirstLine)
        /\ \A i \in 1 .. n : /\ value[i] = FirstLine[i + 1]
                             /\ value[i] \notin LineEnds \cup {Space}
        /\ n + 1 < Len(FirstLine) => FirstLine[n + 2] \in LineEnds \cup {Space}

\* The first line that has the key.
Entry(i) ==
  /\ StartsWith(lines[i], Key)
  /\ \A j \in 1 .. i - 1 : ~StartsWith(lines[j], Key)

\* "<key>...: <value>", with its line end.
WellFormed(line) ==
  /\ HasValue(line)
  /\ line[Place(line, Colon) + 1] = Space
  /\ Len(line) > Place(line, Colon) + 1 /\ line[Len(line)] = LineFeed

\* A search of cpuinfo that is over has found the first entry with the key, if
\* that is printed the way the kernel does, and its value is what stands
\* between ": " and the line end.  An entry that is over one character behind the
\* colon has the empty value, and nothing is found without an entry.
EntryIsRead ==
  source = "cpuinfo" /\ pc = "done" /\ code # "acces" =>
    /\ \A i \in 1 .. Len(lines) :
         Entry(i) /\ WellFormed(lines[i]) =>
           /\ code = "ok"
           /\ lines[i] = SubSeq(lines[i], 1, Place(lines[i], Colon))
                           \o <<Space>> \o report["text"] \o <<LineFeed>>
    /\ \A i \in 1 .. Len(lines) :
         Entry(i) /\ HasValue(lines[i])
           /\ Len(lines[i]) = Place(lines[i], Colon) + 1 =>
             code = "ok" /\ report["text"] = <<>>
    /\ code = "ok" => \E i \in 1 .. Len(lines) : Entry(i)

\* No line with another number comes before the IMSI and is as long as one.
ImsiComesFirst ==
  \A i \in 1 .. Len(lines) :
    /\ Len(lines[i]) > ImsiWidth
    /\ StartsWith(lines[i], CcidKey) \/ StartsWith(lines[i], CnumKey)
    => \E j \in 1 .. i - 1 : Len(lines[j]) > ImsiWidth

FirstWith(key, i) ==
  /\ StartsWith(lines[i], key)
  /\ \A j \in 1 .. i - 1 : ~StartsWith(lines[j], key)

\* If the IMSI comes first, the numbers of the SIM are told apart: each is read
\* from the first line of its kind, whatever comes before, between and after,
\* and is missing only if there is no such line; a phone number is what the line
\* holds only if the line is not over before its place (TDEVINFOCollector_GetHardwareSim
\* of OpenBlocks IoT takes the first long line for the IMSI without a check).
SimNumbersAreOwn ==
  source = "sim" /\ code \in {"ok", "error"} /\ ImsiComesFirst =>
    \A i \in 1 .. Len(lines) :
      /\ FirstWith(CcidKey, i) =>
           report["iccid"] = Upto(SubSeq(lines[i], Len(CcidKey) + 2, Len(lines[i])),
                                  CcidWidth)
      /\ FirstWith(CnumKey, i) /\ CnumOffset <= Len(lines[i]) =>
           report["msisdn"] = Upto(SubSeq(lines[i], CnumOffset + 1, Len(lines[i])),
                                   CnumWidth)
      /\ report["imsi"] # NoText => ~StartsWith(report["imsi"], CcidKey)

\* The getter hands over an error code that was never set only if the file
\* holds none of the three numbers.
SimCodeDefined ==
  code = "undefined" =>
    \A i \in 1 .. Len(lines) :
      /\ Len(lines[i]) <= ImsiWidth
      /\ ~StartsWith(lines[i], CcidKey) /\ ~StartsWith(lines[i], CnumKey)

\* "Strip CRLF": a value holds no line end.
OneLine ==
  source = "proc" /\ code = "ok" =>
    \A i \in 1 .. Len(report["text"]) : report["text"][i] \notin LineEnds

=============================================================================
