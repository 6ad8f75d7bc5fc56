-------------------------- MODULE DeviceText_proofs --------------------------
(***************************************************************************)
(* What holds of the getters for every text and every size of the buffer:  *)
(* nothing is looked at behind the line but for a phone number that is not *)
(* in its line, and the values are what the properties of DeviceText say   *)
(* they are.                                                               *)
(***************************************************************************)
EXTENDS DeviceText, SequenceTheorems, FiniteSetTheorems, WellFoundedInduction,
        TLAPS

(* Strings and memory. *)

\* The first n characters of a string.
LEMMA UptoFacts ==
  ASSUME NEW S, NEW s \in Seq(S), NEW n \in Int
  PROVE  /\ Upto(s, n) \in Seq(S)
         /\ n \in Nat => Len(Upto(s, n)) = IF n < Len(s) THEN n ELSE Len(s)
         /\ \A i \in 1 .. Len(Upto(s, n)) : Upto(s, n)[i] = s[i]
         /\ Len(Upto(s, n)) <= Len(s)
<1> DEFINE m == IF n < Len(s) THEN n ELSE Len(s)
<1>1. Len(s) \in Nat /\ m \in Int /\ m <= Len(s)
  BY LenProperties
<1>2. Upto(s, n) = SubSeq(s, 1, m)
  BY DEF Upto
<1>3. /\ SubSeq(s, 1, m) \in Seq(S)
      /\ Len(SubSeq(s, 1, m)) = IF 1 <= m THEN m ELSE 0
      /\ \A i \in 1 .. m : SubSeq(s, 1, m)[i] = s[i]
  BY <1>1, SubSeqProperties
<1>4. QED
  BY <1>1, <1>2, <1>3

\* A line is a string of at least one character, in which a line feed can only
\* be the last.
LEMMA LineFacts ==
  ASSUME NEW l \in Lines
  PROVE  /\ l \in Seq(Char) /\ Len(l) \in Nat /\ Len(l) >= 1
         /\ \A i \in 1 .. Len(l) : l[i] \in Char
         /\ \A i \in 1 .. Len(l) - 1 : l[i] # LineFeed
<1>1. l \in Seq(Char) /\ l # <<>>
  BY DEF Lines
<1>2. QED
  BY <1>1, LenProperties, EmptySeq, ElementOfSeq DEF Lines

\* The end of a string is the only place that looks like one.
LEMMA StringEndIs ==
  ASSUME NEW b, DOMAIN b \subseteq Nat, NEW i \in Nat, NEW j \in DOMAIN b,
         j >= i, b[j] = Nul, \A k \in i .. j - 1 : b[k] # Nul
  PROVE  StringEnd(b, i) = j
<1> DEFINE P(n) == n >= i /\ b[n] = Nul /\ \A k \in i .. n - 1 : b[k] # Nul
<1>1. P(j)
  OBVIOUS
<1>2. StringEnd(b, i) \in DOMAIN b /\ P(StringEnd(b, i))
  BY <1>1 DEF StringEnd
<1>3. ASSUME NEW n \in DOMAIN b, P(n) PROVE n = j
  <2>1. n \in Nat /\ j \in Nat
    OBVIOUS
  <2>2. ~(n < j) /\ ~(j < n)
    BY <1>3, <2>1
  <2>3. QED
    BY <2>1, <2>2
<1>4. QED
  BY <1>2, <1>3

\* The first place of a character that occurs.
LEMMA PlaceFacts ==
  ASSUME NEW s \in Seq(Char), NEW c, Occurs(s, c)
  PROVE  /\ Place(s, c) \in 1 .. Len(s)
         /\ s[Place(s, c)] = c
         /\ \A j \in 1 .. Place(s, c) - 1 : s[j] # c
<1> DEFINE At == {i \in 1 .. Len(s) : s[i] = c}
<1>1. At # {} /\ At \subseteq Nat
  BY LenProperties DEF Occurs
<1>2. PICK i \in At : \A j \in At : ~(j < i)
  <2> DEFINE Places == 1 .. Len(s)
             Segments == {1 .. n : n \in At}
  <2>1. IsWellFoundedOn(StrictSubsetOrdering(Places), FiniteSubsetsOf(Places))
    BY FS_StrictSubsetOrderingWellFounded
  <2>2. ASSUME NEW n \in At PROVE 1 .. n \in FiniteSubsetsOf(Places)
    BY <1>1, FS_Interval, LenProperties DEF FiniteSubsetsOf
  <2>3. Segments \subseteq FiniteSubsetsOf(Places) /\ Segments # {}
    BY <1>1, <2>2
  <2>4. PICK X \in Segments : \A Y \in Segments : <<Y, X>> \notin StrictSubsetOrdering(Places)
    BY <2>1, <2>3, WFMin
  <2>5. PICK i \in At : X = 1 .. i
    OBVIOUS
  <2>6. ASSUME NEW j \in At, j < i PROVE FALSE
    <3>1. 1 .. j \subseteq X /\ 1 .. j # X /\ 1 .. j \in Segments
      BY <1>1, <2>5, <2>6
    <3>2. 1 .. j \in SUBSET Places /\ X \in SUBSET Places
      BY <2>3, <3>1 DEF FiniteSubsetsOf
    <3>3. QED
      BY <2>4, <3>1, <3>2 DEF StrictSubsetOrdering
  <2>7. QED
    BY <2>6
<1>3. \E n \in 1 .. Len(s) : s[n] = c /\ \A j \in 1 .. n - 1 : s[j] # c
  BY <1>1, <1>2, LenProperties
<1>4. QED
  BY <1>3 DEF Place

-----------------------------------------------------------------------------
(* The inductive invariant. *)

\* What has not been read is the rest of the text.
Provenance ==
  /\ lines \in Files[source]
  /\ Len(unread) <= Len(lines)
  /\ \A i \in 1 .. Len(unread) : unread[i] = lines[Len(lines) - Len(unread) + i]

\* What goes with each place in the getters.
Control ==
  /\ pc # "done" => code = "none"
  /\ pc = "open" => unread = lines /\ report = NoReport
  /\ pc \in {"open", "strip", "extract", "modem"} => DOMAIN buff = 0 .. Size - 1
  /\ pc \in {"strip", "extract"} =>
       source \in {"proc", "firmware"} /\ lines # <<>> /\ end = Len(FirstLine)
  /\ pc = "search" => source = "cpuinfo"
  /\ pc = "modem" => source = "sim"

\* Up to byte n the buffer holds the line, without a line end but as the first.
CutUpTo(n) ==
  /\ n <= end
  /\ \A i \in 0 .. n - 1 : buff[i] = FirstLine[i + 1]
  /\ \A i \in 1 .. n - 1 : buff[i] \notin LineEnds

\* The string ends at byte n, where a line end was or the line was over.
CutAt(n) ==
  /\ n > 0
  /\ CutUpTo(n)
  /\ buff[n] = Nul
  /\ n < end => FirstLine[n + 1] \in LineEnds

\* From byte n on the buffer holds the rest of the line.
Uncut(n) ==
  /\ \A i \in n .. end - 1 : buff[i] = FirstLine[i + 1]
  /\ buff[end] = Nul
  /\ n > 0 /\ n < end => buff[n] \notin LineEnds

Cutting ==
  /\ pc = "strip" => CutUpTo(p) /\ (CutAt(p) \/ Uncut(p))
  /\ pc = "extract" => CutAt(p - 1)

ReadSoFar == 1 .. Len(lines) - Len(unread)

\* The entry has not been met; nor has a number, if none has been kept.
Searching ==
  /\ pc = "search" => \A i \in ReadSoFar : ~StartsWith(lines[i], Key)
  /\ pc = "modem" /\ report = NoReport =>
       \A i \in ReadSoFar :
         /\ Len(lines[i]) <= ImsiWidth
         /\ ~StartsWith(lines[i], CcidKey) /\ ~StartsWith(lines[i], CnumKey)

Results ==
  StripsLine /\ FirmwareIsFirstWord /\ EntryIsRead /\ SimCodeDefined

\* The part of a line that a number is taken from.
Number(line, offset, width) == Upto(SubSeq(line, offset + 1, Len(line)), width)

\* Of the lines in R, the first with the key gives the number, if it is long
\* enough.
NumberOf(R, field, key, offset, width) ==
  /\ report[field] = NoText <=> \A i \in R : ~StartsWith(lines[i], key)
  /\ \A i \in R :
       FirstWith(key, i) /\ offset <= Len(lines[i]) =>
         report[field] = Number(lines[i], offset, width)

NumbersOf(R) ==
  /\ report["imsi"] = NoText => \A i \in R : Len(lines[i]) <= ImsiWidth
  /\ report["imsi"] # NoText => ~StartsWith(report["imsi"], CcidKey)
  /\ NumberOf(R, "iccid", CcidKey, Len(CcidKey) + 1, CcidWidth)
  /\ NumberOf(R, "msisdn", CnumKey, CnumOffset, CnumWidth)

Numbers ==
  ImsiComesFirst =>
    /\ pc = "modem" => NumbersOf(ReadSoFar)
    /\ source = "sim" /\ code \in {"ok", "error"} => NumbersOf(1 .. Len(lines))

Inv ==
  TypeOK /\ Provenance /\ Control /\ LooksInLine /\ Cutting /\ Searching /\ Results
    /\ Numbers

-----------------------------------------------------------------------------
(* Facts about a state. *)

\* The line to be read next is a line of the text.
LEMMA NextLine ==
  ASSUME TypeOK, Provenance, unread # <<>>
  PROVE  /\ Head(unread) \in Lines
         /\ Tail(unread) \in Seq(Lines) /\ Len(Tail(unread)) = Len(unread) - 1
         /\ Len(unread) \in Nat /\ Len(lines) \in Nat /\ Len(unread) >= 1
         /\ Len(lines) - Len(unread) + 1 \in 1 .. Len(lines)
         /\ Head(unread) = lines[Len(lines) - Len(unread) + 1]
         /\ \A i \in 1 .. Len(Tail(unread)) :
              Tail(unread)[i] = lines[Len(lines) - Len(Tail(unread)) + i]
<1>1. unread \in Seq(Lines) /\ lines \in Seq(Lines)
  BY DEF TypeOK
<1>2. Len(unread) \in Nat /\ Len(lines) \in Nat /\ Len(unread) >= 1
  BY <1>1, LenProperties, EmptySeq
<1>3. /\ Head(unread) \in Lines
      /\ Tail(unread) \in Seq(Lines) /\ Len(Tail(unread)) = Len(unread) - 1
      /\ \A i \in 1 .. Len(Tail(unread)) : Tail(unread)[i] = unread[i + 1]
  BY <1>1, HeadTailProperties
<1>4. Head(unread) = unread[1]
  BY <1>1
<1>5. ASSUME NEW i \in 1 .. Len(Tail(unread))
      PROVE  Tail(unread)[i] = lines[Len(lines) - Len(Tail(unread)) + i]
  <2>1. i + 1 \in 1 .. Len(unread) /\ i \in Int
    BY <1>2, <1>3, <1>5
  <2>2. unread[i + 1] = lines[Len(lines) - Len(unread) + (i + 1)]
    BY <2>1 DEF Provenance
  <2>3. Len(lines) - Len(unread) + (i + 1) = Len(lines) - Len(Tail(unread)) + i
    BY <1>2, <1>3, <2>1
  <2>4. QED
    BY <1>3, <2>2, <2>3
<1>6. QED
  BY <1>2, <1>3, <1>4, <1>5 DEF Provenance

\* The first line, as much of it as fits.
LEMMA FirstLineFacts ==
  ASSUME lines \in Seq(Lines), lines # <<>>
  PROVE  /\ FirstLine \in Seq(Char)
         /\ Len(FirstLine) \in 1 .. Size - 1
         /\ \A i \in 1 .. Len(FirstLine) : FirstLine[i] \in Char /\ FirstLine[i] = lines[1][i]
<1>1. lines[1] \in Lines
  BY LenProperties, EmptySeq, ElementOfSeq
<1>2. lines[1] \in Seq(Char) /\ Len(lines[1]) \in Nat /\ Len(lines[1]) >= 1
  BY <1>1, LineFacts
<1>3. Size - 1 \in Nat /\ Size - 1 >= 1
  BY SizeAssumption
<1>4. /\ Upto(lines[1], Size - 1) \in Seq(Char)
      /\ Len(Upto(lines[1], Size - 1))
           = IF Size - 1 < Len(lines[1]) THEN Size - 1 ELSE Len(lines[1])
      /\ \A i \in 1 .. Len(Upto(lines[1], Size - 1)) :
           Upto(lines[1], Size - 1)[i] = lines[1][i]
  BY <1>2, <1>3, UptoFacts
<1>5. QED
  BY <1>2, <1>3, <1>4, ElementOfSeq DEF FirstLine

\* What the loop has left in the buffer.
LEMMA CutString ==
  ASSUME TypeOK, Control, Cutting, pc = "extract"
  PROVE  /\ p - 1 \in Nat /\ p - 1 > 0 /\ p - 1 <= Len(FirstLine)
         /\ StringEnd(buff, 0) = p - 1 /\ StringEnd(buff, 1) = p - 1
         /\ \A i \in 0 .. p - 2 : /\ buff[i] = FirstLine[i + 1]
                                  /\ buff[i] \in Char
                                  /\ i > 0 => buff[i] \notin LineEnds
         /\ p - 1 < Len(FirstLine) => FirstLine[p] \in LineEnds
<1>1. /\ lines \in Seq(Lines) /\ p \in Nat /\ end \in Nat
      /\ lines # <<>> /\ end = Len(FirstLine) /\ DOMAIN buff = 0 .. Size - 1
  BY DEF TypeOK, Control
<1>2. /\ Len(FirstLine) \in 1 .. Size - 1
      /\ \A i \in 1 .. Len(FirstLine) : FirstLine[i] \in Char
  BY <1>1, FirstLineFacts
<1>3. CutAt(p - 1)
  BY DEF Cutting
<1>4. /\ p - 1 > 0 /\ p - 1 <= end /\ buff[p - 1] = Nul
      /\ \A i \in 0 .. (p - 1) - 1 : buff[i] = FirstLine[i + 1]
      /\ \A i \in 1 .. (p - 1) - 1 : buff[i] \notin LineEnds
      /\ p - 1 < end => FirstLine[(p - 1) + 1] \in LineEnds
  BY <1>3 DEF CutAt, CutUpTo
<1>5. \A i \in 0 .. p - 2 : /\ buff[i] = FirstLine[i + 1]
                            /\ buff[i] \in Char
                            /\ i > 0 => buff[i] \notin LineEnds
  <2> SUFFICES ASSUME NEW i \in 0 .. p - 2
               PROVE  /\ buff[i] = FirstLine[i + 1]
                      /\ buff[i] \in Char
                      /\ i > 0 => buff[i] \notin LineEnds
    OBVIOUS
  <2>1. /\ i \in 0 .. (p - 1) - 1 /\ i + 1 \in 1 .. Len(FirstLine)
        /\ i > 0 => i \in 1 .. (p - 1) - 1
    BY <1>1, <1>2, <1>4
  <2>2. QED
    BY <1>2, <1>4, <2>1
<1>6. /\ \A k \in 0 .. (p - 1) - 1 : buff[k] # Nul
      /\ \A k \in 1 .. (p - 1) - 1 : buff[k] # Nul
  BY <1>1, <1>5, CharAssumption
<1>7. p - 1 \in DOMAIN buff /\ DOMAIN buff \subseteq Nat
  BY <1>1, <1>2, <1>4, SizeAssumption
<1>8. StringEnd(buff, 0) = p - 1
  <2>1. 0 \in Nat /\ p - 1 >= 0
    BY <1>1, <1>4
  <2>2. QED
    BY <1>4, <1>6, <1>7, <2>1, StringEndIs
<1>9. StringEnd(buff, 1) = p - 1
  <2>1. 1 \in Nat /\ p - 1 >= 1
    BY <1>1, <1>4
  <2>2. QED
    BY <1>4, <1>6, <1>7, <2>1, StringEndIs
<1>10. p - 1 \in Nat /\ p - 1 > 0 /\ p - 1 <= Len(FirstLine)
  <2>1. p \in Nat /\ end = Len(FirstLine) /\ p - 1 > 0 /\ p - 1 <= end
    BY <1>1, <1>4
  <2>2. QED
    BY <2>1
<1>11. p - 1 < Len(FirstLine) => FirstLine[p] \in LineEnds
  <2>1. (p - 1) + 1 = p
    BY <1>1
  <2>2. p - 1 < end => FirstLine[p] \in LineEnds
    BY <1>4, <2>1
  <2>3. QED
    BY <1>1, <2>2
<1>12. QED
  BY <1>5, <1>8, <1>9, <1>10, <1>11

-----------------------------------------------------------------------------
(* What the actions for a line of "cpuinfo" and "sim" have in common. *)

\* The buffer after a string was copied into it.
LEMMA FillFacts ==
  ASSUME NEW b, NEW s \in Seq(Char), DOMAIN b \subseteq Nat,
         \A i \in DOMAIN b : b[i] \in Bytes
  PROVE  /\ DOMAIN Fill(b, s) = DOMAIN b
         /\ \A i \in DOMAIN b : Fill(b, s)[i] \in Bytes
         /\ \A i \in DOMAIN b :
              Fill(b, s)[i] =
                IF i < Len(s) THEN s[i + 1] ELSE IF i = Len(s) THEN Nul ELSE b[i]
<1>1. Len(s) \in Nat /\ \A i \in 1 .. Len(s) : s[i] \in Char
  BY LenProperties, ElementOfSeq
<1>2. DOMAIN Fill(b, s) = DOMAIN b
  BY DEF Fill
<1>3. ASSUME NEW i \in DOMAIN b
      PROVE  Fill(b, s)[i] =
               IF i < Len(s) THEN s[i + 1] ELSE IF i = Len(s) THEN Nul ELSE b[i]
  BY DEF Fill
<1>4. ASSUME NEW i \in DOMAIN b PROVE Fill(b, s)[i] \in Bytes
  <2>1. i \in Nat /\ b[i] \in Bytes
    OBVIOUS
  <2>2. i < Len(s) => s[i + 1] \in Char
    BY <1>1, <2>1
  <2>3. QED
    BY <1>3, <2>1, <2>2 DEF Bytes
<1>5. QED
  BY <1>2, <1>3, <1>4

\* A string in the buffer from a place in it on.
LEMMA StringInFill ==
  ASSUME NEW b, NEW s \in Seq(Char), NEW n \in Nat, DOMAIN b = 0 .. n,
         Len(s) <= n, NEW i \in 0 .. Len(s)
  PROVE  /\ StringAt(Fill(b, s), i) \in Seq(Char)
         /\ StringAt(Fill(b, s), i) = SubSeq(s, i + 1, Len(s))
<1> DEFINE f == Fill(b, s)
<1>1. Len(s) \in Nat /\ \A k \in 1 .. Len(s) : s[k] \in Char
  BY LenProperties, ElementOfSeq
<1>2. DOMAIN f = 0 .. n /\ \A k \in 0 .. n :
        f[k] = IF k < Len(s) THEN s[k + 1] ELSE IF k = Len(s) THEN Nul ELSE b[k]
  BY DEF Fill
<1>3. \A k \in 0 .. Len(s) - 1 : f[k] \in Char
  BY <1>1, <1>2
<1>4. f[Len(s)] = Nul /\ Len(s) \in DOMAIN f /\ DOMAIN f \subseteq Nat
  BY <1>1, <1>2
<1>5. \A k \in i .. Len(s) - 1 : f[k] # Nul
  BY <1>1, <1>3, CharAssumption
<1>6. StringEnd(f, i) = Len(s)
  <2>1. i \in Nat /\ Len(s) >= i
    BY <1>1
  <2> HIDE DEF f
  <2>2. QED
    BY <1>4, <1>5, <2>1, StringEndIs
<1>7. StringAt(f, i) = [k \in 1 .. Len(s) - i |-> f[i + k - 1]]
  BY <1>6 DEF StringAt, Slice
<1>8. Len(s) - i \in Nat /\ \A k \in 1 .. Len(s) - i : f[i + k - 1] \in Char
  BY <1>1, <1>3
<1> HIDE DEF f
<1>9. [k \in 1 .. Len(s) - i |-> f[i + k - 1]] \in Seq(Char)
  BY <1>8, IsASeq
<1>10. StringAt(f, i) = SubSeq(s, i + 1, Len(s))
  <2> DEFINE t == SubSeq(s, i + 1, Len(s))
  <2>1. \A k \in i + 1 .. Len(s) : s[k] \in Char
    BY <1>1
  <2>2. /\ t \in Seq(Char)
        /\ Len(t) = IF i + 1 <= Len(s) THEN Len(s) - (i + 1) + 1 ELSE 0
        /\ \A k \in 1 .. Len(s) - (i + 1) + 1 : t[k] = s[(i + 1) + k - 1]
    BY <1>1, <2>1, SubSeqProperties
  <2>3. StringAt(f, i) \in Seq(Char) /\ Len(StringAt(f, i)) = Len(s) - i
    BY <1>7, <1>8, <1>9
  <2>4. Len(t) = Len(s) - i
    BY <1>1, <2>2
  <2> HIDE DEF t
  <2>5. ASSUME NEW k \in 1 .. Len(s) - i PROVE StringAt(f, i)[k] = t[k]
    <3>1. StringAt(f, i)[k] = f[i + k - 1]
      BY <1>7, <2>5
    <3>2. f[i + k - 1] = s[(i + k - 1) + 1]
      BY <1>1, <1>2, <2>5 DEF f
    <3>3. t[k] = s[(i + 1) + k - 1]
      BY <1>1, <2>2, <2>5
    <3>4. (i + k - 1) + 1 = (i + 1) + k - 1
      OBVIOUS
    <3>5. QED
      BY <3>1, <3>2, <3>3, <3>4
  <2>6. StringAt(f, i) = t
    BY <2>2, <2>3, <2>4, <2>5, SeqEqual
  <2>7. QED
    BY <2>6 DEF t
<1>11. QED
  BY <1>7, <1>9, <1>10 DEF f

\* A copy from a place in the string ends with the string.
LEMMA CopyInFill ==
  ASSUME NEW b, NEW s \in Seq(Char), NEW n \in Nat, DOMAIN b = 0 .. n,
         Len(s) <= n, NEW i \in 0 .. Len(s), NEW w \in Nat,
         NEW m \in CopyLengths(Fill(b, s), i, w)
  PROVE  /\ i + m <= Len(s)
         /\ Slice(Fill(b, s), i, m) = Upto(SubSeq(s, i + 1, Len(s)), w)
<1> DEFINE f == Fill(b, s)
           t == SubSeq(s, i + 1, Len(s))
           u == Upto(t, w)
           c == Slice(f, i, m)
<1>1. Len(s) \in Nat /\ \A k \in 1 .. Len(s) : s[k] \in Char
  BY LenProperties, ElementOfSeq
<1>2. \A k \in 0 .. n :
        f[k] = IF k < Len(s) THEN s[k + 1] ELSE IF k = Len(s) THEN Nul ELSE b[k]
  BY DEF Fill
<1>3. (\A k \in 0 .. Len(s) - 1 : f[k] \in Char) /\ f[Len(s)] = Nul
  BY <1>1, <1>2
<1>4. /\ m \in 0 .. w /\ \A k \in 0 .. m - 1 : f[i + k] # Nul
      /\ m < w => f[i + m] \in {Nul, Junk}
  BY DEF CopyLengths
<1> HIDE DEF f
<1>5. i + m <= Len(s)
  <2>1. SUFFICES ASSUME Len(s) < i + m PROVE FALSE
    BY <1>1, <1>4
  <2>2. Len(s) - i \in 0 .. m - 1 /\ i + (Len(s) - i) = Len(s)
    BY <1>1, <1>4, <2>1
  <2>3. QED
    BY <1>3, <1>4, <2>2
<1>6. m = IF w < Len(s) - i THEN w ELSE Len(s) - i
  <2>1. m < w => ~(i + m < Len(s))
    <3>1. SUFFICES ASSUME m < w, i + m < Len(s) PROVE FALSE
      OBVIOUS
    <3>2. i + m \in 0 .. Len(s) - 1
      BY <1>1, <1>4, <3>1
    <3>3. QED
      BY <1>3, <1>4, <3>1, <3>2, CharAssumption
  <2>2. QED
    BY <1>1, <1>4, <1>5, <2>1
<1>7. /\ t \in Seq(Char) /\ Len(t) = Len(s) - i
      /\ \A k \in 1 .. Len(s) - i : t[k] = s[i + k]
  <2>1. \A k \in i + 1 .. Len(s) : s[k] \in Char
    BY <1>1
  <2>2. /\ t \in Seq(Char)
        /\ Len(t) = IF i + 1 <= Len(s) THEN Len(s) - (i + 1) + 1 ELSE 0
        /\ \A k \in 1 .. Len(s) - (i + 1) + 1 : t[k] = s[(i + 1) + k - 1]
    BY <1>1, <2>1, SubSeqProperties
  <2>3. QED
    BY <1>1, <2>2
<1> HIDE DEF t
<1>8. u \in Seq(Char) /\ Len(u) = m /\ \A k \in 1 .. m : u[k] = s[i + k]
  <2>1. /\ u \in Seq(Char) /\ Len(u) = IF w < Len(t) THEN w ELSE Len(t)
        /\ \A k \in 1 .. Len(u) : u[k] = t[k]
    BY <1>7, UptoFacts
  <2>2. Len(u) = m
    BY <1>6, <1>7, <2>1
  <2>3. \A k \in 1 .. m : k \in 1 .. Len(s) - i
    BY <1>1, <1>4, <1>5
  <2>4. QED
    BY <1>7, <2>1, <2>2, <2>3
<1> HIDE DEF u
<1>9. \A k \in 1 .. m : c[k] = s[i + k] /\ c[k] \in Char
  <2> SUFFICES ASSUME NEW k \in 1 .. m PROVE c[k] = s[i + k] /\ c[k] \in Char
    OBVIOUS
  <2>1. c[k] = f[i + k - 1]
    BY DEF Slice
  <2>2. /\ i + k - 1 \in 0 .. n /\ i + k - 1 < Len(s) /\ (i + k - 1) + 1 = i + k
        /\ i + k \in 1 .. Len(s)
    BY <1>1, <1>4, <1>5
  <2>3. QED
    BY <1>1, <1>2, <2>1, <2>2
<1> DEFINE byte(k) == f[i + k - 1]
<1>10. c = [k \in 1 .. m |-> byte(k)] /\ m \in Nat /\ \A k \in 1 .. m : byte(k) = c[k]
  BY <1>4 DEF Slice
<1> HIDE DEF c, byte
<1>11. c \in Seq(Char) /\ Len(c) = m
  <2>1. \A k \in 1 .. m : byte(k) \in Char
    BY <1>9, <1>10
  <2>2. [k \in 1 .. m |-> byte(k)] \in Seq(Char)
    BY <1>10, <2>1, IsASeq
  <2>3. QED
    BY <1>10, <2>2, LenProperties
<1>12. c = u
  BY <1>8, <1>9, <1>11, SeqEqual
<1>13. QED
  BY <1>5, <1>12 DEF c, u, t, f

\* A copy from anywhere in the buffer holds no terminator.
LEMMA CopyType ==
  ASSUME NEW b, NEW n \in Nat, DOMAIN b = 0 .. n, \A k \in DOMAIN b : b[k] \in Bytes,
         NEW i \in Nat, NEW w \in Nat, i + w <= n + 1, NEW m \in CopyLengths(b, i, w)
  PROVE  Slice(b, i, m) \in Seq(Char \cup {Junk}) /\ m \in 0 .. w
<1>1. m \in 0 .. w /\ m \in Nat /\ \A k \in 0 .. m - 1 : b[i + k] # Nul
  BY DEF CopyLengths
<1> DEFINE byte(k) == b[i + k - 1]
<1>2. \A k \in 1 .. m : byte(k) \in Char \cup {Junk}
  <2> SUFFICES ASSUME NEW k \in 1 .. m PROVE b[i + k - 1] \in Char \cup {Junk}
    OBVIOUS
  <2>1. i + k - 1 \in 0 .. n /\ k - 1 \in 0 .. m - 1 /\ i + (k - 1) = i + k - 1
    BY <1>1
  <2>2. b[i + k - 1] # Nul /\ b[i + k - 1] \in Bytes
    BY <1>1, <2>1
  <2>3. QED
    BY <2>2 DEF Bytes
<1>3. Slice(b, i, m) = [k \in 1 .. m |-> byte(k)]
  BY DEF Slice
<1> HIDE DEF byte
<1>4. [k \in 1 .. m |-> byte(k)] \in Seq(Char \cup {Junk})
  BY <1>1, <1>2, IsASeq
<1>5. QED
  BY <1>1, <1>3, <1>4

\* The key stands at the beginning of a line that is longer than it.
LEMMA KeyFacts ==
  ASSUME NEW l \in Lines, NEW k \in {Key, CcidKey, CnumKey}, StartsWith(l, k)
  PROVE  Len(k) \in Nat /\ Len(k) + 1 <= Len(l)
BY LineFacts, KeysAssumption, LenProperties DEF StartsWith

-----------------------------------------------------------------------------
(* The steps. *)

LEMMA InitInv == Init => Inv
<1> SUFFICES ASSUME Init PROVE Inv
  OBVIOUS
<1> USE DEF Init
<1>1. lines \in Seq(Lines)
  BY FilesAssumption
<1>2. TypeOK
  BY <1>1, SizeAssumption DEF TypeOK, NoReport, Fields, Bytes
<1>3. Provenance
  BY <1>1, LenProperties DEF Provenance
<1>4. Control /\ LooksInLine /\ Cutting /\ Searching /\ Numbers
  BY SizeAssumption DEF Control, LooksInLine, Cutting, Searching, Numbers
<1>5. Results
  BY DEF Results, StripsLine, FirmwareIsFirstWord, EntryIsRead, SimCodeDefined
<1>6. QED
  BY <1>2, <1>3, <1>4, <1>5 DEF Inv

\* A line of cpuinfo.
LEMMA GetLineType ==
  ASSUME TypeOK, Provenance, GetLine
  PROVE  /\ unread' \in Seq(Lines) /\ end' \in Nat
         /\ \A i \in DOMAIN buff' : buff'[i] \in Bytes
<1>1. Head(unread) \in Lines /\ Tail(unread) \in Seq(Lines) /\ unread # <<>>
  BY NextLine DEF GetLine
<1>2. Head(unread) \in Seq(Char) /\ Len(Head(unread)) \in Nat
  BY <1>1, LineFacts
<1> DEFINE b == [i \in 0 .. Len(Head(unread)) |-> Junk]
<1>3. DOMAIN b \subseteq Nat /\ \A i \in DOMAIN b : b[i] \in Bytes
  BY <1>2 DEF Bytes
<1>4. buff' = Fill(b, Head(unread)) /\ unread' = Tail(unread) /\ end' = Len(Head(unread))
  BY DEF GetLine
<1> HIDE DEF b
<1>5. QED
  BY <1>1, <1>2, <1>3, <1>4, FillFacts

\* What a field may hold.
Texts == Seq(Char \cup {Junk}) \cup {NoText}

LEMMA CharTexts == Seq(Char) \cup {NoText} \subseteq Texts
<1> SUFFICES ASSUME NEW t \in Seq(Char) PROVE t \in Seq(Char \cup {Junk})
  BY DEF Texts
<1>1. Len(t) \in Nat /\ t = [k \in 1 .. Len(t) |-> t[k]]
      /\ \A k \in 1 .. Len(t) : t[k] \in Char \cup {Junk}
  BY LenProperties, ElementOfSeq
<1>2. [k \in 1 .. Len(t) |-> t[k]] \in Seq(Char \cup {Junk})
  BY <1>1, IsASeq
<1>3. QED
  BY <1>1, <1>2

\* A value that a getter hands over.
LEMMA TextType ==
  ASSUME TypeOK, NEW t \in Seq(Char), report' = [report EXCEPT !["text"] = t]
  PROVE  /\ report' \in [Fields -> Texts]
         /\ \A f \in Fields \ {"msisdn"} : report'[f] \in Seq(Char) \cup {NoText}
<1>1. /\ report \in [Fields -> Texts]
      /\ \A f \in Fields \ {"msisdn"} : report[f] \in Seq(Char) \cup {NoText}
  BY DEF TypeOK, Texts
<1>2. t \in Texts
  BY CharTexts
<1>3. QED
  BY <1>1, <1>2

\* A number that is in its line.
LEMMA NumberType ==
  ASSUME NEW l \in Lines, NEW offset \in Nat, NEW width \in Nat
  PROVE  Number(l, offset, width) \in Seq(Char) /\ Number(l, offset, width) # NoText
<1>1. l \in Seq(Char) /\ Len(l) \in Nat /\ \A i \in 1 .. Len(l) : l[i] \in Char
  BY LineFacts
<1>2. \A i \in offset + 1 .. Len(l) : l[i] \in Char
  BY <1>1
<1>3. SubSeq(l, offset + 1, Len(l)) \in Seq(Char)
  BY <1>1, <1>2, SubSeqProperties
<1>4. Number(l, offset, width) \in Seq(Char)
  <2>1. width \in Int
    OBVIOUS
  <2>2. QED
    BY <1>3, <2>1, UptoFacts DEF Number
<1>5. QED
  BY <1>4, CharAssumption

\* A line of the modem.
LEMMA ReadModemLineType ==
  ASSUME TypeOK, Provenance, Control, ReadModemLine
  PROVE  /\ unread' \in Seq(Lines) /\ end' \in Nat /\ end' < Size
         /\ \A i \in DOMAIN buff' : buff'[i] \in Bytes
         /\ DOMAIN buff = 0 .. Size - 1 /\ DOMAIN buff' = DOMAIN buff
         /\ buff' = Fill(buff, Head(unread))
         /\ end' = Len(Head(unread)) /\ Head(unread) \in Lines
         /\ StringAt(buff', 0) = Head(unread)
<1>1. /\ Head(unread) \in Lines /\ Tail(unread) \in Seq(Lines)
      /\ Len(lines) - Len(unread) + 1 \in 1 .. Len(lines)
      /\ Head(unread) = lines[Len(lines) - Len(unread) + 1]
  BY NextLine DEF ReadModemLine
<1>2. Head(unread) \in Seq(Char) /\ Len(Head(unread)) \in Nat
  BY <1>1, LineFacts
<1>3. /\ DOMAIN buff = 0 .. Size - 1 /\ Size - 1 \in Nat
      /\ \A i \in DOMAIN buff : buff[i] \in Bytes
      /\ lines \in Files["sim"]
  BY SizeAssumption DEF Control, TypeOK, Provenance, ReadModemLine
<1>4. Len(Head(unread)) <= Size - 1 /\ Len(Head(unread)) < Size
  BY <1>1, <1>2, <1>3, PiecesAssumption, SizeAssumption
<1>5. buff' = Fill(buff, Head(unread)) /\ unread' = Tail(unread) /\ end' = Len(Head(unread))
  BY DEF ReadModemLine
<1>6. DOMAIN buff \subseteq Nat
  BY <1>3
<1>7. StringAt(buff', 0) = Head(unread)
  <2>1. StringAt(buff', 0) = SubSeq(Head(unread), 0 + 1, Len(Head(unread)))
    BY <1>2, <1>3, <1>4, <1>5, StringInFill
  <2>2. SubSeq(Head(unread), 0 + 1, Len(Head(unread))) = Head(unread)
    BY <1>2, SubSeqFull
  <2>3. QED
    BY <2>1, <2>2
<1>8. \A i \in DOMAIN buff' : buff'[i] \in Bytes /\ DOMAIN buff' = DOMAIN buff
  BY <1>2, <1>3, <1>5, <1>6, FillFacts
<1>9. DOMAIN buff' = DOMAIN buff
  BY <1>2, <1>3, <1>5, <1>6, FillFacts
<1>10. QED
  BY <1>1, <1>2, <1>3, <1>4, <1>5, <1>7, <1>8, <1>9

\* A number that is kept: it is part of the line if it begins in it.
LEMMA KeepType ==
  ASSUME TypeOK, Provenance, Control, ReadModemLine,
         NEW field \in Fields, NEW offset \in Nat, NEW width \in Nat \ {0},
         offset + width <= Size, Keep(field, offset, width)
  PROVE  /\ report' \in [Fields -> Texts]
         /\ report'[field] # NoText
         /\ \A f \in Fields : f # field => report'[f] = report[f]
         /\ looked' \in DOMAIN buff'
         /\ offset <= end' =>
              /\ report'[field] = Number(Head(unread), offset, width)
              /\ looked' = end'
<1>1. PICK n \in CopyLengths(buff', offset, width) :
        LET last == offset + IF n < width THEN n ELSE width - 1 IN
          /\ report' = [report EXCEPT ![field] = Slice(buff', offset, n)]
          /\ looked' = IF last > end' THEN last ELSE end'
  BY DEF Keep
<1> DEFINE c == Slice(buff', offset, n)
           last == offset + IF n < width THEN n ELSE width - 1
<1>2. /\ DOMAIN buff = 0 .. Size - 1 /\ DOMAIN buff' = 0 .. Size - 1 /\ Size - 1 \in Nat
      /\ \A i \in DOMAIN buff' : buff'[i] \in Bytes
      /\ end' \in Nat /\ end' < Size /\ Size \in Nat
      /\ end' = Len(Head(unread)) /\ buff' = Fill(buff, Head(unread))
  BY ReadModemLineType, SizeAssumption
<1>3. c \in Seq(Char \cup {Junk}) /\ n \in 0 .. width
  <2>1. offset + width <= (Size - 1) + 1 /\ width \in Nat
    BY <1>2
  <2>2. QED
    BY <1>2, <2>1, CopyType
<1>4. report' = [report EXCEPT ![field] = c] /\ looked' = IF last > end' THEN last ELSE end'
  BY <1>1
<1>5. ASSUME offset <= end'
      PROVE  c = Number(Head(unread), offset, width) /\ looked' = end'
  <2>1. Head(unread) \in Seq(Char) /\ Len(Head(unread)) \in Nat
    BY ReadModemLineType, LineFacts
  <2>2. /\ offset \in 0 .. Len(Head(unread)) /\ Len(Head(unread)) <= Size - 1
        /\ width \in Nat
    BY <1>2, <1>5
  <2>3. /\ offset + n <= Len(Head(unread))
        /\ Slice(Fill(buff, Head(unread)), offset, n)
             = Upto(SubSeq(Head(unread), offset + 1, Len(Head(unread))), width)
    BY <1>1, <1>2, <2>1, <2>2, CopyInFill
  <2>4. last <= end'
    BY <1>2, <1>3, <2>3
  <2>5. QED
    BY <1>2, <1>3, <1>4, <2>3, <2>4 DEF Number
<1>6. looked' \in DOMAIN buff'
  BY <1>2, <1>3, <1>4
<1>7. c # NoText
  BY <1>3, CharAssumption
<1> HIDE DEF c, last
<1>8. report \in [Fields -> Texts]
  BY DEF TypeOK, Texts
<1>9. c \in Texts
  BY <1>3 DEF Texts
<1>10. QED
  BY <1>4, <1>5, <1>6, <1>7, <1>8, <1>9

\* The places that the getter of the SIM takes numbers from are in the buffer, and
\* the ICCID's in the line.
LEMMA Offsets ==
  ASSUME TypeOK, Provenance, Control, ReadModemLine
  PROVE  /\ {ImsiWidth, CcidWidth, CnumWidth, CnumOffset} \subseteq Nat \ {0}
         /\ Len(CcidKey) + 1 \in Nat
         /\ 0 + ImsiWidth <= Size /\ (Len(CcidKey) + 1) + CcidWidth <= Size
         /\ CnumOffset + CnumWidth <= Size
         /\ 0 <= end' /\ end' \in Nat
         /\ IsIccid(Head(unread)) => Len(CcidKey) + 1 <= end'
         /\ end' = Len(Head(unread))
<1>1. end' \in Nat /\ end' = Len(Head(unread)) /\ Head(unread) \in Lines
  BY ReadModemLineType
<1>2. IsIccid(Head(unread)) => Len(CcidKey) + 1 <= end'
  BY <1>1, KeyFacts DEF IsIccid
<1>3. Len(CcidKey) \in Nat
  BY KeysAssumption, LenProperties
<1>4. QED
  BY <1>1, <1>2, <1>3, PlacesAssumption

\* A line of the modem, whatever is taken from it.
LEMMA ModemStep ==
  ASSUME TypeOK, Provenance, Control,
         TakeImsi \/ TakeIccid \/ TakeMsisdn \/ PassOver
  PROVE  /\ ReadModemLine
         /\ report' \in [Fields -> Texts]
         /\ \A f \in Fields \ {"msisdn"} : report'[f] \in Seq(Char) \cup {NoText}
         /\ looked' \in DOMAIN buff'
         /\ looked' > end' => TakeMsisdn /\ end' < CnumOffset
         /\ PassOver \/ report' # NoReport
         /\ pc' \in {"modem", "dead"}
<1>1. ReadModemLine /\ pc' \in {"modem", "dead"}
  BY DEF TakeImsi, TakeIccid, TakeMsisdn, PassOver, ReadModemLine
<1>2. \A f \in Fields : NoReport[f] = NoText
  BY DEF NoReport
<1>3. {"imsi", "iccid", "msisdn"} \subseteq Fields
  BY DEF Fields
<1>4. /\ report \in [Fields -> Texts]
      /\ \A f \in Fields \ {"msisdn"} : report[f] \in Seq(Char) \cup {NoText}
  BY DEF TypeOK, Texts
<1>5. ASSUME NEW offset \in Nat, NEW width \in Nat
      PROVE  Number(Head(unread), offset, width) \in Seq(Char)
  BY <1>1, ReadModemLineType, NumberType
<1>6. /\ end' \in Nat /\ end' \in DOMAIN buff'
      /\ {ImsiWidth, CcidWidth, CnumWidth, CnumOffset} \subseteq Nat \ {0}
      /\ Len(CcidKey) + 1 \in Nat
  BY <1>1, ReadModemLineType, Offsets, SizeAssumption
<1>7. CASE TakeImsi
  <2>1. Keep("imsi", 0, ImsiWidth)
    BY <1>7 DEF TakeImsi
  <2>2. /\ report' \in [Fields -> Texts] /\ report'["imsi"] # NoText
        /\ \A f \in Fields : f # "imsi" => report'[f] = report[f]
        /\ report'["imsi"] = Number(Head(unread), 0, ImsiWidth) /\ looked' = end'
    BY <1>1, <1>3, <1>6, <2>1, Offsets, KeepType
  <2>3. report'["imsi"] \in Seq(Char)
    BY <1>5, <1>6, <2>2
  <2>4. \A f \in Fields \ {"msisdn"} : report'[f] \in Seq(Char) \cup {NoText}
    BY <1>4, <2>2, <2>3
  <2>5. report' # NoReport
    BY <1>2, <1>3, <2>2
  <2>6. looked' \in DOMAIN buff' /\ ~(looked' > end')
    BY <1>6, <2>2
  <2>7. QED
    BY <1>1, <2>2, <2>4, <2>5, <2>6
<1>8. CASE TakeIccid
  <2>1. IsIccid(Head(unread)) /\ Keep("iccid", Len(CcidKey) + 1, CcidWidth)
    BY <1>8 DEF TakeIccid
  <2>2. /\ report' \in [Fields -> Texts] /\ report'["iccid"] # NoText
        /\ \A f \in Fields : f # "iccid" => report'[f] = report[f]
        /\ report'["iccid"] = Number(Head(unread), Len(CcidKey) + 1, CcidWidth)
        /\ looked' = end'
    BY <1>1, <1>3, <1>6, <2>1, Offsets, KeepType
  <2>3. report'["iccid"] \in Seq(Char)
    BY <1>5, <1>6, <2>2
  <2>4. \A f \in Fields \ {"msisdn"} : report'[f] \in Seq(Char) \cup {NoText}
    BY <1>4, <2>2, <2>3
  <2>5. report' # NoReport
    BY <1>2, <1>3, <2>2
  <2>6. looked' \in DOMAIN buff' /\ ~(looked' > end')
    BY <1>6, <2>2
  <2>7. QED
    BY <1>1, <2>2, <2>4, <2>5, <2>6
<1>9. CASE TakeMsisdn
  <2>1. Keep("msisdn", CnumOffset, CnumWidth)
    BY <1>9 DEF TakeMsisdn
  <2>2. /\ report' \in [Fields -> Texts] /\ report'["msisdn"] # NoText
        /\ \A f \in Fields : f # "msisdn" => report'[f] = report[f]
        /\ looked' \in DOMAIN buff'
        /\ CnumOffset <= end' => looked' = end'
    BY <1>1, <1>3, <1>6, <2>1, Offsets, KeepType
  <2>3. looked' > end' => end' < CnumOffset
    BY <1>6, <2>2
  <2>4. QED
    BY <1>1, <1>2, <1>3, <1>4, <1>9, <2>2, <2>3
<1>10. CASE PassOver
  BY <1>1, <1>4, <1>6, <1>10 DEF PassOver
<1>11. QED
  BY <1>7, <1>8, <1>9, <1>10

\* The value of a cpuinfo entry.
LEMMA TakeValueFacts ==
  ASSUME TypeOK, Provenance, TakeValue
  PROVE  LET from == Place(Searched, Colon) + 1
             rest == SubSeq(Searched, from + 1, Len(Searched))
         IN  /\ from \in Nat /\ from <= end'
             /\ rest \in Seq(Char) /\ Len(rest) = Len(Searched) - from
             /\ \A i \in 1 .. Len(rest) : rest[i] = Searched[from + i]
             /\ Taken(rest) \in Seq(Char)
             /\ report' = [report EXCEPT !["text"] = Taken(rest)]
             /\ looked' = end'
<1> DEFINE from == Place(Searched, Colon) + 1
           rest == SubSeq(Searched, from + 1, Len(Searched))
<1>1. Searched \in Lines /\ unread # <<>>
  BY NextLine DEF TakeValue, GetLine, Searched
<1>2. /\ Searched \in Seq(Char) /\ Len(Searched) \in Nat
      /\ \A i \in 1 .. Len(Searched) : Searched[i] \in Char
  BY <1>1, LineFacts
<1>3. /\ Occurs(Searched, Colon) /\ Len(Searched) >= from
      /\ end' = Len(Searched)
      /\ looked' = IF from > end' THEN from ELSE end'
      /\ report' = [report EXCEPT !["text"] = Taken(rest)]
  BY DEF TakeValue, HasValue, GetLine, Searched
<1>4. Place(Searched, Colon) \in 1 .. Len(Searched)
  BY <1>2, <1>3, PlaceFacts
<1>5. from \in Nat /\ from <= end'
  BY <1>2, <1>3, <1>4
<1>6. \A i \in from + 1 .. Len(Searched) : Searched[i] \in Char
  BY <1>2, <1>5
<1>7. /\ rest \in Seq(Char)
      /\ Len(rest) = IF from + 1 <= Len(Searched) THEN Len(Searched) - (from + 1) + 1 ELSE 0
      /\ \A i \in 1 .. Len(Searched) - (from + 1) + 1 :
           rest[i] = Searched[(from + 1) + i - 1]
  BY <1>2, <1>5, <1>6, SubSeqProperties
<1>8. Len(rest) = Len(Searched) - from
  BY <1>2, <1>3, <1>5, <1>7
<1>9. \A i \in 1 .. Len(rest) : rest[i] = Searched[from + i]
  BY <1>2, <1>5, <1>7, <1>8
<1>10. AsSize(Len(rest) - 1) \in Int
  BY <1>2, <1>5, <1>8, SizeAssumption DEF AsSize
<1>11. Taken(rest) \in Seq(Char)
  BY <1>7, <1>10, UptoFacts DEF Taken
<1>12. looked' = end'
  BY <1>2, <1>3, <1>5
<1>13. QED
  BY <1>3, <1>5, <1>7, <1>8, <1>9, <1>11, <1>12

\* n bytes of the string that the loop has left, from byte 0 or 1 on.
LEMMA SliceFacts ==
  ASSUME TypeOK, Control, Cutting, pc = "extract",
         NEW i \in {0, 1}, NEW n \in Nat, i + n <= p - 1
  PROVE  /\ Slice(buff, i, n) \in Seq(Char)
         /\ Len(Slice(buff, i, n)) = n
         /\ \A k \in 1 .. n : /\ Slice(buff, i, n)[k] = FirstLine[i + k]
                              /\ i + k > 1 => Slice(buff, i, n)[k] \notin LineEnds
<1>1. /\ p - 1 \in Nat
      /\ \A k \in 0 .. p - 2 : /\ buff[k] = FirstLine[k + 1]
                               /\ buff[k] \in Char
                               /\ k > 0 => buff[k] \notin LineEnds
  BY CutString
<1>2. ASSUME NEW k \in 1 .. n
      PROVE  /\ buff[i + k - 1] = FirstLine[i + k]
             /\ buff[i + k - 1] \in Char
             /\ i + k > 1 => buff[i + k - 1] \notin LineEnds
  <2>1. p \in Nat
    BY DEF TypeOK
  <2>2. /\ i + k - 1 \in 0 .. p - 2 /\ (i + k - 1) + 1 = i + k
        /\ i + k > 1 => i + k - 1 > 0
    BY <1>2, <2>1
  <2>3. QED
    BY <1>1, <2>2
<1>3. Slice(buff, i, n) = [k \in 1 .. n |-> buff[i + k - 1]]
  BY DEF Slice
<1> DEFINE byte(k) == buff[i + k - 1]
<1>4. [k \in 1 .. n |-> byte(k)] \in Seq(Char)
  <2>1. \A k \in 1 .. n : byte(k) \in Char
    BY <1>2
  <2> HIDE DEF byte
  <2>2. QED
    BY <2>1, IsASeq
<1>5. Len(Slice(buff, i, n)) = n
  BY <1>3, <1>4, LenProperties
<1>6. QED
  BY <1>2, <1>3, <1>4, <1>5

\* The value of a "proc" file.
LEMMA LineValue ==
  ASSUME TypeOK, Control, Cutting, pc = "extract"
  PROVE  LET value == StringAt(buff, 0)
         IN  /\ value \in Seq(Char) /\ Len(value) = p - 1
             /\ \A k \in 1 .. p - 1 : /\ value[k] = FirstLine[k]
                                      /\ k > 1 => value[k] \notin LineEnds
<1>1. p - 1 \in Nat /\ StringEnd(buff, 0) = p - 1
  BY CutString
<1>2. StringAt(buff, 0) = Slice(buff, 0, p - 1)
  BY <1>1 DEF StringAt
<1>3. QED
  BY <1>1, <1>2, SliceFacts

\* The value of a "firmware" file.
Version ==
  LET length == VersionLength(StringAt(buff, 0))
  IN  IF length = 0 THEN StringAt(buff, 1) ELSE Slice(buff, 1, length)

LEMMA VersionValue ==
  ASSUME TypeOK, Provenance, Control, Cutting, pc = "extract", source = "firmware"
  PROVE  \E n \in Nat :
           /\ Version \in Seq(Char) /\ Len(Version) = n /\ n < Len(FirstLine)
           /\ \A k \in 1 .. n : /\ Version[k] = FirstLine[k + 1]
                                /\ Version[k] \notin LineEnds \cup {Space}
           /\ n + 1 < Len(FirstLine) => FirstLine[n + 2] \in LineEnds \cup {Space}
<1> DEFINE s == StringAt(buff, 0)
<1>1. /\ p - 1 \in Nat /\ p - 1 > 0 /\ p - 1 <= Len(FirstLine)
      /\ StringEnd(buff, 1) = p - 1
      /\ p - 1 < Len(FirstLine) => FirstLine[p] \in LineEnds
  BY CutString
<1>2. /\ s \in Seq(Char) /\ Len(s) = p - 1
      /\ \A k \in 1 .. p - 1 : s[k] = FirstLine[k]
  BY LineValue
<1>3. /\ lines \in Files["firmware"] /\ lines \in Seq(Lines) /\ lines # <<>>
      /\ p \in Nat
  BY DEF Provenance, TypeOK, Control
<1>4. /\ Len(FirstLine) \in Nat
      /\ \A k \in 1 .. Len(FirstLine) : FirstLine[k] = lines[1][k]
      /\ Len(lines[1]) \in Nat /\ Len(FirstLine) <= Len(lines[1])
  <2>1. lines[1] \in Lines
    BY <1>3, LenProperties, EmptySeq, ElementOfSeq
  <2>2. lines[1] \in Seq(Char) /\ Len(lines[1]) \in Nat
    BY <2>1, LineFacts
  <2>3. Len(FirstLine) <= Len(lines[1])
    BY <2>2, SizeAssumption, UptoFacts DEF FirstLine
  <2>4. QED
    BY <1>3, <2>2, <2>3, FirstLineFacts
<1>5. CASE ~Occurs(s, Space)
  <2>1. Version = Slice(buff, 1, p - 2)
    <3>1. VersionLength(s) = 0 /\ (p - 1) - 1 = p - 2
      BY <1>3, <1>5 DEF VersionLength
    <3>2. QED
      BY <1>1, <3>1 DEF Version, StringAt
  <2>2. p - 2 \in Nat /\ 1 + (p - 2) <= p - 1
    BY <1>1, <1>3
  <2>3. /\ Slice(buff, 1, p - 2) \in Seq(Char)
        /\ Len(Slice(buff, 1, p - 2)) = p - 2
        /\ \A k \in 1 .. p - 2 : /\ Slice(buff, 1, p - 2)[k] = FirstLine[1 + k]
                                 /\ 1 + k > 1 => Slice(buff, 1, p - 2)[k] \notin LineEnds
    BY <2>2, SliceFacts
  <2>4. \A k \in 1 .. p - 2 : FirstLine[1 + k] # Space
    BY <1>2, <1>3, <1>5 DEF Occurs
  <2>5. \A k \in 1 .. p - 2 : k + 1 = 1 + k /\ 1 + k > 1
    BY <1>3
  <2>6. p - 2 < Len(FirstLine) /\ (p - 2) + 1 = p - 1 /\ (p - 2) + 2 = p
    BY <1>1, <1>3, <1>4
  <2>7. \A k \in 1 .. p - 2 : /\ Version[k] = FirstLine[k + 1]
                              /\ Version[k] \notin LineEnds \cup {Space}
    BY <2>1, <2>3, <2>4, <2>5
  <2>8. (p - 2) + 1 < Len(FirstLine) => FirstLine[(p - 2) + 2] \in LineEnds \cup {Space}
    BY <1>1, <2>6
  <2>9. Version \in Seq(Char) /\ Len(Version) = p - 2
    BY <2>1, <2>3
  <2>10. QED
    BY <2>2, <2>6, <2>7, <2>8, <2>9
<1>6. CASE Occurs(s, Space)
  <2> DEFINE at == Place(s, Space)
  <2>1. /\ at \in 1 .. Len(s) /\ s[at] = Space
        /\ \A k \in 1 .. at - 1 : s[k] # Space
    BY <1>2, <1>6, PlaceFacts
  <2> HIDE DEF at
  <2>2. at > 2
    <3>1. 1 \in 1 .. Len(lines)
      BY <1>3, LenProperties, EmptySeq
    <3>2. \A k \in 1 .. Len(lines[1]) \cap 1 .. 2 : lines[1][k] # Space
      BY <1>3, <3>1, VersionAssumption
    <3>3. SUFFICES ASSUME at <= 2 PROVE FALSE
      BY <1>2, <1>3, <2>1
    <3>4. at \in 1 .. Len(lines[1]) \cap 1 .. 2 /\ lines[1][at] = Space
      BY <1>1, <1>2, <1>4, <2>1, <3>3
    <3>5. QED
      BY <3>2, <3>4
  <2>3. at - 2 \in Nat /\ at - 2 # 0 /\ 1 + (at - 2) <= p - 1
    BY <1>1, <1>2, <2>1, <2>2
  <2>4. Version = Slice(buff, 1, at - 2)
    <3>1. VersionLength(s) = at - 2
      BY <1>6 DEF VersionLength, at
    <3>2. QED
      BY <2>3, <3>1 DEF Version
  <2>5. /\ Slice(buff, 1, at - 2) \in Seq(Char)
        /\ Len(Slice(buff, 1, at - 2)) = at - 2
        /\ \A k \in 1 .. at - 2 : /\ Slice(buff, 1, at - 2)[k] = FirstLine[1 + k]
                                  /\ 1 + k > 1 => Slice(buff, 1, at - 2)[k] \notin LineEnds
    BY <2>3, SliceFacts
  <2>6. ASSUME NEW k \in 1 .. at - 2 PROVE FirstLine[1 + k] # Space
    <3>1. 1 + k \in 1 .. at - 1 /\ 1 + k \in 1 .. p - 1
      BY <1>1, <1>2, <2>1
    <3>2. QED
      BY <1>2, <2>1, <3>1
  <2>7. \A k \in 1 .. at - 2 : k + 1 = 1 + k /\ 1 + k > 1
    OBVIOUS
  <2>8. at - 2 < Len(FirstLine) /\ (at - 2) + 2 = at /\ FirstLine[at] = Space
    BY <1>1, <1>2, <1>4, <2>1, <2>2
  <2>9. \A k \in 1 .. at - 2 : /\ Version[k] = FirstLine[k + 1]
                               /\ Version[k] \notin LineEnds \cup {Space}
    BY <2>4, <2>5, <2>6, <2>7
  <2>10. (at - 2) + 1 < Len(FirstLine) => FirstLine[(at - 2) + 2] \in LineEnds \cup {Space}
    BY <2>8
  <2>11. Version \in Seq(Char) /\ Len(Version) = at - 2
    BY <2>4, <2>5
  <2>12. QED
    BY <2>3, <2>8, <2>9, <2>10, <2>11
<1>7. QED
  BY <1>5, <1>6

LEMMA TypeStep == TypeOK /\ Provenance /\ Control /\ Cutting /\ Next => TypeOK'
<1> SUFFICES ASSUME TypeOK, Provenance, Control, Cutting, Next PROVE TypeOK'
  OBVIOUS
<1>1. CASE CannotRead
  BY <1>1 DEF TypeOK, CannotRead, Finish
<1>2. CASE ReadLine
  <2>1. unread # <<>> /\ unread = lines /\ DOMAIN buff = 0 .. Size - 1
    BY <1>2 DEF ReadLine, Control
  <2>2. Head(unread) \in Seq(Char)
    BY <2>1, NextLine, LineFacts
  <2>3. Size - 1 \in Nat
    BY SizeAssumption
  <2>4. Upto(Head(unread), Size - 1) \in Seq(Char)
    BY <2>2, <2>3, UptoFacts
  <2>5. \A i \in DOMAIN Fill(buff, Upto(Head(unread), Size - 1)) :
          Fill(buff, Upto(Head(unread), Size - 1))[i] \in Bytes
    <3>1. DOMAIN buff \subseteq Nat /\ \A i \in DOMAIN buff : buff[i] \in Bytes
      BY <2>1, <2>3 DEF TypeOK
    <3>2. QED
      BY <2>4, <3>1, FillFacts
  <2>6. QED
    BY <1>2, <2>4, <2>5, LenProperties DEF TypeOK, ReadLine
<1>3. CASE Strip
  BY <1>3 DEF TypeOK, Strip, Bytes
<1>4. CASE StripEnds
  BY <1>4 DEF TypeOK, StripEnds
<1>5. CASE ExtractLine
  <2>1. StringAt(buff, 0) \in Seq(Char)
    BY <1>5, LineValue DEF ExtractLine
  <2>2. report' = [report EXCEPT !["text"] = StringAt(buff, 0)]
    BY <1>5 DEF ExtractLine
  <2>3. QED
    BY <1>5, <2>1, <2>2, TextType DEF TypeOK, ExtractLine, Finish, Texts
<1>6. CASE ExtractVersion
  <2>1. Version \in Seq(Char)
    BY <1>6, VersionValue DEF ExtractVersion
  <2>2. report' = [report EXCEPT !["text"] = Version]
    BY <1>6 DEF ExtractVersion, Version
  <2>3. QED
    BY <1>6, <2>1, <2>2, TextType DEF TypeOK, ExtractVersion, Finish, Texts
<1>7. CASE OpenCpuInfo
  BY <1>7 DEF TypeOK, OpenCpuInfo
<1>8. CASE SkipLine
  BY <1>8, GetLineType DEF TypeOK, SkipLine, GetLine
<1>9. CASE NoValue
  BY <1>9, GetLineType DEF TypeOK, NoValue, GetLine, Finish
<1>10. CASE TakeValue
  <2>1. PICK t \in Seq(Char) : report' = [report EXCEPT !["text"] = t]
    BY <1>10, TakeValueFacts
  <2>2. GetLine /\ looked' = end' /\ pc' = "done" /\ code' = "ok"
    BY <1>10, TakeValueFacts DEF TakeValue, Finish
  <2>3. /\ report' \in [Fields -> Texts]
        /\ \A f \in Fields \ {"msisdn"} : report'[f] \in Seq(Char) \cup {NoText}
    BY <2>1, TextType
  <2>4. QED
    BY <2>2, <2>3, GetLineType DEF TypeOK, GetLine, Texts
<1>11. CASE SearchEnds
  BY <1>11 DEF TypeOK, SearchEnds, Finish
<1>12. CASE OpenModem
  BY <1>12 DEF TypeOK, OpenModem
<1>13. CASE TakeImsi \/ TakeIccid \/ TakeMsisdn \/ PassOver
  <2>1. /\ ReadModemLine /\ report' \in [Fields -> Texts]
        /\ \A f \in Fields \ {"msisdn"} : report'[f] \in Seq(Char) \cup {NoText}
        /\ looked' \in DOMAIN buff' /\ pc' \in {"modem", "dead"}
    BY <1>13, ModemStep
  <2>2. /\ unread' \in Seq(Lines) /\ end' \in Nat
        /\ \A i \in DOMAIN buff' : buff'[i] \in Bytes
        /\ DOMAIN buff' = 0 .. Size - 1
    BY <2>1, ReadModemLineType
  <2>3. looked' \in Nat
    BY <2>1, <2>2
  <2>4. QED
    BY <2>1, <2>2, <2>3 DEF TypeOK, ReadModemLine, Texts
<1>14. CASE ModemEnds
  BY <1>14 DEF TypeOK, ModemEnds, Finish, ModemCodes
<1>15. QED
  BY <1>1, <1>2, <1>3, <1>4, <1>5, <1>6, <1>7, <1>8, <1>9, <1>10, <1>11, <1>12,
     <1>13, <1>14 DEF Next

\* The actions that read a line of several, and all the others.
ReadsLine ==
  SkipLine \/ NoValue \/ TakeValue \/ TakeImsi \/ TakeIccid \/ TakeMsisdn \/ PassOver

LEMMA ReadsLineFacts ==
  ASSUME ReadsLine
  PROVE  /\ unread # <<>> /\ unread' = Tail(unread)
         /\ source' = source /\ lines' = lines /\ p' = p
         /\ pc \in {"search", "modem"}
BY DEF ReadsLine, SkipLine, NoValue, TakeValue, TakeImsi, TakeIccid, TakeMsisdn,
       PassOver, GetLine, ReadModemLine

LEMMA ProvenanceStep ==
  TypeOK /\ Provenance /\ Next => Provenance' /\ source' = source /\ lines' = lines
<1> SUFFICES ASSUME TypeOK, Provenance, Next
             PROVE  Provenance' /\ source' = source /\ lines' = lines
  OBVIOUS
<1>1. CASE ReadsLine
  <2>1. /\ unread # <<>> /\ unread' = Tail(unread)
        /\ source' = source /\ lines' = lines
    BY <1>1, ReadsLineFacts
  <2>2. /\ Len(Tail(unread)) = Len(unread) - 1
        /\ Len(unread) \in Nat /\ Len(lines) \in Nat
        /\ \A i \in 1 .. Len(Tail(unread)) :
             Tail(unread)[i] = lines[Len(lines) - Len(Tail(unread)) + i]
    BY <2>1, NextLine
  <2>3. QED
    BY <2>1, <2>2 DEF Provenance
<1>2. CASE ~ReadsLine
  <2>1. UNCHANGED <<source, lines, unread>>
    BY <1>2 DEF Next, ReadsLine, CannotRead, ReadLine, Strip, StripEnds, ExtractLine,
                ExtractVersion, OpenCpuInfo, SearchEnds, OpenModem, ModemEnds
  <2>2. QED
    BY <2>1 DEF Provenance
<1>3. QED
  BY <1>1, <1>2

LEMMA ControlStep == TypeOK /\ Provenance /\ Control /\ Next => Control'
<1> SUFFICES ASSUME TypeOK, Provenance, Control, Next PROVE Control'
  OBVIOUS
<1> USE DEF Control
<1>1. CASE CannotRead
  BY <1>1 DEF CannotRead, Finish
<1>2. CASE ReadLine
  <2>1. /\ unread = lines /\ lines # <<>> /\ DOMAIN buff = 0 .. Size - 1
        /\ lines \in Seq(Lines)
    BY <1>2 DEF ReadLine, TypeOK
  <2>2. Head(lines) = lines[1]
    BY <2>1
  <2>3. end' = Len(FirstLine)
    BY <1>2, <2>1, <2>2 DEF ReadLine, FirstLine
  <2>4. DOMAIN buff' = 0 .. Size - 1
    BY <1>2, <2>1 DEF ReadLine, Fill
  <2>5. FirstLine' = FirstLine
    BY <1>2 DEF ReadLine, FirstLine
  <2>6. QED
    BY <1>2, <2>1, <2>3, <2>4, <2>5 DEF ReadLine
<1>3. CASE Strip
  <2>1. DOMAIN buff' = DOMAIN buff /\ FirstLine' = FirstLine
    BY <1>3 DEF Strip, FirstLine
  <2>2. QED
    BY <1>3, <2>1 DEF Strip
<1>4. CASE StripEnds
  <2>1. FirstLine' = FirstLine
    BY <1>4 DEF StripEnds, FirstLine
  <2>2. QED
    BY <1>4, <2>1 DEF StripEnds
<1>5. CASE ExtractLine \/ ExtractVersion
  BY <1>5 DEF ExtractLine, ExtractVersion, Finish
<1>6. CASE OpenCpuInfo \/ SearchEnds
  BY <1>6 DEF OpenCpuInfo, SearchEnds, Finish
<1>7. CASE SkipLine \/ NoValue \/ TakeValue
  BY <1>7 DEF SkipLine, NoValue, TakeValue, GetLine, Finish
<1>8. CASE TakeImsi \/ TakeIccid \/ TakeMsisdn \/ PassOver
  <2>1. ReadModemLine
    BY <1>8, ModemStep
  <2>2. DOMAIN buff' = DOMAIN buff
    BY <2>1, ReadModemLineType
  <2>3. pc' \in {"modem", "dead"}
    BY <1>8, ModemStep
  <2>4. QED
    BY <2>1, <2>2, <2>3 DEF ReadModemLine
<1>9. CASE OpenModem \/ ModemEnds
  BY <1>9 DEF OpenModem, ModemEnds, Finish
<1>10. QED
  BY <1>1, <1>2, <1>3, <1>4, <1>5, <1>6, <1>7, <1>8, <1>9 DEF Next

\* What a turn of the loop finds: it has not come to the end of the line.
LEMMA TurnFacts ==
  ASSUME TypeOK, Control, Cutting, pc = "strip"
  PROVE  /\ p \in Nat /\ end \in Nat /\ p <= end /\ end <= Size - 1
         /\ buff[p] # Nul => p < end /\ Uncut(p)
         /\ buff[p] = Nul => CutAt(p)
         /\ CutUpTo(p)
<1>1. /\ p \in Nat /\ end \in Nat /\ lines \in Seq(Lines) /\ lines # <<>>
      /\ end = Len(FirstLine)
      /\ CutUpTo(p) /\ (CutAt(p) \/ Uncut(p))
  BY DEF TypeOK, Control, Cutting
<1>2. end >= 1 /\ end <= Size - 1 /\ \A i \in 1 .. end : FirstLine[i] \in Char
  BY <1>1, FirstLineFacts, SizeAssumption
<1>3. p <= end
  BY <1>1 DEF CutUpTo
<1>4. buff[p] # Nul => p < end /\ Uncut(p)
  BY <1>1, <1>3 DEF CutAt, Uncut
<1>5. ASSUME buff[p] = Nul, Uncut(p) PROVE CutAt(p)
  <2>1. p < end => buff[p] = FirstLine[p + 1] /\ FirstLine[p + 1] \in Char
    BY <1>1, <1>2, <1>5 DEF Uncut
  <2>2. p = end
    BY <1>1, <1>3, <1>5, <2>1, CharAssumption
  <2>3. QED
    BY <1>1, <1>2, <1>5, <2>2 DEF CutAt
<1>6. QED
  BY <1>1, <1>2, <1>3, <1>4, <1>5

LEMMA LooksStep ==
  TypeOK /\ Provenance /\ Control /\ LooksInLine /\ Cutting /\ Next => LooksInLine'
<1> SUFFICES ASSUME TypeOK, Provenance, Control, LooksInLine, Cutting, Next
             PROVE  LooksInLine'
  OBVIOUS
<1>1. CASE ReadLine
  <2>1. DOMAIN buff' = 0 .. Size - 1 /\ looked' = 0
    BY <1>1 DEF ReadLine, Fill, Control
  <2>2. end' \in Nat /\ looked' \in DOMAIN buff'
    BY <2>1, TypeStep, SizeAssumption DEF TypeOK
  <2>3. ~(looked' > end')
    BY <2>1, <2>2
  <2>4. QED
    BY <2>2, <2>3 DEF LooksInLine
<1>2. CASE Strip
  <2>1. /\ p \in Nat /\ end \in Nat /\ p < end /\ end <= Size - 1 /\ Size \in Nat
        /\ DOMAIN buff = 0 .. Size - 1
    BY <1>2, TurnFacts, SizeAssumption DEF Strip, Control
  <2>2. DOMAIN buff' = DOMAIN buff /\ looked' = p + 1 /\ end' = end
    BY <1>2 DEF Strip
  <2>3. looked' \in DOMAIN buff' /\ ~(looked' > end')
    BY <2>1, <2>2
  <2>4. QED
    BY <2>3 DEF LooksInLine
<1>3. CASE TakeImsi \/ TakeIccid \/ TakeMsisdn \/ PassOver
  <2>1. /\ ReadModemLine /\ looked' \in DOMAIN buff'
        /\ looked' > end' => TakeMsisdn /\ end' < CnumOffset
    BY <1>3, ModemStep
  <2>2. source' = "sim" /\ StringAt(buff', 0) = Head(unread)
    BY <2>1, ReadModemLineType DEF ReadModemLine, Control
  <2>3. TakeMsisdn => StartsWith(Head(unread), CnumKey)
    BY DEF TakeMsisdn, IsMsisdn
  <2>4. QED
    BY <2>1, <2>2, <2>3 DEF LooksInLine
<1>4. CASE SkipLine \/ NoValue \/ TakeValue
  <2>1. GetLine
    BY <1>4 DEF SkipLine, NoValue, TakeValue
  <2>2. end' \in Nat
    BY <2>1, GetLineType
  <2>3. looked' = 0 \/ looked' = end'
    BY <1>4, TakeValueFacts DEF SkipLine, NoValue
  <2>4. DOMAIN buff' = 0 .. end'
    BY <2>1 DEF GetLine, Fill
  <2>5. looked' \in DOMAIN buff' /\ ~(looked' > end')
    BY <2>2, <2>3, <2>4
  <2>6. QED
    BY <2>5 DEF LooksInLine
<1>5. CASE CannotRead \/ StripEnds \/ ExtractLine \/ ExtractVersion \/ OpenCpuInfo
           \/ SearchEnds \/ OpenModem \/ ModemEnds
  <2>1. UNCHANGED <<source, buff, end, looked>>
    BY <1>5 DEF CannotRead, StripEnds, ExtractLine, ExtractVersion, OpenCpuInfo,
                SearchEnds, OpenModem, ModemEnds
  <2>2. QED
    BY <2>1 DEF LooksInLine
<1>6. QED
  BY <1>1, <1>2, <1>3, <1>4, <1>5 DEF Next

LEMMA CuttingStep == TypeOK /\ Provenance /\ Control /\ Cutting /\ Next => Cutting'
<1> SUFFICES ASSUME TypeOK, Provenance, Control, Cutting, Next PROVE Cutting'
  OBVIOUS
<1>1. CASE ReadLine
  <2> DEFINE s == FirstLine
  <2>1. /\ unread = lines /\ lines # <<>> /\ lines \in Seq(Lines)
        /\ DOMAIN buff = 0 .. Size - 1 /\ Head(lines) = lines[1]
        /\ pc' = "strip" /\ p' = 0 /\ FirstLine' = s
    BY <1>1 DEF ReadLine, TypeOK, Control, FirstLine
  <2>2. end' = Len(s) /\ buff' = Fill(buff, s)
    BY <1>1, <2>1 DEF ReadLine, FirstLine
  <2>3. Len(s) \in 1 .. Size - 1
    BY <2>1, FirstLineFacts
  <2>4. \A i \in 0 .. Size - 1 :
          buff'[i] = IF i < Len(s) THEN s[i + 1] ELSE IF i = Len(s) THEN Nul ELSE buff[i]
    BY <2>1, <2>2 DEF Fill
  <2>5. CutUpTo(0)'
    BY <2>2, <2>3 DEF CutUpTo
  <2>6. Uncut(0)'
    <3>1. \A i \in 0 .. end' - 1 : buff'[i] = FirstLine'[i + 1]
      BY <2>1, <2>2, <2>3, <2>4, SizeAssumption
    <3>2. buff'[end'] = Nul
      BY <2>2, <2>3, <2>4, SizeAssumption
    <3>3. QED
      BY <3>1, <3>2 DEF Uncut
  <2>7. QED
    BY <2>1, <2>5, <2>6 DEF Cutting
<1>2. CASE Strip
  <2>1. /\ p \in Nat /\ end \in Nat /\ p < end /\ end <= Size - 1
        /\ Uncut(p) /\ CutUpTo(p) /\ buff[p] # Nul
        /\ DOMAIN buff = 0 .. Size - 1 /\ Size - 1 \in Nat
        /\ end = Len(FirstLine) /\ lines # <<>> /\ lines \in Seq(Lines)
    BY <1>2, TurnFacts, SizeAssumption DEF Strip, Control, TypeOK
  <2>2. /\ p' = p + 1 /\ pc' = "strip" /\ end' = end /\ FirstLine' = FirstLine
        /\ buff' = IF buff[p + 1] \in LineEnds
                   THEN [buff EXCEPT ![p + 1] = Nul] ELSE buff
    BY <1>2 DEF Strip, FirstLine
  <2>3. /\ \A i \in 0 .. p - 1 : buff[i] = FirstLine[i + 1]
        /\ \A i \in 1 .. p - 1 : buff[i] \notin LineEnds
        /\ \A i \in p .. end - 1 : buff[i] = FirstLine[i + 1]
        /\ buff[end] = Nul
        /\ p > 0 => buff[p] \notin LineEnds
    BY <2>1 DEF CutUpTo, Uncut
  <2>4. \A i \in 0 .. p : buff'[i] = buff[i]
    BY <2>1, <2>2
  <2>5. CutUpTo(p)'
    <3>1. \A i \in 0 .. p : buff'[i] = FirstLine'[i + 1]
      BY <2>1, <2>2, <2>3, <2>4
    <3>2. \A i \in 1 .. p : buff'[i] \notin LineEnds
      BY <2>1, <2>3, <2>4
    <3>3. p' <= end' /\ p' - 1 = p
      BY <2>1, <2>2
    <3>4. QED
      BY <3>1, <3>2, <3>3 DEF CutUpTo
  <2>6. CASE buff[p + 1] \in LineEnds
    <3>1. LineEnds \subseteq Char /\ Nul \notin LineEnds
      BY CharAssumption DEF LineEnds
    <3>2. p + 1 < end /\ FirstLine[(p + 1) + 1] \in LineEnds
      <4>1. buff[p + 1] # Nul /\ p + 1 \in Nat /\ p + 1 <= end
        BY <2>1, <2>6, <3>1
      <4>2. p + 1 # end
        BY <2>3, <4>1
      <4>3. p + 1 \in p .. end - 1
        BY <2>1, <4>1, <4>2
      <4>4. buff[p + 1] = FirstLine[(p + 1) + 1]
        BY <2>3, <4>3
      <4>5. QED
        BY <2>1, <2>6, <4>1, <4>2, <4>4
    <3>3. buff'[p + 1] = Nul
      BY <2>1, <2>2, <2>6
    <3>4. CutAt(p)'
      BY <2>1, <2>2, <2>5, <3>2, <3>3 DEF CutAt
    <3>5. QED
      BY <2>2, <2>5, <3>4 DEF Cutting
  <2>7. CASE buff[p + 1] \notin LineEnds
    <3>1. Uncut(p)'
      BY <2>1, <2>2, <2>3, <2>7 DEF Uncut
    <3>2. QED
      BY <2>2, <2>5, <3>1 DEF Cutting
  <2>8. QED
    BY <2>6, <2>7
<1>3. CASE StripEnds
  <2>1. CutAt(p) /\ p \in Nat
    BY <1>3, TurnFacts DEF StripEnds
  <2>2. /\ UNCHANGED <<buff, end, lines>> /\ p' - 1 = p /\ pc' = "extract"
    BY <1>3, <2>1 DEF StripEnds
  <2>3. CutAt(p - 1)'
    BY <2>1, <2>2 DEF CutAt, CutUpTo, FirstLine
  <2>4. QED
    BY <2>2, <2>3 DEF Cutting
<1>4. CASE ~(ReadLine \/ Strip \/ StripEnds)
  <2>1. pc' \notin {"strip", "extract"}
    BY <1>4 DEF Next, CannotRead, ExtractLine, ExtractVersion, OpenCpuInfo, SkipLine,
      NoValue, TakeValue, SearchEnds, OpenModem, TakeImsi, TakeIccid, TakeMsisdn,
      PassOver, ModemEnds, GetLine, ReadModemLine, Finish
  <2>2. QED
    BY <2>1 DEF Cutting
<1>5. QED
  BY <1>1, <1>2, <1>3, <1>4

\* The line that is read is the next one behind those that have been.
LEMMA ReadSoFarGrows ==
  ASSUME TypeOK, Provenance, ReadsLine
  PROVE  /\ Len(lines) - Len(unread) + 1 \in 1 .. Len(lines)
         /\ Head(unread) = lines[Len(lines) - Len(unread) + 1]
         /\ ReadSoFar' = ReadSoFar \cup {Len(lines) - Len(unread) + 1}
         /\ ReadSoFar = 1 .. (Len(lines) - Len(unread) + 1) - 1
<1>1. unread # <<>> /\ unread' = Tail(unread) /\ lines' = lines
  BY ReadsLineFacts
<1>2. /\ Len(Tail(unread)) = Len(unread) - 1
      /\ Len(unread) \in Nat /\ Len(lines) \in Nat
      /\ Len(lines) - Len(unread) + 1 \in 1 .. Len(lines)
      /\ Head(unread) = lines[Len(lines) - Len(unread) + 1]
  BY <1>1, NextLine
<1>3. QED
  BY <1>1, <1>2 DEF ReadSoFar

LEMMA SearchingStep ==
  TypeOK /\ Provenance /\ Control /\ Searching /\ Next => Searching'
<1> SUFFICES ASSUME TypeOK, Provenance, Control, Searching, Next PROVE Searching'
  OBVIOUS
<1> DEFINE next == Len(lines) - Len(unread) + 1
<1>1. CASE OpenCpuInfo \/ OpenModem
  <2>1. unread' = lines' /\ Len(lines') - Len(unread') = 0
    <3>1. unread = lines /\ Len(lines) \in Nat
      BY <1>1, LenProperties DEF OpenCpuInfo, OpenModem, Control, TypeOK
    <3>2. QED
      BY <1>1, <3>1 DEF OpenCpuInfo, OpenModem
  <2>2. ReadSoFar' = {}
    BY <2>1 DEF ReadSoFar
  <2>3. QED
    BY <2>2 DEF Searching
<1>2. CASE SkipLine
  <2>1. /\ pc = "search" /\ pc' = "search" /\ lines' = lines
        /\ ~StartsWith(Head(unread), Key)
    BY <1>2 DEF SkipLine, GetLine, Searched
  <2>2. ReadSoFar' = ReadSoFar \cup {next} /\ Head(unread) = lines[next]
    BY <1>2, ReadSoFarGrows DEF ReadsLine
  <2>3. QED
    BY <2>1, <2>2 DEF Searching
<1>3. CASE PassOver
  <2>1. /\ pc = "modem" /\ pc' = "modem" /\ lines' = lines /\ report' = report
        /\ ~IsImsi(Head(unread)) /\ ~IsIccid(Head(unread)) /\ ~IsMsisdn(Head(unread))
    BY <1>3 DEF PassOver, ReadModemLine
  <2>2. ReadSoFar' = ReadSoFar \cup {next} /\ Head(unread) = lines[next]
    BY <1>3, ReadSoFarGrows DEF ReadsLine
  <2>3. Head(unread) \in Lines
    BY <1>3, NextLine DEF PassOver, ReadModemLine
  <2>4. ASSUME report = NoReport
        PROVE  /\ Len(Head(unread)) <= ImsiWidth
               /\ ~StartsWith(Head(unread), CcidKey) /\ ~StartsWith(Head(unread), CnumKey)
    <3>1. report["imsi"] = NoText /\ report["iccid"] = NoText /\ report["msisdn"] = NoText
      BY <2>4 DEF NoReport, Fields
    <3>2. Len(Head(unread)) \in Nat /\ ImsiWidth \in Nat
      BY <2>3, LineFacts, PlacesAssumption
    <3>3. QED
      BY <2>1, <3>1, <3>2 DEF IsImsi, IsIccid, IsMsisdn
  <2>5. QED
    BY <2>1, <2>2, <2>4 DEF Searching
<1>4. CASE TakeImsi \/ TakeIccid \/ TakeMsisdn
  <2>1. ReadModemLine /\ (PassOver \/ report' # NoReport)
    BY <1>4, ModemStep
  <2>2. pc' \in {"modem", "dead"}
    BY <1>4, ModemStep
  <2>3. QED
    BY <1>3, <2>1, <2>2 DEF Searching
<1>5. CASE ~(OpenCpuInfo \/ OpenModem \/ SkipLine \/ PassOver
             \/ TakeImsi \/ TakeIccid \/ TakeMsisdn)
  <2>1. pc' \in {"search", "modem"} => NoValue \/ TakeValue
    BY <1>5 DEF Next, CannotRead, ReadLine, Strip, StripEnds, ExtractLine,
                ExtractVersion, SearchEnds, ModemEnds, Finish
  <2>2. NoValue \/ TakeValue => pc' \notin {"search", "modem"}
    BY DEF NoValue, TakeValue, Finish
  <2>3. QED
    BY <2>1, <2>2 DEF Searching
<1>6. QED
  BY <1>1, <1>2, <1>3, <1>4, <1>5

\* A well-formed entry is put together from its value.
LEMMA EntryText ==
  ASSUME NEW l \in Lines, WellFormed(l), NEW t \in Seq(Char),
         Len(t) = Len(l) - Place(l, Colon) - 2,
         \A i \in 1 .. Len(t) : t[i] = l[Place(l, Colon) + 1 + i]
  PROVE  l = SubSeq(l, 1, Place(l, Colon)) \o <<Space>> \o t \o <<LineFeed>>
<1> DEFINE at == Place(l, Colon)
           a == SubSeq(l, 1, at)
           ab == a \o <<Space>>
           abt == ab \o t
<1>1. l \in Seq(Char) /\ Len(l) \in Nat /\ \A i \in 1 .. Len(l) : l[i] \in Char
  BY LineFacts
<1>2. /\ Occurs(l, Colon) /\ l[at + 1] = Space
      /\ Len(l) > at + 1 /\ l[Len(l)] = LineFeed
  BY DEF WellFormed, HasValue
<1>3. at \in 1 .. Len(l)
  BY <1>1, <1>2, PlaceFacts
<1>4. a \in Seq(Char) /\ Len(a) = at /\ \A i \in 1 .. at : a[i] = l[i]
  <2>1. \A i \in 1 .. at : l[i] \in Char
    BY <1>1, <1>3
  <2>2. /\ a \in Seq(Char)
        /\ Len(a) = IF 1 <= at THEN at - 1 + 1 ELSE 0
        /\ \A i \in 1 .. at - 1 + 1 : a[i] = l[1 + i - 1]
    BY <1>1, <1>3, <2>1, SubSeqProperties
  <2>3. QED
    BY <1>1, <1>3, <2>2
<1> HIDE DEF at, a
<1>5. <<Space>> \in Seq(Char) /\ <<LineFeed>> \in Seq(Char)
  BY CharAssumption
<1>6. /\ ab \in Seq(Char) /\ Len(ab) = at + 1
      /\ \A i \in 1 .. at + 1 : ab[i] = IF i <= at THEN a[i] ELSE <<Space>>[i - at]
  BY <1>3, <1>4, <1>5, ConcatProperties
<1> HIDE DEF ab
<1>7. /\ abt \in Seq(Char) /\ Len(abt) = at + 1 + Len(t)
      /\ \A i \in 1 .. at + 1 + Len(t) :
           abt[i] = IF i <= at + 1 THEN ab[i] ELSE t[i - (at + 1)]
  <2>1. /\ ab \o t \in Seq(Char) /\ Len(ab \o t) = Len(ab) + Len(t)
        /\ \A i \in 1 .. Len(ab) + Len(t) :
             (ab \o t)[i] = IF i <= Len(ab) THEN ab[i] ELSE t[i - Len(ab)]
    BY <1>6, ConcatProperties
  <2>2. Len(ab) = at + 1
    BY <1>6
  <2>3. QED
    BY <2>1, <2>2
<1> HIDE DEF abt
<1>8. /\ abt \o <<LineFeed>> \in Seq(Char) /\ Len(abt \o <<LineFeed>>) = Len(abt) + 1
      /\ \A i \in 1 .. Len(abt) + 1 :
           (abt \o <<LineFeed>>)[i] = IF i <= Len(abt) THEN abt[i] ELSE <<LineFeed>>[i - Len(abt)]
  BY <1>5, <1>7, ConcatProperties
<1>9. Len(abt) + 1 = Len(l)
  BY <1>1, <1>3, <1>7 DEF at
<1>10. ASSUME NEW i \in 1 .. Len(l) PROVE l[i] = (abt \o <<LineFeed>>)[i]
  <2>1. CASE i <= at
    BY <1>3, <1>4, <1>6, <1>7, <1>8, <1>9, <2>1
  <2>2. CASE i = at + 1
    <3>1. l[at + 1] = Space
      BY <1>2 DEF at
    <3>2. ab[at + 1] = Space
      BY <1>1, <1>3, <1>6
    <3>3. Len(t) \in Nat /\ at + 1 \in 1 .. Len(abt) /\ Len(abt) \in Nat
      BY <1>1, <1>3, <1>7, LenProperties
    <3>4. (abt \o <<LineFeed>>)[at + 1] = abt[at + 1]
      BY <1>8, <3>3
    <3>5. abt[at + 1] = ab[at + 1]
      BY <1>3, <1>7, <3>3
    <3>6. QED
      BY <2>2, <3>1, <3>2, <3>4, <3>5
  <2>3. CASE i > at + 1 /\ i < Len(l)
    <3>1. i - (at + 1) \in 1 .. Len(t) /\ at + 1 + (i - (at + 1)) = i
      BY <1>1, <1>3, <1>9, <1>7, <2>3
    <3>2. t[i - (at + 1)] = l[i]
      BY <3>1 DEF at
    <3>3. QED
      BY <1>3, <1>7, <1>8, <1>9, <2>3, <3>1, <3>2
  <2>4. CASE i = Len(l)
    <3>1. Len(abt) \in Nat /\ Len(l) - Len(abt) = 1 /\ Len(l) \in 1 .. Len(abt) + 1
      BY <1>1, <1>7, <1>9, LenProperties
    <3>2. (abt \o <<LineFeed>>)[Len(l)] = <<LineFeed>>[Len(l) - Len(abt)]
      BY <1>1, <1>8, <3>1
    <3>3. <<LineFeed>>[Len(l) - Len(abt)] = LineFeed
      BY <3>1
    <3>4. l[Len(l)] = LineFeed
      BY <1>2
    <3>5. QED
      BY <2>4, <3>2, <3>3, <3>4
  <2>5. i <= at \/ i = at + 1 \/ (i > at + 1 /\ i < Len(l)) \/ i = Len(l)
    BY <1>1, <1>3
  <2>6. QED
    BY <2>1, <2>2, <2>3, <2>4, <2>5
<1>11. l = abt \o <<LineFeed>>
  BY <1>1, <1>8, <1>9, <1>10, SeqEqual
<1>12. QED
  BY <1>11 DEF abt, ab, a, at

\* The first entry with the key is the line that ended the search.
LEMMA EntryIsNext ==
  ASSUME TypeOK, Provenance, Control, Searching, NoValue \/ TakeValue
  PROVE  LET next == Len(lines) - Len(unread) + 1
         IN  /\ next \in 1 .. Len(lines) /\ lines[next] = Searched
             /\ Entry(next)
             /\ \A i \in 1 .. Len(lines) : Entry(i) => i = next
<1> DEFINE next == Len(lines) - Len(unread) + 1
<1>1. pc = "search" /\ StartsWith(Searched, Key)
  BY DEF NoValue, TakeValue, GetLine
<1>2. next \in 1 .. Len(lines) /\ lines[next] = Searched /\ ReadSoFar = 1 .. next - 1
  BY ReadSoFarGrows DEF ReadsLine, Searched
<1>3. \A j \in 1 .. next - 1 : ~StartsWith(lines[j], Key)
  BY <1>1, <1>2 DEF Searching
<1>4. Entry(next)
  BY <1>1, <1>2, <1>3 DEF Entry
<1>5. Len(lines) \in Nat
  BY LenProperties DEF TypeOK
<1> HIDE DEF next
<1>6. ASSUME NEW i \in 1 .. Len(lines), Entry(i) PROVE i = next
  <2>1. ~(i < next)
    BY <1>2, <1>3, <1>5, <1>6 DEF Entry
  <2>2. ~(next < i)
    BY <1>2, <1>4, <1>5, <1>6 DEF Entry
  <2>3. QED
    BY <1>2, <1>5, <2>1, <2>2
<1>7. QED
  BY <1>2, <1>4, <1>6 DEF next

LEMMA ResultsStep ==
  TypeOK /\ Provenance /\ Control /\ Cutting /\ Searching /\ Next => Results'
<1> SUFFICES ASSUME TypeOK, Provenance, Control, Cutting, Searching, Next PROVE Results'
  OBVIOUS
<1>1. TypeOK' /\ Control' /\ source' = source /\ lines' = lines
  BY TypeStep, ControlStep, ProvenanceStep
<1>2. FirstLine' = FirstLine
  BY <1>1 DEF FirstLine
<1>3. pc # "done"
  BY DEF Next, CannotRead, ReadLine, Strip, StripEnds, ExtractLine, ExtractVersion,
         OpenCpuInfo, SkipLine, NoValue, TakeValue, SearchEnds, OpenModem, TakeImsi,
         TakeIccid, TakeMsisdn, PassOver, ModemEnds, GetLine, ReadModemLine
<1>4. CASE pc' # "done"
  BY <1>1, <1>4 DEF Control, Results, StripsLine, FirmwareIsFirstWord, EntryIsRead,
                    SimCodeDefined
<1>5. CASE CannotRead
  BY <1>5 DEF CannotRead, Finish, Results, StripsLine, FirmwareIsFirstWord, EntryIsRead,
              SimCodeDefined
<1>6. CASE ExtractLine
  <2> DEFINE value == StringAt(buff, 0)
  <2>1. /\ Len(value) = p - 1 /\ p - 1 \in Nat /\ p - 1 > 0 /\ p - 1 <= Len(FirstLine)
        /\ \A k \in 1 .. p - 1 : value[k] = FirstLine[k] /\ (k > 1 => value[k] \notin LineEnds)
        /\ p - 1 < Len(FirstLine) => FirstLine[p] \in LineEnds
        /\ p \in Nat
    BY <1>6, LineValue, CutString DEF ExtractLine, TypeOK
  <2>2. report'["text"] = value /\ source' = "proc" /\ code' = "ok"
    BY <1>6 DEF ExtractLine, TypeOK, Finish, Fields
  <2> HIDE DEF value
  <2>3. StripsLine'
    <3>1. \A k \in 2 .. p - 1 : value[k] \notin LineEnds
      BY <2>1
    <3>2. p - 1 < Len(FirstLine) => p - 1 > 0 /\ FirstLine[(p - 1) + 1] \in LineEnds
      BY <2>1
    <3>3. QED
      BY <1>2, <2>1, <2>2, <3>1, <3>2 DEF StripsLine
  <2>4. QED
    BY <2>2, <2>3 DEF Results, FirmwareIsFirstWord, EntryIsRead, SimCodeDefined
<1>7. CASE ExtractVersion
  <2>1. report'["text"] = Version /\ source' = "firmware" /\ code' = "ok"
    BY <1>7 DEF ExtractVersion, Version, TypeOK, Finish, Fields
  <2>2. PICK n \in Nat :
          /\ Len(Version) = n /\ n < Len(FirstLine)
          /\ \A k \in 1 .. n : /\ Version[k] = FirstLine[k + 1]
                               /\ Version[k] \notin LineEnds \cup {Space}
          /\ n + 1 < Len(FirstLine) => FirstLine[n + 2] \in LineEnds \cup {Space}
    BY <1>7, VersionValue DEF ExtractVersion
  <2>3. FirmwareIsFirstWord'
    BY <1>2, <2>1, <2>2 DEF FirmwareIsFirstWord, LineEnds
  <2>4. QED
    BY <2>1, <2>3 DEF Results, StripsLine, EntryIsRead, SimCodeDefined
<1>8. CASE SearchEnds
  <2>1. ReadSoFar = 1 .. Len(lines)
    BY <1>8, LenProperties DEF SearchEnds, ReadSoFar, TypeOK
  <2>2. \A i \in 1 .. Len(lines) : ~Entry(i)
    BY <1>8, <2>1 DEF SearchEnds, Searching, Entry
  <2>3. code' = "noent" /\ \A i \in 1 .. Len(lines') : ~Entry(i)'
    BY <1>1, <1>8, <2>2 DEF SearchEnds, Finish, Entry
  <2>4. QED
    BY <2>3 DEF Results, StripsLine, FirmwareIsFirstWord, EntryIsRead, SimCodeDefined
<1>9. CASE NoValue /\ pc' = "done"
  <2>1. \A i \in 1 .. Len(lines) : Entry(i) => ~HasValue(lines[i])
    BY <1>9, EntryIsNext DEF NoValue
  <2>2. code' = "noent" /\ \A i \in 1 .. Len(lines') : Entry(i)' => ~HasValue(lines'[i])
    BY <1>1, <1>9, <2>1 DEF NoValue, Finish, Entry
  <2>3. QED
    BY <2>2 DEF WellFormed, Results, StripsLine, FirmwareIsFirstWord, EntryIsRead, SimCodeDefined
<1>10. CASE TakeValue
  <2> DEFINE next == Len(lines) - Len(unread) + 1
             at   == Place(Searched, Colon)
             rest == SubSeq(Searched, at + 1 + 1, Len(Searched))
  <2>1. /\ next \in 1 .. Len(lines) /\ lines[next] = Searched /\ Entry(next)
        /\ \A i \in 1 .. Len(lines) : Entry(i) => i = next
    BY <1>10, EntryIsNext
  <2>2. /\ at + 1 \in Nat /\ rest \in Seq(Char) /\ Len(rest) = Len(Searched) - (at + 1)
        /\ \A i \in 1 .. Len(rest) : rest[i] = Searched[at + 1 + i]
        /\ Taken(rest) \in Seq(Char)
        /\ report' = [report EXCEPT !["text"] = Taken(rest)]
    BY <1>10, TakeValueFacts
  <2>3. report'["text"] = Taken(rest) /\ code' = "ok" /\ source' = "cpuinfo"
    BY <1>1, <1>10, <2>2 DEF TakeValue, GetLine, TypeOK, Finish, Fields, Control
  <2>4. Searched \in Lines /\ Len(Searched) \in Nat /\ at \in 1 .. Len(Searched)
    <3>1. Searched \in Lines
      BY <1>10, NextLine DEF TakeValue, GetLine, Searched
    <3>2. Searched \in Seq(Char) /\ Occurs(Searched, Colon)
      BY <1>10, <3>1, LineFacts DEF TakeValue, HasValue
    <3>3. QED
      BY <3>1, <3>2, LineFacts, PlaceFacts
  <2> HIDE DEF rest, next
  <2>5. ASSUME WellFormed(Searched)
        PROVE  Searched = SubSeq(Searched, 1, at) \o <<Space>> \o Taken(rest) \o <<LineFeed>>
    <3>1. Len(Searched) > at + 1
      BY <2>5 DEF WellFormed
    <3>2. Len(rest) \in Nat /\ Len(rest) - 1 \in Nat /\ Len(rest) - 1 < Len(rest)
      BY <2>2, <2>4, <3>1
    <3>3. /\ Len(Taken(rest)) = Len(rest) - 1
          /\ \A i \in 1 .. Len(Taken(rest)) : Taken(rest)[i] = rest[i]
      <4>1. Taken(rest) = Upto(rest, Len(rest) - 1)
        BY <3>2 DEF Taken, AsSize
      <4>2. rest \in Seq(Char)
        BY <2>2
      <4>3. QED
        BY <3>2, <4>1, <4>2, UptoFacts
    <3>4. /\ Len(Taken(rest)) = Len(Searched) - at - 2
          /\ \A i \in 1 .. Len(Taken(rest)) : Taken(rest)[i] = Searched[at + 1 + i]
      BY <2>2, <2>4, <3>2, <3>3
    <3>5. QED
      BY <2>2, <2>4, <2>5, <3>4, EntryText
  <2>8. ASSUME Len(Searched) = at + 1 PROVE Taken(rest) = <<>>
    <3>1. Len(rest) = 0 /\ rest \in Seq(Char) /\ AsSize(Len(rest) - 1) \in Int
      BY <2>2, <2>4, <2>8, SizeAssumption DEF AsSize
    <3>2. Len(Taken(rest)) <= 0
      BY <3>1, UptoFacts DEF Taken
    <3>3. QED
      BY <2>2, <3>2, LenProperties, EmptySeq
  <2>6. EntryIsRead'
    <3>1. \A i \in 1 .. Len(lines) :
            Entry(i) /\ WellFormed(lines[i]) =>
              lines[i] = SubSeq(lines[i], 1, Place(lines[i], Colon))
                           \o <<Space>> \o Taken(rest) \o <<LineFeed>>
      BY <2>1, <2>5
    <3>2. \A i \in 1 .. Len(lines) : Entry(i)' <=> Entry(i)
      BY <1>1 DEF Entry
    <3>3. \E i \in 1 .. Len(lines) : Entry(i)'
      BY <2>1, <3>2
    <3>4. \A i \in 1 .. Len(lines) :
            Entry(i)' /\ WellFormed(lines[i]) =>
              lines[i] = SubSeq(lines[i], 1, Place(lines[i], Colon))
                           \o <<Space>> \o report'["text"] \o <<LineFeed>>
      BY <2>3, <3>1, <3>2
    <3>5. \A i \in 1 .. Len(lines) :
            Entry(i)' /\ HasValue(lines[i]) /\ Len(lines[i]) = Place(lines[i], Colon) + 1 =>
              report'["text"] = <<>>
      BY <2>1, <2>3, <2>8, <3>2
    <3>6. QED
      BY <1>1, <2>3, <3>3, <3>4, <3>5 DEF EntryIsRead
  <2>7. QED
    BY <2>3, <2>6 DEF Results, StripsLine, FirmwareIsFirstWord, SimCodeDefined
<1>11. CASE ModemEnds
  <2>1. ReadSoFar = 1 .. Len(lines) /\ source' = "sim"
    BY <1>11, LenProperties DEF ModemEnds, ReadSoFar, TypeOK, Control
  <2>2. code' = "undefined" => report = NoReport
    BY <1>11 DEF ModemEnds, ModemCodes, Finish
  <2>3. SimCodeDefined'
    BY <1>1, <1>11, <2>1, <2>2 DEF SimCodeDefined, Searching, ModemEnds
  <2>4. QED
    BY <2>1, <2>3 DEF Results, StripsLine, FirmwareIsFirstWord, EntryIsRead
<1>12. QED
  <2>1. pc' = "done" => \/ CannotRead \/ ExtractLine \/ ExtractVersion \/ SearchEnds
                        \/ NoValue \/ TakeValue \/ ModemEnds
    BY DEF Next, ReadLine, Strip, StripEnds, OpenCpuInfo, SkipLine, OpenModem, TakeImsi,
           TakeIccid, TakeMsisdn, PassOver, GetLine, ReadModemLine
  <2>2. QED
    BY <1>4, <1>5, <1>6, <1>7, <1>8, <1>9, <1>10, <1>11, <2>1

-----------------------------------------------------------------------------
(* The numbers of the SIM. *)

\* One more line is read; it gives the number if it is the first with the key.
LEMMA NumberOfStep ==
  ASSUME NEW n \in Nat, NEW field, NEW key, NEW offset, NEW width,
         NumberOf(1 .. n, field, key, offset, width),
         lines' = lines,
         report[field] = NoText /\ StartsWith(lines[n + 1], key) =>
           /\ report'[field] # NoText
           /\ offset <= Len(lines[n + 1]) =>
                report'[field] = Number(lines[n + 1], offset, width),
         report[field] # NoText \/ ~StartsWith(lines[n + 1], key) =>
           report'[field] = report[field]
  PROVE  NumberOf(1 .. n + 1, field, key, offset, width)'
<1>1. 1 .. n + 1 = 1 .. n \cup {n + 1}
  OBVIOUS
<1>2. report'[field] = NoText <=> \A i \in 1 .. n + 1 : ~StartsWith(lines[i], key)
  <2>1. report[field] = NoText <=> \A i \in 1 .. n : ~StartsWith(lines[i], key)
    BY DEF NumberOf
  <2>2. QED
    BY <1>1, <2>1
<1>3. ASSUME NEW i \in 1 .. n + 1, FirstWith(key, i), offset <= Len(lines[i])
      PROVE  report'[field] = Number(lines[i], offset, width)
  <2>1. CASE i = n + 1
    <3>1. \A j \in 1 .. n : ~StartsWith(lines[j], key)
      BY <1>3, <2>1 DEF FirstWith
    <3>2. report[field] = NoText /\ StartsWith(lines[n + 1], key)
      BY <1>3, <2>1, <3>1 DEF NumberOf, FirstWith
    <3>3. QED
      BY <1>3, <2>1, <3>2
  <2>2. CASE i \in 1 .. n
    <3>1. report[field] = Number(lines[i], offset, width)
      BY <1>3, <2>2 DEF NumberOf
    <3>2. report[field] # NoText
      BY <1>3, <2>2 DEF NumberOf, FirstWith
    <3>3. QED
      BY <3>1, <3>2
  <2>3. QED
    BY <1>1, <2>1, <2>2
<1>4. \A i \in 1 .. n + 1 : FirstWith(key, i)' <=> FirstWith(key, i)
  BY DEF FirstWith
<1>5. QED
  BY <1>2, <1>3, <1>4 DEF NumberOf

\* A line has at most one of the two keys.
LEMMA OneKey ==
  ASSUME NEW l \in Lines PROVE ~(StartsWith(l, CcidKey) /\ StartsWith(l, CnumKey))
<1> SUFFICES ASSUME StartsWith(l, CcidKey), StartsWith(l, CnumKey) PROVE FALSE
  OBVIOUS
<1>1. PICK i \in 1 .. Len(CcidKey) \cap 1 .. Len(CnumKey) : CcidKey[i] # CnumKey[i]
  BY KeysAssumption
<1>2. l \in Seq(Char) /\ Len(l) \in Nat /\ \A k \in 1 .. Len(l) : l[k] \in Char
  BY LineFacts
<1>3. ASSUME NEW key \in Seq(Char), StartsWith(l, key), i \in 1 .. Len(key)
      PROVE  key[i] = l[i]
  <2>1. SubSeq(l, 1, Len(key)) = key /\ Len(key) \in Nat /\ Len(l) > Len(key)
    BY <1>3, LenProperties DEF StartsWith
  <2>2. \A k \in 1 .. Len(key) : l[k] \in Char
    BY <1>2, <2>1
  <2>3. \A k \in 1 .. Len(key) - 1 + 1 : SubSeq(l, 1, Len(key))[k] = l[1 + k - 1]
    BY <2>1, <2>2, SubSeqProperties
  <2>4. QED
    BY <1>3, <2>1, <2>3
<1>4. QED
  BY <1>1, <1>3, KeysAssumption

\* What begins with a key is a line that begins with it, if it is long enough.
LEMMA PrefixHasKey ==
  ASSUME NEW l \in Lines, NEW n \in Nat, n < Len(l), StartsWith(Upto(l, n), CcidKey)
  PROVE  StartsWith(l, CcidKey)
<1> DEFINE u == Upto(l, n)
           k == Len(CcidKey)
<1>1. l \in Seq(Char) /\ Len(l) \in Nat /\ \A i \in 1 .. Len(l) : l[i] \in Char
  BY LineFacts
<1>2. u \in Seq(Char) /\ Len(u) = n /\ \A i \in 1 .. n : u[i] = l[i]
  BY <1>1, UptoFacts
<1>3. k \in Nat /\ Len(u) > k /\ SubSeq(u, 1, k) = CcidKey
  BY KeysAssumption, LenProperties DEF StartsWith
<1> HIDE DEF u
<1>4. \A i \in 1 .. k : u[i] \in Char /\ l[i] \in Char /\ u[i] = l[i]
  BY <1>1, <1>2, <1>3
<1> HIDE DEF k
<1>5. /\ SubSeq(u, 1, k) \in Seq(Char) /\ Len(SubSeq(u, 1, k)) = IF 1 <= k THEN k - 1 + 1 ELSE 0
      /\ \A i \in 1 .. k - 1 + 1 : SubSeq(u, 1, k)[i] = u[1 + i - 1]
  BY <1>3, <1>4, SubSeqProperties
<1>6. /\ SubSeq(l, 1, k) \in Seq(Char) /\ Len(SubSeq(l, 1, k)) = IF 1 <= k THEN k - 1 + 1 ELSE 0
      /\ \A i \in 1 .. k - 1 + 1 : SubSeq(l, 1, k)[i] = l[1 + i - 1]
  BY <1>3, <1>4, SubSeqProperties
<1>7. SubSeq(l, 1, k) = SubSeq(u, 1, k)
  <2>1. Len(SubSeq(l, 1, k)) = k /\ Len(SubSeq(u, 1, k)) = k
    BY <1>3, <1>5, <1>6
  <2>2. ASSUME NEW i \in 1 .. k PROVE SubSeq(l, 1, k)[i] = SubSeq(u, 1, k)[i]
    <3>1. i \in 1 .. k - 1 + 1 /\ 1 + i - 1 = i
      BY <1>3
    <3>2. QED
      BY <1>4, <1>5, <1>6, <3>1
  <2>3. QED
    BY <1>5, <1>6, <2>1, <2>2, SeqEqual
<1>8. QED
  BY <1>1, <1>2, <1>3, <1>7 DEF StartsWith, k

\* What a line of the modem does to the numbers.
LEMMA NumbersLine ==
  ASSUME TypeOK, Provenance, Control, ImsiComesFirst, pc = "modem",
         NumbersOf(ReadSoFar), TakeImsi \/ TakeIccid \/ TakeMsisdn \/ PassOver
  PROVE  NumbersOf(ReadSoFar)'
<1>0. PICK n : n = Len(lines) - Len(unread)
  OBVIOUS
<1> DEFINE line == lines[n + 1]
<1>1. ReadModemLine /\ lines' = lines
  BY ModemStep DEF ReadModemLine
<1>2. /\ n + 1 \in 1 .. Len(lines) /\ Head(unread) = line
      /\ ReadSoFar' = ReadSoFar \cup {n + 1} /\ ReadSoFar = 1 .. (n + 1) - 1
  BY <1>0, ReadSoFarGrows DEF ReadsLine
<1>3. Len(lines) \in Nat /\ line \in Lines /\ \A i \in 1 .. Len(lines) : lines[i] \in Lines
  <2>1. lines \in Seq(Lines) /\ unread # <<>>
    BY <1>1 DEF TypeOK, ReadModemLine
  <2>2. Len(lines) \in Nat /\ \A i \in 1 .. Len(lines) : lines[i] \in Lines
    BY <2>1, LenProperties, ElementOfSeq
  <2>3. QED
    BY <1>2, <2>2
<1>4. n \in Nat /\ ReadSoFar = 1 .. n /\ ReadSoFar' = 1 .. n + 1
  <2>1. Len(unread) \in Nat
    BY LenProperties DEF TypeOK
  <2>2. n \in Nat /\ (n + 1) - 1 = n
    BY <1>0, <1>2, <1>3, <2>1
  <2>3. QED
    BY <1>2, <2>2
<1>5. /\ Len(line) \in Nat /\ line \in Seq(Char)
      /\ {ImsiWidth, CcidWidth, CnumWidth, CnumOffset} \subseteq Nat
      /\ {"imsi", "iccid", "msisdn"} \subseteq Fields
  BY <1>3, LineFacts, PlacesAssumption DEF Fields
<1>6. /\ report["imsi"] = NoText => \A i \in 1 .. n : Len(lines[i]) <= ImsiWidth
      /\ report["imsi"] # NoText => ~StartsWith(report["imsi"], CcidKey)
      /\ NumberOf(1 .. n, "iccid", CcidKey, Len(CcidKey) + 1, CcidWidth)
      /\ NumberOf(1 .. n, "msisdn", CnumKey, CnumOffset, CnumWidth)
  BY <1>4 DEF NumbersOf
<1>7. IsImsi(line) => ~StartsWith(line, CcidKey) /\ ~StartsWith(line, CnumKey)
  <2> SUFFICES ASSUME IsImsi(line), StartsWith(line, CcidKey) \/ StartsWith(line, CnumKey)
               PROVE  FALSE
    OBVIOUS
  <2>1. PICK j \in 1 .. (n + 1) - 1 : Len(lines[j]) > ImsiWidth
    BY <1>2 DEF ImsiComesFirst, IsImsi
  <2>2. j \in 1 .. n /\ Len(lines[j]) \in Nat
    BY <1>2, <1>3, <1>4, <2>1, LineFacts
  <2>3. QED
    BY <1>5, <1>6, <2>1, <2>2 DEF IsImsi
<1>8. ~(StartsWith(line, CcidKey) /\ StartsWith(line, CnumKey))
  BY <1>3, OneKey
\* The three fields after the line.
<1>9. /\ IF IsImsi(line) THEN report'["imsi"] = Number(line, 0, ImsiWidth)
                         ELSE report'["imsi"] = report["imsi"]
      /\ IF IsIccid(line)
           THEN report'["iccid"] = Number(line, Len(CcidKey) + 1, CcidWidth)
           ELSE report'["iccid"] = report["iccid"]
      /\ IF IsMsisdn(line)
           THEN /\ report'["msisdn"] # NoText
                /\ CnumOffset <= Len(line) =>
                     report'["msisdn"] = Number(line, CnumOffset, CnumWidth)
           ELSE report'["msisdn"] = report["msisdn"]
  <2>1. CASE TakeImsi
    <3>1. IsImsi(line) /\ ~IsIccid(line) /\ ~IsMsisdn(line)
      BY <1>2, <2>1 DEF TakeImsi, IsIccid, IsMsisdn
    <3>2. Keep("imsi", 0, ImsiWidth) /\ 0 <= end' /\ 0 + ImsiWidth <= Size
      BY <1>1, <2>1, Offsets DEF TakeImsi
    <3>3. /\ report'["imsi"] = Number(line, 0, ImsiWidth)
          /\ \A f \in Fields : f # "imsi" => report'[f] = report[f]
      BY <1>1, <1>2, <1>5, <3>2, KeepType, PlacesAssumption
    <3>4. QED
      BY <1>5, <3>1, <3>3
  <2>2. CASE TakeIccid
    <3>1. ~IsImsi(line) /\ IsIccid(line) /\ ~IsMsisdn(line)
      BY <1>2, <2>2 DEF TakeIccid, IsIccid, IsMsisdn
    <3>2. /\ Keep("iccid", Len(CcidKey) + 1, CcidWidth)
          /\ Len(CcidKey) + 1 <= end' /\ Len(CcidKey) + 1 \in Nat
          /\ (Len(CcidKey) + 1) + CcidWidth <= Size
      BY <1>1, <1>2, <2>2, <3>1, Offsets DEF TakeIccid
    <3>3. /\ report'["iccid"] = Number(line, Len(CcidKey) + 1, CcidWidth)
          /\ \A f \in Fields : f # "iccid" => report'[f] = report[f]
      BY <1>1, <1>2, <1>5, <3>2, KeepType, PlacesAssumption
    <3>4. QED
      BY <1>5, <3>1, <3>3
  <2>3. CASE TakeMsisdn
    <3>1. ~IsImsi(line) /\ ~IsIccid(line) /\ IsMsisdn(line)
      BY <1>2, <2>3 DEF TakeMsisdn, IsIccid, IsMsisdn
    <3>2. /\ Keep("msisdn", CnumOffset, CnumWidth) /\ CnumOffset + CnumWidth <= Size
          /\ end' = Len(line)
      BY <1>1, <1>2, <2>3, <3>1, Offsets DEF TakeMsisdn
    <3>3. /\ report'["msisdn"] # NoText
          /\ CnumOffset <= Len(line) =>
               report'["msisdn"] = Number(line, CnumOffset, CnumWidth)
          /\ \A f \in Fields : f # "msisdn" => report'[f] = report[f]
      BY <1>1, <1>2, <1>5, <3>2, KeepType, PlacesAssumption
    <3>4. QED
      BY <1>5, <3>1, <3>3
  <2>4. CASE PassOver
    BY <1>2, <2>4 DEF PassOver
  <2>5. QED
    BY <2>1, <2>2, <2>3, <2>4
<1>10. ~IsImsi(line) => report["imsi"] # NoText \/ Len(line) <= ImsiWidth
  BY <1>5 DEF IsImsi
<1>11. /\ IsIccid(line) <=> report["iccid"] = NoText /\ StartsWith(line, CcidKey)
       /\ IsMsisdn(line) <=> report["msisdn"] = NoText /\ StartsWith(line, CnumKey)
  BY <1>7, <1>8 DEF IsIccid, IsMsisdn
<1>12. report'["imsi"] = NoText => \A i \in 1 .. n + 1 : Len(lines[i]) <= ImsiWidth
  <2>1. Number(line, 0, ImsiWidth) # NoText
    BY <1>3, <1>5, NumberType
  <2>2. 1 .. n + 1 = 1 .. n \cup {n + 1}
    BY <1>4
  <2>3. QED
    BY <1>6, <1>9, <1>10, <2>1, <2>2
<1>13. report'["imsi"] # NoText => ~StartsWith(report'["imsi"], CcidKey)
  <2>1. CASE IsImsi(line)
    <3>1. SubSeq(line, 0 + 1, Len(line)) = line
      BY <1>5, SubSeqFull
    <3>2. report'["imsi"] = Upto(line, ImsiWidth)
      BY <1>9, <2>1, <3>1 DEF Number
    <3>3. ImsiWidth < Len(line)
      BY <1>5, <2>1 DEF IsImsi
    <3>4. QED
      BY <1>3, <1>5, <1>7, <2>1, <3>2, <3>3, PrefixHasKey
  <2>2. CASE ~IsImsi(line)
    BY <1>6, <1>9, <2>2
  <2>3. QED
    BY <2>1, <2>2
<1>14. Len(CcidKey) + 1 \in Nat
  BY KeysAssumption, LenProperties
<1>15. Number(line, Len(CcidKey) + 1, CcidWidth) # NoText
  BY <1>3, <1>5, <1>14, NumberType
<1>16. NumberOf(1 .. n + 1, "iccid", CcidKey, Len(CcidKey) + 1, CcidWidth)'
  BY <1>1, <1>4, <1>6, <1>9, <1>11, <1>15, NumberOfStep
<1>17. NumberOf(1 .. n + 1, "msisdn", CnumKey, CnumOffset, CnumWidth)'
  BY <1>1, <1>4, <1>6, <1>9, <1>11, NumberOfStep
<1>18. QED
  BY <1>1, <1>4, <1>12, <1>13, <1>16, <1>17 DEF NumbersOf

LEMMA NumbersStep ==
  TypeOK /\ Provenance /\ Control /\ Numbers /\ Next => Numbers'
<1> SUFFICES ASSUME TypeOK, Provenance, Control, Numbers, Next, ImsiComesFirst'
             PROVE  /\ pc' = "modem" => NumbersOf(ReadSoFar)'
                    /\ source' = "sim" /\ code' \in {"ok", "error"} =>
                         NumbersOf(1 .. Len(lines))'
  BY DEF Numbers
<1>1. Control' /\ source' = source /\ lines' = lines
  BY ControlStep, ProvenanceStep
<1>2. ImsiComesFirst
  BY <1>1 DEF ImsiComesFirst
<1>3. CASE OpenModem
  <2>1. /\ unread = lines /\ report = NoReport /\ Len(lines) \in Nat
        /\ UNCHANGED <<unread, report>> /\ code' = "none" /\ code = "none"
    BY <1>3, LenProperties DEF OpenModem, Control, TypeOK
  <2>2. ReadSoFar' = {}
    BY <1>1, <2>1 DEF ReadSoFar
  <2>3. \A f \in Fields : report'[f] = NoText
    BY <2>1 DEF NoReport
  <2>4. NumbersOf(ReadSoFar)'
    BY <2>2, <2>3 DEF NumbersOf, NumberOf, Fields
  <2>5. QED
    BY <2>1, <2>4
<1>4. CASE TakeImsi \/ TakeIccid \/ TakeMsisdn \/ PassOver
  <2>1. ReadModemLine
    BY <1>4, ModemStep
  <2>2. pc = "modem" /\ code' = code /\ code = "none"
    BY <2>1 DEF ReadModemLine, Control
  <2>3. QED
    BY <1>2, <1>4, <2>2, NumbersLine DEF Numbers
<1>5. CASE ModemEnds
  <2>1. /\ pc = "modem" /\ pc' = "done" /\ UNCHANGED report
        /\ ReadSoFar = 1 .. Len(lines)
    BY <1>5, LenProperties DEF ModemEnds, Finish, ReadSoFar, TypeOK
  <2>2. NumbersOf(1 .. Len(lines))
    BY <1>2, <2>1 DEF Numbers
  <2>3. QED
    BY <1>1, <2>1, <2>2 DEF NumbersOf, NumberOf, FirstWith
<1>6. CASE ~(OpenModem \/ TakeImsi \/ TakeIccid \/ TakeMsisdn \/ PassOver \/ ModemEnds)
  <2>1. pc' # "modem"
    BY <1>6 DEF Next, CannotRead, ReadLine, Strip, StripEnds, ExtractLine, ExtractVersion,
                OpenCpuInfo, SkipLine, NoValue, TakeValue, SearchEnds, GetLine, Finish
  <2>2. source = "sim" => code' \notin {"ok", "error"}
    BY <1>6 DEF Next, CannotRead, ReadLine, Strip, StripEnds, ExtractLine, ExtractVersion,
                OpenCpuInfo, SkipLine, NoValue, TakeValue, SearchEnds, GetLine, Finish,
                Control
  <2>3. QED
    BY <1>1, <2>1, <2>2
<1>7. QED
  BY <1>3, <1>4, <1>5, <1>6

LEMMA NumbersAreOwn == TypeOK /\ Numbers => SimNumbersAreOwn
<1> SUFFICES ASSUME TypeOK, Numbers, source = "sim", code \in {"ok", "error"}, ImsiComesFirst
             PROVE  \A i \in 1 .. Len(lines) :
                      /\ FirstWith(CcidKey, i) =>
                           report["iccid"] = Number(lines[i], Len(CcidKey) + 1, CcidWidth)
                      /\ FirstWith(CnumKey, i) /\ CnumOffset <= Len(lines[i]) =>
                           report["msisdn"] = Number(lines[i], CnumOffset, CnumWidth)
                      /\ report["imsi"] # NoText => ~StartsWith(report["imsi"], CcidKey)
  <2>1. Len(CcidKey) + 1 + 1 = Len(CcidKey) + 2
    BY KeysAssumption, LenProperties
  <2>2. QED
    BY <2>1 DEF SimNumbersAreOwn, Number
<1>1. NumbersOf(1 .. Len(lines))
  BY DEF Numbers
<1>2. \A i \in 1 .. Len(lines) :
        FirstWith(CcidKey, i) => Len(CcidKey) + 1 <= Len(lines[i])
  <2> SUFFICES ASSUME NEW i \in 1 .. Len(lines), FirstWith(CcidKey, i)
               PROVE  Len(CcidKey) + 1 <= Len(lines[i])
    OBVIOUS
  <2>1. Len(CcidKey) \in Nat /\ Len(lines[i]) \in Nat
    <3>1. lines \in Seq(Lines)
      BY DEF TypeOK
    <3>2. lines[i] \in Lines
      BY <3>1, ElementOfSeq
    <3>3. QED
      BY <3>2, KeysAssumption, LenProperties, LineFacts
  <2>2. QED
    BY <2>1 DEF FirstWith, StartsWith
<1>3. QED
  BY <1>1, <1>2 DEF NumbersOf, NumberOf

-----------------------------------------------------------------------------
(* The theorems. *)

LEMMA TextInvariant == Spec => []Inv
<1>1. Init => Inv
  BY InitInv
<1>2. Inv /\ [Next]_vars => Inv'
  <2>1. ASSUME Inv, Next PROVE Inv'
    BY <2>1, TypeStep, ProvenanceStep, ControlStep, LooksStep, CuttingStep,
       SearchingStep, ResultsStep, NumbersStep DEF Inv
  <2>2. ASSUME Inv, UNCHANGED vars PROVE Inv'
    <3>1. Numbers'
      BY <2>2 DEF vars, Inv, Numbers, NumbersOf, NumberOf, FirstWith, ImsiComesFirst,
                  ReadSoFar
    <3>2. Results'
      BY <2>2 DEF vars, Inv, Results, StripsLine, FirmwareIsFirstWord, FirstLine,
                  EntryIsRead, Entry, SimCodeDefined
    <3>3. LooksInLine'
      BY <2>2 DEF vars, Inv, LooksInLine
    <3>4. TypeOK' /\ Provenance' /\ Control' /\ Cutting' /\ Searching'
      BY <2>2 DEF vars, Inv, TypeOK, Provenance, Control, Cutting, CutUpTo,
                  CutAt, Uncut, FirstLine, Searching, ReadSoFar
    <3>5. QED
      BY <3>1, <3>2, <3>3, <3>4 DEF Inv
  <2>3. QED
    BY <2>1, <2>2
<1>3. QED
  BY <1>1, <1>2, PTL DEF Spec

\* The values consist of characters of the file, whatever the text is: only a phone
\* number may hold bytes that were never written, if its line is too short for one.
THEOREM TextTypeCorrect == Spec => []TypeOK
<1>1. Inv => TypeOK
  BY DEF Inv
<1>2. QED
  BY <1>1, TextInvariant, PTL

\* No getter looks behind the line it has read, whatever the line is and however
\* long, and none behind the buffer: the loops that cut line ends stay between the
\* line and its terminator, and so does the text behind the colon, for any length
\* that is asked for.  Of the fixed places of the SIM's lines only that of the phone
\* number may be behind the line, if it is a short "+CNUM:" line.
THEOREM LooksInLineCorrect == Spec => []LooksInLine
<1>1. Inv => LooksInLine
  BY DEF Inv
<1>2. QED
  BY <1>1, TextInvariant, PTL

\* The value of a DMI or version file is its first line without the line end
\* (DEVINFOCollector_ReadProc).
THEOREM StripsLineCorrect == Spec => []StripsLine
<1>1. Inv => StripsLine
  BY DEF Inv, Results
<1>2. QED
  BY <1>1, TextInvariant, PTL

\* The firmware version of Armadillo-IoT is the first word of the kernel's
\* version without the leading character.
THEOREM FirmwareIsFirstWordCorrect == Spec => []FirmwareIsFirstWord
<1>1. Inv => FirmwareIsFirstWord
  BY DEF Inv, Results
<1>2. QED
  BY <1>1, TextInvariant, PTL

\* A cpuinfo entry is found and read (DEVINFOCollector_FindEntryFromCpuInfo).
THEOREM EntryIsReadCorrect == Spec => []EntryIsRead
<1>1. Inv => EntryIsRead
  BY DEF Inv, Results
<1>2. QED
  BY <1>1, TextInvariant, PTL

\* The code that the SIM's getter hands over was set, if there was a number.
THEOREM SimCodeDefinedCorrect == Spec => []SimCodeDefined
<1>1. Inv => SimCodeDefined
  BY DEF Inv, Results
<1>2. QED
  BY <1>1, TextInvariant, PTL

\* The numbers of the SIM are told apart if the IMSI comes first; a phone number is
\* only as good as its line is long.
THEOREM SimNumbersAreOwnCorrect == Spec => []SimNumbersAreOwn
<1>1. Inv => SimNumbersAreOwn
  BY NumbersAreOwn DEF Inv
<1>2. QED
  BY <1>1, TextInvariant, PTL

=============================================================================
