-------------------------- MODULE ResolvConf_proofs --------------------------
(***************************************************************************)
(* What holds of the lines of /etc/resolv.conf for every text.             *)
(***************************************************************************)
EXTENDS ResolvConf, DeviceText_proofs

\* The first place of a character is the one with no other before it.
LEMMA PlaceIs ==
  ASSUME NEW s \in Seq(Char), NEW c, NEW n \in 1 .. Len(s),
         s[n] = c, \A i \in 1 .. n - 1 : s[i] # c
  PROVE  Occurs(s, c) /\ Place(s, c) = n
<1>1. Occurs(s, c) /\ Len(s) \in Nat
  BY LenProperties DEF Occurs
<1>2. /\ Place(s, c) \in 1 .. Len(s) /\ s[Place(s, c)] = c
      /\ \A j \in 1 .. Place(s, c) - 1 : s[j] # c
  BY <1>1, PlaceFacts
<1>3. ~(Place(s, c) < n) /\ ~(n < Place(s, c))
  BY <1>1, <1>2
<1>4. QED
  BY <1>1, <1>2, <1>3

\* What a line with the key, a space and an address consists of.
LEMMA KeyLine ==
  ASSUME NEW address \in Seq(Char)
  PROVE  LET line == NameserverKey \o <<Space>> \o address
             k == Len(NameserverKey)
         IN  /\ line \in Seq(Char)
             /\ Len(line) = k + 1 + Len(address)
             /\ \A i \in 1 .. k : line[i] = NameserverKey[i]
             /\ line[k + 1] = Space
             /\ \A i \in 1 .. Len(address) : line[k + 1 + i] = address[i]
<1> DEFINE begin == NameserverKey \o <<Space>>
           k == Len(NameserverKey)
<1>1. NameserverKey \in Seq(Char) /\ <<Space>> \in Seq(Char) /\ Len(<<Space>>) = 1
  BY NameserverKeyAssumption, CharAssumption
<1>2. k \in Nat /\ Len(address) \in Nat
  BY <1>1, LenProperties
<1>3. /\ begin \in Seq(Char) /\ Len(begin) = k + 1
      /\ \A i \in 1 .. k : begin[i] = NameserverKey[i]
      /\ begin[k + 1] = Space
  BY <1>1, <1>2, ConcatProperties
<1>4. /\ begin \o address \in Seq(Char)
      /\ Len(begin \o address) = k + 1 + Len(address)
      /\ \A i \in 1 .. k + 1 + Len(address) :
           (begin \o address)[i] =
             IF i <= k + 1 THEN begin[i] ELSE address[i - (k + 1)]
  BY <1>2, <1>3, ConcatProperties
<1> HIDE DEF begin, k
<1>5. \A i \in 1 .. Len(address) : (begin \o address)[k + 1 + i] = address[i]
  BY <1>2, <1>4
<1>6. \A i \in 1 .. k + 1 : (begin \o address)[i] = begin[i]
  BY <1>2, <1>4
<1>7. QED
  BY <1>2, <1>3, <1>4, <1>5, <1>6 DEF begin, k

\* The name server callback takes the text behind the first space: of a line of
\* the usual form that is the address, whatever the address is, and a line
\* without an address gives nothing.
THEOREM AddressIsReadCorrect ==
  \A address \in Seq(Char) : AddressIsRead(address)
<1> SUFFICES ASSUME NEW address \in Seq(Char) PROVE AddressIsRead(address)
  OBVIOUS
<1> DEFINE line == NameserverKey \o <<Space>> \o address
           k == Len(NameserverKey)
<1>1. /\ NameserverKey \in Seq(Char) /\ k \in Nat /\ Len(address) \in Nat
      /\ \A i \in 1 .. k : NameserverKey[i] \in Char /\ NameserverKey[i] # Space
  BY NameserverKeyAssumption, LenProperties, ElementOfSeq DEF Occurs
<1>2. /\ line \in Seq(Char) /\ Len(line) = k + 1 + Len(address)
      /\ \A i \in 1 .. k : line[i] = NameserverKey[i]
      /\ line[k + 1] = Space
      /\ \A i \in 1 .. Len(address) : line[k + 1 + i] = address[i]
  BY KeyLine
<1> HIDE DEF line, k
<1>3. Occurs(line, Space) /\ Place(line, Space) = k + 1
  <2>1. k + 1 \in 1 .. Len(line) /\ (k + 1) - 1 = k
    BY <1>1, <1>2
  <2>2. \A i \in 1 .. (k + 1) - 1 : line[i] # Space
    BY <1>1, <1>2, <2>1
  <2>3. QED
    BY <1>2, <2>1, <2>2, PlaceIs
<1>4. SubSeq(line, 1, k) = NameserverKey
  <2>1. /\ SubSeq(line, 1, k) \in Seq(Char) /\ Len(SubSeq(line, 1, k)) = k
        /\ \A i \in 1 .. k : SubSeq(line, 1, k)[i] = line[i]
    BY <1>1, <1>2, SubSeqProperties
  <2>2. QED
    BY <1>1, <1>2, <2>1, SeqEqual DEF k
<1>5. CASE address = <<>>
  <2>1. Len(line) = k + 1
    BY <1>1, <1>2, <1>5
  <2>2. ~HasNameserver(line)
    BY <1>1, <1>3, <2>1 DEF HasNameserver
  <2>3. QED
    BY <1>5, <2>2 DEF AddressIsRead, line
<1>6. CASE address # <<>>
  <2>1. Len(address) >= 1
    BY <1>1, <1>6, EmptySeq
  <2>2. HasNameserver(line)
    BY <1>1, <1>2, <1>3, <1>4, <2>1 DEF HasNameserver, k
  <2>3. Nameserver(line) = address
    <3>1. \A i \in k + 2 .. Len(line) : line[i] \in Char
      BY <1>1, <1>2, ElementOfSeq
    <3>2. /\ SubSeq(line, k + 2, Len(line)) \in Seq(Char)
          /\ Len(SubSeq(line, k + 2, Len(line))) = Len(address)
          /\ \A i \in 1 .. Len(address) :
               SubSeq(line, k + 2, Len(line))[i] = line[k + 1 + i]
      BY <1>1, <1>2, <2>1, <3>1, SubSeqProperties
    <3>3. SubSeq(line, k + 2, Len(line)) = address
      BY <1>2, <3>2, SeqEqual
    <3>4. QED
      BY <1>1, <1>3, <3>3 DEF Nameserver
  <2>4. QED
    BY <1>6, <2>2, <2>3 DEF AddressIsRead, line
<1>7. QED
  BY <1>5, <1>6

\* Only a line that begins with the key is reported, and of it what is behind
\* its first space, whatever characters stand between the key and that space.
THEOREM OnlyKeyIsReadCorrect ==
  \A line \in Seq(Char) : OnlyKeyIsRead(line)
<1> SUFFICES ASSUME NEW line \in Seq(Char), HasNameserver(line)
             PROVE  \E word, address \in Parts(line) :
                      /\ line = NameserverKey \o word \o <<Space>> \o address
                      /\ ~Occurs(word, Space) /\ Nameserver(line) = address
  BY DEF OnlyKeyIsRead
<1> DEFINE k == Len(NameserverKey)
           n == Place(line, Space)
           word == SubSeq(line, k + 1, n - 1)
           address == SubSeq(line, n + 1, Len(line))
<1>1. /\ NameserverKey \in Seq(Char) /\ k \in Nat /\ Len(line) \in Nat
      /\ \A i \in 1 .. k : NameserverKey[i] # Space
      /\ \A i \in 1 .. Len(line) : line[i] \in Char
  BY NameserverKeyAssumption, LenProperties, ElementOfSeq DEF Occurs
<1>2. /\ n \in 1 .. Len(line) /\ line[n] = Space /\ n < Len(line)
      /\ \A j \in 1 .. n - 1 : line[j] # Space
  BY PlaceFacts DEF HasNameserver
<1>3. k <= Len(line) /\ SubSeq(line, 1, k) = NameserverKey
  BY DEF HasNameserver
<1> HIDE DEF k, n
<1>4. k < n
  <2>1. \A i \in 1 .. k : line[i] = NameserverKey[i]
    BY <1>1, <1>3, SubSeqProperties
  <2>2. QED
    BY <1>1, <1>2, <2>1
<1>5. /\ word \in Seq(Char) /\ Len(word) = n - 1 - k
      /\ \A i \in 1 .. Len(word) : word[i] = line[k + i]
  <2>1. \A i \in k + 1 .. n - 1 : line[i] \in Char
    BY <1>1, <1>2
  <2>2. QED
    BY <1>1, <1>2, <1>4, <2>1, SubSeqProperties
<1>6. ~Occurs(word, Space)
  <2>1. ASSUME NEW i \in 1 .. Len(word) PROVE word[i] # Space
    <3>1. k + i \in 1 .. n - 1
      BY <1>1, <1>2, <1>4, <1>5
    <3>2. QED
      BY <1>2, <1>5, <3>1
  <2>2. QED
    BY <2>1 DEF Occurs
<1>7. line = NameserverKey \o word \o <<Space>> \o address
  <2>1. /\ SubSeq(line, 1, k) \o SubSeq(line, k + 1, n - 1) = SubSeq(line, 1, n - 1)
        /\ SubSeq(line, 1, n - 1) \o SubSeq(line, n, n) = SubSeq(line, 1, n)
        /\ SubSeq(line, 1, n) \o SubSeq(line, n + 1, Len(line)) = SubSeq(line, 1, Len(line))
    <3>1. /\ k \in 0 .. Len(line) /\ n - 1 \in 0 .. Len(line) /\ n \in 0 .. Len(line)
          /\ n - 1 \in k .. Len(line) /\ n \in n - 1 .. Len(line)
          /\ Len(line) \in n .. Len(line)
      BY <1>1, <1>2, <1>4
    <3>2. \A a \in 0 .. Len(line) : \A b \in a .. Len(line) :
            SubSeq(line, 1, a) \o SubSeq(line, a + 1, b) = SubSeq(line, 1, b)
      BY <1>1, ConcatAdjacentSubSeq
    <3>3. (n - 1) + 1 = n
      BY <1>1, <1>2
    <3>4. QED
      BY <3>1, <3>2, <3>3
  <2>2. SubSeq(line, n, n) = <<Space>>
    <3>1. /\ SubSeq(line, n, n) \in Seq(Char) /\ Len(SubSeq(line, n, n)) = 1
          /\ SubSeq(line, n, n)[1] = Space
      BY <1>1, <1>2, SubSeqProperties
    <3>2. <<Space>> \in Seq(Char) /\ Len(<<Space>>) = 1 /\ <<Space>>[1] = Space
      BY CharAssumption
    <3>3. \A i \in 1 .. 1 : i = 1
      OBVIOUS
    <3> DEFINE one == SubSeq(line, n, n)
               space == <<Space>>
    <3>4. /\ one \in Seq(Char) /\ space \in Seq(Char) /\ Len(one) = Len(space)
          /\ \A i \in 1 .. Len(one) : one[i] = space[i]
      BY <3>1, <3>2, <3>3
    <3> HIDE DEF one, space
    <3>5. one = space
      BY <3>4, SeqEqual
    <3>6. QED
      BY <3>5 DEF one, space
  <2>3. SubSeq(line, 1, Len(line)) = line
    BY SubSeqFull
  <2>4. QED
    BY <1>3, <2>1, <2>2, <2>3
<1>8. word \in Parts(line) /\ address \in Parts(line)
  <2>0. ASSUME NEW i \in 1 .. Len(line), NEW j \in 1 .. Len(line)
        PROVE  SubSeq(line, i, j) \in Parts(line)
    BY DEF Parts
  <2>1. address \in Parts(line)
    BY <1>1, <1>2, <2>0
  <2>2. CASE n > 1
    BY <1>1, <1>2, <1>4, <2>0, <2>1, <2>2
  <2>3. CASE n = 1
    <3>1. word = <<>> /\ SubSeq(line, 2, 1) = <<>>
      BY <1>1, <1>4, <2>3, SubSeqEmpty
    <3>2. 1 \in 1 .. Len(line) /\ 2 \in 1 .. Len(line)
      BY <1>1, <1>2, <2>3
    <3>3. SubSeq(line, 2, 1) \in Parts(line)
      BY <2>0, <3>2
    <3>4. QED
      BY <2>1, <3>1, <3>3
  <2>4. QED
    BY <1>2, <2>1, <2>2, <2>3
<1>9. Nameserver(line) = address
  BY DEF Nameserver, n
<1>10. QED
  BY <1>6, <1>7, <1>8, <1>9

=============================================================================
