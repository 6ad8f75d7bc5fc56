----------------------------- MODULE ResolvConf -----------------------------
(***************************************************************************)
(* Which text of a line of /etc/resolv.conf is reported as a name server.  *)
(* A line comes from the shell command without its line end.               *)
(***************************************************************************)
EXTENDS DeviceText

CONSTANT NameserverKey  \* "nameserver"

ASSUME NameserverKeyAssumption ==
  NameserverKey \in Seq(Char) /\ ~Occurs(NameserverKey, Space)

\* The line begins with the key and has a text behind its first space.
HasNameserver(line) ==
  /\ Len(line) >= Len(NameserverKey)
  /\ SubSeq(line, 1, Len(NameserverKey)) = NameserverKey
  /\ Occurs(line, Space)
  /\ Place(line, Space) < Len(line)

\* That text, blanks and comments at its end included.
Nameserver(line) == SubSeq(line, Place(line, Space) + 1, Len(line))

\* What is handed over for the lines of a file, in their order.
Nameservers(file) ==
  LET chosen == SelectSeq(file, HasNameserver)
  IN  [i \in 1 .. Len(chosen) |-> Nameserver(chosen[i])]

\* A line "nameserver <address>" with one space gives its address, whatever the
\* address is; an address that is missing gives nothing.
AddressIsRead(address) ==
  LET line == NameserverKey \o <<Space>> \o address IN
  IF address = <<>> THEN ~HasNameserver(line)
  ELSE HasNameserver(line) /\ Nameserver(line) = address

Parts(line) == {SubSeq(line, i, j) : i, j \in 1 .. Len(line)}

\* Only a line with the key gives a name server, and one that has another
\* character than the space behind it only together with what follows.
OnlyKeyIsRead(line) ==
  HasNameserver(line) =>
    \E word, address \in Parts(line) :
      /\ line = NameserverKey \o word \o <<Space>> \o address
      /\ ~Occurs(word, Space) /\ Nameserver(line) = address

=============================================================================
