------------------------------- MODULE PortSpec -------------------------------
(*****************************************************************************)
(* Port specifications (src/src/cli/args.cpp, src/src/cli/top_ports.cpp).    *)
(* A specification is the sequence of its comma-separated pieces, a piece    *)
(* the sequence of its dash-separated fields (none when it is empty), a      *)
(* field the integer it spells, or Junk.                                     *)
(*****************************************************************************)
EXTENDS Integers, Sequences, FiniteSets

Junk == -1

parse_uint16(field) == field >= 1 /\ field <= 65535

\* What follows the first dash is one number, so a second dash is junk.
Flushes(piece) ==
    Len(piece) <= 2 /\ \A i \in DOMAIN piece : parse_uint16(piece[i])

\* Mutant: the ends of a range are taken in the order given.
PortsOfOrdered(piece) ==
    IF piece = <<>> THEN {} ELSE piece[1]..piece[Len(piece)]

PortsOf(piece) ==
    IF piece = <<>> THEN {}
    ELSE LET lo == piece[1]
             hi == piece[Len(piece)]
         IN  IF lo > hi THEN hi..lo ELSE lo..hi

Ascending(S) ==
    [i \in 1..Cardinality(S) |->
        CHOOSE n \in S : Cardinality({k \in S : k < n}) = i - 1]

\* The elements of s at the given positions, in their order.
Kept(s, positions) ==
    LET at == Ascending(positions) IN [i \in DOMAIN at |-> s[at[i]]]

\* The ports of all pieces, ascending, or none if a piece is not well formed.
expand_port_spec(spec) ==
    IF \A i \in DOMAIN spec : Flushes(spec[i])
    THEN Ascending(UNION {PortsOf(spec[i]) : i \in DOMAIN spec})
    ELSE <<>>

kTopPorts ==
    <<80, 23, 443, 21, 22, 25, 3389, 110, 445, 139,
      143, 53, 135, 3306, 8080, 1723, 111, 995, 993, 5900,
      1025, 587, 8888, 199, 1720, 465, 548, 113, 81, 6001,
      10000, 514, 5060, 179, 1026, 2000, 8443, 8000, 32768, 554,
      26, 1433, 49152, 2001, 515, 8008, 49154, 1027, 5666, 646,
      5000, 5631, 631, 49153, 8081, 2049, 88, 79, 5800, 106,
      2121, 1110, 49155, 6000, 513, 990, 5357, 427, 49156, 543,
      544, 5101, 144, 7, 389, 8009, 3128, 444, 9999, 5009,
      7070, 5190, 3000, 5432, 1900, 3986, 13, 1029, 9, 5051,
      6646, 49157, 1028, 873, 1755, 2717, 4899, 9100, 119, 37>>

top_n_ports(n) ==
    SubSeq(kTopPorts, 1, IF n < Len(kTopPorts) THEN n ELSE Len(kTopPorts))
===============================================================================
