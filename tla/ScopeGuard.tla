------------------------------ MODULE ScopeGuard ------------------------------
(*****************************************************************************)
(* sps::cli::check_scope() (src/src/cli/scope_guard.cpp).  A target is what  *)
(* ip::make_address() makes of the text: an address of family 4 or 6 with    *)
(* its octets, or no address (family 0).                                     *)
(*****************************************************************************)
EXTENDS Integers, Sequences

NoAddress == [family |-> 0, octets |-> <<>>]
V4(a, b, c, d) == [family |-> 4, octets |-> <<a, b, c, d>>]
Loopback == V4(127, 0, 0, 1)

Octets(n) == [1..n -> 0..255]
Address == {NoAddress} \union [family : {4}, octets : Octets(4)]
                       \union [family : {6}, octets : Octets(16)]

\* The addresses of family 6 that matter are told apart by two octets at the
\* front and the one at the end.
V6(a, b, z) ==
    [family |-> 6, octets |-> <<a, b>> \o [i \in 1..13 |-> 0] \o <<z>>]

Zeros(s) == \A i \in DOMAIN s : s[i] = 0

\* Mutant: 172.16/12 is taken for all of 172/8.
is_private_v4_wide(o) ==
    \/ o[1] \in {127, 10, 172} \/ Zeros(o)
    \/ o[1] = 192 /\ o[2] = 168
    \/ o[1] = 169 /\ o[2] = 254

is_private_v4(o) ==
    \/ o[1] = 127 \/ Zeros(o)
    \/ o[1] = 10
    \/ o[1] = 192 /\ o[2] = 168
    \/ o[1] = 172 /\ o[2] \in 16..31
    \/ o[1] = 169 /\ o[2] = 254

\* ::1, ::, fe80::/10 and fec0::/10 (link- and site-local), fc00::/7.
is_private_v6(o) ==
    \/ Zeros(SubSeq(o, 1, 15)) /\ o[16] \in {0, 1}
    \/ o[1] = 254 /\ o[2] \in 128..255
    \/ o[1] \in {252, 253}

check_scope(target, consent) ==
    CASE target.family = 0 -> "DeniedInvalidAddress"
      [] target.family = 4 /\ is_private_v4(target.octets) -> "Allowed"
      [] target.family = 6 /\ is_private_v6(target.octets) -> "Allowed"
      [] OTHER -> IF consent THEN "Allowed" ELSE "DeniedExternalNeedsConsent"

-------------------------------------------------------------------------------

\* The ranges docs/ETHICS.md (section 1) allows without consent, and those the
\* code allows besides (the unspecified addresses and fec0::/10): of each the
\* family and where its first and its last address begin.
InRange(o, first, last) ==
    LET n == Len(first) IN
    SubSeq(o, 1, n - 1) = SubSeq(first, 1, n - 1) /\ o[n] \in first[n]..last[n]

DocumentedRanges ==
    {<<4, <<127>>, <<127>>>>, <<4, <<10>>, <<10>>>>,
     <<4, <<172, 16>>, <<172, 31>>>>, <<4, <<192, 168>>, <<192, 168>>>>,
     <<4, <<169, 254>>, <<169, 254>>>>,
     <<6, V6(0, 0, 1).octets, V6(0, 0, 1).octets>>,
     <<6, <<254, 128>>, <<254, 191>>>>, <<6, <<252>>, <<253>>>>}

UndocumentedRanges ==
    {<<4, V4(0, 0, 0, 0).octets, V4(0, 0, 0, 0).octets>>,
     <<6, V6(0, 0, 0).octets, V6(0, 0, 0).octets>>,
     <<6, <<254, 192>>, <<254, 255>>>>}

Internal(target) ==
    \E r \in DocumentedRanges \union UndocumentedRanges :
        target.family = r[1] /\ InRange(target.octets, r[2], r[3])
===============================================================================
