------------------------------- MODULE CdnLookup -------------------------------
(*****************************************************************************)
(* sps::fp::CdnDatabase (src/src/fp/cdn_lookup.cpp): which CDN a target is   *)
(* behind.  Targets and the bases of ranges are addresses of module          *)
(* ScopeGuard, a range an address, a prefix length (Junk when it is not one  *)
(* or two digits) and the provider's name (NoProvider when it is no string). *)
(*****************************************************************************)
EXTENDS PortSpec, ScopeGuard

NoProvider == "no string"
CdnNet == [base : Address, prefix : Int]
CdnRange(names) == [base : Address, prefix : Int, provider : names]

Unreadable == <<>>  \* a file that cannot be read, or is no such JSON

\* A range of the database built in, and those of a provider.
Net(a, b, c, prefix) == [base |-> V4(a, b, c, 0), prefix |-> prefix]

RangesOf(provider, nets) ==
    [i \in DOMAIN nets |-> [base |-> nets[i].base, prefix |-> nets[i].prefix,
                            provider |-> provider]]

kCloudflare ==
    <<Net(1, 0, 0, 24), Net(1, 1, 1, 24), Net(103, 21, 244, 22),
      Net(103, 22, 200, 22), Net(103, 31, 4, 22), Net(104, 16, 0, 13),
      Net(104, 24, 0, 14), Net(108, 162, 192, 18), Net(131, 0, 72, 22),
      Net(141, 101, 64, 18), Net(162, 158, 0, 15), Net(172, 64, 0, 13),
      Net(173, 245, 48, 20), Net(188, 114, 96, 20), Net(190, 93, 240, 20),
      Net(197, 234, 240, 22), Net(198, 41, 128, 17)>>

kFastly ==
    <<Net(23, 235, 32, 20), Net(43, 249, 72, 22), Net(103, 244, 50, 24),
      Net(103, 245, 222, 23), Net(104, 156, 80, 20), Net(146, 75, 0, 16),
      Net(151, 101, 0, 16), Net(157, 52, 64, 18), Net(167, 82, 0, 17),
      Net(172, 111, 64, 18), Net(185, 31, 16, 22), Net(199, 27, 72, 21),
      Net(199, 232, 0, 16)>>

kCloudfront ==
    <<Net(13, 32, 0, 15), Net(13, 224, 0, 14), Net(52, 84, 0, 15),
      Net(54, 182, 0, 16), Net(54, 192, 0, 16), Net(54, 230, 0, 16),
      Net(54, 239, 128, 18), Net(99, 84, 0, 16), Net(204, 246, 164, 22),
      Net(205, 251, 192, 19)>>

kAkamai ==
    <<Net(23, 32, 0, 11), Net(23, 192, 0, 11), Net(104, 64, 0, 10),
      Net(184, 24, 0, 13)>>

kImperva ==
    <<Net(199, 83, 128, 21), Net(198, 143, 32, 19), Net(149, 126, 72, 21),
      Net(103, 28, 248, 22), Net(185, 11, 124, 22), Net(192, 230, 64, 18)>>

kDefaultDb ==
    RangesOf("cloudflare", kCloudflare)
    \o RangesOf("fastly", kFastly)
    \o RangesOf("aws-cloudfront", kCloudfront)
    \o RangesOf("akamai", kAkamai)
    \o RangesOf("imperva", kImperva)

\* An address is four octets, in the target as in a range; anything else is
\* not looked up.
parse_ipv4(address) == address.family = 4

\* The ones of ~0u << n: the processor takes n modulo the 32 bits.
Shifted(n) == 32 - (n % 32)

\* Mutant: a prefix of 0 is shifted like any other.
OnesShifted(prefix) == Shifted(32 - prefix)

\* The ones at the front of the mask.
Ones(prefix) == IF prefix = 0 THEN 0 ELSE Shifted(32 - prefix)

\* address & mask, octet by octet.
Masked(address, ones) ==
    LET Spare(i) == IF ones >= 8 * i THEN 0
                    ELSE IF ones <= 8 * (i - 1) THEN 8 ELSE 8 * i - ones
    IN  [i \in 1..4 |-> address.octets[i]
                        - (address.octets[i] % (2^Spare(i)))]

parse_cidr(r) == parse_ipv4(r.base) /\ r.prefix \in 0..32

\* Ranges that are not well formed are left out.
parse(file) ==
    LET usable == {i \in DOMAIN file : file[i].provider # NoProvider
                                        /\ parse_cidr(file[i])}
        kept == Kept(file, usable)
    IN  [i \in DOMAIN kept |->
            [base |-> Masked(kept[i].base, Ones(kept[i].prefix)),
             ones |-> Ones(kept[i].prefix), provider |-> kept[i].provider]]

\* load_from_file(), and load_default() when nothing is left of the file or
\* none was named.
LoadRanges(file) ==
    IF parse(file) = <<>> THEN parse(kDefaultDb) ELSE parse(file)

\* The provider of the first range the target is in, "" when there is none.
lookup(ranges, target) ==
    LET Hit(i) == Masked(target, ranges[i].ones) = ranges[i].base
        hits == {i \in DOMAIN ranges : Hit(i)}
    IN  IF ~parse_ipv4(target) \/ hits = {} THEN ""
        ELSE ranges[CHOOSE i \in hits : \A k \in hits : i <= k].provider

-------------------------------------------------------------------------------

\* A target is in a range when the two agree in the bits of the prefix.
Bit(address, n) ==
    (address.octets[1 + ((n - 1) \div 8)] \div (2^(7 - ((n - 1) % 8)))) % 2

InCidr(target, r) ==
    target.family = 4 /\ \A n \in 1..r.prefix : Bit(target, n) = Bit(r.base, n)
===============================================================================
