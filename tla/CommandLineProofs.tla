--------------------------- MODULE CommandLineProofs ---------------------------
(*****************************************************************************)
(* The command line, for every set of invocations, databases and services:   *)
(* a run scans what was asked for, in scope, and loses no row; a row has the *)
(* label, the CVEs with their scores, and the fingerprints that belong to    *)
(* it; and whoever reads the report is told of every row.                    *)
(*****************************************************************************)
EXTENDS CommandLine, OperatorProofs

-------------------------------------------------------------------------------
(* The CDN of a target.                                                      *)

\* Two octets agree behind a mask of k ones when they agree in the first k bits.
LEMMA OctetBits ==
    ASSUME NEW x \in Octet, NEW y \in Octet, NEW k \in 0..8
    PROVE  x - (x % (2^(8 - k))) = y - (y % (2^(8 - k))) <=>
               \A j \in 1..k : (x \div (2^(8 - j))) % 2 = (y \div (2^(8 - j))) % 2
  <1> DEFINE masked(w) == x - (x % w) = y - (y % w)
             same(j) == (x \div (2^(8 - j))) % 2 = (y \div (2^(8 - j))) % 2
  <1>a. /\ x \in Int /\ x >= 0 /\ x <= 255
        /\ y \in Int /\ y >= 0 /\ y <= 255
    BY DEF Octet
  <1>b. /\ masked(128) <=> masked(256) /\ same(1)
        /\ masked(64) <=> masked(128) /\ same(2)
        /\ masked(32) <=> masked(64) /\ same(3)
        /\ masked(16) <=> masked(32) /\ same(4)
        /\ masked(8) <=> masked(16) /\ same(5)
        /\ masked(4) <=> masked(8) /\ same(6)
        /\ masked(2) <=> masked(4) /\ same(7)
        /\ masked(1) <=> masked(2) /\ same(8)
    BY <1>a
  <1>c. masked(256)
    BY <1>a
  <1> HIDE DEF masked, same
  <1> SUFFICES masked(2^(8 - k)) <=> \A j \in 1..k : same(j)
    BY DEF masked, same
  <1>0. CASE k = 0
    <2>1. 2^(8 - k) = 256
      BY <1>0
    <2> QED BY <1>0, <1>b, <1>c, <2>1
  <1>1. CASE k = 1
    <2>1. 2^(8 - k) = 128
      BY <1>1
    <2> QED BY <1>1, <1>b, <1>c, <2>1
  <1>2. CASE k = 2
    <2>1. 2^(8 - k) = 64
      BY <1>2
    <2> QED BY <1>2, <1>b, <1>c, <2>1
  <1>3. CASE k = 3
    <2>1. 2^(8 - k) = 32
      BY <1>3
    <2> QED BY <1>3, <1>b, <1>c, <2>1
  <1>4. CASE k = 4
    <2>1. 2^(8 - k) = 16
      BY <1>4
    <2> QED BY <1>4, <1>b, <1>c, <2>1
  <1>5. CASE k = 5
    <2>1. 2^(8 - k) = 8
      BY <1>5
    <2> QED BY <1>5, <1>b, <1>c, <2>1
  <1>6. CASE k = 6
    <2>1. 2^(8 - k) = 4
      BY <1>6
    <2> QED BY <1>6, <1>b, <1>c, <2>1
  <1>7. CASE k = 7
    <2>1. 2^(8 - k) = 2
      BY <1>7
    <2> QED BY <1>7, <1>b, <1>c, <2>1
  <1>8. CASE k = 8
    <2>1. 2^(8 - k) = 1
      BY <1>8
    <2> QED BY <1>8, <1>b, <1>c, <2>1
  <1> QED BY <1>0, <1>1, <1>2, <1>3, <1>4, <1>5, <1>6, <1>7, <1>8

\* How many of the first p bits of an address are in its octet i.
Through(i, p) == IF p >= 8 * i THEN 8 ELSE IF p <= 8 * (i - 1) THEN 0
                 ELSE p - 8 * (i - 1)

LEMMA BitOfOctet ==
    ASSUME NEW address, NEW i \in 1..4, NEW j \in 1..8
    PROVE  Bit(address, 8 * (i - 1) + j) =
               (address.octets[i] \div (2^(8 - j))) % 2
  <1> DEFINE n == 8 * (i - 1) + j
  <1>1. (n - 1) \div 8 = i - 1 /\ (n - 1) % 8 = j - 1
    OBVIOUS
  <1> HIDE DEF n
  <1>2. 1 + ((n - 1) \div 8) = i /\ 7 - ((n - 1) % 8) = 8 - j
    BY <1>1
  <1>3. Bit(address, n) = (address.octets[i] \div (2^(8 - j))) % 2
    BY <1>2 DEF Bit
  <1> QED BY <1>3 DEF n

\* Two addresses agree behind the mask of a prefix when they agree in its bits.
LEMMA MaskedBits ==
    ASSUME NEW a, a.octets \in [1..4 -> Octet], NEW b, b.octets \in [1..4 -> Octet],
           NEW p \in 0..32
    PROVE  Masked(a, p) = Masked(b, p) <=>
               \A n \in 1..p : Bit(a, n) = Bit(b, n)
  <1> DEFINE low(x, i) == x.octets[i] % (2^(8 - Through(i, p)))
             same(i, j) == (a.octets[i] \div (2^(8 - j))) % 2
                               = (b.octets[i] \div (2^(8 - j))) % 2
  <1>1. \A i \in 1..4 : Through(i, p) \in 0..8
    BY DEF Through
  <1>2. \A x : Masked(x, p) = [i \in 1..4 |-> x.octets[i] - low(x, i)]
    <2> TAKE x
    <2>1. \A i \in 1..4 : (IF p >= 8 * i THEN 0
              ELSE IF p <= 8 * (i - 1) THEN 8 ELSE 8 * i - p)
                  = 8 - Through(i, p)
      BY DEF Through
    <2> QED BY <2>1 DEF Masked
  <1>3. ASSUME NEW i \in 1..4
        PROVE  a.octets[i] - low(a, i) = b.octets[i] - low(b, i) <=>
                   \A j \in 1..Through(i, p) : same(i, j)
    <2> DEFINE x == a.octets[i]
               y == b.octets[i]
               k == Through(i, p)
    <2>1. x \in Octet /\ y \in Octet /\ k \in 0..8
      BY <1>1
    <2> HIDE DEF x, y, k
    <2>2. x - (x % (2^(8 - k))) = y - (y % (2^(8 - k))) <=>
              \A j \in 1..k : (x \div (2^(8 - j))) % 2 = (y \div (2^(8 - j))) % 2
      BY <2>1, OctetBits
    <2> QED BY <2>2 DEF x, y, k
  <1>4. Masked(a, p) = Masked(b, p) <=>
            \A i \in 1..4 : \A j \in 1..Through(i, p) : same(i, j)
    <2> HIDE DEF low, same
    <2>1. Masked(a, p) = Masked(b, p) <=>
              \A i \in 1..4 : a.octets[i] - low(a, i) = b.octets[i] - low(b, i)
      BY <1>2
    <2> QED BY <1>3, <2>1
  <1>5. ASSUME NEW i \in 1..4, NEW j \in 1..8
        PROVE  Bit(a, 8 * (i - 1) + j) = Bit(b, 8 * (i - 1) + j) <=> same(i, j)
    BY BitOfOctet
  <1>6. \A i \in 1..4, j \in Int :
            j \in 1..Through(i, p) <=> j \in 1..8 /\ 8 * (i - 1) + j <= p
    BY DEF Through
  <1>7. ASSUME NEW n \in 1..p
        PROVE  \E i \in 1..4, j \in 1..8 : n = 8 * (i - 1) + j
    <2>1. n <= 8 \/ (8 < n /\ n <= 16) \/ (16 < n /\ n <= 24) \/ 24 < n
      OBVIOUS
    <2>2. CASE n <= 8
      BY <2>2
    <2>3. CASE 8 < n /\ n <= 16
      <3>1. n = 8 * (2 - 1) + (n - 8) /\ n - 8 \in 1..8 /\ 2 \in 1..4
        BY <2>3
      <3> QED BY <3>1
    <2>4. CASE 16 < n /\ n <= 24
      <3>1. n = 8 * (3 - 1) + (n - 16) /\ n - 16 \in 1..8 /\ 3 \in 1..4
        BY <2>4
      <3> QED BY <3>1
    <2>5. CASE 24 < n
      <3>1. n = 8 * (4 - 1) + (n - 24) /\ n - 24 \in 1..8 /\ 4 \in 1..4
        BY <2>5
      <3> QED BY <3>1
    <2> QED BY <2>1, <2>2, <2>3, <2>4, <2>5
  <1>8. \A i \in 1..4, j \in 1..8 : 8 * (i - 1) + j \in Nat \ {0}
    OBVIOUS
  <1> HIDE DEF same
  <1>9. ASSUME \A n \in 1..p : Bit(a, n) = Bit(b, n),
               NEW i \in 1..4, NEW j \in 1..Through(i, p)
        PROVE  same(i, j)
    <2>1. j \in 1..8 /\ 8 * (i - 1) + j \in 1..p
      BY <1>1, <1>6, <1>8
    <2> QED BY <1>5, <1>9, <2>1
  <1>10. ASSUME \A i \in 1..4 : \A j \in 1..Through(i, p) : same(i, j),
                NEW n \in 1..p
         PROVE  Bit(a, n) = Bit(b, n)
    <2>1. PICK i \in 1..4, j \in 1..8 : n = 8 * (i - 1) + j
      BY <1>7
    <2>2. j \in 1..Through(i, p)
      BY <1>6, <2>1
    <2> QED BY <1>5, <1>10, <2>1, <2>2
  <1> QED BY <1>4, <1>9, <1>10

\* The mask of a prefix has as many ones.
LEMMA OnesOfPrefix ==
    ASSUME NEW p \in 0..32
    PROVE  Ones(p) = p
  BY DEF Ones, Shifted

\* What the property says of a file of ranges.
Usable(r) == /\ r.provider # NoProvider /\ r.base.family = 4
             /\ r.prefix \in 0..32

HitsIn(file, target) ==
    {i \in DOMAIN file : Usable(file[i]) /\ InCidr(target, file[i])}

LabelIn(file, target) ==
    LET hits == HitsIn(file, target)
    IN  IF hits = {} THEN ""
        ELSE file[CHOOSE i \in hits : \A k \in hits : i <= k].provider

\* The ranges that are loaded: those that can be used, in their order.
LEMMA ParsedRanges ==
    ASSUME NEW names, NEW file \in Seq(CdnRange(names))
    PROVE  LET usable == {i \in DOMAIN file : Usable(file[i])}
               N == Cardinality(usable)
               at == Ascending(usable)
               rows == parse(file)
           IN  /\ N \in Nat /\ (N = 0 <=> usable = {})
               /\ at \in [1..N -> usable]
               /\ \A i, j \in 1..N : i < j => at[i] < at[j]
               /\ \A i \in usable : \E n \in 1..N : at[n] = i
               /\ DOMAIN rows = 1..N /\ (rows = <<>> <=> N = 0)
               /\ \A n \in 1..N :
                      LET r == file[at[n]]
                      IN  /\ rows[n].base = Masked(r.base, r.prefix)
                          /\ rows[n].ones = r.prefix
                          /\ rows[n].provider = r.provider
  <1> DEFINE usable == {i \in DOMAIN file : Usable(file[i])}
             N == Cardinality(usable)
             at == Ascending(usable)
             kept == Kept(file, usable)
             rows == parse(file)
  <1>1. usable = {i \in DOMAIN file : file[i].provider # NoProvider
                                       /\ parse_cidr(file[i])}
    BY DEF Usable, parse_cidr, parse_ipv4
  <1>2. rows = [i \in DOMAIN kept |->
                     [base |-> Masked(kept[i].base, Ones(kept[i].prefix)),
                      ones |-> Ones(kept[i].prefix),
                      provider |-> kept[i].provider]]
    BY <1>1 DEF parse
  <1>3. \A i \in usable : i \in DOMAIN file /\ Usable(file[i])
    OBVIOUS
  <1> HIDE DEF usable
  <1>4. /\ N \in Nat /\ (N = 0 <=> usable = {})
        /\ at \in [1..N -> usable]
        /\ \A i, j \in 1..N : i < j => at[i] < at[j]
        /\ \A i \in usable : \E n \in 1..N : at[n] = i
        /\ DOMAIN kept = 1..N
        /\ \A n \in 1..N : kept[n] = file[at[n]]
    <2>1. \A i \in usable : i \in DOMAIN file
      BY <1>3
    <2> QED BY <2>1, KeptElements
  <1> HIDE DEF N, at, kept, rows
  <1>5. ASSUME NEW n \in 1..N
        PROVE  LET r == file[at[n]]
               IN  /\ rows[n].base = Masked(r.base, r.prefix)
                   /\ rows[n].ones = r.prefix
                   /\ rows[n].provider = r.provider
    <2> DEFINE r == file[at[n]]
    <2>1. r.prefix \in 0..32 /\ kept[n] = r
      BY <1>3, <1>4 DEF Usable
    <2> HIDE DEF r
    <2>2. Ones(r.prefix) = r.prefix
      BY <2>1, OnesOfPrefix
    <2>3. rows[n] = [base |-> Masked(r.base, r.prefix), ones |-> r.prefix,
                       provider |-> r.provider]
      BY <1>2, <1>4, <2>1, <2>2
    <2> QED BY <2>3 DEF r
  <1>6. DOMAIN rows = 1..N
    BY <1>2, <1>4
  <1>7. rows = <<>> <=> N = 0
    <2>1. N = 0 => rows = <<>>
      BY <1>2, <1>4
    <2>2. N # 0 => 1 \in DOMAIN rows
      BY <1>4, <1>6
    <2> QED BY <2>1, <2>2
  <1> QED BY <1>4, <1>5, <1>6, <1>7 DEF usable, N, at, rows

\* A target is looked up as the label says, whatever file the ranges are from.
LEMMA LookupLabels ==
    ASSUME NEW names, NEW file \in Seq(CdnRange(names)), NEW target \in Address
    PROVE  lookup(parse(file), target) = LabelIn(file, target)
  <1> DEFINE rows == parse(file)
             usable == {i \in DOMAIN file : Usable(file[i])}
             N == Cardinality(usable)
             at == Ascending(usable)
             found == {n \in DOMAIN rows :
                          Masked(target, rows[n].ones) = rows[n].base}
             hits == HitsIn(file, target)
  <1>1. /\ N \in Nat
        /\ at \in [1..N -> usable]
        /\ \A i, j \in 1..N : i < j => at[i] < at[j]
        /\ \A i \in usable : \E n \in 1..N : at[n] = i
        /\ DOMAIN rows = 1..N
        /\ \A n \in 1..N :
               LET r == file[at[n]]
               IN  /\ rows[n].base = Masked(r.base, r.prefix)
                   /\ rows[n].ones = r.prefix
                   /\ rows[n].provider = r.provider
    BY ParsedRanges
  <1>2. \A i \in usable : /\ i \in DOMAIN file /\ i \in Int
                          /\ Usable(file[i]) /\ file[i].base \in Address
    <2>1. Len(file) \in Nat /\ DOMAIN file = 1..Len(file)
      BY LenProperties
    <2>2. \A i \in 1..Len(file) : file[i] \in CdnRange(names)
      BY ElementOfSeq
    <2> QED BY <2>1, <2>2 DEF CdnRange
  <1>3. lookup(rows, target) =
            IF ~parse_ipv4(target) \/ found = {} THEN ""
            ELSE rows[CHOOSE i \in found : \A k \in found : i <= k].provider
    BY DEF lookup
  <1>4. LabelIn(file, target) =
            IF hits = {} THEN ""
            ELSE file[CHOOSE i \in hits : \A k \in hits : i <= k].provider
    BY DEF LabelIn
  <1>5. \A i : i \in hits <=> i \in usable /\ InCidr(target, file[i])
    BY DEF HitsIn
  <1>6. \A n : n \in found <=> /\ n \in DOMAIN rows
                               /\ Masked(target, rows[n].ones) = rows[n].base
    OBVIOUS
  <1> HIDE DEF rows, usable, N, at, found, hits
  <1> SUFFICES lookup(rows, target) = LabelIn(file, target)
    BY DEF rows
  <1>7. CASE target.family # 4
    <2>1. hits = {}
      BY <1>5, <1>7 DEF InCidr
    <2> QED BY <1>3, <1>4, <1>7, <2>1 DEF parse_ipv4
  <1>8. CASE target.family = 4
    <2>1. ASSUME NEW a \in Address, a.family = 4
          PROVE  a.octets \in [1..4 -> Octet]
      <3>1. CASE a = NoAddress
        BY <2>1, <3>1 DEF NoAddress
      <3>2. CASE a \in [family : {4}, octets : Octets(4)]
        BY <3>2 DEF Octets, Octet
      <3>3. CASE a \in [family : {6}, octets : Octets(16)]
        <4>1. a.family = 6
          BY <3>3
        <4> QED BY <2>1, <4>1
      <3> QED BY <2>1, <3>1, <3>2, <3>3 DEF Address
    <2>2. ASSUME NEW n \in 1..N
          PROVE  n \in found <=> at[n] \in hits
      <3> DEFINE r == file[at[n]]
      <3>1. /\ at[n] \in usable /\ r.base \in Address /\ r.base.family = 4
            /\ r.prefix \in 0..32
        BY <1>1, <1>2 DEF Usable
      <3>2. /\ rows[n].base = Masked(r.base, r.prefix)
            /\ rows[n].ones = r.prefix
        BY <1>1
      <3>3. InCidr(target, r) <=>
                \A k \in 1..r.prefix : Bit(target, k) = Bit(r.base, k)
        BY <1>8 DEF InCidr
      <3> HIDE DEF r
      <3>4. target.octets \in [1..4 -> Octet] /\ r.base.octets \in [1..4 -> Octet]
        BY <1>8, <2>1, <3>1
      <3>5. InCidr(target, r) <=> Masked(target, r.prefix) = Masked(r.base, r.prefix)
        BY <3>1, <3>3, <3>4, MaskedBits
      <3> QED BY <1>1, <1>5, <1>6, <3>1, <3>2, <3>5 DEF r
    <2>3. \A i \in hits : \E n \in 1..N : at[n] = i /\ n \in found
      BY <1>1, <1>5, <2>2
    <2>4. \A n \in found : n \in 1..N /\ n \in Int
      BY <1>1, <1>6
    <2>5. CASE found = {}
      <3>1. hits = {}
        BY <2>3, <2>5
      <3> QED BY <1>3, <1>4, <2>5, <3>1
    <2>6. CASE found # {}
      <3>1. IsFiniteSet(found)
        <4>1. IsFiniteSet(1..N)
          BY <1>1, FS_Interval
        <4> QED BY <2>4, <4>1, FS_Subset
      <3>2. PICK n \in found : \A k \in found : n <= k
        BY <2>4, <2>6, <3>1, HasLeast
      <3>3. \A k \in found : (\A j \in found : k <= j) => k = n
        BY <2>4, <3>2
      <3>4. (CHOOSE i \in found : \A k \in found : i <= k) = n
        BY <3>2, <3>3
      <3>5. n \in 1..N /\ at[n] \in hits
        BY <2>2, <2>4
      <3>6. \A i \in hits : i \in Int /\ at[n] <= i
        <4> TAKE i \in hits
        <4>1. PICK k \in 1..N : at[k] = i /\ k \in found
          BY <2>3
        <4>2. n = k \/ n < k
          BY <2>4, <3>2, <4>1
        <4>3. at[n] = at[k] \/ at[n] < at[k]
          BY <1>1, <3>5, <4>1, <4>2
        <4>4. at[n] \in Int /\ i \in Int
          BY <1>2, <1>5, <3>5
        <4> QED BY <4>1, <4>3, <4>4
      <3>7. \A k \in hits : (\A j \in hits : k <= j) => k = at[n]
        BY <3>5, <3>6
      <3>8. (CHOOSE i \in hits : \A k \in hits : i <= k) = at[n]
        BY <3>5, <3>6, <3>7
      <3>9. rows[n].provider = file[at[n]].provider
        BY <1>1, <3>5
      <3> QED BY <1>3, <1>4, <1>8, <2>6, <3>4, <3>5, <3>8, <3>9 DEF parse_ipv4
    <2> QED BY <2>5, <2>6
  <1> QED BY <1>7, <1>8

LEMMA RangesOfType ==
    ASSUME NEW names, NEW provider \in names, NEW nets \in Seq(CdnNet)
    PROVE  RangesOf(provider, nets) \in Seq(CdnRange(names))
  <1> DEFINE n == Len(nets)
  <1>1. n \in Nat /\ DOMAIN nets = 1..n
    BY LenProperties
  <1>2. \A i \in 1..n : nets[i] \in CdnNet
    BY ElementOfSeq
  <1> HIDE DEF n
  <1>3. RangesOf(provider, nets) \in [1..n -> CdnRange(names)]
    BY <1>1, <1>2 DEF RangesOf, CdnNet, CdnRange
  <1> QED BY <1>1, <1>3, FunctionIsSeq

LEMMA NetType ==
    ASSUME NEW x \in Int, NEW y \in Int, NEW z \in Int, NEW p \in Int,
           0 <= x, x <= 255, 0 <= y, y <= 255, 0 <= z, z <= 255
    PROVE  Net(x, y, z, p) \in CdnNet
  <1>1. <<x, y, z, 0>> \in [1..4 -> 0..255]
    OBVIOUS
  <1>2. V4(x, y, z, 0) \in Address
    BY <1>1 DEF V4, Address, Octets
  <1> QED BY <1>2 DEF Net, CdnNet

Providers == {"cloudflare", "fastly", "aws-cloudfront", "akamai", "imperva"}

LEMMA DefaultDbType == kDefaultDb \in Seq(CdnRange(Providers))
  <1>1. kCloudflare \in Seq(CdnNet)
    <2>1. /\ Net(1, 0, 0, 24) \in CdnNet
          /\ Net(1, 1, 1, 24) \in CdnNet
          /\ Net(103, 21, 244, 22) \in CdnNet
          /\ Net(103, 22, 200, 22) \in CdnNet
      BY NetType
    <2>2. /\ Net(103, 31, 4, 22) \in CdnNet
          /\ Net(104, 16, 0, 13) \in CdnNet
          /\ Net(104, 24, 0, 14) \in CdnNet
          /\ Net(108, 162, 192, 18) \in CdnNet
      BY NetType
    <2>3. /\ Net(131, 0, 72, 22) \in CdnNet
          /\ Net(141, 101, 64, 18) \in CdnNet
          /\ Net(162, 158, 0, 15) \in CdnNet
          /\ Net(172, 64, 0, 13) \in CdnNet
      BY NetType
    <2>4. /\ Net(173, 245, 48, 20) \in CdnNet
          /\ Net(188, 114, 96, 20) \in CdnNet
          /\ Net(190, 93, 240, 20) \in CdnNet
          /\ Net(197, 234, 240, 22) \in CdnNet
      BY NetType
    <2>5. /\ Net(198, 41, 128, 17) \in CdnNet
      BY NetType
    <2> QED BY <2>1, <2>2, <2>3, <2>4, <2>5 DEF kCloudflare
  <1>2. kFastly \in Seq(CdnNet)
    <2>1. /\ Net(23, 235, 32, 20) \in CdnNet
          /\ Net(43, 249, 72, 22) \in CdnNet
          /\ Net(103, 244, 50, 24) \in CdnNet
          /\ Net(103, 245, 222, 23) \in CdnNet
      BY NetType
    <2>2. /\ Net(104, 156, 80, 20) \in CdnNet
          /\ Net(146, 75, 0, 16) \in CdnNet
          /\ Net(151, 101, 0, 16) \in CdnNet
          /\ Net(157, 52, 64, 18) \in CdnNet
      BY NetType
    <2>3. /\ Net(167, 82, 0, 17) \in CdnNet
          /\ Net(172, 111, 64, 18) \in CdnNet
          /\ Net(185, 31, 16, 22) \in CdnNet
          /\ Net(199, 27, 72, 21) \in CdnNet
      BY NetType
    <2>4. /\ Net(199, 232, 0, 16) \in CdnNet
      BY NetType
    <2> QED BY <2>1, <2>2, <2>3, <2>4 DEF kFastly
  <1>3. kCloudfront \in Seq(CdnNet)
    <2>1. /\ Net(13, 32, 0, 15) \in CdnNet
          /\ Net(13, 224, 0, 14) \in CdnNet
          /\ Net(52, 84, 0, 15) \in CdnNet
          /\ Net(54, 182, 0, 16) \in CdnNet
      BY NetType
    <2>2. /\ Net(54, 192, 0, 16) \in CdnNet
          /\ Net(54, 230, 0, 16) \in CdnNet
          /\ Net(54, 239, 128, 18) \in CdnNet
          /\ Net(99, 84, 0, 16) \in CdnNet
      BY NetType
    <2>3. /\ Net(204, 246, 164, 22) \in CdnNet
          /\ Net(205, 251, 192, 19) \in CdnNet
      BY NetType
    <2> QED BY <2>1, <2>2, <2>3 DEF kCloudfront
  <1>4. kAkamai \in Seq(CdnNet)
    <2>1. /\ Net(23, 32, 0, 11) \in CdnNet
          /\ Net(23, 192, 0, 11) \in CdnNet
          /\ Net(104, 64, 0, 10) \in CdnNet
          /\ Net(184, 24, 0, 13) \in CdnNet
      BY NetType
    <2> QED BY <2>1 DEF kAkamai
  <1>5. kImperva \in Seq(CdnNet)
    <2>1. /\ Net(199, 83, 128, 21) \in CdnNet
          /\ Net(198, 143, 32, 19) \in CdnNet
          /\ Net(149, 126, 72, 21) \in CdnNet
          /\ Net(103, 28, 248, 22) \in CdnNet
      BY NetType
    <2>2. /\ Net(185, 11, 124, 22) \in CdnNet
          /\ Net(192, 230, 64, 18) \in CdnNet
      BY NetType
    <2> QED BY <2>1, <2>2 DEF kImperva
  <1>6. \A nets \in Seq(CdnNet), provider \in Providers :
            RangesOf(provider, nets) \in Seq(CdnRange(Providers))
    BY RangesOfType
  <1>7. /\ "cloudflare" \in Providers /\ "fastly" \in Providers
        /\ "aws-cloudfront" \in Providers /\ "akamai" \in Providers
        /\ "imperva" \in Providers
    BY DEF Providers
  <1>8. /\ RangesOf("cloudflare", kCloudflare) \in Seq(CdnRange(Providers))
        /\ RangesOf("fastly", kFastly) \in Seq(CdnRange(Providers))
        /\ RangesOf("aws-cloudfront", kCloudfront)
               \in Seq(CdnRange(Providers))
        /\ RangesOf("akamai", kAkamai) \in Seq(CdnRange(Providers))
        /\ RangesOf("imperva", kImperva) \in Seq(CdnRange(Providers))
    BY <1>1, <1>2, <1>3, <1>4, <1>5, <1>6, <1>7, Zenon
  <1>9. \A s, t \in Seq(CdnRange(Providers)) :
            s \o t \in Seq(CdnRange(Providers))
    BY ConcatProperties
  <1> QED BY <1>8, <1>9 DEF kDefaultDb

LEMMA RangesLabel ==
    ASSUME NEW names, NEW file \in Seq(CdnRange(names)), NEW target \in Address
    PROVE  lookup(LoadRanges(file), target) =
               LabelIn(IF \E r \in Range(file) : Usable(r) THEN file
                       ELSE kDefaultDb, target)
  <1>1. parse(file) = <<>> <=> ~\E i \in DOMAIN file : Usable(file[i])
    <2> DEFINE usable == {i \in DOMAIN file : Usable(file[i])}
    <2>1. parse(file) = <<>> <=> usable = {}
      BY ParsedRanges
    <2> QED BY <2>1
  <1>2. (\E r \in Range(file) : Usable(r)) <=>
            \E i \in DOMAIN file : Usable(file[i])
    BY DEF Range
  <1> QED BY <1>1, <1>2, LookupLabels, DefaultDbType DEF LoadRanges

-------------------------------------------------------------------------------
(* What the probes make of a banner.                                         *)

\* What a template makes of what was captured is a text.
LEMMA TemplateIsText ==
    ASSUME NEW template, IsText(template), NEW capture \in Text
    PROVE  IsText(apply_template(template,
                                 <<Append(capture, "..."), capture>>))
  <1> DEFINE W == Range(template) \union Range(capture) \union {"..."}
             groups == <<Append(capture, "..."), capture>>
             parts == [i \in DOMAIN template |-> Expanded(template[i], groups)]
  <1>1. IsText(capture)
    BY TextIsText
  <1>2. capture \in Seq(W) /\ "..." \in W
    <2>1. Range(capture) \subseteq W /\ capture \in Seq(Range(capture))
      BY <1>1 DEF IsText, IsSeq
    <2>2. "..." \in W
      OBVIOUS
    <2> HIDE DEF W
    <2> QED BY <2>1, <2>2, SeqMonotonic
  <1>3. Append(capture, "...") \in Seq(W)
    <2> HIDE DEF W
    <2> QED BY <1>2, AppendProperties
  <1>4. \A w \in W : w \notin Entities
    <2>1. "..." \notin Entities
      BY Zenon DEF Entities
    <2>2. \A w \in Range(template) \union Range(capture) : w \notin Entities
      BY <1>1 DEF IsText, Range
    <2> QED BY <2>1, <2>2
  <1>5. ASSUME NEW word \in W PROVE Expanded(word, groups) \in Seq(W)
    <2> DEFINE named == {n \in DOMAIN kGroups : kGroups[n] = word}
               n == CHOOSE n \in named : TRUE
    <2>1. Expanded(word, groups) =
              IF named = {} THEN <<word>>
              ELSE IF n > 2 THEN <<>> ELSE groups[n]
      BY DEF Expanded
    <2>2. \A i \in named : i \in 1..10
      BY DEF kGroups
    <2>3. named # {} => n \in named
      OBVIOUS
    <2> HIDE DEF named, n, W
    <2>4. named # {} => n \in 1..10
      BY <2>2, <2>3
    <2>5. <<word>> \in Seq(W) /\ <<>> \in Seq(W)
      OBVIOUS
    <2>6. groups[1] \in Seq(W) /\ groups[2] \in Seq(W)
      BY <1>2, <1>3
    <2> HIDE DEF groups
    <2>7. \A i \in 1..10 : ~(i > 2) => i = 1 \/ i = 2
      OBVIOUS
    <2> QED BY <2>1, <2>4, <2>5, <2>6, <2>7
  <1>6. Len(template) \in Nat /\ DOMAIN template = 1..Len(template)
        /\ \A i \in DOMAIN template : template[i] \in W
    <2>1. Len(template) \in Nat /\ DOMAIN template = 1..Len(template)
      BY LenProperties DEF IsText, IsSeq
    <2> QED BY <2>1 DEF Range
  <1>7. parts \in [1..Len(template) -> Seq(W)]
    <2> HIDE DEF groups, W
    <2> QED BY <1>5, <1>6
  <1>8. apply_template(template, groups) = FlattenSeq(parts)
    BY DEF apply_template
  <1> HIDE DEF parts, groups, W
  <1>9. parts \in Seq(Seq(W))
    BY <1>6, <1>7, FunctionIsSeq
  <1>10. FlattenSeq(parts) \in Seq(W)
    BY <1>9, FlattenedIsText
  <1> QED BY <1>4, <1>8, <1>10, WordsAreText DEF groups

\* A rule whose templates are texts.
HasTemplates(match) == IsText(match.service) /\ IsText(match.version)

IsRule(rule) ==
    /\ DOMAIN rule = {"name", "ports", "send", "matches"}
    /\ IsSeq(rule.matches)
    /\ \A n \in DOMAIN rule.matches : HasTemplates(rule.matches[n])

LEMMA RuleParsed ==
    ASSUME NEW rule, IsRule(rule), NEW n \in DOMAIN parse_probe(rule).matches
    PROVE  HasTemplates(parse_probe(rule).matches[n])
  <1> DEFINE matches == rule.matches
             S == {i \in DOMAIN matches : parse_match(matches[i])}
             at == Ascending(S)
             T == Range(matches)
  <1>1. parse_probe(rule).matches = Kept(matches, S)
    BY DEF parse_probe, IsRule
  <1>2. \A i \in S : i \in DOMAIN matches
    OBVIOUS
  <1>3. matches \in Seq(T) /\ \A i \in DOMAIN matches : HasTemplates(matches[i])
    BY DEF IsRule, IsSeq
  <1> HIDE DEF S, T, matches
  <1>4. n \in DOMAIN Kept(matches, S) /\ Kept(matches, S)[n] = matches[at[n]]
        /\ at[n] \in S
    BY <1>1, <1>2, <1>3, KeptElements
  <1> HIDE DEF at
  <1> QED BY <1>1, <1>2, <1>3, <1>4

RulesText(rules) ==
    /\ IsSeq(rules)
    /\ \A i \in DOMAIN rules : \A n \in DOMAIN rules[i].matches :
           HasTemplates(rules[i].matches[n])

LEMMA RulesParsed ==
    ASSUME NEW file, IsSeq(file), \A i \in DOMAIN file : IsRule(file[i])
    PROVE  RulesText(parse_rules(file))
  <1> DEFINE S == {i \in DOMAIN file : Parses(file[i])}
             at == Ascending(S)
             N == Cardinality(S)
             kept == Kept(file, S)
             T == Range(file)
             rules == parse_rules(file)
  <1>1. rules = [i \in DOMAIN kept |-> parse_probe(kept[i])]
    BY DEF parse_rules
  <1>2. \A i \in S : i \in DOMAIN file
    OBVIOUS
  <1>3. file \in Seq(T)
    BY DEF IsSeq
  <1> HIDE DEF S, T, rules
  <1>4. /\ N \in Nat /\ DOMAIN kept = 1..N
        /\ \A i \in 1..N : kept[i] = file[at[i]] /\ at[i] \in S
    BY <1>2, <1>3, KeptElements
  <1> HIDE DEF N, at, kept
  <1>5. \A i \in 1..N : IsRule(kept[i])
    BY <1>2, <1>4
  <1>6. DOMAIN rules = 1..N /\ \A i \in 1..N : rules[i] = parse_probe(kept[i])
    BY <1>1, <1>4
  <1>7. IsSeq(rules)
    <2>1. rules = [i \in 1..N |-> rules[i]]
      BY <1>1, <1>4
    <2>2. rules \in [1..N -> Range(rules)]
      BY <1>6, <2>1 DEF Range
    <2>3. rules \in Seq(Range(rules))
      BY <1>4, <2>2, FunctionIsSeq
    <2> QED BY <2>3 DEF IsSeq
  <1>8. \A i \in 1..N : \A n \in DOMAIN rules[i].matches :
            HasTemplates(rules[i].matches[n])
    BY <1>5, <1>6, RuleParsed
  <1> QED BY <1>6, <1>7, <1>8 DEF RulesText, rules

LEMMA DefaultRulesText == RulesText(parse_rules(kDefaultRules))
  <1> DEFINE IsMatch(m) == HasTemplates(m)
             Names == {"ssh", "ftp", "smtp", "http", "redis", "mysql",
                       "postgresql", "mongodb"}
  <1>1. \A service \in Names : IsMatch(Captured(service))
                               /\ IsMatch(Unversioned(service))
    <2>1. IsText(<<"$1">>)
      <3>1. "$1" \notin Entities
        BY Zenon DEF Entities
      <3> QED BY <3>1, OneWord
    <2>2. \A service \in Names : IsText(<<service>>)
      <3>1. \A service \in Names : service \notin Entities
        BY Zenon DEF Entities
      <3> HIDE DEF Names
      <3> QED BY <3>1, OneWord
    <2> HIDE DEF Names
    <2> QED BY <2>1, <2>2, NoText
            DEF Captured, Unversioned, MatchOf, HasTemplates
  <1>2. ASSUME NEW name, NEW ports, NEW send, NEW m, IsMatch(m)
        PROVE  IsRule(RuleOf(name, ports, send, <<m>>))
    BY <1>2, Singleton DEF IsRule, RuleOf
  <1>3. ASSUME NEW name, NEW ports, NEW send, NEW m, NEW k,
               IsMatch(m), IsMatch(k)
        PROVE  IsRule(RuleOf(name, ports, send, <<m, k>>))
    BY <1>3, Pair DEF IsRule, RuleOf
  <1> HIDE DEF IsMatch
  <1>4. /\ Len(kDefaultRules) = 8 /\ DOMAIN kDefaultRules = 1..8
        /\ IsRule(kDefaultRules[1])
        /\ IsRule(kDefaultRules[2])
        /\ IsRule(kDefaultRules[3])
        /\ IsRule(kDefaultRules[4])
        /\ IsRule(kDefaultRules[5])
        /\ IsRule(kDefaultRules[6])
        /\ IsRule(kDefaultRules[7])
        /\ IsRule(kDefaultRules[8])
    <2>1. IsRule(RuleOf("ssh", <<22, 2222>>, NoRequest,
                      <<Captured("ssh")>>))
      BY <1>1, <1>2
    <2>2. IsRule(RuleOf("ftp", <<21>>, NoRequest,
                      <<Captured("ftp"), Unversioned("ftp")>>))
      BY <1>1, <1>3
    <2>3. IsRule(RuleOf("smtp", <<25, 465, 587>>, NoRequest,
                      <<Captured("smtp"), Unversioned("smtp")>>))
      BY <1>1, <1>3
    <2>4. IsRule(RuleOf("http", <<80, 8080, 8000, 8888>>, "OPTIONS",
                      <<Captured("http"), Unversioned("http")>>))
      BY <1>1, <1>3
    <2>5. IsRule(RuleOf("redis", <<6379>>, "PING",
                      <<Unversioned("redis")>>))
      BY <1>1, <1>2
    <2>6. IsRule(RuleOf("mysql", <<3306>>, NoRequest,
                      <<Captured("mysql")>>))
      BY <1>1, <1>2
    <2>7. IsRule(RuleOf("postgresql", <<5432>>, "hex",
                      <<Unversioned("postgresql")>>))
      BY <1>1, <1>2
    <2>8. IsRule(RuleOf("mongodb", <<27017>>, "hex",
                      <<Unversioned("mongodb")>>))
      BY <1>1, <1>2
    <2> QED BY <2>1, <2>2, <2>3, <2>4, <2>5, <2>6, <2>7, <2>8
            DEF kDefaultRules
  <1>5. \A i \in DOMAIN kDefaultRules : IsRule(kDefaultRules[i])
    BY <1>4
  <1>6. IsSeq(kDefaultRules)
    <2>1. kDefaultRules \in Seq(Range(kDefaultRules))
      <3>1. kDefaultRules \in [1..8 -> Range(kDefaultRules)]
        BY DEF Range, kDefaultRules
      <3> QED BY <3>1, FunctionIsSeq
    <2> QED BY <2>1 DEF IsSeq
  <1> QED BY <1>5, <1>6, RulesParsed

LEMMA ProbesText ==
    ASSUME NEW file \in Seq(Rule)
    PROVE  \A i \in DOMAIN default_probes(file) :
               \A n \in DOMAIN default_probes(file)[i].matches :
                   HasTemplates(default_probes(file)[i].matches[n])
  <1> DEFINE rules == IF parse_rules(file) = <<>> THEN parse_rules(kDefaultRules)
                      ELSE parse_rules(file)
             all == default_probes(file)
  <1>1. IsSeq(file)
    BY SeqOfAny
  <1>2. ASSUME NEW i \in DOMAIN file PROVE IsRule(file[i])
    <2>1. file[i] \in Rule
      BY LenProperties, ElementOfSeq
    <2>2. file[i].matches \in Seq(Match)
          /\ DOMAIN file[i] = {"name", "ports", "send", "matches"}
      BY <2>1 DEF Rule
    <2>3. ASSUME NEW n \in DOMAIN file[i].matches
          PROVE  HasTemplates(file[i].matches[n])
      <3>1. file[i].matches[n] \in Match
        BY <2>2, LenProperties, ElementOfSeq
      <3>2. /\ file[i].matches[n].service \in Text
            /\ file[i].matches[n].version \in Text
        BY <3>1 DEF Match
      <3> QED BY <3>2, TextIsText DEF HasTemplates
    <2>4. IsSeq(file[i].matches)
      BY <2>2, SeqOfAny
    <2> QED BY <2>2, <2>3, <2>4 DEF IsRule
  <1>3. RulesText(rules)
    BY <1>1, <1>2, RulesParsed, DefaultRulesText
  <1>4. all = Append(rules, TlsProbe)
    BY DEF default_probes
  <1> HIDE DEF rules, all
  <1>5. /\ Len(all) = Len(rules) + 1 /\ IsSeq(all)
        /\ \A i \in 1..Len(rules) : all[i] = rules[i]
        /\ all[Len(rules) + 1] = TlsProbe
    <2>1. IsSeq(rules)
      BY <1>3 DEF RulesText
    <2>2. Len(all) = Len(rules) + 1 /\ IsSeq(all)
      BY <1>4, <2>1, SeqAppend
    <2>3. \A i \in 1..Len(rules) : all[i] = rules[i]
      BY <1>4, <2>1, SeqAppend
    <2>4. all[Len(rules) + 1] = TlsProbe
      BY <1>4, <2>1, SeqAppend
    <2> QED BY <2>2, <2>3, <2>4
  <1>6. /\ Len(rules) \in Nat /\ DOMAIN rules = 1..Len(rules)
        /\ DOMAIN all = 1..(Len(rules) + 1)
    BY <1>3, <1>5, LenProperties DEF RulesText, IsSeq
  <1>7. \A i \in DOMAIN all : i \in DOMAIN rules \/ i = Len(rules) + 1
    BY <1>6
  <1>8. TlsProbe.matches = <<>>
    BY DEF TlsProbe, RuleOf
  <1>9. \A i \in DOMAIN all : \A n \in DOMAIN all[i].matches :
            HasTemplates(all[i].matches[n])
    BY <1>3, <1>5, <1>6, <1>7, <1>8 DEF RulesText
  <1> QED BY <1>9 DEF all

-------------------------------------------------------------------------------
(* The findings of a service.                                                *)

\* However a text is spelled, its lower case and its upper case tell it from
\* the same others.
LEMMA SameSpelling ==
    ASSUME NEW a, NEW b
    PROVE  /\ to_lower(to_upper(a)) = to_lower(a)
           /\ to_lower(a) = to_lower(b) <=> to_upper(a) = to_upper(b)
  <1>1. \A w : tolower(toupper(w)) = tolower(w) /\ toupper(tolower(w)) = toupper(w)
    BY DEF tolower, toupper
  <1>2. ASSUME NEW x PROVE to_lower(to_upper(x)) = to_lower(x)
    BY <1>1 DEF to_lower, to_upper
  <1>3. ASSUME NEW x PROVE to_upper(to_lower(x)) = to_upper(x)
    BY <1>1 DEF to_lower, to_upper
  <1> QED BY <1>2, <1>3

Occurs(part, text) ==
    \E i, k \in 0..Len(text) : i < k /\ part = SubSeq(text, i + 1, k)

\* version_matches() finds a prefix wherever it occurs.
LEMMA MatchesOccur ==
    ASSUME NEW V, NEW version \in Seq(V), NEW P, NEW prefix \in Seq(P)
    PROVE  version_matches(version, prefix) <=> Occurs(prefix, version)
  <1> DEFINE n == Len(version)
             m == Len(prefix)
  <1>1. n \in Nat /\ m \in Nat /\ (prefix = <<>> <=> m = 0)
        /\ DOMAIN prefix = 1..m
    BY LenProperties, EmptySeq
  <1>2. ASSUME NEW i \in Int, NEW k \in Int, 0 <= i, i < k,
               prefix = SubSeq(version, i + 1, k)
        PROVE  m = k - i
    <2>1. DOMAIN prefix = 1..(k - i)
      BY <1>2
    <2>2. k - i \in Nat
      BY <1>2
    <2> QED BY <1>1, <2>1, <2>2
  <1>3. ASSUME version_matches(version, prefix) PROVE Occurs(prefix, version)
    <2>1. PICK i \in 0..(n - m) : SubSeq(version, i + 1, i + m) = prefix
      BY <1>3 DEF version_matches
    <2>2. m # 0
      BY <1>1, <1>3 DEF version_matches
    <2>3. i \in 0..n /\ i + m \in 0..n /\ i < i + m
      BY <1>1, <2>1, <2>2
    <2> HIDE DEF m
    <2> QED BY <2>1, <2>3 DEF Occurs
  <1>4. ASSUME Occurs(prefix, version) PROVE version_matches(version, prefix)
    <2>1. PICK i, k \in 0..n : i < k /\ prefix = SubSeq(version, i + 1, k)
      BY <1>4 DEF Occurs
    <2>2. m = k - i
      BY <1>1, <1>2, <2>1
    <2>3. i \in 0..(n - m) /\ i + m = k /\ m # 0
      BY <1>1, <2>1, <2>2
    <2>4. prefix # <<>>
      BY <1>1, <2>3
    <2> HIDE DEF m, n
    <2>5. SubSeq(version, i + 1, i + m) = prefix
      BY <2>1, <2>3
    <2> QED BY <2>3, <2>4, <2>5 DEF version_matches, m, n
  <1> QED BY <1>3, <1>4

\* The items of the file that are CVEs of a service of a version.
OfService(item, service, version) ==
    /\ item.id # <<>> /\ service # <<>>
    /\ to_lower(item.service) = to_lower(service)
    /\ Occurs(item.prefix, version)

Finding(item) ==
    CveInfo(item.id, item.cvss, severity_from_cvss(item.cvss), 0, 0, FALSE)

\* What is looked up is what the file has of the service, and nothing else.
LEMMA LookupFinds ==
    ASSUME NEW file \in Seq(CveItem), NEW service, NEW V, NEW version \in Seq(V),
           NEW found, found = lookup_cves(load_from_string(file), service, version)
    PROVE  /\ IsSeq(found)
           /\ \A c : c \in Range(found) <=>
                  \E item \in Range(file) :
                      OfService(item, service, version) /\ c = Finding(item)
  <1> DEFINE named == {i \in DOMAIN file : file[i].id # <<>>
                                           /\ file[i].prefix # <<>>}
             kept == Kept(file, named)
             entries == load_from_string(file)
             N == Cardinality(named)
             at == Ascending(named)
             Matches(e) == e.service = to_lower(service)
                           /\ version_matches(version, e.prefix)
             hits == {i \in DOMAIN entries : Matches(entries[i])}
             M == Cardinality(hits)
             up == Ascending(hits)
             listed == Kept(entries, hits)
  <1>1. /\ N \in Nat /\ at \in [1..N -> named] /\ DOMAIN kept = 1..N
        /\ \A i \in named : \E n \in 1..N : at[n] = i
        /\ \A n \in 1..N : kept[n] = file[at[n]]
    <2>1. \A i \in named : i \in DOMAIN file
      OBVIOUS
    <2> HIDE DEF named
    <2> QED BY <2>1, KeptElements
  <1>2. entries = [n \in DOMAIN kept |-> [kept[n] EXCEPT !.service = to_lower(@)]]
    BY DEF load_from_string
  <1>3. \A i \in DOMAIN file : file[i] \in CveItem
    BY LenProperties, ElementOfSeq
  <1>4. \A i \in named : i \in DOMAIN file /\ file[i].id # <<>>
                         /\ file[i].prefix # <<>>
    OBVIOUS
  <1>5. \A i \in DOMAIN file : file[i].id # <<>> /\ file[i].prefix # <<>>
                               => i \in named
    OBVIOUS
  <1> HIDE DEF named, kept, N, at, entries
  <1>6. ASSUME NEW n \in 1..N
        PROVE  /\ entries[n].service = to_lower(file[at[n]].service)
               /\ entries[n].id = file[at[n]].id
               /\ entries[n].cvss = file[at[n]].cvss
               /\ entries[n].prefix = file[at[n]].prefix
    <2>1. kept[n] = file[at[n]] /\ kept[n] \in CveItem
      BY <1>1, <1>3, <1>4
    <2>2. entries[n] = [kept[n] EXCEPT !.service = to_lower(@)]
      BY <1>1, <1>2
    <2> QED BY <2>1, <2>2 DEF CveItem
  <1>7. entries \in Seq(Range(entries)) /\ DOMAIN entries = 1..N
    <2>1. DOMAIN entries = 1..N /\ entries = [n \in 1..N |-> entries[n]]
      BY <1>1, <1>2
    <2>2. entries \in [1..N -> Range(entries)]
      BY <2>1 DEF Range
    <2> QED BY <1>1, <2>1, <2>2, FunctionIsSeq
  <1>8. /\ M \in Nat /\ up \in [1..M -> hits] /\ DOMAIN listed = 1..M
        /\ \A i \in hits : \E k \in 1..M : up[k] = i
        /\ \A k \in 1..M : listed[k] = entries[up[k]]
    <2>1. \A i \in hits : i \in DOMAIN entries
      OBVIOUS
    <2> DEFINE E == Range(entries)
    <2>2. entries \in Seq(E)
      BY <1>7
    <2> HIDE DEF hits, E
    <2>3. /\ M \in Nat /\ up \in [1..M -> hits]
          /\ \A i \in hits : \E k \in 1..M : up[k] = i
      BY <2>1, <2>2, KeptElements
    <2>4. DOMAIN listed = 1..M /\ \A k \in 1..M : listed[k] = entries[up[k]]
      BY <2>1, <2>2, KeptElements
    <2> QED BY <2>3, <2>4
  <1>9. \A n : n \in hits <=> n \in 1..N /\ Matches(entries[n])
    BY <1>7
  <1>10. found = IF service = <<>> \/ version = <<>> THEN <<>>
                 ELSE [k \in DOMAIN listed |->
                          CveInfo(listed[k].id, listed[k].cvss,
                                  severity_from_cvss(listed[k].cvss),
                                  0, 0, FALSE)]
    BY DEF lookup_cves, entries
  <1> HIDE DEF hits, M, up, listed
  <1>11. ASSUME NEW i \in DOMAIN file
         PROVE  OfService(file[i], service, version) <=>
                    /\ service # <<>> /\ version # <<>> /\ i \in named
                    /\ to_lower(file[i].service) = to_lower(service)
                    /\ version_matches(version, file[i].prefix)
    <2>1. file[i].prefix \in Seq(Word)
      BY <1>3 DEF CveItem, Text
    <2>2. version_matches(version, file[i].prefix)
              <=> Occurs(file[i].prefix, version)
      BY <2>1, MatchesOccur
    <2>3. Occurs(file[i].prefix, version) => version # <<>>
      <3>1. Len(version) = 0 => ~Occurs(file[i].prefix, version)
        BY DEF Occurs
      <3> QED BY <3>1, EmptySeq
    <2>4. version_matches(version, file[i].prefix) => file[i].prefix # <<>>
      BY DEF version_matches
    <2> QED BY <1>4, <1>5, <2>2, <2>3, <2>4 DEF OfService
  <1>12. ASSUME NEW c, c \in Range(found)
         PROVE  \E item \in Range(file) :
                    OfService(item, service, version) /\ c = Finding(item)
    <2>1. PICK k \in DOMAIN found : c = found[k]
      BY <1>12 DEF Range
    <2>2. service # <<>> /\ version # <<>>
      BY <1>10, <2>1
    <2>3. k \in 1..M
          /\ c = CveInfo(listed[k].id, listed[k].cvss,
                         severity_from_cvss(listed[k].cvss), 0, 0, FALSE)
      BY <1>8, <1>10, <2>1, <2>2
    <2>4. up[k] \in 1..N /\ Matches(entries[up[k]])
          /\ listed[k] = entries[up[k]]
      BY <1>8, <1>9, <2>3
    <2> DEFINE i == at[up[k]]
    <2>5. i \in named /\ i \in DOMAIN file
      BY <1>1, <1>4, <2>4
    <2>6. c = Finding(file[i])
      BY <1>6, <2>3, <2>4 DEF Finding
    <2>7. to_lower(file[i].service) = to_lower(service)
          /\ version_matches(version, file[i].prefix)
      BY <1>6, <2>4
    <2> HIDE DEF i
    <2>8. OfService(file[i], service, version)
      BY <1>11, <2>2, <2>5, <2>7
    <2> QED BY <2>5, <2>6, <2>8 DEF Range
  <1>13. ASSUME NEW item \in Range(file), OfService(item, service, version)
         PROVE  Finding(item) \in Range(found)
    <2>1. PICK i \in DOMAIN file : item = file[i]
      BY DEF Range
    <2>2. /\ service # <<>> /\ version # <<>> /\ i \in named
          /\ to_lower(file[i].service) = to_lower(service)
          /\ version_matches(version, file[i].prefix)
      BY <1>11, <1>13, <2>1
    <2>3. PICK n \in 1..N : at[n] = i
      BY <1>1, <2>2
    <2>4. n \in hits
      BY <1>6, <1>9, <2>2, <2>3
    <2>5. PICK k \in 1..M : up[k] = n
      BY <1>8, <2>4
    <2>6. listed[k].id = item.id /\ listed[k].cvss = item.cvss
      BY <1>6, <1>8, <2>1, <2>3, <2>5
    <2>7. k \in DOMAIN found
          /\ found[k] = CveInfo(listed[k].id, listed[k].cvss,
                                severity_from_cvss(listed[k].cvss), 0, 0, FALSE)
      BY <1>8, <1>10, <2>2
    <2>8. found[k] = Finding(item)
      BY <2>6, <2>7 DEF Finding
    <2> QED BY <2>7, <2>8 DEF Range
  <1>14. IsSeq(found)
    <2>1. found = <<>> \/ found = [k \in 1..M |-> found[k]]
      BY <1>8, <1>10
    <2>2. IsSeq(<<>>)
      BY NoText DEF IsText
    <2> QED BY <1>8, <2>1, <2>2, SeqOfFunction
  <1> QED BY <1>12, <1>13, <1>14

\* The lines of an EPSS file that give a probability for a CVE.
NamingIn(file, id) ==
    {i \in DOMAIN file :
        /\ looks_like_cve(file[i])
        /\ Len(file[i].fields) >= 3 /\ file[i].epss # Junk
        /\ to_lower(to_upper(file[i].fields[1])) = to_lower(to_upper(id))}

ProbabilityIn(file, id) ==
    IF NamingIn(file, id) = {} THEN 0
    ELSE file[CHOOSE i \in NamingIn(file, id) :
                  \A k \in NamingIn(file, id) : i <= k].epss

\* The first of them is the one that is looked up.
LEMMA FirstLineScores ==
    ASSUME NEW file \in Seq(EpssLine), NEW item,
           NEW cve, cve = Augmented(Finding(item), parse_epss(file))
    PROVE  /\ cve.cve_id = item.id /\ cve.cvss = item.cvss
           /\ cve.epss = ProbabilityIn(file, item.id)
  <1> DEFINE id == item.id
             scored == {i \in DOMAIN file : Scores(file[i])}
             first == {i \in scored : \A k \in scored :
                           SameCve(file[k], file[i]) => i <= k}
             told == {Score(file[i]) : i \in first}
             naming == NamingIn(file, id)
             hits == {e \in told : e.cve = to_upper(id)}
             least == CHOOSE i \in naming : \A k \in naming : i <= k
             score == IF hits = {} THEN [epss |-> 0, percentile |-> 0]
                      ELSE CHOOSE hit \in hits : TRUE
  <1>1. Len(file) \in Nat /\ DOMAIN file = 1..Len(file)
    BY LenProperties
  <1>2. \A i \in DOMAIN file : Len(file[i].fields) \in Nat
    <2>1. \A i \in DOMAIN file : file[i] \in EpssLine
      BY <1>1, ElementOfSeq
    <2> QED BY <2>1, LenProperties DEF EpssLine
  <1>3. cve = [Finding(item) EXCEPT !.epss = score.epss,
                                    !.percentile = score.percentile]
    BY DEF Augmented, parse_epss, Finding, CveInfo
  <1> HIDE DEF score
  <1>4. cve.cve_id = item.id /\ cve.cvss = item.cvss /\ cve.epss = score.epss
    BY <1>3 DEF Finding, CveInfo
  <1>5. \A i : i \in naming <=>
                   i \in scored /\ to_upper(file[i].fields[1]) = to_upper(id)
    <2>1. \A a, b : to_lower(to_upper(a)) = to_lower(to_upper(b))
                        <=> to_upper(a) = to_upper(b)
      BY SameSpelling
    <2>2. \A i \in DOMAIN file : Scores(file[i]) <=>
              /\ looks_like_cve(file[i]) /\ Len(file[i].fields) >= 3
              /\ file[i].epss # Junk
      BY <1>2 DEF Scores
    <2> QED BY <2>1, <2>2 DEF NamingIn
  <1>6. \A e : e \in hits <=> \E i \in first : e = Score(file[i])
                                  /\ to_upper(file[i].fields[1]) = to_upper(id)
    BY DEF Score
  <1>7. \A i \in scored : i \in Int
    BY <1>1
  <1>8. IsFiniteSet(naming) /\ \A i \in naming : i \in Int
    <2>1. IsFiniteSet(1..Len(file))
      BY <1>1, FS_Interval
    <2>2. naming \in SUBSET (1..Len(file))
      BY <1>1 DEF NamingIn
    <2>3. IsFiniteSet(naming)
      BY <2>1, <2>2, FS_Subset
    <2> QED BY <1>5, <1>7, <2>3
  <1>9. \A i : i \in first <=> i \in scored /\ \A k \in scored :
            to_upper(file[k].fields[1]) = to_upper(file[i].fields[1]) => i <= k
    BY DEF SameCve
  <1> HIDE DEF scored, first, hits, naming
  <1>10. CASE naming = {}
    <2>1. hits = {}
      BY <1>5, <1>6, <1>9, <1>10
    <2> QED BY <1>4, <1>10, <2>1 DEF score, naming, ProbabilityIn
  <1>11. CASE naming # {}
    <2>1. least \in naming /\ \A k \in naming : least <= k
      <3>1. \E i \in naming : \A k \in naming : i <= k
        BY <1>8, <1>11, HasLeast
      <3> QED BY <3>1
    <2> HIDE DEF least
    <2>2. \A i : i \in first /\ to_upper(file[i].fields[1]) = to_upper(id)
                     <=> i = least
      <3>1. ASSUME NEW i \in first,
                   to_upper(file[i].fields[1]) = to_upper(id)
            PROVE  i = least
        <4>1. i \in naming /\ least \in scored
              /\ to_upper(file[least].fields[1]) = to_upper(id)
          BY <1>5, <1>9, <2>1, <3>1
        <4>2. i <= least /\ least <= i
          BY <1>9, <2>1, <3>1, <4>1
        <4> QED BY <1>8, <2>1, <4>1, <4>2
      <3>2. least \in first /\ to_upper(file[least].fields[1]) = to_upper(id)
        <4>1. least \in scored
              /\ to_upper(file[least].fields[1]) = to_upper(id)
          BY <1>5, <2>1
        <4>2. ASSUME NEW k \in scored,
                     to_upper(file[k].fields[1])
                         = to_upper(file[least].fields[1])
              PROVE  least <= k
          BY <1>5, <2>1, <4>1, <4>2
        <4> QED BY <1>9, <4>1, <4>2
      <3> QED BY <3>1, <3>2
    <2>3. \A e : e \in hits <=> e = Score(file[least])
      BY <1>6, <2>2
    <2>4. score = Score(file[least])
      BY <2>3 DEF score
    <2>5. score.epss = file[least].epss
      BY <2>4 DEF Score
    <2> QED BY <1>4, <1>11, <2>5 DEF least, naming, ProbabilityIn
  <1> QED BY <1>10, <1>11

-------------------------------------------------------------------------------
(* The coroutines.                                                           *)

\* What the coroutine of a port may have ended with.
IsFuture(i, f) ==
    /\ f.ends \in {"pending", "value", "exception"}
    /\ f.ends = "value" => "port" \in DOMAIN f.row /\ f.row.port = Port(i)

LEMMA LookedUpRow ==
    ASSUME NEW row, "port" \in DOMAIN row
    PROVE  /\ "port" \in DOMAIN LookedUp(row)
           /\ LookedUp(row).port = row.port
  BY DEF LookedUp

LEMMA RowPort ==
    ASSUME NEW i, NEW state, NEW service, NEW version, NEW text
    PROVE  /\ "port" \in DOMAIN Row(i, state, service, version, text)
           /\ Row(i, state, service, version, text).port = Port(i)
  BY DEF Row

\* Whatever is found on a port is found on that port.
LEMMA FoundType ==
    ASSUME NEW i, NEW f \in Found(i)
    PROVE  f.ends = "value" /\ IsFuture(i, f)
  <1>1. ASSUME NEW row, NEW peer, f = Ended(row, peer),
               "port" \in DOMAIN row, row.port = Port(i)
        PROVE  f.ends = "value" /\ IsFuture(i, f)
    BY <1>1 DEF Ended, IsFuture
  <1>2. CASE f \in Bare(i)
    <2>1. PICK state \in {"open", "closed", "filtered"} :
              f = Ended(Row(i, state, <<>>, <<>>, <<>>), NoPeer)
      BY <1>2 DEF Bare
    <2> QED BY <1>1, <2>1, RowPort
  <1>3. CASE f \in Recognised(i)
    <2>1. \E match, capture, rest :
              f = Ended(Identified(i, match, capture, rest), NoPeer)
      BY <1>3 DEF Recognised
    <2>2. PICK service, version, text :
              f = Ended(LookedUp(Row(i, "open", service, version, text)),
                        NoPeer)
      BY <2>1 DEF Identified
    <2> QED BY <1>1, <2>2, RowPort, LookedUpRow
  <1>4. CASE f \in Handshaken(i)
    <2>1. \E server, prints, version :
              f = Ended(LookedUp([Row(i, "open", <<"tls">>, version, version)
                      EXCEPT !.ja4s = <<prints.ja4s>>, !.ja4x = prints.ja4x]),
                        server)
      BY <1>4, Zenon DEF Handshaken
    <2>2. PICK server, prints, version :
              f = Ended(LookedUp([Row(i, "open", <<"tls">>, version, version)
                      EXCEPT !.ja4s = <<prints.ja4s>>, !.ja4x = prints.ja4x]),
                        server)
      BY <2>1
    <2> DEFINE bare == Row(i, "open", <<"tls">>, version, version)
               row == [bare EXCEPT !.ja4s = <<prints.ja4s>>,
                                   !.ja4x = prints.ja4x]
    <2>3. "port" \in DOMAIN bare /\ bare.port = Port(i)
      BY RowPort
    <2> HIDE DEF bare
    <2>4. "port" \in DOMAIN row /\ row.port = Port(i)
      BY <2>3
    <2> HIDE DEF row
    <2>5. f = Ended(LookedUp(row), server)
      BY <2>2 DEF row, bare
    <2> QED BY <1>1, <2>4, <2>5, LookedUpRow
  <1> QED BY <1>2, <1>3, <1>4 DEF Found

\* The databases are those that were named.
Loaded ==
    /\ cves = load_from_string(args.cve_db)
    /\ probes = default_probes(args.probes_db)
    /\ ranges = LoadRanges(args.cdn_db)
    /\ scores = parse_epss(args.epss_db)

FilesInv ==
    /\ {"cve_db", "epss_db", "cdn_db", "probes_db"} \subseteq DOMAIN args
    /\ args.cve_db \in Seq(CveItem) /\ args.epss_db \in Seq(EpssLine)
    /\ args.cdn_db \in Seq(CdnRange(STRING)) /\ args.probes_db \in Seq(Rule)
    /\ \E given \in Invocations : args.cve_db = given.cve_db

FoundOf(service, version) ==
    lookup_cves(load_from_string(args.cve_db), service, version)

\* What a report tells of a row is text.
HasTexts(row) ==
    /\ {"host", "port", "state", "service", "version", "banner", "cdn", "cves"}
           \subseteq DOMAIN row
    /\ row.host = Host /\ row.state \in {"open", "closed", "filtered"}
    /\ IsText(row.service) /\ IsText(row.version)

\* A row has the CVEs of what was found.
HasFindings(row) ==
    HasTexts(row) /\ row.cves = FoundOf(row.service, row.version)

LEMMA RowTexts ==
    ASSUME NEW i, NEW state \in {"open", "closed", "filtered"}, NEW service,
           NEW version, NEW text, IsText(service), IsText(version),
           NEW row, row = Row(i, state, service, version, text)
    PROVE  /\ HasTexts(row) /\ row.cves = <<>>
           /\ row.service = service /\ row.version = version
  <1>1. /\ DOMAIN row = {"host", "port", "state", "service", "version",
                         "banner", "ja4s", "ja4x", "cdn", "cves"}
        /\ row.host = Host /\ row.state = state
        /\ row.service = service /\ row.version = version /\ row.cves = <<>>
    BY Zenon DEF Row
  <1> QED BY <1>1 DEF HasTexts

LEMMA LookedUpHas ==
    ASSUME Loaded, NEW row, HasTexts(row)
    PROVE  HasFindings(LookedUp(row))
  <1> DEFINE found == lookup_cves(cves, row.service, row.version)
  <1>1. LookedUp(row) = [row EXCEPT !.cves = found]
    BY DEF LookedUp
  <1> HIDE DEF found
  <1>2. /\ HasTexts(LookedUp(row))
        /\ LookedUp(row).version = row.version
        /\ LookedUp(row).service = row.service
        /\ LookedUp(row).cves = found
    BY <1>1 DEF HasTexts
  <1> QED BY <1>2 DEF HasFindings, FoundOf, Loaded, found

LEMMA FoundHas ==
    ASSUME Loaded, FilesInv, NEW i, NEW f \in Found(i)
    PROVE  HasFindings(f.row)
  <1>1. CASE f \in Bare(i)
    <2>1. PICK state \in {"open", "closed", "filtered"} :
              f = Ended(Row(i, state, <<>>, <<>>, <<>>), NoPeer)
      BY <1>1 DEF Bare
    <2> DEFINE row == Row(i, state, <<>>, <<>>, <<>>)
    <2>2. /\ HasTexts(row) /\ row.cves = <<>>
          /\ row.service = <<>> /\ row.version = <<>>
      BY NoText, RowTexts
    <2> HIDE DEF row
    <2>3. f.row = row
      BY <2>1 DEF Ended, row
    <2>4. \A entries, version : lookup_cves(entries, <<>>, version) = <<>>
      BY DEF lookup_cves
    <2> QED BY <2>2, <2>3, <2>4 DEF HasFindings, FoundOf
  <1>2. CASE f \in Recognised(i)
    <2> DEFINE hinted == {n \in DOMAIN probes : Hinted(probes[n], Port(i))}
    <2>1. PICK match \in UNION {Range(probes[n].matches) : n \in hinted},
               capture \in Captures, rest \in Banners :
              f = Ended(Identified(i, match, capture, rest), NoPeer)
      BY <1>2 DEF Recognised
    <2> DEFINE groups == <<Append(capture, "..."), capture>>
               service == apply_template(match.service, groups)
               version == apply_template(match.version, groups)
               row == Row(i, "open", service, version, capture \o rest)
    <2>2. f.row = LookedUp(row)
      BY <2>1 DEF Ended, Identified
    <2>3. PICK n, k : /\ n \in DOMAIN probes /\ k \in DOMAIN probes[n].matches
                      /\ match = probes[n].matches[k]
      BY <2>1 DEF Range
    <2>4. HasTemplates(match)
      <3>1. probes = default_probes(args.probes_db)
            /\ args.probes_db \in Seq(Rule)
        BY DEF Loaded, FilesInv
      <3> QED BY <2>3, <3>1, ProbesText
    <2>5. capture \in Text
      BY <2>1, ServicesAssumption
    <2>6. IsText(service) /\ IsText(version)
      BY <2>4, <2>5, TemplateIsText DEF HasTemplates
    <2> HIDE DEF groups, service, version
    <2>7. HasTexts(row)
      BY <2>6, RowTexts
    <2> HIDE DEF row
    <2> QED BY <2>2, <2>7, LookedUpHas
  <1>3. CASE f \in Handshaken(i)
    <2>1. PICK server \in TlsServers :
              \E prints :
                  LET version == <<server.session.version, "/",
                                   server.session.suite>>
                  IN  f = Ended(LookedUp([Row(i, "open", <<"tls">>, version,
                                              version)
                              EXCEPT !.ja4s = <<prints.ja4s>>,
                                     !.ja4x = prints.ja4x]), server)
      BY <1>3, Zenon DEF Handshaken
    <2> DEFINE first == server.session.version
               last == server.session.suite
               version == <<first, "/", last>>
               bare == Row(i, "open", <<"tls">>, version, version)
    <2>2. PICK prints :
              f = Ended(LookedUp([bare EXCEPT !.ja4s = <<prints.ja4s>>,
                                              !.ja4x = prints.ja4x]), server)
      BY <2>1
    <2> DEFINE row == [bare EXCEPT !.ja4s = <<prints.ja4s>>,
                                   !.ja4x = prints.ja4x]
    <2>3. f.row = LookedUp(row)
      BY <2>2 DEF Ended
    <2>4. "tls" \notin Entities /\ "/" \notin Entities
      BY Zenon DEF Entities
    <2>5. first \notin Entities /\ last \notin Entities
      BY ServicesAssumption DEF Word
    <2> HIDE DEF first, last
    <2>6. IsText(version)
      <3>1. version \in Seq({first, "/", last})
        OBVIOUS
      <3> HIDE DEF version
      <3> QED BY <2>4, <2>5, <3>1, WordsAreText
    <2>7. IsText(<<"tls">>)
      BY <2>4, OneWord
    <2> HIDE DEF version
    <2>8. HasTexts(bare)
      BY <2>6, <2>7, RowTexts
    <2> HIDE DEF bare
    <2>9. HasTexts(row)
      BY <2>8 DEF HasTexts
    <2> HIDE DEF row
    <2> QED BY <2>3, <2>9, LookedUpHas
  <1> QED BY <1>1, <1>2, <1>3 DEF Found

-------------------------------------------------------------------------------
(* The inductive invariant.                                                  *)

\* The arguments, before and after they have been parsed.
ArgsInv ==
    /\ {"parser", "target", "consent", "ports", "top", "rate", "max_rate"}
           \subseteq DOMAIN args
    /\ args.target \in Address /\ args.consent \in BOOLEAN
    /\ args.top \in Nat /\ args.rate \in Int /\ args.max_rate \in Int
    /\ DOMAIN args.ports = {"spec", "numbers"}
    /\ args.ports.spec \in Specification /\ args.ports.numbers \in Seq(Int)

Parsed ==
    /\ args.parser = "parsed" /\ Ports # <<>>
    /\ args.ports.numbers = Ports /\ args.max_rate >= args.rate

\* What is settled when main() is at each of its stages; and what an exit code
\* of 2 without a scan means.
StageInv ==
    /\ pc \in {"parse", "scope", "load", "spawn", "collect", "report", "ended"}
    /\ pc \in {"scope", "load", "spawn", "collect", "report"} => Parsed
    /\ pc \in {"load", "spawn", "collect", "report"} => Allowed
    /\ pc \in {"parse", "scope", "load"} => futs = <<>>
    /\ pc \in {"collect", "report"} => Len(futs) = Len(args.ports.numbers)
    /\ pc # "ended" => exit = Running
    /\ futs # <<>> => Parsed /\ Allowed
    /\ exit = 2 /\ futs = <<>> => args.parser # "parsed" \/ Ports = <<>>

\* Of the first n coroutines those that gave a row.
Gave(fs, n) == {i \in 1..n : fs[i].ends = "value"}

\* The rows of the first n coroutines, in their order and each of its port.
RowsOf(fs, n, rows, numbers) ==
    /\ Len(rows) = Cardinality(Gave(fs, n))
    /\ \A i \in Gave(fs, n) :
           rows[Cardinality({k \in Gave(fs, n) : k <= i})].port = numbers[i]

RowsInv ==
    /\ IsSeq(futs) /\ IsSeq(results)
    /\ Len(futs) <= Len(args.ports.numbers) /\ collected \in 0..Len(futs)
    /\ \A i \in 1..Len(futs) : IsFuture(i, futs[i])
    /\ \A i \in 1..collected : futs[i].ends # "pending"
    /\ RowsOf(futs, collected, results, args.ports.numbers)

CommandInv == ArgsInv /\ StageInv /\ RowsInv

\* A result is of a port and has the label of its target and the CVEs of what
\* was found, each with its scores.
HasScores(row) ==
    LET found == FoundOf(row.service, row.version)
    IN  /\ HasTexts(row) /\ row.port \in PortNumbers
        /\ row.cdn = lookup(LoadRanges(args.cdn_db), args.target)
        /\ row.cves = [k \in DOMAIN found |->
                          Augmented(found[k], parse_epss(args.epss_db))]

FindingsInv ==
    /\ FilesInv
    /\ pc \in {"spawn", "collect", "report"} => Loaded
    /\ \A i \in DOMAIN futs :
           futs[i].ends = "value" => HasFindings(futs[i].row)
    /\ \A k \in DOMAIN results : HasScores(results[k])

-------------------------------------------------------------------------------
(* What was asked for, in the terms of the property.                         *)

MalformedIn(pieces) ==
    \E piece \in pieces :
        \/ Len(piece) > 2
        \/ \E i \in DOMAIN piece : piece[i] < 1 \/ piece[i] > 65535

Between(piece) == UNION {piece[i]..piece[k] : i, k \in DOMAIN piece}

AskedIn(pieces) == UNION {Between(piece) : piece \in pieces}

LEMMA BetweenAsks ==
    ASSUME NEW piece \in Seq(Int), Flushes(piece)
    PROVE  \A p : p \in Between(piece) <=>
                      Asks(piece, p) /\ p \in PortNumbers
  <1> DEFINE n == Len(piece)
  <1>1. n \in Nat /\ n <= 2 /\ DOMAIN piece = 1..n
    BY DEF Flushes
  <1>2. \A i \in 1..n : piece[i] \in Int /\ piece[i] >= 1 /\ piece[i] <= 65535
    BY <1>1 DEF Flushes, parse_uint16
  <1>3. \A p : p \in Between(piece) <=>
                   \E i, k \in 1..n : p \in piece[i]..piece[k]
    <2>1. \A p : p \in Between(piece) <=>
              \E i, k \in DOMAIN piece : p \in piece[i]..piece[k]
      <3> DEFINE spans == {piece[i]..piece[k] : i, k \in DOMAIN piece}
      <3>1. \A span : span \in spans <=>
                \E i, k \in DOMAIN piece : span = piece[i]..piece[k]
        OBVIOUS
      <3>2. Between(piece) = UNION spans
        BY DEF Between
      <3> HIDE DEF spans
      <3> QED BY <3>1, <3>2
    <2> QED BY <1>1, <2>1
  <1>4. \A p : Asks(piece, p) <=>
                   \/ n = 1 /\ p = piece[1]
                   \/ n = 2 /\ (\/ p \in piece[1]..piece[2]
                                \/ p \in piece[2]..piece[1])
    BY DEF Asks
  <1>5. \A p : p \in PortNumbers <=> p \in Int /\ p >= 1 /\ p <= 65535
    BY DEF PortNumbers, parse_uint16
  <1> HIDE DEF n
  <1>6. CASE n = 0
    BY <1>3, <1>4, <1>6
  <1>7. CASE n = 1
    <2>1. \A i \in 1..n : i = 1
      BY <1>7
    <2>2. \A p : p \in Between(piece) <=> p \in piece[1]..piece[1]
      BY <1>3, <1>7, <2>1
    <2>3. piece[1] \in Int /\ piece[1] >= 1 /\ piece[1] <= 65535
      BY <1>2, <1>7
    <2> QED BY <1>4, <1>5, <1>7, <2>2, <2>3
  <1>8. CASE n = 2
    <2>1. 1 \in 1..n /\ 2 \in 1..n /\ \A i \in 1..n : i = 1 \/ i = 2
      BY <1>8
    <2>2. \A p : p \in Between(piece) <=>
                     \/ p \in piece[1]..piece[1] \/ p \in piece[1]..piece[2]
                     \/ p \in piece[2]..piece[1] \/ p \in piece[2]..piece[2]
      BY <1>3, <2>1
    <2>3. /\ piece[1] \in Int /\ piece[1] >= 1 /\ piece[1] <= 65535
          /\ piece[2] \in Int /\ piece[2] >= 1 /\ piece[2] <= 65535
      BY <1>2, <2>1
    <2>4. \A p : Asks(piece, p) <=> \/ p \in piece[1]..piece[2]
                                    \/ p \in piece[2]..piece[1]
      BY <1>4, <1>8
    <2> HIDE DEF Asks
    <2> QED BY <1>5, <2>2, <2>3, <2>4
  <1> QED BY <1>1, <1>6, <1>7, <1>8

LEMMA ExpandedAsAsked ==
    ASSUME NEW spec \in Specification
    PROVE  LET ports == expand_port_spec(spec)
               pieces == Range(spec)
           IN  /\ ports \in Seq(Int)
               /\ ports # <<>> => /\ ~MalformedIn(pieces)
                                  /\ Range(ports) = AskedIn(pieces)
                                  /\ \A i, k \in DOMAIN ports :
                                         i < k => ports[i] < ports[k]
               /\ ports = <<>> => MalformedIn(pieces) \/ AskedIn(pieces) = {}
  <1> DEFINE ports == expand_port_spec(spec)
             pieces == Range(spec)
             WellFormed == \A i \in DOMAIN spec : Flushes(spec[i])
  <1>1. /\ ports \in Seq(PortNumbers)
        /\ \A i, j \in DOMAIN ports : i < j => ports[i] < ports[j]
        /\ \A p : (\E i \in DOMAIN ports : ports[i] = p) <=>
                  /\ WellFormed
                  /\ \E i \in DOMAIN spec : Asks(spec[i], p)
                  /\ p \in PortNumbers
    BY PortsExpanded
  <1> HIDE DEF ports
  <1>2. \A i \in DOMAIN spec : spec[i] \in Seq(Int)
    BY DEF Specification
  <1>3. pieces = {spec[i] : i \in DOMAIN spec}
    BY DEF Range
  <1>4. \A piece \in Seq(Int) : Flushes(piece) <=>
            ~(\/ Len(piece) > 2
              \/ \E i \in DOMAIN piece : piece[i] < 1 \/ piece[i] > 65535)
    BY DEF Flushes, parse_uint16
  <1>5. WellFormed <=> ~MalformedIn(pieces)
    BY <1>2, <1>3, <1>4 DEF MalformedIn
  <1>6. ports \in Seq(Int)
    <2>1. /\ Len(ports) \in Nat /\ DOMAIN ports = 1..Len(ports)
          /\ ports = [i \in 1..Len(ports) |-> ports[i]]
      BY <1>1, LenProperties
    <2>2. \A i \in 1..Len(ports) : ports[i] \in Int
      BY <1>1, <2>1 DEF PortNumbers
    <2>3. ports \in [1..Len(ports) -> Int]
      BY <2>1, <2>2
    <2> QED BY <2>1, <2>3, FunctionIsSeq
  <1>7. ASSUME WellFormed PROVE Range(ports) = AskedIn(pieces)
    <2>1. \A i \in DOMAIN spec : \A p : p \in Between(spec[i]) <=>
              Asks(spec[i], p) /\ p \in PortNumbers
      BY <1>2, <1>7, BetweenAsks
    <2>2. \A p : p \in AskedIn(pieces) <=>
              \E i \in DOMAIN spec : p \in Between(spec[i])
      BY <1>3 DEF AskedIn
    <2>3. \A p : p \in Range(ports) <=> \E i \in DOMAIN ports : ports[i] = p
      BY DEF Range
    <2>4. \A p : p \in Range(ports) <=> p \in AskedIn(pieces)
      BY <1>1, <1>7, <2>1, <2>2, <2>3
    <2> QED BY <2>4
  <1>8. ports # <<>> => WellFormed
    <2>1. ASSUME ports # <<>> PROVE 1 \in DOMAIN ports
      BY <1>6, <2>1, EmptySeq, LenProperties
    <2> QED BY <1>1, <2>1
  <1>9. ports = <<>> => ~WellFormed \/ AskedIn(pieces) = {}
    <2>1. ports = <<>> => Range(ports) = {}
      BY DEF Range
    <2> QED BY <1>7, <2>1
  <1> QED BY <1>1, <1>5, <1>6, <1>7, <1>8, <1>9 DEF ports

\* The first n elements of a sequence, or all of them.
LEMMA FrontOf ==
    ASSUME NEW S, NEW s \in Seq(S), NEW n \in Nat,
           NEW m, m = IF n < Len(s) THEN n ELSE Len(s)
    PROVE  /\ SubSeq(s, 1, m) \in Seq(S)
           /\ n > 0 /\ Len(s) > 0 => SubSeq(s, 1, m) # <<>>
           /\ Range(SubSeq(s, 1, m)) = {s[i] : i \in {k \in DOMAIN s : k <= n}}
  <1> DEFINE front == SubSeq(s, 1, m)
  <1>1. Len(s) \in Nat /\ DOMAIN s = 1..Len(s)
    BY LenProperties
  <1>2. /\ m \in Nat /\ m <= Len(s) /\ (n > 0 /\ Len(s) > 0 => m > 0)
        /\ \A i : i \in 1..m <=> i \in 1..Len(s) /\ i <= n
    <2> DEFINE len == Len(s)
    <2>1. len \in Nat /\ m = IF n < len THEN n ELSE len
      BY <1>1
    <2> HIDE DEF len
    <2>2. m \in Nat /\ m <= len /\ (n > 0 /\ len > 0 => m > 0)
      BY <2>1
    <2>3. \A i \in Int : i <= m <=> i <= len /\ i <= n
      BY <2>1
    <2> QED BY <2>1, <2>2, <2>3 DEF len
  <1>3. \A i \in 1..Len(s) : s[i] \in S
    BY ElementOfSeq
  <1>4. \A i \in 1..m : s[i] \in S
    BY <1>2, <1>3
  <1>5. /\ front \in Seq(S)
        /\ Len(front) = IF 1 <= m THEN m - 1 + 1 ELSE 0
        /\ \A i \in 1..(m - 1 + 1) : front[i] = s[1 + i - 1]
    BY <1>2, <1>4, SubSeqProperties
  <1> HIDE DEF front
  <1>6. Len(front) = m /\ \A i \in 1..m : front[i] = s[i]
    BY <1>2, <1>5
  <1>7. DOMAIN front = 1..m
    BY <1>5, <1>6, LenProperties
  <1>8. \A i : i \in DOMAIN front <=> i \in {k \in DOMAIN s : k <= n}
    BY <1>1, <1>2, <1>7
  <1>9. Range(front) = {s[i] : i \in {k \in DOMAIN s : k <= n}}
    BY <1>6, <1>7, <1>8 DEF Range
  <1>10. n > 0 /\ Len(s) > 0 => front # <<>>
    BY <1>2, <1>6
  <1> QED BY <1>5, <1>9, <1>10 DEF front

LEMMA TopPorts ==
    ASSUME NEW n \in Nat
    PROVE  /\ top_n_ports(n) \in Seq(Int)
           /\ n > 0 => top_n_ports(n) # <<>>
           /\ Range(top_n_ports(n)) =
                  {kTopPorts[i] : i \in {k \in DOMAIN kTopPorts : k <= n}}
  <1>1. kTopPorts \in Seq(Int) /\ Len(kTopPorts) > 0
    BY DEF kTopPorts
  <1> QED BY <1>1, FrontOf DEF top_n_ports

LEMMA PortsAsked ==
    ASSUME ArgsInv
    PROVE  /\ Ports \in Seq(Int)
           /\ Ports # <<>> =>
                  IF args.top > 0
                  THEN Range(Ports) = {kTopPorts[i] :
                           i \in {k \in DOMAIN kTopPorts : k <= args.top}}
                  ELSE /\ ~MalformedIn(Range(args.ports.spec))
                       /\ Range(Ports) = AskedIn(Range(args.ports.spec))
                       /\ \A i, k \in DOMAIN Ports :
                              i < k => Ports[i] < Ports[k]
           /\ Ports = <<>> => \/ MalformedIn(Range(args.ports.spec))
                              \/ AskedIn(Range(args.ports.spec)) = {}
  <1>1. CASE args.top > 0
    <2>1. Ports = top_n_ports(args.top)
      BY <1>1 DEF Ports
    <2>2. args.top \in Nat
      BY DEF ArgsInv
    <2> QED BY <1>1, <2>1, <2>2, TopPorts
  <1>2. CASE ~(args.top > 0)
    <2>1. Ports = expand_port_spec(args.ports.spec)
      BY <1>2 DEF Ports
    <2>2. args.ports.spec \in Specification
      BY DEF ArgsInv
    <2> QED BY <1>2, <2>1, <2>2, ExpandedAsAsked
  <1> QED BY <1>1, <1>2

LEMMA PortsInRange ==
    ASSUME ArgsInv
    PROVE  \A i \in 1..Len(Ports) : Ports[i] \in PortNumbers
  <1>1. CASE args.top > 0
    <2>1. Ports = top_n_ports(args.top) /\ args.top \in Nat
      BY <1>1 DEF Ports, ArgsInv
    <2>2. /\ kTopPorts \in Seq(Int) /\ Len(kTopPorts) > 0
          /\ \A k \in DOMAIN kTopPorts : kTopPorts[k] \in PortNumbers
      BY DEF kTopPorts, PortNumbers, parse_uint16
    <2>3. /\ Ports \in Seq(Int)
          /\ Range(Ports) = {kTopPorts[k] :
                 k \in {k \in DOMAIN kTopPorts : k <= args.top}}
      BY <2>1, TopPorts
    <2>4. \A i \in 1..Len(Ports) : Ports[i] \in Range(Ports)
      <3>1. DOMAIN Ports = 1..Len(Ports)
        BY <2>3, LenProperties
      <3> QED BY <3>1 DEF Range
    <2> QED BY <2>2, <2>3, <2>4
  <1>2. CASE ~(args.top > 0)
    <2>1. Ports = expand_port_spec(args.ports.spec)
          /\ args.ports.spec \in Specification
      BY <1>2 DEF Ports, ArgsInv
    <2>2. Ports \in Seq(PortNumbers)
      BY <2>1, PortsExpanded
    <2>3. \A i \in 1..Len(Ports) : Ports[i] \in PortNumbers
      BY <2>2, ElementOfSeq
    <2> QED BY <2>3
  <1> QED BY <1>1, <1>2

-------------------------------------------------------------------------------
(* The rows.                                                                 *)

LEMMA GaveFinite ==
    ASSUME NEW fs, NEW n \in Nat
    PROVE  /\ IsFiniteSet(Gave(fs, n)) /\ Cardinality(Gave(fs, n)) \in Nat
           /\ \A i \in Gave(fs, n) :
                  Cardinality({k \in Gave(fs, n) : k <= i})
                      \in 1..Cardinality(Gave(fs, n))
  <1> DEFINE gave == Gave(fs, n)
  <1>1. IsFiniteSet(1..n) /\ gave \in SUBSET (1..n)
    BY FS_Interval DEF Gave
  <1>2. IsFiniteSet(gave) /\ Cardinality(gave) \in Nat
    BY <1>1, FS_Subset, FS_CardinalityType
  <1>3. ASSUME NEW i \in gave
        PROVE  Cardinality({k \in gave : k <= i}) \in 1..Cardinality(gave)
    <2> DEFINE upto == {k \in gave : k <= i}
    <2>1. upto \in SUBSET gave /\ i \in upto
      BY <1>1
    <2> HIDE DEF upto, gave
    <2>2. IsFiniteSet(upto) /\ Cardinality(upto) <= Cardinality(gave)
      BY <1>2, <2>1, FS_Subset
    <2>3. Cardinality(upto) \in Nat /\ Cardinality(upto) # 0
      BY <2>1, <2>2, FS_CardinalityType, FS_EmptySet
    <2>4. Cardinality(upto) \in 1..Cardinality(gave)
      BY <1>2, <2>2, <2>3
    <2> QED BY <2>4 DEF upto, gave
  <1> QED BY <1>2, <1>3

\* Rows stay what they are when other coroutines are started or end.
LEMMA RowsStay ==
    ASSUME NEW fs, NEW gs, NEW n \in Nat, NEW rows, NEW numbers,
           \A i \in 1..n : gs[i] = fs[i], RowsOf(fs, n, rows, numbers)
    PROVE  RowsOf(gs, n, rows, numbers)
  <1>1. Gave(gs, n) = Gave(fs, n)
    BY DEF Gave
  <1> QED BY <1>1 DEF RowsOf

\* A coroutine that ended with an exception leaves no row.
LEMMA RowLost ==
    ASSUME NEW fs, NEW n \in Nat, NEW rows, NEW numbers,
           fs[n + 1].ends # "value", RowsOf(fs, n, rows, numbers)
    PROVE  RowsOf(fs, n + 1, rows, numbers)
  <1>1. \A i : i \in 1..(n + 1) <=> i \in 1..n \/ i = n + 1
    OBVIOUS
  <1>2. Gave(fs, n + 1) = Gave(fs, n)
    BY <1>1 DEF Gave
  <1> QED BY <1>2 DEF RowsOf

\* One that gave a row adds it after those before it.
LEMMA RowAdded ==
    ASSUME NEW fs, NEW n \in Nat, NEW rows, IsSeq(rows), NEW numbers,
           NEW row, NEW more, more = Append(rows, row),
           fs[n + 1].ends = "value", row.port = numbers[n + 1],
           RowsOf(fs, n, rows, numbers)
    PROVE  RowsOf(fs, n + 1, more, numbers)
  <1> DEFINE old == Gave(fs, n)
             new == Gave(fs, n + 1)
  <1>1. \A i : i \in 1..(n + 1) <=> i \in 1..n \/ i = n + 1
    OBVIOUS
  <1>2. new = old \union {n + 1} /\ n + 1 \notin old
        /\ \A i \in old : i \in Int /\ i < n + 1
    BY <1>1 DEF Gave
  <1>3. IsFiniteSet(old) /\ Cardinality(old) \in Nat
        /\ \A i \in old : Cardinality({k \in old : k <= i})
                              \in 1..Cardinality(old)
    BY GaveFinite
  <1>4. Len(rows) = Cardinality(old)
        /\ \A i \in old :
               rows[Cardinality({k \in old : k <= i})].port = numbers[i]
    BY DEF RowsOf
  <1> HIDE DEF old, new
  <1>5. Cardinality(new) = Cardinality(old) + 1
    BY <1>2, <1>3, FS_AddElement
  <1>6. Len(more) = Len(rows) + 1 /\ more[Len(rows) + 1] = row
        /\ \A i \in 1..Len(rows) : more[i] = rows[i]
    BY SeqAppend
  <1>7. ASSUME NEW i \in new
        PROVE  more[Cardinality({k \in new : k <= i})].port = numbers[i]
    <2>1. CASE i \in old
      <3>1. {k \in new : k <= i} = {k \in old : k <= i}
        BY <1>2, <2>1
      <3>2. Cardinality({k \in old : k <= i}) \in 1..Len(rows)
        BY <1>3, <1>4, <2>1
      <3> QED BY <1>4, <1>6, <2>1, <3>1, <3>2
    <2>2. CASE i = n + 1
      <3>1. {k \in new : k <= i} = new
        BY <1>2, <2>2
      <3> QED BY <1>4, <1>5, <1>6, <2>2, <3>1
    <2> QED BY <1>2, <2>1, <2>2
  <1>8. Len(more) = Cardinality(new)
    BY <1>4, <1>5, <1>6
  <1> QED BY <1>7, <1>8 DEF RowsOf, new

-------------------------------------------------------------------------------
(* The invariant holds at first, and every step keeps it.                    *)

LEMMA CommandStarts == ASSUME Init PROVE CommandInv
  <1>1. PICK given \in Invocations :
            args = [given EXCEPT !.ports = [spec |-> @, numbers |-> <<>>]]
    BY DEF Init
  <1> DEFINE ports == [spec |-> given.ports, numbers |-> <<>>]
  <1>2. /\ {"parser", "target", "consent", "ports", "top", "rate", "max_rate"}
               \subseteq DOMAIN given
        /\ given.target \in Address /\ given.consent \in BOOLEAN
        /\ given.ports \in Seq(Seq(Int)) /\ given.top \in Nat
        /\ given.rate \in Int /\ given.max_rate \in Int
    BY InvocationsAssumption
  <1>3. /\ DOMAIN ports = {"spec", "numbers"} /\ ports.spec = given.ports
        /\ ports.numbers = <<>> /\ ports.numbers \in Seq(Int)
    OBVIOUS
  <1>4. args = [given EXCEPT !.ports = ports]
    BY <1>1
  <1> HIDE DEF ports
  <1>5. /\ DOMAIN args = DOMAIN given /\ args.ports = ports
        /\ args.target = given.target /\ args.consent = given.consent
        /\ args.top = given.top /\ args.rate = given.rate
        /\ args.max_rate = given.max_rate
    BY <1>2, <1>4
  <1>6. ArgsInv
    BY <1>2, <1>3, <1>5 DEF ArgsInv, Specification
  <1>7. pc = "parse" /\ exit = Running /\ futs = <<>> /\ collected = 0
        /\ results = <<>>
    BY DEF Init
  <1>8. StageInv
    BY <1>7 DEF StageInv, Running
  <1>9. IsSeq(<<>>) /\ Len(<<>>) = 0
    BY EmptySeq, SeqOfAny
  <1>10. RowsOf(<<>>, 0, <<>>, <<>>)
    <2>1. Gave(<<>>, 0) = {}
      BY DEF Gave
    <2> QED BY <1>9, <2>1, FS_EmptySet DEF RowsOf
  <1>11. RowsInv
    BY <1>3, <1>5, <1>7, <1>9, <1>10 DEF RowsInv
  <1> QED BY <1>6, <1>8, <1>11 DEF CommandInv

\* Parsing changes the list of ports and the cap, and nothing else that was
\* given.
LEMMA ParseArgs ==
    ASSUME ArgsInv, Parse
    PROVE  /\ ArgsInv' /\ Parsed' /\ Ports' = Ports
           /\ args'.parser = args.parser
  <1> DEFINE cap == IF args.max_rate < args.rate THEN args.rate
                    ELSE args.max_rate
             ports == [args.ports EXCEPT !.numbers = Ports]
             listed == [args EXCEPT !.ports = ports]
  <1>1. /\ args.parser = "parsed" /\ Ports # <<>>
        /\ args' = [listed EXCEPT !.max_rate = cap]
    BY DEF Parse, ArgsInv
  <1>2. cap \in Int /\ cap >= args.rate
    BY DEF ArgsInv
  <1>3. Ports \in Seq(Int)
    BY PortsAsked
  <1>4. /\ DOMAIN ports = {"spec", "numbers"} /\ ports.spec = args.ports.spec
        /\ ports.numbers = Ports
    BY DEF ArgsInv
  <1> HIDE DEF ports, cap
  <1>5. /\ DOMAIN listed = DOMAIN args /\ listed.ports = ports
        /\ listed.parser = args.parser
        /\ listed.target = args.target /\ listed.consent = args.consent
        /\ listed.top = args.top /\ listed.rate = args.rate
    BY DEF ArgsInv
  <1> HIDE DEF listed
  <1>6. /\ DOMAIN args' = DOMAIN args /\ args'.ports = ports
        /\ args'.parser = args.parser
        /\ args'.target = args.target /\ args'.consent = args.consent
        /\ args'.top = args.top /\ args'.rate = args.rate
        /\ args'.max_rate = cap
    BY <1>1, <1>5 DEF ArgsInv
  <1>7. ArgsInv'
    BY <1>2, <1>3, <1>4, <1>6 DEF ArgsInv
  <1>8. Ports' = Ports
    BY <1>4, <1>6 DEF Ports
  <1> QED BY <1>1, <1>2, <1>4, <1>6, <1>7, <1>8 DEF Parsed

LEMMA ArgsKept == ASSUME ArgsInv, [Next]_vars PROVE ArgsInv'
  <1>1. CASE args' = args
    BY <1>1 DEF ArgsInv
  <1>2. CASE Parse
    BY <1>2, ParseArgs
  <1>3. args' = args \/ Parse
    BY DEF Next, vars, RefuseArguments, RefusePorts, RefuseScope, CheckScope,
           LoadFails, Load, Spawn, Spawned, Settle, Collect, Collected,
           PrintPorts, DumpFails, WriteReport
  <1> QED BY <1>1, <1>2, <1>3

\* Once it has been parsed, what was asked for stays as it is.
LEMMA AskedStays ==
    ASSUME args' = args
    PROVE  (Parsed' <=> Parsed) /\ (Allowed' <=> Allowed) /\ Ports' = Ports
           /\ \A i, f : IsFuture(i, f)' <=> IsFuture(i, f)
  <1>1. Ports' = Ports
    BY DEF Ports
  <1> QED BY <1>1 DEF Parsed, Allowed, IsFuture, Port

LEMMA StagesKept ==
    ASSUME CommandInv, [Next]_vars
    PROVE  StageInv'
  <1> USE DEF CommandInv
  <1>1. CASE UNCHANGED vars
    <2>1. args' = args /\ pc' = pc /\ futs' = futs /\ exit' = exit
      BY <1>1 DEF vars
    <2> QED BY <2>1, AskedStays DEF StageInv
  <1>2. CASE RefuseArguments
    BY <1>2, AskedStays DEF RefuseArguments, Ends, Goto, StageInv
  <1>3. CASE RefusePorts
    BY <1>3, AskedStays DEF RefusePorts, Ends, Goto, StageInv
  <1>4. CASE Parse
    BY <1>4, ParseArgs DEF Parse, Goto, StageInv
  <1>5. CASE RefuseScope
    BY <1>5, AskedStays DEF RefuseScope, Ends, Goto, StageInv
  <1>6. CASE CheckScope
    BY <1>6, AskedStays DEF CheckScope, Goto, StageInv
  <1>7. CASE LoadFails
    BY <1>7, AskedStays DEF LoadFails, Ends, Goto, Aborted, StageInv
  <1>8. CASE Load
    BY <1>8, AskedStays DEF Load, Goto, StageInv
  <1>9. CASE Spawn
    BY <1>9, AskedStays DEF Spawn, StageInv, Running
  <1>10. CASE Spawned
    BY <1>10, AskedStays DEF Spawned, Goto, StageInv
  <1>11. ASSUME NEW i \in DOMAIN futs, Settle(i) PROVE StageInv'
    <2>1. futs # <<>>
      BY <1>11
    <2>2. /\ args' = args /\ pc' = pc /\ exit' = exit /\ pc # "ended"
          /\ \E outcome : futs' = [futs EXCEPT ![i] = outcome]
      BY <1>11 DEF Settle
    <2>3. IsSeq(futs) /\ i \in 1..Len(futs)
      BY SeqOfAny DEF RowsInv, IsSeq
    <2>4. Len(futs') = Len(futs)
      BY <2>2, <2>3, SeqReplace
    <2> QED BY <2>1, <2>2, <2>4, AskedStays DEF StageInv, Running
  <1>12. CASE Collect
    BY <1>12, AskedStays DEF Collect, StageInv
  <1>13. CASE Collected
    BY <1>13, AskedStays DEF Collected, Goto, StageInv
  <1>14. ASSUME pc = "report", futs' = futs, args' = args, pc' = "ended"
         PROVE  StageInv'
    <2>1. Len(futs) = Len(args.ports.numbers) /\ Parsed /\ Allowed
      BY <1>14 DEF StageInv
    <2>2. args.ports.numbers \in Seq(Int) /\ args.ports.numbers # <<>>
      BY <2>1 DEF ArgsInv, Parsed
    <2>3. Len(args.ports.numbers) # 0
      BY <2>2, EmptySeq
    <2>4. futs # <<>>
      BY <2>1, <2>3
    <2> QED BY <1>14, <2>1, <2>4, AskedStays DEF StageInv
  <1>15. CASE PrintPorts
    BY <1>14, <1>15 DEF PrintPorts, Ends, Goto
  <1>16. CASE DumpFails
    BY <1>14, <1>16 DEF DumpFails, Ends, Goto
  <1>17. CASE WriteReport
    BY <1>14, <1>17 DEF WriteReport, Ends, Goto
  <1> QED BY <1>1, <1>2, <1>3, <1>4, <1>5, <1>6, <1>7, <1>8, <1>9, <1>10,
             <1>11, <1>12, <1>13, <1>15, <1>16, <1>17 DEF Next

LEMMA RowsKept ==
    ASSUME CommandInv, [Next]_vars
    PROVE  RowsInv'
  <1> USE DEF CommandInv
  <1>1. /\ IsSeq(futs) /\ Len(futs) \in Nat /\ DOMAIN futs = 1..Len(futs)
        /\ IsSeq(results) /\ collected \in Nat
    <2>1. IsSeq(futs) /\ IsSeq(results) /\ collected \in 0..Len(futs)
      BY DEF RowsInv
    <2>2. Len(futs) \in Nat /\ DOMAIN futs = 1..Len(futs)
      BY <2>1, SeqOfAny DEF IsSeq
    <2> QED BY <2>1, <2>2
  <1>2. CASE args' = args /\ futs' = futs /\ collected' = collected
             /\ results' = results
    BY <1>2, AskedStays DEF RowsInv
  <1>3. CASE Parse
    <2>1. futs' = futs /\ collected' = collected /\ results' = results
          /\ futs = <<>>
      BY <1>3 DEF Parse, Goto, StageInv, collection
    <2>2. collected = 0 /\ Len(futs) = 0
      BY <2>1 DEF RowsInv
    <2>3. RowsOf(futs, 0, results, args'.ports.numbers)
      BY <2>2 DEF RowsInv, RowsOf, Gave
    <2>4. args'.ports.numbers \in Seq(Int)
      BY <1>3, ParseArgs DEF ArgsInv
    <2>5. Len(args'.ports.numbers) \in Nat
      BY <2>4
    <2> QED BY <1>1, <2>1, <2>2, <2>3, <2>5 DEF RowsInv
  <1>4. CASE Spawn
    <2>1. /\ futs' = Append(futs, Pending) /\ args' = args
          /\ collected' = collected /\ results' = results
          /\ Len(futs) < Len(args.ports.numbers)
      BY <1>4 DEF Spawn, collection
    <2>2. /\ IsSeq(futs') /\ Len(futs') = Len(futs) + 1
          /\ \A i \in 1..Len(futs) : futs'[i] = futs[i]
          /\ futs'[Len(futs) + 1] = Pending
      <3>1. IsSeq(futs) /\ futs' = Append(futs, Pending)
        BY <1>1, <2>1
      <3>2. IsSeq(futs') /\ Len(futs') = Len(futs) + 1
        BY <3>1, SeqAppend
      <3>3. \A i \in 1..Len(futs) : futs'[i] = futs[i]
        BY <3>1, SeqAppend
      <3>4. futs'[Len(futs) + 1] = Pending
        BY <3>1, SeqAppend
      <3> QED BY <3>2, <3>3, <3>4
    <2>3. \A i \in 1..Len(futs') : IsFuture(i, futs'[i])
      <3>1. \A i : IsFuture(i, Pending)
        BY DEF IsFuture, Pending
      <3>2. \A i \in 1..Len(futs') : i \in 1..Len(futs) \/ i = Len(futs) + 1
        BY <1>1, <2>2
      <3> QED BY <2>2, <3>1, <3>2 DEF RowsInv
    <2>4. collected \in 0..Len(futs') /\ Len(futs') <= Len(args.ports.numbers)
          /\ \A i \in 1..collected : i \in 1..Len(futs)
      <3>1. Len(args.ports.numbers) \in Nat
        BY DEF ArgsInv
      <3> QED BY <1>1, <2>1, <2>2, <3>1 DEF RowsInv
    <2>5. \A i \in 1..collected : futs'[i] = futs[i]
      BY <2>2, <2>4
    <2>6. RowsOf(futs', collected, results, args.ports.numbers)
      BY <1>1, <2>5, RowsStay DEF RowsInv
    <2>7. \A i, f : IsFuture(i, f)' <=> IsFuture(i, f)
      BY <2>1, AskedStays
    <2> QED BY <1>1, <2>1, <2>2, <2>3, <2>4, <2>5, <2>6, <2>7 DEF RowsInv
  <1>5. ASSUME NEW i \in DOMAIN futs, Settle(i) PROVE RowsInv'
    <2>1. PICK outcome \in Found(i) \union {Thrown} :
              futs' = [futs EXCEPT ![i] = outcome]
      BY <1>5 DEF Settle
    <2>2. /\ args' = args /\ collected' = collected /\ results' = results
          /\ futs[i].ends = "pending"
      BY <1>5 DEF Settle, collection
    <2>3. /\ IsSeq(futs') /\ Len(futs') = Len(futs) /\ futs'[i] = outcome
          /\ \A k \in 1..Len(futs) : k # i => futs'[k] = futs[k]
      <3>1. IsSeq(futs) /\ i \in 1..Len(futs)
        BY <1>1, <1>5
      <3>2. IsSeq(futs')
        BY <2>1, <3>1, SeqReplace
      <3>3. Len(futs') = Len(futs)
        BY <2>1, <3>1, SeqReplace
      <3>4. futs'[i] = outcome
        BY <2>1, <3>1, SeqReplace
      <3>5. \A k \in 1..Len(futs) : k # i => futs'[k] = futs[k]
        BY <1>1, <2>1
      <3> QED BY <3>2, <3>4, <3>5, <3>3
    <2>4. IsFuture(i, outcome)
      <3>1. IsFuture(i, Thrown)
        BY DEF IsFuture, Thrown
      <3> QED BY <2>1, <3>1, FoundType
    <2>5. \A k \in 1..Len(futs') : IsFuture(k, futs'[k])
      BY <2>3, <2>4 DEF RowsInv
    <2>6. i \notin 1..collected
      BY <2>2 DEF RowsInv
    <2>7. \A k \in 1..collected : futs'[k] = futs[k]
      <3>1. \A k \in 1..collected : k \in 1..Len(futs)
        BY <1>1 DEF RowsInv
      <3> QED BY <2>3, <2>6, <3>1
    <2>8. RowsOf(futs', collected, results, args.ports.numbers)
      BY <1>1, <2>7, RowsStay DEF RowsInv
    <2>9. \A k, f : IsFuture(k, f)' <=> IsFuture(k, f)
      BY <2>2, AskedStays
    <2> QED BY <1>1, <2>2, <2>3, <2>5, <2>7, <2>8, <2>9 DEF RowsInv
  <1>6. CASE Collect
    <2> DEFINE fut == futs[collected + 1]
               Scored(row) ==
                   [row EXCEPT !.cdn = lookup(ranges, args.target),
                               !.cves = [k \in DOMAIN @ |->
                                            Augmented(@[k], scores)]]
    <2>1. /\ args' = args /\ futs' = futs /\ collected < Len(futs)
          /\ collected' = collected + 1 /\ fut.ends # "pending"
          /\ results' = IF fut.ends = "exception" THEN results
                        ELSE Append(results, Scored(fut.row))
      BY <1>6 DEF Collect
    <2>2. collected + 1 \in 1..Len(futs)
      BY <1>1, <2>1
    <2>3. IsFuture(collected + 1, fut)
      BY <2>2 DEF RowsInv
    <2>4. IsSeq(results')
          /\ RowsOf(futs, collected + 1, results', args.ports.numbers)
      <3>1. CASE fut.ends = "exception"
        <4>1. results' = results /\ futs[collected + 1].ends # "value"
          BY <2>1, <3>1
        <4>2. RowsOf(futs, collected, results, args.ports.numbers)
          BY DEF RowsInv
        <4> QED BY <1>1, <4>1, <4>2, RowLost
      <3>2. CASE fut.ends = "value"
        <4>1. "port" \in DOMAIN fut.row /\ fut.row.port = Port(collected + 1)
          BY <2>3, <3>2 DEF IsFuture
        <4> DEFINE row == Scored(fut.row)
        <4>2. row.port = args.ports.numbers[collected + 1]
          BY <4>1 DEF Port
        <4>3. results' = Append(results, row)
          BY <2>1, <3>2
        <4> HIDE DEF row
        <4>4. RowsOf(futs, collected, results, args.ports.numbers)
          BY DEF RowsInv
        <4>5. RowsOf(futs, collected + 1, results', args.ports.numbers)
          BY <1>1, <3>2, <4>2, <4>3, <4>4, RowAdded
        <4>6. IsSeq(results')
          BY <1>1, <4>3, SeqAppend
        <4> QED BY <4>5, <4>6
      <3> QED BY <2>1, <2>3, <3>1, <3>2 DEF IsFuture
    <2>5. \A i \in 1..(collected + 1) : futs[i].ends # "pending"
      <3>1. \A i \in 1..(collected + 1) : i \in 1..collected
                                          \/ i = collected + 1
        BY <1>1
      <3> QED BY <2>1, <3>1 DEF RowsInv
    <2>6. \A k, f : IsFuture(k, f)' <=> IsFuture(k, f)
      BY <2>1, AskedStays
    <2>7. collected + 1 \in 0..Len(futs)
      BY <1>1, <2>2
    <2> HIDE DEF fut, Scored
    <2> QED BY <1>1, <2>1, <2>4, <2>5, <2>6, <2>7 DEF RowsInv
  <1>7. \/ args' = args /\ futs' = futs /\ collected' = collected
           /\ results' = results
        \/ Parse \/ Spawn \/ Collect \/ \E i \in DOMAIN futs : Settle(i)
    BY DEF Next, vars, collection, RefuseArguments, RefusePorts, RefuseScope,
           CheckScope, LoadFails, Load, Spawned, Collected, PrintPorts,
           DumpFails, WriteReport
  <1> QED BY <1>2, <1>3, <1>4, <1>5, <1>6, <1>7

\* The files stay what they were given as, and with them what is made of them.
LEMMA FilesStay ==
    ASSUME ArgsInv, FilesInv, [Next]_vars
    PROVE  /\ FilesInv'
           /\ \A row : HasFindings(row)' <=> HasFindings(row)
           /\ \A row : HasScores(row)' <=> HasScores(row)
           /\ databases' = databases => (Loaded' <=> Loaded)
  <1>1. /\ DOMAIN args' = DOMAIN args /\ args'.target = args.target
        /\ args'.cve_db = args.cve_db /\ args'.epss_db = args.epss_db
        /\ args'.cdn_db = args.cdn_db /\ args'.probes_db = args.probes_db
    <2>1. CASE args' = args
      BY <2>1
    <2>2. CASE Parse
      <3> DEFINE ports == [args.ports EXCEPT !.numbers = Ports]
                 listed == [args EXCEPT !.ports = ports]
      <3>1. PICK cap : args' = [listed EXCEPT !.max_rate = cap]
        BY <2>2 DEF Parse, ArgsInv
      <3> HIDE DEF ports
      <3>2. /\ DOMAIN listed = DOMAIN args /\ listed.target = args.target
            /\ listed.cve_db = args.cve_db /\ listed.epss_db = args.epss_db
            /\ listed.cdn_db = args.cdn_db
            /\ listed.probes_db = args.probes_db
        BY DEF ArgsInv, FilesInv
      <3> HIDE DEF listed
      <3> QED BY <3>1, <3>2 DEF ArgsInv, FilesInv
    <2>3. args' = args \/ Parse
      BY DEF Next, vars, RefuseArguments, RefusePorts, RefuseScope, CheckScope,
             LoadFails, Load, Spawn, Spawned, Settle, Collect, Collected,
             PrintPorts, DumpFails, WriteReport
    <2> QED BY <2>1, <2>2, <2>3
  <1>2. FilesInv'
    BY <1>1 DEF FilesInv
  <1>3. \A service, version :
            FoundOf(service, version)' = FoundOf(service, version)
    BY <1>1 DEF FoundOf
  <1>4. \A row : HasFindings(row)' <=> HasFindings(row)
    BY <1>3 DEF HasFindings
  <1>5. \A row : HasScores(row)' <=> HasScores(row)
    BY <1>1, <1>3 DEF HasScores
  <1>6. databases' = databases => (Loaded' <=> Loaded)
    BY <1>1 DEF databases, Loaded
  <1> QED BY <1>2, <1>4, <1>5, <1>6

LEMMA FindingsStart == ASSUME Init PROVE FindingsInv
  <1>1. PICK given \in Invocations :
            args = [given EXCEPT !.ports = [spec |-> @, numbers |-> <<>>]]
    BY DEF Init
  <1> DEFINE ports == [spec |-> given.ports, numbers |-> <<>>]
  <1>2. args = [given EXCEPT !.ports = ports]
    BY <1>1
  <1> HIDE DEF ports
  <1>3. FilesInv
    <2>1. args.cve_db = given.cve_db
      BY <1>2, InvocationsAssumption
    <2> QED BY <1>2, <2>1, InvocationsAssumption DEF FilesInv
  <1>4. pc = "parse" /\ futs = <<>> /\ results = <<>>
    BY DEF Init
  <1> QED BY <1>3, <1>4 DEF FindingsInv

LEMMA FindingsKept ==
    ASSUME CommandInv, FindingsInv, [Next]_vars
    PROVE  FindingsInv'
  <1>1. /\ FilesInv'
        /\ \A row : HasFindings(row)' <=> HasFindings(row)
        /\ \A row : HasScores(row)' <=> HasScores(row)
        /\ databases' = databases => (Loaded' <=> Loaded)
    BY FilesStay DEF CommandInv, FindingsInv
  <1>2. /\ IsSeq(futs) /\ Len(futs) \in Nat /\ DOMAIN futs = 1..Len(futs)
        /\ IsSeq(results) /\ Len(results) \in Nat
        /\ DOMAIN results = 1..Len(results)
        /\ collected \in 0..Len(futs)
    <2>1. IsSeq(futs) /\ IsSeq(results) /\ collected \in 0..Len(futs)
      BY DEF CommandInv, RowsInv
    <2> QED BY <2>1, SeqOfAny DEF IsSeq
  <1>3. ASSUME databases' = databases, futs' = futs, results' = results,
               pc' \in {"spawn", "collect", "report"}
                   => pc \in {"spawn", "collect", "report"}
        PROVE  FindingsInv'
    BY <1>1, <1>3 DEF FindingsInv
  <1>4. CASE Load
    <2>1. args' = args /\ futs' = futs /\ results' = results
      BY <1>4 DEF Load, collection
    <2>2. Loaded'
      BY <1>4, <2>1 DEF Load, Loaded
    <2> QED BY <1>1, <2>1, <2>2 DEF FindingsInv
  <1>5. CASE Spawn
    <2>1. /\ futs' = Append(futs, Pending) /\ pc' = pc
          /\ databases' = databases /\ results' = results
      BY <1>5 DEF Spawn, collection
    <2>2. /\ IsSeq(futs') /\ Len(futs') = Len(futs) + 1
      BY <1>2, <2>1, SeqAppend
    <2>3. \A i \in 1..Len(futs) : futs'[i] = futs[i]
      BY <1>2, <2>1, SeqAppend
    <2>4. futs'[Len(futs) + 1] = Pending
      BY <1>2, <2>1, SeqAppend
    <2>5. DOMAIN futs' = 1..(Len(futs) + 1)
      BY <2>2, SeqOfAny DEF IsSeq
    <2>6. ASSUME NEW i \in DOMAIN futs', futs'[i].ends = "value"
          PROVE  HasFindings(futs'[i].row)
      <3>1. i \in DOMAIN futs \/ i = Len(futs) + 1
        BY <1>2, <2>5
      <3>2. futs'[i] # Pending
        BY <2>6 DEF Pending
      <3> QED BY <1>2, <2>3, <2>4, <2>6, <3>1, <3>2 DEF FindingsInv
    <2> QED BY <1>1, <2>1, <2>6 DEF FindingsInv
  <1>6. ASSUME NEW i \in DOMAIN futs, Settle(i) PROVE FindingsInv'
    <2>1. PICK outcome \in Found(i) \union {Thrown} :
              futs' = [futs EXCEPT ![i] = outcome]
      BY <1>6 DEF Settle
    <2>2. /\ args' = args /\ databases' = databases /\ results' = results
          /\ pc' = pc /\ pc # "ended"
      BY <1>6 DEF Settle, collection
    <2>3. Loaded
      <3>1. futs # <<>>
        BY <1>6
      <3>2. pc \in {"spawn", "collect", "report"}
        BY <2>2, <3>1 DEF CommandInv, StageInv
      <3> QED BY <3>2 DEF FindingsInv
    <2>4. outcome.ends = "value" => HasFindings(outcome.row)
      <3>1. outcome \in Found(i) => HasFindings(outcome.row)
        BY <2>3, FoundHas DEF FindingsInv
      <3>2. Thrown.ends # "value"
        BY DEF Thrown
      <3> QED BY <2>1, <3>1, <3>2
    <2>5. ASSUME NEW k \in DOMAIN futs', futs'[k].ends = "value"
          PROVE  HasFindings(futs'[k].row)
      <3>1. k \in DOMAIN futs /\ futs'[k] = IF k = i THEN outcome ELSE futs[k]
        BY <2>1, <2>5
      <3> QED BY <2>4, <2>5, <3>1 DEF FindingsInv
    <2> QED BY <1>1, <2>2, <2>5 DEF FindingsInv
  <1>7. CASE Collect
    <2> DEFINE fut == futs[collected + 1]
               Scored(row) ==
                   [row EXCEPT !.cdn = lookup(ranges, args.target),
                               !.cves = [k \in DOMAIN @ |->
                                            Augmented(@[k], scores)]]
    <2>1. /\ futs' = futs /\ databases' = databases /\ pc' = pc
          /\ pc = "collect" /\ collected < Len(futs) /\ fut.ends # "pending"
          /\ results' = IF fut.ends = "exception" THEN results
                        ELSE Append(results, Scored(fut.row))
      BY <1>7 DEF Collect
    <2>2. collected + 1 \in DOMAIN futs
      BY <1>2, <2>1
    <2>3. Loaded
      BY <2>1 DEF FindingsInv
    <2>4. CASE fut.ends = "exception"
      BY <1>3, <2>1, <2>4
    <2>5. CASE fut.ends = "value"
      <3> DEFINE row == fut.row
                 label == lookup(ranges, args.target)
                 told == [k \in DOMAIN row.cves |->
                             Augmented(row.cves[k], scores)]
                 new == Scored(row)
      <3>1. HasFindings(row)
        BY <2>2, <2>5 DEF FindingsInv
      <3>2. new = [row EXCEPT !.cdn = label, !.cves = told]
        BY <3>1 DEF HasFindings, HasTexts
      <3>3. results' = Append(results, new)
        BY <2>1, <2>5
      <3> HIDE DEF row, label, told, new
      <3>4. /\ new.version = row.version /\ new.service = row.service
            /\ new.cdn = label /\ new.cves = told /\ new.port = row.port
            /\ HasTexts(new)
        BY <3>1, <3>2 DEF HasFindings, HasTexts
      <3>5. HasScores(new)
        <4>1. row.cves = FoundOf(row.service, row.version)
          BY <3>1 DEF HasFindings
        <4>2. told = [k \in DOMAIN row.cves |->
                         Augmented(row.cves[k], parse_epss(args.epss_db))]
          BY <2>3 DEF told, Loaded
        <4>3. label = lookup(LoadRanges(args.cdn_db), args.target)
          BY <2>3 DEF label, Loaded
        <4>4. row.port \in PortNumbers
          <5>1. row.port = Ports[collected + 1] /\ Ports # <<>>
            BY <1>2, <2>1, <2>2, <2>5 DEF CommandInv, RowsInv, StageInv, Parsed,
               IsFuture, Port, row
          <5>2. collected + 1 \in 1..Len(Ports)
            BY <1>2, <2>1 DEF CommandInv, RowsInv, StageInv, Parsed
          <5> QED BY <5>1, <5>2, PortsInRange DEF CommandInv
        <4> QED BY <3>4, <4>1, <4>2, <4>3, <4>4 DEF HasScores
      <3>6. IsSeq(results') /\ Len(results') = Len(results) + 1
        BY <1>2, <3>3, SeqAppend
      <3>7. \A k \in 1..Len(results) : results'[k] = results[k]
        BY <1>2, <3>3, SeqAppend
      <3>8. results'[Len(results) + 1] = new
        BY <1>2, <3>3, SeqAppend
      <3>9. DOMAIN results' = 1..(Len(results) + 1)
        BY <3>6, SeqOfAny DEF IsSeq
      <3>10. ASSUME NEW k \in DOMAIN results' PROVE HasScores(results'[k])
        <4>1. k \in DOMAIN results \/ k = Len(results) + 1
          BY <1>2, <3>9
        <4> QED BY <1>2, <3>5, <3>7, <3>8, <4>1 DEF FindingsInv
      <3> QED BY <1>1, <2>1, <3>10 DEF FindingsInv
    <2>6. fut.ends \in {"pending", "value", "exception"}
      BY <1>2, <2>2 DEF CommandInv, RowsInv, IsFuture
    <2> QED BY <2>1, <2>4, <2>5, <2>6
  <1>8. \/ /\ databases' = databases /\ futs' = futs /\ results' = results
           /\ pc' \in {"spawn", "collect", "report"}
                  => pc \in {"spawn", "collect", "report"}
        \/ Load \/ Spawn \/ Collect \/ \E i \in DOMAIN futs : Settle(i)
    BY DEF Next, vars, databases, collection, Ends, Goto, RefuseArguments,
           RefusePorts, Parse, RefuseScope, CheckScope, LoadFails, Spawned,
           Collected, PrintPorts, DumpFails, WriteReport
  <1> QED BY <1>3, <1>4, <1>5, <1>6, <1>7, <1>8

-------------------------------------------------------------------------------
(* What a report tells.                                                      *)

LEMMA SevenCells ==
    ASSUME NEW format \in {"csv", "html"},
           NEW c1, NEW c2, NEW c3, NEW c4, NEW c5, NEW c6, NEW c7,
           NEW t1, NEW t2, NEW t3, NEW t4, NEW t5, NEW t6, NEW t7,
           CellIs(format, c1, t1), CellIs(format, c2, t2),
           CellIs(format, c3, t3), CellIs(format, c4, t4),
           CellIs(format, c5, t5), CellIs(format, c6, t6),
           CellIs(format, c7, t7)
    PROVE  LET line == LineOf(format, <<c1, c2, c3, c4, c5, c6, c7>>)
           IN  /\ LineIs(format, line, <<t1, t2, t3, t4, t5, t6, t7>>)
               /\ IsSeq(line)
  <1> DEFINE cells == <<c1, c2, c3, c4, c5, c6, c7>>
             texts == <<t1, t2, t3, t4, t5, t6, t7>>
  <1>1. /\ cells[1] = c1 /\ cells[2] = c2 /\ cells[3] = c3 /\ cells[4] = c4
        /\ cells[5] = c5 /\ cells[6] = c6 /\ cells[7] = c7
        /\ cells = [i \in 1..7 |-> cells[i]]
    OBVIOUS
  <1>2. /\ texts[1] = t1 /\ texts[2] = t2 /\ texts[3] = t3 /\ texts[4] = t4
        /\ texts[5] = t5 /\ texts[6] = t6 /\ texts[7] = t7
        /\ texts = [i \in 1..7 |-> texts[i]]
    OBVIOUS
  <1>3. \A i \in 1..7 : \/ i = 1 \/ i = 2 \/ i = 3 \/ i = 4 \/ i = 5
                        \/ i = 6 \/ i = 7
    OBVIOUS
  <1> HIDE DEF cells, texts
  <1>4. \A i \in 1..7 : CellIs(format, cells[i], texts[i])
    BY <1>1, <1>2, <1>3
  <1> DEFINE n == 7
  <1>5. n \in Nat /\ n # 0
    OBVIOUS
  <1>6. cells = [i \in 1..n |-> cells[i]]
    BY <1>1
  <1>7. texts = [i \in 1..n |-> texts[i]]
    BY <1>2
  <1>8. \A i \in 1..n : CellIs(format, cells[i], texts[i])
    BY <1>4
  <1> HIDE DEF n
  <1>9. LineIs(format, LineOf(format, cells), texts)
        /\ IsSeq(LineOf(format, cells))
    BY <1>5, <1>6, <1>7, <1>8, LineTells
  <1> QED BY <1>9 DEF cells, texts

\* What is read of the line of a row.
Told(r) ==
    <<r.host, <<ToString(r.port)>>, <<r.state>>, r.service, r.version,
      TopCve(r.cves).cve_id, <<ToString(TopCve(r.cves).cvss)>>>>

\* A row whose texts no format mistakes for anything else.
Reportable(r) ==
    /\ IsText(r.host) /\ IsText(r.service) /\ IsText(r.version)
    /\ IsText(TopCve(r.cves).cve_id)
    /\ PlainWord(ToString(r.port)) /\ PlainWord(r.state)
    /\ PlainWord(ToString(TopCve(r.cves).cvss))

LEMMA RowTold ==
    ASSUME NEW format \in {"csv", "html"}, NEW r, Reportable(r)
    PROVE  LET line == LineOf(format, Cells(r, format))
           IN  LineIs(format, line, Told(r)) /\ IsSeq(line)
  <1> DEFINE top == TopCve(r.cves)
             Escape(text) == IF format = "csv" THEN escape_csv_field(text)
                             ELSE escape_html(text)
             port == <<ToString(r.port)>>
             state == <<r.state>>
             cvss == <<ToString(top.cvss)>>
  <1>1. Cells(r, format) = <<Escape(r.host), port, state, Escape(r.service),
                             Escape(r.version), Escape(top.cve_id), cvss>>
    BY Zenon DEF Cells
  <1>2. Told(r) = <<r.host, port, state, r.service, r.version, top.cve_id, cvss>>
    BY Zenon DEF Told
  <1>3. /\ CellIs(format, Escape(r.host), r.host)
        /\ CellIs(format, Escape(r.service), r.service)
        /\ CellIs(format, Escape(r.version), r.version)
        /\ CellIs(format, Escape(top.cve_id), top.cve_id)
    BY TextCell DEF Reportable
  <1>4. CellIs(format, port, port) /\ CellIs(format, state, state)
        /\ CellIs(format, cvss, cvss)
    BY PlainCell DEF Reportable
  <1> HIDE DEF top, Escape, port, state, cvss
  <1> QED BY <1>1, <1>2, <1>3, <1>4, SevenCells

LEMMA HeadingsTold ==
    ASSUME NEW format \in {"csv", "html"}
    PROVE  LET line == LineOf(format, Headings)
           IN  LineIs(format, line, Headings) /\ IsSeq(line)
  <1>1. \A w \in {"host", "port", "state", "service", "version", "top_cve",
                  "top_cvss"} : PlainWord(w)
    BY Zenon DEF PlainWord, Special, Entities, Quote
  <1>2. \A w \in {"host", "port", "state", "service", "version", "top_cve",
                  "top_cvss"} : CellIs(format, <<w>>, <<w>>)
    BY <1>1, PlainCell
  <1> QED BY <1>2, SevenCells DEF Headings

\* A whole report is read back as a line for every row.
LEMMA ReportTold ==
    ASSUME NEW rows, IsSeq(rows), \A i \in DOMAIN rows : Reportable(rows[i])
    PROVE  LET read == <<Headings>> \o [i \in DOMAIN rows |-> Told(rows[i])]
           IN  ReadCsv(to_csv(rows)) = read /\ ReadHtml(to_html(rows)) = read
  <1> DEFINE n == Len(rows)
             texts == [i \in DOMAIN rows |-> Told(rows[i])]
  <1>1. n \in Nat /\ DOMAIN rows = 1..n
    BY SeqOfAny DEF IsSeq
  <1>2. /\ texts = [i \in 1..n |-> texts[i]]
        /\ \A i \in 1..n : texts[i] = Told(rows[i])
    BY <1>1
  <1> HIDE DEF n, texts
  <1>3. IsSeq(texts) /\ Len(texts) = n
    BY <1>1, <1>2, SeqOfFunction
  <1>4. ASSUME NEW format \in {"csv", "html"}, NEW file,
               file = LineOf(format, Headings)
                      \o FlattenSeq([i \in DOMAIN rows |->
                             LineOf(format, Cells(rows[i], format))])
        PROVE  /\ format = "csv" => ReadCsv(file) = <<Headings>> \o texts
               /\ format = "html" => ReadHtml(file) = <<Headings>> \o texts
    <2> DEFINE head == LineOf(format, Headings)
               lines == [i \in DOMAIN rows |->
                            LineOf(format, Cells(rows[i], format))]
               L == UNION {Range(lines[i]) : i \in 1..n}
               W == Range(head) \union L
               T == Range(texts)
    <2>1. LineIs(format, head, Headings) /\ IsSeq(head)
      BY HeadingsTold
    <2>2. /\ lines = [i \in 1..n |-> lines[i]]
          /\ \A i \in 1..n : lines[i] = LineOf(format, Cells(rows[i], format))
      BY <1>1
    <2>3. file = head \o FlattenSeq(lines)
      BY <1>4
    <2> HIDE DEF head, lines
    <2>4. \A i \in 1..n : LineIs(format, lines[i], texts[i]) /\ IsSeq(lines[i])
      BY <1>1, <1>2, <2>2, RowTold
    <2>5. lines \in Seq(Seq(L)) /\ Len(lines) = n
      BY <1>1, <2>2, <2>4, CommonWords
    <2>6. Range(head) \subseteq W /\ L \subseteq W
      OBVIOUS
    <2>7. head \in Seq(Range(head)) /\ texts \in Seq(T)
      BY <1>3, <2>1 DEF IsSeq
    <2> HIDE DEF L, W, T
    <2>8. head \in Seq(W)
      BY <2>6, <2>7, SeqMonotonic
    <2>9. lines \in Seq(Seq(W))
      <3>1. Seq(L) \subseteq Seq(W)
        BY <2>6, SeqMonotonic
      <3> QED BY <2>5, <3>1, SeqMonotonic
    <2> QED BY <1>3, <2>1, <2>3, <2>4, <2>5, <2>7, <2>8, <2>9, TableRead
  <1>5. /\ LineOf("csv", Headings)
             \o FlattenSeq([i \in DOMAIN rows |->
                    LineOf("csv", Cells(rows[i], "csv"))]) = to_csv(rows)
        /\ LineOf("html", Headings)
             \o FlattenSeq([i \in DOMAIN rows |->
                    LineOf("html", Cells(rows[i], "html"))]) = to_html(rows)
    BY DEF to_csv, to_html, LineOf
  <1>6. ReadCsv(to_csv(rows)) = <<Headings>> \o texts
    BY <1>4, <1>5
  <1>7. ReadHtml(to_html(rows)) = <<Headings>> \o texts
    BY <1>4, <1>5
  <1> QED BY <1>6, <1>7 DEF texts

\* The numbers of a report are digits, and its other words are plain.
LEMMA NumbersPlain ==
    /\ \A n \in PortNumbers : PlainWord(ToString(n))
    /\ PlainWord(ToString(0))
    /\ \A given \in Invocations : \A item \in Range(given.cve_db) :
           PlainWord(ToString(item.cvss))
  <1>1. MaxPort \in Int /\ MaxPort >= 0
    BY DEF MaxPort
  <1>2. \A n \in PortNumbers : n \in Int /\ n >= 0 /\ n <= MaxPort
    BY DEF PortNumbers, parse_uint16, MaxPort
  <1>3. 0 \in 0..MaxPort /\ \A n \in PortNumbers : n \in 0..MaxPort
    BY <1>1, <1>2
  <1> QED BY <1>3, NumbersAssumption

\* The CVE of a report is one of the row's, with the greatest score, or none.
LEMMA RowReportable ==
    ASSUME FilesInv, NEW r, HasScores(r)
    PROVE  /\ Reportable(r)
           /\ LET top == TopCve(r.cves)
              IN  \/ /\ top.cve_id = <<>> /\ top.cvss = 0
                     /\ \A c \in Range(r.cves) : c.cvss <= 0
                  \/ \E c \in Range(r.cves) :
                         /\ top.cve_id = c.cve_id /\ top.cvss = c.cvss
                         /\ \A d \in Range(r.cves) : d.cvss <= c.cvss
  <1> DEFINE found == FoundOf(r.service, r.version)
             Scored(c) == Augmented(c, parse_epss(args.epss_db))
             infos == r.cves
             n == Len(infos)
             top == TopCve(infos)
             none == [cve_id |-> <<>>, cvss |-> 0]
  <1>1. args.cve_db \in Seq(CveItem) /\ args.epss_db \in Seq(EpssLine)
    BY DEF FilesInv
  <1>2. HasTexts(r) /\ r.port \in PortNumbers
        /\ infos = [k \in DOMAIN found |-> Scored(found[k])]
    BY DEF HasScores
  <1>3. IsSeq(found) /\ \A c \in Range(found) :
            \E item \in Range(args.cve_db) : c = Finding(item)
    <2>1. r.version \in Seq(Range(r.version))
      BY <1>2 DEF HasTexts, IsText, IsSeq
    <2> QED BY <1>1, <2>1, LookupFinds DEF FoundOf
  <1>4. \A item : Scored(Finding(item)).cve_id = item.id
                  /\ Scored(Finding(item)).cvss = item.cvss
    BY <1>1, FirstLineScores
  <1>5. \A item \in Range(args.cve_db) :
            /\ IsText(item.id) /\ item.cvss \in Int
            /\ PlainWord(ToString(item.cvss))
    <2>1. Range(args.cve_db) \subseteq CveItem
      <3>1. DOMAIN args.cve_db = 1..Len(args.cve_db)
        BY <1>1, LenProperties
      <3>2. \A i \in 1..Len(args.cve_db) : args.cve_db[i] \in CveItem
        BY <1>1, ElementOfSeq
      <3> QED BY <3>1, <3>2 DEF Range
    <2>2. \A item \in CveItem : item.id \in Text /\ item.cvss \in Int
      BY DEF CveItem
    <2>3. \A item \in Range(args.cve_db) : PlainWord(ToString(item.cvss))
      BY NumbersPlain DEF FilesInv
    <2> QED BY <2>1, <2>2, <2>3, TextIsText
  <1>6. DOMAIN found = 1..Len(found) /\ Len(found) \in Nat
    BY <1>3, SeqOfAny DEF IsSeq
  <1> HIDE DEF found, Scored, infos
  <1>7. \A c \in Range(infos) :
            IsText(c.cve_id) /\ c.cvss \in Int /\ PlainWord(ToString(c.cvss))
    <2>1. ASSUME NEW k \in DOMAIN found
          PROVE  /\ IsText(infos[k].cve_id) /\ infos[k].cvss \in Int
                 /\ PlainWord(ToString(infos[k].cvss))
      <3>1. found[k] \in Range(found)
        BY DEF Range
      <3>2. PICK item \in Range(args.cve_db) : found[k] = Finding(item)
        BY <1>3, <3>1
      <3>3. infos[k] = Scored(Finding(item))
        BY <1>2, <3>2
      <3> QED BY <1>4, <1>5, <3>3
    <2> QED BY <1>2, <2>1 DEF Range
  <1>8. n \in Nat /\ DOMAIN infos = 1..n
    <2>1. infos = [k \in 1..Len(found) |-> infos[k]]
      BY <1>2, <1>6
    <2>2. IsSeq(infos)
      BY <1>6, <2>1, SeqOfFunction
    <2> QED BY <2>2, SeqOfAny DEF IsSeq
  <1> HIDE DEF n
  <1>9. /\ \A i \in 1..n : infos[i] \in Range(infos)
        /\ \A c \in Range(infos) : \E i \in 1..n : c = infos[i]
    BY <1>8 DEF Range
  <1>10. \/ /\ top = none
            /\ \A i \in 1..n : infos[i].cvss <= 0
         \/ \E k \in 1..n :
                /\ top = infos[k]
                /\ \A i \in 1..n : infos[i].cvss <= infos[k].cvss
    <2>1. \A i \in 1..n : infos[i].cvss \in Int
      BY <1>7, <1>9
    <2> QED BY <1>8, <2>1, TopCveIsGreatest DEF n
  <1>11. none.cve_id = <<>> /\ none.cvss = 0
    OBVIOUS
  <1> HIDE DEF none, top
  <1>12. \/ /\ top.cve_id = <<>> /\ top.cvss = 0
            /\ \A c \in Range(infos) : c.cvss <= 0
         \/ \E c \in Range(infos) :
                /\ top.cve_id = c.cve_id /\ top.cvss = c.cvss
                /\ \A d \in Range(infos) : d.cvss <= c.cvss
    BY <1>9, <1>10, <1>11
  <1>13. IsText(top.cve_id) /\ PlainWord(ToString(top.cvss))
    BY <1>7, <1>12, NoText, NumbersPlain
  <1>14. IsText(r.host) /\ PlainWord(r.state)
    <2>1. "target" \notin Entities
      BY Zenon DEF Entities
    <2>2. IsText(Host)
      BY <2>1, OneWord DEF Host
    <2>3. \A state \in {"open", "closed", "filtered"} : PlainWord(state)
      BY Zenon DEF PlainWord, Special, Entities, Quote
    <2> QED BY <1>2, <2>2, <2>3 DEF HasTexts
  <1>15. Reportable(r)
    BY <1>2, <1>13, <1>14, NumbersPlain DEF Reportable, HasTexts, top, infos
  <1> QED BY <1>12, <1>15 DEF top, infos

\* What a report has to tell of a row.
TellsOf(cells, r) ==
    /\ SubSeq(cells, 1, 5)
         = <<r.host, <<ToString(r.port)>>, <<r.state>>, r.service, r.version>>
    /\ \/ /\ cells[6] = <<>> /\ cells[7] = <<ToString(0)>>
          /\ \A c \in Range(r.cves) : c.cvss <= 0
       \/ \E c \in Range(r.cves) :
              /\ cells[6] = c.cve_id /\ cells[7] = <<ToString(c.cvss)>>
              /\ \A d \in Range(r.cves) : d.cvss <= c.cvss

LEMMA RowTells ==
    ASSUME FilesInv, NEW r, HasScores(r)
    PROVE  TellsOf(Told(r), r)
  <1> DEFINE top == TopCve(r.cves)
             port == <<ToString(r.port)>>
             state == <<r.state>>
             cells == <<r.host, port, state, r.service, r.version,
                        top.cve_id, <<ToString(top.cvss)>>>>
             told == <<r.host, port, state, r.service, r.version>>
             T == {r.host, port, state, r.service, r.version}
  <1>1. cells = Told(r)
    BY DEF Told
  <1>2. /\ cells[1] = r.host /\ cells[2] = port /\ cells[3] = state
        /\ cells[4] = r.service /\ cells[5] = r.version
        /\ cells[6] = top.cve_id /\ cells[7] = <<ToString(top.cvss)>>
    OBVIOUS
  <1>3. /\ told \in Seq(T) /\ Len(told) = 5
        /\ told[1] = r.host /\ told[2] = port /\ told[3] = state
        /\ told[4] = r.service /\ told[5] = r.version
    OBVIOUS
  <1>4. \A i \in 1..5 : i = 1 \/ i = 2 \/ i = 3 \/ i = 4 \/ i = 5
    OBVIOUS
  <1> HIDE DEF cells, told, port, state, top
  <1>5. SubSeq(cells, 1, 5) = told
    <2>1. \A i \in 1..5 : cells[i] \in T
      BY <1>2, <1>4
    <2> HIDE DEF T
    <2>2. SubSeq(cells, 1, 5) \in Seq(T) /\ Len(SubSeq(cells, 1, 5)) = 5
          /\ \A i \in 1..5 : SubSeq(cells, 1, 5)[i] = cells[i]
      <3>1. 5 - 1 + 1 = 5 /\ \A i \in 1..5 : 1 + i - 1 = i
        OBVIOUS
      <3> QED BY <2>1, <3>1, SubSeqProperties
    <2>3. \A i \in 1..5 : cells[i] = told[i]
      BY <1>2, <1>3, <1>4
    <2> QED BY <1>3, <2>2, <2>3, SeqEqual
  <1>6. \/ /\ top.cve_id = <<>> /\ top.cvss = 0
           /\ \A c \in Range(r.cves) : c.cvss <= 0
        \/ \E c \in Range(r.cves) :
               /\ top.cve_id = c.cve_id /\ top.cvss = c.cvss
               /\ \A d \in Range(r.cves) : d.cvss <= c.cvss
    BY RowReportable DEF top
  <1>7. \/ /\ cells[6] = <<>> /\ cells[7] = <<ToString(0)>>
           /\ \A c \in Range(r.cves) : c.cvss <= 0
        \/ \E c \in Range(r.cves) :
               /\ cells[6] = c.cve_id /\ cells[7] = <<ToString(c.cvss)>>
               /\ \A d \in Range(r.cves) : d.cvss <= c.cvss
    BY <1>2, <1>6
  <1> QED BY <1>1, <1>5, <1>7 DEF TellsOf, told, port, state

\* What was taken is the report of the results, and nothing follows it.
WrittenInv ==
    written.taken = "all" => pc = "ended" /\ written.text = Body

LEMMA EndIsLast == ASSUME pc = "ended", [Next]_vars PROVE UNCHANGED vars
  BY DEF Next, Ends, Goto, RefuseArguments, RefusePorts, Parse, RefuseScope,
         CheckScope, LoadFails, Load, Spawn, Spawned, Settle, Collect,
         Collected, PrintPorts, DumpFails, WriteReport

LEMMA WrittenKept == ASSUME WrittenInv, [Next]_vars PROVE WrittenInv'
  <1>1. CASE UNCHANGED vars
    <2>1. /\ args' = args /\ results' = results /\ written' = written
          /\ pc' = pc
      BY <1>1 DEF vars, collection
    <2>2. Body' = Body
      BY <2>1, Zenon DEF Body
    <2> QED BY <2>1, <2>2 DEF WrittenInv
  <1>2. CASE pc # "ended" /\ written' = written
    BY <1>2 DEF WrittenInv
  <1>3. CASE WriteReport
    <2>1. /\ args' = args /\ results' = results
          /\ pc' = "ended" /\ written'.text = Body
      BY <1>3 DEF WriteReport, Ends, Goto, collection
    <2>2. Body' = Body
      BY <2>1, Zenon DEF Body
    <2> QED BY <2>1, <2>2 DEF WrittenInv
  <1>4. written' = written \/ WriteReport
    BY DEF Next, vars, RefuseArguments, RefusePorts, Parse, RefuseScope,
           CheckScope, LoadFails, Load, Spawn, Spawned, Settle, Collect,
           Collected, PrintPorts, DumpFails
  <1> QED BY <1>1, <1>2, <1>3, <1>4, EndIsLast

-------------------------------------------------------------------------------
(* Fingerprints.                                                             *)

\* What the probe makes of a server.
PrintsOf(server) ==
    fill_fingerprints([n \in DOMAIN server.hellos |-> Encoded(server.hellos[n])],
                      server.session)

\* A coroutine that has talked to a TLS server has its fingerprints.
HasPrints(f) ==
    \/ /\ f.peer = NoPeer
       /\ f.ends = "value" => f.row.ja4s = <<>> /\ f.row.ja4x = <<>>
    \/ /\ f.peer \in TlsServers /\ f.ends = "value"
       /\ f.row.service = <<"tls">>
       /\ f.row.ja4s = <<PrintsOf(f.peer).ja4s>>
       /\ f.row.ja4x = PrintsOf(f.peer).ja4x

PrintsInv == \A i \in DOMAIN futs : HasPrints(futs[i])

LEMMA LookedUpPrints ==
    ASSUME NEW row, {"service", "ja4s", "ja4x"} \subseteq DOMAIN row
    PROVE  /\ LookedUp(row).service = row.service
           /\ LookedUp(row).ja4s = row.ja4s /\ LookedUp(row).ja4x = row.ja4x
  <1> DEFINE found == lookup_cves(cves, row.service, row.version)
  <1>1. LookedUp(row) = [row EXCEPT !.cves = found]
    BY DEF LookedUp
  <1> HIDE DEF found
  <1> QED BY <1>1

LEMMA RowPrints ==
    ASSUME NEW i, NEW state, NEW service, NEW version, NEW text,
           NEW row, row = Row(i, state, service, version, text)
    PROVE  /\ {"service", "ja4s", "ja4x"} \subseteq DOMAIN row
           /\ row.service = service /\ row.ja4s = <<>> /\ row.ja4x = <<>>
  <1>1. /\ DOMAIN row = {"host", "port", "state", "service", "version",
                         "banner", "ja4s", "ja4x", "cdn", "cves"}
        /\ row.service = service /\ row.ja4s = <<>> /\ row.ja4x = <<>>
    BY Zenon DEF Row
  <1> QED BY <1>1

LEMMA FoundPrints ==
    ASSUME NEW i, NEW f \in Found(i)
    PROVE  HasPrints(f)
  <1>1. CASE f \in Bare(i)
    <2>1. PICK state \in {"open", "closed", "filtered"} :
              f = Ended(Row(i, state, <<>>, <<>>, <<>>), NoPeer)
      BY <1>1 DEF Bare
    <2> DEFINE row == Row(i, state, <<>>, <<>>, <<>>)
    <2>2. row.ja4s = <<>> /\ row.ja4x = <<>>
      BY RowPrints
    <2> HIDE DEF row
    <2>3. f.row = row /\ f.peer = NoPeer
      BY <2>1 DEF Ended, row
    <2> QED BY <2>2, <2>3 DEF HasPrints
  <1>2. CASE f \in Recognised(i)
    <2>1. \E match, capture, rest :
              f = Ended(Identified(i, match, capture, rest), NoPeer)
      BY <1>2 DEF Recognised
    <2>2. PICK service, version, text :
              f = Ended(LookedUp(Row(i, "open", service, version, text)),
                        NoPeer)
      BY <2>1 DEF Identified
    <2> DEFINE row == Row(i, "open", service, version, text)
    <2>3. /\ {"service", "ja4s", "ja4x"} \subseteq DOMAIN row
          /\ row.ja4s = <<>> /\ row.ja4x = <<>>
      BY RowPrints
    <2> HIDE DEF row
    <2>4. f.row = LookedUp(row) /\ f.peer = NoPeer
      BY <2>2 DEF Ended, row
    <2> QED BY <2>3, <2>4, LookedUpPrints DEF HasPrints
  <1>3. CASE f \in Handshaken(i)
    <2>1. PICK server \in TlsServers :
              LET version == <<server.session.version, "/",
                               server.session.suite>>
                  prints == PrintsOf(server)
              IN  f = Ended(LookedUp([Row(i, "open", <<"tls">>, version, version)
                          EXCEPT !.ja4s = <<prints.ja4s>>,
                                 !.ja4x = prints.ja4x]), server)
      BY <1>3, Zenon DEF Handshaken, PrintsOf
    <2> DEFINE version == <<server.session.version, "/", server.session.suite>>
               prints == PrintsOf(server)
               bare == Row(i, "open", <<"tls">>, version, version)
               half == [bare EXCEPT !.ja4s = <<prints.ja4s>>]
               row == [half EXCEPT !.ja4x = prints.ja4x]
    <2>2. /\ {"service", "ja4s", "ja4x"} \subseteq DOMAIN bare
          /\ bare.service = <<"tls">>
      <3> HIDE DEF version
      <3> QED BY RowPrints
    <2>3. [bare EXCEPT !.ja4s = <<prints.ja4s>>, !.ja4x = prints.ja4x] = row
      <3> HIDE DEF bare, prints
      <3> QED BY Zenon
    <2> HIDE DEF version, prints, bare
    <2>4. /\ {"service", "ja4s", "ja4x"} \subseteq DOMAIN half
          /\ half.service = <<"tls">> /\ half.ja4s = <<prints.ja4s>>
      BY <2>2
    <2> HIDE DEF half
    <2>5. /\ {"service", "ja4s", "ja4x"} \subseteq DOMAIN row
          /\ row.service = <<"tls">> /\ row.ja4s = <<prints.ja4s>>
          /\ row.ja4x = prints.ja4x
      BY <2>4
    <2>6. f = Ended(LookedUp(row), server)
      BY <2>1, <2>3 DEF bare, version, prints
    <2> HIDE DEF row
    <2>7. f.row = LookedUp(row) /\ f.peer = server /\ f.ends = "value"
      BY <2>6 DEF Ended
    <2> QED BY <2>5, <2>7, LookedUpPrints DEF HasPrints, prints
  <1> QED BY <1>1, <1>2, <1>3 DEF Found

LEMMA PrintsKept ==
    ASSUME CommandInv, PrintsInv, [Next]_vars
    PROVE  PrintsInv'
  <1>1. IsSeq(futs) /\ Len(futs) \in Nat /\ DOMAIN futs = 1..Len(futs)
    <2>1. IsSeq(futs)
      BY DEF CommandInv, RowsInv
    <2> QED BY <2>1, SeqOfAny DEF IsSeq
  <1>2. CASE futs' = futs
    BY <1>2 DEF PrintsInv
  <1>3. CASE Spawn
    <2>1. futs' = Append(futs, Pending)
      BY <1>3 DEF Spawn
    <2> DEFINE n == Len(futs)
    <2> HIDE DEF n
    <2>2. /\ IsSeq(futs') /\ Len(futs') = n + 1
          /\ \A i \in 1..n : futs'[i] = futs[i]
          /\ futs'[n + 1] = Pending
      <3>1. IsSeq(futs') /\ Len(futs') = Len(futs) + 1
        BY <1>1, <2>1, SeqAppend
      <3>2. \A i \in 1..Len(futs) : futs'[i] = futs[i]
        BY <1>1, <2>1, SeqAppend
      <3>3. futs'[Len(futs) + 1] = Pending
        BY <1>1, <2>1, SeqAppend
      <3> QED BY <3>1, <3>2, <3>3 DEF n
    <2>3. DOMAIN futs' = 1..(n + 1)
      BY <2>2, SeqOfAny DEF IsSeq
    <2>4. HasPrints(Pending)
      BY DEF HasPrints, Pending
    <2>5. ASSUME NEW i \in DOMAIN futs' PROVE HasPrints(futs'[i])
      <3>1. i \in DOMAIN futs \/ i = n + 1
        BY <1>1, <2>3 DEF n
      <3> QED BY <1>1, <2>2, <2>4, <3>1 DEF PrintsInv, n
    <2> QED BY <2>5 DEF PrintsInv
  <1>4. ASSUME NEW i \in DOMAIN futs, Settle(i) PROVE PrintsInv'
    <2>1. PICK outcome \in Found(i) \union {Thrown} :
              futs' = [futs EXCEPT ![i] = outcome]
      BY <1>4 DEF Settle
    <2>2. HasPrints(Thrown)
      BY DEF HasPrints, Thrown
    <2>3. HasPrints(outcome)
      BY <2>1, <2>2, FoundPrints
    <2>4. ASSUME NEW k \in DOMAIN futs' PROVE HasPrints(futs'[k])
      <3>1. k \in DOMAIN futs /\ futs'[k] = IF k = i THEN outcome ELSE futs[k]
        BY <2>1
      <3> QED BY <2>3, <3>1 DEF PrintsInv
    <2> QED BY <2>4 DEF PrintsInv
  <1>5. futs' = futs \/ Spawn \/ \E i \in DOMAIN futs : Settle(i)
    BY DEF Next, vars, Ends, Goto, RefuseArguments, RefusePorts, Parse,
           RefuseScope, CheckScope, LoadFails, Load, Spawned, Collect,
           Collected, PrintPorts, DumpFails, WriteReport
  <1> QED BY <1>2, <1>3, <1>4, <1>5

-------------------------------------------------------------------------------
(* The results.                                                              *)

\* Whatever it is asked and whatever the coroutines end with, main() goes
\* through its stages with the arguments as they were given, the ports as they
\* were expanded and the rows in the order of the ports (main.cpp:57-181,
\* args.cpp:116-144).
THEOREM CommandInvariant == Spec => []CommandInv
  <1>1. Init => CommandInv
    BY CommandStarts
  <1>2. CommandInv /\ [Next]_vars => CommandInv'
    <2>1. ASSUME CommandInv, [Next]_vars PROVE CommandInv'
      BY <2>1, ArgsKept, StagesKept, RowsKept DEF CommandInv
    <2> QED BY <2>1
  <1> QED BY <1>1, <1>2, PTL DEF Spec

\* A run scans the ports that were asked for and no others, each once and in
\* order, refuses only what is malformed or empty, stays in scope, and has a
\* row for every scan that gave one, in the order of the ports
\* (args.cpp:33-64,127-138, main.cpp:97-127,173-179).
THEOREM AskedIsScanned == Spec => []ScansWhatWasAsked
  <1>1. ASSUME CommandInv PROVE ScansWhatWasAsked
    <2> USE <1>1 DEF CommandInv
    <2> DEFINE pieces == Range(args.ports.spec)
               numbers == args.ports.numbers
               gave == {i \in 1..collected : futs[i].ends = "value"}
    <2>1. ASSUME futs # <<>>
          PROVE  /\ Internal(args.target) \/ args.consent
                 /\ args.max_rate >= args.rate
                 /\ IF args.top > 0
                    THEN Range(numbers) = {kTopPorts[i] :
                             i \in {k \in DOMAIN kTopPorts : k <= args.top}}
                    ELSE /\ ~MalformedIn(pieces)
                         /\ Range(numbers) = AskedIn(pieces)
                         /\ \A i, k \in DOMAIN numbers :
                                i < k => numbers[i] < numbers[k]
      <3>1. Parsed /\ Allowed
        BY <2>1 DEF StageInv
      <3>2. args.target \in Address /\ args.consent \in BOOLEAN
        BY DEF ArgsInv
      <3>3. Internal(args.target) \/ args.consent
        BY <3>1, <3>2, ScopeJudged DEF Allowed
      <3>4. args.max_rate >= args.rate /\ numbers = Ports /\ Ports # <<>>
        BY <3>1 DEF Parsed
      <3> QED BY <3>3, <3>4, PortsAsked
    <2>2. ASSUME exit = 2, futs = <<>>
          PROVE  \/ args.parser # "parsed" \/ MalformedIn(pieces)
                 \/ AskedIn(pieces) = {}
      BY <2>2, PortsAsked DEF StageInv
    <2>3. /\ Len(results) = Cardinality(gave)
          /\ \A i \in gave :
                 results[Cardinality({k \in gave : k <= i})].port = numbers[i]
      BY DEF RowsInv, RowsOf, Gave
    <2> QED BY <2>1, <2>2, <2>3
            DEF ScansWhatWasAsked, MalformedIn, AskedIn, Between
  <1> QED BY <1>1, CommandInvariant, PTL

\* The rows come of the databases that were named, as they were given
\* (main.cpp:66-90,97-127).
THEOREM FindingsInvariant == Spec => []FindingsInv
  <1>1. Init => FindingsInv
    BY FindingsStart
  <1>2. CommandInv /\ FindingsInv /\ [Next]_vars => FindingsInv'
    BY FindingsKept
  <1> QED BY <1>1, <1>2, CommandInvariant, PTL DEF Spec

\* Every row is labelled with the provider of the first range that has the
\* target in it, whatever the file of ranges and the target
\* (cdn_lookup.cpp:106-122,159-168, main.cpp:66-72,115).
THEOREM TargetIsLabelled == Spec => []CdnLabelled
  <1>1. ASSUME CommandInv, FindingsInv PROVE CdnLabelled
    <2> DEFINE file == IF \E r \in Range(args.cdn_db) : Usable(r)
                       THEN args.cdn_db ELSE kDefaultDb
    <2>1. args.target \in Address /\ args.cdn_db \in Seq(CdnRange(STRING))
      BY <1>1 DEF CommandInv, ArgsInv, FindingsInv, FilesInv
    <2>2. lookup(LoadRanges(args.cdn_db), args.target)
              = LabelIn(file, args.target)
      BY <2>1, RangesLabel
    <2>3. \A k \in DOMAIN results : results[k].cdn = LabelIn(file, args.target)
      BY <1>1, <2>2 DEF FindingsInv, HasScores
    <2> QED BY <2>3, Zenon DEF CdnLabelled, LabelIn, HitsIn, Usable
  <1> QED BY <1>1, CommandInvariant, FindingsInvariant, PTL

\* A row has the CVEs of its service and version and no others, each with the
\* probability of the first line of the EPSS file that gives one, whatever the
\* files and whatever the services said
\* (cve_lookup.cpp:22-25,67-95, epss_lookup.cpp:54-88, main.cpp:116-122).
THEOREM FindingsAreScored == Spec => []FindingsScored
  <1>1. ASSUME FindingsInv, NEW r \in Range(results)
        PROVE  /\ {<<c.cve_id, c.cvss>> : c \in Range(r.cves)}
                    = {<<item.id, item.cvss>> :
                          item \in {item \in Range(args.cve_db) :
                                       OfService(item, r.service, r.version)}}
               /\ \A c \in Range(r.cves) :
                      c.epss = ProbabilityIn(args.epss_db, c.cve_id)
    <2> DEFINE found == FoundOf(r.service, r.version)
               items == {item \in Range(args.cve_db) :
                            OfService(item, r.service, r.version)}
               Scored(c) == Augmented(c, parse_epss(args.epss_db))
    <2>1. args.cve_db \in Seq(CveItem) /\ args.epss_db \in Seq(EpssLine)
      BY <1>1 DEF FindingsInv, FilesInv
    <2>2. PICK k \in DOMAIN results : r = results[k]
      BY DEF Range
    <2>3. IsSeq(r.version) /\ r.cves = [n \in DOMAIN found |-> Scored(found[n])]
      BY <1>1, <2>2 DEF FindingsInv, HasScores, HasTexts, IsText
    <2>4. \A c : c \in Range(found) <=> \E item \in items : c = Finding(item)
      <3>1. r.version \in Seq(Range(r.version))
        BY <2>3 DEF IsSeq
      <3> QED BY <2>1, <3>1, LookupFinds DEF FoundOf
    <2>5. \A item : /\ Scored(Finding(item)).cve_id = item.id
                    /\ Scored(Finding(item)).cvss = item.cvss
                    /\ Scored(Finding(item)).epss
                         = ProbabilityIn(args.epss_db, item.id)
      BY <2>1, FirstLineScores
    <2> HIDE DEF Scored, found, items
    <2>6. \A c : c \in Range(r.cves)
                     <=> \E item \in items : c = Scored(Finding(item))
      <3>1. \A c : c \in Range(r.cves)
                       <=> \E d \in Range(found) : c = Scored(d)
        BY <2>3 DEF Range
      <3> QED BY <2>4, <3>1
    <2>7. {<<c.cve_id, c.cvss>> : c \in Range(r.cves)}
              = {<<item.id, item.cvss>> : item \in items}
      BY <2>5, <2>6
    <2>8. \A c \in Range(r.cves) :
              c.epss = ProbabilityIn(args.epss_db, c.cve_id)
      BY <2>5, <2>6
    <2> QED BY <2>7, <2>8 DEF items
  <1>2. ASSUME FindingsInv PROVE FindingsScored
    <2> DEFINE Of(r, item) ==
                   /\ item.id # <<>> /\ r.service # <<>>
                   /\ to_lower(to_upper(item.service))
                        = to_lower(to_upper(r.service))
                   /\ Occurs(item.prefix, r.version)
    <2>1. \A r, item : OfService(item, r.service, r.version) <=> Of(r, item)
      BY SameSpelling DEF OfService
    <2> HIDE DEF Of
    <2>2. ASSUME NEW r \in Range(results)
          PROVE  /\ {<<c.cve_id, c.cvss>> : c \in Range(r.cves)}
                      = {<<item.id, item.cvss>> :
                            item \in {item \in Range(args.cve_db) :
                                         Of(r, item)}}
                 /\ \A c \in Range(r.cves) :
                        c.epss = ProbabilityIn(args.epss_db, c.cve_id)
      <3>1. {item \in Range(args.cve_db) :
                 OfService(item, r.service, r.version)}
              = {item \in Range(args.cve_db) : Of(r, item)}
        BY <2>1
      <3> QED BY <1>1, <1>2, <3>1
    <2> QED BY <2>2, Zenon
            DEF FindingsScored, Of, Occurs, ProbabilityIn, NamingIn
  <1> QED BY <1>2, FindingsInvariant, PTL

\* Whoever reads a report that was taken gets a record for every row, whatever
\* the services said of themselves: its texts as they were and the CVE with the
\* highest CVSS, or none when no CVE has one above 0
\* (writers.cpp:26-54,92-149, main.cpp:149-160).
THEOREM ReportIsFaithful == Spec => []ReportFaithful
  <1>1. Init => WrittenInv
    BY DEF Init, WrittenInv, NotWritten
  <1>2. WrittenInv /\ [Next]_vars => WrittenInv'
    BY WrittenKept
  <1>3. ASSUME CommandInv, FindingsInv, WrittenInv, written.taken = "all"
        PROVE  LET Table(rows) ==
                       /\ Len(rows) = Len(results) + 1
                       /\ \A k \in DOMAIN results :
                              TellsOf(rows[k + 1], results[k])
               IN  /\ args.report = "csv" => Table(ReadCsv(written.text))
                   /\ args.report = "html" => Table(ReadHtml(written.text))
                   /\ args.report = "json" =>
                          /\ DOMAIN written.text = DOMAIN results
                          /\ \A k \in DOMAIN results :
                                 written.text[k].banner = results[k].banner
    <2> DEFINE n == Len(results)
               texts == [k \in DOMAIN results |-> Told(results[k])]
               read == <<Headings>> \o texts
    <2>1. written.text = Body
      BY <1>3 DEF WrittenInv
    <2>2. /\ args.report = "csv" => Body = to_csv(results)
          /\ args.report = "html" => Body = to_html(results)
          /\ args.report = "json" => Body = to_json(results)
      BY Zenon DEF Body
    <2>3. IsSeq(results) /\ n \in Nat /\ DOMAIN results = 1..n
      BY <1>3, SeqOfAny DEF CommandInv, RowsInv, IsSeq
    <2>4. \A k \in DOMAIN results :
              Reportable(results[k]) /\ TellsOf(Told(results[k]), results[k])
      BY <1>3, RowReportable, RowTells DEF FindingsInv
    <2>5. ReadCsv(to_csv(results)) = read /\ ReadHtml(to_html(results)) = read
      BY <2>3, <2>4, ReportTold
    <2>6. Len(read) = n + 1 /\ \A k \in 1..n : read[k + 1] = Told(results[k])
      <3>1. /\ texts = [k \in 1..n |-> texts[k]]
            /\ \A k \in 1..n : texts[k] = Told(results[k])
        BY <2>3
      <3> HIDE DEF n, texts
      <3>2. IsSeq(texts) /\ Len(texts) = n
        BY <2>3, <3>1, SeqOfFunction
      <3> DEFINE T == Range(texts) \union {Headings}
      <3>3. <<Headings>> \in Seq(T) /\ Len(<<Headings>>) = 1
        OBVIOUS
      <3>4. texts \in Seq(T)
        BY <3>2, SeqMonotonic DEF IsSeq
      <3> HIDE DEF T
      <3>5. /\ Len(read) = 1 + n
            /\ \A k \in 1..(1 + n) : read[k] = IF k <= 1 THEN <<Headings>>[k]
                                               ELSE texts[k - 1]
        BY <3>2, <3>3, <3>4, ConcatProperties
      <3>6. \A k \in 1..n : k + 1 \in 1..(1 + n) /\ ~(k + 1 <= 1)
                            /\ k + 1 - 1 = k
        BY <2>3
      <3> QED BY <2>3, <3>1, <3>5, <3>6
    <2>7. ASSUME args.report = "json"
          PROVE  /\ DOMAIN written.text = DOMAIN results
                 /\ \A k \in DOMAIN results :
                        written.text[k].banner = results[k].banner
      <3>1. written.text = to_json(results)
        BY <2>1, <2>2, <2>7
      <3>2. DOMAIN to_json(results) = DOMAIN results
        BY DEF to_json
      <3>3. \A k \in DOMAIN results :
                to_json(results)[k].banner = results[k].banner
        BY DEF to_json
      <3> QED BY <3>1, <3>2, <3>3
    <2> HIDE DEF n, read, texts
    <2>8. /\ Len(read) = Len(results) + 1
          /\ \A k \in DOMAIN results : TellsOf(read[k + 1], results[k])
      BY <2>3, <2>4, <2>6 DEF n
    <2> QED BY <2>1, <2>2, <2>5, <2>7, <2>8
  <1>4. ASSUME CommandInv, FindingsInv, WrittenInv PROVE ReportFaithful
    BY <1>3, <1>4, Zenon DEF ReportFaithful, TellsOf
  <1> QED BY <1>1, <1>2, <1>4, CommandInvariant, FindingsInvariant, PTL DEF Spec

\* The fingerprints of a row are those of the ServerHello its server settled
\* on, not of a HelloRetryRequest before it, and of its certificate, whatever
\* extensions and names they have; a row that no handshake found has none
\* (tls_probe.cpp:43-57,101-135, ja4_server.cpp:74-153).
THEOREM FingerprintsAreThose == Spec => []FingerprintsOfHandshake
  <1>1. Init => PrintsInv
    BY DEF Init, PrintsInv
  <1>2. CommandInv /\ PrintsInv /\ [Next]_vars => PrintsInv'
    BY PrintsKept
  <1>3. ASSUME PrintsInv, NEW i \in DOMAIN futs
        PROVE  LET r == futs[i].row
                   hellos == futs[i].peer.hellos
                   session == futs[i].peer.session
                   sent == hellos[Len(hellos)].extensions
                   selects == {k \in DOMAIN sent : sent[k][1] = 43}
                   shown == Kept(sent,
                                {k \in DOMAIN sent : ~is_grease(sent[k][1])})
                   Fitting(oids) ==
                       Cardinality({k \in DOMAIN oids :
                                       oids[k].length \in 1..127})
               IN  /\ futs[i].ends = "value" /\ hellos = <<>> =>
                          r.ja4s = <<>> /\ r.ja4x = <<>>
                   /\ hellos # <<>> =>
                          /\ r.service = <<"tls">> /\ Len(r.ja4s) = 1
                          /\ sent # <<>> =>
                                 /\ r.ja4s[1].extensions
                                       = [k \in DOMAIN shown |-> shown[k][1]]
                                 /\ r.ja4s[1].count
                                       = IF Len(shown) > 99 THEN 99
                                         ELSE Len(shown)
                                 /\ r.ja4s[1].version
                                       = IF selects = {} THEN "12" ELSE "13"
                                 /\ r.ja4s[1].cipher = session.cipher
                          /\ [n \in 1..3 |-> Len(r.ja4x[n])]
                                = <<Fitting(session.certificate.issuer),
                                    Fitting(session.certificate.subject),
                                    Fitting(session.certificate.extensions)>>
    <2> DEFINE f == futs[i]
    <2>1. HasPrints(f)
      BY <1>3 DEF PrintsInv
    <2>2. CASE f.peer = NoPeer
      <3>1. f.peer.hellos = <<>>
        BY <2>2 DEF NoPeer
      <3>2. f.peer \notin TlsServers
        BY <3>1, ServicesAssumption
      <3>3. f.ends = "value" => f.row.ja4s = <<>> /\ f.row.ja4x = <<>>
        BY <2>1, <3>2 DEF HasPrints
      <3> HIDE DEF f
      <3>4. futs[i].peer.hellos = <<>>
            /\ (futs[i].ends = "value" => futs[i].row.ja4s = <<>>
                                          /\ futs[i].row.ja4x = <<>>)
        BY <3>1, <3>3 DEF f
      <3> QED BY <3>4, Zenon
    <2>3. CASE f.peer # NoPeer
      <3> DEFINE server == f.peer
                 hellos == server.hellos
                 session == server.session
                 prints == PrintsOf(server)
      <3>1. /\ server \in TlsServers /\ f.row.service = <<"tls">>
            /\ f.row.ja4s = <<prints.ja4s>> /\ f.row.ja4x = prints.ja4x
        BY <2>1, <2>3 DEF HasPrints
      <3>2. /\ hellos \in Seq(ServerHello) /\ hellos # <<>>
            /\ session.certificate \in Certificate
        BY <3>1, ServicesAssumption
      <3>3. Len(f.row.ja4s) = 1 /\ f.row.ja4s[1] = prints.ja4s
        BY <3>1
      <3>4. prints = fill_fingerprints(
                         [n \in DOMAIN hellos |-> Encoded(hellos[n])], session)
        BY DEF PrintsOf
      <3> HIDE DEF hellos, session, prints
      <3> DEFINE sent == hellos[Len(hellos)].extensions
                 selects == {k \in DOMAIN sent : sent[k][1] = 43}
                 shown == Kept(sent,
                               {k \in DOMAIN sent : ~is_grease(sent[k][1])})
                 count == IF Len(shown) > 99 THEN 99 ELSE Len(shown)
                 version == IF selects = {} THEN "12" ELSE "13"
                 types == [k \in DOMAIN shown |-> shown[k][1]]
                 Fitting(oids) ==
                     Cardinality({k \in DOMAIN oids : oids[k].length \in 1..127})
                 fitting == <<Fitting(session.certificate.issuer),
                              Fitting(session.certificate.subject),
                              Fitting(session.certificate.extensions)>>
      <3>5. /\ sent # <<>> => /\ prints.ja4s.extensions = types
                             /\ prints.ja4s.count = count
                             /\ prints.ja4s.version = version
                             /\ prints.ja4s.cipher = session.cipher
            /\ [n \in 1..3 |-> Len(prints.ja4x[n])] = fitting
        <4> DEFINE encoded == [n \in DOMAIN hellos |-> Encoded(hellos[n])]
                   made == fill_fingerprints(encoded, session)
        <4>1. /\ sent # <<>> => /\ made.ja4s.extensions = types
                               /\ made.ja4s.count = count
                               /\ made.ja4s.version = version
                               /\ made.ja4s.cipher = session.cipher
              /\ [n \in 1..3 |-> Len(made.ja4x[n])] = fitting
          BY <3>2, PrintsRead, Zenon
        <4>2. prints = made
          BY <3>4
        <4> HIDE DEF made, sent, count, version, types, fitting
        <4> QED BY <4>1, <4>2
      <3> HIDE DEF sent, count, version, types, fitting
      <3>6. /\ f.row.service = <<"tls">> /\ Len(f.row.ja4s) = 1
            /\ sent # <<>> => /\ f.row.ja4s[1].extensions = types
                             /\ f.row.ja4s[1].count = count
                             /\ f.row.ja4s[1].version = version
                             /\ f.row.ja4s[1].cipher = session.cipher
            /\ [n \in 1..3 |-> Len(f.row.ja4x[n])] = fitting
        BY <3>1, <3>3, <3>5
      <3> QED BY <3>2, <3>6
              DEF hellos, session, sent, count, version, types, fitting
    <2> QED BY <2>2, <2>3
  <1>4. PrintsInv => FingerprintsOfHandshake
    BY <1>3, Zenon DEF FingerprintsOfHandshake
  <1> QED BY <1>1, <1>2, <1>4, CommandInvariant, PTL DEF Spec
===============================================================================
