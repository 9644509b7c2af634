---------------------------- MODULE TlsFingerprint -----------------------------
(*****************************************************************************)
(* The fingerprints of a TLS server (src/src/fp/ja4_server.cpp and           *)
(* ja4_x509.cpp), and what the TLS probe makes them of (src/src/probes/      *)
(* tls_probe.cpp).  A ServerHello is a sequence of octets.  SHA-256 is taken *)
(* to be injective: a hash stands for the sequence that is hashed, the       *)
(* default "000000000000" for the empty one.                                 *)
(*****************************************************************************)
EXTENDS PortSpec, SequencesExt

Ja4SInput(legacy, negotiated, cipher, types) ==
    [legacy_version |-> legacy, negotiated_version |-> negotiated,
     cipher_id |-> cipher, extension_types |-> types]

NoInput == Ja4SInput(0, 0, 0, <<>>)

SupportedVersions == 43  \* 0x002b

\* Both octets are the same, and end in a.
is_grease(v) == v \div 256 = v % 256 /\ v % 16 = 10

U16(p, i) == p[i] * 256 + p[i + 1]

\* An extension has a type, a length and a body, all of it within the list.
Fits(at, length, end) == at + 4 + length <= end

\* The extensions that begin at offset "at" of a list of "total" octets, which
\* follows the first "skip" octets of p; the loop ends at one that does not fit.
Extensions(p, skip, total) ==
    LET walk[at \in 0..total] ==
            IF ~Fits(at, 0, total) THEN <<>>
            ELSE LET type == U16(p, skip + at + 1)
                     length == U16(p, skip + at + 3)
                 IN  IF ~Fits(at, length, total) THEN <<>>
                     ELSE <<[type |-> type, at |-> skip + at + 5,
                             length |-> length]>> \o walk[at + 4 + length]
    IN  walk[0]

\* legacy_version, random, session id, cipher, compression, extensions.
\* Anything shorter than it says it is, and everything below 40 octets, gives
\* no input; what follows the extensions is ignored.
parse_server_hello(p) ==
    LET sid == p[35]
        fixed == 35 + sid + 5
        total == U16(p, fixed - 1)
        all == Extensions(p, fixed, total)
        types == [i \in DOMAIN all |-> all[i].type]
        selecting == {i \in DOMAIN all : all[i].type = SupportedVersions
                                         /\ all[i].length = 2}
        last == CHOOSE i \in selecting : \A k \in selecting : k <= i
    IN  IF Len(p) < 40 \/ Len(p) < fixed \/ Len(p) - fixed < total
        THEN NoInput
        ELSE Ja4SInput(U16(p, 1),
                 IF selecting = {} THEN 0 ELSE U16(p, all[last].at),
                 U16(p, fixed - 4),
                 Kept(types, {i \in DOMAIN types : ~is_grease(types[i])}))

version_tag(v) ==
    CASE v = 772 -> "13"
      [] v = 771 -> "12"
      [] v = 770 -> "11"
      [] v = 769 -> "10"
      [] v = 768 -> "s3"
      [] OTHER -> "00"

\* The first and the last character of the protocol, "0" for what is missing.
alpn_tag(alpn) ==
    CASE Len(alpn) = 0 -> <<"0", "0">>
      [] Len(alpn) = 1 -> <<"0", alpn[1]>>
      [] OTHER -> <<alpn[1], alpn[Len(alpn)]>>

two_digits(n) == IF n > 99 THEN 99 ELSE n

\* Over TCP, always.
compute_ja4s(in, alpn) ==
    [version |-> version_tag(IF in.negotiated_version # 0
                             THEN in.negotiated_version ELSE in.legacy_version),
     count |-> two_digits(Len(in.extension_types)), alpn |-> alpn_tag(alpn),
     cipher |-> in.cipher_id, extensions |-> in.extension_types]

\* An OID whose text does not fit into 128 characters is left out.
extract_name_oids(oids) ==
    LET kept == Kept(oids, {i \in DOMAIN oids : oids[i].length > 0
                                                /\ oids[i].length < 128})
    IN  [i \in DOMAIN kept |-> kept[i].oid]

compute_ja4x(certificate) ==
    <<extract_name_oids(certificate.issuer),
      extract_name_oids(certificate.subject),
      extract_name_oids(certificate.extensions)>>

-------------------------------------------------------------------------------

\* Mutant: the first ServerHello is kept.
msg_capture_first(hellos) == hellos[1]

\* A server may send a HelloRetryRequest first, which is a ServerHello too: the
\* capture is overwritten.
msg_capture_cb(hellos) == hellos[Len(hellos)]

\* The cipher and the protocol are those OpenSSL has negotiated.
fill_fingerprints(hellos, session) ==
    [ja4s |-> compute_ja4s([parse_server_hello(msg_capture_cb(hellos))
                               EXCEPT !.cipher_id = session.cipher],
                           session.alpn),
     ja4x |-> compute_ja4x(session.certificate)]

-------------------------------------------------------------------------------

\* A ServerHello as a server composes it, to compare with what is read of it:
\* its extensions are pairs of a type and a body.
U16Octets(n) == <<n \div 256, n % 256>>

EncodedExtension(extension) ==
    U16Octets(extension[1]) \o U16Octets(Len(extension[2])) \o extension[2]

EncodedExtensions(extensions) ==
    FlattenSeq([n \in DOMAIN extensions |-> EncodedExtension(extensions[n])])

\* RFC 5246 lets a server leave the list out when it is empty.
Encoded(hello) ==
    LET list == EncodedExtensions(hello.extensions)
    IN  U16Octets(hello.legacy) \o [i \in 1..32 |-> 7] \o <<hello.sid>>
        \o [i \in 1..hello.sid |-> 9] \o U16Octets(hello.cipher) \o <<0>>
        \o IF hello.extensions = <<>> THEN <<>>
           ELSE U16Octets(Len(list)) \o list

Octet == 0..255
Short == {n \in Nat : n < 65536}

\* The ServerHellos of a handshake that succeeds: what is negotiated is TLS 1.2
\* or, by an extension, TLS 1.3.
ServerHello ==
    {hello \in [legacy : {771}, sid : 0..32, cipher : Short,
                extensions : Seq(Short \X Seq(Octet))] :
        /\ Len(EncodedExtensions(hello.extensions)) \in Short
        /\ \A k \in DOMAIN hello.extensions :
               hello.extensions[k][1] = SupportedVersions
                   => hello.extensions[k][2] = <<3, 4>>}

Oid == [oid : STRING, length : Int]
Certificate == [issuer : Seq(Oid), subject : Seq(Oid), extensions : Seq(Oid)]
===============================================================================
