-------------------------------- MODULE X509 ---------------------------------
(* Certificates and the trust in them (src/stdlib/tls/x509.hpp): the DER walker, the
   fields of a certificate, the match of a host, the store of trusted certificates
   and the validation of a chain.  Text and DER are sequences of bytes.  What does
   not parse is {} where the code returns false and leaves its result unused.
   In front of it the verification of RSA signatures (src/stdlib/tls/rsa_verify.hpp):
   unsigned numbers of any length, the key in a certificate, PSS and PKCS#1 v1.5.  A number
   is the sequence of its limbs, the least significant first and the last one not 0; a call
   that fails gives {}. *)
EXTENDS Integers, SequencesExt

CONSTANTS Byte, LimbBytes,             \* bits of a byte (8), bytes of a limb (4)
          HashLen,                     \* bytes of a digest, and of the salt of PSS (32)
          MinPadding,                  \* bytes of padding PKCS#1 v1.5 asks for (8)
          MaxExponentBits,             \* 64
          LongForm                     \* the lengths from here on take bytes of their own (128)

FF == 2 ^ Byte - 1
LimbBits == Byte * LimbBytes
FoldOver(op(_, _), start, n) ==        \* op for each of 1 .. n; a value is taken before the next step
    LET after[i \in 0 .. n] == IF i = 0 THEN start ELSE CHOOSE x \in {op(y, i) : y \in {after[i - 1]}} : TRUE
    IN  after[n]

-----------------------------------------------------------------------------
(* Numbers. *)

Digit(a, i) == IF i \in DOMAIN a THEN a[i] ELSE 0
Bit(a, i) == (Digit(a, (i \div LimbBits) + 1) \div 2 ^ (i % LimbBits)) % 2      \* of the bits 0, 1, ...
Trim(a) == SubSeq(a, 1, Max({0} \union {i \in DOMAIN a : a[i] # 0}))
FromBe(s) ==
    LET place(i) == Digit(Reverse(s), i + 1)                            \* of the bytes 0, 1, ...
    IN  Trim([i \in 1 .. Len(s) |-> FoldOver(LAMBDA v, b : v + place((i - 1) * LimbBytes + b - 1) * 2 ^ (Byte * (b - 1)),
                                             0, LimbBytes)])
ToBe(a, outlen) == [k \in 1 .. outlen |-> LET byte == outlen - k IN
                      (Digit(a, (byte \div LimbBytes) + 1) \div 2 ^ (Byte * (byte % LimbBytes))) % 2 ^ Byte]
BitLen(a) == IF a = <<>> THEN 0
             ELSE (Len(a) - 1) * LimbBits + Min({b \in 1 .. LimbBits : Last(a) < 2 ^ b})
InBytes(bits) == (bits + Byte - 1) \div Byte
Less(a, b) == \/ Len(a) < Len(b)
              \/ Len(a) = Len(b) /\ \E i \in DOMAIN a : a[i] < b[i] /\ \A j \in i + 1 .. Len(a) : a[j] = b[j]
Carried(n, digit(_)) ==                \* n limbs and the carry, or a borrow as a carry of -1
    FoldOver(LAMBDA acc, i : LET d == digit(i) + acc[2] IN <<Append(acc[1], d % 2 ^ LimbBits), d \div 2 ^ LimbBits>>, <<<<>>, 0>>, n)
Shl1(a) == LET d == Carried(Len(a), LAMBDA i : 2 * a[i]) IN Trim(Append(d[1], d[2]))
Sub(a, b) == Trim(Carried(Len(a), LAMBDA i : a[i] - Digit(b, i))[1])
Mul(a, b) ==                           \* one row of the product for each limb of a
    LET Row(r, i) == LET d == Carried(Len(b), LAMBDA j : r[i + j - 1] + a[i] * b[j])
                     IN  [k \in DOMAIN r |-> IF k \in i .. i + Len(b) - 1 THEN d[1][k - i + 1]
                                             ELSE IF k = i + Len(b) THEN r[k] + d[2] ELSE r[k]]
    IN  Trim(FoldOver(Row, [k \in 1 .. Len(a) + Len(b) |-> 0], Len(a)))
Mod(x, m) ==                           \* bit by bit from the top
    LET bits == Len(x) * LimbBits
        Step(r, i) == LET twice == Shl1(r)
                          next == IF Bit(x, bits - i) = 0 THEN twice
                                  ELSE IF twice = <<>> THEN <<1>> ELSE [twice EXCEPT ![1] = @ + 1]
                      IN  IF Less(next, m) THEN next ELSE Sub(next, m)
    IN  FoldOver(Step, <<>>, bits)
ModExp(base, e, m) ==                  \* square and multiply from the top bit of e
    LET Step(r, i) == LET square == Mod(Mul(r, r), m) IN
                      IF Bit(e, BitLen(e) - i) = 1 THEN Mod(Mul(square, Mod(base, m)), m) ELSE square
    IN  FoldOver(Step, <<1>>, BitLen(e))

-----------------------------------------------------------------------------
(* The key of a SubjectPublicKeyInfo. *)

RsaOid == <<6, 9, 42, 134, 72, 134, 247, 13, 1, 1, 1>>
Here(d, i, s) == i + Len(s) - 1 <= Len(d) /\ SubSeq(d, i, i + Len(s) - 1) = s
DerLen(d, p) ==                        \* {<<the length, the place after it>>}
    LET n == d[p] - LongForm
    IN  IF p > Len(d) THEN {}
        ELSE IF d[p] < LongForm THEN {<<d[p], p + 1>>}
        ELSE IF n \notin 1 .. 4 \/ p + n > Len(d) THEN {}
        ELSE {<<FoldOver(LAMBDA len, i : len * 256 + d[p + i], 0, n), p + 1 + n>>}
Inside(d, p, tag) == IF Here(d, p, tag) THEN {l[2] : l \in DerLen(d, p + Len(tag))} ELSE {}    \* only the length is read
Integer(d, p) ==                       \* {<<the bytes, the place after them>>}
    IF ~Here(d, p, <<2>>) THEN {}
    ELSE {<<SubSeq(d, l[2], l[2] + l[1] - 1), l[2] + l[1]>> : l \in {k \in DerLen(d, p + 1) : k[2] + k[1] - 1 <= Len(d)}}
Strip(s) == SubSeq(s, Min({Len(s)} \union {i \in DOMAIN s : s[i] # 0}), Len(s))
ParseRsaPubkey(der) ==                 \* {<<n, e>>}
    LET oids == {i \in 1 .. Len(der) - Len(RsaOid) + 1 : Here(der, i, RsaOid)}
        after == Min(oids) + Len(RsaOid)
        bits == IF Here(der, after, <<5, 0>>) THEN after + 2 ELSE after
        unused == {p \in Inside(der, bits, <<3>>) : Here(der, p, <<0>>)}
        first == UNION {Inside(der, p + 1, <<48>>) : p \in unused}
        keys == UNION {{<<n[1], e[1]>> : e \in Integer(der, n[2])} : n \in UNION {Integer(der, p) : p \in first}}
    IN  IF oids = {} THEN {} ELSE {<<Strip(k[1]), Strip(k[2])>> : k \in {k \in keys : k[1] # <<>> /\ k[2] # <<>>}}

-----------------------------------------------------------------------------
(* The two encodings, and the signatures. *)

Sha(s) ==                              \* any digest will do: this one depends on each byte and its place
    [k \in 1 .. HashLen |-> FoldOver(LAMBDA h, i : (h * (2 * k + 1) + s[i] + k) % 2 ^ Byte, k, Len(s))]
Xor(a, b) == FoldOver(LAMBDA v, i : v + 2 ^ (i - 1) * (((a \div 2 ^ (i - 1)) + (b \div 2 ^ (i - 1))) % 2), 0, Byte)
Mgf1(seed, len) ==
    SubSeq(FoldOver(LAMBDA t, i : t \o Sha(seed \o <<0, 0, 0, i - 1>>), <<>>, len), 1, len)
Trailer == 188 \div 2 ^ (8 - Byte)
PssVerify(mhash, em, embits) ==
    LET emlen == InBytes(embits)
        dblen == emlen - HashLen - 1
        top == Byte * emlen - embits   \* bits of the first byte that must be 0
        H == SubSeq(em, dblen + 1, dblen + HashLen)
        mask == Mgf1(H, dblen)
        db == [i \in 1 .. dblen |-> IF i = 1 THEN Xor(em[1], mask[1]) % 2 ^ (Byte - top) ELSE Xor(em[i], mask[i])]
        ps == dblen - HashLen - 1
    IN  /\ Len(em) = emlen /\ emlen >= 2 * HashLen + 2 /\ em[emlen] = Trailer
        /\ em[1] < 2 ^ (Byte - top)
        /\ \A i \in 1 .. ps : db[i] = 0
        /\ db[ps + 1] = 1
        /\ Sha([i \in 1 .. 8 |-> 0] \o mhash \o SubSeq(db, ps + 2, dblen)) = H
GoodExponent(e) == Bit(e, 0) = 1 /\ ~Less(e, <<3>>) /\ BitLen(e) <= MaxExponentBits
VerifyPssSha256(cert, message, sig) ==
    \E key \in ParseRsaPubkey(cert) :
        LET n == FromBe(key[1])
            e == FromBe(key[2])
            m == ModExp(FromBe(sig), e, n)
            embits == BitLen(n) - 1
        IN  /\ n # <<>> /\ e # <<>> /\ GoodExponent(e)
            /\ Len(sig) = Len(key[1]) /\ Less(FromBe(sig), n)
            /\ InBytes(BitLen(m)) <= InBytes(embits)
            /\ PssVerify(Sha(message), ToBe(m, InBytes(embits)), embits)
ExactPadding(em, digestInfo) ==        \* 00 01 FF .. FF 00 and the digest, to the last byte
    \E i \in 2 + MinPadding .. Len(em) :
        /\ \A j \in 3 .. i : em[j] = FF
        /\ SubSeq(em, i + 1, Len(em)) = <<0>> \o digestInfo
VerifyPkcs1v15(nb, eb, digestInfo, sig) ==
    LET n == FromBe(nb)
        e == FromBe(eb)
        k == InBytes(BitLen(n))
        em == ToBe(ModExp(FromBe(sig), e, n), k)
    IN  /\ n # <<>> /\ e # <<>> /\ GoodExponent(e)
        /\ Len(sig) = k /\ Less(FromBe(sig), n)
        /\ k >= Len(digestInfo) + MinPadding + 3
        /\ em[1] = 0 /\ em[2] = 1 /\ ExactPadding(em, digestInfo)

-----------------------------------------------------------------------------
(* Certificates. *)

CONSTANTS P256Point, P384Point, EdKey      \* bytes of a public key: 64, 96, 32

SequenceTag == 48
DnsTag == 130
VersionTag == 160
ExtensionsTag == 163
UtcTime == 23
GeneralizedTime == 24
OidSan == <<85, 29, 17>>
OidBc == <<85, 29, 19>>
OidRsaSha256 == <<42, 134, 72, 134, 247, 13, 1, 1, 11>>
OidRsaSha384 == <<42, 134, 72, 134, 247, 13, 1, 1, 12>>
OidEcdsaSha256 == <<42, 134, 72, 206, 61, 4, 3, 2>>
OidEcdsaSha384 == <<42, 134, 72, 206, 61, 4, 3, 3>>
OidEd25519 == <<43, 101, 112>>
OidPrime256v1 == <<42, 134, 72, 206, 61, 3, 1, 7>>
OidSecp384r1 == <<43, 129, 4, 0, 34>>

-----------------------------------------------------------------------------
(* DER.  An element is its tag, the text of the whole and the text of its value. *)

Tlv(d) ==                                  \* the element d begins with, and what follows it
    {LET end == l[2] + l[1] IN [tag |-> d[1], raw |-> SubSeq(d, 1, end - 1), value |-> SubSeq(d, l[2], end - 1),
                                rest |-> SubSeq(d, end, Len(d))] :
       l \in IF d = <<>> THEN {} ELSE {k \in DerLen(d, 2) : k[1] <= Len(d) - k[2] + 1}}
(* The elements that can be read one after the other, and whether that is all of d. *)
RECURSIVE Walk(_)
Walk(d) == IF Tlv(d) = {} THEN [items |-> <<>>, whole |-> d = <<>>]
           ELSE LET e == CHOOSE e \in Tlv(d) : TRUE
                    w == Walk(e.rest)
                IN  [items |-> <<e>> \o w.items, whole |-> w.whole]
Starts(items, tags) == Len(items) >= Len(tags) /\ \A i \in DOMAIN tags : items[i].tag = tags[i]
Inner(d) ==                                \* the elements of the sequence d begins with
    LET w == Walk(d).items IN IF Starts(w, <<SequenceTag>>) THEN Walk(w[1].value).items ELSE <<>>

-----------------------------------------------------------------------------
(* Times. *)

DaysFromCivil(year, m, d) ==
    LET y == IF m <= 2 THEN year - 1 ELSE year
        era == y \div 400
        yoe == y - era * 400
        doy == (153 * (m + (IF m > 2 THEN -3 ELSE 9)) + 2) \div 5 + d - 1
    IN  era * 146097 + yoe * 365 + yoe \div 4 - yoe \div 100 + doy - 719468
(* {<<days, second of the day>>}: a second count needs more than the 32 bits of TLC. *)
ParseTime(s, tag) ==
    LET lead == CASE tag = UtcTime -> 1 [] tag = GeneralizedTime -> 2 [] OTHER -> 0
        Two(i) == (s[2 * i - 1] - 48) * 10 + s[2 * i] - 48
        At(i) == Two(lead + i)
        year == IF lead = 2 THEN Two(1) * 100 + Two(2) ELSE IF Two(1) < 50 THEN 2000 + Two(1) ELSE 1900 + Two(1)
    IN  IF /\ lead > 0 /\ Len(s) > 2 * lead + 10
           /\ \A i \in 1 .. 2 * lead + 10 : s[i] \in 48 .. 57
           /\ s[2 * lead + 11] = 90
           /\ At(1) \in 1 .. 12 /\ At(2) \in 1 .. 31 /\ At(3) <= 23 /\ At(4) <= 59 /\ At(5) <= 60
        THEN {<<DaysFromCivil(year, At(1), At(2)), At(3) * 3600 + At(4) * 60 + At(5)>>} ELSE {}
Before(s, t) == s[1] < t[1] \/ (s[1] = t[1] /\ s[2] < t[2])

-----------------------------------------------------------------------------
(* A certificate. *)

ParseSan(d) == LET names == SelectSeq(Inner(d), LAMBDA e : e.tag = DnsTag)
               IN  [i \in DOMAIN names |-> names[i].value]
ParseBasicConstraints(d) == LET w == Inner(d) IN Starts(w, <<1>>) /\ w[1].value # <<>> /\ w[1].value[1] # 0
(* One extension: what it adds to the names and to the CA flag, or {} to give up. *)
Extension(e) ==
    LET x == Walk(e.value).items
        at == IF Starts(x, <<6, 1>>) THEN 3 ELSE 2
        Is(oid) == Starts(x, <<6>>) /\ x[at].tag = 4 /\ x[1].value = oid
    IN  IF e.tag # SequenceTag \/ (Starts(x, <<6>>) /\ Len(x) < at) THEN {}
        ELSE {[san |-> IF Is(OidSan) THEN ParseSan(x[at].value) ELSE <<>>,
               ca |-> Is(OidBc) /\ ParseBasicConstraints(x[at].value)]}
ParseExtensions(d) ==
    LET all == Inner(d)
        read == SubSeq(all, 1, Min({Len(all)} \union {i - 1 : i \in {i \in DOMAIN all : Extension(all[i]) = {}}}))
    IN  FoldLeft(LAMBDA acc, e : LET x == CHOOSE x \in Extension(e) : TRUE
                                 IN  [san |-> acc.san \o x.san, ca |-> acc.ca \/ x.ca],
                 [san |-> <<>>, ca |-> FALSE], read)
ParseCert(der) ==
    LET top == Inner(der)
        fields == Walk(top[1].value)
        f == IF Starts(fields.items, <<VersionTag>>) THEN Tail(fields.items) ELSE fields.items
        validity == Walk(f[4].value).items
        Bound(i) == IF i \in DOMAIN validity THEN ParseTime(validity[i].value, validity[i].tag) ELSE {}
        extra == SelectSeq(SubSeq(f, 7, Len(f)), LAMBDA e : e.tag = ExtensionsTag)
        parsed == [i \in DOMAIN extra |-> ParseExtensions(extra[i].value)]
        algorithm == Walk(top[2].value).items
        bits == top[3].value
    IN  IF /\ Starts(top, <<SequenceTag, SequenceTag, 3>>)
           /\ Starts(f, <<2, SequenceTag, SequenceTag, SequenceTag, SequenceTag, SequenceTag>>) /\ fields.whole
           /\ Starts(algorithm, <<6>>)
           /\ bits # <<>> /\ bits[1] = 0
        THEN {[tbs |-> top[1].raw, issuer |-> f[3].raw, subject |-> f[5].raw, spki |-> f[6].raw,
               sigOid |-> algorithm[1].value, sig |-> Tail(bits), notBefore |-> from, notAfter |-> until,
               san |-> FoldLeft(LAMBDA s, x : s \o x.san, <<>>, parsed), isCa |-> \E i \in DOMAIN parsed : parsed[i].ca] :
                 from \in Bound(1), until \in Bound(2)}
        ELSE {}

-----------------------------------------------------------------------------
(* Keys and signatures of certificates. *)

Ed25519Key(spki) ==
    LET s == Inner(spki)
        a == Walk(s[1].value).items
    IN  IF /\ Starts(s, <<SequenceTag, 3>>) /\ Starts(a, <<6>>) /\ a[1].value = OidEd25519
           /\ Len(s[2].value) = EdKey + 1 /\ s[2].value[1] = 0
        THEN Tail(s[2].value) ELSE <<>>
EcNamedCurve(spki) ==
    LET a == IF Starts(Inner(spki), <<SequenceTag>>) THEN Walk(Inner(spki)[1].value).items ELSE <<>>
    IN  IF Starts(a, <<6, 6>>) THEN a[2].value ELSE <<>>
SpkiEcPoint(spki, size) ==                 \* BIT STRING, its length, no unused bits, uncompressed
    LET head == <<3, size + 2, 0, 4>>
        starts == {i \in 1 .. Len(spki) - size - 3 : Here(spki, i, head)}
    IN  IF starts = {} THEN <<>> ELSE SubSeq(spki, Min(starts) + 4, Min(starts) + 3 + size)
Digest(hash, text) == [i \in 1 .. HashLen |-> (Sha(text)[i] + hash \div 128) % 2 ^ Byte]     \* 256, 384: not the same
DigestInfo(hash, text) == <<hash \div 128>> \o Digest(hash, text)
Stands(scheme, key, text) == <<scheme>> \o key \o text     \* a signature of the schemes that module Ec is about
VerifyCertSigByOid(child, spki) ==         \* mutant: the curve goes by the signature's name
    \/ child.sigOid = OidEcdsaSha256 /\ SpkiEcPoint(spki, P256Point) # <<>>
       /\ child.sig = Stands(1, SpkiEcPoint(spki, P256Point), Digest(256, child.tbs))
    \/ child.sigOid = OidEcdsaSha384 /\ SpkiEcPoint(spki, P384Point) # <<>>
       /\ child.sig = Stands(1, SpkiEcPoint(spki, P384Point), Digest(384, child.tbs))
VerifyCertSig(child, spki) ==
    LET hash == IF child.sigOid \in {OidRsaSha384, OidEcdsaSha384} THEN 384 ELSE 256
        size == IF EcNamedCurve(spki) = OidPrime256v1 THEN P256Point ELSE P384Point
        point == SpkiEcPoint(spki, size)
    IN  \/ /\ child.sigOid \in {OidRsaSha256, OidRsaSha384}
           /\ \E key \in ParseRsaPubkey(spki) : VerifyPkcs1v15(key[1], key[2], DigestInfo(hash, child.tbs), child.sig)
        \/ /\ child.sigOid \in {OidEcdsaSha256, OidEcdsaSha384}
           /\ EcNamedCurve(spki) \in {OidPrime256v1, OidSecp384r1} /\ point # <<>>
           /\ child.sig = Stands(1, point, Digest(hash, child.tbs))
        \/ /\ child.sigOid = OidEd25519 /\ Ed25519Key(spki) # <<>>
           /\ child.sig = Stands(2, Ed25519Key(spki), child.tbs)

-----------------------------------------------------------------------------
(* The host. *)

Dot == 46
Lower(s) == [i \in DOMAIN s |-> IF s[i] \in 65 .. 90 THEN s[i] + 32 ELSE s[i]]
MatchDns(pat, host) ==
    LET dot == Min({i \in DOMAIN host : host[i] = Dot})
    IN  /\ pat # <<>> /\ host # <<>>
        /\ \/ pat = host
           \/ /\ Len(pat) > 2 /\ Here(pat, 1, <<42, Dot>>)
              /\ Dot \in Range(host) /\ dot > 1 /\ SubSeq(host, dot, Len(host)) = Tail(pat)
HostMatches(leaf, host) == \E i \in DOMAIN leaf.san : MatchDns(Lower(leaf.san[i]), Lower(host))

-----------------------------------------------------------------------------
(* PEM texts, as sequences of their lines: <<"begin", label>>, <<"end", label>>, and
   <<"body", bytes>> for what base64 encodes; a body that is not base64 has no bytes. *)

Certificate == "CERTIFICATE"
Decoded(lines) ==
    IF \A i \in DOMAIN lines : lines[i][1] = "body" THEN FlattenSeq([i \in DOMAIN lines |-> lines[i][2]]) ELSE <<>>
(* {<<the bytes of the first block, the text after it>>}, {} if a mark is missing. *)
FirstBlock(pem, label) ==
    LET s == Min({i \in DOMAIN pem : pem[i] = <<"begin", label>>})
        e == Min({i \in s + 1 .. Len(pem) : pem[i] = <<"end", label>>})
    IN  IF ~\E i, j \in DOMAIN pem : i < j /\ pem[i] = <<"begin", label>> /\ pem[j] = <<"end", label>> THEN {}
        ELSE {<<Decoded(SubSeq(pem, s + 1, e - 1)), SubSeq(pem, e + 1, Len(pem))>>}
PemBlock(pem, label) == IF FirstBlock(pem, label) = {} THEN <<>> ELSE (CHOOSE b \in FirstBlock(pem, label) : TRUE)[1]
(* Every block, or none if one of them is malformed. *)
RECURSIVE PemBlocks(_, _, _)
PemBlocks(pem, label, out) ==
    LET b == CHOOSE b \in FirstBlock(pem, label) : TRUE
    IN  IF \A i \in DOMAIN pem : pem[i] # <<"begin", label>> THEN out
        ELSE IF FirstBlock(pem, label) = {} \/ b[1] = <<>> THEN <<>>
        ELSE PemBlocks(b[2], label, Append(out, b[1]))

(* What a server presents (server_handshake in tls.cpp): the chain, and the one signature
   algorithm of its key, if the key belongs to the leaf.  Keys are found by a pattern. *)
Following(der, pattern, n) ==              \* the n bytes after the first that have n bytes after them
    LET starts == {i \in 1 .. Len(der) - Len(pattern) - n + 1 : Here(der, i, pattern)}
        first == Min(starts) + Len(pattern)
    IN  IF starts = {} THEN <<>> ELSE SubSeq(der, first, first + n - 1)
Ed25519Algorithm == <<SequenceTag, 5, 6, 3>> \o OidEd25519
Ed25519SpkiKey(der) == Following(der, Ed25519Algorithm \o <<3, EdKey + 1, 0>>, EdKey)
Ed25519SeedFromPkcs8(der) == Following(der, Ed25519Algorithm \o <<4, EdKey + 2, 4, EdKey>>, EdKey)
EcP256ScalarFromPem(pem) ==                \* a scalar is as long as a seed
    LET pkcs8 == PemBlock(pem, "PRIVATE KEY")
        der == IF pkcs8 # <<>> THEN pkcs8 ELSE PemBlock(pem, "EC PRIVATE KEY")
    IN  IF \E i \in DOMAIN der : Here(der, i, OidPrime256v1) THEN Following(der, <<2, 1, 1, 4, EdKey>>, EdKey) ELSE <<>>
PublicOf(secret, size) == [i \in 1 .. size |-> secret[1] + 1]      \* one-to-one, as far as anybody knows
ServerKey(certPem, keyPem) ==              \* {[chain, algorithm]}, {} if the handshake fails at once
    LET chain == PemBlocks(certPem, Certificate, <<>>)
        seed == Ed25519SeedFromPkcs8(PemBlock(keyPem, "PRIVATE KEY"))
        scalar == EcP256ScalarFromPem(keyPem)
    IN  CASE chain # <<>> /\ seed # <<>> /\ PublicOf(seed, EdKey) = Ed25519SpkiKey(chain[1]) ->
               {[chain |-> chain, algorithm |-> "ed25519"]}
          [] chain # <<>> /\ seed = <<>> /\ scalar # <<>> /\ PublicOf(scalar, P256Point) = SpkiEcPoint(chain[1], P256Point) ->
               {[chain |-> chain, algorithm |-> "ecdsa_secp256r1_sha256"]}
          [] OTHER -> {}

-----------------------------------------------------------------------------
(* The store of trusted certificates, the set of them: a malformed block is left out. *)

RECURSIVE AddPem(_)
AddPem(pem) ==
    UNION {(IF b[1] = <<>> THEN {} ELSE ParseCert(b[1])) \union AddPem(b[2]) : b \in FirstBlock(pem, Certificate)}
DefaultCaPaths(cafile, env) ==             \* {} for a variable that is not set; "" is no file's name
    IF cafile # "" THEN <<cafile>>
    ELSE SetToSeq(env) \o <<"ca-certificates.crt", "ca-bundle.crt", "cert.pem">>
LoadTrustFiles(paths, files) ==            \* files: what can be read
    LET full == {i \in DOMAIN paths : paths[i] \in DOMAIN files /\ AddPem(files[paths[i]]) # {}}
    IN  IF full = {} THEN {} ELSE AddPem(files[paths[Min(full)]])
LoadTrust(cafile, env, files) == LoadTrustFiles(DefaultCaPaths(cafile, env), files)

-----------------------------------------------------------------------------
(* The chain, leaf first. *)

InTime(c, now) == ~Before(now, c.notBefore) /\ ~Before(c.notAfter, now)
Anchored(c, store, now) ==
    \E a \in store : a.subject = c.issuer /\ InTime(a, now) /\ VerifyCertSig(c, a.spki)
IssuedBy(c, issuer) == issuer.subject = c.issuer /\ issuer.isCa /\ VerifyCertSig(c, issuer.spki)
Validate(ders, host, store, now) ==
    LET chain == [i \in DOMAIN ders |-> CHOOSE c \in ParseCert(ders[i]) : TRUE]
        From[i \in DOMAIN ders] ==
            /\ InTime(chain[i], now)
            /\ Anchored(chain[i], store, now) \/ (i < Len(ders) /\ IssuedBy(chain[i], chain[i + 1]) /\ From[i + 1])
    IN  /\ ders # <<>> /\ \A i \in DOMAIN ders : ParseCert(ders[i]) # {}
        /\ HostMatches(chain[1], host)
        /\ From[1]
=============================================================================
