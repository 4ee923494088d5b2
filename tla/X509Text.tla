------------------------------ MODULE X509Text -------------------------------
(* What module X509 is for, said of certificates before they are
   written: a certificate is a record of its fields, DER is what Written makes of it,
   a key knows its private half, and times are compared as a calendar reads. *)
EXTENDS X509

(* Bytes *)
Der(tag, content) ==
    LET n == Len(content) IN
    <<tag>> \o (IF n < LongForm THEN <<n>> ELSE IF n < 256 THEN <<LongForm + 1, n>> ELSE <<LongForm + 2, n \div 256, n % 256>>) \o content
Sequence(parts) == Der(SequenceTag, FlattenSeq(parts))
Number(b) == FoldOver(LAMBDA v, i : v * 2 ^ Byte + b[i], 0, Len(b))
InOctets(v, len) == [k \in 1 .. len |-> (v \div 2 ^ (Byte * (len - k))) % 2 ^ Byte]
Octets(v) == Min({k \in 1 .. 16 : v < 2 ^ Min({30, Byte * k})})
RECURSIVE Power(_, _, _)
Power(a, k, m) == IF k = 0 THEN 1 ELSE LET h == Power(a, k \div 2, m) IN (((h * h) % m) * (IF k % 2 = 1 THEN a ELSE 1)) % m
DerInteger(v) == LET b == InOctets(v, Octets(v)) IN Der(2, IF b[1] >= 2 ^ (Byte - 1) THEN <<0>> \o b ELSE b)

(* Keys: [kind, id], and for RSA the primes p and q and the exponent e. *)
Modulus(key) == key.p * key.q
PrivateExponent(key) == CHOOSE d \in 1 .. Modulus(key) : (d * key.e) % ((key.p - 1) * (key.q - 1)) = 1
SizeOf(kind) == CASE kind = "p256" -> P256Point [] kind = "p384" -> P384Point [] kind = "ed25519" -> EdKey
Point(key) == [i \in 1 .. SizeOf(key.kind) |-> key.id]
SpkiOf(key) ==
    LET Bits(oids, content) == Sequence(<<Sequence([i \in DOMAIN oids |-> Der(6, oids[i])]), Der(3, <<0>> \o content)>>)
    IN  CASE key.kind = "rsa" -> Sequence(<<Sequence(<<RsaOid, <<5, 0>>>>),
                                            Der(3, <<0>> \o Sequence(<<DerInteger(Modulus(key)), DerInteger(key.e)>>))>>)
          [] key.kind = "p256" -> Bits(<<<<42, 1>>, OidPrime256v1>>, <<4>> \o Point(key))
          [] key.kind = "p384" -> Bits(<<<<42, 1>>, OidSecp384r1>>, <<4>> \o Point(key))
          [] key.kind = "ed25519" -> Bits(<<OidEd25519>>, Point(key))
          [] key.kind = "other" -> Bits(<<<<42, 1>>, <<43, 9>>>>, <<4, key.id>>)

(* Signatures.  The octets that PKCS#1 v1.5 and PSS sign. *)
Pkcs(info, len) == <<0, 1>> \o [i \in 1 .. len - Len(info) - 3 |-> FF] \o <<0>> \o info
Pss(message, salt, bits) ==
    LET len == InBytes(bits)
        H == Sha([i \in 1 .. 8 |-> 0] \o Sha(message) \o salt)
        db == [i \in 1 .. len - 2 * HashLen - 2 |-> 0] \o <<1>> \o salt
        masked == [i \in DOMAIN db |-> Xor(db[i], Mgf1(H, Len(db))[i])]
    IN  <<masked[1] % 2 ^ (Byte - (Byte * len - bits))>> \o Tail(masked) \o H \o <<Trailer>>
Signed(key, octets) == InOctets(Power(Number(octets), PrivateExponent(key), Modulus(key)), Octets(Modulus(key)))
Schemes == [rsa256 |-> <<OidRsaSha256, "rsa", 256>>, rsa384 |-> <<OidRsaSha384, "rsa", 384>>,
            ec256 |-> <<OidEcdsaSha256, "ec", 256>>, ec384 |-> <<OidEcdsaSha384, "ec", 384>>,
            ed |-> <<OidEd25519, "ed25519", 256>>, rsa512 |-> <<<<42, 7>>, "none", 512>>]
Suits(scheme, kind) == LET s == Schemes[scheme][2] IN kind = s \/ (s = "ec" /\ kind \in {"p256", "p384"})
SignatureOf(scheme, key, tbs) ==
    LET hash == Schemes[scheme][3]
    IN  CASE key.kind = "rsa" -> Signed(key, Pkcs(DigestInfo(hash, tbs), Octets(Modulus(key))))
          [] key.kind = "ed25519" -> Stands(2, Point(key), tbs)
          [] key.kind \in {"p256", "p384"} -> Stands(1, Point(key), Digest(hash, tbs))
          [] OTHER -> <<key.id>>

(* Certificates.  A time is <<year, month, day, hour, minute, second>>; an extension
   is <<"san", names>>, <<"ca", flag>>, <<"none", oid>>, and whether it is critical. *)
DigitsOf(v, n) == [k \in 1 .. n |-> 48 + ((v \div 10 ^ (n - k)) % 10)]
TimeOf(t, tag) == Der(tag, DigitsOf(t[1], IF tag = UtcTime THEN 2 ELSE 4)
                           \o FlattenSeq([i \in 1 .. 5 |-> DigitsOf(t[i + 1], 2)]) \o <<90>>)
NameOf(n) == Sequence(<<n>>)
ExtensionOf(x) ==
    LET content == CASE x[1] = "san" -> Sequence([i \in DOMAIN x[2] |-> Der(x[2][i][1], x[2][i][2])])
                     [] x[1] = "ca" -> Sequence(IF x[2] THEN <<Der(1, <<255>>), Der(2, <<0>>)>> ELSE <<>>)
                     [] x[1] = "none" -> <<1, 2, 3>>
        oid == CASE x[1] = "san" -> OidSan [] x[1] = "ca" -> OidBc [] x[1] = "none" -> <<85, 29, 15>>
    IN  Sequence(<<Der(6, oid)>> \o (IF x[3] THEN <<Der(1, <<255>>)>> ELSE <<>>) \o <<Der(4, content)>>)
Tbs(c) ==
    Sequence((IF c.version THEN <<Der(VersionTag, Der(2, <<2>>))>> ELSE <<>>)
             \o <<Der(2, c.serial), Sequence(<<Der(6, Schemes[c.scheme][1])>>), NameOf(c.issuer),
                  Sequence(<<TimeOf(c.from, c.tag), TimeOf(c.until, c.tag)>>), NameOf(c.subject), SpkiOf(c.key)>>
             \o (IF c.extensions = <<>> THEN <<>>
                 ELSE <<Der(ExtensionsTag, Sequence([i \in DOMAIN c.extensions |-> ExtensionOf(c.extensions[i])]))>>))
Written(c) == Sequence(<<Tbs(c), Sequence(<<Der(6, Schemes[c.scheme][1])>>),
                         Der(3, <<0>> \o SignatureOf(c.scheme, c.signer, Tbs(c)))>>)

(* The calendar *)
Leap(y) == y % 4 = 0 /\ (y % 100 # 0 \/ y % 400 = 0)
Month(y, m) == IF m = 2 THEN (IF Leap(y) THEN 29 ELSE 28) ELSE IF m \in {4, 6, 9, 11} THEN 30 ELSE 31
IsTime(t) == t[2] \in 1 .. 12 /\ t[3] \in 1 .. Month(t[1], t[2]) /\ t[4] \in 0 .. 23 /\ t[5] \in 0 .. 59 /\ t[6] \in 0 .. 59
DayOf(t) ==                                 \* of the epoch
    LET leaps(from, to) == Cardinality({y \in from .. to : Leap(y)})
    IN  365 * (t[1] - 1970) + leaps(1970, t[1] - 1) - leaps(t[1], 1969)
        + FoldOver(LAMBDA n, m : n + Month(t[1], m), 0, t[2] - 1) + t[3] - 1
Stamp(t) == <<DayOf(t), t[4] * 3600 + t[5] * 60 + t[6]>>
NotAfter(s, t) == s = t \/ \E i \in 1 .. 6 : s[i] < t[i] /\ \A j \in 1 .. i - 1 : s[j] = t[j]

(* A certificate reads as its fields, and no beginning of one is a certificate. *)
San(c) == FlattenSeq([i \in DOMAIN c.extensions |-> IF c.extensions[i][1] # "san" THEN <<>> ELSE
              LET dns == SelectSeq(c.extensions[i][2], LAMBDA n : n[1] = DnsTag) IN [k \in DOMAIN dns |-> dns[k][2]]])
IsCa(c) == \E i \in DOMAIN c.extensions : c.extensions[i][1] = "ca" /\ c.extensions[i][2]
CertificateIsRead(c) ==
    LET der == Written(c)
    IN  /\ ParseCert(der) = IF ~IsTime(c.from) \/ ~IsTime(c.until) THEN {} ELSE
               {[tbs |-> Tbs(c), issuer |-> NameOf(c.issuer), subject |-> NameOf(c.subject), spki |-> SpkiOf(c.key),
                 sigOid |-> Schemes[c.scheme][1], sig |-> SignatureOf(c.scheme, c.signer, Tbs(c)),
                 notBefore |-> Stamp(c.from), notAfter |-> Stamp(c.until), san |-> San(c), isCa |-> IsCa(c)]}
        /\ \A n \in 0 .. Len(der) - 1 : ParseCert(SubSeq(der, 1, n)) = {}

(* A host is one of the names of the leaf, label by label. *)
Labels(s) == LET dots == {i \in DOMAIN s : s[i] = Dot}
                 ends == SetToSortSeq(dots \union {Len(s) + 1}, <)
             IN  [i \in DOMAIN ends |-> SubSeq(s, (IF i = 1 THEN 0 ELSE ends[i - 1]) + 1, ends[i] - 1)]
Covers(name, host) ==
    LET p == Labels(Lower(name))
        h == Labels(Lower(host))
    IN  /\ name # <<>> /\ host # <<>> /\ Len(p) = Len(h)
        /\ p = h \/ (Len(h) > 1 /\ p[1] = <<42>> /\ Tail(p) = Tail(h) /\ Tail(p) # <<<<>>>> /\ h[1] # <<>>)

(* A chain is trusted if a beginning of it leads from the host to a trusted
   certificate, each signed by a certificate authority that comes next. *)
SignedBy(c, i) == c.signer = i.key /\ Suits(c.scheme, i.key.kind) /\ c.issuer = i.subject
Current(c, now) == NotAfter(c.from, now) /\ NotAfter(now, c.until)
Trusted(chain, host, anchors, now) ==
    /\ chain # <<>>
    /\ \E i \in DOMAIN San(chain[1]) : Covers(San(chain[1])[i], host)
    /\ \E n \in DOMAIN chain :
         /\ \A i \in 1 .. n : Current(chain[i], now)
         /\ \A i \in 1 .. n - 1 : SignedBy(chain[i], chain[i + 1]) /\ IsCa(chain[i + 1])
         /\ \E a \in anchors : SignedBy(chain[n], a) /\ Current(a, now)
PemBlockOf(label, der) == <<<<"begin", label>>, <<"body", der>>, <<"end", label>>>>
PemOf(certs) == FlattenSeq([i \in DOMAIN certs |-> PemBlockOf(Certificate, Written(certs[i]))])
TrustIsAPath(chain, host, anchors, now) ==
    LET begin == <<"begin", Certificate>>
        end == <<"end", Certificate>>
        damaged == <<begin, <<"body", <<SequenceTag, 5>>>>, end, begin, begin, <<"body", <<1>>>>, end>>
        files == [file \in {"first", "second", "cert.pem"} |->
                    CASE file = "first" -> damaged
                      [] file = "second" -> damaged \o PemOf(anchors) \o <<begin>>
                      [] file = "cert.pem" -> PemOf(anchors)]
        store == LoadTrustFiles(<<"none", "first", "second">>, files)
        ders == [i \in DOMAIN chain |-> Written(chain[i])]
    IN  /\ LoadTrust("", {"first"}, files) = store /\ LoadTrust("first", {"second"}, files) = {}
        /\ Validate(ders, host, store, Stamp(now)) = Trusted(chain, host, Range(anchors), now)

(* A server presents its whole chain exactly when the key it is given is the private half
   of its leaf's, in either of the forms such a key comes in, and no block is damaged. *)
SecretOf(key) == [i \in 1 .. EdKey |-> key.id - 1]
PrivateTexts(key) ==
    LET Pkcs8(oids, content) == PemBlockOf("PRIVATE KEY",
            Sequence(<<Der(2, <<0>>), Sequence([i \in DOMAIN oids |-> Der(6, oids[i])]), Der(4, content)>>))
        Sec1(more) == Sequence(<<Der(2, <<1>>), Der(4, SecretOf(key))>> \o more)
        ec == <<<<42, 1>>, IF key.kind = "p256" THEN OidPrime256v1 ELSE OidSecp384r1>>
    IN  CASE key.kind = "ed25519" -> {Pkcs8(<<OidEd25519>>, Der(4, SecretOf(key)))}
          [] key.kind \in {"p256", "p384"} ->
               {Pkcs8(ec, Sec1(<<>>)), PemBlockOf("EC PRIVATE KEY", Sec1(<<Der(VersionTag, Der(6, ec[2]))>>))}
          [] OTHER -> {<<>>, PemBlockOf("PRIVATE KEY", <<1>>)}
Algorithms == [ed25519 |-> "ed25519", p256 |-> "ecdsa_secp256r1_sha256"]
ServerPresentsItsKey(chain, keys) ==
    \A key \in keys : \A text \in PrivateTexts(key) :
        /\ ServerKey(PemOf(chain), text) =
             IF key = chain[1].key /\ key.kind \in DOMAIN Algorithms
             THEN {[chain |-> [i \in DOMAIN chain |-> Written(chain[i])], algorithm |-> Algorithms[key.kind]]} ELSE {}
        /\ ServerKey(PemOf(chain) \o <<<<"begin", Certificate>>>>, text) = {}
        /\ ServerKey(PemBlockOf(Certificate, <<>>) \o PemOf(chain), text) = {}
        /\ ServerKey(PemBlockOf("PRIVATE KEY", <<1>>), text) = {}

(* A signature is accepted if it is below the modulus, has its length and its power
   is the encoding of the message. *)
ExponentIsGood(e) == e % 2 = 1 /\ e > 1
SignatureIsTheEncoding(key, message, sig) ==
    LET value == Power(Number(sig) % Modulus(key), key.e, Modulus(key))
        fits == ExponentIsGood(key.e) /\ Len(sig) = Octets(Modulus(key)) /\ Number(sig) < Modulus(key)
        bits == Min({b \in 1 .. 30 : Modulus(key) < 2 ^ b})
        info == DigestInfo(256, message)
        salts == [1 .. HashLen -> 0 .. FF]
    IN  /\ VerifyPssSha256(SpkiOf(key), message, sig)
             = (fits /\ InBytes(bits - 1) >= 2 * HashLen + 2 /\ \E s \in salts : value = Number(Pss(message, s, bits - 1)))
        /\ VerifyPkcs1v15(InOctets(Modulus(key), Octets(Modulus(key))), InOctets(key.e, Octets(key.e)), info, sig)
             = (fits /\ Octets(Modulus(key)) >= Len(info) + MinPadding + 3
                /\ value = Number(Pkcs(info, Octets(Modulus(key)))))
=============================================================================
