-------------------------------- MODULE MCTls --------------------------------
(* Servers for Tls: this library's, one that asks for a certificate, packs *)
(* its flight into two records and sends a key update afterwards, and one  *)
(* that never signs; and one whose certificate chain is not trusted.       *)
EXTENDS Tls

Own == [suite |-> Choose(Offered), messages |-> <<"EE", "Cert", "CV", "Fin">>,
        upto |-> <<2, 4, 6, 8>>, after |-> "nothing", trusted |-> TRUE]

Other(after) == [suite |-> "aes256", messages |-> <<"EE", "Req", "Cert", "CV", "Fin">>,
                 upto |-> <<5, 10>>, after |-> after, trusted |-> TRUE]

NoProof == [suite |-> "aes256", messages |-> <<"EE", "Cert", "Fin">>,
            upto |-> <<3, 6>>, after |-> "nothing", trusted |-> TRUE]

MCServers == {Own, [Own EXCEPT !.trusted = FALSE], Other("update"), NoProof}
OwnServer == {Own}
=============================================================================
