---------------------------- MODULE MCKeyValidation ----------------------------
(* KeyValidation with two keys, two user IDs, an attribute and a subkey, and   *)
(* signatures that fit where they stand, or do not, or whose signer or type is *)
(* not known.                                                                  *)
EXTENDS KeyValidation

CONSTANTS k1, k2, s1, u1, u2, a1

Packet(kind, id) == [kind |-> kind, id |-> id]
Sig(type, signer, over) ==
  [kind |-> "signature", id |-> None, type |-> type, signer |-> signer, over |-> over]

MCPackets ==
  { Packet("public", k1), Packet("encrypted", k2),
    Packet("user_id", u1), Packet("user_id", u2), Packet("attribute", a1),
    Packet("subkey", s1),
    Sig("cert", k1, <<k1, <<"user_id", u1>>>>),
    Sig("cert", k2, <<k1, <<"attribute", a1>>>>),
    Sig("subkey", k1, <<k1, <<"subkey", s1>>>>),
    Sig("direct", k2, <<k2, <<>>>>),
    Sig("other", k1, <<k1, <<>>>>) }
=============================================================================
