------------------------- MODULE ThreePartyAccessors ------------------------
(***************************************************************************)
(* The identities of the three-party network: the accessors in             *)
(* compiler/rpc-threeparty.capnp.c, for each struct its bytes of data, its *)
(* pointers, the members that have getters and setters of their own, and   *)
(* all its members in the order of the program.                            *)
(***************************************************************************)
EXTENDS Accessors

VatId == Struct(8, 1, {}, <<Text("host", 0), U16("port", 0)>>)

ProvisionId == Struct(8, 0, {}, <<U64("nonce", 0)>>)

RecipientId == Struct(8, 1, {}, <<Pointer("vat", 0), U64("nonce", 0)>>)

ThirdPartyCapId == Struct(8, 1, {}, <<Pointer("vat", 0), U64("nonce", 0)>>)

JoinKeyPart ==
  Struct(8, 0, {},
    <<U32("joinId", 0), U16("partCount", 4), U16("partNum", 6)>>)

JoinResult ==
  Struct(8, 1, {},
    <<U32("joinId", 0), Flag("succeeded", 32), Pointer("cap", 0)>>)

-----------------------------------------------------------------------------
\* The structs of this file.
Structs ==
  {VatId, ProvisionId, RecipientId, ThirdPartyCapId, JoinKeyPart, JoinResult}

=============================================================================
