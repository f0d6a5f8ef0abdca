---------------------------- MODULE RpcAccessors ----------------------------
(***************************************************************************)
(* The messages of the RPC protocol: the accessors in                      *)
(* compiler/rpc.capnp.c, for each struct its bytes of data, its pointers,  *)
(* the members that have getters and setters of their own, and all its     *)
(* members in the order of the program.                                    *)
(***************************************************************************)
EXTENDS Accessors

Message ==
  Struct(8, 1, {},
    <<Tag("which", 0)>>
    \o Case("which", {0}, <<Pointer("unimplemented", 0)>>)
    \o Case("which", {1}, <<Pointer("abort", 0)>>)
    \o Case("which", {8}, <<Pointer("bootstrap", 0)>>)
    \o Case("which", {2}, <<Pointer("call", 0)>>)
    \o Case("which", {3}, <<Pointer("_return", 0)>>)
    \o Case("which", {4}, <<Pointer("finish", 0)>>)
    \o Case("which", {5}, <<Pointer("resolve", 0)>>)
    \o Case("which", {6}, <<Pointer("release", 0)>>)
    \o Case("which", {13}, <<Pointer("disembargo", 0)>>)
    \o Case("which", {7}, <<Pointer("obsoleteSave", 0)>>)
    \o Case("which", {9}, <<Pointer("obsoleteDelete", 0)>>)
    \o Case("which", {10}, <<Pointer("provide", 0)>>)
    \o Case("which", {11}, <<Pointer("accept", 0)>>)
    \o Case("which", {12}, <<Pointer("join", 0)>>))

Bootstrap ==
  Struct(8, 1, {},
    <<U32("questionId", 0), Pointer("deprecatedObjectId", 0)>>)

Call ==
  Struct(24, 3, {},
    <<U32("questionId", 0), Pointer("target", 0), U64("interfaceId", 8),
      U16("methodId", 4), Flag("allowThirdPartyTailCall", 128),
      Flag("noPromisePipelining", 129), Flag("onlyPromisePipeline", 130),
      Pointer("params", 1), Tag("sendResultsTo_which", 6)>>
    \o Case("sendResultsTo_which", {2},
        <<Pointer("sendResultsTo.thirdParty", 2)>>))

Return ==
  Struct(16, 1, {},
    <<U32("answerId", 0), FlagDefault("releaseParamCaps", 32, 1),
      Flag("noFinishNeeded", 33), Tag("which", 6)>>
    \o Case("which", {4}, <<U32("takeFromOtherQuestion", 8)>>)
    \o Case("which", {0}, <<Pointer("results", 0)>>)
    \o Case("which", {1}, <<Pointer("exception", 0)>>)
    \o Case("which", {5}, <<Pointer("acceptFromThirdParty", 0)>>))

Finish ==
  Struct(8, 0, {},
    <<U32("questionId", 0), FlagDefault("releaseResultCaps", 32, 1),
      FlagDefault("requireEarlyCancellationWorkaround", 33, 1)>>)

Resolve ==
  Struct(8, 1, {},
    <<U32("promiseId", 0), Tag("which", 4)>>
    \o Case("which", {0}, <<Pointer("cap", 0)>>)
    \o Case("which", {1}, <<Pointer("exception", 0)>>))

Release == Struct(8, 0, {}, <<U32("id", 0), U32("referenceCount", 4)>>)

Disembargo ==
  Struct(8, 1, {},
    <<Pointer("target", 0), Tag("context_which", 4)>>
    \o Case("context_which", {0}, <<U32("context.senderLoopback", 0)>>)
    \o Case("context_which", {1}, <<U32("context.receiverLoopback", 0)>>)
    \o Case("context_which", {3}, <<U32("context.provide", 0)>>))

Provide ==
  Struct(8, 2, {},
    <<U32("questionId", 0), Pointer("target", 0), Pointer("recipient", 1)>>)

Accept ==
  Struct(8, 1, {},
    <<U32("questionId", 0), Pointer("provision", 0), Flag("embargo", 32)>>)

Join ==
  Struct(8, 2, {},
    <<U32("questionId", 0), Pointer("target", 0), Pointer("keyPart", 1)>>)

MessageTarget ==
  Struct(8, 1, {},
    <<Tag("which", 4)>>
    \o Case("which", {0}, <<U32("importedCap", 0)>>)
    \o Case("which", {1}, <<Pointer("promisedAnswer", 0)>>))

Payload == Struct(0, 2, {}, <<Pointer("content", 0), Pointer("capTable", 1)>>)

CapDescriptor ==
  Struct(8, 1, {},
    <<Tag("which", 0)>>
    \o Case("which", {1}, <<U32("senderHosted", 4)>>)
    \o Case("which", {2}, <<U32("senderPromise", 4)>>)
    \o Case("which", {3}, <<U32("receiverHosted", 4)>>)
    \o Case("which", {4}, <<Pointer("receiverAnswer", 0)>>)
    \o Case("which", {5}, <<Pointer("thirdPartyHosted", 0)>>)
    \o <<IntDefault("attachedFd", 2, <<255>>)>>)

PromisedAnswer ==
  Struct(8, 1, {},
    <<U32("questionId", 0), Pointer("transform", 0)>>)

PromisedAnswer_Op ==
  Struct(8, 0, {},
    <<Tag("which", 0)>>
    \o Case("which", {1}, <<U16("getPointerField", 2)>>))

ThirdPartyCapDescriptor ==
  Struct(8, 1, {},
    <<Pointer("id", 0), U32("vineId", 0)>>)

Exception ==
  Struct(8, 2, {},
    <<Text("reason", 0), U16("type", 4), Flag("obsoleteIsCallersFault", 0),
      U16("obsoleteDurability", 2), Text("trace", 1)>>)

-----------------------------------------------------------------------------
\* The structs of this file.
Structs ==
  {Message, Bootstrap, Call, Return, Finish, Resolve, Release, Disembargo,
   Provide, Accept, Join, MessageTarget, Payload, CapDescriptor,
   PromisedAnswer, PromisedAnswer_Op, ThirdPartyCapDescriptor, Exception}

=============================================================================
