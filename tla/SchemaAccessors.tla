--------------------------- MODULE SchemaAccessors --------------------------
(***************************************************************************)
(* The schema as the compiler is given it: the accessors in                *)
(* compiler/schema.capnp.c, for each struct its bytes of data, its         *)
(* pointers, the members that have getters and setters of their own, and   *)
(* all its members in the order of the program.                            *)
(***************************************************************************)
EXTENDS Accessors

Node ==
  Struct(40, 6, 1..8,
    <<U64("id", 0), Text("displayName", 0), U32("displayNamePrefixLength", 8),
      U64("scopeId", 16), Pointer("parameters", 5), Flag("isGeneric", 288),
      Pointer("nestedNodes", 1), Pointer("annotations", 2), Tag("which", 12)>>
    \o Case("which", {1},
        <<U16("_struct.dataWordCount", 14), U16("_struct.pointerCount", 24),
          U16("_struct.preferredListEncoding", 26),
          Flag("_struct.isGroup", 224), U16("_struct.discriminantCount", 30),
          U32("_struct.discriminantOffset", 32), Pointer("_struct.fields", 3)>>)
    \o Case("which", {2}, <<Pointer("_enum.enumerants", 3)>>)
    \o Case("which", {3},
        <<Pointer("_interface.methods", 3),
          Pointer("_interface.superclasses", 4)>>)
    \o Case("which", {4},
        <<Pointer("_const.type", 3), Pointer("_const.value", 4)>>)
    \o Case("which", {5},
        <<Pointer("annotation.type", 3), Flag("annotation.targetsFile", 112),
          Flag("annotation.targetsConst", 113),
          Flag("annotation.targetsEnum", 114),
          Flag("annotation.targetsEnumerant", 115),
          Flag("annotation.targetsStruct", 116),
          Flag("annotation.targetsField", 117),
          Flag("annotation.targetsUnion", 118),
          Flag("annotation.targetsGroup", 119),
          Flag("annotation.targetsInterface", 120),
          Flag("annotation.targetsMethod", 121),
          Flag("annotation.targetsParam", 122),
          Flag("annotation.targetsAnnotation", 123)>>))

Node_Parameter == Struct(0, 1, 1..1, <<Text("name", 0)>>)

Node_NestedNode == Struct(8, 1, 1..2, <<Text("name", 0), U64("id", 0)>>)

Field ==
  Struct(24, 4, 1..4,
    <<Text("name", 0), U16("codeOrder", 0), Pointer("annotations", 1),
      IntDefault("discriminantValue", 2, <<255, 255>>), Tag("which", 8)>>
    \o Case("which", {0},
        <<U32("slot.offset", 4), Pointer("slot.type", 2),
          Pointer("slot.defaultValue", 3), Flag("slot.hadExplicitDefault", 128)>>)
    \o Case("which", {1}, <<U64("group.typeId", 16)>>)
    \o <<Tag("ordinal_which", 10)>>
    \o Case("ordinal_which", {1}, <<U16("ordinal._explicit", 12)>>))

Enumerant ==
  Struct(8, 2, 1..3,
    <<Text("name", 0), U16("codeOrder", 0), Pointer("annotations", 1)>>)

Superclass == Struct(8, 1, 1..2, <<U64("id", 0), Pointer("brand", 0)>>)

Method ==
  Struct(24, 5, 1..8,
    <<Text("name", 0), U16("codeOrder", 0), Pointer("implicitParameters", 4),
      U64("paramStructType", 8), Pointer("paramBrand", 2),
      U64("resultStructType", 16), Pointer("resultBrand", 3),
      Pointer("annotations", 1)>>)

Type ==
  Struct(24, 1, {},
    <<Tag("which", 0)>>
    \o Case("which", {14}, <<Pointer("_list.elementType", 0)>>)
    \o Case("which", {15},
        <<U64("_enum.typeId", 8), Pointer("_enum.brand", 0)>>)
    \o Case("which", {16},
        <<U64("_struct.typeId", 8), Pointer("_struct.brand", 0)>>)
    \o Case("which", {17},
        <<U64("_interface.typeId", 8), Pointer("_interface.brand", 0)>>)
    \o Case("which", {18},
        <<Tag("anyPointer.which", 8)>>
        \o Case("anyPointer.which", {1},
            <<U64("anyPointer.parameter.scopeId", 16),
              U16("anyPointer.parameter.parameterIndex", 10)>>)
        \o Case("anyPointer.which", {2},
            <<U16("anyPointer.implicitMethodParameter.parameterIndex", 10)>>)))

Brand == Struct(0, 1, 1..1, <<Pointer("scopes", 0)>>)

Brand_Scope ==
  Struct(16, 1, 1..1,
    <<U64("scopeId", 0), Tag("which", 8)>>
    \o Case("which", {0}, <<Pointer("bind", 0)>>))

Brand_Binding ==
  Struct(8, 1, {},
    <<Tag("which", 0)>>
    \o Case("which", {1}, <<Pointer("type", 0)>>))

Value ==
  Struct(16, 1, {},
    <<Tag("which", 0)>>
    \o Case("which", {1}, <<Flag("_bool", 16)>>)
    \o Case("which", {2, 6}, <<U8("uint8", 2)>>)
    \o Case("which", {3, 7, 15}, <<U16("_enum", 2)>>)
    \o Case("which", {4, 8, 10}, <<U32("float32", 4)>>)
    \o Case("which", {5, 9, 11}, <<U64("float64", 8)>>)
    \o Case("which", {12}, <<Text("text", 0)>>)
    \o Case("which", {13}, <<Pointer("data", 0)>>)
    \o Case("which", {14, 16, 18}, <<Pointer("anyPointer", 0)>>))

Annotation ==
  Struct(8, 2, 1..3,
    <<U64("id", 0), Pointer("brand", 1), Pointer("value", 0)>>)

CodeGeneratorRequest ==
  Struct(0, 2, 1..2,
    <<Pointer("nodes", 0), Pointer("requestedFiles", 1)>>)

CodeGeneratorRequest_RequestedFile ==
  Struct(8, 2, 1..3,
    <<U64("id", 0), Text("filename", 0), Pointer("imports", 1)>>)

CodeGeneratorRequest_RequestedFile_Import ==
  Struct(8, 1, 1..2,
    <<U64("id", 0), Text("name", 0)>>)

-----------------------------------------------------------------------------
\* The structs of this file.
Structs ==
  {Node, Node_Parameter, Node_NestedNode, Field, Enumerant, Superclass, Method,
   Type, Brand, Brand_Scope, Brand_Binding, Value, Annotation,
   CodeGeneratorRequest, CodeGeneratorRequest_RequestedFile,
   CodeGeneratorRequest_RequestedFile_Import}

=============================================================================
