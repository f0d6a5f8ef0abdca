---------------------------- MODULE TestAccessors ---------------------------
(***************************************************************************)
(* Structs of every shape, those of the schema the tests use: the          *)
(* accessors in compiler/test.capnp.c, for each struct its bytes of data,  *)
(* its pointers, the members that have getters and setters of their own,   *)
(* and all its members in the order of the program.                        *)
(***************************************************************************)
EXTENDS Accessors

TestAllTypes ==
  Struct(48, 21, 1..33,
    <<Flag("boolField", 0), U8("int8Field", 1), U16("int16Field", 2),
      U32("int32Field", 4), U64("int64Field", 8), U8("uInt8Field", 16),
      U16("uInt16Field", 18), U32("uInt32Field", 20), U64("uInt64Field", 24),
      U32("float32Field", 32), U64("float64Field", 40), Text("textField", 0),
      Pointer("dataField", 1), Pointer("structField", 2), U16("enumField", 36),
      Pointer("interfaceField", 3), Pointer("voidList", 4),
      Pointer("boolList", 5), Pointer("int8List", 6), Pointer("int16List", 7),
      Pointer("int32List", 8), Pointer("int64List", 9),
      Pointer("uInt8List", 10), Pointer("uInt16List", 11),
      Pointer("uInt32List", 12), Pointer("uInt64List", 13),
      Pointer("float32List", 14), Pointer("float64List", 15),
      Pointer("textList", 16), Pointer("dataList", 17),
      Pointer("structList", 18), Pointer("enumList", 19),
      Pointer("interfaceList", 20)>>)

TestDefaults ==
  Struct(48, 21, 1..33,
    <<FlagDefault("boolField", 0, 1), IntDefault("int8Field", 1, <<133>>),
      IntDefault("int16Field", 2, <<199, 207>>),
      IntDefault("int32Field", 4, <<178, 158, 67, 255>>),
      IntDefault("int64Field", 8, <<135, 32, 242, 121, 183, 143, 255, 255>>),
      IntDefault("uInt8Field", 16, <<234>>),
      IntDefault("uInt16Field", 18, <<110, 178>>),
      IntDefault("uInt32Field", 20, <<20, 106, 10, 206>>),
      IntDefault("uInt64Field", 24, <<210, 10, 31, 235, 140, 169, 84, 171>>),
      IntDefault("float32Field", 32, <<0, 80, 154, 68>>),
      IntDefault("float64Field", 40, <<0, 187, 224, 192, 130, 139, 181, 201>>),
      TextDefault("textField", 0), PointerDefault("dataField", 1),
      PointerDefault("structField", 2), IntDefault("enumField", 36, <<5, 0>>),
      Pointer("interfaceField", 3), PointerDefault("voidList", 4),
      PointerDefault("boolList", 5), PointerDefault("int8List", 6),
      PointerDefault("int16List", 7), PointerDefault("int32List", 8),
      PointerDefault("int64List", 9), PointerDefault("uInt8List", 10),
      PointerDefault("uInt16List", 11), PointerDefault("uInt32List", 12),
      PointerDefault("uInt64List", 13), PointerDefault("float32List", 14),
      PointerDefault("float64List", 15), PointerDefault("textList", 16),
      PointerDefault("dataList", 17), PointerDefault("structList", 18),
      PointerDefault("enumList", 19), Pointer("interfaceList", 20)>>)

TestOutOfOrder ==
  Struct(0, 9, 1..9,
    <<Text("foo", 3), Text("bar", 2), Text("baz", 8), Text("qux", 0),
      Text("quux", 6), Text("corge", 4), Text("grault", 1), Text("garply", 7),
      Text("waldo", 5)>>)

TestUnion ==
  Struct(64, 2, {14, 34, 35, 36, 37, 38, 39, 52},
    <<Tag("union0_which", 0)>>
    \o Case("union0_which", {1}, <<Flag("union0.u0f0s1", 64)>>)
    \o Case("union0_which", {8}, <<Flag("union0.u0f1s1", 64)>>)
    \o Case("union0_which", {2}, <<U8("union0.u0f0s8", 8)>>)
    \o Case("union0_which", {9}, <<U8("union0.u0f1s8", 8)>>)
    \o Case("union0_which", {3}, <<U16("union0.u0f0s16", 8)>>)
    \o Case("union0_which", {10}, <<U16("union0.u0f1s16", 8)>>)
    \o Case("union0_which", {4}, <<U32("union0.u0f0s32", 8)>>)
    \o Case("union0_which", {11}, <<U32("union0.u0f1s32", 8)>>)
    \o Case("union0_which", {5}, <<U64("union0.u0f0s64", 8)>>)
    \o Case("union0_which", {12}, <<U64("union0.u0f1s64", 8)>>)
    \o Case("union0_which", {6}, <<Text("union0.u0f0sp", 0)>>)
    \o Case("union0_which", {13}, <<Text("union0.u0f1sp", 0)>>)
    \o <<Flag("bit0", 128), Tag("union1_which", 2)>>
    \o Case("union1_which", {1}, <<Flag("union1.u1f0s1", 129)>>)
    \o Case("union1_which", {2}, <<Flag("union1.u1f1s1", 129)>>)
    \o Case("union1_which", {14}, <<Flag("union1.u1f2s1", 129)>>)
    \o Case("union1_which", {3}, <<U8("union1.u1f0s8", 17)>>)
    \o Case("union1_which", {4}, <<U8("union1.u1f1s8", 17)>>)
    \o Case("union1_which", {15}, <<U8("union1.u1f2s8", 17)>>)
    \o Case("union1_which", {5}, <<U16("union1.u1f0s16", 18)>>)
    \o Case("union1_which", {6}, <<U16("union1.u1f1s16", 18)>>)
    \o Case("union1_which", {16}, <<U16("union1.u1f2s16", 18)>>)
    \o Case("union1_which", {7}, <<U32("union1.u1f0s32", 20)>>)
    \o Case("union1_which", {8}, <<U32("union1.u1f1s32", 20)>>)
    \o Case("union1_which", {17}, <<U32("union1.u1f2s32", 20)>>)
    \o Case("union1_which", {9}, <<U64("union1.u1f0s64", 24)>>)
    \o Case("union1_which", {10}, <<U64("union1.u1f1s64", 24)>>)
    \o Case("union1_which", {18}, <<U64("union1.u1f2s64", 24)>>)
    \o Case("union1_which", {11}, <<Text("union1.u1f0sp", 1)>>)
    \o Case("union1_which", {12}, <<Text("union1.u1f1sp", 1)>>)
    \o Case("union1_which", {19}, <<Text("union1.u1f2sp", 1)>>)
    \o <<Flag("bit2", 130), Flag("bit3", 131), Flag("bit4", 132),
      Flag("bit5", 133), Flag("bit6", 134), Flag("bit7", 135),
      Tag("union2_which", 4)>>
    \o Case("union2_which", {0}, <<Flag("union2.u2f0s1", 256)>>)
    \o Case("union2_which", {1}, <<U8("union2.u2f0s8", 33)>>)
    \o Case("union2_which", {2}, <<U16("union2.u2f0s16", 36)>>)
    \o Case("union2_which", {3}, <<U32("union2.u2f0s32", 40)>>)
    \o Case("union2_which", {4}, <<U64("union2.u2f0s64", 48)>>)
    \o <<Tag("union3_which", 6)>>
    \o Case("union3_which", {0}, <<Flag("union3.u3f0s1", 257)>>)
    \o Case("union3_which", {1}, <<U8("union3.u3f0s8", 34)>>)
    \o Case("union3_which", {2}, <<U16("union3.u3f0s16", 38)>>)
    \o Case("union3_which", {3}, <<U32("union3.u3f0s32", 44)>>)
    \o Case("union3_which", {4}, <<U64("union3.u3f0s64", 56)>>)
    \o <<U8("byte0", 35)>>)

TestUnnamedUnion ==
  Struct(16, 2, 1..1,
    <<Text("before", 0), Tag("which", 4)>>
    \o Case("which", {0}, <<U16("foo", 0)>>)
    \o Case("which", {1}, <<U32("bar", 8)>>)
    \o <<U16("middle", 2), Text("after", 1)>>)

TestUnionInUnion ==
  Struct(16, 0, {},
    <<Tag("outer_which", 8)>>
    \o Case("outer_which", {1}, <<U32("outer.baz", 0)>>)
    \o Case("outer_which", {0},
        <<Tag("outer.inner.which", 4)>>
        \o Case("outer.inner.which", {0}, <<U32("outer.inner.foo", 0)>>)
        \o Case("outer.inner.which", {1}, <<U32("outer.inner.bar", 0)>>)))

TestGroups ==
  Struct(16, 2, {},
    <<Tag("groups_which", 4)>>
    \o Case("groups_which", {0},
        <<U32("groups.foo.corge", 0), U64("groups.foo.grault", 8),
          Text("groups.foo.garply", 0)>>)
    \o Case("groups_which", {2},
        <<U32("groups.bar.corge", 0), Text("groups.bar.grault", 0),
          U64("groups.bar.garply", 8)>>)
    \o Case("groups_which", {1},
        <<U32("groups.baz.corge", 0), Text("groups.baz.grault", 0),
          Text("groups.baz.garply", 1)>>))

TestInterleavedGroups ==
  Struct(48, 6, {},
    <<U32("group1.foo", 0), U64("group1.bar", 8), Tag("group1.which", 28)>>
    \o Case("group1.which", {0}, <<U16("group1.qux", 24)>>)
    \o Case("group1.which", {2}, <<Text("group1.fred", 2)>>)
    \o Case("group1.which", {1},
        <<U64("group1.corge.grault", 32), U16("group1.corge.garply", 24),
          Text("group1.corge.plugh", 2), Text("group1.corge.xyzzy", 4)>>)
    \o <<Text("group1.waldo", 0), U32("group2.foo", 4), U64("group2.bar", 16),
      Tag("group2.which", 30)>>
    \o Case("group2.which", {0}, <<U16("group2.qux", 26)>>)
    \o Case("group2.which", {2}, <<Text("group2.fred", 3)>>)
    \o Case("group2.which", {1},
        <<U64("group2.corge.grault", 40), U16("group2.corge.garply", 26),
          Text("group2.corge.plugh", 3), Text("group2.corge.xyzzy", 5)>>)
    \o <<Text("group2.waldo", 1)>>)

TestUnionDefaults ==
  Struct(0, 4, 1..4,
    <<PointerDefault("s16s8s64s8Set", 0), PointerDefault("s0sps1s32Set", 1),
      PointerDefault("unnamed1", 2), PointerDefault("unnamed2", 3)>>)

TestNestedTypes ==
  Struct(8, 1, 1..3,
    <<Pointer("nestedStruct", 0), IntDefault("outerNestedEnum", 0, <<1, 0>>),
      IntDefault("innerNestedEnum", 2, <<2, 0>>)>>)

TestLists ==
  Struct(0, 10, 1..10,
    <<Pointer("list0", 0), Pointer("list1", 1), Pointer("list8", 2),
      Pointer("list16", 3), Pointer("list32", 4), Pointer("list64", 5),
      Pointer("listP", 6), Pointer("int32ListList", 7),
      Pointer("textListList", 8), Pointer("structListList", 9)>>)

TestLists_Struct1 == Struct(8, 0, 1..1, <<Flag("f", 0)>>)

TestLists_Struct8 == Struct(8, 0, 1..1, <<U8("f", 0)>>)

TestLists_Struct16 == Struct(8, 0, 1..1, <<U16("f", 0)>>)

TestLists_Struct32 == Struct(8, 0, 1..1, <<U32("f", 0)>>)

TestLists_Struct64 == Struct(8, 0, 1..1, <<U64("f", 0)>>)

TestLists_StructP == Struct(0, 1, 1..1, <<Text("f", 0)>>)

TestLists_Struct1c == Struct(8, 1, 1..2, <<Flag("f", 0), Text("pad", 0)>>)

TestLists_Struct8c == Struct(8, 1, 1..2, <<U8("f", 0), Text("pad", 0)>>)

TestLists_Struct16c == Struct(8, 1, 1..2, <<U16("f", 0), Text("pad", 0)>>)

TestLists_Struct32c == Struct(8, 1, 1..2, <<U32("f", 0), Text("pad", 0)>>)

TestLists_Struct64c == Struct(8, 1, 1..2, <<U64("f", 0), Text("pad", 0)>>)

TestLists_StructPc == Struct(8, 1, 1..2, <<Text("f", 0), U64("pad", 0)>>)

TestFieldZeroIsBit ==
  Struct(8, 0, 1..3,
    <<Flag("bit", 0), FlagDefault("secondBit", 1, 1),
      IntDefault("thirdField", 1, <<123>>)>>)

TestLateUnion ==
  Struct(24, 3, 1..3,
    <<U32("foo", 0), Text("bar", 0), U16("baz", 4), Tag("theUnion_which", 6)>>
    \o Case("theUnion_which", {2}, <<U32("theUnion.grault", 8)>>)
    \o Case("theUnion_which", {0}, <<Text("theUnion.qux", 1)>>)
    \o Case("theUnion_which", {1}, <<Pointer("theUnion.corge", 1)>>)
    \o <<Tag("anotherUnion_which", 12)>>
    \o Case("anotherUnion_which", {2}, <<U32("anotherUnion.grault", 16)>>)
    \o Case("anotherUnion_which", {0}, <<Text("anotherUnion.qux", 2)>>)
    \o Case("anotherUnion_which", {1}, <<Pointer("anotherUnion.corge", 2)>>))

TestOldVersion ==
  Struct(8, 2, 1..3,
    <<U64("old1", 0), Text("old2", 0), Pointer("old3", 1)>>)

TestNewVersion ==
  Struct(16, 3, 1..5,
    <<U64("old1", 0), Text("old2", 0), Pointer("old3", 1),
      IntDefault("new1", 8, <<219, 3, 0, 0, 0, 0, 0, 0>>),
      TextDefault("new2", 2)>>)

TestStructUnion ==
  Struct(8, 1, {},
    <<Tag("un_which", 0)>>
    \o Case("un_which", {0}, <<Pointer("un._struct", 0)>>)
    \o Case("un_which", {1}, <<Pointer("un.object", 0)>>))

TestWholeFloatDefault ==
  Struct(8, 0, 1..2,
    <<IntDefault("field", 0, <<0, 0, 246, 66>>),
      IntDefault("bigField", 4, <<202, 242, 201, 113>>)>>)

-----------------------------------------------------------------------------
\* The structs of this file.
Structs ==
  {TestAllTypes, TestDefaults, TestOutOfOrder, TestUnion, TestUnnamedUnion,
   TestUnionInUnion, TestGroups, TestInterleavedGroups, TestUnionDefaults,
   TestNestedTypes, TestLists, TestLists_Struct1, TestLists_Struct8,
   TestLists_Struct16, TestLists_Struct32, TestLists_Struct64,
   TestLists_StructP, TestLists_Struct1c, TestLists_Struct8c,
   TestLists_Struct16c, TestLists_Struct32c, TestLists_Struct64c,
   TestLists_StructPc, TestFieldZeroIsBit, TestLateUnion, TestOldVersion,
   TestNewVersion, TestStructUnion, TestWholeFloatDefault}

=============================================================================
