----------------------------- MODULE MCReflect ------------------------------
(* Model checking Reflect: the struct of the header and two of bit fields.   *)
EXTENDS Reflect

\* Two fields share an unsigned container and two a narrow signed one; a
\* field that fills its word.
Packed ==
  [fieldinfo |-> <<FieldMetadata("lo", "uint", 1, {"BIT"}, 0, 2, 0),
                   FieldMetadata("hi", "uint", 1, {"BIT"}, 2, 2, 0),
                   FieldMetadata("tiny", "int8_t", 2, {"BIT"}, 0, 1, 0),
                   FieldMetadata("top", "int8_t", 2, {"BIT"}, 1, 1, 0),
                   FieldMetadata("small", "uchar", 3, {}, 0, 0, 0),
                   FieldMetadata("full", "ushort", 4, {"BIT"}, 0, 4, 0),
                   FieldMetadata("count", "uint", 5, {}, 0, 0, 0)>>,
   enuminfo |-> <<>>]

\* A field of an int that may get negative numbers lies below an enum.
Flags ==
  [fieldinfo |-> <<FieldMetadata("gain", "int", 1, {"BIT"}, 0, 1, 0),
                   FieldMetadata("mode", "int", 1, {"ENUM", "BIT"}, 1, 2, 3)>>,
   enuminfo |-> Test.enuminfo]

MCBits == [int |-> 4, uint |-> 4, short |-> 4, ushort |-> 4, int8_t |-> 3, uchar |-> 3]
MCDoubles == -16 .. 31
MCStructs == {Test, Packed, Flags}
MCTexts == {<<"-1">>, <<"2">>, <<"5">>, <<"12">>, <<"in">>, <<"yes">>}
MCSegments == {<<"2">>, <<"12">>}

=============================================================================
