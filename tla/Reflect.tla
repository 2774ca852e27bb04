------------------------------ MODULE Reflect -------------------------------
(***************************************************************************)
(* Reflected structs: ParaseToType (reflect/reflect.h) reads texts into    *)
(* the members that fieldinfo describes, XMLProcess writes them back and   *)
(* TBundle collects texts by member name.  A struct is a sequence of       *)
(* members; several bit fields may share the container at one offset.      *)
(* A text is a sequence of strings, a number's digits being one of them.   *)
(* "%1".arg(double) shows six digits in the code and one here.  char       *)
(* members and float, a type string_data does not know, are left out.      *)
(* The names have a prefix where StoreProofs reads another module with the *)
(* same ones.                                                              *)
(***************************************************************************)
EXTENDS BitField, Sequences, TLC

CONSTANTS
  Bits,        \* the width of each integer type
  Doubles,     \* the numbers a text may stand for, as many as a double has
  Structs,     \* records of fieldinfo and enuminfo
  Texts,       \* texts an element, a bundle or a caller brings
  Segments,    \* texts behind the '=' of a segment
  CopySizes,   \* the sizes read_xml_data is told to copy
  Unknown,     \* a value the code leaves open
  MaxCalls,    \* bound: calls
  MaxText      \* bound: length of a string that is appended to

VARIABLES
  struct,      \* the struct of this program, never changed
  mem,         \* per object: the containers by offset
  bundle,      \* TBundle::m_data, as texts
  doc,         \* the elements written, each with the members it was written from
  want,        \* history: the value each member should have, or Unknown
  calls

reflectVars == <<struct, mem, bundle, doc, want, calls>>

Objects == {"t", "add"}

\* The last argument names the enum a member draws from, for the properties:
\* the code looks a name up in all of them.
FieldMetadata(name, type, offset, stype, bit, btsize, node) ==
  [m_name |-> name, m_type |-> type, m_offset |-> offset, m_stype |-> stype,
   m_bit |-> bit, m_bitSize |-> btsize, node |-> node]
enumpara(node, name, val) == [m_node |-> node, m_name |-> name, m_val |-> val]

\* The struct of the header itself.
Test ==
  [fieldinfo |-> <<FieldMetadata("a", "int", 1, {}, 0, 0, 0),
                   FieldMetadata("b", "double", 2, {}, 0, 0, 0),
                   FieldMetadata("c", "string", 3, {}, 0, 0, 0),
                   FieldMetadata("d", "int", 4, {"ENUM"}, 0, 0, 3)>>,
   enuminfo |-> <<enumpara(3, "open", 0), enumpara(3, "out", 1), enumpara(3, "in", 2),
                  enumpara(3, "freq", 3), enumpara(3, "state", 4),
                  enumpara(4, "yes", 1), enumpara(4, "no", 0)>>]

-----------------------------------------------------------------------------

IntTypes == {"int", "uint", "short", "ushort", "int8_t", "uchar"}
Signed(type) == type \in {"int", "short", "int8_t"}
IsBit(m) == "BIT" \in m.m_stype
IsEnum(m) == "ENUM" \in m.m_stype

\* 2 to the n: the prover has no laws of ^, and proves those of a recursion.
Power[n \in Nat] == IF n = 0 THEN 1 ELSE 2 * Power[n - 1]

Numbers(type) ==
  IF type = "double" THEN Doubles
  ELSE IF Signed(type) THEN -(Power[Bits[type] - 1]) .. Power[Bits[type] - 1] - 1
  ELSE 0 .. Power[Bits[type]] - 1

\* A number in the low bits of a word, and the number of the type in a word.
Truncated(type, n) == [i \in 0 .. Bits[type] - 1 |-> (n \div Power[i]) % 2]
NumberIn(type, w) == CHOOSE n \in Numbers(type) : Truncated(type, n) = w

Digits(n) == ToString(n)
NumberOf == [s \in {Digits(n) : n \in Doubles} |-> CHOOSE n \in Doubles : Digits(n) = s]
IsNumber(text) == Len(text) = 1 /\ text[1] \in DOMAIN NumberOf

\* Different numbers have different digits; a short is no narrower than an
\* int8_t, which is read as one.
ASSUME ReflectAssumption ==
  /\ Bits \in [IntTypes -> Nat \ {0}]
  /\ Bits["int8_t"] <= Bits["short"] /\ Bits["uchar"] <= Bits["ushort"]
  /\ Doubles \subseteq Int /\ \A type \in IntTypes : Numbers(type) \subseteq Doubles
  /\ \A n, k \in Doubles : Digits(n) = Digits(k) => n = k

Fields(m) == Field(m.m_bit, m.m_bitSize)

\* What the declarations of a struct say of it: members are named apart
\* and have containers of their own, but that bit fields of one type share
\* one without an overlap; an enumerator is a number of its members' type.
WellFormed(s) ==
  LET members == {s.fieldinfo[k] : k \in DOMAIN s.fieldinfo}
      enums   == {s.enuminfo[k] : k \in DOMAIN s.enuminfo}
  IN  /\ s.fieldinfo \in Seq(members) /\ s.enuminfo \in Seq(enums)
      /\ \A j, k \in DOMAIN s.fieldinfo :
           s.fieldinfo[j].m_name = s.fieldinfo[k].m_name => j = k
      /\ \A m \in members :
           /\ m.m_type \in IntTypes \cup {"double", "string"} /\ m.m_offset \in Nat
           /\ IsBit(m) => /\ m.m_type \in IntTypes
                          /\ m.m_bit \in Nat /\ m.m_bitSize \in Nat \ {0}
                          /\ m.m_bit + m.m_bitSize <= Bits[m.m_type]
           /\ IsEnum(m) => m.m_type # "string"
      /\ \A g, m \in members : g # m /\ g.m_offset = m.m_offset =>
           IsBit(g) /\ IsBit(m) /\ g.m_type = m.m_type /\ Fields(g) \cap Fields(m) = {}
      /\ \A e \in enums :
           /\ e.m_val \in Nat
           /\ \A m \in members : IsEnum(m) /\ e.m_node = m.node => e.m_val \in Numbers(m.m_type)
           /\ \A f \in enums : e.m_node = f.m_node /\ e.m_name = f.m_name => e = f

ASSUME StructAssumption == \A s \in Structs : WellFormed(s)

\* QString::toInt, toUInt, toShort, toUShort, toDouble: 0 for a text that
\* is no number of the type.
ToNumber(type, text) ==
  IF IsNumber(text) /\ NumberOf[text[1]] \in Numbers(type) THEN NumberOf[text[1]] ELSE 0

\* int8_t and uchar are read as short and ushort and cut.
ReadAs(type) == IF type = "int8_t" THEN "short" ELSE IF type = "uchar" THEN "ushort" ELSE type

\* get_enum_data: the first enumerator of that name, whatever its node; the
\* caller has put 0 for a name that is not there.
GetEnumData(text) ==
  LET found == {k \in DOMAIN struct.enuminfo : text = <<struct.enuminfo[k].m_name>>}
  IN  IF found = {} THEN 0
      ELSE struct.enuminfo[CHOOSE k \in found : \A j \in found : k <= j].m_val

NumberRead(m, text) ==
  IF IsEnum(m) THEN GetEnumData(text) ELSE ToNumber(ReadAs(m.m_type), text)

StringToData(m, text, old) ==
  LET va == Truncated(m.m_type, NumberRead(m, text))
  IN  IF IsBit(m)
      THEN BitOpcSet(Bits[m.m_type], old, m.m_bit, m.m_bitSize, va, Signed(m.m_type))
      ELSE va

\* A double cannot be a bit field: -2, which string_data does not pass on.
StringToDouble(m, text, old) ==
  IF IsBit(m) THEN old ELSE NumberRead(m, text)

StringData(m, text, old) ==
  CASE m.m_type \in DOMAIN Bits -> StringToData(m, text, old)
    [] m.m_type = "double"      -> StringToDouble(m, text, old)
    [] m.m_type = "string"      -> text

\* The containers after the members named in `given` are read, in the order
\* of fieldinfo, a member's text being given[its name].
ReadAll(cells, given) ==
  LET after[k \in 0 .. Len(struct.fieldinfo)] ==
        IF k = 0 THEN cells
        ELSE LET m == struct.fieldinfo[k]
             IN  IF m.m_name \in DOMAIN given
                 THEN [after[k - 1] EXCEPT ![m.m_offset] = StringData(m, given[m.m_name], @)]
                 ELSE after[k - 1]
  IN  after[Len(struct.fieldinfo)]

-----------------------------------------------------------------------------
(* What a member should hold, member by member and without words.          *)

Members == {struct.fieldinfo[k] : k \in DOMAIN struct.fieldinfo}
Names == {m.m_name : m \in Members}

Value(cells, m) ==
  LET cell == cells[m.m_offset]
  IN  IF IsBit(m) THEN [i \in 0 .. m.m_bitSize - 1 |-> cell[m.m_bit + i]]
      ELSE IF m.m_type \in DOMAIN Bits THEN NumberIn(m.m_type, cell)
      ELSE cell

\* The number a text stands for, Unknown outside the type, 0 for no number;
\* Unknown if another enum has the name too, for the code takes the first.
NumberMeant(type, text) ==
  IF IsNumber(text) /\ NumberOf[text[1]] \notin Numbers(type) THEN Unknown
  ELSE ToNumber("double", text)

Meant(m, text) ==
  IF IsEnum(m)
  THEN LET named == {e \in {struct.enuminfo[k] : k \in DOMAIN struct.enuminfo} :
                       text = <<e.m_name>>}
       IN  IF named = {} THEN 0
           ELSE IF \E e \in named : e.m_node # m.node THEN Unknown
           ELSE (CHOOSE e \in named : TRUE).m_val
  ELSE NumberMeant(m.m_type, text)

\* A field takes a number of its size; one that fills its word, or a signed
\* word but for the sign, takes none.
Fits(m, n) ==
  /\ n < Power[m.m_bitSize]
  /\ m.m_bitSize < Bits[m.m_type] - IF Signed(m.m_type) THEN 1 ELSE 0

\* A bit field keeps its value when the number does not fit it.
Wanted(m, text, old) ==
  IF m.m_type = "string" THEN text
  ELSE IF Meant(m, text) = Unknown \/ ~IsBit(m) THEN Meant(m, text)
  ELSE IF Meant(m, text) < 0 THEN Unknown
  ELSE IF Fits(m, Meant(m, text))
  THEN [i \in 0 .. m.m_bitSize - 1 |-> (Meant(m, text) \div Power[i]) % 2]
  ELSE old

\* A number that is negative in the word of a signed bit field fills the
\* fields above it with ones.
SpillsOn(g, m, text) ==
  /\ IsBit(g) /\ Signed(g.m_type) /\ g.m_offset = m.m_offset /\ g.m_bit < m.m_bit
  /\ NumberRead(g, text) % Power[Bits[g.m_type]] >= Power[Bits[g.m_type] - 1]

Spilled(m, given) ==
  IsBit(m) /\ \E g \in Members : g.m_name \in DOMAIN given /\ SpillsOn(g, m, given[g.m_name])

WantAfter(wanted, given) ==
  [m \in Members |-> IF Spilled(m, given) THEN Unknown
                     ELSE IF m.m_name \in DOMAIN given
                     THEN Wanted(m, given[m.m_name], wanted[m])
                     ELSE wanted[m]]

-----------------------------------------------------------------------------

Blank(u) ==
  [o \in {m.m_offset : m \in Members} |->
     LET m == CHOOSE m \in Members : m.m_offset = o
     IN  CASE m.m_type \in DOMAIN Bits -> [i \in 0 .. Bits[m.m_type] - 1 |-> u]
           [] m.m_type = "double"      -> u
           [] m.m_type = "string"      -> <<>>]

\* No member is initialised but the strings.
ReflectInit ==
  /\ struct \in Structs
  /\ \E u \in {0, 1} : mem = [x \in Objects |-> Blank(u)]
  /\ want = [x \in Objects |-> [m \in Members |-> IF m.m_type = "string" THEN <<>> ELSE Unknown]]
  /\ bundle = <<>> /\ doc = <<>> /\ calls = 0

Call == calls < MaxCalls /\ calls' = calls + 1 /\ UNCHANGED struct

\* The members named in `given` of one object are read in place.
ReadInto(x, given) ==
  /\ mem' = [mem EXCEPT ![x] = ReadAll(@, given)]
  /\ want' = [want EXCEPT ![x] = WantAfter(@, given)]
  /\ UNCHANGED <<bundle, doc>>

\* read_xml_data(t, leaguer, val): one member by its name, or none.
ReadMember(leaguer, val) == Call /\ ReadInto("t", leaguer :> val)

\* read_xml_data(t, element): an attribute that is missing reads as "".
Attributes(present, val) == [n \in Names |-> IF n \in present THEN val ELSE <<>>]
ReadElement(present, val) == Call /\ ReadInto("t", Attributes(present, val))
ReadWritten(k) == Call /\ ReadInto("t", doc[k].attr)

\* read_xml_data(element, add, size): into an object of its own, which is
\* not initialised, whose first bytes are copied; strings cannot be.
ReadCopy(present, val, u, size) ==
  /\ Call
  /\ \A m \in Members : m.m_type # "string"
  /\ LET given == Attributes(present, val)
         read  == ReadAll(Blank(u), given)
         fresh == WantAfter([m \in Members |-> Unknown], given)
     IN  /\ mem' = [mem EXCEPT !["add"] =
                      [o \in DOMAIN @ |-> IF o <= size THEN read[o] ELSE @[o]]]
         /\ want' = [want EXCEPT !["add"] =
                      [m \in Members |-> IF m.m_offset <= size THEN fresh[m] ELSE @[m]]]
  /\ UNCHANGED <<bundle, doc>>

\* TBundle::put, putString; putInt and putEnum store a number, which
\* toString turns into its digits.
Put(key, val) ==
  /\ Call
  /\ bundle' = (key :> val) @@ bundle
  /\ UNCHANGED <<mem, doc, want>>

\* set_bundle: the members the bundle has a text for.
SetBundle ==
  LET given == [n \in Names \cap DOMAIN bundle |-> bundle[n]]
  IN  Call /\ ReadInto("add", given)

-----------------------------------------------------------------------------
(* Structs of int, double and string only: Parase, set_val and get_val      *)
(* assert on any other type.                                               *)

Simple == \A m \in Members : m.m_type \in {"int", "double", "string"}

\* Members take the segments in turn, whatever name stands before the '=';
\* after the last one the search begins again.
Segment(segs, k) == segs[((k - 1) % Len(segs)) + 1]

CopyValueOnMemory(m, text, old) ==
  CASE m.m_type = "int"    -> Truncated("int", ToNumber("double", text))
    [] m.m_type = "double" -> ToNumber("double", text)
    [] m.m_type = "string" -> old \o text

Index(m) == CHOOSE k \in DOMAIN struct.fieldinfo : struct.fieldinfo[k] = m

\* The last member at an offset, whose number is the one that stays there.
LastAt(o) ==
  LET at == {k \in DOMAIN struct.fieldinfo : struct.fieldinfo[k].m_offset = o}
  IN  struct.fieldinfo[CHOOSE k \in at : \A j \in at : j <= k]

TextsFit(cells) ==
  \A o \in DOMAIN cells : LastAt(o).m_type = "string" => Len(cells[o]) <= MaxText

\* A bit field gets the whole word.
Parase(segs) ==
  /\ Call /\ Simple
  /\ mem' = [mem EXCEPT !["t"] =
       [o \in DOMAIN @ |->
          CopyValueOnMemory(LastAt(o), Segment(segs, Index(LastAt(o))), @[o])]]
  /\ TextsFit(mem'["t"])
  /\ want' = [want EXCEPT !["t"] =
       [m \in Members |->
          IF Index(m) > Len(segs) \/ IsBit(m) THEN Unknown
          ELSE IF m.m_type # "string" THEN NumberMeant(m.m_type, segs[Index(m)])
          ELSE IF @[m] = Unknown THEN Unknown ELSE @[m] \o segs[Index(m)]]]
  /\ UNCHANGED <<bundle, doc>>

\* set_val and get_val: numbers are copied, strings appended.
CopyVal(from, to) ==
  LET added(m, old, new) == IF m.m_type # "string" THEN new ELSE old \o new
  IN  /\ Call /\ Simple /\ from # to
      /\ mem' = [mem EXCEPT ![to] =
           [o \in DOMAIN @ |-> added(LastAt(o), @[o], mem[from][o])]]
      /\ TextsFit(mem'[to])
      /\ want' = [want EXCEPT ![to] =
           [m \in Members |-> IF Unknown \in {@[m], want[from][m]} /\ m.m_type = "string"
                              THEN Unknown ELSE added(m, @[m], want[from][m])]]
      /\ UNCHANGED <<bundle, doc>>

-----------------------------------------------------------------------------

\* "%1".arg of a double: so many digits, rounded.
Shown(n) == IF n < 10 THEN n ELSE ((n + 5) \div 10) * 10

\* Mutant of Attribute: one branch for all integers, that of int.
Attribute_int(m, cell) ==
  CASE m.m_type \in DOMAIN Bits ->
         LET asInt == [i \in 0 .. Bits["int"] - 1 |-> IF i \in DOMAIN cell THEN cell[i] ELSE 0]
         IN  <<Digits(NumberIn("int", asInt))>>
    [] m.m_type = "double"      -> <<Digits(Shown(cell))>>
    [] m.m_type = "string"      -> cell

\* write_xml_attribute: the whole container of a bit field, the number of an enum.
Attribute(m, cell) ==
  CASE m.m_type \in DOMAIN Bits -> <<Digits(NumberIn(m.m_type, cell))>>
    [] m.m_type = "double"      -> <<Digits(Shown(cell))>>
    [] m.m_type = "string"      -> cell

Written(x) ==
  [attr  |-> [n \in Names |-> LET m == CHOOSE m \in Members : m.m_name = n
                              IN  Attribute(m, mem[x][m.m_offset])],
   saved |-> mem[x]]

\* write_xml_doc of one object or of several.
WriteDoc(xs) ==
  /\ Call
  /\ doc' = [k \in DOMAIN xs |-> Written(xs[k])]
  /\ UNCHANGED <<mem, bundle, want>>

-----------------------------------------------------------------------------

Presents == {Names, Names \ {struct.fieldinfo[2].m_name}}

ReflectNext ==
  \/ \E n \in Names \cup {"other"}, v \in Texts : ReadMember(n, v) \/ Put(n, v)
  \/ \E D \in Presents, v \in Texts : ReadElement(D, v)
  \/ \E k \in DOMAIN doc : ReadWritten(k)
  \/ \E D \in Presents, v \in Texts, u \in {0, 1}, size \in CopySizes :
       ReadCopy(D, v, u, size)
  \/ SetBundle
  \/ \E n \in DOMAIN struct.fieldinfo : \E segs \in [1 .. n -> Segments] : Parase(segs)
  \/ CopyVal("t", "add") \/ CopyVal("add", "t")
  \/ \E xs \in {<<"t">>, <<"t", "add">>} : WriteDoc(xs)

ReflectSpec == ReflectInit /\ [][ReflectNext]_reflectVars

-----------------------------------------------------------------------------

\* Every member holds what the calls since should have made of it, although
\* bit fields share a container, texts may be wrong, too big or missing and
\* several calls write one object: a field leaves its neighbours alone, a
\* number that does not fit leaves the field alone, a bundle touches only
\* the members it names.  Unknown excuses what the code leaves open: a
\* number outside the type, a negative one in a bit field or below it, and
\* a name that another enum has.
MembersHold ==
  \A x \in Objects : \A m \in Members :
    want[x][m] # Unknown => Value(mem[x], m) = want[x][m]

\* What write_xml_attribute wrote reads back as it was, for every type but
\* a bit field, whose whole container is written, an enum, which is written
\* as a number and read as a name, and a double of more digits than shown.
SavedComesBack ==
  \A k \in DOMAIN doc : \A m \in Members :
    LET saved == doc[k].saved[m.m_offset]
    IN  ~IsBit(m) /\ ~IsEnum(m) /\ (m.m_type = "double" => Shown(saved) = saved)
          => StringData(m, doc[k].attr[m.m_name], saved) = saved

=============================================================================
