------------------------------ MODULE TagLists ------------------------------
(***************************************************************************)
(* The tag types that contain other types: the two profile sequences, with *)
(* the position table the second keeps, and the dictionary.  Their readers *)
(* seek inside the tag and read texts with the handlers of TagTexts.       *)
(***************************************************************************)
EXTENDS TagTexts

TextType == 1952807028      \* 'text'
TextDescriptionType == 1684370275
MultiLocalizedUnicodeType == 1835824483

DupText(m) ==
  IF m = NoText \/ MLUdup(m).r # "ok" THEN NoText ELSE MLUdup(m).m

Moved(offset, base) == IF offset = Huge THEN Huge ELSE offset + base

\* ReadEmbeddedText: the handlers' nil is asserted to be a *cmsMLU.
ReadEmbeddedText(b, p, size) ==
  LET type == U32(b, p)
  IN CASE ~Readable(b, p, 8) -> NotRead
       [] type = TextType -> Asserted(TypeTextRead(b, p + 8, size))
       [] type = TextDescriptionType -> Asserted(TypeTextDescriptionRead(b, p + 8, size))
       [] type = MultiLocalizedUnicodeType -> Asserted(TypeMLURead(b, p + 8, size))
       [] OTHER -> NotRead
SaveDescription(medium, v4, m) ==
  IF v4 THEN InTurn(Wrote(B32(MultiLocalizedUnicodeType) \o B32(0)), TypeMLUWrite(Text(m)))
  ELSE InTurn(Wrote(B32(TextDescriptionType) \o B32(0)), TypeTextDescriptionWrite(medium, Text(m)))

----------------------------------------------------------------------------
(* Profile sequences.  An entry has the description of the first type or   *)
(* the identifier of the second.                                           *)

BlankEntry == [words |-> Zeros(5), id |-> Zeros(16),
               manufacturer |-> NoText, model |-> NoText, description |-> NoText]
AllocProfileSequence(n) == [k \in 1 .. n |-> BlankEntry]
Sequence(seq) == Obj("*cmsSEQ", seq)

\* The fields go to a copy of the new entry.
DupEntry(e) == BlankEntry
DupProfileSequence(seq) == [k \in DOMAIN seq |-> DupEntry(seq[k])]

\* An entry of the description: manufacturer, model, attributes, technology
\* and two texts, each of which is told the same size.
ReadSequenceEntry(st, b) ==
  LET left == st.left - 20
      Entry(manu, mdl) == [BlankEntry EXCEPT !.words = Each32(b, st.at, 5),
                                             !.manufacturer = manu, !.model = mdl]
  IN CASE st.r # "ok" -> st
       [] ~Readable(b, st.at, 20) \/ left < 0 -> [st EXCEPT !.r = "nil"]
       [] OTHER ->
            Then(st, ReadEmbeddedText(b, st.at + 20, left), LAMBDA manu :
              Then(st, ReadEmbeddedText(b, manu.at, left), LAMBDA mdl :
                [r |-> "ok", at |-> mdl.at, left |-> left, o |-> Append(st.o, Entry(manu.o, mdl.o))]))
TypeProfileSequenceDescRead(b, p, size) ==
  LET count == U32(b, p)
      st == FoldLeft(LAMBDA s, k : ReadSequenceEntry(s, b),
                     [r |-> "ok", at |-> p + 4, left |-> size - 4, o |-> <<>>],
                     [k \in 1 .. count |-> k])
  IN IF ~Readable(b, p, 4) \/ size < 4 \/ count \notin 1 .. 255 THEN NotRead
     ELSE Ended(st, Sequence)
TypeProfileSequenceDescWrite(medium, v4, o) ==
  IF o.go # "*cmsSEQ" THEN Refused
  ELSE InTurn(Wrote(B32(Len(o.v))),
         AllWritten([k \in DOMAIN o.v |->
           AllWritten(<<Wrote(EachAs32(o.v[k].words)),
                        SaveDescription(medium, v4, o.v[k].manufacturer),
                        SaveDescription(medium, v4, o.v[k].model)>>)]))

\* Offsets, relative to the start of the tag, and sizes.
ReadPositionTable(b, p, count, base) ==
  IF count > (Len(b) - p) \div 8 THEN [r |-> "nil", e |-> <<>>]
  ELSE [r |-> "ok",
        e |-> [k \in 1 .. count |-> [offset |-> Moved(U32(b, p + 8 * (k - 1)), base),
                                     size |-> U32(b, p + 8 * (k - 1) + 4)]]]
\* The elements follow the directory, which starts `at' bytes into the tag.
WritePositionTable(at, elements) ==
  LET all  == AllWritten(elements)
      Before(k) == Len(Concat([j \in 1 .. (k - 1) |-> elements[j].b]))
      first == at + 8 * Len(elements)
  IN IF all.r # "ok" THEN all
     ELSE Wrote(Concat([k \in DOMAIN elements |->
                          B32(first + Before(k)) \o B32(Len(elements[k].b))]) \o all.b)

ReadSeqID(st, b, entry) ==
  CASE st.r # "ok" -> st
    [] ~Readable(b, entry.offset, 16) -> [st EXCEPT !.r = "nil"]
    [] OTHER ->
         Then(st, ReadEmbeddedText(b, entry.offset + 16, entry.size), LAMBDA text :
           [r |-> "ok", at |-> text.at,
            o |-> Append(st.o, [BlankEntry EXCEPT !.id = Bytes(b, entry.offset, 16),
                                                  !.description = text.o])])
TypeProfileSequenceIdRead(b, p) ==
  LET count == U32(b, p)
      first == [r |-> "ok", at |-> p + 4 + 8 * count, o |-> <<>>]
  IN IF ~Readable(b, p, 4) \/ count \notin 1 .. 255 THEN NotRead
     ELSE After(ReadPositionTable(b, p + 4, count, p - TypeBase), LAMBDA table :
            Ended(FoldLeft(LAMBDA st, entry : ReadSeqID(st, b, entry), first, table.e), Sequence))
\* An identifier that could be written is a failure.
WriteSeqID(medium, v4, e) ==
  LET id == IoWrite(medium, 16, e.id)
  IN IF id.r = "ok" THEN Refused ELSE SaveDescription(medium, v4, e.description)
TypeProfileSequenceIdWrite(medium, v4, o) ==
  IF o.go # "*cmsSEQ" THEN Refused
  ELSE InTurn(Wrote(B32(Len(o.v))),
              WritePositionTable(12, [k \in DOMAIN o.v |-> WriteSeqID(medium, v4, o.v[k])]))

----------------------------------------------------------------------------
(* Dictionaries: names, values and optional multi-localised versions of    *)
(* both.  Each entry is added before the others.                           *)

DictEntry(name, value, dn, dv) == [name |-> name, value |-> value,
                                   displayName |-> dn, displayValue |-> dv]
Dict(entries) == Obj("*cmsDICT", entries)

\* An entry without a name is refused.
DictAddEntry(dict, e) ==
  IF e.name = <<>> THEN dict
  ELSE <<[e EXCEPT !.displayName = DupText(@), !.displayValue = DupText(@)]>> \o dict
DictDup(dict) == FoldLeft(DictAddEntry, <<>>, dict)

\* Four columns of offset and size, of which the last two may be absent; an
\* offset of 0 is an empty text.
ReadOneElem(b, at, base) ==
  LET offset == U32(b, at)
  IN [offset |-> IF offset = 0 THEN 0 ELSE Moved(offset, base), size |-> U32(b, at + 4)]
ReadOneWChar(b, e) ==
  LET n     == IF e.size = Huge THEN Len(b) ELSE e.size \div 2
      chars == Each16(b, e.offset, n)
      nul   == {k \in DOMAIN chars : chars[k] = 0}
  IN CASE e.offset = 0 -> Got(<<>>, 0)
       [] ~Readable(b, e.offset, 2 * n) -> NotRead
       [] nul = {} -> Got(chars, 0)
       [] OTHER    -> Got(SubSeq(chars, 1, Min(nul) - 1), 0)
ReadOneMLUC(b, e) ==
  CASE e.offset = 0 \/ e.size = 0 -> Got(NoText, 0)
    [] e.offset > Len(b) -> NotRead
    [] OTHER -> Asserted(TypeMLURead(b, e.offset, e.size))
ReadDictEntry(st, b, at, length, base) ==
  LET WChar(column) == ReadOneWChar(b, ReadOneElem(b, at + 8 * column, base))
      Text0(column) == IF length > 8 * column THEN ReadOneMLUC(b, ReadOneElem(b, at + 8 * column, base))
                       ELSE Got(NoText, 0)
      Added(name, value, dn, dv) ==
        IF name = <<>> \/ value = <<>> THEN [st EXCEPT !.r = "nil"]
        ELSE [st EXCEPT !.o = DictAddEntry(@, DictEntry(name, value, dn, dv))]
  IN IF st.r # "ok" THEN st
     ELSE Then(st, WChar(0), LAMBDA name : Then(st, WChar(1), LAMBDA value :
            Then(st, Text0(2), LAMBDA dn : Then(st, Text0(3), LAMBDA dv :
              Added(name.o, value.o, dn.o, dv.o)))))
TypeDictionaryRead(b, p, size) ==
  LET count  == U32(b, p)
      length == U32(b, p + 4)
      whole  == count <= (size - 8) \div length /\ Readable(b, p + 8, count * length)
      st == FoldLeft(LAMBDA s, k : ReadDictEntry(s, b, p + 8 + length * (k - 1), length, p - TypeBase),
                     [r |-> "ok", at |-> p + 8, o |-> <<>>], [k \in 1 .. count |-> k])
  IN IF size < 8 \/ ~Readable(b, p, 8) \/ length \notin {16, 24, 32} \/ ~whole THEN NotRead
     ELSE Ended(st, Dict)

\* A text written, with where it starts: nothing for an empty one.
WriteOneWChar(chars) == Wrote(IF chars = <<>> THEN <<>> ELSE EachAs16(Append(chars, 0)))
WriteOneMLUC(m) == IF m = NoText THEN Wrote(<<>>) ELSE TypeMLUWrite(Text(m))
TypeDictionaryWrite(o) ==
  LET d        == o.v
      anyName  == \E k \in DOMAIN d : d[k].displayName # NoText
      anyValue == \E k \in DOMAIN d : d[k].displayValue # NoText
      columns  == 2 + (IF anyName THEN 1 ELSE 0) + (IF anyValue THEN 1 ELSE 0)
      Parts(e) == <<WriteOneWChar(e.name), WriteOneWChar(e.value)>>
                  \o (IF anyName THEN <<WriteOneMLUC(e.displayName)>> ELSE <<>>)
                  \o (IF anyValue THEN <<WriteOneMLUC(e.displayValue)>> ELSE <<>>)
      parts    == Concat([k \in DOMAIN d |-> Parts(d[k])])
      all      == AllWritten(parts)
      first    == 16 + 8 * Len(parts)
      Before(k) == Len(Concat([j \in 1 .. (k - 1) |-> parts[j].b]))
      Column(k) == IF parts[k].b = <<>> THEN B32(0) \o B32(0)
                   ELSE B32(first + Before(k)) \o B32(Len(parts[k].b))
  IN CASE anyValue /\ ~anyName -> WritePanics
       [] all.r # "ok"         -> all
       [] OTHER -> Wrote(B32(Len(d)) \o B32(8 * columns)
                         \o Concat([k \in DOMAIN parts |-> Column(k)]) \o all.b)
=============================================================================
