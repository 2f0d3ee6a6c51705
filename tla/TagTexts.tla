------------------------------ MODULE TagTexts ------------------------------
(***************************************************************************)
(* The tag types that hold texts, names, sequences and dictionaries.  The  *)
(* conventions are those of TagTypes; b is the stream, p the position      *)
(* after the type base and size the size of the tag without it.            *)
(***************************************************************************)
EXTENDS TagTypes, Mlu

CONSTANT NameBytes     \* bytes of a colour's name on disk, 32 in the code

ASSUME NameBytesAssumption == NameBytes \in Nat \ {0}

NoText == [MLUalloc(1) EXCEPT !.alloc = 0]   \* a nil *cmsMLU
Text(m) == Obj("*cmsMLU", m)

\* The container of a text that was read: setASCII refusing is an error.
TextOf(set, at) ==
  CASE set.r = "ok"    -> Got(Text(set.m), at)
    [] set.r = "panic" -> ReadPanics
    [] OTHER           -> NotRead

\* The reader appends a NUL to what it read, and so a NUL joins the text each
\* time a tag is read.
\* Mistake: everything up to the end of the stream is read.
TypeTextReadOn(b, p, size) ==
  IF p > Len(b) THEN NotRead
  ELSE TextOf(MLUsetASCII(MLUalloc(1), 0, 0, Append(Bytes(b, p, Len(b) - p), 0)), Len(b))
TypeTextRead(b, p, size) ==
  IF size = Huge \/ ~Readable(b, p, size) THEN NotRead
  ELSE TextOf(MLUsetASCII(MLUalloc(1), 0, 0, Append(Bytes(b, p, size), 0)), p + size)
TypeTextWrite(medium, o) ==
  LET text == MLUgetASCII(o.v, 0, 0)
  IN IF o.go # "*cmsMLU" \/ text = <<>> THEN Refused ELSE IoWrite(medium, Len(text), text)

\* The ASCII text, then a Unicode and a ScriptCode text to skip.  Only the last
\* read that fails discards the text.
TypeTextDescriptionRead(b, p, size) ==
  LET count  == U32(b, p)
      set    == MLUsetASCII(MLUalloc(1), 0, 0, Append(Bytes(b, p + 4, count), 0))
      p2     == p + 4 + count
      left   == size - 4 - count
      wide   == U32(b, p2 + 4)
      skips  == left >= 8 /\ Readable(b, p2, 8) /\ wide <= Len(b) /\ left - 8 >= 2 * wide
      p3     == p2 + 8 + 2 * wide
      script == left - 8 - 2 * wide >= 70 /\ Readable(b, p3, 3)
      done   == TextOf(set, p2)
  IN CASE size < 4 \/ ~Readable(b, p, 4) -> NotRead
       [] count > size - 4 \/ ~Readable(b, p + 4, count) -> NotRead
       [] set.r # "ok"         -> done
       [] ~skips               -> [done EXCEPT !.at = IF left >= 8 /\ Readable(b, p2, 8) THEN p2 + 8 ELSE p2]
       [] ~Readable(b, p2 + 8, 2 * wide) -> [done EXCEPT !.at = Len(b) - ((Len(b) - p2) % 2)]
       [] ~script              -> [done EXCEPT !.at = p3]
       [] Readable(b, p3 + 3, 67) -> [done EXCEPT !.at = p3 + 70]
       [] OTHER                -> NotRead
\* The counts are one more than the text and its NUL, and the wide characters
\* are taken from an array without that place.
TypeTextDescriptionWrite(medium, o) ==
  LET text    == MLUgetASCII(o.v, 0, 0)
      ascii   == IF text = <<>> THEN <<0>> ELSE text
      lenText == Len(text) + 1
      needed  == 8 + 4 + lenText + 4 + 4 + 2 * lenText + 2 + 1 + 67
      pad     == AlignLong(needed) - needed
      wide    == IF lenText > Len(ascii) THEN WritePanics ELSE Wrote(Zeros(2 * lenText))
  IN IF o.go # "*cmsMLU" THEN Refused
     ELSE AllWritten(<<Wrote(B32(lenText)), IoWrite(medium, lenText, ascii),
                       Wrote(B32(0) \o B32(lenText)), wide, Wrote(Zeros(3)),
                       IoWrite(medium, 67, Zeros(68)),
                       IF pad > 0 THEN IoWrite(medium, pad, Zeros(68)) ELSE Wrote(<<>>)>>)

\* Multi-localised text: the entries, then the pool as 16-bit characters.
MLUEntryAt(b, p, k) ==
  LET at == p + 8 + 12 * (k - 1)
  IN [lang |-> U16(b, at), ctry |-> U16(b, at + 2), len |-> U32(b, at + 4), offset |-> U32(b, at + 8)]
TypeMLURead(b, p, size) ==
  LET count  == U32(b, p)
      header == 12 * count + TypeBase
      e      == [k \in 1 .. count |-> MLUEntryAt(b, p, k)]
      Begin(k) == e[k].offset - header - 8
      good   == \A k \in 1 .. count :
                  /\ e[k].offset < Huge /\ e[k].len < Huge
                  /\ e[k].offset % 2 = 0 /\ e[k].offset >= header + 8
                  /\ e[k].len <= size + 8 - e[k].offset
      used   == Max({0} \cup {Begin(k) + e[k].len : k \in 1 .. count})
  IN CASE ~Readable(b, p, 8) \/ U32(b, p + 4) # 12 -> NotRead
       [] count > Len(b) \/ ~Readable(b, p + 8, 12 * count) -> NotRead
       [] ~good -> NotRead
       [] used % 2 # 0 \/ ~Readable(b, p + 8 + 12 * count, used) -> NotRead
       [] OTHER -> Got(Text([alloc |-> MLUalloc(count).alloc, shape |-> "u16",
                             entries |-> [k \in 1 .. count |->
                                [lang |-> e[k].lang, ctry |-> e[k].ctry,
                                 len |-> e[k].len, strW |-> Begin(k)]],
                             pool |-> Bytes(b, p + 8 + 12 * count, used), size |-> used]),
                       p + 8 + 12 * count + used)
\* The lengths are written doubled, the pool only when it is of []uint16.
TypeMLUWrite(o) ==
  LET m == o.v
      header == 12 * Len(m.entries) + TypeBase
  IN CASE o.go # "*cmsMLU" -> Refused
       [] m.shape # "u16"  -> WritePanics
       [] OTHER -> Wrote(B32(Len(m.entries)) \o B32(12)
                         \o Concat([k \in DOMAIN m.entries |->
                              B16(m.entries[k].lang) \o B16(m.entries[k].ctry)
                              \o B32(2 * m.entries[k].len)
                              \o B32(2 * m.entries[k].strW + header + 8)])
                         \o m.pool)

----------------------------------------------------------------------------
(* Names of PostScript rendering dictionaries: five counted strings.       *)

PS == 20563
Sections == <<28269, 9008, 9009, 9010, 9011>>     \* nm #0 #1 #2 #3

ReadCountAndString(st, b, section) ==
  LET m     == st.o
      count == U32(b, st.at)
      set   == MLUsetASCII(m, PS, section, Append(Bytes(b, st.at + 4, count), 0))
  IN CASE st.r # "ok" -> st
       [] st.left < 4 \/ ~Readable(b, st.at, 4) -> [st EXCEPT !.r = "nil"]
       [] count > st.left - 4 \/ ~Readable(b, st.at + 4, count) -> [st EXCEPT !.r = "nil"]
       [] set.r = "panic" -> [st EXCEPT !.r = "panic"]
       [] OTHER -> [r |-> "ok", o |-> set.m, at |-> st.at + 4 + count, left |-> st.left - 4 - count]
TypeCrdInfoRead(b, p, size) ==
  LET st == FoldLeft(LAMBDA s, section : ReadCountAndString(s, b, section),
                     [r |-> "ok", o |-> MLUalloc(5), at |-> p, left |-> size], Sections)
  IN CASE st.r = "ok" -> Got(Text(st.o), st.at) [] st.r = "nil" -> NotRead [] OTHER -> ReadPanics

WriteCountAndString(medium, m, section) ==
  LET text == MLUgetASCII(m, PS, section)
  IN IF text = <<>> THEN Refused
     ELSE InTurn(Wrote(B32(Len(text))), IoWrite(medium, Len(text), text))
TypeCrdInfoWrite(medium, o) ==
  IF o.go # "*cmsMLU" THEN Refused
  ELSE AllWritten([k \in 1 .. 5 |-> WriteCountAndString(medium, o.v, Sections[k])])

\* Under colour removal, black generation and a description.
TypeUcrBgRead(b, p, size) ==
  LET nU == U32(b, p)
      p2 == p + 4 + 2 * nU
      nB == U32(b, p2)
      p3 == p2 + 4 + 2 * nB
      text == size - 8 - 2 * nU - 2 * nB
      Table(n, at, left) == n \in 1 .. 65530 /\ left >= 2 * n /\ Readable(b, at, 2 * n)
      set == MLUsetASCII(MLUalloc(1), 0, 0, Append(Bytes(b, p3, text), 0))
  IN CASE size < 4 \/ ~Readable(b, p, 4) -> NotRead
       [] ~Table(nU, p + 4, size - 4) -> NotRead
       [] size - 4 - 2 * nU < 4 \/ ~Readable(b, p2, 4) -> NotRead
       [] ~Table(nB, p2 + 4, size - 8 - 2 * nU) -> NotRead
       [] text > 32000 \/ ~Readable(b, p3, text) -> NotRead
       [] set.r = "panic" -> ReadPanics
       [] OTHER -> Got(Obj("*cmsUcrBg", [ucr |-> BuildTabulatedCurve(Each16(b, p + 4, nU)),
                                         bg  |-> BuildTabulatedCurve(Each16(b, p2 + 4, nB)),
                                         desc |-> set.m]), p3 + text)
TypeUcrBgWrite(medium, o) ==
  LET text == MLUgetASCII(o.v.desc, 0, 0)
      Table(c) == Wrote(B32(Len(c.table)) \o EachAs16(c.table))
  IN IF o.go # "*cmsUcrBg" THEN Refused
     ELSE AllWritten(<<Table(o.v.ucr), Table(o.v.bg), IoWrite(medium, Len(text), text)>>)

----------------------------------------------------------------------------
(* Lists of named colours.  cmsAppendNamedColor fills a copy of the entry: *)
(* the list only counts.                                                   *)

BlankColor(coords) == [name |-> Zeros(NameBytes), pcs |-> <<0, 0, 0>>, device |-> Zeros(coords)]
AllocNamedColorList(coords) == [coords |-> coords, colors |-> <<>>]
AppendNamedColor(list, color) ==
  [list EXCEPT !.colors = Append(@, BlankColor(list.coords))]
ColorList(list) == Obj("*cmsNAMEDCOLORLIST", list)

TypeColorantTableRead(b, p) ==
  LET count == U32(b, p)
      entry == NameBytes + 6
      Color(k) == [name |-> Bytes(b, p + 4 + entry * (k - 1), NameBytes),
                   pcs |-> Each16(b, p + 4 + entry * (k - 1) + NameBytes, 3), device |-> <<>>]
  IN IF ~Readable(b, p, 4) \/ count > MaxChannels \/ ~Readable(b, p + 4, entry * count) THEN NotRead
     ELSE Got(ColorList(FoldLeft(AppendNamedColor, AllocNamedColorList(0),
                                 [k \in 1 .. count |-> Color(k)])), p + 4 + entry * count)
\* The name is handed over in a buffer longer than the name.
NameBuffer(name) == name \o <<0>>
TypeColorantTableWrite(medium, o) ==
  IF o.go # "*cmsNAMEDCOLORLIST" THEN Refused
  ELSE InTurn(Wrote(B32(Len(o.v.colors))),
              AllWritten([k \in DOMAIN o.v.colors |->
                 InTurn(IoWrite(medium, NameBytes, NameBuffer(o.v.colors[k].name)),
                        Wrote(EachAs16(o.v.colors[k].pcs)))]))

\* The prefix is read into an array, which no io handler takes.
TypeNamedColorRead(b, p) == NotRead
TypeNamedColorWrite(medium, o) ==
  IF o.go # "*cmsNAMEDCOLORLIST" THEN WritePanics
  ELSE AllWritten(<<Wrote(B32(0) \o B32(Len(o.v.colors)) \o B32(o.v.coords)),
                    IoWrite(medium, NameBytes, Zeros(NameBytes + 1)),
                    IoWrite(medium, NameBytes, Zeros(NameBytes + 1))>>
                  \o [k \in DOMAIN o.v.colors |->
                        InTurn(IoWrite(medium, NameBytes, NameBuffer(o.v.colors[k].name)),
                               Wrote(EachAs16(o.v.colors[k].pcs) \o EachAs16(o.v.colors[k].device)))])
=============================================================================
