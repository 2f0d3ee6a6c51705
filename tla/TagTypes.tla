------------------------------ MODULE TagTypes ------------------------------
(***************************************************************************)
(* The tag types whose contents are numbers, curves or bytes: how each     *)
(* handler of SupportedTagTypes writes an object and reads one.            *)
(*                                                                         *)
(* An object is a Go value: its dynamic type, which the handlers test, and *)
(* what it holds.  Write operators give the bytes after the type base;     *)
(* Read operators take the stream, the position after the type base and    *)
(* the size of the tag without it.                                         *)
(***************************************************************************)
EXTENDS IccStream, ToneCurves

CONSTANT Table8        \* entries of an 8-bit or video card table, 256 in the code

ASSUME Table8Assumption == Table8 \in Nat \ {0, 1}


Obj(goType, value) == [go |-> goType, v |-> value]

\* A handler that takes one Go type writes it; another it refuses, or its
\* unchecked type assertion panics.
WriteIf(o, goType, bytes) == IF o.go = goType THEN Wrote(bytes) ELSE Refused

\* n numbers of four bytes each.
ReadWords(goType, b, p, n) ==
  IF Readable(b, p, 4 * n) THEN Got(Obj(goType, Each32(b, p, n)), p + 4 * n) ELSE NotRead

----------------------------------------------------------------------------
(* Structures of fixed layout.                                             *)

TypeXYZRead(b, p) == ReadWords("*cmsCIEXYZ", b, p, 3)
TypeXYZWrite(o) == IF o.go = "*cmsCIEXYZ" THEN Wrote(EachAs32(o.v)) ELSE WritePanics

\* x, y of red, green and blue; the Y of each is 1.0 and is not stored.
\* Early versions wrote two bytes more before the number of channels.
TypeChromaticityRead(b, p, size) ==
  LET late == Readable(b, p, 2) /\ U16(b, p) = 0 /\ size = 32
      at   == IF late THEN p + 4 ELSE p
  IN IF Readable(b, p, 2) /\ Readable(b, at, 28) /\ U16(b, at) = 3
     THEN Got(Obj("*CmsCIExyYTRIPLE", Each32(b, at + 4, 6)), at + 28)
     ELSE NotRead
TypeChromaticityWrite(o) == WriteIf(o, "*CmsCIExyYTRIPLE", B16(3) \o B16(0) \o EachAs32(o.v))

\* The laydown order ends at the first 0xFF.  The reader asks io.Read for
\* count blocks of sixteen bytes.
TypeColorantOrderTypeRead(b, p) ==
  IF ~Readable(b, p, 4) \/ U32(b, p) > MaxChannels \/ ~Readable(b, p + 4, 16 * U32(b, p))
  THEN NotRead
  ELSE LET got == Bytes(b, p + 4, 16 * U32(b, p))
       IN Got(Obj("[]uint8", [k \in 1 .. MaxChannels |-> IF k \in DOMAIN got THEN got[k] ELSE 255]),
              p + 4 + 16 * U32(b, p))
TypeColorantOrderTypeWrite(o) ==
  LET count == Cardinality({k \in DOMAIN o.v : o.v[k] # 255})
  IN IF o.go = "[]uint8" THEN Wrote(B32(count) \o SubSeq(o.v, 1, count)) ELSE Refused

\* An array of 15.16 numbers: the reader returns a pointer to the first.
TypeS15Fixed16Read(b, p, size) ==
  CASE ~Readable(b, p, 4 * (size \div 4)) -> NotRead
    [] size < 4 -> ReadPanics
    [] OTHER    -> ReadWords("*float64", b, p, size \div 4)
TypeS15Fixed16Write(o, nItems) ==
  CASE o.go = "[]float64" -> Wrote(EachAs32(SubSeq(o.v, 1, nItems)))
    [] o.go \in {"*cmsVEC3", "*cmsMAT3"} -> Wrote(EachAs32(o.v))
    [] OTHER -> Refused

TypeU16Fixed16Read(b, p, size) == TypeS15Fixed16Read(b, p, size)
TypeU16Fixed16Write(o, nItems) ==
  CASE o.go # "[]float64"   -> Refused
    [] nItems > Len(o.v)    -> WritePanics
    [] OTHER -> Wrote(EachAs32(SubSeq(o.v, 1, nItems)))

\* The three functions of this handler expect three Go types.
TypeSignatureRead(b, p) == ReadWords("uint32", b, p, 1)
TypeSignatureWrite(o) == WriteIf(o, "*cmsSignature", EachAs32(o.v))

\* Year, month, day, hours, minutes, seconds.  What was read is decoded and
\* dropped: the object is the zero time.
ZeroTime == <<1, 1, 1, 0, 0, 0>>
DecodedTime(fields) == ZeroTime
TypeDateTimeRead(b, p) ==
  IF Readable(b, p, 12) THEN Got(Obj("*time.Time", DecodedTime(Each16(b, p, 6))), p + 12)
  ELSE NotRead
TypeDateTimeWrite(o) == WriteIf(o, "*time.Time", EachAs16(o.v))

\* Observer, backing, geometry, flare, illuminant.  The reader returns the
\* structure, the writer expects a pointer to it.
TypeMeasurementRead(b, p) == ReadWords("cmsICCMeasurementConditions", b, p, 7)
TypeMeasurementWrite(o) == WriteIf(o, "*cmsICCMeasurementConditions", EachAs32(o.v))

TypeViewingConditionsRead(b, p) == ReadWords("*cmsICCViewingConditions", b, p, 7)
TypeViewingConditionsWrite(o) == WriteIf(o, "*cmsICCViewingConditions", EachAs32(o.v))

\* The flag and, for each channel, a frequency, an angle and a spot shape.
ScreenedChannels(n) == IF n > MaxChannels - 1 THEN MaxChannels - 1 ELSE n
TypeScreeningRead(b, p) ==
  IF ~Readable(b, p, 8) THEN NotRead
  ELSE LET n == ScreenedChannels(U32(b, p + 4))
       IN IF Readable(b, p + 8, 12 * n)
          THEN Got(Obj("*cmsScreening", [flag |-> S32(b, p), n |-> n,
                                         channels |-> Each32(b, p + 8, 3 * n)]), p + 8 + 12 * n)
          ELSE NotRead
TypeScreeningWrite(o) ==
  WriteIf(o, "*cmsScreening", B32(o.v.flag) \o B32(o.v.n) \o EachAs32(o.v.channels))

TypeVideoSignalRead(b, p, size) ==
  IF size = 8 /\ Readable(b, p, 8) THEN Got(Obj("*cmsVideoSignalType", Bytes(b, p + 4, 4)), p + 8)
  ELSE NotRead
TypeVideoSignalWrite(o) == WriteIf(o, "*cmsVideoSignalType", B32(0) \o o.v)

\* Mistake: a stream that ends early gives what it has.
TypeDataReadShort(b, p, size) ==
  LET n == Min({size - 4, Len(b) - p - 4})
  IN IF size >= 4 /\ Readable(b, p, 4)
     THEN Got(Obj("*cmsICCData", [flag |-> S32(b, p), len |-> size - 4,
                                  data |-> Bytes(b, p + 4, n)]), p + 4 + n)
     ELSE NotRead
TypeDataRead(b, p, size) ==
  IF size >= 4 /\ Readable(b, p, size)
  THEN Got(Obj("*cmsICCData", [flag |-> S32(b, p), len |-> size - 4,
                               data |-> Bytes(b, p + 4, size - 4)]), p + size)
  ELSE NotRead
TypeDataWrite(medium, o) ==
  IF o.go # "*cmsICCData" THEN Refused
  ELSE IF Len(o.v.data) # o.v.len THEN Refused
  ELSE InTurn(Wrote(B32(o.v.flag)), IoWrite(medium, o.v.len, o.v.data))

----------------------------------------------------------------------------
(* Tone curves.                                                            *)

Curve(c) == Obj("*CmsToneCurve", c)

\* Parameters by type.
ParamsByType == <<1, 3, 4, 5, 7>>

TypeCurveRead(b, p) ==
  IF ~Readable(b, p, 4) THEN NotRead
  ELSE LET count == U32(b, p)
       IN CASE count = 0 -> Got(Curve(BuildParametricCurve(1, <<One>>)), p + 4)
            [] count = 1 -> IF Readable(b, p + 4, 2)
                            THEN Got(Curve(BuildParametricCurve(1, <<Fixed8ToDouble(U16(b, p + 4))>>)), p + 6)
                            ELSE NotRead
            [] OTHER     -> IF count <= 32767 /\ Readable(b, p + 4, 2 * count)
                            THEN Got(Curve(BuildTabulatedCurve(Each16(b, p + 4, count))), p + 4 + 2 * count)
                            ELSE NotRead
\* A gamma is stored as 8.8; every other curve as its table.
CurveBytes(c) ==
  IF Len(c.segments) = 1 /\ c.segments[1].type = 1
  THEN B32(1) \o B16(DoubleTo8Fixed8(c.segments[1].params[1]))
  ELSE B32(Len(c.table)) \o EachAs16(c.table)
TypeCurveWrite(o) == WriteIf(o, "*CmsToneCurve", CurveBytes(o.v))

TypeParametricCurveRead(b, p) ==
  IF ~Readable(b, p, 4) \/ U16(b, p) > 4 THEN NotRead
  ELSE LET type == U16(b, p) + 1
           n    == ParamsByType[type]
       IN IF Readable(b, p + 4, 4 * n)
          THEN Got(Curve(BuildParametricCurve(type, Each32(b, p + 4, n))), p + 4 + 4 * n)
          ELSE NotRead
\* Segments[0] is read before they are counted.
ParametricBytes(c) ==
  IF Len(c.segments) = 0 THEN WritePanics
  ELSE LET type == c.segments[1].type
       IN IF Len(c.segments) > 1 \/ type \notin DOMAIN ParamsByType THEN Refused
          ELSE Wrote(B16(type - 1) \o B16(0)
                     \o EachAs32(SubSeq(c.segments[1].params, 1, ParamsByType[type])))
TypeParametricCurveWrite(o) ==
  IF o.go = "*CmsToneCurve" THEN ParametricBytes(o.v) ELSE Refused

\* Video card gamma: three curves, by formula (gamma, min, max) or by table.
\* The reader gives an array, the duplicate a pointer to a curve; the writer
\* and the duplication expect a slice, and panic on anything else.
TypeVcgtRead(b, p) ==
  LET triple(c, at) == Got(Obj("*[3]*CmsToneCurve", c), at)
      kind == U32(b, p)
      nElems == U16(b, p + 6)
      nBytes == U16(b, p + 8)
  IN CASE ~Readable(b, p, 4) -> NotRead
       [] kind = 0 /\ Readable(b, p, 10) /\ U16(b, p + 4) = 3 /\ nBytes \in {1, 2}
            /\ nElems > 0 /\ Readable(b, p + 10, 3 * nElems * nBytes) ->
            triple([c \in 1 .. 3 |-> BuildTabulatedCurve([k \in 1 .. nElems |->
                      LET at == p + 10 + nBytes * ((c - 1) * nElems + k - 1)
                      IN IF nBytes = 1 THEN 257 * U8(b, at) ELSE U16(b, at)])],
                   p + 10 + 3 * nElems * nBytes)
       [] kind = 1 /\ Readable(b, p + 4, 36) ->
            triple([c \in 1 .. 3 |-> BuildParametricCurve(5, Each32(b, p + 12 * c - 8, 3))], p + 40)
       [] OTHER -> NotRead
FormulaCurve(c) == Len(c.segments) = 1 /\ c.segments[1].type = 5
TypeVcgtWrite(o) ==
  CASE o.go # "[]*CmsToneCurve" -> WritePanics
    [] \A c \in 1 .. 3 : FormulaCurve(o.v[c]) ->
         Wrote(B32(1) \o Concat([c \in 1 .. 3 |-> EachAs32(SubSeq(o.v[c].segments[1].params, 1, 3))]))
    [] OTHER -> Wrote(B32(0) \o B16(3) \o B16(Table8) \o B16(2)
                      \o Concat([c \in 1 .. 3 |-> EachAs16(Ramp(Table8))]))
=============================================================================
