------------------------------ MODULE LutTypes ------------------------------
(***************************************************************************)
(* The tag types that contain pipelines: the two tables of fixed layout,   *)
(* the two of version 4 with their directory of parts, and the             *)
(* multi-processing elements with their curves, matrices and tables.       *)
(*                                                                         *)
(* The version 4 types align their parts on the position in the stream,    *)
(* not in the tag: their write operators take the position of the tag.     *)
(* Numbers of a matrix are 15.16 in the first four and the bits of a       *)
(* float32 in the last.                                                    *)
(***************************************************************************)
EXTENDS TagLists, Pipelines

PipelineGo == "*cmsPipeline"
Lut(p) == Obj(PipelineGo, p)

From8to16(n) == n * 257
From16to8(n) == (n + 128) \div 257
Identity3 == <<One, 0, 0, 0, One, 0, 0, 0, One>>

SameGrid(p, grid) ==
  \A k \in 1 .. p.in : k \in DOMAIN grid /\ grid[k] = grid[1]

----------------------------------------------------------------------------
(* Matrix, input tables, table, output tables.                             *)

\* The parts a pipeline is taken apart in: each is optional, in this order.
Head1(s, type) == s # <<>> /\ Head(s).type = type
TakeIf(s, type) == IF Head1(s, type) THEN Tail(s) ELSE s
PartOf(s, type) == IF Head1(s, type) THEN <<Head(s)>> ELSE <<>>
LutParts(p) ==
  LET s1 == TakeIf(p.elements, "Matrix")
      s2 == TakeIf(s1, "CurveSet")
      s3 == TakeIf(s2, "CLut")
  IN [matrix |-> PartOf(p.elements, "Matrix"), pre |-> PartOf(s1, "CurveSet"),
      clut |-> PartOf(s2, "CLut"), post |-> PartOf(s3, "CurveSet"),
      rest |-> TakeIf(s3, "CurveSet")]
Grid(parts) == IF parts.clut = <<>> THEN 0 ELSE parts.clut[1].data.grid[1]
FitsLut(p) ==
  LET parts == LutParts(p)
  IN /\ parts.matrix # <<>> => parts.matrix[1].in = 3 /\ parts.matrix[1].out = 3
     /\ parts.rest = <<>>
     /\ parts.clut # <<>> => SameGrid(p, parts.clut[1].data.grid)
     /\ Uipow(p.out, Grid(parts), p.in) # MaxWord
LutHeader(p) ==
  LET parts == LutParts(p)
  IN B8(p.in) \o B8(p.out) \o B8(Grid(parts)) \o B8(0)
     \o EachAs32(IF parts.matrix = <<>> THEN Identity3 ELSE parts.matrix[1].data.matrix)

\* Curves of two entries that are the identity are written in full.
IdentityBytes == [j \in 1 .. Table8 |-> (255 * (j - 1)) \div (Table8 - 1)]
Write8bitTables(stage) ==
  LET Table(c) == IF c.table = <<0, 65535>> THEN Wrote(IdentityBytes)
                  ELSE IF Len(c.table) # Table8 THEN Refused
                  ELSE Wrote([j \in 1 .. Table8 |-> From16to8(c.table[j])])
  IN AllWritten(Concat([s \in DOMAIN stage |->
                          [k \in DOMAIN stage[s].data |-> Table(stage[s].data[k])]]))
TypeLUT8Write(o) ==
  LET p == o.v
      parts == LutParts(p)
  IN CASE o.go # PipelineGo  -> Refused
       [] p.elements = <<>>  -> WritePanics
       [] ~FitsLut(p)        -> Refused
       [] OTHER ->
            AllWritten(<<Wrote(LutHeader(p)), Write8bitTables(parts.pre),
                         IF parts.clut = <<>> THEN Wrote(<<>>)
                         ELSE Wrote([k \in DOMAIN parts.clut[1].data.table |->
                                       From16to8(parts.clut[1].data.table[k])]),
                         Write8bitTables(parts.post)>>)

Read8bitTables(b, p, lut, n) ==
  LET curves == [k \in 1 .. n |->
                   BuildTabulatedCurve([j \in 1 .. Table8 |-> From8to16(U8(b, p + Table8 * (k - 1) + j - 1))])]
      r == InsertAtEnd(lut, StageAllocToneCurves(n, curves))
  IN IF ~Readable(b, p, Table8 * n) \/ ~r.ok THEN NotRead ELSE Got(r.p, p + Table8 * n)
\* The grid of a table of fixed layout, when it has one.
ReadGrid(lut, in, out, points, values) ==
  IF values = <<>> THEN [ok |-> TRUE, p |-> lut]
  ELSE InsertAtEnd(lut, StageAllocCLut([k \in 1 .. in |-> points], out, values, FALSE))

\* Only three channels take the matrix, and only if it is not the identity.
WithMatrix(lut, in, matrix) ==
  IF in = 3 /\ matrix # Identity3
  THEN InsertAtEnd(lut, StageAllocMatrix(3, 3, matrix, <<>>)).p ELSE lut
LutChannels(n) == n \in 1 .. MaxChannels
TypeLUT8Read(b, p) ==
  LET in     == U8(b, p)
      out    == U8(b, p + 1)
      points == U8(b, p + 2)
      alloc  == PipelineAlloc(in, out)
      first  == WithMatrix(alloc, in, Each32(b, p + 4, 9))
      pre    == Read8bitTables(b, p + 40, first, in)
      n      == Uipow(out, points, in)
      grid   == ReadGrid(pre.o, in, out, points,
                         [k \in 1 .. n |-> From8to16(U8(b, pre.at + k - 1))])
      post   == Read8bitTables(b, pre.at + n, grid.p, out)
  IN CASE ~Readable(b, p, 40) \/ points = 1 \/ ~LutChannels(in) \/ ~LutChannels(out) -> NotRead
       [] alloc.nil \/ pre.r # "ok" -> NotRead
       [] n = MaxWord \/ ~Readable(b, pre.at, n) \/ ~grid.ok \/ post.r # "ok" -> NotRead
       [] OTHER -> Got(Lut(post.o), post.at)

\* The entries of the first curve are taken for all of them.
EntriesInHeader(stage) == IF stage = <<>> THEN 2 ELSE Len(stage[1].data[1].table)
\* Mistake: each channel is written with that many entries.
Write16bitTablesEven(stage, n) ==
  IF stage = <<>> THEN Concat([k \in 1 .. n |-> B16(0) \o B16(65535)])
  ELSE Concat([k \in DOMAIN stage[1].data |-> EachAs16(stage[1].data[1].table)])
Write16bitTables(stage, n) ==
  IF stage = <<>> THEN Concat([k \in 1 .. n |-> B16(0) \o B16(65535)])
  ELSE Concat([k \in DOMAIN stage[1].data |-> EachAs16(stage[1].data[k].table)])
TypeLUT16Write(o) ==
  LET p == o.v
      parts == LutParts(p)
  IN CASE o.go # PipelineGo \/ ~FitsLut(p) -> Refused
       [] OTHER ->
            Wrote(LutHeader(p) \o B16(EntriesInHeader(parts.pre)) \o B16(EntriesInHeader(parts.post))
                  \o Write16bitTables(parts.pre, p.in)
                  \o (IF parts.clut = <<>> THEN <<>> ELSE EachAs16(parts.clut[1].data.table))
                  \o Write16bitTables(parts.post, p.out))

Read16bitTables(b, p, lut, n, entries) ==
  LET curves == [k \in 1 .. n |-> BuildTabulatedCurve(Each16(b, p + 2 * entries * (k - 1), entries))]
      r == InsertAtEnd(lut, StageAllocToneCurves(n, curves))
  IN CASE entries = 0 -> Got(lut, p)
       [] entries = 1 \/ ~Readable(b, p, 2 * entries * n) \/ ~r.ok -> NotRead
       [] OTHER -> Got(r.p, p + 2 * entries * n)
TypeLUT16Read(b, p) ==
  LET in     == U8(b, p)
      out    == U8(b, p + 1)
      points == U8(b, p + 2)
      alloc  == PipelineAlloc(in, out)
      entries == <<U16(b, p + 40), U16(b, p + 42)>>
      pre    == Read16bitTables(b, p + 44, WithMatrix(alloc, in, Each32(b, p + 4, 9)), in, entries[1])
      n      == Uipow(out, points, in)
      grid   == ReadGrid(pre.o, in, out, points, Each16(b, pre.at, n))
      post   == Read16bitTables(b, pre.at + 2 * n, grid.p, out, entries[2])
  IN CASE ~Readable(b, p, 44) \/ points = 1 \/ ~LutChannels(in) \/ ~LutChannels(out) -> NotRead
       [] alloc.nil \/ entries[1] > 32767 \/ entries[2] > 32767 \/ pre.r # "ok" -> NotRead
       [] n = MaxWord \/ ~Readable(b, pre.at, 2 * n) \/ ~grid.ok \/ post.r # "ok" -> NotRead
       [] OTHER -> Got(Lut(post.o), post.at)

----------------------------------------------------------------------------
(* Version 4: curves, tables and matrices at their own offsets.            *)

CurveType == 1668641398               \* 'curv'
ParametricCurveType == 1885434465     \* 'para'

\* The type a curve is written as: one without segments has none to look at.
SavedAs(c) ==
  IF c.segments # <<>> /\ \/ Len(c.segments) = 2 /\ c.segments[2].type = 0
                          \/ c.segments[1].type < 0
  THEN CurveType ELSE ParametricCurveType
WriteCurveAt(st, c) ==
  LET body == IF SavedAs(c) = CurveType THEN Wrote(CurveBytes(c)) ELSE ParametricBytes(c)
      all  == InTurn(Wrote(st.b \o B32(SavedAs(c)) \o B32(0)), body)
  IN IF st.r # "ok" THEN st
     ELSE [all EXCEPT !.b = @ \o WriteAlignment(st.base + Len(@))] @@ [base |-> st.base]
\* Everything a stage is written as, when it starts at this position.
WriteSetOfCurves(at, stage) ==
  LET st == FoldLeft(WriteCurveAt, Wrote(<<>>) @@ [base |-> at], stage.data)
  IN [r |-> st.r, b |-> st.b]
WriteMatrix(stage) ==
  Wrote(EachAs32(stage.data.matrix)
        \o (IF stage.data.offset = <<>> THEN Zeros(4 * stage.out) ELSE EachAs32(stage.data.offset)))
WriteCLUT(at, saveAs8, stage) ==
  LET grid   == stage.data.grid \o Zeros(MaxChannels - Len(stage.data.grid))
      values == IF saveAs8 THEN [k \in DOMAIN stage.data.table |-> From16to8(stage.data.table[k])]
                ELSE EachAs16(stage.data.table)
      all    == grid \o <<IF saveAs8 THEN 1 ELSE 2, 0, 0, 0>> \o values
  IN Wrote(all \o WriteAlignment(at + Len(all)))

\* The parts a pipeline of one of these shapes has, by their letters.
A2BShapes == <<<<"B">>, <<"M", "Mat", "B">>, <<"A", "C", "B">>, <<"A", "C", "M", "Mat", "B">>>>
B2AShapes == <<<<"B">>, <<"B", "Mat", "M">>, <<"B", "C", "A">>, <<"B", "Mat", "M", "C", "A">>>>
TypeOfPart == [B |-> "CurveSet", Mat |-> "Matrix", M |-> "CurveSet", C |-> "CLut", A |-> "CurveSet"]
ShapeOf(p, shapes) ==
  LET fits == {n \in DOMAIN shapes : HasShape(p, [k \in DOMAIN shapes[n] |-> TypeOfPart[shapes[n][k]]])}
  IN IF fits = {} THEN <<>> ELSE shapes[Min(fits)]

WritingOrder == <<"A", "C", "M", "Mat", "B">>
DirectoryOrder == <<"B", "Mat", "M", "C", "A">>
\* One part after another: where each starts, in the tag, goes to `offset'.
WritePart(st, part, p, shape) ==
  LET stage == p.elements[CHOOSE k \in DOMAIN shape : shape[k] = part]
      at    == st.base + Len(st.b)
      bytes == CASE part = "C"   -> WriteCLUT(at, p.saveAs8, stage)
                 [] part = "Mat" -> WriteMatrix(stage)
                 [] OTHER        -> WriteSetOfCurves(at, stage)
  IN IF st.r # "ok" \/ ~Contains(shape, part) THEN st
     ELSE [st EXCEPT !.r = bytes.r, !.b = @ \o bytes.b, !.offset[part] = Len(st.b)]
NoOffsets == [part \in {"A", "B", "C", "M", "Mat"} |-> 0]
WriteParts(base, p, shape) ==
  LET header == B8(p.in) \o B8(p.out) \o B16(0)
      st == FoldLeft(LAMBDA s, part : WritePart(s, part, p, shape),
                     [r |-> "ok", b |-> Zeros(TypeBase) \o header \o Zeros(20),
                      base |-> base, offset |-> NoOffsets], WritingOrder)
      directory == Concat([k \in 1 .. 5 |-> B32(st.offset[DirectoryOrder[k]])])
  IN [r |-> st.r, b |-> header \o directory \o SubSeq(st.b, TypeBase + 25, Len(st.b))]
TypeLUTA2BWrite(base, o) ==
  IF o.go # PipelineGo THEN Refused
  ELSE IF o.v.elements # <<>> /\ ShapeOf(o.v, A2BShapes) = <<>> THEN Refused
  ELSE WriteParts(base, o.v, ShapeOf(o.v, A2BShapes))
TypeLUTB2AWrite(base, o) ==
  IF o.go # PipelineGo THEN Refused
  ELSE IF ShapeOf(o.v, B2AShapes) = <<>> THEN Refused
  ELSE WriteParts(base, o.v, ShapeOf(o.v, B2AShapes))

ReadEmbeddedCurve(b, p) ==
  CASE ~Readable(b, p, 8) -> NotRead
    [] U32(b, p) = CurveType -> Asserted(TypeCurveRead(b, p + 8))
    [] U32(b, p) = ParametricCurveType -> Asserted(TypeParametricCurveRead(b, p + 8))
    [] OTHER -> NotRead
\* The reader skips to the next multiple of four, if the padding is there.
ReadCurveAt(st, b) ==
  IF st.r # "ok" THEN st
  ELSE Then(st, ReadEmbeddedCurve(b, st.at), LAMBDA got :
         IF AfterAlignment(got.at) > Len(b) THEN [st EXCEPT !.r = "nil"]
         ELSE [st EXCEPT !.o = Append(@, got.o), !.at = AfterAlignment(got.at)])
ReadSetOfCurves(b, p, n) ==
  LET st == FoldLeft(LAMBDA s, k : ReadCurveAt(s, b), [r |-> "ok", at |-> p, o |-> <<>>],
                     [k \in 1 .. n |-> k])
  IN IF p > Len(b) THEN NotRead
     ELSE Ended(st, LAMBDA curves : StageAllocToneCurves(n, curves))
ReadMatrix(b, p) ==
  IF Readable(b, p, 48) THEN Got(StageAllocMatrix(3, 3, Each32(b, p, 9), Each32(b, p + 36, 3)), p + 48)
  ELSE NotRead
ReadCLUT(b, p, in, out) ==
  LET grid  == Bytes(b, p, MaxChannels)
      width == U8(b, p + 16)
      n     == Wrap(out * CubeSize(SubSeq(grid, 1, in)))
      values == [k \in 1 .. n |-> IF width = 1 THEN From8to16(U8(b, p + 19 + k))
                                  ELSE U16(b, p + 18 + 2 * k)]
  IN CASE ~Readable(b, p, 20) \/ 1 \in {grid[k] : k \in DOMAIN grid} \/ n = 0 -> NotRead
       [] width \notin {1, 2} \/ ~Readable(b, p + 20, width * n) -> NotRead
       [] OTHER -> Got(StageAllocCLut(SubSeq(grid, 1, in), out, values, FALSE), p + 20 + width * n)

\* One part of the pipeline read at its offset, if it has one.
InsertPart(st, b, part, offset, base, curves) ==
  LET at  == Moved(offset, base)
      stage == CASE part = "C"   -> ReadCLUT(b, at, st.o.in0, st.o.out0)
                 [] part = "Mat" -> ReadMatrix(b, at)
                 [] OTHER        -> ReadSetOfCurves(b, at, curves)
      Inserted(ins) == [st EXCEPT !.r = IF ins.ok THEN "ok" ELSE "nil", !.o.p = ins.p]
  IN IF st.r # "ok" \/ offset = 0 THEN st
     ELSE Then(st, stage, LAMBDA got : Inserted(InsertAtEnd(st.o.p, got.o)))
ReadParts(b, p, order, outCurves) ==
  LET in  == U8(b, p)
      out == U8(b, p + 1)
      Offset(part) == U32(b, p + 4 + 4 * (CHOOSE k \in 0 .. 4 : DirectoryOrder[k + 1] = part))
      st  == FoldLeft(LAMBDA s, part : InsertPart(s, b, part, Offset(part), p - TypeBase,
                                                  IF part \in outCurves THEN out ELSE in),
                      [r |-> "ok", at |-> p,
                       o |-> [p |-> PipelineAlloc(in, out), in0 |-> in, out0 |-> out]], order)
  IN IF ~Readable(b, p, 24) \/ in \notin 1 .. 15 \/ out \notin 1 .. 15 THEN NotRead
     ELSE Ended(st, LAMBDA o : Lut(o.p))
TypeLUTA2BRead(b, p) == ReadParts(b, p, <<"A", "C", "M", "Mat", "B">>, {"M", "B"})
TypeLUTB2ARead(b, p) == ReadParts(b, p, <<"B", "Mat", "M", "C", "A">>, {"A"})

----------------------------------------------------------------------------
(* Multi-processing elements: any stages of three types.                   *)

SegmentedCurveSig == 1668641382       \* 'curf'
FormulaSegmentSig == 1885434470       \* 'parf'
SampledSegmentSig == 1935764838       \* 'samf'
StageSig == [CurveSet |-> 1668707188, Matrix |-> 1835103334, CLut |-> 1668052340,
             BAcs |-> 1648444243, EAcs |-> 1698775891]

\* Parameters of the formulas, which are the types 6, 7 and 8 of a curve.
FormulaParams == <<4, 5, 5>>
SegmentBytes(s) ==
  IF s.type = 0
  THEN Wrote(EachAs32(<<SampledSegmentSig, 0, Len(s.params) - 1>>) \o EachAs32(Tail(s.params)))
  ELSE IF s.type \notin 6 .. 8 THEN Refused
  ELSE Wrote(EachAs32(<<FormulaSegmentSig, 0>>) \o B16(s.type - 6) \o B16(0)
             \o EachAs32(SubSeq(s.params, 1, FormulaParams[s.type - 5])))
\* A curve without segments loops over 2^32 - 1 of them.
WriteSegmentedCurve(c) ==
  LET n == Len(c.segments)
  IN IF n = 0 THEN WritePanics
     ELSE InTurn(Wrote(EachAs32(<<SegmentedCurveSig, 0>>) \o B16(n) \o B16(0)
                       \o EachAs32([k \in 1 .. (n - 1) |-> c.segments[k].end])),
                 AllWritten([k \in 1 .. n |-> SegmentBytes(c.segments[k])]))

FloatsOk(values) == \A k \in DOMAIN values : FloatOk(values[k])
\* The first sample is not stored: it is what the curve computes there.
Implicit == 0
ReadSegment(st, b) ==
  LET sig   == U32(b, st.at)
      type  == U16(b, st.at + 8)
      count == U32(b, st.at + 8)
      n     == IF sig = FormulaSegmentSig THEN FormulaParams[type + 1] ELSE count
      at    == st.at + 12
      params == Each32(b, at, n)
      s     == IF sig = FormulaSegmentSig THEN Segment(type + 6, params)
               ELSE Segment(0, <<Implicit>> \o params)
  IN CASE st.r # "ok" -> st
       [] ~Readable(b, st.at, 12) \/ sig \notin {FormulaSegmentSig, SampledSegmentSig} -> [st EXCEPT !.r = "nil"]
       [] sig = FormulaSegmentSig /\ type > 2 -> [st EXCEPT !.r = "nil"]
       [] sig = SampledSegmentSig /\ count = Huge -> [st EXCEPT !.r = "panic"]
       [] ~Readable(b, at, 4 * n) -> [st EXCEPT !.r = "nil"]
       [] ~FloatsOk(params) -> [st EXCEPT !.r = "nil"]
       [] OTHER -> [st EXCEPT !.o = Append(@, s), !.at = at + 4 * n]
ReadSegmentedCurve(b, p) ==
  LET n  == U16(b, p + 8)
      breaks == Each32(b, p + 12, n - 1)
      st == FoldLeft(LAMBDA s, k : ReadSegment(s, b),
                     [r |-> "ok", at |-> p + 12 + 4 * (n - 1), o |-> <<>>], [k \in 1 .. n |-> k])
      End(k) == IF k < n THEN breaks[k] ELSE PlusInfinity
  IN CASE ~Readable(b, p, 12) \/ U32(b, p) # SegmentedCurveSig \/ n = 0 -> NotRead
       [] ~Readable(b, p + 12, 4 * (n - 1)) \/ ~FloatsOk(breaks) -> NotRead
       [] st.r = "ok" ->
            Got(BuildSegmentedCurve([k \in 1 .. n |-> [st.o[k] EXCEPT !.end = End(k)]]), st.at)
       [] OTHER -> [r |-> st.r]

\* Every curve at its offset in the element.
TypeMPEcurveWrite(stage) ==
  InTurn(Wrote(B16(stage.in) \o B16(stage.in)),
         WritePositionTable(TypeBase + 4, [k \in 1 .. stage.in |-> WriteSegmentedCurve(stage.data[k])]))
ReadMPECurve(st, b, entry) ==
  CASE st.r # "ok"  -> st
    [] entry.offset > Len(b) -> [st EXCEPT !.r = "nil"]
    [] OTHER -> Then(st, ReadSegmentedCurve(b, entry.offset), LAMBDA got : [st EXCEPT !.o = Append(@, got.o)])
\* Numbers of channels that cannot be read or differ are an untyped nil,
\* which the caller asserts to be a stage.
TypeMPEcurveRead(b, p) ==
  LET n == U16(b, p)
  IN IF ~Readable(b, p, 4) \/ U16(b, p) # U16(b, p + 2) THEN ReadPanics
     ELSE After(ReadPositionTable(b, p + 4, n, p - TypeBase), LAMBDA table :
            Ended(FoldLeft(LAMBDA st, entry : ReadMPECurve(st, b, entry), Got(<<>>, p), table.e),
                  LAMBDA curves : StageAllocToneCurves(n, curves)))

TypeMPEmatrixWrite(stage) ==
  LET offset == IF stage.data.offset = <<>> THEN [k \in 1 .. stage.out |-> 0] ELSE stage.data.offset
  IN Wrote(B16(stage.in) \o B16(stage.out) \o EachAs32(stage.data.matrix \o offset))
TypeMPEmatrixRead(b, p) ==
  LET in  == U16(b, p)
      out == U16(b, p + 2)
  IN CASE ~Readable(b, p, 4) \/ in >= MaxChannels \/ out >= MaxChannels -> ReadPanics
       [] ~Readable(b, p + 4, 4 * (in * out + out)) -> ReadPanics
       [] ~FloatsOk(Each32(b, p + 4, in * out + out)) -> ReadPanics
       [] OTHER -> Got(StageAllocMatrix(out, in, Each32(b, p + 4, in * out),
                                        Each32(b, p + 4 + 4 * in * out, out)), p)

\* A grid that could be written is a failure.  What is read is a grid of floats,
\* for which no interpolation is accepted (see Interpolated): every path of the
\* reader gives nil, and the assertion on it in ReadMPEElem panics.
TypeMPEclutWrite(stage) == Refused
TypeMPEclutRead(b, p) == ReadPanics

\* Two element types are known and have no writer: it is called all the same.
WriteMPEElem(stage) ==
  CASE stage.type \in {"BAcs", "EAcs"} -> WritePanics
    [] stage.type = "CurveSet" -> TypeMPEcurveWrite(stage)
    [] stage.type = "Matrix"   -> TypeMPEmatrixWrite(stage)
    [] stage.type = "CLut"     -> TypeMPEclutWrite(stage)
    [] OTHER -> Refused
WriteMPEAt(st, stage) ==
  LET elem  == WriteMPEElem(stage)
      start == st.base + Len(st.b)
      body  == EachAs32(<<StageSig[stage.type], 0>>) \o elem.b
      whole == body \o WriteAlignment(start + Len(body))
  IN IF st.r # "ok" \/ elem.r # "ok" THEN [st EXCEPT !.r = IF @ = "ok" THEN elem.r ELSE @]
     ELSE [st EXCEPT !.b = @ \o whole,
                     !.table = @ \o EachAs32(<<Len(st.b), Len(whole) - TypeBase>>)]
TypeMPEWrite(base, o) ==
  LET p      == o.v
      n      == Len(p.elements)
      header == B16(p.in) \o B16(p.out) \o B32(n)
      first  == TypeBase + 8 + 8 * n
      st == FoldLeft(WriteMPEAt, [r |-> "ok", b |-> Zeros(first), base |-> base, table |-> <<>>], p.elements)
  IN IF o.go # PipelineGo THEN Refused
     ELSE [r |-> st.r, b |-> header \o st.table \o SubSeq(st.b, first + 1, Len(st.b))]

ReadMPEElem(st, b, entry) ==
  LET sig == U32(b, entry.offset)
      p   == entry.offset + 8
      stage == CASE sig = StageSig.CurveSet -> TypeMPEcurveRead(b, p)
                 [] sig = StageSig.Matrix   -> TypeMPEmatrixRead(b, p)
                 [] OTHER                   -> TypeMPEclutRead(b, p)
      Inserted(ins) == [st EXCEPT !.r = IF ins.ok THEN "ok" ELSE "nil", !.o = ins.p]
  IN CASE st.r # "ok" -> st
       [] ~Readable(b, entry.offset, 8) \/ sig \notin {StageSig[t] : t \in DOMAIN StageSig} -> [st EXCEPT !.r = "nil"]
       [] sig \in {StageSig.BAcs, StageSig.EAcs} -> st
       [] OTHER -> Then(st, stage, LAMBDA got : Inserted(InsertAtEnd(st.o, got.o)))
TypeMPERead(b, p) ==
  LET in    == U16(b, p)
      out   == U16(b, p + 2)
      Read(table) == FoldLeft(LAMBDA st, entry : ReadMPEElem(st, b, entry),
                              Got(PipelineAlloc(in, out), p), table.e)
  IN IF ~Readable(b, p, 8) \/ in \notin 1 .. 15 \/ out \notin 1 .. 15 THEN NotRead
     ELSE After(ReadPositionTable(b, p + 8, U32(b, p + 4), p - TypeBase), LAMBDA table :
            After(Read(table), LAMBDA st :
              IF st.o.in # in \/ st.o.out # out THEN NotRead ELSE Got(Lut(st.o), p)))
=============================================================================
