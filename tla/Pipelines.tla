----------------------------- MODULE Pipelines -----------------------------
(***************************************************************************)
(* Stages and pipelines as values.  A stage has a type, what it implements *)
(* (its type, or what it is known to compute), its channels and its data;  *)
(* a pipeline has its channels and its stages in order.                    *)
(***************************************************************************)
EXTENDS ToneCurves, FiniteSets, SequencesExt

CONSTANT MaxWord       \* the largest 32-bit unsigned number

ASSUME MaxWordAssumption == MaxWord \in Nat \ {0}

MaxInputDimensions == 15
Wrap(n) == n % (MaxWord + 1)

NoStage == [type |-> "none", implements |-> "none", in |-> 0, out |-> 0, data |-> <<>>]
StageAllocPlaceholder(type, in, out, data) ==
  [type |-> type, implements |-> type, in |-> in, out |-> out, data |-> data]
StageAllocIdentity(n) == StageAllocPlaceholder("Identity", n, n, <<>>)

\* Curves are copied; without curves each channel gets a gamma of 1.
StageAllocToneCurves(n, curves) ==
  LET copies == [k \in 1 .. n |-> IF curves = <<>> THEN BuildGamma(One) ELSE DupToneCurve(curves[k])]
  IN IF \E k \in 1 .. n : copies[k] = NoCurve THEN NoStage
     ELSE StageAllocPlaceholder("CurveSet", n, n, copies)
StageAllocIdentityCurves(n) == [StageAllocToneCurves(n, <<>>) EXCEPT !.implements = "Identity"]

\* rows are outputs; <<>> as offset is a nil one.
StageAllocMatrix(rows, cols, matrix, offset) ==
  IF rows * cols = 0 THEN NoStage
  ELSE StageAllocPlaceholder("Matrix", cols, rows, [matrix |-> matrix, offset |-> offset])

\* The nodes of a grid, 0 for an error.  The product is checked against the
\* dimension just multiplied, so the next one may still wrap it.
CubeStep(rv, dim) ==
  IF rv = 0 \/ dim <= 1 THEN 0
  ELSE LET r == Wrap(rv * dim) IN IF r > MaxWord \div dim THEN 0 ELSE r
CubeSize(dims) == FoldRight(LAMBDA dim, rv : CubeStep(rv, dim), dims, 1)

\* The interpolation the factory has for these channels.  The routine kept must
\* be a 16-bit one: a grid of floats has none that is accepted.
Interpolated(in, out, float) == in \in 1 .. MaxInputDimensions /\ ~(in >= 4 /\ out >= 128) /\ ~float

\* A table shorter than the grid panics: the callers of the model have tables
\* as long.
StageAllocCLut(dims, out, table, float) ==
  LET entries == Wrap(out * CubeSize(dims))
  IN IF Len(dims) > MaxInputDimensions \/ entries = 0 \/ ~Interpolated(Len(dims), out, float)
     THEN NoStage
     ELSE StageAllocPlaceholder("CLut", Len(dims), out,
            [grid |-> dims, table |-> SubSeq(table, 1, entries)])

\* uipow: n values at the nodes of a grid of b dimensions of a points each.
UipowStep(rv, a) == IF rv > MaxWord \div a THEN MaxWord ELSE rv * a
Uipow(n, a, b) ==
  IF a = 0 \/ n = 0 THEN 0
  ELSE LET rv == FoldLeft(UipowStep, 1, [k \in 1 .. b |-> a])
       IN IF rv > MaxWord \div n THEN MaxWord ELSE rv * n

\* cmsStageDup: the data is copied with the stage.
\* Mistake: of a curve only the table is copied.
StageDupTables(s) ==
  IF s.type = "CurveSet" THEN [s EXCEPT !.data = [k \in DOMAIN @ |-> BuildTabulatedCurve(@[k].table)]]
  ELSE s
StageDup(s) ==
  IF s.type = "CurveSet" THEN [StageAllocToneCurves(s.in, s.data) EXCEPT !.implements = s.implements]
  ELSE s

----------------------------------------------------------------------------
NoPipeline == [in |-> 0, out |-> 0, elements |-> <<>>, saveAs8 |-> FALSE, nil |-> TRUE]

Consistent(elements) ==
  \A k \in 1 .. (Len(elements) - 1) : elements[k + 1].in = elements[k].out

\* BlessLUT sets the channels of the pipeline even when it then finds two
\* stages that do not fit.
Blessed(p) ==
  IF p.elements = <<>> THEN p
  ELSE [p EXCEPT !.in = Head(p.elements).in, !.out = Last(p.elements).out]

PipelineAlloc(in, out) ==
  IF in >= MaxChannels \/ out >= MaxChannels THEN NoPipeline
  ELSE [in |-> in, out |-> out, elements |-> <<>>, saveAs8 |-> FALSE, nil |-> FALSE]

\* An insertion that fails leaves the stage where it put it.
Done(p) == [ok |-> Consistent(p.elements), p |-> Blessed(p)]
InsertAtBegin(p, s) ==
  IF s = NoStage THEN [ok |-> FALSE, p |-> p]
  ELSE Done([p EXCEPT !.elements = <<s>> \o @])
InsertAtEnd(p, s) ==
  IF s = NoStage THEN [ok |-> FALSE, p |-> p]
  ELSE Done([p EXCEPT !.elements = Append(@, s)])

UnlinkFirst(p) ==
  IF p.elements = <<>> THEN p ELSE Blessed([p EXCEPT !.elements = Tail(@)])
UnlinkLast(p) ==
  IF p.elements = <<>> THEN p ELSE Blessed([p EXCEPT !.elements = Front(@)])

\* The duplicate of a pipeline that is not consistent is nil.
PipelineDup(p) ==
  LET copy == [p EXCEPT !.elements = [k \in DOMAIN @ |-> StageDup(@[k])]]
  IN IF p.nil \/ p.in >= MaxChannels \/ p.out >= MaxChannels \/ ~Consistent(p.elements)
     THEN NoPipeline ELSE Blessed(copy)

\* cmsPipelineCat: copies of the second's stages until one does not fit.
CatStep(r, s) == IF r.ok THEN InsertAtEnd(r.p, StageDup(s)) ELSE r
PipelineCat(p, q) ==
  IF p.elements = <<>> /\ q.elements = <<>>
  THEN [ok |-> TRUE, p |-> [p EXCEPT !.in = q.in, !.out = q.out]]
  ELSE LET after[k \in 0 .. Len(q.elements)] ==
             IF k = 0 THEN [ok |-> TRUE, p |-> p] ELSE CatStep(after[k - 1], q.elements[k])
           r == after[Len(q.elements)]
       IN IF r.ok THEN Done(r.p) ELSE r

\* cmsPipelineCheckAndRetrieveStages
HasShape(p, types) ==
  Len(p.elements) = Len(types) /\ \A k \in DOMAIN types : p.elements[k].type = types[k]
=============================================================================
