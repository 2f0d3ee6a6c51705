----------------------------- MODULE ToneCurves -----------------------------
(***************************************************************************)
(* Tone curves as the rest of the library builds and copies them.          *)
(*                                                                         *)
(* A curve is its segments and its table.  A segment is the type of its    *)
(* formula, the parameters and where it ends; type 0 is a list of samples. *)
(* The values of the table of a curve built from a formula are not told    *)
(* apart: the table is a ramp of the right length.  A real number is the   *)
(* integer number of 1/65536 it stands for.                                *)
(***************************************************************************)
EXTENDS Integers, Sequences

CONSTANT GridPoints    \* entries of the table of a built curve, 4096 in the code

ASSUME GridPointsAssumption == GridPoints \in Nat \ {0, 1, 2}

MaxChannels == 16      \* cmsMAXCHANNELS
MaxEntries == 65530
One == 65536           \* 1.0

NoCurve == [segments |-> <<>>, table |-> <<>>]
SegmentTo(type, params, end) == [type |-> type, params |-> params, end |-> end]
PlusInfinity == 2139095040     \* the bits of the float32
Segment(type, params) == SegmentTo(type, params, PlusInfinity)

\* AllocateToneCurveStruct: neither too many entries nor none of both.
AllocateToneCurveStruct(segments, table) ==
  IF Len(table) > MaxEntries \/ (table = <<>> /\ segments = <<>>) THEN NoCurve
  ELSE [segments |-> segments, table |-> table]
DupToneCurve(c) == AllocateToneCurveStruct(c.segments, c.table)

\* EntriesByGamma: a linear gamma has two entries.
EntriesByGamma(gamma) == IF (gamma - One) \in -65 .. 65 THEN 2 ELSE GridPoints
EntriesOf(segments) ==
  IF Len(segments) = 1 /\ segments[1].type = 1
  THEN EntriesByGamma(segments[1].params[1]) ELSE GridPoints
Ramp(n) == [k \in 1 .. n |-> ((k - 1) * 65535) \div (n - 1)]

BuildTabulatedCurve(table)  == AllocateToneCurveStruct(<<>>, table)
BuildSegmentedCurve(segments) == AllocateToneCurveStruct(segments, Ramp(EntriesOf(segments)))

\* Parameters of the formulas by type; a negative type is the inverse.
ParametricTypes == {1, 2, 3, 4, 5, 6, 7, 8, 108, 109}
ParameterCount == <<1, 3, 4, 5, 7, 4, 5, 5>>
BuildParametricCurve(type, params) ==
  IF type \in ParametricTypes \/ -type \in ParametricTypes
  THEN BuildSegmentedCurve(<<Segment(type, params)>>) ELSE NoCurve
BuildGamma(gamma) == BuildParametricCurve(1, <<gamma>>)
=============================================================================
