------------------------ MODULE MCFormattedTransform ------------------------
EXTENDS FormattedTransform

\* Every combination of channels, extras and flags that has an integer row.
MCIntegers ==
  { Fmt("any", channels, extra, bytes, flags) :
      channels \in 1 .. 6, extra \in 0 .. 3, bytes \in {1, 2},
      flags \in SUBSET {"planar", "endian", "swap", "flavor", "first"} }

MCFloats ==
  { Fmt("any", channels, extra, bytes, flags \cup {"float"}) :
      channels \in {1, 3, 4}, extra \in 0 .. 2, bytes \in {0, 2, 4},
      flags \in SUBSET {"planar", "swap", "first", "flavor"} }

\* An alpha that is multiplied in is an extra channel, if there is one.
MCPremultiplied ==
  { Fmt("any", channels, extra, type[1], flags \cup {"premul"} \cup type[2]) :
      channels \in {1, 3, 4}, extra \in 0 .. 2,
      type \in { <<1, {}>>, <<2, {}>>, <<0, {"float"}>>, <<4, {"float"}>> },
      flags \in SUBSET {"planar", "swap", "first"} }

MCTriples ==
  { Fmt(space, 3, extra, bytes, flags \cup {"float"}) :
      space \in {"Lab", "XYZ"}, extra \in {0, 1}, bytes \in {0, 4},
      flags \in SUBSET {"planar"} }

MCSpecial == LabV2Formats \cup
  { [f EXCEPT !.flags = @ \cup {"optimized"}] : f \in LabV2Formats } \cup
  { Fmt("GRAY", 1, 0, 0, {"float"}), Fmt("MCH2", 2, 0, 1, {}),
    Fmt("any", 3, 0, 1, {"optimized"}), Fmt("any", 3, 1, 1, {"swap", "optimized"}) }

MCFormats == MCIntegers \cup MCFloats \cup MCPremultiplied \cup MCTriples \cup MCSpecial

RGB16 == Fmt("any", 3, 0, 2, {})
RGBDouble == Fmt("any", 3, 0, 0, {"float"})

\* Every format into itself, into one of integers and into one of floats,
\* which makes the transform one of integers or of floats.
MCPairs ==
  { <<f, f>> : f \in MCFormats } \cup (MCFormats \X {RGB16, RGBDouble})
    \cup ({RGB16} \X MCSpecial)
MCChanged == { <<RGB16, RGB16>>, <<RGB16, RGBDouble>> }
MCChanges == { <<f, f>> : f \in MCFormats }
=============================================================================
