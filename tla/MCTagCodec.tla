----------------------------- MODULE MCTagCodec -----------------------------
EXTENDS TagCodec

Ascii(m, chars) == MLUsetASCII(m, 0, 0, chars).m
Name == Ascii(MLUalloc(1), <<65, 66, 67>>)
FiveNames == FoldLeft(LAMBDA m, section : MLUsetASCII(m, PS, section, <<section % 100>>).m,
                      MLUalloc(5), Sections)

Gamma2 == BuildGamma(2 * One + 5)
Linear == BuildGamma(One)
Formula == BuildParametricCurve(4, <<2 * One, One, 0, One \div 2, 100>>)
Inverse1 == BuildParametricCurve(-4, <<2 * One, One, 0, One \div 2, 100>>)
Sampled == BuildTabulatedCurve(<<0, 1000, 65535>>)
Sampled3 == BuildTabulatedCurve(<<0, 2000, 65535>>)
Sampled4 == BuildTabulatedCurve(<<0, 257, 257 * 99, 65535>>)

Curves(n, c) == StageAllocToneCurves(n, [k \in 1 .. n |-> c])
Mat == StageAllocMatrix(3, 3, <<One, 5, 0, 0, One, 0, 0, 7, One>>, <<>>)
Matf(n) == StageAllocMatrix(n, n, [k \in 1 .. n * n |-> k], <<>>)
Table(in, out) == StageAllocCLut([k \in 1 .. in |-> 2], out,
                                 [k \in 1 .. out * Uipow(1, 2, in) |-> 257 * k], FALSE)
Piped(stages) ==
  FoldLeft(LAMBDA p, s : InsertAtEnd(p, s).p, PipelineAlloc(Head(stages).in, Last(stages).out), stages)
As8(p) == [p EXCEPT !.saveAs8 = TRUE]
Segments2 == BuildSegmentedCurve(<<SegmentTo(6, <<1, 2, 3, 4>>, 77), Segment(7, <<1, 2, 3, 4, 5>>)>>)

In(t, o) == [tag |-> t, v4 |-> FALSE, o |-> o]
In4(t, o) == [tag |-> t, v4 |-> TRUE, o |-> o]

\* One input for each object, in both versions of a profile.
Both(t, objects) == [k \in 1 .. 2 * Len(objects) |->
                       [tag |-> t, v4 |-> k % 2 = 0, o |-> objects[(k + 1) \div 2]]]
Early(t, objects) == [k \in DOMAIN objects |-> [tag |-> t, v4 |-> FALSE, o |-> objects[k]]]
Pipes(pipelines) == [k \in DOMAIN pipelines |-> Lut(pipelines[k])]

Numbers ==
  Early("RedColorant", <<Obj("*cmsCIEXYZ", <<1, -2, 3>>)>>)
  \o Early("Chromaticity", <<Obj("*CmsCIExyYTRIPLE", <<1, 2, 3, 4, 5, 6>>)>>)
  \o Early("ColorantOrder", <<Obj("[]uint8", <<2, 0, 1>> \o [k \in 1 .. 13 |-> 255])>>)
  \o Early("ChromaticAdaptation", <<Obj("[]float64", Identity3), Obj("*cmsMAT3", Identity3),
                                    Obj("*cmsVEC3", <<1, 2, 3>>)>>)
  \o Early("DateTime", <<Obj("*time.Time", <<2024, 2, 29, 1, 2, 3>>)>>)
  \o Early("Measurement", <<Obj("*cmsICCMeasurementConditions", <<1, 2, 3, 4, 5, 6, 7>>)>>)
  \o Early("ViewingConditions", <<Obj("*cmsICCViewingConditions", <<1, 2, 3, 4, 5, 6, 7>>)>>)
  \o Early("Screening", <<Obj("*cmsScreening", [flag |-> 1, n |-> 2, channels |-> <<1, 2, 3, 4, 5, 6>>])>>)
  \o Early("cicp", <<Obj("*cmsVideoSignalType", <<1, 2, 3, 4>>)>>)
  \o Early("Ps2CSA", <<Obj("*cmsICCData", [flag |-> 0, len |-> 3, data |-> <<7, 8, 9>>])>>)
  \o Early("Vcgt", <<Obj("[]*CmsToneCurve", <<Gamma2, Gamma2, Gamma2>>)>>)
Texts ==
  Early("CharTarget", <<Text(Name)>>) \o Both("Copyright", <<Text(Name)>>)
  \o Both("ProfileDescription", <<Text(Name)>>)
  \o Early("ScreeningDesc", <<Text(Ascii(MLUalloc(1), <<>>))>>)
  \o Early("CrdInfo", <<Text(FiveNames)>>)
  \o Early("UcrBg", <<Obj("*cmsUcrBg", [ucr |-> Sampled, bg |-> Linear, desc |-> Name])>>)
  \o Early("ColorantTable", <<ColorList(AppendNamedColor(AllocNamedColorList(0), BlankColor(0)))>>)
  \o Early("NamedColor2", <<ColorList(AppendNamedColor(AllocNamedColorList(1), BlankColor(1)))>>)
  \o Early("ProfileSequenceDesc", <<Sequence(AllocProfileSequence(1))>>)
  \o Early("ProfileSequenceId", <<Sequence(AllocProfileSequence(1))>>)
  \o Early("Meta", <<Dict(DictAddEntry(DictAddEntry(<<>>, DictEntry(<<65>>, <<66>>, NoText, NoText)),
                                       DictEntry(<<67>>, <<68, 69>>, NoText, NoText))),
                     Dict(DictAddEntry(<<>>, DictEntry(<<65>>, <<66>>, Name, NoText)))>>)
AllCurves == <<Curve(Gamma2), Curve(Linear), Curve(Formula), Curve(Inverse1), Curve(Sampled)>>
PipelineInputs ==
  Both("AToB0", Pipes(<<Piped(<<Mat, Curves(3, Linear), Table(3, 1), Curves(1, Sampled4)>>),
                        As8(Piped(<<Curves(2, Sampled4), Table(2, 1), Curves(1, Linear)>>)),
                        As8(Piped(<<Curves(1, Sampled)>>)),
                        Piped(<<StageAllocToneCurves(2, <<Sampled, Sampled3>>)>>),
                        Piped(<<Curves(1, Sampled)>>),
                        Piped(<<Table(2, 2), Curves(2, Sampled)>>),
                        PipelineAlloc(3, 3),
                        As8(Piped(<<Curves(3, Formula), Mat, Curves(3, Formula)>>)),
                        As8(Piped(<<Curves(2, Formula), Table(2, 1), Curves(1, Formula)>>)),
                        Piped(<<Curves(2, Gamma2), Table(2, 3), Curves(3, Formula), Mat, Curves(3, Linear)>>)>>))
  \o Both("BToA0", Pipes(<<Piped(<<Curves(1, Inverse1)>>), PipelineAlloc(3, 3),
                           Piped(<<Curves(3, Formula), Mat, Curves(3, Linear), Table(3, 2),
                                   Curves(2, Formula)>>)>>))
  \o Early("DToB0", Pipes(<<Piped(<<Curves(2, Segments2), Matf(2)>>), Piped(<<Matf(1)>>),
                            Piped(<<Table(2, 1)>>), Piped(<<Curves(1, Sampled)>>)>>))
MCInputs == Numbers \o Texts \o Both("RedTRC", AllCurves) \o PipelineInputs

Foreign(t, type, bytes) == [tag |-> t, type |-> type, v4 |-> type = "Mlu", bytes |-> bytes]
\* A curve of one entry, and the two bytes to the next multiple of four.
OneGamma == <<99, 117, 114, 118>> \o Zeros(4) \o B32(1) \o B16(512) \o Zeros(2)
\* One element, a grid of two nodes with the values 0 and 1.
GridOfFloats == B16(1) \o B16(1) \o EachAs32(<<1, 24, 36>>) \o EachAs32(<<StageSig.CLut, 0>>)
                \o B16(1) \o B16(1) \o <<2>> \o Zeros(15) \o EachAs32(<<0, 1065353216>>)
MCForeignTags ==
  <<Foreign("Copyright", "Mlu", B32(1) \o B32(12) \o B16(25966) \o B16(21843) \o B32(4) \o B32(28) \o <<0, 65, 0, 66>>),
    Foreign("ProfileDescription", "TextDescription",
            B32(3) \o <<65, 66, 0>> \o B32(0) \o B32(0) \o B16(0) \o Zeros(68)),
    Foreign("Copyright", "Text", <<65, 66, 0>>),
    Foreign("AToB0", "LutAtoB",
            <<2, 2, 0, 0>> \o B32(32) \o Zeros(16) \o OneGamma \o OneGamma),
    Foreign("Technology", "Signature", B32(1735549284)),
    Foreign("DToB0", "MPE", TypeMPEWrite(0, Lut(Piped(<<Matf(2)>>))).b),
    Foreign("DToB0", "MPE", GridOfFloats)>>
=============================================================================
