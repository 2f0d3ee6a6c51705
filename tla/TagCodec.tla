------------------------------ MODULE TagCodec ------------------------------
(***************************************************************************)
(* The tags and their types: which types a tag may have, which is chosen   *)
(* for a profile of a version, and what the handler of a type does with an *)
(* object: duplicate it, write it, read it back.                           *)
(*                                                                         *)
(* One tag is followed through the handlers, as cmsWriteTag, SaveTags and  *)
(* cmsReadTag call them.  The stream may start the tag at any even         *)
(* position (cmsWriteAlignment does not align), may be cut short, and may  *)
(* go on after the tag.                                                    *)
(***************************************************************************)
EXTENDS LutTypes

CONSTANTS Inputs,      \* sequence of [tag, v4, o]: what a program gives to cmsWriteTag
          ForeignTags, \* sequence of [tag, v4, type, bytes]: tags other programs wrote
          Starts,      \* positions of the tag in the stream
          MaxSaves     \* times the tag is written

VARIABLES tag, v4,     \* the tag and whether the profile is of version 4
          held,        \* the object in the slot of the profile
          given,       \* the object given to cmsWriteTag
          disk,        \* the tag in the stream: where, its bytes, its type
          got,         \* what the last read gave
          before,      \* what the read before it gave
          left,        \* bytes of the tag there were to read
          pc, saves

vars == <<tag, v4, held, given, disk, got, before, left, pc, saves>>

Luts   == {"Lut16", "Lut8"}
TextTypes == {"Text", "TextDescription", "Mlu"}
SupportedTags ==
  [AToB0 |-> Luts \cup {"LutAtoB"}, BToA0 |-> Luts \cup {"LutBtoA"},
   RedColorant |-> {"XYZ"}, RedTRC |-> {"Curve", "Parametric"}, GrayTRC |-> {"Curve", "Parametric"},
   DateTime |-> {"DateTime"}, CharTarget |-> {"Text"}, ChromaticAdaptation |-> {"S15Fixed16"},
   Chromaticity |-> {"Chromaticity"}, ColorantOrder |-> {"ColorantOrder"},
   ColorantTable |-> {"ColorantTable"}, Copyright |-> TextTypes, ProfileDescription |-> TextTypes,
   Luminance |-> {"XYZ"}, NamedColor2 |-> {"NamedColor"},
   ProfileSequenceDesc |-> {"ProfileSequenceDesc"}, ProfileSequenceId |-> {"ProfileSequenceId"},
   Technology |-> {"Signature"}, Measurement |-> {"Measurement"}, Ps2CSA |-> {"Data"},
   UcrBg |-> {"UcrBg"}, CrdInfo |-> {"CrdInfo"}, DToB0 |-> {"MPE"},
   ScreeningDesc |-> {"TextDescription"}, ViewingConditions |-> {"ViewingConditions"},
   Screening |-> {"Screening"}, Vcgt |-> {"Vcgt"}, Meta |-> {"Dictionary"}, cicp |-> {"VideoSignal"}]
Tags == DOMAIN SupportedTags
ElemCount(t) == IF t = "ChromaticAdaptation" THEN 9 ELSE 1

DecideLUTtype(version4, o, v4Type) ==
  CASE o.go # PipelineGo -> "none"
    [] version4 -> v4Type
    [] OTHER    -> IF o.v.saveAs8 THEN "Lut8" ELSE "Lut16"
DecideCurveType(version4, o) ==
  CASE o.go # "*CmsToneCurve" -> "none"
    [] version4 /\ Len(o.v.segments) = 1 /\ o.v.segments[1].type \in 0 .. 5 -> "Parametric"
    [] OTHER -> "Curve"
DecideTextType(version4, v2Type) == IF version4 THEN "Mlu" ELSE v2Type
DecideType(t, version4, o) ==
  CASE t = "AToB0" -> DecideLUTtype(version4, o, "LutAtoB")
    [] t = "BToA0" -> DecideLUTtype(version4, o, "LutBtoA")
    [] t \in {"RedTRC", "GrayTRC"} -> DecideCurveType(version4, o)
    [] t = "Copyright" -> DecideTextType(version4, "Text")
    [] t = "ProfileDescription" -> DecideTextType(version4, "TextDescription")
    [] OTHER -> CHOOSE type \in SupportedTags[t] : TRUE

----------------------------------------------------------------------------
(* The handlers.                                                           *)

WriteFn(type, medium, version4, base, o, n) ==
  CASE type = "XYZ" -> TypeXYZWrite(o)
    [] type = "Chromaticity" -> TypeChromaticityWrite(o)
    [] type = "ColorantOrder" -> TypeColorantOrderTypeWrite(o)
    [] type = "S15Fixed16" -> TypeS15Fixed16Write(o, n)
    [] type = "Signature" -> TypeSignatureWrite(o)
    [] type = "DateTime" -> TypeDateTimeWrite(o)
    [] type = "Measurement" -> TypeMeasurementWrite(o)
    [] type = "ViewingConditions" -> TypeViewingConditionsWrite(o)
    [] type = "Screening" -> TypeScreeningWrite(o)
    [] type = "VideoSignal" -> TypeVideoSignalWrite(o)
    [] type = "Data" -> TypeDataWrite(medium, o)
    [] type = "Curve" -> TypeCurveWrite(o)
    [] type = "Parametric" -> TypeParametricCurveWrite(o)
    [] type = "Vcgt" -> TypeVcgtWrite(o)
    [] type = "Text" -> TypeTextWrite(medium, o)
    [] type = "TextDescription" -> TypeTextDescriptionWrite(medium, o)
    [] type = "Mlu" -> TypeMLUWrite(o)
    [] type = "CrdInfo" -> TypeCrdInfoWrite(medium, o)
    [] type = "UcrBg" -> TypeUcrBgWrite(medium, o)
    [] type = "ColorantTable" -> TypeColorantTableWrite(medium, o)
    [] type = "NamedColor" -> TypeNamedColorWrite(medium, o)
    [] type = "ProfileSequenceDesc" -> TypeProfileSequenceDescWrite(medium, version4, o)
    [] type = "ProfileSequenceId" -> TypeProfileSequenceIdWrite(medium, version4, o)
    [] type = "Dictionary" -> TypeDictionaryWrite(o)
    [] type = "Lut8" -> TypeLUT8Write(o)
    [] type = "Lut16" -> TypeLUT16Write(o)
    [] type = "LutAtoB" -> TypeLUTA2BWrite(base, o)
    [] type = "LutBtoA" -> TypeLUTB2AWrite(base, o)
    [] OTHER -> TypeMPEWrite(base, o)

ReadFn(type, b, p, size) ==
  CASE type = "XYZ" -> TypeXYZRead(b, p)
    [] type = "Chromaticity" -> TypeChromaticityRead(b, p, size)
    [] type = "ColorantOrder" -> TypeColorantOrderTypeRead(b, p)
    [] type = "S15Fixed16" -> TypeS15Fixed16Read(b, p, size)
    [] type = "Signature" -> TypeSignatureRead(b, p)
    [] type = "DateTime" -> TypeDateTimeRead(b, p)
    [] type = "Measurement" -> TypeMeasurementRead(b, p)
    [] type = "ViewingConditions" -> TypeViewingConditionsRead(b, p)
    [] type = "Screening" -> TypeScreeningRead(b, p)
    [] type = "VideoSignal" -> TypeVideoSignalRead(b, p, size)
    [] type = "Data" -> TypeDataRead(b, p, size)
    [] type = "Curve" -> TypeCurveRead(b, p)
    [] type = "Parametric" -> TypeParametricCurveRead(b, p)
    [] type = "Vcgt" -> TypeVcgtRead(b, p)
    [] type = "Text" -> TypeTextRead(b, p, size)
    [] type = "TextDescription" -> TypeTextDescriptionRead(b, p, size)
    [] type = "Mlu" -> TypeMLURead(b, p, size)
    [] type = "CrdInfo" -> TypeCrdInfoRead(b, p, size)
    [] type = "UcrBg" -> TypeUcrBgRead(b, p, size)
    [] type = "ColorantTable" -> TypeColorantTableRead(b, p)
    [] type = "NamedColor" -> TypeNamedColorRead(b, p)
    [] type = "ProfileSequenceDesc" -> TypeProfileSequenceDescRead(b, p, size)
    [] type = "ProfileSequenceId" -> TypeProfileSequenceIdRead(b, p)
    [] type = "Dictionary" -> TypeDictionaryRead(b, p, size)
    [] type = "Lut8" -> TypeLUT8Read(b, p)
    [] type = "Lut16" -> TypeLUT16Read(b, p)
    [] type = "LutAtoB" -> TypeLUTA2BRead(b, p)
    [] type = "LutBtoA" -> TypeLUTB2ARead(b, p)
    [] OTHER -> TypeMPERead(b, p)

\* The duplicate goes to the slot.  Handlers refuse another Go type by nil or
\* panic on it; a signature is refused whatever it is, and a sequence
\* identifier of another type is replaced by false.
Accepted(o) == [r |-> "ok", o |-> o]
DupIf(o, goTypes) == IF o.go \in goTypes THEN Accepted(o) ELSE [r |-> "nil", o |-> o]
DupLuts == {"Lut8", "Lut16", "LutAtoB", "LutBtoA", "MPE"}
DupFn(type, o) ==
  CASE type = "ColorantOrder" -> DupIf(o, {"[]uint8"})
    [] type = "S15Fixed16" -> DupIf(o, {"[]float64", "*cmsMAT3", "*cmsVEC3"})
    [] type = "Signature" -> DupIf(o, {"[]uint32"})
    [] type \in {"Curve", "Parametric"} -> Accepted(Curve(DupToneCurve(o.v)))
    [] type \in TextTypes \cup {"CrdInfo"} -> Accepted(Text(DupText(o.v)))
    [] type = "UcrBg" -> Accepted(Obj(o.go, [ucr |-> DupToneCurve(o.v.ucr), bg |-> DupToneCurve(o.v.bg),
                                             desc |-> DupText(o.v.desc)]))
    [] type = "Vcgt" -> Accepted(Obj("**CmsToneCurve", o.v))
    [] type \in {"ProfileSequenceDesc", "ProfileSequenceId"} ->
         Accepted(IF o.go = "*cmsSEQ" THEN Sequence(DupProfileSequence(o.v)) ELSE Obj("bool", FALSE))
    [] type = "Dictionary" -> Accepted(Dict(DictDup(o.v)))
    [] type \in DupLuts -> Accepted(Lut(PipelineDup(o.v)))
    [] OTHER -> Accepted(o)

----------------------------------------------------------------------------
Nothing == Obj("nil", <<>>)
Idle == [r |-> "none"]
Others == <<1, 2, 3, 4, 5, 6>>      \* the bytes of the next tag
NoDisk == [type |-> "none", start |-> 0, r |-> "none", b |-> <<>>]

\* The types of the variables; what the writers of cmstypes.go put in the
\* stream are bytes.
TypeOK ==
  /\ tag \in Tags /\ v4 \in BOOLEAN
  /\ DOMAIN held = {"go", "v"} /\ DOMAIN given = {"go", "v"}
  /\ disk.start \in Starts \cup {0} /\ left \in Nat /\ \A k \in DOMAIN disk.b : disk.b[k] \in 0 .. 255
  /\ pc \in {"empty", "held", "saved", "refused", "panicked", "read", "unreadable", "done"}
  /\ saves \in 0 .. MaxSaves

Init == /\ tag \in Tags /\ v4 = FALSE /\ held = Nothing /\ given = Nothing /\ disk = NoDisk
        /\ got = Idle /\ before = Idle /\ left = 0 /\ pc = "empty" /\ saves = 0

\* cmsWriteTag
WriteTag(in) ==
  LET type == DecideType(in.tag, in.v4, in.o)
      dup  == DupFn(type, in.o)
  IN /\ pc = "empty" /\ in.tag = tag
     /\ type \in SupportedTags[tag]
     /\ dup.r = "ok"
     /\ held' = dup.o /\ given' = in.o /\ v4' = in.v4 /\ pc' = "held"
     /\ UNCHANGED <<tag, disk, got, before, left, saves>>

\* A profile of another program is opened.
Open(f, start) ==
  /\ pc = "empty" /\ f.tag = tag
  /\ disk' = [type |-> f.type, start |-> start, r |-> "ok", b |-> f.bytes]
  /\ pc' = "saved" /\ v4' = f.v4
  /\ UNCHANGED <<tag, held, given, got, before, left, saves>>

\* A pass that counts, on the null device, comes before the pass that writes.
Passed(pass, medium) == pass[IF pass["null"].r = "ok" THEN medium ELSE "null"]

\* The part of SaveTags for this tag, in the pass that counts on the null
\* device and in the pass that writes.  The first save finds the object given,
\* the next ones the object read.
Save(medium, start) ==
  LET type == DecideType(tag, v4, held)
      pass == [io \in {"null", medium} |-> WriteFn(type, io, v4, start, held, ElemCount(tag))]
  IN /\ pc \in {"held", "read"} /\ saves < MaxSaves /\ type \in SupportedTags[tag]
     /\ disk' = [type |-> type, start |-> start]
                @@ Passed(pass, medium)
     /\ pc' = CASE disk'.r = "ok" -> "saved" [] disk'.r = "refused" -> "refused" [] OTHER -> "panicked"
     /\ saves' = saves + 1
     /\ got' = Idle /\ before' = Idle
     /\ UNCHANGED <<tag, v4, held, given, left>>

\* cmsReadTag.  Once the tag is read as it was written, the stream is read
\* again when it was cut within the tag, or when more of the file follows.
Stream(kept, more) ==
  SubSeq(Zeros(disk.start + TypeBase) \o disk.b, 1, disk.start + TypeBase + kept) \o more
Read(kept, more) ==
  /\ \/ pc = "saved" /\ kept = Len(disk.b) /\ more = <<>>
     \/ pc \in {"read", "unreadable"}
  /\ got' = ReadFn(disk.type, Stream(kept, more), disk.start + TypeBase, Len(disk.b))
  /\ pc' = CASE pc # "saved" -> "done" [] got'.r = "ok" -> "read" [] OTHER -> "unreadable"
  /\ before' = got
  /\ held' = IF got'.r = "ok" THEN got'.o ELSE Nothing
  /\ left' = kept
  /\ UNCHANGED <<tag, v4, given, disk, saves>>

Next == \/ \E k \in DOMAIN Inputs : WriteTag(Inputs[k])
        \/ \E k \in DOMAIN ForeignTags, start \in Starts : Open(ForeignTags[k], start)
        \/ \E medium \in {"memory", "file"}, start \in Starts : Save(medium, start)
        \/ \E kept \in 0 .. Len(disk.b) :
             \E more \in IF kept = Len(disk.b) THEN {<<>>, Others} ELSE {<<>>} : Read(kept, more)

Spec == Init /\ [][Next]_vars

----------------------------------------------------------------------------
(* What a tag keeps of an object, in the precision of its type.            *)

TextUpToNul(m) ==
  LET text == MLUgetASCII(m, 0, 0)
  IN SubSeq(text, 1, Min({k \in DOMAIN text : text[k] = 0} \cup {Len(text) + 1}) - 1)
ByFormula(c) == Len(c.segments) = 1 /\ c.segments[1].type > 0
\* The curve types: a gamma in 8.8, another curve as its table; or a formula.
CurveOnDisk(type, c) ==
  CASE type = "Parametric" -> c.segments[1].params
    [] ByFormula(c) /\ c.segments[1].type = 1 -> c.segments[1].params[1] \div 256
    [] OTHER -> c.table
\* Curves that change nothing are not told from those that are missing.
ByTable(type, c) == type \in Luts \/ ~ByFormula(c)
Flat(type, c) == c.table = <<0, 65535>> \/ (ByTable(type, c) /\ c.table = Ramp(Len(c.table)))
Inert(type, s) == s.type = "CurveSet" /\ \A k \in DOMAIN s.data : Flat(type, s.data[k])
StageOnDisk(type, s) ==
  CASE s.type = "Matrix" -> s.data.matrix
    [] s.type = "CLut"   -> s.data.table
    [] OTHER -> [k \in DOMAIN s.data |->
                   IF ByTable(type, s.data[k]) THEN s.data[k].table ELSE s.data[k].segments]
Active(type, p) == SelectSeq(p.elements, LAMBDA s : ~Inert(type, s))
Kept(type, o) ==
  CASE type \in TextTypes -> TextUpToNul(o.v)
    [] type \in {"Curve", "Parametric"} -> CurveOnDisk(type, o.v)
    [] type \in DupLuts -> LET active == Active(type, o.v)
                           IN [k \in DOMAIN active |-> StageOnDisk(type, active[k])]
    [] type = "Dictionary" -> {<<o.v[k].name, o.v[k].value>> : k \in DOMAIN o.v}
    [] type = "UcrBg"   -> <<o.v.ucr.table, o.v.bg.table, TextUpToNul(o.v.desc)>>
    [] type = "CrdInfo" -> [k \in 1 .. 5 |-> MLUgetASCII(o.v, PS, Sections[k])[1]]
    [] OTHER -> o.v

\* A time is dropped when it was read.
Lossy == {"DateTime"}
\* What a program gave to cmsWriteTag is what cmsReadTag gives after it was
\* written, in the precision of the tag's type.
RoundTrip ==
  pc = "read" /\ given.go # "nil" /\ disk.type \notin Lossy
    => Kept(disk.type, got.o) = Kept(disk.type, given)

\* Tags that are not read back: a list of colours; a sequence whose texts
\* are not where the reader takes them; a laydown order, of which the reader
\* wants sixteen times the bytes; a multi-localised text with the lengths of
\* its second save; strings that have grown by a NUL each; curves of a tag
\* that does not start on a multiple of four; and an element that is a grid.
NotReadBack ==
  \/ disk.type \in {"NamedColor", "ProfileSequenceDesc", "ColorantOrder"}
  \/ disk.type = "Mlu" /\ saves > 0
  \/ disk.type = "CrdInfo" /\ saves > 1
  \/ disk.type \in {"LutAtoB", "LutBtoA"} /\ disk.start % 4 # 0
  \/ disk.type = "MPE" /\ U32(disk.b, 16) = StageSig.CLut
\* The reader of a type accepts what its writer wrote, and the tags of other
\* programs, outside the cases named.
WholeIsRead == pc \in {"read", "unreadable"} /\ ~NotReadBack => got.r = "ok"

\* A tag cut short is refused by its reader, unless what it lost was not kept anyway.
CutIsNoticed ==
  pc = "done" /\ left < Len(disk.b) /\ got.r = "ok"
    => before.r = "ok" /\ Kept(disk.type, got.o) = Kept(disk.type, before.o)

\* A reader stays in its tag: what follows it in the file changes nothing.
StaysInTag == TypeOK /\ (pc = "done" /\ left = Len(disk.b) => got = before)

\* Objects whose writer panics.
NoSegments(p) ==
  \E k \in DOMAIN p.elements : p.elements[k].type = "CurveSet"
     /\ \E c \in DOMAIN p.elements[k].data : p.elements[k].data[c].segments = <<>>
Fragile(o) ==
  LET type == DecideType(tag, v4, o)
  IN CASE type = "Mlu"  -> o.v.shape # "u16"
       [] type = "TextDescription" -> TRUE
       [] type = "Vcgt" -> TRUE
       [] type = "Dictionary" -> \E k \in DOMAIN o.v : o.v[k].displayName # NoText
       [] type = "Lut8" -> o.v.elements = <<>>
       [] type \in {"LutAtoB", "LutBtoA", "MPE"} -> NoSegments(o.v)
       [] OTHER -> FALSE
\* A writer panics in SaveTags on the objects named above only; their
\* duplicates (cmsWriteTag) and what was read of them are as good.
OnlyFragilePanics ==
  [][pc' = "panicked" => Fragile(IF saves = 0 /\ given.go # "nil" THEN given ELSE held)]_vars

\* Types whose reader gives an object the writer writes otherwise, or not at
\* all: texts gain a NUL, a dictionary is reversed.  No reader asks for 8 bits
\* again, so that the table of an 8-bit pipeline is then written in 16.
Growing == {"Text", "CrdInfo", "UcrBg", "Mlu", "TextDescription", "Dictionary", "DateTime"}
EightBits(o) == o.go = PipelineGo /\ o.v.saveAs8
\* A tag that was read and is written again gives the bytes it was read from.
SavedAgain ==
  [][pc = "read" /\ saves > 0 /\ pc' = "saved" /\ disk'.start = disk.start
         /\ disk.type \notin Growing /\ ~EightBits(given)
       => disk' = disk]_vars
=============================================================================
