----------------------------- MODULE DeviceLuts -----------------------------
(***************************************************************************)
(* Which tags of a profile make its pipeline for an intent, and the stages *)
(* added so that its ends have the encoding of the connection space.       *)
(*                                                                         *)
(* Values are abstracted to their encoding: Lab is "LabV4" inside a        *)
(* transform, "LabV2" in a lut16 tag and "LabFloat" in a float tag; XYZ is *)
(* "XYZ" or "XYZFloat"; a device space is itself.  A stage says which      *)
(* encoding it takes, which it gives ("any" for one that keeps what it is  *)
(* given), and of what it is a part: the place in a chain of its profile,  *)
(* set by Place, or 0.                                                     *)
(*                                                                         *)
(* A profile is a record                                                   *)
(*   class, space, pcs   of the header;                                    *)
(*   v4                  the version is 4 or more;                         *)
(*   tags                tables by tag: [type, identity, in, out], type    *)
(*                       "lut16", "lut" (any other of 16 bits), "float" or *)
(*                       "damaged" (listed, and reads as nil);             *)
(*   shaper              "none", "matrix" or "singular": colorants and     *)
(*                       curves of an RGB profile;                         *)
(*   gray                there is a gray curve;                            *)
(*   white               "none", "D50" or another media white;             *)
(*   chad                "none", "file" (read from a stream) or "matrix"   *)
(*                       (written to the profile in memory);               *)
(*   black, colorants    the darkest colour measured; inks of a named one. *)
(***************************************************************************)
EXTENDS Pipelines

PCSes == {"Lab", "XYZ"}
ICCIntents == 0 .. 3            \* perceptual, relative, saturation, absolute
Perceptual == 0
Relative == 1
Saturation == 2
Absolute == 3

ChannelsOfColorSpace(space) ==
  CASE space \in {"Gray", "1CLR"} -> 1
    [] space \in {"RGB", "Lab", "XYZ"} -> 3
    [] OTHER -> 4

\* CMYK and the four unnamed inks stand for each other.
Encoded(space, kind) ==
  CASE space = "Lab" -> CASE kind = "lut16" -> "LabV2" [] kind = "float" -> "LabFloat" [] OTHER -> "LabV4"
    [] space = "XYZ" -> IF kind = "float" THEN "XYZFloat" ELSE "XYZ"
    [] space = "4CLR" -> "CMYK"
    [] OTHER -> space

Converting(type, in, out, from, to) ==
  StageAllocPlaceholder(type, in, out, [from |-> from, to |-> to, of |-> 0])
LabV2ToV4 == Converting("LabV2ToV4", 3, 3, "LabV2", "LabV4")
LabV4ToV2 == Converting("LabV4ToV2", 3, 3, "LabV4", "LabV2")
Lab2XYZ == Converting("Lab2XYZ", 3, 3, "LabV4", "XYZ")
XYZ2Lab == Converting("XYZ2Lab", 3, 3, "XYZ", "LabV4")
NormalizeToFloat(space) == Converting("Normalize", 3, 3, Encoded(space, "v4"), Encoded(space, "float"))
NormalizeFromFloat(space) == Converting("Normalize", 3, 3, Encoded(space, "float"), Encoded(space, "v4"))

\* What making a pipeline comes to.
Made(p) == [how |-> "made", lut |-> p]
NilLut == [how |-> "nil", lut |-> NoPipeline]
Panics == [how |-> "panics", lut |-> NoPipeline]
Inserted(r) == IF r.ok THEN Made(r.p) ELSE NilLut
AtBegin(r, s) == IF r.how = "made" THEN Inserted(InsertAtBegin(r.lut, s)) ELSE r
AtEnd(r, s) == IF r.how = "made" THEN Inserted(InsertAtEnd(r.lut, s)) ELSE r
BeginIf(cond, r, s) == IF cond THEN AtBegin(r, s) ELSE r
EndIf(cond, r, s) == IF cond THEN AtEnd(r, s) ELSE r
OneStage(in, out, s) == AtEnd(Made(PipelineAlloc(in, out)), s)
TwoStages(in, out, s, t) == AtEnd(OneStage(in, out, s), t)

----------------------------------------------------------------------------
(* Tags.                                                                   *)

Device2PCS16 == <<"AToB0", "AToB1", "AToB2", "AToB1">>
PCS2Device16 == <<"BToA0", "BToA1", "BToA2", "BToA1">>
Device2PCSFloat == <<"DToB0", "DToB1", "DToB2", "DToB3">>
PCS2DeviceFloat == <<"BToD0", "BToD1", "BToD2", "BToD3">>
IsTag(p, tag) == tag \in DOMAIN p.tags

\* The tag of the intent, or the one of the first intent.
\* Mistake: the first is not tried.
TagOfIntent(p, table, intent) == table[intent + 1]
Tag16(p, table, intent) ==
  IF IsTag(p, table[intent + 1]) THEN table[intent + 1] ELSE table[1]

\* The duplicate of a tag's pipeline, which goes from one space to the other.
TagPipeline(p, tag, from, to) ==
  LET t == p.tags[tag]
      kind == IF t.type = "lut" THEN "v4" ELSE t.type
  IN IF t.type = "damaged" THEN NilLut
     ELSE OneStage(t.in, t.out,
            IF t.identity THEN Converting(tag, t.in, t.out, "any", "any")
            ELSE Converting(tag, t.in, t.out, Encoded(from, kind), Encoded(to, kind)))

\* cmsReadFloatInputTag, cmsReadFloatOutputTag, cmsReadFloatDevicelinkTag
ReadFloatTag(p, tag, from, to) ==
  EndIf(to \in PCSes,
        BeginIf(from \in PCSes, TagPipeline(p, tag, from, to), NormalizeToFloat(from)),
        NormalizeFromFloat(to))

----------------------------------------------------------------------------
(* Matrices and curves.                                                    *)

Curves(n, from, to) == Converting("CurveSet", n, n, from, to)
Matrix(in, out, from, to) == Converting("Matrix", in, out, from, to)

BuildGrayInputMatrixPipeline(p) ==
  IF ~p.gray THEN NilLut
  ELSE IF p.pcs = "Lab"
       THEN TwoStages(1, 3, Matrix(1, 3, "Gray", "Gray"), Curves(3, "Gray", "LabV4"))
       ELSE TwoStages(1, 3, Curves(1, "Gray", "Gray"), Matrix(1, 3, "Gray", "XYZ"))
BuildGrayOutputPipeline(p) ==
  IF ~p.gray THEN NilLut
  ELSE TwoStages(3, 1, Matrix(3, 1, Encoded(p.pcs, "v4"), "Gray"), Curves(1, "Gray", "Gray"))

BuildRGBInputMatrixShaper(p) ==
  IF p.shaper = "none" THEN NilLut
  ELSE EndIf(p.pcs = "Lab",
             TwoStages(3, 3, Curves(3, "RGB", "RGB"), Matrix(3, 3, "RGB", "XYZ")), XYZ2Lab)
BuildRGBOutputMatrixShaper(p) ==
  IF p.shaper # "matrix" THEN NilLut
  ELSE BeginIf(p.pcs = "Lab",
               TwoStages(3, 3, Matrix(3, 3, "XYZ", "RGB"), Curves(3, "RGB", "RGB")), Lab2XYZ)

----------------------------------------------------------------------------
(* The three readers.  An intent over the fourth is none of the tags'.     *)

NamedColor(usePCS, p) ==
  IF usePCS THEN Converting("NamedColor", 1, 3, "1CLR", "LabV2")
  ELSE Converting("NamedColor", 1, p.colorants, "1CLR", Encoded(p.space, "lut16"))

\* What version 2 of Lab was written in.
IsV2Lab(p, tag) == p.tags[tag].type = "lut16" /\ p.pcs = "Lab"

ReadInputLUT(p, intent) ==
  LET tag == Tag16(p, Device2PCS16, intent)
  IN CASE p.class = "named" -> TwoStages(0, 0, NamedColor(TRUE, p), LabV2ToV4)
       [] p.class # "named" /\ intent \in ICCIntents /\ IsTag(p, Device2PCSFloat[intent + 1]) ->
            ReadFloatTag(p, Device2PCSFloat[intent + 1], p.space, p.pcs)
       [] p.class # "named" /\ intent \in ICCIntents
            /\ ~IsTag(p, Device2PCSFloat[intent + 1]) /\ IsTag(p, tag) ->
            EndIf(IsV2Lab(p, tag),
                  BeginIf(IsV2Lab(p, tag) /\ p.space = "Lab", TagPipeline(p, tag, p.space, p.pcs), LabV4ToV2),
                  LabV2ToV4)
       [] OTHER -> IF p.space = "Gray" THEN BuildGrayInputMatrixPipeline(p)
                   ELSE BuildRGBInputMatrixShaper(p)

ReadOutputLUT(p, intent) ==
  LET tag == Tag16(p, PCS2Device16, intent)
  IN CASE intent \in ICCIntents /\ IsTag(p, PCS2DeviceFloat[intent + 1]) ->
            ReadFloatTag(p, PCS2DeviceFloat[intent + 1], p.pcs, p.space)
       [] intent \in ICCIntents /\ ~IsTag(p, PCS2DeviceFloat[intent + 1]) /\ IsTag(p, tag) ->
            EndIf(IsV2Lab(p, tag) /\ p.space = "Lab",
                  BeginIf(IsV2Lab(p, tag), TagPipeline(p, tag, p.pcs, p.space), LabV4ToV2),
                  LabV2ToV4)
       [] OTHER -> IF p.space = "Gray" THEN BuildGrayOutputPipeline(p)
                   ELSE BuildRGBOutputMatrixShaper(p)

\* The float tag of the first intent is taken as it is, without the stages that
\* normalise its ends; a damaged 16-bit tag fails the assertion on its type.
ReadDevicelinkLUT(p, intent) ==
  LET tag == Tag16(p, Device2PCS16, intent)
  IN CASE intent \notin ICCIntents -> NilLut
       [] intent \in ICCIntents /\ p.class = "named" ->
            EndIf(p.space = "Lab", OneStage(0, 0, NamedColor(FALSE, p)), LabV2ToV4)
       [] OTHER ->
            IF IsTag(p, Device2PCSFloat[intent + 1])
            THEN ReadFloatTag(p, Device2PCSFloat[intent + 1], p.space, p.pcs)
            ELSE IF IsTag(p, Device2PCSFloat[1])
            THEN TagPipeline(p, Device2PCSFloat[1], p.space, p.pcs)
            ELSE IF ~IsTag(p, tag) THEN NilLut
            ELSE IF p.tags[tag].type = "damaged" THEN Panics
            ELSE EndIf(IsV2Lab(p, tag),
                       BeginIf(p.tags[tag].type = "lut16" /\ p.space = "Lab",
                               TagPipeline(p, tag, p.space, p.pcs), LabV4ToV2),
                       LabV2ToV4)

----------------------------------------------------------------------------
(* What a profile supports, its white and its adaptation.                  *)

IsMatrixShaper(p) ==
  \/ p.space = "Gray" /\ p.gray
  \/ p.space = "RGB" /\ p.shaper # "none"
\* A device link is asked by the intent of its header, which is perceptual.
IsCLUT(p, intent, table) ==
  IF p.class = "link" THEN intent = Perceptual
  ELSE intent \in ICCIntents /\ IsTag(p, table[intent + 1])
IsIntentSupported(p, intent, table) == IsCLUT(p, intent, table) \/ IsMatrixShaper(p)

ReadMediaWhitePoint(p) ==
  IF p.white = "none" \/ (~p.v4 /\ p.class = "display") THEN "D50" ELSE p.white
\* Only a matrix passes the assertion: the reader of the tag gives numbers, and
\* a profile without the tag gives nil.
ReadsCHAD(p) == p.chad = "matrix"
=============================================================================
