------------------------------- MODULE Linking -------------------------------
(***************************************************************************)
(* How a chain of profiles becomes one pipeline: the handlers of the       *)
(* rendering intents, the conversion between two profiles with the black   *)
(* points it needs, and the creation of a transform around them.           *)
(*                                                                         *)
(* A call is a chain of profiles by name, with an intent and a flag for    *)
(* black point compensation each, and the spaces of the two formats.       *)
(* Measuring a black point or a gamma creates transforms of its own: they  *)
(* are worked out in one piece (Created), while the caller's is created in *)
(* steps.  Where the code evaluates such a transform and uses only what    *)
(* comes out, the result is the profile's own black.                       *)
(***************************************************************************)
EXTENDS VirtualProfiles

CONSTANTS Names,       \* profiles, the three the library makes for itself among them
          ProfileOf,   \* what they are
          Calls,       \* calls of cmsCreateMultiprofileTransform
          MaxByte      \* the largest uint8

\* A tag is read as one of the types it may have, or not at all; only in a profile
\* from a space to itself is a table marked as the identity.  "any" is no space.
FloatTags == {"DToB0", "DToB1", "DToB2", "DToB3", "BToD0", "BToD1", "BToD2", "BToD3"}
FromDevice == {"AToB0", "AToB1", "AToB2", "DToB0", "DToB1", "DToB2", "DToB3"}
TypesOf(tag) == IF tag \in FloatTags THEN {"float", "damaged"} ELSE {"lut16", "lut", "damaged"}
WellMade(p) ==
  /\ "any" \notin {p.space, p.pcs}
  /\ \A t \in DOMAIN p.tags : p.tags[t].type \in TypesOf(t) /\ (p.tags[t].identity => p.space = p.pcs)

ASSUME LinkingAssumption ==
  /\ \A n \in Names : WellMade(ProfileOf[n])
  /\ MaxByte \in Nat
  /\ {"lab2", "lab4", "xyz"} \subseteq Names
  /\ ProfileOf["lab2"] = CreateLab2Profile
  /\ ProfileOf["lab4"] = CreateLab4Profile
  /\ ProfileOf["xyz"] = CreateXYZProfile
  /\ \A c \in Calls :
       /\ c \in [chain : Seq(Names) \ {<<>>}, intents : Seq(Nat), bpc : Seq(BOOLEAN),
                 input : STRING, output : STRING, sixteen : BOOLEAN]
       /\ DOMAIN c.intents = DOMAIN c.chain /\ DOMAIN c.bpc = DOMAIN c.chain

VARIABLES pc,       \* where the creation is
          call,     \* what was asked for
          spaces,   \* of the entry and the exit
          ramp,     \* the counter of the gamma measurement
          result    \* [how, lut] of linking
vars == <<pc, call, spaces, ramp, result>>

Profile(n) == ProfileOf[n]

KOnlyIntents == 10 .. 12
KPlaneIntents == 13 .. 15
TranslateNonICCIntents(i) ==
  IF i \in KOnlyIntents THEN i - 10 ELSE IF i \in KPlaneIntents THEN i - 13 ELSE i

Request(chain, intents, bpc, input, output) ==
  [chain |-> chain, intents |-> intents, bpc |-> bpc, input |-> input, output |-> output, sixteen |-> FALSE]
\* cmsCreateTransformTHR of two profiles.
Two(a, b, intent) == Request(<<a, b>>, <<intent, intent>>, <<FALSE, FALSE>>, "any", "any")

----------------------------------------------------------------------------
(* Adding a profile to the chain.                                          *)

\* cmsPipelineCatSteal
\* Mistake: the stages stolen are put in front.
StealToFront(r, q) ==
  IF r.how # "made" \/ q.how # "made" THEN [how |-> IF r.how # "made" THEN r.how ELSE q.how, lut |-> NoPipeline]
  ELSE Inserted(Done([r.lut EXCEPT !.elements = q.lut.elements \o @]))
Steal(r, q) ==
  IF r.how # "made" \/ q.how # "made" THEN [how |-> IF r.how # "made" THEN r.how ELSE q.how, lut |-> NoPipeline]
  ELSE Inserted(Done([r.lut EXCEPT !.elements = @ \o q.lut.elements]))

\* moves: the matrix and offset are not an empty layer.
\* Mistake: without a layer nothing is added.
AddLayerOnly(r, in, out, moves) ==
  EndIf(moves, r, Matrix(3, 3, "XYZ", "XYZ"))
Layer(r, moves) == EndIf(moves, r, Matrix(3, 3, "XYZ", "XYZ"))
AddConversion(r, in, out, moves) ==
  CASE in = "XYZ" /\ out = "XYZ" -> Layer(r, moves)
    [] in = "XYZ" /\ out = "Lab" -> AtEnd(Layer(r, moves), XYZ2Lab)
    [] in = "Lab" /\ out = "XYZ" -> Layer(AtEnd(r, Lab2XYZ), moves)
    [] in = "Lab" /\ out = "Lab" ->
         IF moves THEN AtEnd(Layer(AtEnd(r, Lab2XYZ), moves), XYZ2Lab) ELSE r
    [] OTHER -> IF in \notin PCSes /\ in = out THEN r ELSE NilLut

ColorSpaceIsCompatible(a, b) ==
  a = b \/ {a, b} = {"4CLR", "CMYK"} \/ {a, b} = PCSes

\* The stages of the profile at place k.
PlacedAt(s, k) == IF s.data.of = 0 THEN [s EXCEPT !.data.of = k] ELSE s
Place(r, k) ==
  IF r.how # "made" THEN r
  ELSE [r EXCEPT !.lut.elements = [j \in DOMAIN @ |-> PlacedAt(r.lut.elements[j], k)]]

\* How the profile at place k is used.
IsLink(p) == p.class \in {"link", "abstract"}
UsedAsInput(p, k, space) == (k = 1 /\ ~IsLink(p)) \/ space \notin PCSes
ReadAsLink(c, p) == IsLink(p) \/ (p.class = "named" /\ Len(c.chain) = 1)
Forward(p, k, space) == IsLink(p) \/ UsedAsInput(p, k, space)
SpaceIn(p, k, space) == IF Forward(p, k, space) THEN p.space ELSE p.pcs
SpaceOut(p, k, space) == IF Forward(p, k, space) THEN p.pcs ELSE p.space
ReadLut(c, p, k, space) ==
  IF ReadAsLink(c, p) THEN ReadDevicelinkLUT(p, c.intents[k])
  ELSE IF UsedAsInput(p, k, space) THEN ReadInputLUT(p, c.intents[k])
  ELSE ReadOutputLUT(p, c.intents[k])
\* Only an abstract profile after the first and an output one convert; a device
\* link has an empty layer.
Converts(c, p, k, space) ==
  IF ReadAsLink(c, p) THEN p.class = "abstract" /\ k > 1 ELSE ~UsedAsInput(p, k, space)

\* What is ready for the profile's own stages.
Ready(r, lut, conv, adds, from, to) ==
  IF lut.how # "made" THEN lut
  ELSE IF conv.how # "made" THEN [how |-> conv.how, lut |-> NoPipeline]
  ELSE IF adds THEN AddConversion(r, from, to, conv.moves)
  ELSE r
Joined(r, lut, conv, adds, from, to) == Steal(Ready(r, lut, conv, adds, from, to), lut)

\* DefaultICCintents.  conversions[k] is what ComputeConversion comes to at place k:
\* [how, moves].
Identity == [how |-> "made", moves |-> FALSE]
StepOf(c, conversions, st, k, p) ==
  IF st.r.how # "made" THEN st
  ELSE IF ~ColorSpaceIsCompatible(SpaceIn(p, k, st.space), st.space) THEN [st EXCEPT !.r = NilLut]
  ELSE [r |-> Place(Joined(st.r, ReadLut(c, p, k, st.space),
                           IF Converts(c, p, k, st.space) THEN conversions[k] ELSE Identity,
                           ReadAsLink(c, p) \/ ~UsedAsInput(p, k, st.space),
                           st.space, SpaceIn(p, k, st.space)), k),
        space |-> SpaceOut(p, k, st.space)]
Step(c, conversions, st, k) == StepOf(c, conversions, st, k, Profile(c.chain[k]))
DefaultICCintents(c, conversions) ==
  LET after[k \in 0 .. Len(c.chain)] ==
        IF k = 0 THEN [r |-> Made(PipelineAlloc(0, 0)), space |-> Profile(c.chain[1]).space]
        ELSE Step(c, conversions, after[k - 1], k)
  IN after[Len(c.chain)].r

----------------------------------------------------------------------------
(* Creating a transform.                                                   *)

\* GetXFormColorSpaces has a rule of its own for which way a profile is used.
Walk(n, k, st, name) ==
  LET p == Profile(name)
      input == st.post \notin PCSes
      in == CASE p.class = "named" -> "1CLR"
              [] p.class # "named" /\ (input \/ p.class = "link") -> p.space
              [] OTHER -> p.pcs
      out == CASE p.class = "named" -> IF n > 1 THEN p.pcs ELSE p.space
               [] p.class # "named" /\ (input \/ p.class = "link") -> p.pcs
               [] OTHER -> p.space
  IN [entry |-> IF k = 1 THEN in ELSE st.entry, post |-> out]
GetXFormColorSpaces(chain) ==
  LET after[k \in 0 .. Len(chain)] ==
        IF k = 0 THEN [entry |-> "", post |-> Profile(chain[1]).space]
        ELSE Walk(Len(chain), k, after[k - 1], chain[k])
      st == after[Len(chain)]
  IN [entry |-> st.entry, exit |-> st.post]

IsProperColorSpace(space, format) == format \in {"any", space}
ProperFormats(c, s) == IsProperColorSpace(s.entry, c.input) /\ IsProperColorSpace(s.exit, c.output)

\* The BPC rules of cmsLinkProfiles.
BPCRules(c) ==
  [c EXCEPT !.bpc = [k \in DOMAIN @ |->
     CASE c.intents[k] = Absolute -> FALSE
       [] c.intents[k] \in {Perceptual, Saturation} /\ Profile(c.chain[k]).v4 -> TRUE
       [] OTHER -> c.bpc[k]]]

ChannelsFit(lut, s) ==
  lut.in = ChannelsOfColorSpace(s.entry) /\ lut.out = ChannelsOfColorSpace(s.exit)
\* SetWhitePoint is given an assertion that a missing tag fails.
HasWhite(n) == Profile(n).white # "none"
Allocated(c, s, r) ==
  IF r.how # "made" THEN r
  ELSE IF ~ChannelsFit(r.lut, s) THEN NilLut
  ELSE IF HasWhite(c.chain[1]) /\ HasWhite(Last(c.chain)) THEN r
  ELSE Panics

\* A transform created in one piece, by the handler of the ICC intents.
CreatedIn(c, s, conversions) ==
  IF ~ProperFormats(c, s) THEN NilLut
  ELSE Allocated(c, s, DefaultICCintents(BPCRules(c), conversions))
Created(c, conversions) == CreatedIn(c, GetXFormColorSpaces(c.chain), conversions)

----------------------------------------------------------------------------
(* Black points: [how, found, xyz].                                        *)

Zero == [how |-> "made", found |-> FALSE, xyz |-> "zero"]
Found(xyz) == [how |-> "made", found |-> TRUE, xyz |-> xyz]
\* A transform that was refused is not the nil it is compared with: evaluating
\* it panics.
Evaluates(c, conversions, answer) ==
  IF Created(c, conversions).how = "made" THEN answer ELSE [Zero EXCEPT !.how = "panics"]

\* No conversion of these two chains measures a black point.
Unmoved(c) == [k \in DOMAIN c.chain |-> Identity]
Fixed(c) == [k \in DOMAIN c.chain |-> [how |-> "made", moves |-> BPCRules(c).bpc[k]]]

EndPoints == {"Gray", "RGB", "Lab", "CMYK", "CMY"}
DarkerOf(c, p, intent) ==
  IF ~IsIntentSupported(p, intent, Device2PCS16) \/ p.space \notin EndPoints THEN Zero
  ELSE Evaluates(c, Unmoved(c), Found(p.black))
BlackPointAsDarkerColorant(n, intent) == DarkerOf(Two(n, "lab2", intent), Profile(n), intent)

CreateRoundtripXForm(n, intent) ==
  Request(<<"lab4", n, n, "lab4">>, <<Relative, intent, Relative, Relative>>,
          <<FALSE, FALSE, FALSE, FALSE>>, "Lab", "Lab")
Roundtrip(c, black) == Evaluates(c, Fixed(c), Found(black))
BlackPointUsingPerceptualBlack(n) ==
  IF ~IsIntentSupported(Profile(n), Perceptual, Device2PCS16) THEN Found("zero")
  ELSE Roundtrip(CreateRoundtripXForm(n, Perceptual), Profile(n).black)

NoBlackPoint(p, intent) ==
  p.class \in {"link", "abstract", "named"} \/ intent \notin {Perceptual, Relative, Saturation}
V4Black(p, intent) == p.v4 /\ intent \in {Perceptual, Saturation}
DetectBlackPoint(n, p, intent) ==
  IF NoBlackPoint(p, intent) THEN Zero
  ELSE IF V4Black(p, intent) /\ ~IsMatrixShaper(p) THEN Found("perceptual")
  ELSE IF intent = Relative /\ p.class = "output" /\ p.space = "CMYK" THEN BlackPointUsingPerceptualBlack(n)
  ELSE BlackPointAsDarkerColorant(n, IF V4Black(p, intent) THEN Relative ELSE intent)

\* source: what DetectBlackPoint gives, which stands for the destination too where
\* the two agree, and is the first guess of the relative intent.
DetectDestinationBlackPoint(n, p, intent, source) ==
  IF \/ NoBlackPoint(p, intent) \/ V4Black(p, intent)
     \/ ~IsCLUT(p, intent, PCS2Device16) \/ p.space \notin {"Gray", "RGB", "CMYK"}
     \/ intent = Relative /\ (source.how # "made" \/ ~source.found)
  THEN source
  ELSE Roundtrip(CreateRoundtripXForm(n, intent), p.black)

\* What a measurement gives does not depend on the chain: it is worked out once.
BlackPoints(n, intent, source) ==
  [source |-> source, destination |-> DetectDestinationBlackPoint(n, Profile(n), intent, source)]
Measured == [n \in Names |-> [intent \in ICCIntents |->
               BlackPoints(n, intent, DetectBlackPoint(n, Profile(n), intent))]]

\* The matrices of the absolute intent move nothing between two equal whites.
Compensation(in, out) ==
  [how |-> IF in.how # "made" THEN in.how ELSE out.how, moves |-> in.xyz # out.xyz]
Adaptation(before, this) ==
  [how |-> IF ReadsCHAD(before) /\ ReadsCHAD(this) THEN "made" ELSE "panics",
   moves |-> ReadMediaWhitePoint(before) # ReadMediaWhitePoint(this)]
ComputeConversion(c, k, measured) ==
  LET intent == c.intents[k]
  IN IF intent = Absolute THEN Adaptation(Profile(c.chain[k - 1]), Profile(c.chain[k]))
     ELSE IF ~c.bpc[k] \/ intent \notin ICCIntents THEN Identity
     ELSE Compensation(measured[c.chain[k - 1]][intent].source, measured[c.chain[k]][intent].destination)
ConversionsBy(c, measured) == [k \in 2 .. Len(c.chain) |-> ComputeConversion(c, k, measured)]
ICC(c) == DefaultICCintents(c, ConversionsBy(c, Measured))

----------------------------------------------------------------------------
(* The handlers of the intents.                                            *)

Translated(c) == [c EXCEPT !.intents = [k \in DOMAIN @ |-> TranslateNonICCIntents(@[k])]]
CMYKLink(n) == Profile(n).space = "CMYK" /\ Profile(n).class = "link"
\* The last profile whose black is kept.  The loop that trims device links looks
\* at the profile before, and so drops the last of three or more in any case.
LastPreserved(chain) ==
  IF Len(chain) <= 2 THEN Len(chain)
  ELSE LET kept == {k \in 2 .. (Len(chain) - 1) : ~CMYKLink(chain[k])}
       IN IF kept = {} THEN 2 ELSE CHOOSE k \in kept : \A j \in kept : j <= k
PreservesBlack(c) ==
  LET last == Profile(c.chain[LastPreserved(c.chain)])
  IN Profile(c.chain[1]).space = "CMYK" /\ (last.space = "CMYK" \/ last.class = "output")
Preserved(c) ==
  LET n == LastPreserved(c.chain)
  IN [c EXCEPT !.chain = SubSeq(@, 1, n), !.intents = SubSeq(@, 1, n), !.bpc = SubSeq(@, 1, n)]

\* The tone curve of black is measured by handing the transform to Lab an array,
\* which no transform takes.
ComputeKToLstar == Panics
BuildKToneCurve(c) ==
  LET last == Profile(Last(c.chain))
  IN IF Profile(c.chain[1]).space # "CMYK" \/ last.space # "CMYK" \/ last.class # "output"
     THEN NilLut ELSE ComputeKToLstar
BlackPreservingKOnlyIntents(c, icc) ==
  IF ~PreservesBlack(c) \/ icc.how # "made" THEN icc ELSE BuildKToneCurve(Preserved(c))

\* The total ink is measured with an array too, where it is measured.  Leaving
\* early returns the pipeline allocated for the result, with no stage.
DetectTAC(p) == IF p.class # "output" THEN "none" ELSE "panics"
BlackPreservingKPlaneIntents(c, icc) ==
  LET last == Profile(c.chain[LastPreserved(c.chain)])
  IN IF ~PreservesBlack(c) THEN icc
     ELSE IF ReadInputLUT(last, Relative).how # "made" \/ DetectTAC(last) = "none"
     THEN Made(PipelineAlloc(4, 4))
     ELSE Panics

\* The chain that the handler of the first intent gives to the ICC handler.
ICCPart(c) ==
  IF c.intents[1] \in ICCIntents THEN c
  ELSE IF c.intents[1] \in KOnlyIntents /\ PreservesBlack(c) THEN Translated(Preserved(c))
  ELSE Translated(c)
Handled(c, icc) ==
  CASE c.intents[1] \in ICCIntents -> icc
    [] c.intents[1] \in KOnlyIntents -> BlackPreservingKOnlyIntents(c, icc)
    [] c.intents[1] \in KPlaneIntents -> BlackPreservingKPlaneIntents(c, icc)
    [] OTHER -> NilLut
LinkProfiles(c) == Handled(c, ICC(ICCPart(c)))

----------------------------------------------------------------------------
(* cmsCreateExtendedTransform for a caller.                                *)

NoCall == Request(<<>>, <<>>, <<>>, "any", "any")
NoSpaces == [entry |-> "", exit |-> ""]
Init == pc = "idle" /\ call = NoCall /\ spaces = NoSpaces /\ ramp = 0 /\ result = NilLut

CreateTransform(c) ==
  /\ pc = "idle"
  /\ call' = c /\ pc' = "spaces" /\ result' = NilLut
  /\ UNCHANGED <<spaces, ramp>>

FindSpaces ==
  /\ pc = "spaces"
  /\ spaces' = GetXFormColorSpaces(call.chain)
  /\ pc' = IF ~ProperFormats(call, spaces') THEN "return"
           ELSE IF spaces'.entry = "RGB" /\ call.sixteen THEN "gamma" ELSE "link"
  /\ UNCHANGED <<call, ramp, result>>

\* cmsDetectRGBProfileGamma: a transform to XYZ is created; one that was
\* refused is, again, not nil.
DetectRGBProfileGamma ==
  LET n == Head(call.chain)
      chain == Two(n, "xyz", Relative)
  IN /\ pc = "gamma"
     /\ IF Profile(n).space # "RGB" \/ Profile(n).class \notin {"input", "display", "output", "space"}
        THEN pc' = "link" /\ UNCHANGED <<ramp, result>>
        ELSE IF Created(chain, Unmoved(chain)).how = "panics"
        THEN pc' = "return" /\ result' = Panics /\ UNCHANGED ramp
        ELSE pc' = "ramp" /\ ramp' = 0 /\ UNCHANGED result
     /\ UNCHANGED <<call, spaces>>

\* The ramp is filled while a uint8 is at most the largest uint8.
FillRamp ==
  /\ pc = "ramp"
  /\ IF ramp <= MaxByte THEN ramp' = (ramp + 1) % (MaxByte + 1) /\ UNCHANGED pc
     ELSE pc' = "link" /\ UNCHANGED ramp
  /\ UNCHANGED <<call, spaces, result>>

Link ==
  /\ pc = "link"
  /\ result' = LinkProfiles(BPCRules(call))
  /\ pc' = IF result'.how = "made" THEN "finish" ELSE "return"
  /\ UNCHANGED <<call, spaces, ramp>>

Finish ==
  /\ pc = "finish"
  /\ result' = Allocated(call, spaces, result)
  /\ pc' = "return"
  /\ UNCHANGED <<call, spaces, ramp>>

Return ==
  /\ pc = "return"
  /\ pc' = "idle" /\ call' = NoCall /\ spaces' = NoSpaces /\ ramp' = 0 /\ result' = NilLut

Next ==
  \/ \E c \in Calls : CreateTransform(c)
  \/ FindSpaces \/ DetectRGBProfileGamma \/ FillRamp \/ Link \/ Finish \/ Return
Spec == Init /\ [][Next]_vars
\* The loop is sequential code: it goes on as long as it has a step to take.
FairSpec == Spec /\ WF_vars(FillRamp)

----------------------------------------------------------------------------
(* Properties.                                                             *)

Returned(how) == pc = "return" /\ result.how = how

\* The encoding a pipeline gives, when each of its stages takes the one of the
\* stage before; "none" otherwise.
Flow(e, s) == IF s.data.from = "any" THEN e ELSE IF s.data.from = e THEN s.data.to ELSE "none"
Through(e, from) ==
  LET after[k \in 0 .. Len(e)] == IF k = 0 THEN from ELSE Flow(after[k - 1], e[k])
  IN after[Len(e)]
Carries(lut, from, to) == Through(lut.elements, from) = to

\* Some profiles break it, and the code lets them pass.
\* One whose device space is a connection space other than its own: the spaces of
\* the transform and the pipeline are found by different rules.
SpaceIsOtherPCS(p) == p.class # "link" /\ p.space \in PCSes /\ p.space # p.pcs
\* A header that says something else than the tags: a connection space that is
\* none, named colours in XYZ, the colorants of an RGB profile for another space.
\* What the readers build then is not what the header says.
HeaderIsWrong(p) ==
  \/ p.class # "link" /\ p.pcs \notin PCSes
  \/ p.class = "named" /\ p.pcs # "Lab"
  \/ p.shaper # "none" /\ p.space # "RGB"
\* A link with only the float tag of another intent, which is not normalised.
BareFloat(p, intent) ==
  /\ p.class \in {"link", "abstract"} /\ intent \in ICCIntents
  /\ IsTag(p, "DToB0") /\ ~IsTag(p, Device2PCSFloat[intent + 1])
\* Named colours after the first profile: their index is no colour of the one
\* before.  And the empty pipeline of a kept black plane.
Plain(c) ==
  /\ c.intents[1] \notin KPlaneIntents
  /\ \A k \in DOMAIN c.chain :
       LET p == Profile(c.chain[k])
       IN /\ ~SpaceIsOtherPCS(p) /\ ~HeaderIsWrong(p)
          /\ ~BareFloat(p, TranslateNonICCIntents(c.intents[k]))
          /\ p.class = "named" => k = 1

\* In a transform that is returned every stage takes the encoding that the stage
\* before it gives, from the entry space to the exit space: version 2 Lab, version 4
\* Lab, normalised floats and XYZ never meet without the stage that converts them
\* (cmsio1.go's readers, AddConversion).
StagesMeet ==
  Returned("made") /\ Plain(call) =>
    Carries(result.lut, Encoded(spaces.entry, "v4"), Encoded(spaces.exit, "v4"))

\* Each profile of the chain has its part in the pipeline, once and in the order
\* of the chain (DefaultICCintents, cmsPipelineCatSteal).
Tables == UNION {{t[k] : k \in DOMAIN t} : t \in {Device2PCS16, PCS2Device16, Device2PCSFloat, PCS2DeviceFloat}}
EachProfileOnce ==
  Returned("made") /\ call.intents[1] \notin KPlaneIntents =>
    LET of == [j \in DOMAIN result.lut.elements |-> result.lut.elements[j].data.of]
    IN /\ {of[j] : j \in DOMAIN of} = DOMAIN call.chain
       /\ \A j \in DOMAIN of : j > 1 => of[j - 1] <= of[j]
       /\ \A k \in DOMAIN call.chain :
            Cardinality({j \in DOMAIN of : of[j] = k /\ result.lut.elements[j].type \in Tables}) <= 1

\* Every table has the channels of the spaces it is between.
TablesFit(p) ==
  LET device == ChannelsOfColorSpace(p.space)
      connection == ChannelsOfColorSpace(p.pcs)
  IN \A t \in DOMAIN p.tags :
       <<p.tags[t].in, p.tags[t].out>> =
         IF t \in FromDevice THEN <<device, connection>> ELSE <<connection, device>>
\* A profile that has all it may be asked for: a white, a way in and a way out, no
\* table that cannot be read.  An abstract profile is between connection spaces.
Sound(p) ==
  /\ p.class \notin {"link", "named"} /\ ~HeaderIsWrong(p)
  /\ IF p.class = "abstract" THEN p.space \in PCSes ELSE ~SpaceIsOtherPCS(p)
  /\ p.white # "none" /\ p.shaper \in {"none", "matrix"}
  /\ \A t \in DOMAIN p.tags : p.tags[t].type # "damaged"
  /\ TablesFit(p)
  /\ IF p.class = "abstract" THEN IsTag(p, "AToB0") \/ IsTag(p, "DToB0")
     ELSE IsMatrixShaper(p) \/ {"AToB0", "BToA0"} \subseteq DOMAIN p.tags
\* Linking sound profiles, each to the next, by the four intents succeeds: no black
\* point, white or conversion between them makes it fail or panic.  The absolute
\* intent needs adaptations that are matrices (cmsReadCHAD); of more than
\* two profiles every second one is used as an input again, so their spaces agree.
Agree(chain) ==
  \/ Len(chain) <= 2
  \/ \A n \in ToSet(chain) : Profile(n).class # "abstract" /\ Profile(n).space = Profile(chain[1]).space
SoundCall(c) ==
  /\ \A k \in DOMAIN c.intents : c.intents[k] \in ICCIntents
  /\ \A k \in DOMAIN c.chain : Sound(Profile(c.chain[k]))
  /\ (\E k \in DOMAIN c.intents : c.intents[k] = Absolute) =>
       \A k \in DOMAIN c.chain : Profile(c.chain[k]).chad = "matrix"
SoundChainsAreMade ==
  pc = "return" /\ ProperFormats(call, spaces) /\ Agree(call.chain) /\ SoundCall(call) =>
    result.how = "made"

\* The gray ramp of the gamma measurement is filled at some time, so that the
\* creation goes on (cmsDetectRGBProfileGamma).
RampIsFilled == pc = "ramp" ~> pc = "link"
=============================================================================
