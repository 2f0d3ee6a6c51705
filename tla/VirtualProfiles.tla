--------------------------- MODULE VirtualProfiles ---------------------------
(***************************************************************************)
(* The profiles the library builds in memory, as DeviceLuts sees profiles. *)
(* Those for Lab and XYZ are an RGB profile without primaries and curves   *)
(* whose header is then changed and which gets an identity as AToB0.       *)
(***************************************************************************)
EXTENDS DeviceLuts

NoTags == [t \in {} |-> t]
IdentityTag(type, n) == [t \in {"AToB0"} |-> [type |-> type, identity |-> TRUE, in |-> n, out |-> n]]

\* CmsCreateRGBProfileTHR: the white written is D50, whatever was given.
CreateRGBProfile(white, primaries, curves) ==
  [class |-> "display", space |-> "RGB", pcs |-> "XYZ", v4 |-> TRUE, tags |-> NoTags,
   shaper |-> IF white /\ primaries /\ curves THEN "matrix" ELSE "none",
   gray |-> FALSE, white |-> IF white THEN "D50" ELSE "none",
   chad |-> IF white THEN "matrix" ELSE "none", black |-> "dark", colorants |-> 0]
Create_sRGBProfile == CreateRGBProfile(TRUE, TRUE, TRUE)

\* cmsCreateGrayProfileTHR: the white is the one given, with no adaptation.
CreateGrayProfile(white) ==
  [CreateRGBProfile(FALSE, FALSE, FALSE) EXCEPT !.space = "Gray", !.gray = TRUE, !.white = white]

\* cmsCreateLinearizationDeviceLinkTHR: no white point is written.
CreateLinearizationDeviceLink(space) ==
  [CreateRGBProfile(FALSE, FALSE, FALSE) EXCEPT !.class = "link", !.space = space, !.pcs = space,
     !.tags = IdentityTag("lut", ChannelsOfColorSpace(space))]

CreateIdentity(space, v4, type) ==
  [CreateRGBProfile(TRUE, FALSE, FALSE) EXCEPT !.class = "abstract", !.space = space, !.pcs = space,
     !.v4 = v4, !.tags = IdentityTag(type, 3)]
CreateLab2Profile == CreateIdentity("Lab", FALSE, "lut16")
CreateLab4Profile == CreateIdentity("Lab", TRUE, "lut")
CreateXYZProfile == CreateIdentity("XYZ", TRUE, "lut")
=============================================================================
