------------------------------ MODULE MCLinking ------------------------------
(***************************************************************************)
(* The profiles the library builds, and profiles of every class, space and *)
(* kind of table; chains of one and two of them all, and of three of some, *)
(* by every kind of intent.                                                *)
(***************************************************************************)
EXTENDS Linking

Base == [CreateRGBProfile(TRUE, FALSE, FALSE) EXCEPT !.class = "output"]
Table(type, in, out) == [type |-> type, identity |-> FALSE, in |-> in, out |-> out]
\* A device profile whose tables in both directions are of one type.
Device(class, space, pcs, v4, type, in, out) ==
  LET n == ChannelsOfColorSpace(space)
  IN [Base EXCEPT !.class = class, !.space = space, !.pcs = pcs, !.v4 = v4,
        !.tags = [t \in in \cup out |-> IF t \in in THEN Table(type, n, 3) ELSE Table(type, 3, n)]]

MCProfileOf ==
  [srgb |-> Create_sRGBProfile,
   gray |-> CreateGrayProfile("paper"),
   curves |-> CreateLinearizationDeviceLink("CMYK"),
   lab2 |-> CreateLab2Profile,
   lab4 |-> CreateLab4Profile,
   xyz |-> CreateXYZProfile,
   rgbLut |-> Device("display", "RGB", "Lab", FALSE, "lut16", {"AToB0"}, {"BToA0"}),
   rgbLab |-> [Base EXCEPT !.class = "display", !.pcs = "Lab", !.shaper = "matrix", !.white = "paper"],
   singular |-> [Base EXCEPT !.class = "input", !.v4 = FALSE, !.shaper = "singular", !.white = "none", !.chad = "file"],
   grayLab |-> [Base EXCEPT !.space = "Gray", !.pcs = "Lab", !.gray = TRUE, !.chad = "none"],
   rgbFloat |-> Device("space", "RGB", "Lab", TRUE, "float", {"DToB0", "DToB1"}, {"BToD0", "BToD1"}),
   press2 |-> [Device("output", "CMYK", "Lab", FALSE, "lut16", {"AToB0", "AToB1"}, {"BToA0", "BToA1"})
                 EXCEPT !.white = "paper"],
   press4 |-> Device("output", "CMYK", "Lab", TRUE, "lut", {"AToB0"}, {"BToA0", "BToA2"}),
   inks |-> Device("output", "4CLR", "XYZ", FALSE, "lut16", {"AToB0"}, {"BToA0"}),
   scanner |-> [Device("input", "CMYK", "XYZ", TRUE, "float", {"DToB1"}, {}) EXCEPT !.white = "none"],
   broken |-> Device("output", "CMYK", "Lab", FALSE, "damaged", {"AToB0"}, {"BToA0"}),
   link |-> [Device("link", "CMYK", "CMYK", FALSE, "lut", {"AToB0"}, {}) EXCEPT
               !.tags = [t \in {"AToB0"} |-> Table("lut", 4, 4)]],
   labLink |-> [Device("link", "Lab", "RGB", FALSE, "lut16", {"AToB0"}, {})  EXCEPT
               !.tags = [t \in {"AToB0", "AToB1"} |-> Table("lut16", 3, 3)]],
   floatLink |-> [Device("link", "RGB", "Lab", TRUE, "float", {"DToB0"}, {}) EXCEPT !.white = "paper"],
   brokenLink |-> Device("link", "RGB", "Lab", TRUE, "damaged", {"AToB0"}, {}),
   effect |-> [Device("abstract", "Lab", "Lab", TRUE, "lut", {"AToB0"}, {}) EXCEPT !.white = "paper"],
   spots |-> [Base EXCEPT !.class = "named", !.pcs = "Lab", !.v4 = FALSE, !.colorants = 3],
   labSpots |-> [Base EXCEPT !.class = "named", !.space = "Lab", !.pcs = "Lab", !.colorants = 3],
   labSpace |-> Device("space", "Lab", "XYZ", TRUE, "lut16", {"AToB0"}, {"BToA0"}),
   xyzLab |-> Device("abstract", "XYZ", "Lab", TRUE, "lut", {"AToB0"}, {}),
   spotsXYZ |-> [Base EXCEPT !.class = "named", !.v4 = FALSE, !.colorants = 3],
   twoWays |-> [Device("named", "RGB", "Lab", FALSE, "lut16", {}, {"BToA0"}) EXCEPT !.colorants = 3],
   wrongPCS |-> [Base EXCEPT !.pcs = "RGB", !.shaper = "matrix"],
   wrongSpace |-> [Base EXCEPT !.space = "Lab", !.pcs = "Lab", !.shaper = "matrix"],
   labLab |-> Device("space", "Lab", "Lab", FALSE, "lut16", {"AToB0"}, {"BToA0"})]
MCNames == DOMAIN MCProfileOf

\* One intent and one flag for the whole chain, as cmsCreateMultiprofileTransform.
Uniform(chain, intent, bpc, input, sixteen) ==
  [Request(chain, [k \in DOMAIN chain |-> intent], [k \in DOMAIN chain |-> bpc], input, "any")
     EXCEPT !.sixteen = sixteen]
MCIntents == {Perceptual, Relative, Saturation, Absolute, 10, 14, 99}
Few == {"srgb", "press2", "press4", "link", "effect", "lab4", "rgbLut", "floatLink"}
Chains(n, names) == [1 .. n -> names]
Pairs == Chains(1, MCNames) \cup Chains(2, MCNames)
MCCalls ==
  {Uniform(c, i, b, "any", FALSE) : c \in Pairs, i \in MCIntents, b \in BOOLEAN}
  \cup {Uniform(c, i, b, "any", FALSE) : c \in Chains(3, Few), i \in {Perceptual, Relative, 11, 13}, b \in BOOLEAN}
  \cup {Uniform(c, Relative, FALSE, f, TRUE) : c \in Pairs, f \in {"RGB", "Lab"}}
  \cup {Request(c, i, <<FALSE, TRUE>>, "any", "any") : c \in Chains(2, Few), i \in [1 .. 2 -> {Perceptual, Relative, Absolute, 11}]}

\* Transforms of 16-bit buffers, for the measurement of a gamma.
GammaCalls == {Uniform(c, i, FALSE, "any", TRUE) : c \in Pairs, i \in {Perceptual, Relative}}
=============================================================================
