-------------------------- MODULE CachedTransform --------------------------
(***************************************************************************)
(* The 16-bit pixel loop of cmsxform.go: CachedXFORM,                      *)
(* CachedXFORMGamutCheck, PrecalculatedXFORM and                           *)
(* PrecalculatedXFORMGamutCheck, for any number of calls that may overlap  *)
(* on one transform handle.  A call works in the scratch bundle of its     *)
(* memory manager (mm.Scratch().WInU16 and WOutU16) and, when the routine  *)
(* is a cached one, in a copy of p.Cache of its own; the handle itself is  *)
(* only read.  The modules that EXTEND this one say who starts calls, on   *)
(* which pixels and with which manager.                                    *)
(*                                                                         *)
(* Before its loop a call copies the extra channels, which may panic.       *)
(*                                                                         *)
(* A pixel is the vector of its channels; the formatters and the pipeline  *)
(* are the function Eval, of the channels of one pixel.                    *)
(***************************************************************************)
EXTENDS Integers

CONSTANTS
  Calls,            \* executions of CmsDoTransform
  Managers,         \* memory managers, each with one scratch bundle
  Sample,           \* 16-bit samples; 0 is one of them
  cmsMAXCHANNELS,   \* lanes of WInU16 and of cmsCACHE.CacheIn
  EntryColorSpace,  \* p.EntryColorSpace
  Xform,            \* the routine AllocEmptyTransform selected
  Output,           \* what WOutU16 may hold after an evaluation
  Eval,             \* decoding, pipeline and encoding of one pixel
  Inputs,           \* the colours of the picture
  Untouched         \* contents nothing has been written to

Lanes == 1 .. cmsMAXCHANNELS

\* The number of channels of a colour space, which is what a formatter of
\* that space stores and what the pipeline reads.
cmsChannelsOfColorSpace(space) ==
  CASE space \in {"Gray", "1color"} -> 1
    [] space \in {"2color"} -> 2
    [] space \in {"Rgb", "Lab", "XYZ", "YCbCr", "Yxy", "Hsv", "Hls", "Cmy",
                  "3color"} -> 3
    [] space \in {"Cmyk", "4color"} -> 4
    [] space = "5color" -> 5
    [] space = "6color" -> 6
    [] space = "7color" -> 7
    [] space = "8color" -> 8
    [] space = "9color" -> 9
    [] space = "10color" -> 10
    [] space = "11color" -> 11
    [] space = "12color" -> 12
    [] space = "13color" -> 13
    [] space = "14color" -> 14
    [] space = "15color" -> 15
    [] OTHER -> -1

\* The count CachedXFORM takes for it: 4 for every space it does not list.
channelsOf(space) ==
  CASE space = "Gray" -> 1
    [] space \in {"Rgb", "Lab", "XYZ"} -> 3
    [] space = "Cmyk" -> 4
    [] OTHER -> 4

Channels == cmsChannelsOfColorSpace(EntryColorSpace)
Pixel == [1 .. Channels -> Sample]

CachedRoutines == {"CachedXFORM", "CachedXFORMGamutCheck"}
Routines ==
  CachedRoutines \cup {"PrecalculatedXFORM", "PrecalculatedXFORMGamutCheck"}

UsesCache == Xform \in CachedRoutines

\* The lanes a cached routine compares with CacheIn and copies to it.
ComparedLanes ==
  IF Xform = "CachedXFORM" THEN 1 .. channelsOf(EntryColorSpace) ELSE Lanes

\* The pixel formats of a handle, by what becomes of a call with them:
\*   plain      chunky, nothing for cmsHandleExtraChannels to copy: no
\*              CmsFLAGS_COPY_ALPHA, no extras or not as many on both sides
\*   leading    chunky, one extra to copy, in front of the colours of both
\*   trailing   chunky, an extra to copy behind another channel: RGBA, or
\*              any two extras
\*   converted  an extra to copy to a sample of another type, or of floats:
\*              the converter asserts a slice that it is not given
\*   planar     one of the two is planar
Formats == {"plain", "leading", "trailing", "converted", "planar"}

ASSUME TransformAssumption ==
  /\ 0 \in Sample
  /\ cmsMAXCHANNELS \in Nat
  /\ Channels \in Lanes
  /\ channelsOf(EntryColorSpace) \in Lanes
  /\ Xform \in Routines
  /\ Eval \in [Pixel -> Output]
  /\ Untouched \notin Output
  /\ Inputs \subseteq Pixel

----------------------------------------------------------------------------

VARIABLES
  formats, \* the formats of the handle: they never change
  room,   \* the whole pixels that each of the two buffers holds
  in,     \* the input buffer, pixel by pixel
  out,    \* the output buffer
  pc,     \* where each call is
  px,     \* the next pixel of each call
  last,   \* the pixel each call stops before
  mgr,    \* the manager each call works with
  cache,  \* the call's own copy of p.Cache
  wIn,    \* WInU16 of each manager's scratch
  wOut    \* WOutU16 of each manager's scratch

callVars == <<formats, room, in, out, pc, px, last, mgr, cache, wIn, wOut>>

ZeroLanes == [k \in Lanes |-> 0]

\* The channels the pipeline reads of an input vector.
PixelOf(lanes) == [k \in 1 .. Channels |-> lanes[k]]

\* p.Cache as cmsCreateExtendedTransform leaves it: the colour zero.
InitialCache == [in |-> ZeroLanes, out |-> Eval[PixelOf(ZeroLanes)]]

CallInit ==
  /\ in \in [0 .. room - 1 -> Inputs]
  /\ out = [p \in 0 .. room - 1 |-> Untouched]
  /\ pc = [c \in Calls |-> "idle"]
  /\ px = [c \in Calls |-> 0]
  /\ last = [c \in Calls |-> 0]
  /\ cache = [c \in Calls |-> InitialCache]
  /\ wOut = [m \in Managers |-> Untouched]

\* Call c starts on the pixels first .. end - 1 with manager m.
BeginXform(c, m, first, end) ==
  /\ pc[c] \in {"idle", "done"}
  /\ pc' = [pc EXCEPT ![c] = "begin"]
  /\ px' = [px EXCEPT ![c] = first]
  /\ last' = [last EXCEPT ![c] = end]
  /\ mgr' = [mgr EXCEPT ![c] = m]
  /\ cache' = [cache EXCEPT ![c] = InitialCache]
  /\ UNCHANGED <<formats, room, in, out, wIn, wOut>>

\* Whether buffers that end before pixel stop let the extra channels of the
\* call be copied: both slices are cut by a pixel after the last one too.
\* Where a planar format panics is left to Overrun.
CopyFits(c, stop) ==
  CASE formats \in {"plain", "planar"} -> TRUE
    [] formats = "leading" -> last[c] <= stop
    [] formats = "trailing" -> last[c] < stop
    [] formats = "converted" -> px[c] = last[c]

\* Mistake: a call whose extra channels are copied is taken to be done.
HandleExtraChannelsOnly(c, stop) ==
  /\ pc[c] = "begin"
  /\ CopyFits(c, stop)
  /\ pc' = [pc EXCEPT ![c] = IF formats = "leading" THEN "done" ELSE "decode"]
  /\ UNCHANGED <<formats, room, in, out, px, last, mgr, cache, wIn, wOut>>

\* cmsHandleExtraChannels copies the extra channels of the whole call, or
\* finds none to copy, before the first pixel.
HandleExtraChannels(c, stop) ==
  /\ pc[c] = "begin"
  /\ CopyFits(c, stop)
  /\ pc' = [pc EXCEPT ![c] = "decode"]
  /\ UNCHANGED <<formats, room, in, out, px, last, mgr, cache, wIn, wOut>>

\* It panics.
CopyPanics(c, stop) ==
  /\ pc[c] = "begin"
  /\ ~CopyFits(c, stop)
  /\ pc' = [pc EXCEPT ![c] = "panicked"]
  /\ UNCHANGED <<formats, room, in, out, px, last, mgr, cache, wIn, wOut>>

\* FromInput stores the channels of the pixel; the lanes above them keep
\* what an earlier pixel, or an earlier call with this manager, left there.
Decode(c) ==
  /\ pc[c] = "decode"
  /\ px[c] < last[c]
  /\ px[c] < room
  /\ wIn' = [wIn EXCEPT ![mgr[c]] =
               [k \in Lanes |-> IF k <= Channels THEN in[px[c]][k] ELSE @[k]]]
  /\ pc' = [pc EXCEPT ![c] = "lookup"]
  /\ UNCHANGED <<formats, room, in, out, px, last, mgr, cache, wOut>>

\* The slice the formatter is given ends before the request does.  Planar
\* formatters look for the planes from a slice that moves on: the pixel at
\* which they leave the buffer depends on the formatter and the buffer.
Overrun(c) ==
  /\ pc[c] = "decode"
  /\ px[c] < last[c]
  /\ px[c] >= room \/ formats = "planar"
  /\ pc' = [pc EXCEPT ![c] = "panicked"]
  /\ UNCHANGED <<formats, room, in, out, px, last, mgr, cache, wIn, wOut>>

\* Mistake: the last channel is not compared.
HitIgnoringLast(c) ==
  /\ UsesCache
  /\ \A k \in 1 .. Channels - 1 : wIn[mgr[c]][k] = cache[c].in[k]

Hit(c) ==
  /\ UsesCache
  /\ \A k \in ComparedLanes : wIn[mgr[c]][k] = cache[c].in[k]

FromCache(c) ==
  /\ pc[c] = "lookup"
  /\ Hit(c)
  /\ wOut' = [wOut EXCEPT ![mgr[c]] = cache[c].out]
  /\ pc' = [pc EXCEPT ![c] = "encode"]
  /\ UNCHANGED <<formats, room, in, out, px, last, mgr, cache, wIn>>

\* Mistake: the input is copied over the cached output.
RememberInput(entry, lanes, value) ==
  IF UsesCache
    THEN [in |-> [k \in Lanes |-> IF k \in ComparedLanes THEN lanes[k]
                                                         ELSE entry.in[k]],
          out |-> lanes]
    ELSE entry

\* The cache entry after an evaluation: the compared lanes and the output.
Remember(entry, lanes, value) ==
  IF UsesCache
    THEN [in |-> [k \in Lanes |-> IF k \in ComparedLanes THEN lanes[k]
                                                         ELSE entry.in[k]],
          out |-> value]
    ELSE entry

FromPipeline(c) ==
  LET lanes == wIn[mgr[c]]
      value == Eval[PixelOf(lanes)]
  IN /\ pc[c] = "lookup"
     /\ ~Hit(c)
     /\ wOut' = [wOut EXCEPT ![mgr[c]] = value]
     /\ cache' = [cache EXCEPT ![c] = Remember(@, lanes, value)]
     /\ pc' = [pc EXCEPT ![c] = "encode"]
     /\ UNCHANGED <<formats, room, in, out, px, last, mgr, wIn>>

\* ToOutput writes the pixel and both slices move on.
Encode(c) ==
  /\ pc[c] = "encode"
  /\ out' = [out EXCEPT ![px[c]] = wOut[mgr[c]]]
  /\ px' = [px EXCEPT ![c] = px[c] + 1]
  /\ pc' = [pc EXCEPT ![c] = "decode"]
  /\ UNCHANGED <<formats, room, in, last, mgr, cache, wIn, wOut>>

EndXform(c) ==
  /\ pc[c] = "decode"
  /\ px[c] >= last[c]
  /\ pc' = [pc EXCEPT ![c] = "done"]
  /\ UNCHANGED <<formats, room, in, out, px, last, mgr, cache, wIn, wOut>>

PixelStep(c) ==
  Decode(c) \/ FromCache(c) \/ FromPipeline(c) \/ Encode(c)

----------------------------------------------------------------------------

CallTypeOK ==
  /\ formats \in Formats
  /\ room \in Nat
  /\ in \in [0 .. room - 1 -> Inputs]
  /\ out \in [0 .. room - 1 -> Output \cup {Untouched}]
  /\ pc \in [Calls -> {"idle", "begin", "decode", "lookup", "encode", "done",
                    "panicked"}]
  /\ px \in [Calls -> Nat]
  /\ last \in [Calls -> Int]
  /\ mgr \in [Calls -> Managers]
  /\ cache \in [Calls -> [in : [Lanes -> Sample], out : Output]]
  /\ wIn \in [Managers -> [Lanes -> Sample]]
  /\ wOut \in [Managers -> Output \cup {Untouched}]

\* The calls in progress.
Busy(c) == pc[c] \in {"begin", "decode", "lookup", "encode"}

\* Every output pixel written so far is the transform of the input pixel at
\* its own position: neither the cache shortcut, nor a lane left over in a
\* scratch buffer, nor another call's work shows in the picture.
WrittenPixelsCorrect ==
  \A p \in 0 .. room - 1 : out[p] # Untouched => out[p] = Eval[in[p]]

=============================================================================
