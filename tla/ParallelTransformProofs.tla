---------------------- MODULE ParallelTransformProofs ----------------------
(***************************************************************************)
(* CmsDoTransformParallel for every number of pixels, workers and CPUs,    *)
(* every picture and every transform.                                      *)
(*                                                                         *)
(* First the invariant of one pixel loop, whoever starts the calls: a      *)
(* cache entry is a pair of a colour and its transform, the scratch        *)
(* buffers hold the current pixel of the call that owns them, and a call   *)
(* inside its loop is within its range.  Every step of a call preserves    *)
(* it, given that calls in progress do not share a manager and that the    *)
(* cache compares at least the channels the pipeline reads.                *)
(*                                                                         *)
(* Then what the workers add: the chunks partition the request, and when a *)
(* goroutine panics over the extra channels so do all of them, before any  *)
(* of them has written a pixel.                                            *)
(***************************************************************************)
EXTENDS ParallelTransform, FiniteSetTheorems, TLAPS

----------------------------------------------------------------------------
(* The pixel loop.                                                         *)

Places == {"idle", "begin", "decode", "lookup", "encode", "done", "panicked"}

\* Two calls in progress never use one manager.
ScratchIsPrivate ==
  \A c, d \in Calls : c # d /\ Busy(c) /\ Busy(d) => mgr[c] # mgr[d]

\* The condition under which a cache hit means the same colour.  It holds of
\* CachedXFORMGamutCheck for every entry space, and of CachedXFORM for the
\* spaces of at most four channels.
ComparesEveryChannel ==
  UsesCache => 1 .. Channels \subseteq ComparedLanes

CacheSound ==
  UsesCache => \A c \in Calls : cache[c].out = Eval[PixelOf(cache[c].in)]

InRange ==
  \A c \in Calls : pc[c] \in {"lookup", "encode"} => px[c] < last[c] /\ px[c] < room

ScratchHoldsPixel ==
  \A c \in Calls :
    /\ pc[c] = "lookup" => PixelOf(wIn[mgr[c]]) = in[px[c]]
    /\ pc[c] = "encode" => wOut[mgr[c]] = Eval[in[px[c]]]

\* The part of the invariant that holds whatever the cache compares.
CallSafe ==
  /\ CallTypeOK
  /\ ScratchIsPrivate
  /\ InRange

CallInv ==
  /\ CallSafe
  /\ CacheSound
  /\ ScratchHoldsPixel
  /\ WrittenPixelsCorrect

\* The pipeline's view of lanes is a pixel, and its evaluation an output.
LEMMA PixelOfType ==
  ASSUME NEW lanes \in [Lanes -> Sample]
  PROVE  PixelOf(lanes) \in Pixel /\ Eval[PixelOf(lanes)] \in Output
<1>1. 1 .. Channels \subseteq Lanes
  BY TransformAssumption DEF Lanes
<1>2. PixelOf(lanes) \in Pixel
  BY <1>1 DEF PixelOf, Pixel
<1>3. QED
  BY <1>2, TransformAssumption

LEMMA InitialCacheType == InitialCache \in [in : [Lanes -> Sample], out : Output]
<1>1. ZeroLanes \in [Lanes -> Sample]
  BY TransformAssumption DEF ZeroLanes
<1>2. QED
  BY <1>1, PixelOfType DEF InitialCache

\* Creating the calls establishes the invariant.
LEMMA CallInitInv ==
  ASSUME CallInit, formats \in Formats, room \in Nat,
         mgr \in [Calls -> Managers],
         wIn \in [Managers -> [Lanes -> Sample]]
  PROVE  CallInv
<1>1. CallTypeOK
  BY InitialCacheType DEF CallInit, CallTypeOK
<1>2. CacheSound
  BY DEF CallInit, CacheSound, InitialCache
<1>3. QED
  BY <1>1, <1>2 DEF CallInit, CallInv, CallSafe, ScratchIsPrivate, Busy, InRange,
     ScratchHoldsPixel, WrittenPixelsCorrect

----------------------------------------------------------------------------
(* The steps of a call and CallSafe.                                       *)

\* Starting a call with a manager nobody is using.
LEMMA BeginSafe ==
  ASSUME CallSafe,
         NEW c \in Calls, NEW m \in Managers, NEW first \in Nat, NEW end \in Int,
         BeginXform(c, m, first, end),
         \A d \in Calls : d # c /\ Busy(d) => mgr[d] # m
  PROVE  CallSafe'
<1>1. CallTypeOK'
  BY InitialCacheType DEF CallSafe, CallTypeOK, BeginXform
<1>2. ScratchIsPrivate'
  BY DEF CallSafe, CallTypeOK, BeginXform, ScratchIsPrivate, Busy
<1>3. InRange'
  BY DEF CallSafe, CallTypeOK, BeginXform, InRange
<1>4. QED
  BY <1>1, <1>2, <1>3 DEF CallSafe

\* The lanes Decode leaves are a vector of samples whose channels are the
\* pixel's.
LEMMA DecodedLanes ==
  ASSUME CallSafe, NEW c \in Calls, Decode(c)
  PROVE  /\ mgr[c] \in Managers
         /\ \E lanes \in [Lanes -> Sample] :
              /\ wIn' = [wIn EXCEPT ![mgr[c]] = lanes]
              /\ PixelOf(lanes) = in[px[c]]
<1> DEFINE lanes == [k \in Lanes |-> IF k <= Channels THEN in[px[c]][k]
                                                     ELSE wIn[mgr[c]][k]]
<1>1. /\ px[c] \in 0 .. room - 1
      /\ in[px[c]] \in Pixel
      /\ mgr[c] \in Managers
      /\ wIn[mgr[c]] \in [Lanes -> Sample]
  BY TransformAssumption DEF CallSafe, CallTypeOK, Decode
<1>2. lanes \in [Lanes -> Sample]
  BY <1>1, TransformAssumption DEF Lanes, Pixel
<1>3. PixelOf(lanes) = in[px[c]]
  <2>1. \A k \in 1 .. Channels : k \in Lanes /\ k <= Channels
    BY TransformAssumption DEF Lanes
  <2>2. \A k \in 1 .. Channels : lanes[k] = in[px[c]][k]
    BY <2>1
  <2>3. QED
    BY <1>1, <2>2 DEF PixelOf, Pixel
<1>4. wIn' = [wIn EXCEPT ![mgr[c]] = lanes]
  BY DEF Decode
<1> HIDE DEF lanes
<1>5. QED
  BY <1>1, <1>2, <1>3, <1>4

LEMMA DecodeSafe ==
  ASSUME CallSafe, NEW c \in Calls, Decode(c)
  PROVE  CallSafe'
<1>1. wIn' \in [Managers -> [Lanes -> Sample]]
  BY DecodedLanes DEF CallSafe, CallTypeOK
<1>2. CallTypeOK'
  BY <1>1 DEF CallSafe, CallTypeOK, Decode
<1>3. ScratchIsPrivate' /\ InRange'
  BY DEF CallSafe, CallTypeOK, Decode, ScratchIsPrivate, Busy, InRange
<1>4. QED
  BY <1>2, <1>3 DEF CallSafe

LEMMA FromCacheSafe ==
  ASSUME CallSafe, NEW c \in Calls, FromCache(c)
  PROVE  CallSafe'
<1>1. CallTypeOK'
  BY DEF CallSafe, CallTypeOK, FromCache
<1>2. ScratchIsPrivate' /\ InRange'
  BY DEF CallSafe, CallTypeOK, FromCache, ScratchIsPrivate, Busy, InRange
<1>3. QED
  BY <1>1, <1>2 DEF CallSafe

LEMMA RememberType ==
  ASSUME NEW entry \in [in : [Lanes -> Sample], out : Output],
         NEW lanes \in [Lanes -> Sample], NEW value \in Output
  PROVE  Remember(entry, lanes, value) \in [in : [Lanes -> Sample], out : Output]
<1> DEFINE kept == [k \in Lanes |-> IF k \in ComparedLanes THEN lanes[k]
                                                           ELSE entry.in[k]]
<1>1. kept \in [Lanes -> Sample]
  OBVIOUS
<1>2. Remember(entry, lanes, value) =
        IF UsesCache THEN [in |-> kept, out |-> value] ELSE entry
  BY DEF Remember
<1> HIDE DEF kept
<1>3. QED
  BY <1>1, <1>2

LEMMA FromPipelineSafe ==
  ASSUME CallSafe, NEW c \in Calls, FromPipeline(c)
  PROVE  CallSafe'
<1> DEFINE lanes == wIn[mgr[c]]
           value == Eval[PixelOf(lanes)]
           entry == Remember(cache[c], lanes, value)
<1>1. lanes \in [Lanes -> Sample] /\ value \in Output
  BY PixelOfType DEF CallSafe, CallTypeOK
<1>2. entry \in [in : [Lanes -> Sample], out : Output]
  BY <1>1, RememberType DEF CallSafe, CallTypeOK
<1>3. /\ wOut' = [wOut EXCEPT ![mgr[c]] = value]
      /\ cache' = [cache EXCEPT ![c] = entry]
  BY DEF FromPipeline
<1> HIDE DEF lanes, value, entry
<1>4. CallTypeOK'
  BY <1>1, <1>2, <1>3 DEF CallSafe, CallTypeOK, FromPipeline
<1>5. ScratchIsPrivate' /\ InRange'
  BY DEF CallSafe, CallTypeOK, FromPipeline, ScratchIsPrivate, Busy, InRange
<1>6. QED
  BY <1>4, <1>5 DEF CallSafe

LEMMA EncodeSafe ==
  ASSUME CallSafe, NEW c \in Calls, Encode(c)
  PROVE  CallSafe'
<1>1. wOut[mgr[c]] \in Output \cup {Untouched}
  BY DEF CallSafe, CallTypeOK
<1>2. out' \in [0 .. room - 1 -> Output \cup {Untouched}]
  BY <1>1 DEF CallSafe, CallTypeOK, Encode
<1>3. /\ px' \in [Calls -> Nat]
      /\ pc' \in [Calls -> Places]
  BY DEF CallSafe, CallTypeOK, Encode, Places
<1>4. CallTypeOK'
  BY <1>2, <1>3 DEF CallSafe, CallTypeOK, Encode, Places
<1>5. ScratchIsPrivate' /\ InRange'
  BY DEF CallSafe, CallTypeOK, Encode, ScratchIsPrivate, Busy, InRange
<1>6. QED
  BY <1>4, <1>5 DEF CallSafe

LEMMA CopySafe ==
  ASSUME CallSafe, NEW c \in Calls, NEW stop, HandleExtraChannels(c, stop)
  PROVE  CallSafe'
<1>1. CallTypeOK'
  BY DEF CallSafe, CallTypeOK, HandleExtraChannels
<1>2. ScratchIsPrivate' /\ InRange'
  BY DEF CallSafe, CallTypeOK, HandleExtraChannels, ScratchIsPrivate, Busy, InRange
<1>3. QED
  BY <1>1, <1>2 DEF CallSafe

LEMMA LeaveSafe ==
  ASSUME CallSafe, NEW c \in Calls, NEW stop,
         EndXform(c) \/ CopyPanics(c, stop) \/ Overrun(c)
  PROVE  CallSafe'
<1>1. CallTypeOK'
  BY DEF CallSafe, CallTypeOK, EndXform, CopyPanics, Overrun
<1>2. ScratchIsPrivate' /\ InRange'
  BY DEF CallSafe, CallTypeOK, EndXform, CopyPanics, Overrun, ScratchIsPrivate, Busy, InRange
<1>3. QED
  BY <1>1, <1>2 DEF CallSafe

LEMMA PixelStepSafe ==
  ASSUME CallSafe, NEW c \in Calls, PixelStep(c)
  PROVE  CallSafe'
  BY DecodeSafe, FromCacheSafe, FromPipelineSafe, EncodeSafe DEF PixelStep

----------------------------------------------------------------------------
(* The steps of a call and what the buffers hold.                          *)

LEMMA BeginInv ==
  ASSUME CallInv,
         NEW c \in Calls, NEW m \in Managers, NEW first \in Nat, NEW end \in Int,
         BeginXform(c, m, first, end),
         \A d \in Calls : d # c /\ Busy(d) => mgr[d] # m
  PROVE  CallInv'
<1>1. CallSafe'
  BY BeginSafe DEF CallInv
<1>2. CacheSound'
  BY DEF CallInv, CallSafe, CallTypeOK, BeginXform, CacheSound, InitialCache
<1>3. ScratchHoldsPixel' /\ WrittenPixelsCorrect'
  BY DEF CallInv, CallSafe, CallTypeOK, BeginXform, ScratchHoldsPixel, WrittenPixelsCorrect
<1>4. QED
  BY <1>1, <1>2, <1>3 DEF CallInv

LEMMA DecodeInv ==
  ASSUME CallInv, NEW c \in Calls, Decode(c)
  PROVE  CallInv'
<1>1. CallSafe'
  BY DecodeSafe DEF CallInv
<1>2. CacheSound' /\ WrittenPixelsCorrect'
  BY DEF CallInv, CallSafe, CallTypeOK, Decode, CacheSound, WrittenPixelsCorrect
<1>3. PICK lanes \in [Lanes -> Sample] :
        /\ wIn' = [wIn EXCEPT ![mgr[c]] = lanes]
        /\ PixelOf(lanes) = in[px[c]]
  BY DecodedLanes DEF CallInv
<1>4. ScratchHoldsPixel'
  <2> SUFFICES ASSUME NEW d \in Calls
      PROVE  /\ pc'[d] = "lookup" => PixelOf(wIn'[mgr'[d]]) = in'[px'[d]]
             /\ pc'[d] = "encode" => wOut'[mgr'[d]] = Eval[in'[px'[d]]]
    BY DEF ScratchHoldsPixel
  <2>1. CASE d = c
    <3>1. pc'[d] = "lookup" /\ mgr'[d] = mgr[c] /\ px'[d] = px[c] /\ in' = in
      BY <2>1 DEF CallInv, CallSafe, CallTypeOK, Decode
    <3>2. wIn'[mgr[c]] = lanes
      BY <1>3 DEF CallInv, CallSafe, CallTypeOK
    <3>3. QED
      BY <3>1, <3>2, <1>3
  <2>2. CASE d # c
    <3>1. pc'[d] = pc[d] /\ mgr' = mgr /\ px' = px /\ in' = in /\ wOut' = wOut
      BY <2>2 DEF CallInv, CallSafe, CallTypeOK, Decode
    <3>2. pc[d] = "lookup" => wIn'[mgr[d]] = wIn[mgr[d]]
      BY <2>2, <1>3 DEF CallInv, CallSafe, CallTypeOK, Decode, ScratchIsPrivate, Busy
    <3>3. QED
      BY <3>1, <3>2 DEF CallInv, ScratchHoldsPixel
  <2>3. QED
    BY <2>1, <2>2
<1>5. QED
  BY <1>1, <1>2, <1>4 DEF CallInv

\* On a hit the cached output is the current pixel's.
LEMMA HitIsCurrent ==
  ASSUME CallInv, ComparesEveryChannel, NEW c \in Calls, pc[c] = "lookup", Hit(c)
  PROVE  cache[c].out = Eval[in[px[c]]]
<1>1. PixelOf(wIn[mgr[c]]) = PixelOf(cache[c].in)
  BY DEF Hit, ComparesEveryChannel, PixelOf
<1>2. QED
  BY <1>1 DEF CallInv, Hit, CacheSound, ScratchHoldsPixel

LEMMA FromCacheInv ==
  ASSUME CallInv, ComparesEveryChannel, NEW c \in Calls, FromCache(c)
  PROVE  CallInv'
<1>1. cache[c].out = Eval[in[px[c]]]
  BY HitIsCurrent DEF FromCache
<1>2. CallSafe'
  BY FromCacheSafe DEF CallInv
<1>3. CacheSound' /\ WrittenPixelsCorrect'
  BY DEF CallInv, CallSafe, CallTypeOK, FromCache, CacheSound, WrittenPixelsCorrect
<1>4. ScratchHoldsPixel'
  <2> SUFFICES ASSUME NEW d \in Calls
      PROVE  /\ pc'[d] = "lookup" => PixelOf(wIn'[mgr'[d]]) = in'[px'[d]]
             /\ pc'[d] = "encode" => wOut'[mgr'[d]] = Eval[in'[px'[d]]]
    BY DEF ScratchHoldsPixel
  <2>1. CASE d = c
    BY <1>1, <2>1 DEF CallInv, CallSafe, CallTypeOK, FromCache
  <2>2. CASE d # c
    BY <2>2 DEF CallInv, CallSafe, CallTypeOK, FromCache, ScratchHoldsPixel,
       ScratchIsPrivate, Busy
  <2>3. QED
    BY <2>1, <2>2
<1>5. QED
  BY <1>2, <1>3, <1>4 DEF CallInv

\* What is remembered is a colour with its transform.
LEMMA RememberSound ==
  ASSUME ComparesEveryChannel, UsesCache,
         NEW entry \in [in : [Lanes -> Sample], out : Output],
         NEW lanes \in [Lanes -> Sample],
         NEW new, new = Remember(entry, lanes, Eval[PixelOf(lanes)])
  PROVE  new.out = Eval[PixelOf(new.in)]
<1> DEFINE kept == [k \in Lanes |-> IF k \in ComparedLanes THEN lanes[k]
                                                           ELSE entry.in[k]]
<1>1. PixelOf(kept) = PixelOf(lanes)
  <2>1. 1 .. Channels \subseteq Lanes /\ 1 .. Channels \subseteq ComparedLanes
    BY TransformAssumption DEF Lanes, ComparesEveryChannel
  <2>2. \A k \in 1 .. Channels : kept[k] = lanes[k]
    BY <2>1
  <2>3. QED
    BY <2>2 DEF PixelOf
<1>2. new = [in |-> kept, out |-> Eval[PixelOf(lanes)]]
  BY DEF Remember
<1> HIDE DEF kept
<1>3. QED
  BY <1>1, <1>2

LEMMA FromPipelineInv ==
  ASSUME CallInv, ComparesEveryChannel, NEW c \in Calls, FromPipeline(c)
  PROVE  CallInv'
<1> DEFINE lanes == wIn[mgr[c]]
           value == Eval[PixelOf(lanes)]
           entry == Remember(cache[c], lanes, value)
<1>1. lanes \in [Lanes -> Sample] /\ value = Eval[in[px[c]]]
  BY DEF CallInv, CallSafe, CallTypeOK, ScratchHoldsPixel, FromPipeline
<1>2. UsesCache => entry.out = Eval[PixelOf(entry.in)]
  BY <1>1, RememberSound DEF CallInv, CallSafe, CallTypeOK
<1>3. /\ wOut' = [wOut EXCEPT ![mgr[c]] = value]
      /\ cache' = [cache EXCEPT ![c] = entry]
  BY DEF FromPipeline
<1> HIDE DEF lanes, value, entry
<1>4. CallSafe'
  BY FromPipelineSafe DEF CallInv
<1>5. CacheSound'
  BY <1>2, <1>3 DEF CallInv, CallSafe, CallTypeOK, CacheSound
<1>6. WrittenPixelsCorrect'
  BY DEF CallInv, FromPipeline, WrittenPixelsCorrect
<1>7. ScratchHoldsPixel'
  <2> SUFFICES ASSUME NEW d \in Calls
      PROVE  /\ pc'[d] = "lookup" => PixelOf(wIn'[mgr'[d]]) = in'[px'[d]]
             /\ pc'[d] = "encode" => wOut'[mgr'[d]] = Eval[in'[px'[d]]]
    BY DEF ScratchHoldsPixel
  <2>1. CASE d = c
    BY <1>1, <1>3, <2>1 DEF CallInv, CallSafe, CallTypeOK, FromPipeline
  <2>2. CASE d # c
    BY <1>3, <2>2 DEF CallInv, CallSafe, CallTypeOK, FromPipeline, ScratchHoldsPixel,
       ScratchIsPrivate, Busy
  <2>3. QED
    BY <2>1, <2>2
<1>8. QED
  BY <1>4, <1>5, <1>6, <1>7 DEF CallInv

LEMMA EncodeInv ==
  ASSUME CallInv, NEW c \in Calls, Encode(c)
  PROVE  CallInv'
<1>1. px[c] \in 0 .. room - 1 /\ wOut[mgr[c]] = Eval[in[px[c]]]
  BY DEF CallInv, CallSafe, CallTypeOK, Encode, InRange, ScratchHoldsPixel
<1>2. CallSafe'
  BY EncodeSafe DEF CallInv
<1>3. CacheSound'
  BY DEF CallInv, Encode, CacheSound
<1>4. ScratchHoldsPixel'
  BY DEF CallInv, CallSafe, CallTypeOK, Encode, ScratchHoldsPixel
<1>5. WrittenPixelsCorrect'
  BY <1>1 DEF CallInv, CallSafe, CallTypeOK, Encode, WrittenPixelsCorrect
<1>6. QED
  BY <1>2, <1>3, <1>4, <1>5 DEF CallInv

LEMMA CopyInv ==
  ASSUME CallInv, NEW c \in Calls, NEW stop, HandleExtraChannels(c, stop)
  PROVE  CallInv'
<1>1. CallSafe'
  BY CopySafe DEF CallInv
<1>2. CacheSound' /\ WrittenPixelsCorrect'
  BY DEF CallInv, HandleExtraChannels, CacheSound, WrittenPixelsCorrect
<1>3. ScratchHoldsPixel'
  BY DEF CallInv, CallSafe, CallTypeOK, HandleExtraChannels, ScratchHoldsPixel
<1>4. QED
  BY <1>1, <1>2, <1>3 DEF CallInv

LEMMA LeaveInv ==
  ASSUME CallInv, NEW c \in Calls, NEW stop,
         EndXform(c) \/ CopyPanics(c, stop) \/ Overrun(c)
  PROVE  CallInv'
<1>1. CallSafe'
  BY LeaveSafe DEF CallInv
<1>2. CacheSound' /\ WrittenPixelsCorrect'
  BY DEF CallInv, EndXform, CopyPanics, Overrun, CacheSound, WrittenPixelsCorrect
<1>3. ScratchHoldsPixel'
  BY DEF CallInv, CallSafe, CallTypeOK, EndXform, CopyPanics, Overrun, ScratchHoldsPixel
<1>4. QED
  BY <1>1, <1>2, <1>3 DEF CallInv

LEMMA PixelStepInv ==
  ASSUME CallInv, ComparesEveryChannel, NEW c \in Calls, PixelStep(c)
  PROVE  CallInv'
  BY DecodeInv, FromCacheInv, FromPipelineInv, EncodeInv DEF PixelStep

\* Steps of the callers that leave the calls alone.
LEMMA SafeStutter ==
  ASSUME CallSafe, UNCHANGED callVars
  PROVE  CallSafe'
  BY DEF CallSafe, CallTypeOK, callVars, ScratchIsPrivate, Busy, InRange

LEMMA InvStutter ==
  ASSUME CallInv, UNCHANGED callVars
  PROVE  CallInv'
<1>1. CallSafe'
  BY SafeStutter DEF CallInv
<1>2. QED
  BY <1>1 DEF CallInv, callVars, CacheSound, ScratchHoldsPixel, WrittenPixelsCorrect


----------------------------------------------------------------------------
(* The workers.                                                            *)

OwnManagers == \A c \in Calls : mgr[c] = c

ArgsOK ==
  /\ pixels \in Int
  /\ workers \in Int /\ workers <= MaxWorkers
  /\ main \in {"enter", "sequential", "spawn", "waiting", "returned", "panicked",
              "crashed"}
  /\ w \in Nat
  /\ wg \in Int

SafeInv ==
  /\ CallSafe
  /\ OwnManagers
  /\ ArgsOK

\* The chunks of a request of pixels for some workers: arithmetic.
LEMMA NumWorkersRange ==
  ASSUME ArgsOK, NEW i \in Nat, i < NumWorkers
  PROVE  i \in Calls /\ i \in Managers /\ NumWorkers \in Nat \ {0} /\ pixels \in Nat \ {0}
  BY ParallelAssumption DEF ArgsOK, NumWorkers, Requested, Min2

LEMMA ChunkType ==
  ASSUME ArgsOK, NumWorkers \in Nat \ {0}, pixels \in Nat \ {0}
  PROVE  Chunk \in Nat
<1> DEFINE n == NumWorkers
           sum == pixels + n - 1
<1>1. n \in Nat \ {0} /\ sum \in Nat
  OBVIOUS
<1>2. Chunk = sum \div n
  BY DEF Chunk
<1> HIDE DEF n, sum
<1>3. QED
  BY <1>1, <1>2

LEMMA StartType ==
  ASSUME ArgsOK, NEW i \in Nat, i < NumWorkers
  PROVE  StartPx(i) \in Nat /\ EndPx(i) \in Int
<1>1. Chunk \in Nat
  BY NumWorkersRange, ChunkType
<1>2. i * Chunk \in Nat
  BY <1>1
<1>3. QED
  BY <1>1, <1>2 DEF StartPx, EndPx, Min2, ArgsOK

----------------------------------------------------------------------------

LEMMA InitSafe == Init => SafeInv
<1> SUFFICES ASSUME Init
    PROVE  SafeInv
  OBVIOUS
<1>1. /\ room \in Nat
      /\ mgr \in [Calls -> Managers]
      /\ OwnManagers
  BY ParallelAssumption DEF Init, OwnManagers
<1>2. wIn \in [Managers -> [Lanes -> Sample]]
  BY TransformAssumption DEF Init, ZeroLanes
<1>3. CallSafe
  BY <1>1, <1>2, CallInitInv DEF Init, CallInv
<1>4. ArgsOK
  BY ParallelAssumption DEF Init, ArgsOK
<1>5. QED
  BY <1>1, <1>3, <1>4 DEF SafeInv

\* A goroutine that starts finds nobody at its manager.
LEMMA OwnerFree ==
  ASSUME OwnManagers, NEW c \in Calls
  PROVE  \A d \in Calls : d # c /\ Busy(d) => mgr[d] # c
  BY DEF OwnManagers

\* What the caller's steps do to the calls.
LEMMA CallerSteps ==
  ASSUME SafeInv, Caller
  PROVE  \/ UNCHANGED callVars
         \/ \E c \in Calls, first \in Nat, end \in Int : BeginXform(c, c, first, end)
<1>1. CASE Sequential
  BY <1>1, ParallelAssumption DEF Sequential, SafeInv, ArgsOK
<1>2. CASE SpawnWorker
  BY <1>2, NumWorkersRange, StartType DEF SpawnWorker, SafeInv, ArgsOK
<1>3. QED
  BY <1>1, <1>2 DEF Caller, NothingToDo, PlanarFormats, BuffersTooSmall, Fork, SkipWorker, Wait, Join,
     SequentialReturns, SequentialPanics

LEMMA CallerArgs ==
  ASSUME SafeInv, Caller
  PROVE  ArgsOK' /\ UNCHANGED <<pixels, workers>>
<1>1. NumWorkers \in Int
  BY ParallelAssumption DEF SafeInv, ArgsOK, NumWorkers, Requested, Min2
<1>2. QED
  BY <1>1 DEF SafeInv, ArgsOK, Caller, NothingToDo, Sequential, PlanarFormats, BuffersTooSmall, Fork,
     SpawnWorker, SkipWorker, Wait, Join, SequentialReturns, SequentialPanics, Goto

LEMMA OwnManagersStep ==
  ASSUME SafeInv, [Next]_vars
  PROVE  OwnManagers'
<1>1. CASE Caller
  <2>1. CASE UNCHANGED callVars
    BY <2>1 DEF SafeInv, OwnManagers, callVars
  <2>2. ASSUME NEW c \in Calls, NEW first \in Nat, NEW end \in Int,
               BeginXform(c, c, first, end)
        PROVE  OwnManagers'
    BY <2>2 DEF SafeInv, CallSafe, CallTypeOK, OwnManagers, BeginXform
  <2>3. QED
    BY <1>1, <2>1, <2>2, CallerSteps
<1>2. ASSUME NEW c \in Calls, Work(c) \/ Finish(c)
      PROVE  OwnManagers'
  BY <1>2 DEF SafeInv, OwnManagers, Work, Finish, PixelStep, Overrun, Decode, FromCache,
     FromPipeline, Encode, EndXform, HandleExtraChannels, CopyPanics
<1>3. CASE Crash \/ UNCHANGED vars
  BY <1>3 DEF SafeInv, OwnManagers, Crash, vars, callVars
<1>4. QED
  BY <1>1, <1>2, <1>3 DEF Next, Stopped

LEMMA NextSafe ==
  ASSUME SafeInv, [Next]_vars
  PROVE  SafeInv'
<1>1. CASE Caller
  <2>1. CallSafe'
    <3>1. CASE UNCHANGED callVars
      BY <3>1, SafeStutter DEF SafeInv
    <3>2. ASSUME NEW c \in Calls, NEW first \in Nat, NEW end \in Int,
                 BeginXform(c, c, first, end)
          PROVE  CallSafe'
      BY <3>2, BeginSafe, OwnerFree, ParallelAssumption DEF SafeInv
    <3>3. QED
      BY <1>1, <3>1, <3>2, CallerSteps
  <2>2. QED
    BY <1>1, <2>1, CallerArgs, OwnManagersStep DEF SafeInv
<1>2. ASSUME NEW c \in Calls, Work(c)
      PROVE  SafeInv'
  <2>1. CallSafe'
    BY <1>2, PixelStepSafe, CopySafe DEF SafeInv, Work
  <2>2. ArgsOK'
    BY <1>2 DEF SafeInv, ArgsOK, Work, mainVars
  <2>3. QED
    BY <2>1, <2>2, OwnManagersStep DEF SafeInv
<1>3. ASSUME NEW c \in Calls, Finish(c)
      PROVE  SafeInv'
  <2>1. CallSafe'
    BY <1>3, LeaveSafe DEF SafeInv, Finish
  <2>2. ArgsOK'
    BY <1>3 DEF SafeInv, ArgsOK, Finish
  <2>3. QED
    BY <2>1, <2>2, OwnManagersStep DEF SafeInv
<1>4. CASE Crash \/ UNCHANGED vars
  <2>1. CallSafe'
    BY <1>4, SafeStutter DEF SafeInv, Crash, vars
  <2>2. ArgsOK'
    BY <1>4 DEF SafeInv, ArgsOK, Crash, vars, mainVars
  <2>3. QED
    BY <2>1, <2>2, OwnManagersStep DEF SafeInv
<1>5. QED
  BY <1>1, <1>2, <1>3, <1>4 DEF Next, Stopped

LEMMA SafeAlways == Spec => []SafeInv
<1>1. SafeInv /\ [Next]_vars => SafeInv'
  BY NextSafe
<1>2. QED
  BY InitSafe, <1>1, PTL DEF Spec

\* The types of all variables, for every instance of the model.
THEOREM TypeCorrect == Spec => []TypeOK
<1>1. SafeInv => TypeOK
  BY DEF SafeInv, CallSafe, ArgsOK, TypeOK
<1>2. QED
  BY SafeAlways, <1>1, PTL

----------------------------------------------------------------------------

PixelInv == SafeInv /\ CallInv

LEMMA InitPixel == Init => PixelInv
<1> SUFFICES ASSUME Init
    PROVE  CallInv
  BY InitSafe DEF PixelInv
<1>1. room \in Nat /\ mgr \in [Calls -> Managers]
  BY ParallelAssumption DEF Init
<1>2. wIn \in [Managers -> [Lanes -> Sample]]
  BY TransformAssumption DEF Init, ZeroLanes
<1>3. QED
  BY <1>1, <1>2, CallInitInv DEF Init

LEMMA NextPixel ==
  ASSUME PixelInv, [Next]_vars, ComparesEveryChannel
  PROVE  PixelInv'
<1> SUFFICES CallInv'
  BY NextSafe DEF PixelInv
<1>1. CASE Caller
  <2>1. CASE UNCHANGED callVars
    BY <2>1, InvStutter DEF PixelInv
  <2>2. ASSUME NEW c \in Calls, NEW first \in Nat, NEW end \in Int,
               BeginXform(c, c, first, end)
        PROVE  CallInv'
    BY <2>2, BeginInv, OwnerFree, ParallelAssumption DEF PixelInv, SafeInv
  <2>3. QED
    BY <1>1, <2>1, <2>2, CallerSteps DEF PixelInv
<1>2. ASSUME NEW c \in Calls, Work(c)
      PROVE  CallInv'
  BY <1>2, PixelStepInv, CopyInv DEF PixelInv, Work
<1>3. ASSUME NEW c \in Calls, Finish(c)
      PROVE  CallInv'
  BY <1>3, LeaveInv DEF PixelInv, Finish
<1>4. CASE Crash \/ UNCHANGED vars
  BY <1>4, InvStutter DEF PixelInv, Crash, vars
<1>5. QED
  BY <1>1, <1>2, <1>3, <1>4 DEF Next, Stopped

\* Whatever the schedule and whatever the picture, a pixel that has been
\* written holds the transform of the input pixel at its position, provided
\* a cache hit compares at least the channels of the entry space.
THEOREM ParallelPixelsCorrect ==
  ASSUME ComparesEveryChannel
  PROVE  Spec => []WrittenPixelsCorrect
<1>1. PixelInv /\ [Next]_vars => PixelInv'
  BY NextPixel
<1>2. PixelInv => WrittenPixelsCorrect
  BY DEF PixelInv, CallInv
<1>3. QED
  BY InitPixel, <1>1, <1>2, PTL DEF Spec

\* The gamut-checking routine meets the condition for every entry space, and
\* CachedXFORM meets it for the spaces of at most four channels other than
\* none: what it compares is never less than what the pipeline reads there.
THEOREM WhenEveryChannelIsCompared ==
  (Xform # "CachedXFORM" \/ Channels <= channelsOf(EntryColorSpace))
    => ComparesEveryChannel
<1>1. CASE Xform = "CachedXFORM" /\ Channels <= channelsOf(EntryColorSpace)
  BY <1>1, TransformAssumption DEF ComparesEveryChannel, ComparedLanes, Lanes
<1>2. CASE Xform # "CachedXFORM"
  BY <1>2, TransformAssumption DEF ComparesEveryChannel, ComparedLanes, Lanes
<1>3. QED
  BY <1>1, <1>2

----------------------------------------------------------------------------
(* The call as a whole leaves no pixel out and writes none twice: the      *)
(* chunks partition the request, the WaitGroup counts what is outstanding, *)
(* and so the call is, step by step, the pixel map it promises.            *)

\* The cut: chunks of c pixels.

LEMMA Ceiling ==
  ASSUME NEW p \in Nat \ {0}, NEW n \in Nat \ {0}
  PROVE  (p + n - 1) \div n \in Nat \ {0} /\ p <= n * ((p + n - 1) \div n)
<1> DEFINE a == p + n - 1
           q == a \div n
<1>1. a \in Nat /\ a >= n
  OBVIOUS
<1>2. q \in Nat /\ a = n * q + (a % n) /\ a % n \in 0 .. n - 1
  <2> HIDE DEF a
  <2> QED BY <1>1
<1>3. p <= n * q
  <2>1. n * q \in Nat
    BY <1>2
  <2>2. a = n * q + (a % n) /\ a % n <= n - 1 /\ a = p + n - 1 /\ a % n \in Nat
    BY <1>2
  <2> HIDE DEF a, q
  <2>3. QED
    BY <2>1, <2>2
<1>4. q # 0
  BY <1>3
<1>5. QED
  BY <1>2, <1>3, <1>4

LEMMA NextChunk ==
  ASSUME NEW c \in Nat, NEW i \in Nat, NEW j \in Nat, i < j
  PROVE  i * c \in Nat /\ j * c \in Nat /\ i * c + c <= j * c
<1> DEFINE k == j - i - 1
<1>1. k \in Nat /\ j = i + 1 + k
  OBVIOUS
<1> HIDE DEF k
<1>2. j * c = i * c + c + k * c
  BY <1>1
<1>3. i * c \in Nat /\ k * c \in Nat
  BY <1>1
<1>4. QED
  BY <1>2, <1>3

LEMMA InAChunk ==
  ASSUME NEW c \in Nat \ {0}, NEW n \in Nat, NEW p \in Nat, p < n * c
  PROVE  \E i \in 0 .. n - 1 : i * c <= p /\ p < i * c + c
<1> DEFINE i == p \div c
<1>1. i \in Nat /\ p = c * i + (p % c) /\ p % c \in 0 .. c - 1
  OBVIOUS
<1>2. i * c \in Nat /\ i * c <= p /\ p < i * c + c
  <2>1. c * i = i * c /\ i * c \in Nat
    BY <1>1
  <2> HIDE DEF i
  <2>2. QED
    BY <1>1, <2>1
<1> HIDE DEF i
<1>3. i < n
  <2>1. CASE i = n
    BY <1>2, <2>1
  <2>2. CASE i > n
    <3>1. n * c + c <= i * c
      BY <1>1, <2>2, NextChunk
    <3>2. n * c \in Nat
      OBVIOUS
    <3>3. QED
      BY <1>2, <3>1, <3>2
  <2>3. QED
    BY <1>1, <2>1, <2>2
<1>4. i \in 0 .. n - 1
  BY <1>1, <1>3
<1>5. QED
  BY <1>2, <1>4

----------------------------------------------------------------------------
(* The chunks of a request. *)

LEMMA ChunkSize ==
  ASSUME ArgsOK, pixels \in Nat \ {0}
  PROVE  /\ NumWorkers \in Nat \ {0} /\ NumWorkers <= MaxWorkers
         /\ Chunk \in Nat \ {0} /\ pixels <= NumWorkers * Chunk
<1>1. NumWorkers \in Nat \ {0} /\ NumWorkers <= MaxWorkers
  BY ParallelAssumption DEF ArgsOK, NumWorkers, Requested, Min2
<1>2. QED
  BY <1>1, Ceiling DEF Chunk

LEMMA ChunkRange ==
  ASSUME ArgsOK, pixels \in Nat \ {0}, NEW i \in Nat
  PROVE  /\ StartPx(i) \in Nat
         /\ EndPx(i) \in Nat /\ EndPx(i) <= pixels /\ EndPx(i) <= StartPx(i) + Chunk
         /\ StartPx(i) < pixels => StartPx(i) < EndPx(i)
<1>1. Chunk \in Nat \ {0}
  BY ChunkSize
<1>2. i * Chunk \in Nat
  BY <1>1
<1>3. QED
  BY <1>1, <1>2 DEF StartPx, EndPx, Min2

\* The chunks cover the request.
LEMMA SomeChunk ==
  ASSUME ArgsOK, pixels \in Nat \ {0}, NEW p \in 0 .. pixels - 1
  PROVE  \E i \in 0 .. NumWorkers - 1 : StartPx(i) <= p /\ p < EndPx(i)
<1> DEFINE n == NumWorkers
           c == Chunk
<1>1. n \in Nat \ {0} /\ c \in Nat \ {0} /\ pixels <= n * c
  BY ChunkSize
<1> HIDE DEF n, c
<1>2. p \in Nat /\ p < n * c
  <2>1. n * c \in Nat
    BY <1>1
  <2>2. QED
    BY <1>1, <2>1
<1>3. PICK i \in 0 .. n - 1 : i * c <= p /\ p < i * c + c
  BY <1>1, <1>2, InAChunk
<1>4. i \in Nat /\ i * c \in Nat
  BY <1>1, <1>3
<1>5. StartPx(i) <= p /\ p < EndPx(i)
  BY <1>1, <1>3, <1>4 DEF StartPx, EndPx, Min2, c
<1>6. QED
  BY <1>3, <1>5 DEF n

\* No pixel is in two chunks.
LEMMA OneChunk ==
  ASSUME ArgsOK, pixels \in Nat \ {0}, NEW i \in Nat, NEW j \in Nat, NEW p \in Int,
         StartPx(i) <= p, p < EndPx(i), StartPx(j) <= p, p < EndPx(j)
  PROVE  i = j
<1>1. Chunk \in Nat
  BY ChunkSize
<1>2. ASSUME NEW k \in Nat
      PROVE  StartPx(k) \in Nat /\ EndPx(k) \in Nat /\ EndPx(k) <= StartPx(k) + Chunk
  BY ChunkRange
<1>3. ASSUME NEW k \in Nat, NEW l \in Nat, k < l
      PROVE  StartPx(k) + Chunk <= StartPx(l)
  BY <1>1, <1>3, NextChunk DEF StartPx
<1>4. ASSUME NEW k \in Nat, NEW l \in Nat, k < l, p < EndPx(k), StartPx(l) <= p
      PROVE  FALSE
  <2>1. StartPx(k) \in Nat /\ EndPx(k) \in Nat /\ EndPx(k) <= StartPx(k) + Chunk
    BY <1>2
  <2>2. StartPx(k) + Chunk <= StartPx(l) /\ StartPx(l) \in Nat
    BY <1>2, <1>3, <1>4
  <2>3. QED
    BY <1>1, <1>4, <2>1, <2>2
<1>5. ~(i < j) /\ ~(j < i)
  BY <1>4
<1>6. QED
  BY <1>5

\* The sequential path is the cut into one chunk.
LEMMA WholeChunk ==
  ASSUME ArgsOK, pixels \in Nat \ {0}, NumWorkers = 1
  PROVE  StartPx(0) = 0 /\ EndPx(0) = pixels
<1>1. Chunk \in Nat /\ pixels <= Chunk
  BY Ceiling DEF Chunk
<1>2. QED
  BY <1>1 DEF StartPx, EndPx, Min2

----------------------------------------------------------------------------
(* The invariant. *)

Engaged == main \in {"sequential", "spawn", "waiting"}

\* The calls that have been started.
Started(c) ==
  IF main = "sequential" THEN c = 0 ELSE c < w /\ StartPx(c) < pixels

\* What a started call has done.
Within(c) ==
  /\ pc[c] # "idle"
  /\ last[c] = EndPx(c)
  /\ StartPx(c) <= px[c] /\ px[c] <= last[c] /\ px[c] <= room
  /\ pc[c] = "begin" => px[c] < last[c]
  /\ pc[c] = "done" => px[c] = last[c]
  /\ pc[c] = "panicked" => room < pixels \/ formats \notin {"plain", "leading"}

\* The extra channels cannot be copied in slices that end with a chunk.
CannotCopy == formats \in {"trailing", "converted"}

\* A goroutine panics over its extra channels, and then every one of them
\* does, or none has got any further.
Doom ==
  Parallel =>
    IF CannotCopy
      THEN Unwritten /\ \A c \in Calls : pc[c] \in {"idle", "begin", "panicked"}
      ELSE \A c \in Calls : pc[c] # "panicked"

\* Nobody is at work before the call and after it.
Outside ==
  /\ main = "enter" => Unwritten /\ w = 0 /\ \A c \in Calls : pc[c] = "idle"
  /\ main \in {"returned", "panicked"} => \A c \in Calls : ~Busy(c)
  /\ main = "crashed" => Doomed

\* The path that was taken.
PathTaken ==
  /\ Engaged => pixels \in Nat \ {0}
  /\ main = "sequential" => ~Parallel /\ NumWorkers = 1
  /\ Forked => /\ Parallel /\ formats # "planar"
               /\ pixels <= room /\ w <= NumWorkers
  /\ main = "waiting" => w = NumWorkers

\* A started call is within its chunk, and what it has passed is written.
Chunked ==
  Engaged =>
    /\ \A c \in Calls : Started(c) => Within(c)
    /\ \A c \in Calls : ~Started(c) => pc[c] = "idle"
    /\ \A p \in 0 .. room - 1 :
         out[p] # Untouched <=>
           \E c \in Calls : Started(c) /\ StartPx(c) <= p /\ p < px[c]

AtTheEnd ==
  /\ main = "returned" /\ ~Doomed =>
       \A p \in 0 .. room - 1 : out[p] # Untouched <=> p < pixels
  /\ main = "panicked" /\ Parallel => Unwritten

\* What is about to be encoded is an output.
Evaluated == \A c \in Calls : pc[c] = "encode" => wOut[mgr[c]] \in Output

CallEndsRight ==
  /\ SafeInv
  /\ Evaluated
  /\ Outside /\ PathTaken /\ Chunked /\ AtTheEnd /\ Doom
  /\ WaitGroupCounts

LEMMA InitCompletion == Init => CallEndsRight
<1> SUFFICES ASSUME Init PROVE CallEndsRight
  OBVIOUS
<1>1. SafeInv
  BY InitSafe
<1>2. QED
  BY <1>1 DEF Init, CallInit, CallEndsRight, Evaluated, Outside, PathTaken, Chunked, AtTheEnd,
     Engaged, WaitGroupCounts, Unwritten, Forked, Busy, Doom

----------------------------------------------------------------------------
(* The steps of a call in its pixel loop. *)

LEMMA SameChunks ==
  ASSUME UNCHANGED <<pixels, workers>>, NEW i
  PROVE  StartPx(i)' = StartPx(i) /\ EndPx(i)' = EndPx(i)
  BY DEF StartPx, EndPx, Chunk, NumWorkers, Requested, Min2

LEMMA SamePath ==
  ASSUME UNCHANGED <<pixels, workers>>
  PROVE  /\ NumWorkers' = NumWorkers /\ Requested' = Requested
         /\ Parallel' <=> Parallel
  BY DEF Parallel, NumWorkers, Requested, Min2

LEMMA CallTypes ==
  ASSUME CallEndsRight, NEW c \in Calls
  PROVE  /\ c \in Nat /\ room \in Nat /\ px[c] \in Nat /\ last[c] \in Int
         /\ pc[c] \in Places
         /\ mgr[c] \in Managers
<1>1. c \in Nat
  BY ParallelAssumption
<1>2. CallTypeOK
  BY DEF CallEndsRight, SafeInv, CallSafe
<1>3. QED
  BY <1>1, <1>2 DEF CallTypeOK, Places

LEMMA RunningFinite == IsFiniteSet(Running) /\ Cardinality(Running) \in Nat
<1>1. IsFiniteSet(Calls)
  BY ParallelAssumption, FS_Interval
<1>2. Running \subseteq Calls
  BY DEF Running
<1>3. QED
  BY <1>1, <1>2, FS_Subset, FS_CardinalityType

\* A call at work has been started and is within its chunk and the buffers.
LEMMA AtWork ==
  ASSUME CallEndsRight, NEW c \in Calls, Busy(c),
         main # "crashed" \/ pc[c] # "begin"
  PROVE  Engaged /\ Started(c) /\ Within(c)
<1>1. Engaged
  <2>1. main # "crashed"
    BY DEF CallEndsRight, Outside, Doom, Doomed, Busy
  <2>2. main \in {"enter", "sequential", "spawn", "waiting", "returned", "panicked",
                  "crashed"}
    BY DEF CallEndsRight, SafeInv, ArgsOK
  <2>3. QED
    BY <2>1, <2>2 DEF CallEndsRight, Outside, Engaged, Busy
<1>2. Started(c)
  BY <1>1 DEF CallEndsRight, Chunked, Busy
<1>3. QED
  BY <1>1, <1>2 DEF CallEndsRight, Chunked

\* The extra channels are copied: not those that end a goroutine.
LEMMA CopyStep ==
  ASSUME CallEndsRight, SafeInv', NEW c \in Calls, main # "crashed",
         HandleExtraChannels(c, SliceEnd(c)), UNCHANGED mainVars
  PROVE  CallEndsRight'
<1>1. Busy(c) /\ pc[c] = "begin"
  BY DEF HandleExtraChannels, Busy
<1>2. Engaged /\ Started(c) /\ Within(c)
  BY <1>1, AtWork
<1>3. UNCHANGED <<formats, room, out, px, last, mgr, wOut, mainVars>>
  BY DEF HandleExtraChannels
<1>4. /\ pc'[c] = "decode"
      /\ \A d \in Calls : d # c => pc'[d] = pc[d]
  BY DEF HandleExtraChannels, CallEndsRight, SafeInv, CallSafe, CallTypeOK
<1>5. \A d \in Calls : Busy(d)' <=> Busy(d)
  BY <1>1, <1>4 DEF Busy
<1>6. NumWorkers' = NumWorkers /\ Requested' = Requested /\ (Parallel' <=> Parallel)
  BY <1>3, SamePath DEF mainVars
<1>7. Evaluated'
  BY <1>3, <1>4 DEF CallEndsRight, Evaluated
<1>8. Outside' /\ AtTheEnd'
  BY <1>2, <1>3 DEF Outside, AtTheEnd, Engaged, mainVars
<1>9. PathTaken'
  BY <1>3, <1>6 DEF CallEndsRight, PathTaken, Engaged, Forked, mainVars
<1>10. Chunked'
  <2>1. \A d \in Calls : Started(d)' <=> Started(d)
    BY <1>3, SameChunks DEF Started, mainVars
  <2>2. Engaged' <=> Engaged
    BY <1>3 DEF Engaged, mainVars
  <2>3. \A d \in Calls : Started(d) => Within(d)'
    BY <1>1, <1>2, <1>3, <1>4, SameChunks DEF Within, CallEndsRight, Chunked, mainVars
  <2>4. QED
    BY <1>2, <1>3, <1>4, <2>1, <2>2, <2>3, SameChunks DEF CallEndsRight, Chunked, mainVars
<1>11. Doom'
  <2>1. Parallel => ~CannotCopy
    <3>1. SUFFICES ASSUME Parallel, CannotCopy PROVE FALSE
      OBVIOUS
    <3>2. last[c] < last[c] \/ px[c] = last[c]
      BY <3>1 DEF HandleExtraChannels, SliceEnd, CopyFits, CannotCopy
    <3>3. px[c] < last[c] /\ px[c] \in Nat /\ last[c] \in Int
      BY <1>1, <1>2, CallTypes DEF Within
    <3>4. QED
      BY <3>2, <3>3
  <2>2. QED
    BY <1>3, <1>4, <1>6, <2>1 DEF CallEndsRight, Doom, CannotCopy
<1>12. WaitGroupCounts'
  <2>1. Running' = Running
    BY <1>5 DEF Running
  <2>2. QED
    BY <1>3, <1>6, <2>1 DEF CallEndsRight, WaitGroupCounts, Forked, mainVars
<1>13. QED
  BY <1>7, <1>8, <1>9, <1>10, <1>11, <1>12 DEF CallEndsRight

\* A step between Decode and Encode moves nothing but the call's place.
LEMMA EvaluationStep ==
  ASSUME CallEndsRight, SafeInv', NEW c \in Calls,
         Decode(c) \/ FromCache(c) \/ FromPipeline(c), UNCHANGED mainVars
  PROVE  CallEndsRight'
<1>1. Busy(c) /\ px[c] < last[c]
  BY DEF Decode, FromCache, FromPipeline, Busy, CallEndsRight, SafeInv, CallSafe, InRange
<1>2. Engaged /\ Started(c) /\ Within(c)
  BY <1>1, AtWork DEF Decode, FromCache, FromPipeline
<1>3. /\ UNCHANGED <<formats, room, out, px, last, mgr, mainVars>>
      /\ \E new \in {"lookup", "encode"} : pc' = [pc EXCEPT ![c] = new]
  BY DEF Decode, FromCache, FromPipeline
<1>4. PICK new \in {"lookup", "encode"} : pc' = [pc EXCEPT ![c] = new]
  BY <1>3
<1>5. pc \in [Calls -> Places]
  BY DEF CallEndsRight, SafeInv, CallSafe, CallTypeOK, Places
<1>6. /\ pc'[c] = new
      /\ \A d \in Calls : d # c => pc'[d] = pc[d]
  BY <1>4, <1>5
<1>7. \A d \in Calls : Busy(d)' <=> Busy(d)
  BY <1>1, <1>6 DEF Busy
<1>8. Evaluated'
  <2>1. wOut \in [Managers -> Output \cup {Untouched}] /\ mgr \in [Calls -> Managers]
    BY DEF CallEndsRight, SafeInv, CallSafe, CallTypeOK
  <2>2. \A d \in Calls : mgr[d] = d
    BY DEF CallEndsRight, SafeInv, OwnManagers
  <2>3. CASE Decode(c)
    <3>1. UNCHANGED <<mgr, wOut>> /\ pc'[c] = "lookup"
      BY <1>5, <2>3 DEF Decode
    <3>2. QED
      BY <1>6, <3>1 DEF CallEndsRight, Evaluated
  <2>4. ASSUME NEW value \in Output, wOut' = [wOut EXCEPT ![mgr[c]] = value]
        PROVE  Evaluated'
    BY <1>3, <1>6, <2>1, <2>2, <2>4 DEF CallEndsRight, Evaluated
  <2>5. CASE FromCache(c)
    <3>1. cache[c].out \in Output
      BY DEF CallEndsRight, SafeInv, CallSafe, CallTypeOK
    <3>2. QED
      BY <2>4, <2>5, <3>1 DEF FromCache
  <2>6. CASE FromPipeline(c)
    <3>1. wIn[mgr[c]] \in [Lanes -> Sample]
      BY DEF CallEndsRight, SafeInv, CallSafe, CallTypeOK
    <3>2. Eval[PixelOf(wIn[mgr[c]])] \in Output
      BY <3>1, PixelOfType
    <3>3. QED
      BY <2>4, <2>6, <3>2 DEF FromPipeline
  <2>7. QED
    BY <2>3, <2>5, <2>6
<1>9. Outside'
  BY <1>2, <1>3 DEF Outside, Engaged, mainVars
<1>10. PathTaken'
  BY <1>3, SamePath DEF CallEndsRight, PathTaken, Engaged, Forked, mainVars
<1>11. Chunked'
  <2>1. \A d \in Calls : Started(d)' <=> Started(d)
    BY <1>3, SameChunks DEF Started, mainVars
  <2>2. Engaged' <=> Engaged
    BY <1>3 DEF Engaged, mainVars
  <2>3. \A d \in Calls : Started(d) => Within(d)'
    BY <1>1, <1>2, <1>3, <1>6, SameChunks DEF Within, CallEndsRight, Chunked, mainVars
  <2>4. QED
    BY <1>2, <1>3, <1>6, <2>1, <2>2, <2>3, SameChunks DEF CallEndsRight, Chunked, mainVars
<1>12. AtTheEnd'
  BY <1>2, <1>3 DEF AtTheEnd, Engaged, mainVars
<1>13. WaitGroupCounts'
  <2>1. Running' = Running
    BY <1>7 DEF Running
  <2>2. QED
    BY <1>3, <2>1, SamePath DEF CallEndsRight, WaitGroupCounts, Forked, mainVars
<1>14. Doom'
  <2>1. Parallel => ~CannotCopy
    BY <1>1 DEF CallEndsRight, Doom, Decode, FromCache, FromPipeline
  <2>2. Parallel' <=> Parallel
    BY <1>3, SamePath DEF mainVars
  <2>3. QED
    BY <1>3, <1>6, <2>1, <2>2 DEF CallEndsRight, Doom, CannotCopy
<1>15. QED
  BY <1>8, <1>9, <1>10, <1>11, <1>12, <1>13, <1>14 DEF CallEndsRight

\* Encode adds one pixel to what its call has passed.
LEMMA EncodeStep ==
  ASSUME CallEndsRight, SafeInv', NEW c \in Calls, Encode(c), UNCHANGED mainVars
  PROVE  CallEndsRight'
<1>1. Busy(c) /\ px[c] < last[c] /\ px[c] < room
  BY DEF Encode, Busy, CallEndsRight, SafeInv, CallSafe, InRange
<1>2. Engaged /\ Started(c) /\ Within(c)
  BY <1>1, AtWork DEF Encode
<1>3. UNCHANGED <<formats, room, last, mgr, wOut, mainVars>>
  BY DEF Encode
<1>4. /\ pc \in [Calls -> Places]
      /\ px \in [Calls -> Nat]
      /\ last \in [Calls -> Int]
      /\ room \in Nat
      /\ out \in [0 .. room - 1 -> Output \cup {Untouched}]
  BY DEF CallEndsRight, SafeInv, CallSafe, CallTypeOK, Places
<1>5. /\ pc'[c] = "decode" /\ px'[c] = px[c] + 1
      /\ \A d \in Calls : d # c => pc'[d] = pc[d] /\ px'[d] = px[d]
  BY <1>4 DEF Encode
<1>6. /\ out'[px[c]] # Untouched
      /\ \A p \in 0 .. room - 1 : p # px[c] => out'[p] = out[p]
  <2>1. wOut[mgr[c]] \in Output
    BY DEF CallEndsRight, Evaluated, Encode
  <2>2. px[c] \in 0 .. room - 1
    BY <1>1, <1>4
  <2>3. QED
    BY <1>4, <2>1, <2>2, TransformAssumption DEF Encode
<1>7. \A d \in Calls : Busy(d)' <=> Busy(d)
  BY <1>1, <1>5 DEF Busy
<1>8. Evaluated'
  BY <1>3, <1>5 DEF CallEndsRight, Evaluated
<1>9. Outside'
  BY <1>2, <1>3 DEF Outside, Engaged, mainVars
<1>10. PathTaken'
  BY <1>3, SamePath DEF CallEndsRight, PathTaken, Engaged, Forked, mainVars
<1>11. Chunked'
  <2>1. \A d \in Calls : Started(d)' <=> Started(d)
    BY <1>3, SameChunks DEF Started, mainVars
  <2>2. \A d \in Calls : StartPx(d)' = StartPx(d) /\ EndPx(d)' = EndPx(d)
    BY <1>3, SameChunks DEF mainVars
  <2>3. \A d \in Calls : Started(d) => Within(d)'
    <3>1. Within(c)'
      <4>1. ArgsOK /\ pixels \in Nat \ {0} /\ c \in Nat
        BY <1>2, CallTypes DEF CallEndsRight, SafeInv, PathTaken
      <4>2. StartPx(c) \in Nat
        BY <4>1, ChunkRange
      <4>3. QED
        BY <1>1, <1>2, <1>3, <1>4, <1>5, <2>2, <4>2 DEF Within, mainVars
    <3>2. ASSUME NEW d \in Calls, d # c, Started(d)
          PROVE  Within(d)'
      <4>1. Within(d)
        BY <1>2, <3>2 DEF CallEndsRight, Chunked
      <4>2. QED
        BY <1>3, <1>5, <2>2, <3>2, <4>1 DEF Within, mainVars
    <3>3. QED
      BY <3>1, <3>2
  <2>4. \A d \in Calls : ~Started(d) => pc'[d] = "idle"
    BY <1>2, <1>5 DEF CallEndsRight, Chunked
  <2>5. ASSUME NEW p \in 0 .. room - 1
        PROVE  out'[p] # Untouched <=>
                 \E d \in Calls : Started(d) /\ StartPx(d) <= p /\ p < px'[d]
    <3>1. CASE p = px[c]
      BY <1>2, <1>4, <1>5, <1>6, <3>1 DEF Within
    <3>2. CASE p # px[c]
      <4>1. \A d \in Calls : p < px'[d] <=> p < px[d]
        BY <1>4, <1>5, <3>2
      <4>2. QED
        BY <1>2, <1>6, <3>2, <4>1 DEF CallEndsRight, Chunked
    <3>3. QED
      BY <3>1, <3>2
  <2>6. QED
    BY <1>3, <2>1, <2>2, <2>3, <2>4, <2>5 DEF Chunked
<1>12. AtTheEnd'
  BY <1>2, <1>3 DEF AtTheEnd, Engaged, mainVars
<1>13. WaitGroupCounts'
  <2>1. Running' = Running
    BY <1>7 DEF Running
  <2>2. QED
    BY <1>3, <2>1, SamePath DEF CallEndsRight, WaitGroupCounts, Forked, mainVars
<1>14. Doom'
  <2>1. Parallel => ~CannotCopy
    BY <1>1 DEF CallEndsRight, Doom, Encode
  <2>2. Parallel' <=> Parallel
    BY <1>3, SamePath DEF mainVars
  <2>3. QED
    BY <1>3, <1>5, <2>1, <2>2 DEF CallEndsRight, Doom, CannotCopy
<1>15. QED
  BY <1>8, <1>9, <1>10, <1>11, <1>12, <1>13, <1>14 DEF CallEndsRight

\* A call that ends, or panics, is one fewer at work.
LEMMA LeaveStep ==
  ASSUME CallEndsRight, SafeInv', NEW c \in Calls, Finish(c)
  PROVE  CallEndsRight'
<1>1. Busy(c) /\ main # "crashed" /\ pc[c] \in {"begin", "decode"}
  BY DEF Overrun, CopyPanics, Finish, EndXform, Busy
<1>2. Engaged /\ Started(c) /\ Within(c)
  BY <1>1, AtWork
<1>3. /\ UNCHANGED <<formats, room, out, px, last, mgr, wOut, pixels, workers, main, w>>
      /\ wg' = IF Parallel THEN wg - 1 ELSE wg
  BY DEF Overrun, CopyPanics, Finish, EndXform
<1>4. /\ pc \in [Calls -> Places]
      /\ px \in [Calls -> Nat]
      /\ last \in [Calls -> Int]
      /\ room \in Nat /\ formats \in Formats /\ pixels \in Nat \ {0}
      /\ last[c] <= pixels
  <2>1. ArgsOK /\ pixels \in Nat \ {0} /\ c \in Nat
    BY <1>2, CallTypes DEF CallEndsRight, SafeInv, PathTaken
  <2>2. last[c] <= pixels
    BY <1>2, <2>1, ChunkRange DEF Within
  <2>3. QED
    BY <2>1, <2>2 DEF CallEndsRight, SafeInv, CallSafe, CallTypeOK, Places
<1>5. /\ pc'[c] \in {"done", "panicked"}
      /\ pc'[c] = "done" => px[c] >= last[c] /\ pc[c] = "decode"
      /\ \A d \in Calls : d # c => pc'[d] = pc[d]
  BY <1>4 DEF Overrun, CopyPanics, Finish, EndXform
<1>6. ASSUME pc'[c] = "panicked"
       PROVE  /\ room < pixels \/ formats \notin {"plain", "leading"}
              /\ Parallel => CannotCopy
  <2>1. CASE Overrun(c)
    <3>1. px[c] < last[c] /\ (px[c] >= room \/ formats = "planar")
      BY <2>1 DEF Overrun
    <3>2. Parallel => formats # "planar" /\ pixels <= room
      BY <1>2 DEF Engaged, Forked, CallEndsRight, PathTaken
    <3>3. px[c] \in Nat /\ last[c] \in Int
      BY <1>4
    <3>4. QED
      BY <1>4, <3>1, <3>2, <3>3
  <2>2. CASE CopyPanics(c, SliceEnd(c))
    <3>1. ~CopyFits(c, SliceEnd(c)) /\ last[c] \in Int
      BY <1>4, <2>2 DEF CopyPanics
    <3>2. CASE formats = "leading"
      <4>1. ~(last[c] <= SliceEnd(c))
        BY <3>1, <3>2 DEF CopyFits
      <4>2. ~Parallel /\ room < last[c]
        BY <1>4, <3>1, <4>1 DEF SliceEnd
      <4>3. QED
        BY <1>4, <3>1, <4>2
    <3>3. CASE formats \in {"trailing", "converted"}
      BY <3>3 DEF CannotCopy
    <3>4. CASE formats \in {"plain", "planar"}
      BY <3>1, <3>4 DEF CopyFits
    <3>5. QED
      BY <1>4, <3>2, <3>3, <3>4 DEF Formats
  <2>3. CASE EndXform(c)
    BY <1>4, <1>6, <2>3 DEF EndXform
  <2>4. QED
    BY <2>1, <2>2, <2>3 DEF Finish
<1>7. \A d \in Calls : Busy(d)' <=> Busy(d) /\ d # c
  BY <1>5 DEF Busy
<1>8. Evaluated'
  BY <1>3, <1>5 DEF CallEndsRight, Evaluated
<1>9. Outside'
  BY <1>2, <1>3 DEF Outside, Engaged
<1>10. PathTaken'
  BY <1>3, SamePath DEF CallEndsRight, PathTaken, Engaged, Forked
<1>11. \A d \in Calls : StartPx(d)' = StartPx(d) /\ EndPx(d)' = EndPx(d)
  BY <1>3, SameChunks
<1>12. Chunked'
  <2>1. \A d \in Calls : Started(d)' <=> Started(d)
    BY <1>3, <1>11 DEF Started
  <2>2. \A d \in Calls : Started(d) => Within(d)'
    BY <1>2, <1>3, <1>4, <1>5, <1>6, <1>11 DEF Within, CallEndsRight, Chunked
  <2>3. QED
    BY <1>2, <1>3, <1>5, <1>11, <2>1, <2>2 DEF CallEndsRight, Chunked
<1>13. AtTheEnd'
  BY <1>2, <1>3 DEF AtTheEnd, Engaged
<1>14. WaitGroupCounts'
  <2>1. Running' = Running \ {c} /\ c \in Running
    BY <1>1, <1>7 DEF Running
  <2>2. Cardinality(Running') = Cardinality(Running) - 1
    BY <2>1, RunningFinite, FS_RemoveElement
  <2>3. NumWorkers' = NumWorkers /\ NumWorkers \in Int /\ w \in Nat /\ wg \in Int
    BY <1>3, ParallelAssumption
      DEF NumWorkers, Requested, Min2, CallEndsRight, SafeInv, ArgsOK
  <2>4. CASE main = "sequential"
    BY <1>3, <2>4 DEF WaitGroupCounts, Forked
  <2>5. CASE Forked
    <3>3. wg' = wg - 1
      BY <1>3, <2>5 DEF CallEndsRight, PathTaken
    <3>4. Cardinality(Running) \in Nat
      BY RunningFinite
    <3>5. wg = (NumWorkers - w) + Cardinality(Running)
      BY <2>5 DEF CallEndsRight, WaitGroupCounts
    <3>6. wg' = (NumWorkers' - w') + Cardinality(Running')
      BY <1>3, <2>2, <2>3, <3>3, <3>4, <3>5
    <3>7. QED
      BY <3>6 DEF WaitGroupCounts
  <2>6. QED
    BY <1>2, <2>4, <2>5 DEF Engaged, Forked
<1>15. Doom'
  <2>1. Parallel' <=> Parallel
    BY <1>3, SamePath
  <2>2. SUFFICES ASSUME Parallel
                 PROVE  IF CannotCopy
                          THEN Unwritten /\ \A d \in Calls : pc'[d] \in {"idle", "begin", "panicked"}
                          ELSE \A d \in Calls : pc'[d] # "panicked"
    BY <1>3, <2>1 DEF Doom, CannotCopy, Unwritten
  <2>3. CASE CannotCopy
    <3>1. Unwritten /\ \A d \in Calls : pc[d] \in {"idle", "begin", "panicked"}
      BY <2>2, <2>3 DEF CallEndsRight, Doom
    <3>2. pc'[c] = "panicked"
      BY <1>5, <3>1
    <3>3. QED
      BY <1>5, <2>3, <3>1, <3>2
  <2>4. CASE ~CannotCopy
    <3>1. \A d \in Calls : pc[d] # "panicked"
      BY <2>2, <2>4 DEF CallEndsRight, Doom
    <3>2. pc'[c] # "panicked"
      BY <1>6, <2>2, <2>4
    <3>3. QED
      BY <1>5, <2>4, <3>1, <3>2
  <2>5. QED
    BY <2>3, <2>4
<1>16. QED
  BY <1>8, <1>9, <1>10, <1>12, <1>13, <1>14, <1>15 DEF CallEndsRight

----------------------------------------------------------------------------
(* The steps of the calling goroutine. *)

\* The call is decided: nothing has been started yet.
LEMMA EnterStep ==
  ASSUME CallEndsRight, SafeInv', NothingToDo \/ PlanarFormats \/ BuffersTooSmall \/ Fork
  PROVE  CallEndsRight'
<1>1. /\ main = "enter" /\ w = 0 /\ Unwritten
      /\ \A c \in Calls : pc[c] = "idle"
  BY DEF NothingToDo, PlanarFormats, BuffersTooSmall, Fork, Goto, CallEndsRight, Outside
<1>2. UNCHANGED <<formats, room, out, pc, px, last, mgr, wOut, pixels, workers, w>>
  BY DEF NothingToDo, PlanarFormats, BuffersTooSmall, Fork, callVars
<1>3. /\ pixels \in Int /\ room \in Nat
      /\ NumWorkers \in Int
      /\ NumWorkers' = NumWorkers /\ Requested' = Requested
      /\ Parallel' <=> Parallel
  BY <1>2, SamePath, ParallelAssumption
    DEF CallEndsRight, SafeInv, CallSafe, CallTypeOK, ArgsOK, NumWorkers, Requested, Min2
<1>4. Running' = {}
  BY <1>1, <1>2 DEF Running, Busy
<1>5. Evaluated' /\ Outside'
  BY <1>1, <1>2, <1>4
    DEF CallEndsRight, Evaluated, Outside, NothingToDo, PlanarFormats, BuffersTooSmall, Fork, Goto, Engaged, Running
<1>6. Doom'
  BY <1>1, <1>2 DEF Doom, Unwritten
<1>7. CASE Fork
  <2>1. /\ main' = "spawn" /\ wg' = NumWorkers /\ room >= pixels
        /\ Parallel /\ formats # "planar" /\ Requested > 1 /\ pixels > 1
    BY <1>7 DEF Fork, Goto, Parallel
  <2>2. PathTaken'
    <3>1. NumWorkers >= 0
      BY <1>3, <2>1, ParallelAssumption DEF CallEndsRight, SafeInv, ArgsOK, NumWorkers, Requested, Min2
    <3>2. QED
      BY <1>1, <1>2, <1>3, <2>1, <3>1 DEF PathTaken, Engaged, Forked
  <2>3. Chunked'
    <3>1. \A c \in Calls : ~Started(c)'
      <4>1. \A c \in Calls : c \in Nat
        BY ParallelAssumption
      <4>2. QED
        BY <1>1, <1>2, <2>1, <4>1 DEF Started
    <3>2. QED
      BY <1>1, <1>2, <2>1, <3>1 DEF Chunked, Unwritten
  <2>4. WaitGroupCounts'
    BY <1>1, <1>2, <1>3, <1>4, <2>1, FS_EmptySet DEF WaitGroupCounts
  <2>5. QED
    BY <1>5, <1>6, <2>1, <2>2, <2>3, <2>4 DEF CallEndsRight, AtTheEnd
<1>8. CASE ~Fork
  <2>1. /\ main' \in {"returned", "panicked"}
        /\ main' = "returned" => pixels <= 0
    BY <1>8 DEF NothingToDo, PlanarFormats, BuffersTooSmall, Goto
  <2>2. AtTheEnd'
    BY <1>1, <1>2, <1>3, <2>1 DEF AtTheEnd, Unwritten
  <2>3. QED
    BY <1>5, <1>6, <2>1, <2>2
      DEF CallEndsRight, PathTaken, Chunked, WaitGroupCounts, Engaged, Forked
<1>9. QED
  BY <1>7, <1>8

\* The sequential path is one call on one chunk.
LEMMA SequentialStep ==
  ASSUME CallEndsRight, SafeInv', Sequential
  PROVE  CallEndsRight'
<1>1. /\ main = "enter" /\ main' = "sequential" /\ Unwritten
      /\ \A c \in Calls : pc[c] = "idle"
      /\ pixels \in Nat \ {0}
      /\ ~Parallel /\ (~(Requested > 1) \/ pixels = 1)
  BY DEF Sequential, Parallel, Goto, CallEndsRight, Outside, SafeInv, ArgsOK
<1>2. UNCHANGED <<formats, room, out, wOut, pixels, workers>>
  BY DEF Sequential, BeginXform
<1>3. 0 \in Calls
  BY ParallelAssumption
<1>4. /\ pc \in [Calls -> Places]
      /\ px \in [Calls -> Nat]
      /\ last \in [Calls -> Int]
      /\ room \in Nat
  BY DEF CallEndsRight, SafeInv, CallSafe, CallTypeOK, Places
<1>5. /\ pc'[0] = "begin" /\ px'[0] = 0 /\ last'[0] = pixels
      /\ \A c \in Calls : c # 0 => pc'[c] = "idle"
  BY <1>1, <1>3, <1>4 DEF Sequential, BeginXform
<1>6. NumWorkers = 1 /\ ArgsOK
  BY <1>1, ParallelAssumption DEF NumWorkers, Requested, Min2, CallEndsRight, SafeInv, ArgsOK
<1>7. StartPx(0)' = 0 /\ EndPx(0)' = pixels
  BY <1>1, <1>2, <1>6, WholeChunk, SameChunks
<1>8. Evaluated'
  BY <1>3, <1>5 DEF Evaluated
<1>9. Outside'
  BY <1>1 DEF Outside, Engaged
<1>10. PathTaken'
  BY <1>1, <1>2, <1>6, SamePath DEF PathTaken, Engaged, Forked
<1>11. Chunked'
  <2>1. \A c \in Calls : Started(c)' <=> c = 0
    BY <1>1 DEF Started
  <2>2. Within(0)'
    BY <1>1, <1>4, <1>5, <1>2, <1>7 DEF Within
  <2>3. \A p \in 0 .. room - 1 : ~(p < px'[0])
    BY <1>5, <1>4
  <2>4. QED
    BY <1>1, <1>2, <1>5, <2>1, <2>2, <2>3 DEF Chunked, Unwritten
<1>12. Doom'
  BY <1>1, <1>2, SamePath DEF Doom
<1>13. QED
  BY <1>1, <1>8, <1>9, <1>10, <1>11, <1>12 DEF CallEndsRight, AtTheEnd, WaitGroupCounts, Forked

\* The loop that starts the workers: it starts one, or finds nothing left.
LEMMA SpawnStep ==
  ASSUME CallEndsRight, SafeInv', SpawnWorker \/ SkipWorker
  PROVE  CallEndsRight'
<1>1. /\ main = "spawn" /\ main' = "spawn" /\ w' = w + 1 /\ w \in Nat /\ wg \in Int
      /\ w < NumWorkers /\ UNCHANGED <<pixels, workers>>
      /\ pixels \in Nat \ {0} /\ ArgsOK
  BY DEF SpawnWorker, SkipWorker, CallEndsRight, SafeInv, ArgsOK, PathTaken, Engaged
<1>2. w \in Calls
  BY <1>1, NumWorkersRange
<1>3. PICK i \in Calls : i = w
  BY <1>2
<1>4. \A c \in Calls : c \in Nat
  BY ParallelAssumption
<1>5. UNCHANGED <<formats, room, out, wOut>>
  BY DEF SpawnWorker, SkipWorker, BeginXform, callVars
<1>6. /\ pc \in [Calls -> Places]
      /\ px \in [Calls -> Nat]
      /\ last \in [Calls -> Int]
      /\ room \in Nat
  BY DEF CallEndsRight, SafeInv, CallSafe, CallTypeOK, Places
<1>7. \A c \in Calls : StartPx(c)' = StartPx(c) /\ EndPx(c)' = EndPx(c)
  BY <1>1, SameChunks
<1>8. /\ StartPx(i) \in Nat /\ EndPx(i) \in Nat /\ EndPx(i) <= pixels
      /\ StartPx(i) < pixels => StartPx(i) < EndPx(i)
  BY <1>1, <1>4, ChunkRange
<1>9. /\ ~Started(i) /\ pc[i] = "idle"
      /\ \A c \in Calls : c # i => (Started(c)' <=> Started(c))
      /\ Started(i)' <=> StartPx(i) < pixels
  <2>1. ~Started(i)
    BY <1>1, <1>3 DEF Started
  <2>2. pc[i] = "idle"
    BY <1>1, <1>4, <2>1 DEF CallEndsRight, Chunked, Engaged
  <2>3. QED
    BY <1>1, <1>4, <1>3, <1>7, <2>1, <2>2 DEF Started
<1>10. NumWorkers' = NumWorkers /\ NumWorkers \in Int /\ pixels <= room
  BY <1>1, ParallelAssumption
    DEF NumWorkers, Requested, Min2, ArgsOK, CallEndsRight, PathTaken, Forked
<1>11. Outside' /\ AtTheEnd'
  BY <1>1 DEF Outside, Engaged, AtTheEnd
<1>12. PathTaken'
  BY <1>1, <1>5, <1>10, SamePath
    DEF PathTaken, Engaged, Forked, CallEndsRight
<1>13. CASE SpawnWorker
  <2>1. /\ pc'[i] = "begin" /\ px'[i] = StartPx(i) /\ last'[i] = EndPx(i)
        /\ \A c \in Calls : c # i => /\ pc'[c] = pc[c] /\ px'[c] = px[c]
                                     /\ last'[c] = last[c] /\ mgr'[c] = mgr[c]
        /\ StartPx(i) < pixels
        /\ wg' = wg
    <3>1. mgr \in [Calls -> Managers]
      BY DEF CallEndsRight, SafeInv, CallSafe, CallTypeOK
    <3>2. QED
      BY <1>4, <1>3, <1>6, <1>13, <3>1 DEF SpawnWorker, BeginXform
  <2>2. Evaluated'
    BY <1>5, <2>1 DEF CallEndsRight, Evaluated
  <2>3. Chunked'
    <3>1. Within(i)'
      BY <1>1, <1>4, <1>5, <1>6, <1>7, <1>8, <1>10, <2>1 DEF Within
    <3>2. \A c \in Calls : c # i /\ Started(c) => Within(c)'
      BY <1>1, <1>5, <1>7, <2>1 DEF Within, CallEndsRight, Chunked, Engaged
    <3>3. \A c \in Calls : c # i /\ ~Started(c) => pc'[c] = "idle"
      BY <1>1, <2>1 DEF CallEndsRight, Chunked, Engaged
    <3>4. ASSUME NEW p \in 0 .. room - 1
          PROVE  out'[p] # Untouched <=>
                   \E c \in Calls : Started(c)' /\ StartPx(c) <= p /\ p < px'[c]
      <4>1. out'[p] # Untouched <=>
                   \E c \in Calls : Started(c) /\ StartPx(c) <= p /\ p < px[c]
        BY <1>1, <1>5, <3>4 DEF CallEndsRight, Chunked, Engaged
      <4>2. ~(StartPx(i) <= p /\ p < px'[i])
        BY <1>8, <2>1
      <4>3. QED
        BY <1>9, <2>1, <4>1, <4>2
    <3>5. QED
      BY <1>5, <1>7, <1>9, <2>1, <3>1, <3>2, <3>3, <3>4 DEF Chunked
  <2>4. WaitGroupCounts'
    <3>1. Running' = Running \cup {i} /\ i \notin Running
      BY <1>4, <1>9, <2>1 DEF Running, Busy
    <3>2. Cardinality(Running') = Cardinality(Running) + 1 /\ Cardinality(Running) \in Nat
      BY <3>1, RunningFinite, FS_AddElement
    <3>3. wg = (NumWorkers - w) + Cardinality(Running)
      BY <1>1 DEF CallEndsRight, WaitGroupCounts, Forked
    <3>4. wg' = (NumWorkers' - w') + Cardinality(Running')
      BY <1>1, <1>10, <2>1, <3>2, <3>3
    <3>5. QED
      BY <3>4 DEF WaitGroupCounts
  <2>5. Doom'
    BY <1>1, <1>5, <2>1, SamePath DEF CallEndsRight, Doom, Unwritten, CannotCopy
  <2>6. QED
    BY <1>11, <1>12, <2>2, <2>3, <2>4, <2>5 DEF CallEndsRight
<1>14. CASE SkipWorker
  <2>1. UNCHANGED <<pc, px, last, mgr>> /\ StartPx(i) >= pixels /\ wg' = wg - 1
    BY <1>3, <1>14 DEF SkipWorker, callVars
  <2>2. Evaluated'
    BY <1>5, <2>1 DEF CallEndsRight, Evaluated
  <2>3. Chunked'
    <3>1. \A c \in Calls : Started(c)' <=> Started(c)
      BY <1>1, <1>8, <1>9, <2>1
    <3>2. \A c \in Calls : Within(c)' <=> Within(c)
      BY <1>1, <1>5, <1>7, <2>1 DEF Within
    <3>3. QED
      BY <1>1, <1>5, <1>7, <2>1, <3>1, <3>2 DEF CallEndsRight, Chunked, Engaged
  <2>4. WaitGroupCounts'
    <3>1. Running' = Running /\ Cardinality(Running) \in Nat
      BY <2>1, RunningFinite DEF Running, Busy
    <3>2. wg = (NumWorkers - w) + Cardinality(Running)
      BY <1>1 DEF CallEndsRight, WaitGroupCounts, Forked
    <3>3. wg' = (NumWorkers' - w') + Cardinality(Running')
      BY <1>1, <1>10, <2>1, <3>1, <3>2
    <3>4. QED
      BY <3>3 DEF WaitGroupCounts
  <2>5. Doom'
    BY <1>1, <1>5, <2>1, SamePath DEF CallEndsRight, Doom, Unwritten, CannotCopy
  <2>6. QED
    BY <1>11, <1>12, <2>2, <2>3, <2>4, <2>5 DEF CallEndsRight
<1>15. QED
  BY <1>13, <1>14

\* The loop is over, or the sequential call panics.
LEMMA WaitStep ==
  ASSUME CallEndsRight, SafeInv', Wait \/ SequentialPanics
  PROVE  CallEndsRight'
<1>1. UNCHANGED <<formats, room, out, pc, px, last, mgr, wOut, pixels, workers, w, wg>>
  BY DEF Wait, SequentialPanics, callVars
<1>2. NumWorkers' = NumWorkers /\ Requested' = Requested /\ (Parallel' <=> Parallel)
  BY <1>1, SamePath
<1>3. Evaluated'
  BY <1>1 DEF CallEndsRight, Evaluated
<1>4. \A c \in Calls : (Busy(c)' <=> Busy(c)) /\ StartPx(c)' = StartPx(c) /\ EndPx(c)' = EndPx(c)
  BY <1>1, SameChunks DEF Busy
<1>5. Doom'
  BY <1>1, <1>2 DEF CallEndsRight, Doom, Unwritten, CannotCopy
<1>6. CASE Wait
  <2>1. main = "spawn" /\ main' = "waiting" /\ w >= NumWorkers
    BY <1>6 DEF Wait, Goto
  <2>2. w = NumWorkers
    <3>1. NumWorkers \in Int /\ w \in Int
      BY ParallelAssumption
        DEF NumWorkers, Requested, Min2, CallEndsRight, SafeInv, ArgsOK
    <3>2. w <= NumWorkers
      BY <2>1 DEF CallEndsRight, PathTaken, Forked
    <3>3. QED
      BY <2>1, <3>1, <3>2
  <2>3. Outside' /\ AtTheEnd'
    BY <2>1 DEF Outside, AtTheEnd, Engaged
  <2>4. PathTaken'
    BY <1>1, <1>2, <2>1, <2>2 DEF CallEndsRight, PathTaken, Engaged, Forked
  <2>5. Chunked'
    <3>1. \A c \in Calls : (Started(c)' <=> Started(c)) /\ (Within(c)' <=> Within(c))
      BY <1>1, <1>4, <2>1 DEF Started, Within
    <3>2. QED
      BY <1>1, <1>4, <2>1, <3>1 DEF CallEndsRight, Chunked, Engaged
  <2>6. WaitGroupCounts'
    BY <1>1, <1>2, <1>4, <2>1 DEF CallEndsRight, WaitGroupCounts, Forked, Running
  <2>7. QED
    BY <1>3, <1>5, <2>3, <2>4, <2>5, <2>6 DEF CallEndsRight
<1>7. CASE SequentialPanics
  <2>1. main = "sequential" /\ main' = "panicked" /\ pc[0] = "panicked"
    BY <1>7 DEF SequentialPanics, Goto
  <2>2. Outside'
    <3>1. \A c \in Calls : c # 0 => pc[c] = "idle"
      BY <2>1 DEF CallEndsRight, Chunked, Engaged, Started
    <3>2. QED
      BY <1>1, <2>1, <3>1 DEF Outside, Engaged, Busy
  <2>3. ~Parallel
    BY <2>1 DEF CallEndsRight, PathTaken
  <2>4. AtTheEnd'
    BY <1>2, <2>1, <2>3 DEF AtTheEnd
  <2>5. QED
    BY <1>3, <1>5, <2>1, <2>2, <2>4
      DEF CallEndsRight, PathTaken, Chunked, WaitGroupCounts, Engaged, Forked
<1>8. QED
  BY <1>6, <1>7

\* When the WaitGroup is at zero, or the sequential call is done, nobody is
\* at work any more.
LEMMA NobodyLeft ==
  ASSUME CallEndsRight, Join \/ SequentialReturns
  PROVE  \A c \in Calls : ~Busy(c)
<1>1. /\ Engaged /\ main \in {"waiting", "sequential"}
      /\ main = "waiting" => wg = 0
      /\ main = "sequential" => pc[0] = "done"
  BY DEF Join, SequentialReturns, Goto, Engaged
<1>2. CASE main = "sequential"
  <2>1. \A c \in Calls : c # 0 => pc[c] = "idle"
    BY <1>2 DEF CallEndsRight, Chunked, Engaged, Started
  <2>2. QED
    BY <1>1, <1>2, <2>1 DEF Busy
<1>3. CASE main = "waiting"
  <2>1. w = NumWorkers /\ wg = 0 /\ wg = (NumWorkers - w) + Cardinality(Running)
    BY <1>1, <1>3 DEF CallEndsRight, PathTaken, WaitGroupCounts, Forked
  <2>2. w \in Nat /\ Cardinality(Running) \in Nat
    BY RunningFinite DEF CallEndsRight, SafeInv, ArgsOK
  <2>3. Cardinality(Running) = 0
    BY <2>1, <2>2
  <2>4. Running = {}
    BY <2>3, RunningFinite, FS_EmptySet
  <2>5. QED
    BY <2>4 DEF Running
<1>4. QED
  BY <1>1, <1>2, <1>3

\* If none of them has panicked, every chunk has been passed: the whole
\* request is written, and fits.
LEMMA AllPassed ==
  ASSUME CallEndsRight, Join \/ SequentialReturns, ~Doomed
  PROVE  /\ pixels \in Nat \ {0} /\ pixels <= room
         /\ \A p \in 0 .. room - 1 : out[p] # Untouched <=> p < pixels
<1>1. /\ Engaged /\ main \in {"waiting", "sequential"}
      /\ main = "sequential" => pc[0] = "done"
  BY DEF Join, SequentialReturns, Goto, Engaged
<1>2. /\ pixels \in Nat \ {0} /\ ArgsOK /\ room \in Nat
      /\ \A c \in Calls : c \in Nat
  BY <1>1, ParallelAssumption DEF CallEndsRight, PathTaken, SafeInv, CallSafe, CallTypeOK
<1>3. \A c \in Calls : ~Busy(c)
  BY NobodyLeft
<1>4. \A i \in 0 .. NumWorkers - 1 : i \in Calls /\ (StartPx(i) < pixels => Started(i))
  <2>1. SUFFICES ASSUME NEW i \in 0 .. NumWorkers - 1
                 PROVE  i \in Calls /\ (StartPx(i) < pixels => Started(i))
    OBVIOUS
  <2>2. NumWorkers \in Nat \ {0} /\ NumWorkers <= MaxWorkers
    BY <1>2, ChunkSize
  <2>3. i \in Calls
    BY <2>2, ParallelAssumption
  <2>4. main = "sequential" => NumWorkers = 1
    BY DEF CallEndsRight, PathTaken
  <2>5. main = "waiting" => w = NumWorkers
    BY DEF CallEndsRight, PathTaken
  <2>6. QED
    BY <1>1, <2>2, <2>3, <2>4, <2>5 DEF Started
<1>5. ASSUME NEW c \in Calls, Started(c)
      PROVE  px[c] = EndPx(c) /\ EndPx(c) <= pixels /\ EndPx(c) \in Nat /\ px[c] <= room
  <2>1. Within(c)
    BY <1>1, <1>5 DEF CallEndsRight, Chunked
  <2>2. EndPx(c) <= pixels /\ EndPx(c) \in Nat
    BY <1>2, ChunkRange
  <2>3. pc[c] # "panicked"
    <3>1. CASE main = "sequential"
      BY <1>1, <1>5, <3>1 DEF Started
    <3>2. CASE main = "waiting"
      <4>1. Parallel
        BY <3>2 DEF CallEndsRight, PathTaken, Forked
      <4>2. QED
        BY <4>1 DEF Doomed
    <3>3. QED
      BY <1>1, <3>1, <3>2
  <2>4. pc[c] = "done"
    BY <1>3, <2>1, <2>3, CallTypes DEF Within, Busy, Places
  <2>5. QED
    BY <2>1, <2>2, <2>4 DEF Within
<1>6. \A p \in 0 .. pixels - 1 :
        \E c \in Calls : Started(c) /\ StartPx(c) <= p /\ p < EndPx(c)
  <2>1. SUFFICES ASSUME NEW p \in 0 .. pixels - 1
                 PROVE  \E c \in Calls : Started(c) /\ StartPx(c) <= p /\ p < EndPx(c)
    OBVIOUS
  <2>2. PICK i \in 0 .. NumWorkers - 1 : StartPx(i) <= p /\ p < EndPx(i)
    BY <1>2, SomeChunk
  <2>3. i \in Nat /\ i \in Calls
    BY <1>4, <1>2
  <2>4. StartPx(i) \in Nat
    BY <1>2, <2>3, ChunkRange
  <2>5. StartPx(i) < pixels
    BY <1>2, <2>2, <2>4
  <2>6. QED
    BY <1>4, <2>2, <2>3, <2>5
<1>7. pixels <= room
  <2>1. PICK c \in Calls : Started(c) /\ StartPx(c) <= pixels - 1 /\ pixels - 1 < EndPx(c)
    BY <1>2, <1>6
  <2>2. QED
    BY <1>2, <1>5, <2>1
<1>8. ASSUME NEW p \in 0 .. room - 1
      PROVE  out[p] # Untouched <=> p < pixels
  <2>1. out[p] # Untouched <=> \E c \in Calls : Started(c) /\ StartPx(c) <= p /\ p < px[c]
    BY <1>1 DEF CallEndsRight, Chunked
  <2>2. p < pixels => \E c \in Calls : Started(c) /\ StartPx(c) <= p /\ p < px[c]
    <3>1. HAVE p < pixels
    <3>2. p \in 0 .. pixels - 1
      BY <1>2, <3>1
    <3>3. PICK c \in Calls : Started(c) /\ StartPx(c) <= p /\ p < EndPx(c)
      BY <1>6, <3>2
    <3>4. QED
      BY <1>5, <3>3
  <2>3. ASSUME NEW c \in Calls, Started(c), p < px[c]
        PROVE  p < pixels
    BY <1>2, <1>5, <2>3
  <2>4. QED
    BY <2>1, <2>2, <2>3
<1>9. QED
  BY <1>2, <1>3, <1>7, <1>8

LEMMA ReturnStep ==
  ASSUME CallEndsRight, SafeInv', Join \/ SequentialReturns
  PROVE  CallEndsRight'
<1>1. /\ UNCHANGED <<formats, room, out, pc, px, last, mgr, wOut, pixels, workers, w, wg>>
      /\ main' = "returned"
  BY DEF Join, SequentialReturns, callVars, Goto
<1>2. (Parallel' <=> Parallel) /\ (Doomed' <=> Doomed)
  BY <1>1, SamePath DEF Doomed
<1>3. Outside'
  BY <1>1, NobodyLeft DEF Outside, Busy
<1>4. AtTheEnd'
  BY <1>1, <1>2, AllPassed DEF AtTheEnd
<1>5. Doom'
  BY <1>1, <1>2 DEF CallEndsRight, Doom, Unwritten, CannotCopy
<1>6. QED
  BY <1>1, <1>3, <1>4, <1>5
    DEF CallEndsRight, Evaluated, PathTaken, Chunked, WaitGroupCounts, Engaged, Forked

\* The runtime ends the program.
LEMMA CrashStep ==
  ASSUME CallEndsRight, SafeInv', Crash
  PROVE  CallEndsRight'
<1>1. /\ UNCHANGED <<formats, room, out, pc, px, last, mgr, wOut, pixels, workers, w, wg>>
      /\ main' = "crashed" /\ Doomed
  BY DEF Crash, callVars
<1>2. (Parallel' <=> Parallel) /\ (Doomed' <=> Doomed)
  BY <1>1, SamePath DEF Doomed
<1>3. Outside' /\ AtTheEnd'
  BY <1>1, <1>2 DEF Outside, AtTheEnd
<1>4. Doom'
  BY <1>1, <1>2 DEF CallEndsRight, Doom, Unwritten, CannotCopy
<1>5. QED
  BY <1>1, <1>3, <1>4
    DEF CallEndsRight, Evaluated, PathTaken, Chunked, WaitGroupCounts, Engaged, Forked

LEMMA NextCompletion ==
  ASSUME CallEndsRight, [Next]_vars
  PROVE  CallEndsRight'
<1>1. SafeInv'
  BY NextSafe DEF CallEndsRight
<1>2. CASE Caller
  BY <1>1, <1>2, EnterStep, SequentialStep, SpawnStep, WaitStep, ReturnStep DEF Caller
<1>3. ASSUME NEW c \in Calls, Work(c)
      PROVE  CallEndsRight'
  BY <1>1, <1>3, CopyStep, EvaluationStep, EncodeStep DEF Work, PixelStep
<1>4. ASSUME NEW c \in Calls, Finish(c)
      PROVE  CallEndsRight'
  BY <1>1, <1>4, LeaveStep
<1>5. CASE Crash
  BY <1>1, <1>5, CrashStep
<1>6. CASE UNCHANGED vars
  <2>1. /\ UNCHANGED <<formats, room, out, pc, px, last, mgr, wOut, pixels, workers, main, w, wg>>
        /\ \A i : StartPx(i)' = StartPx(i) /\ EndPx(i)' = EndPx(i)
        /\ NumWorkers' = NumWorkers /\ (Parallel' <=> Parallel)
    BY <1>6, SameChunks, SamePath DEF vars, callVars, mainVars
  <2>2. QED
    BY <1>1, <2>1
      DEF CallEndsRight, Evaluated, Outside, PathTaken, Chunked, AtTheEnd, WaitGroupCounts, Doom,
          Doomed, CannotCopy, Engaged, Started, Within, Unwritten, Busy, Running, Forked
<1>7. QED
  BY <1>2, <1>3, <1>4, <1>5, <1>6 DEF Next, Stopped

LEMMA CompletionAlways == Spec => []CallEndsRight
<1>1. CallEndsRight /\ [Next]_vars => CallEndsRight'
  BY NextCompletion
<1>2. QED
  BY InitCompletion, <1>1, PTL DEF Spec

----------------------------------------------------------------------------

\* Whatever the numbers of pixels, workers and CPUs and the schedule, when
\* CmsDoTransformParallel returns no goroutine is still running, the whole
\* request is written and nothing beyond it is, unless a goroutine that has
\* panicked is about to end the program; and the WaitGroup has never been
\* below zero.
THEOREM ReturnsWhenComplete == Spec => []ReturnedComplete
<1>1. CallEndsRight => ReturnedComplete
  BY DEF CallEndsRight, ReturnedComplete, Outside, AtTheEnd, Running, Unwritten
<1>2. QED
  BY CompletionAlways, <1>1, PTL

\* Planar formats and buffers that are too short for the parallel path are
\* found before a pixel is written, for every request; and a goroutine only
\* panics over extra channels it cannot copy, before any goroutine of the
\* call has written a pixel.
THEOREM PanicsBeforeWriting == Spec => []PanicsAreClean
<1>1. CallEndsRight => PanicsAreClean
  BY DEF CallEndsRight, PanicsAreClean, AtTheEnd, Doom, Doomed, CannotCopy
<1>2. QED
  BY CompletionAlways, <1>1, PTL

\* The pixel a call is about to encode has not been written: it has not
\* passed it itself, and it is in no other chunk.
LEMMA NotYetWritten ==
  ASSUME CallEndsRight, NEW c \in Calls, pc[c] = "encode"
  PROVE  /\ Engaged /\ px[c] \in 0 .. room - 1 /\ px[c] < pixels
         /\ out[px[c]] = Untouched
<1>1. Engaged /\ Started(c) /\ Within(c)
  BY AtWork DEF Busy
<1>2. px[c] < last[c] /\ px[c] < room /\ px[c] \in Nat /\ last[c] \in Int /\ room \in Nat
  BY CallTypes DEF CallEndsRight, SafeInv, CallSafe, InRange
<1>3. ArgsOK /\ pixels \in Nat \ {0} /\ c \in Nat
  BY <1>1, CallTypes DEF CallEndsRight, PathTaken, SafeInv
<1>4. StartPx(c) <= px[c] /\ px[c] < EndPx(c)
  BY <1>1, <1>2 DEF Within
<1>5. px[c] \in 0 .. room - 1 /\ px[c] < pixels
  BY <1>2, <1>3, <1>4, ChunkRange
<1>6. ASSUME NEW d \in Calls, Started(d), StartPx(d) <= px[c], px[c] < px[d]
      PROVE  FALSE
  <2>1. Within(d) /\ px[d] \in Nat /\ d \in Nat
    BY <1>1, <1>6, CallTypes DEF CallEndsRight, Chunked
  <2>2. EndPx(d) \in Nat
    BY <1>3, <2>1, ChunkRange
  <2>3. px[c] < EndPx(d)
    BY <1>2, <1>6, <2>1, <2>2 DEF Within
  <2>4. d = c
    BY <1>2, <1>3, <1>4, <1>6, <2>1, <2>3, OneChunk
  <2>5. QED
    BY <1>2, <1>6, <2>4
<1>7. out[px[c]] = Untouched
  BY <1>1, <1>5, <1>6 DEF CallEndsRight, Chunked
<1>8. QED
  BY <1>1, <1>5, <1>7

\* No pixel is written twice, whatever the number of goroutines and however
\* the request divides among them: the chunks partition it.
THEOREM ChunksNeverMeet == Spec => WrittenOnce
<1>1. ASSUME CallEndsRight, NEW c \in Calls, pc[c] = "encode", pc'[c] = "decode"
      PROVE  out[px[c]] = Untouched
  BY <1>1, NotYetWritten
<1>2. CallEndsRight /\ [Next]_vars =>
        [\A c \in Calls : pc[c] = "encode" /\ pc'[c] = "decode" => out[px[c]] = Untouched]_vars
  BY <1>1
<1>3. QED
  BY CompletionAlways, <1>2, PTL DEF WrittenOnce, Spec

----------------------------------------------------------------------------
(* The refinement. *)

RefinementInv == CallEndsRight /\ PixelInv

LEMMA RefinementAlways ==
  ASSUME ComparesEveryChannel
  PROVE  Spec => []RefinementInv
<1>1. RefinementInv /\ [Next]_vars => RefinementInv'
  BY NextCompletion, NextPixel DEF RefinementInv
<1>2. Init => RefinementInv
  BY InitCompletion, InitPixel DEF RefinementInv
<1>3. QED
  BY <1>1, <1>2, PTL DEF Spec

LEMMA InitMaps == Init => Abstract!Init
  BY ParallelAssumption DEF Init, CallInit, Abstract!Init, result, Doomed, Formats

\* An encoded pixel is the abstract Emit.
LEMMA EncodeMaps ==
  ASSUME RefinementInv, NEW c \in Calls, Encode(c), UNCHANGED mainVars
  PROVE  Abstract!Next
<1>1. pc[c] = "encode" /\ mgr[c] = c
  BY DEF Encode, RefinementInv, CallEndsRight, SafeInv, OwnManagers
<1>2. /\ Engaged /\ px[c] \in 0 .. room - 1 /\ px[c] < pixels
      /\ out[px[c]] = Untouched
  BY <1>1, NotYetWritten DEF RefinementInv
<1>3. pixels \in Nat /\ room \in Nat
  BY <1>2 DEF RefinementInv, CallEndsRight, PathTaken, SafeInv, CallSafe, CallTypeOK
<1>4. px[c] \in Abstract!Asked /\ px[c] < room
  BY <1>2, <1>3 DEF Abstract!Asked
<1>5. wOut[mgr[c]] = Eval[in[px[c]]]
  BY <1>1 DEF RefinementInv, PixelInv, CallInv, ScratchHoldsPixel
<1>6. out' = [out EXCEPT ![px[c]] = Eval[in[px[c]]]]
  BY <1>5 DEF Encode
<1>7. ~Doomed /\ ~Doomed'
  <2>1. Parallel => \A d \in Calls : pc[d] # "panicked"
    BY <1>1 DEF RefinementInv, CallEndsRight, Doom
  <2>2. \A d \in Calls : pc'[d] = "panicked" => pc[d] = "panicked"
    BY DEF Encode, RefinementInv, CallEndsRight, SafeInv, CallSafe, CallTypeOK
  <2>3. Parallel' <=> Parallel
    BY SamePath DEF mainVars
  <2>4. QED
    BY <2>1, <2>2, <2>3 DEF Doomed
<1>8. result = "running" /\ UNCHANGED <<formats, pixels, room, in, result>>
  BY <1>2, <1>7 DEF Encode, mainVars, result, Engaged
<1>9. Abstract!Emit(px[c])
  BY <1>2, <1>4, <1>6, <1>8 DEF Abstract!Emit
<1>10. QED
  BY <1>4, <1>9 DEF Abstract!Next

\* Before the call has started anyone, and on its sequential path, nothing
\* ends the program.
LEMMA NotDoomed ==
  ASSUME CallEndsRight, main \in {"enter", "sequential"}
  PROVE  ~Doomed
  BY DEF CallEndsRight, Outside, PathTaken, Doomed

\* The call returns: the abstract Return, whether anything was asked for or
\* not, unless a goroutine has panicked.
LEMMA ReturnMaps ==
  ASSUME RefinementInv, NothingToDo \/ Join \/ SequentialReturns
  PROVE  [Abstract!Next]_(Abstract!vars)
<1>1. /\ UNCHANGED <<formats, pixels, workers, room, in, out, pc>>
      /\ main \notin {"returned", "panicked"} /\ main' = "returned"
  BY DEF NothingToDo, Join, SequentialReturns, Goto, callVars
<1>2. Doomed' <=> Doomed
  BY <1>1, SamePath DEF Doomed
<1>3. CASE Doomed
  BY <1>1, <1>2, <1>3 DEF result, Abstract!vars
<1>4. CASE ~Doomed
  <2>1. result = "running" /\ result' = "returned"
    BY <1>1, <1>2, <1>4 DEF result
  <2>2. pixels \in Int /\ room \in Nat
    BY DEF RefinementInv, CallEndsRight, SafeInv, CallSafe, CallTypeOK, ArgsOK
  <2>3. \A p \in 0 .. pixels - 1 : p < room /\ out[p] # Untouched
    <3>1. CASE NothingToDo
      BY <2>2, <3>1 DEF NothingToDo
    <3>2. CASE Join \/ SequentialReturns
      <4>1. /\ pixels <= room
            /\ \A p \in 0 .. room - 1 : out[p] # Untouched <=> p < pixels
        BY <1>4, <3>2, AllPassed DEF RefinementInv
      <4>2. QED
        BY <2>2, <4>1
    <3>3. QED
      BY <3>1, <3>2
  <2>4. Abstract!Return
    BY <1>1, <2>1, <2>3 DEF Abstract!Return, Abstract!Asked
  <2>5. QED
    BY <2>4 DEF Abstract!Next
<1>5. QED
  BY <1>3, <1>4

\* The call panics: the buffers did not have room for the request, or the
\* formats are not ones it is made for.
LEMMA PanicMaps ==
  ASSUME RefinementInv, PlanarFormats \/ BuffersTooSmall \/ SequentialPanics
  PROVE  Abstract!Next
<1>1. /\ UNCHANGED <<formats, pixels, workers, room, in, out, pc>>
      /\ main \in {"enter", "sequential"} /\ main' = "panicked"
  BY DEF PlanarFormats, BuffersTooSmall, SequentialPanics, Goto, callVars
<1>2. ~Doomed /\ ~Doomed'
  BY <1>1, NotDoomed, SamePath DEF Doomed, RefinementInv
<1>3. result = "running" /\ result' = "panicked"
  BY <1>1, <1>2 DEF result
<1>4. room < pixels \/ formats \in {"trailing", "converted", "planar"}
  <2>1. CASE PlanarFormats \/ BuffersTooSmall
    BY <2>1 DEF PlanarFormats, BuffersTooSmall
  <2>2. CASE SequentialPanics
    <3>1. main = "sequential" /\ pc[0] = "panicked" /\ 0 \in Calls
      BY <2>2, ParallelAssumption DEF SequentialPanics, Goto
    <3>2. Within(0) /\ formats \in Formats
      BY <3>1
        DEF RefinementInv, CallEndsRight, Chunked, Engaged, Started, SafeInv, CallSafe, CallTypeOK
    <3>3. QED
      BY <3>1, <3>2 DEF Within, Formats
  <2>3. QED
    BY <2>1, <2>2
<1>5. Abstract!Panic
  BY <1>1, <1>3, <1>4 DEF Abstract!Panic, Abstract!Uncopied
<1>6. QED
  BY <1>5 DEF Abstract!Next

\* A call ends.  The first of the goroutines to panic is the abstract Crash:
\* nothing is written.
LEMMA FinishMaps ==
  ASSUME RefinementInv, CallEndsRight', NEW c \in Calls, Finish(c)
  PROVE  [Abstract!Next]_(Abstract!vars)
<1>1. /\ UNCHANGED <<formats, pixels, workers, room, in, out, main>>
      /\ main # "crashed" /\ Busy(c)
  BY DEF Finish, EndXform, CopyPanics, Overrun, Busy
<1>2. Engaged
  BY <1>1, AtWork DEF RefinementInv
<1>3. Parallel' <=> Parallel
  BY <1>1, SamePath
<1>4. Doomed => Doomed'
  <2>1. pc[c] # "panicked" /\ \A d \in Calls : d # c => pc'[d] = pc[d]
    BY <1>1 DEF Busy, Finish, EndXform, CopyPanics, Overrun, RefinementInv, CallEndsRight,
       SafeInv, CallSafe, CallTypeOK
  <2>2. QED
    BY <1>3, <2>1 DEF Doomed
<1>5. CASE Doomed' <=> Doomed
  BY <1>1, <1>5 DEF result, Abstract!vars
<1>6. CASE Doomed' /\ ~Doomed
  <2>1. result = "running" /\ result' = "crashed"
    BY <1>2, <1>6 DEF result, Engaged
  <2>2. Unwritten /\ CannotCopy
    BY <1>1, <1>3, <1>6 DEF CallEndsRight, Doom, Doomed, CannotCopy, Unwritten
  <2>3. Abstract!Crash
    BY <1>1, <2>1, <2>2 DEF Abstract!Crash, Abstract!Uncopied, Unwritten, CannotCopy
  <2>4. QED
    BY <2>3 DEF Abstract!Next
<1>7. QED
  BY <1>4, <1>5, <1>6

LEMMA NextMaps ==
  ASSUME RefinementInv, [Next]_vars
  PROVE  [Abstract!Next]_(Abstract!vars)
<1>1. CASE Caller
  <2>1. CASE Sequential \/ Fork \/ SpawnWorker \/ SkipWorker \/ Wait
    <3>1. /\ UNCHANGED <<formats, pixels, workers, room, in, out>>
          /\ {main, main'} \cap {"returned", "panicked"} = {}
      BY <2>1 DEF Sequential, Fork, SpawnWorker, SkipWorker, Wait, BeginXform, Goto, callVars
    <3>2. \A d \in Calls : pc'[d] = "panicked" <=> pc[d] = "panicked"
      BY <2>1 DEF Sequential, Fork, SpawnWorker, SkipWorker, Wait, BeginXform, callVars,
         RefinementInv, CallEndsRight, SafeInv, CallSafe, CallTypeOK
    <3>3. Doomed' <=> Doomed
      BY <3>1, <3>2, SamePath DEF Doomed
    <3>4. QED
      BY <3>1, <3>3 DEF result, Abstract!vars
  <2>2. QED
    BY <1>1, <2>1, ReturnMaps, PanicMaps DEF Caller
<1>2. ASSUME NEW c \in Calls, Work(c)
      PROVE  [Abstract!Next]_(Abstract!vars)
  <2>1. CASE Encode(c)
    BY <1>2, <2>1, EncodeMaps DEF Work
  <2>2. CASE ~Encode(c)
    <3>1. UNCHANGED <<formats, pixels, workers, room, in, out, main>>
      BY <1>2, <2>2 DEF Work, PixelStep, HandleExtraChannels, Decode, FromCache, FromPipeline,
         mainVars
    <3>2. \A d \in Calls : pc'[d] = "panicked" <=> pc[d] = "panicked"
      BY <1>2, <2>2 DEF Work, PixelStep, HandleExtraChannels, Decode, FromCache, FromPipeline,
         RefinementInv, CallEndsRight, SafeInv, CallSafe, CallTypeOK
    <3>3. Doomed' <=> Doomed
      BY <3>1, <3>2, SamePath DEF Doomed
    <3>4. QED
      BY <3>1, <3>3 DEF result, Abstract!vars
  <2>3. QED
    BY <2>1, <2>2
<1>3. ASSUME NEW c \in Calls, Finish(c)
      PROVE  [Abstract!Next]_(Abstract!vars)
  <2>1. CallEndsRight'
    BY NextCompletion DEF RefinementInv
  <2>2. QED
    BY <1>3, <2>1, FinishMaps
<1>4. CASE Crash \/ UNCHANGED vars
  <2>1. UNCHANGED <<formats, pixels, workers, room, in, out, pc>>
    BY <1>4 DEF Crash, vars, callVars, mainVars
  <2>2. Doomed' <=> Doomed
    BY <2>1, SamePath DEF Doomed
  <2>3. QED
    BY <1>4, <2>1, <2>2 DEF result, Abstract!vars, Crash, vars, mainVars
<1>5. QED
  BY <1>1, <1>2, <1>3, <1>4 DEF Next, Stopped

\* CmsDoTransformParallel implements PixelMap for every number of pixels,
\* workers and CPUs, every picture and every transform of which a cache hit
\* compares each channel: its caller cannot tell it from a loop that writes
\* every pixel once, in some order, or that fails over the formats and the
\* buffers that PixelMap names.
THEOREM ParallelImplementsPixelMap ==
  ASSUME ComparesEveryChannel
  PROVE  Spec => ImplementsPixelMap
<1>1. RefinementInv /\ [Next]_vars => [Abstract!Next]_(Abstract!vars)
  BY NextMaps
<1>2. QED
  BY InitMaps, <1>1, RefinementAlways, PTL DEF Spec, ImplementsPixelMap, Abstract!Spec

=============================================================================
