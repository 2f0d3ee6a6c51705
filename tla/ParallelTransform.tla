------------------------- MODULE ParallelTransform -------------------------
(***************************************************************************)
(* CmsDoTransformParallel: the request is cut into chunks, one goroutine   *)
(* per chunk runs CmsDoTransform on its sub-slices with a manager of its   *)
(* own, and the caller waits on a WaitGroup.  One pixel, or one worker,    *)
(* takes the sequential path.  A panic there unwinds the caller; a panic   *)
(* of a goroutine runs its deferred Done and then ends the program.        *)
(*                                                                         *)
(* Worker i is call i and owns manager i (mem.NewManager()); the           *)
(* sequential path is call 0.                                              *)
(***************************************************************************)
EXTENDS CachedTransform, FiniteSets

CONSTANTS
  NumCPU,       \* runtime.NumCPU()
  MaxWorkers,   \* bound on the worker argument: calls are 0 .. MaxWorkers - 1
  MaxPixels     \* bound on the pixel argument

ASSUME ParallelAssumption ==
  /\ MaxWorkers \in Nat \ {0}
  /\ MaxPixels \in Nat
  /\ NumCPU \in 1 .. MaxWorkers
  /\ Calls = 0 .. MaxWorkers - 1
  /\ Managers = Calls

VARIABLES
  pixels,    \* argument: the pixels to transform
  workers,   \* argument: the goroutines wanted, 0 or less for one per CPU
  main,      \* where the calling goroutine is
  w,         \* its loop variable
  wg         \* the WaitGroup's counter

mainVars == <<pixels, workers, main, w, wg>>
vars == <<callVars, mainVars>>

Min2(a, b) == IF a < b THEN a ELSE b

Requested == IF workers <= 0 THEN NumCPU ELSE workers

\* The single-threaded fallback is for one worker or one pixel.
Parallel == Requested > 1 /\ pixels > 1

\* The goroutines of the parallel path and the pixels each is given.
NumWorkers == Min2(Requested, pixels)
\* Mistake: the chunk is rounded down.
ChunkFloor == pixels \div NumWorkers

Chunk == (pixels + NumWorkers - 1) \div NumWorkers
StartPx(i) == i * Chunk
\* Mistake: a chunk takes the first pixel of the next.
EndPxInclusive(i) == Min2(StartPx(i) + Chunk + 1, pixels)

EndPx(i) == Min2(StartPx(i) + Chunk, pixels)

Init ==
  /\ formats \in Formats
  /\ pixels \in -1 .. MaxPixels
  /\ workers \in -1 .. MaxWorkers
  /\ room \in 0 .. MaxPixels
  /\ mgr = [c \in Calls |-> c]
  /\ wIn = [m \in Managers |-> ZeroLanes]
  /\ CallInit
  /\ main = "enter"
  /\ w = 0
  /\ wg = 0

Goto(from, to) == main = from /\ main' = to

\* Nothing is asked for.
NothingToDo ==
  /\ Goto("enter", "returned")
  /\ pixels <= 0
  /\ UNCHANGED <<callVars, pixels, workers, w, wg>>

\* The single-threaded fallback; it does not look at the buffers' length.
Sequential ==
  /\ Goto("enter", "sequential")
  /\ pixels > 0 /\ ~Parallel
  /\ BeginXform(0, 0, 0, pixels)
  /\ UNCHANGED <<pixels, workers, w, wg>>

\* BytesPerPixel knows no planar formats, whatever the buffers hold.
PlanarFormats ==
  /\ Goto("enter", "panicked")
  /\ Parallel
  /\ formats = "planar"
  /\ UNCHANGED <<callVars, pixels, workers, w, wg>>

\* The parallel path panics on short buffers before it starts anyone.
BuffersTooSmall ==
  /\ Goto("enter", "panicked")
  /\ Parallel
  /\ formats # "planar"
  /\ room < pixels
  /\ UNCHANGED <<callVars, pixels, workers, w, wg>>

\* Mistake: the buffers' length is not looked at.
ForkUnchecked ==
  /\ Goto("enter", "spawn")
  /\ Parallel
  /\ formats # "planar"
  /\ wg' = NumWorkers
  /\ UNCHANGED <<callVars, pixels, workers, w>>

Fork ==
  /\ Goto("enter", "spawn")
  /\ Parallel
  /\ formats # "planar"
  /\ room >= pixels
  /\ wg' = NumWorkers
  /\ UNCHANGED <<callVars, pixels, workers, w>>

SpawnWorker ==
  /\ main = "spawn"
  /\ w < NumWorkers
  /\ StartPx(w) < pixels
  /\ BeginXform(w, w, StartPx(w), EndPx(w))
  /\ w' = w + 1
  /\ UNCHANGED <<pixels, workers, main, wg>>

\* Mistake: a worker without pixels is not counted as done.
SkipWorkerSilently ==
  /\ main = "spawn"
  /\ w < NumWorkers
  /\ StartPx(w) >= pixels
  /\ w' = w + 1
  /\ UNCHANGED <<callVars, pixels, workers, main, wg>>

\* Rounding the chunk up can leave the last workers without pixels.
SkipWorker ==
  /\ main = "spawn"
  /\ w < NumWorkers
  /\ StartPx(w) >= pixels
  /\ w' = w + 1
  /\ wg' = wg - 1
  /\ UNCHANGED <<callVars, pixels, workers, main>>

Wait ==
  /\ Goto("spawn", "waiting")
  /\ w >= NumWorkers
  /\ UNCHANGED <<callVars, pixels, workers, w, wg>>

\* Mistake: the caller does not wait.
JoinAtOnce ==
  /\ Goto("waiting", "returned")
  /\ UNCHANGED <<callVars, pixels, workers, w, wg>>

Join ==
  /\ Goto("waiting", "returned")
  /\ wg = 0
  /\ UNCHANGED <<callVars, pixels, workers, w, wg>>

SequentialReturns ==
  /\ Goto("sequential", "returned")
  /\ pc[0] = "done"
  /\ UNCHANGED <<callVars, pixels, workers, w, wg>>

\* A panic of the pixel loop unwinds the caller.
SequentialPanics ==
  /\ Goto("sequential", "panicked")
  /\ pc[0] = "panicked"
  /\ UNCHANGED <<callVars, pixels, workers, w, wg>>

\* Where the slices of a call end: a goroutine's with its chunk.
SliceEnd(c) == IF Parallel THEN last[c] ELSE room

\* A call advances by one step, unless the program has ended.
Work(c) ==
  /\ main # "crashed"
  /\ HandleExtraChannels(c, SliceEnd(c)) \/ PixelStep(c)
  /\ UNCHANGED mainVars

\* Mistake: a goroutine does not say that it is done.
FinishSilently(c) ==
  /\ main # "crashed"
  /\ EndXform(c) \/ CopyPanics(c, SliceEnd(c)) \/ Overrun(c)
  /\ UNCHANGED <<pixels, workers, main, w, wg>>

\* The call is over, or panics: a goroutine's deferred Done follows either.
Finish(c) ==
  /\ main # "crashed"
  /\ EndXform(c) \/ CopyPanics(c, SliceEnd(c)) \/ Overrun(c)
  /\ wg' = IF Parallel THEN wg - 1 ELSE wg
  /\ UNCHANGED <<pixels, workers, main, w>>

\* A goroutine has panicked, and nobody can recover that.
Doomed == Parallel /\ \E c \in Calls : pc[c] = "panicked"

\* The runtime ends the program: when the deferred calls have run, which may
\* have let the caller return already.
Crash ==
  /\ Doomed
  /\ main # "crashed"
  /\ main' = "crashed"
  /\ UNCHANGED <<callVars, pixels, workers, w, wg>>

\* The call is over, and so is the program or it goes on.
Stopped ==
  /\ \/ main = "crashed"
     \/ /\ main \in {"returned", "panicked"} /\ ~Doomed
        /\ \A c \in Calls : pc[c] \in {"idle", "done", "panicked"}
  /\ UNCHANGED vars

Caller ==
  \/ NothingToDo \/ Sequential \/ PlanarFormats \/ BuffersTooSmall \/ Fork
  \/ SpawnWorker \/ SkipWorker \/ Wait \/ Join
  \/ SequentialReturns \/ SequentialPanics

Next ==
  \/ Caller
  \/ \E c \in Calls : Work(c) \/ Finish(c)
  \/ Crash
  \/ Stopped

\* The Go scheduler runs every goroutine that can run, and the runtime ends
\* the program of one that panicked.
Fairness ==
  /\ WF_vars(Caller)
  /\ WF_vars(Crash)
  /\ \A c \in Calls : WF_vars(Work(c) \/ Finish(c))

Spec == Init /\ [][Next]_vars
FairSpec == Spec /\ Fairness

----------------------------------------------------------------------------

TypeOK ==
  /\ CallTypeOK
  /\ pixels \in Int
  /\ workers \in Int
  /\ main \in {"enter", "sequential", "spawn", "waiting", "returned", "panicked",
              "crashed"}
  /\ w \in Nat
  /\ wg \in Int

Forked == main \in {"spawn", "waiting"}

Running == {c \in Calls : Busy(c)}

\* The WaitGroup counts what is still outstanding: the workers the loop has
\* not come to and the goroutines that have not finished.  So it is never
\* negative, at which Wait and Done panic, and is 0 only when all is done.
WaitGroupCounts ==
  Forked => wg = (NumWorkers - w) + Cardinality(Running)

\* When the call has returned, no goroutine is still at work on the caller's
\* buffers, every pixel asked for is written and none beyond them is; only
\* in a program that is about to end can a panicking goroutine's Done let it
\* return without them.
ReturnedComplete ==
  WaitGroupCounts /\ (main = "returned" =>
    /\ Running = {}
    /\ ~Doomed => \A p \in 0 .. room - 1 : out[p] # Untouched <=> p < pixels)

Unwritten == \A p \in 0 .. room - 1 : out[p] = Untouched

\* A panic of the parallel path, be it the caller's or a goroutine's, comes
\* before any pixel is written; and a goroutine, whose panic ends the program,
\* panics only over extra channels that cannot be copied in exact slices.
PanicsAreClean ==
  Parallel =>
    /\ main = "panicked" => Unwritten
    /\ Doomed => formats \in {"trailing", "converted"} /\ Unwritten

\* No pixel is written twice: the chunks of two goroutines never meet.
WrittenOnce ==
  [][\A c \in Calls : pc[c] = "encode" /\ pc'[c] = "decode" =>
       out[px[c]] = Untouched]_vars

\* The call always comes to an end, and a request that fits returns, if its
\* formats are chunky and there is no extra channel but one in front to copy.
Terminates ==
  /\ <>(main \in {"returned", "panicked", "crashed"})
  /\ (room >= pixels /\ formats \in {"plain", "leading"})
       => <>[](main = "returned")

----------------------------------------------------------------------------

\* The call implements the abstract pixel map: an encoded pixel is an Emit,
\* the first panic of a goroutine a Crash, and everything else, the forking,
\* caching and joining, is a stutter.
result ==
  IF Doomed THEN "crashed"
  ELSE IF main \in {"returned", "panicked"} THEN main ELSE "running"

Abstract == INSTANCE PixelMap WITH Pixel <- Inputs

\* CmsDoTransformParallel implements PixelMap: whatever the chunks, the
\* schedule and the cache do, the caller sees each pixel transformed once.
ImplementsPixelMap == Abstract!Spec

=============================================================================
