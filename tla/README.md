# TLA+ specifications of lcms-go

lcms-go is a Go port of LittleCMS: it opens ICC profiles, links them into a
colour transform and runs pixel buffers through it. This directory holds a
formal model of the parts of it where an error is hard to find by testing: what
concurrent callers share, what a sequence of calls leaves behind, and where
integer arithmetic on positions and counts must come out exactly right.

## The system

| part | source | state | operations |
|---|---|---|---|
| Parallel transform | `cmsxform.go:246-315` | request, chunks, WaitGroup | `CmsDoTransformParallel` |
| Pixel loop and cache | `cmsxform.go:318-1205` | the handle, one cache entry, scratch bundles | `CmsDoTransform`, `CmsDoTransformLineStride`, seven `...XFORM` routines |
| Extra channels | `cmsalpha.go` | strides | `cmsHandleExtraChannels`, sample converters |
| Transform creation | `cmsxform.go:1436-2017` | pipeline, formatters, initial cache entry | `cmsCreateExtendedTransform`, `AllocEmptyTransform`, `cmsChangeBuffersFormat` |
| Profile tag directory | `cmsio0.go` | six parallel arrays of `cmsICCPROFILE` | open, read, write, delete, write raw, link, close |
| Profile mutex | `cmsio0.go`, `cmserr.go` | `UsrMutex`, shared file position | `cmsReadTag`, `cmsWriteTag` and their lock |
| Profile saving | `cmsio0.go:411-510, 1198-1373` | a directory copied and restored | `cmsSaveProfileToIOhandler`, `SaveTags`, `SetLinks` |
| IO handlers | `cmsio0.go`, `cmsplugin.go` | position, size | NULL, memory and file handlers, typed reads and writes |
| Tag types | `cmstypes.go` | none | read, write, dup and free of every ICC type |
| Pipelines | `cmslut.go`, `cmsopt.go` | a list of stages, a fast evaluator | build, cat, dup, insert, unlink, evaluate, optimise |
| Interpolation | `cmsintrp.go`, `mem/` | grids, frames of scratch memory | 1 to 15 inputs, 16-bit and float |
| Curves and colorimetry | `cmsgamma.go`, `cmspcs.go`, `cmsmtrx.go`, `cmswtpnt.go`, `cmssamp.go`, `cmsgmt.go` | none | floating-point formulas |
| Formatters | `cmspack.go`, `cmshalf.go` | four tables | unroll and pack pixel layouts, look a formatter up |
| Contexts and plug-ins | `cmserr.go`, `cmsplugin.go` | chunks per context | registration, allocation, alarm codes, adaptation state |
| Containers | `cmsnamed.go` | text, dictionaries, colour lists | add, look up, duplicate |
| Linking | `cmscnvrt.go`, `cmsio1.go`, `cmsvirt.go` | none | which stages make a device link |

How they meet: an application opens profiles (directory, IO handler), linking
reads their tags and builds a pipeline, creation puts pipeline, formatters and
one evaluated cache entry in a handle, and any number of goroutines then call
the handle. From creation on the handle is only read; what a call writes is its
copy of the cache, the scratch bundle of its memory manager and the output
buffer. A profile, in contrast, is written by reading it: `cmsReadTag` moves the
file position and fills the directory.

The hard behaviours, the sharpest of each listed with its line in `PROJECT.json`:

- goroutines that share a handle, a scratch bundle or a buffer;
- a one-entry cache that must never answer for another colour, whatever an
  earlier pixel, call or transform left in the scratch lanes;
- rounding in the cut of a request into chunks, and a WaitGroup credited in one
  place and debited in two;
- strides: two buffers with their own line and pixel sizes;
- six arrays that seven operations update by parts, in any sequence of calls;
- readers that seek and read on one position, and the moments after an unlock;
- a save that works on the profile itself in two passes, and restores it;
- handlers of forty tag types that must agree with themselves: what one writes it
  must read, whole and no more, and write again;
- pipelines as chains of pointers that an optimiser cuts while it walks along;
- fixed-point look-ups with up to fifteen inputs, in scratch memory handed out
  along a recursion;
- chains of profiles of every class, whose encodings must meet, and the transforms
  that linking creates on the way to measure what it needs.

## The modules

**`PixelMap`** is the abstract specification: what the caller of
`CmsDoTransformParallel` is promised. Each pixel is transformed exactly once, in
any order; the call returns after the last. It may panic when the buffers are short
or a format is planar, and with extra channels to copy that are not all in front it
may end the whole program, but then nothing has been written.

**`CachedTransform`** is the 16-bit pixel loop for any number of calls (`Calls`)
that may overlap on one handle. A pixel is the vector of its channels. The
formatters and the pipeline are one constant function `Eval` of those channels:
what they compute is not the question here, which channels of which pixel they
are given is. `wIn` is `WInU16` of each manager's scratch bundle, all of its
lanes included, because the formatter stores only the channels of the colour
space and the cache compares other lanes too. `cache` is the call's copy of
`p.Cache`. A step decodes a pixel, or finds it in the cache, or evaluates it and
remembers it, or encodes it; the goroutines interleave at these steps. Before the
first pixel `cmsHandleExtraChannels` copies the extra channels of the whole call, or
panics over them (`HandleExtraChannels`, `CopyPanics`). Which it does depends on the
formats (`Formats`, by the kinds that make a difference) and on where the buffers
end: `CopyFits`. The copied samples themselves are in `Scanlines`.
`CachedXFORM`, `CachedXFORMGamutCheck` and the two `Precalculated` routines
differ in whether they use the cache and in `ComparedLanes`.

**`ParallelTransform`** extends it with the call: the fall-back to a sequential
call, `BytesPerPixel` that panics on planar formats, the length check that panics,
the cut into chunks, a worker with a manager and exact slices of its own per chunk,
`Add`, `Done` and `Wait`. A goroutine that panics runs its `Done`, so the caller may
even return, until the runtime ends the program (`Crash`). The module ends with the
refinement mapping to `PixelMap`.

**`ConcurrentCallers`** extends it with goroutines of the application that call
`CmsDoTransform` for row after row, with a manager of their own or with the zero
one, for which `CmsDoTransform` takes the transform's. Any number may pass the zero
manager; those that do side by side share one scratch bundle, and read and write it
without a lock. The model interleaves them at the steps of the pixel loop, while in
the program single lanes may be torn as well; so nothing is stated of the
sharers' own pixels, only that the damage stays with them.

**`Scanlines`** is the walk over strided buffers that each of the seven routines
and `cmsHandleExtraChannels` contain: byte offsets, pixel sizes and line sizes,
and the panics of slices cut beyond a buffer's end. Buffers may be a byte too
short.

**`ProfileTags`** is the directory of an open profile: `dir` is the sequence of
the slots in use, a slot the record of what the six arrays hold at one index.
Each operation is one action, because it holds the profile's mutex from its
search to its last assignment. The contents of a tag are a type and a value, an
offset is a block of the file, `Init` is what `cmsReadHeader` makes of a file.
`promise` is a history variable: what each tag was last given by a write.
A `FreeFn` that asserts the Go type of its argument panics on raw bytes
(`FreePanics`), which happens when a curve that was read is written raw and then
read or closed.

**`ProfileLocking`** takes two of these operations apart, on tags of one profile
and the file position they share: `cmsReadTag` from lock to return in its own
steps, and `cmsWriteTag` of a tag that exists. `Locking` says whether a mutex
plug-in is registered; `defMtxLock`, the default, locks nothing.

**`Formatters`** is `cmspack.go`. A pixel format is the record of the fields of
its 32-bit word. An unroller is the value of an operator: for each lane of `wIn`
the byte offset it is read from and what is done to the sample (taken as it is,
reversed, byte-swapped, divided by an alpha read elsewhere, converted from Lab
V2, saturated), how far the returned slice has moved, and how long the slice must be for it
not to panic. A packer is described the same way, by what it stores at which
offset. What a sample is worth and the scaling of ranges are left out. The four
tables are sequences of rows, and `Lookup` is the first row that fits, as the
loops over them find it.

**`FormattedTransform`** runs a row of pixels through them: `AllocEmptyTransform`
looks the formatters up, or refuses, `cmsChangeBuffersFormat` may replace them,
`CmsDoTransform` hands out the buffers, and each `Pixel` step goes on with the
slices the formatters returned. The module ends with the layout a format word
stands for (`MemoryOrder`, `SampleOf`), which no formatter is defined by.

**`ProfileSave`** adds the save to `ProfileTags`: the pass to the handler that
counts and takes anything (`NoLimit`), `SetLinks`, the header made of the offsets,
the pass that writes, and the directory given back (`*Icc = Keep`) unless `SaveTags` panicked. A
file is its tag table and the pieces that stand at its offsets; `Rooms` is what a
medium takes before a write fails. A profile opened for writing is saved by its
close, too.

**`TagCodec`** follows one tag through `cmsWriteTag`'s duplicate, `SaveTags`'
pass that counts and its pass that writes, `cmsReadTag`, a second save, a cut of the file and more bytes behind it.
The handlers are in five modules by what they handle: **`IccStream`** is the byte
stream (big-endian numbers, fixed point, type base, alignment), **`TagTypes`**
numbers, curves and bytes, **`TagTexts`** over **`Mlu`** texts and names,
**`TagLists`** sequences and dictionaries, **`LutTypes`** the five types that hold
pipelines. An object is its Go type, which the handlers assert, and its contents;
a write gives bytes, refuses or panics, a read gives an object, nil or a panic.
Bytes are kept as bytes here: offsets inside tags, counts and element sizes are
what can go wrong.

**`ToneCurves`** builds and copies curves (segments and table, formulas as their
parameters). **`Pipelines`** is stages and pipelines as values: allocation,
`BlessLUT`, insertion, concatenation, duplication, and the node count of a grid in
32 bits.

**`PipelineLists`** is what the pipeline operations promise, on sequences of
stages, where a stage computes an affine map; **`PipelineHeap`** is what
`cmslut.go` does, on a heap of stages linked by `Next`. `PreOptimize` is a process
there: each rule of `cmsopt.go` walks along the chain in steps, removes or
replaces stages under its feet and reports whether it did. The refinement mapping
follows the chains.

**`Interpolation`** is the fixed-point look-up tables and their evaluators of one
to three inputs, bilinear, trilinear and tetrahedral, in words of `Bits` bits;
**`FloatInterpolation`** has the floating-point ones. **`ClutEvaluation`** is the recursion of four to fifteen
inputs, call by call, for several goroutines: each call takes a child frame from
the pool, evaluates two planes into the scratch of its manager and blends them;
the defer gives the frame back on a panic too. **`ClutAnswers`** states what
exactly a table answers and compares.

**`DeviceLuts`** is `cmsio1.go`: which tag of a profile becomes its pipeline for
an intent, in the three directions, and the stages put around it. A value is the
encoding it is in (Lab of version 2 or 4 or normalised, XYZ, a device space), a
stage what it takes and gives. **`VirtualProfiles`** builds the library's own
profiles as `DeviceLuts` sees profiles. **`Linking`** is the creation of a
transform of a chain: its spaces, the measurement of a gamma, the handlers of the
ICC and black-preserving intents, the conversion between two profiles with the
black points it measures by creating transforms of its own, and the checks at the
end. Those inner transforms are worked out in one piece; none of them measures a
black point again, so nothing recurses.

Operators whose comment starts with "Mistake:" are no part of any specification.
Each is a plausible wrong version of the definition after it, and is there to
show that a property notices: put in its place, the property named for it in
`PROJECT.json` fails.

## The runs

| run | instance | shows |
|---|---|---|
| `MCParallelTransform` | 3 workers, up to 4 pixels, buffers of 0 to 4 pixels, worker argument -1 to 3, RGB, two colours, every kind of format | refinement of `PixelMap`, each pixel once and right, nothing left out when the call returns, panics only before anything is written, termination |
| `MCCallers` | 3 callers, 2 of them with the zero manager, 2 rows each, `CachedXFORMGamutCheck`, 5 channels, two colours, scratch lanes clean or full | the whole picture in the end; callers that share a scratch bundle spoil no pixel of one that does not |
| `MCScanlines` | lines of 1 or 2 pixels, 0 to 3 lines, padding 0 or 1, buffers from one byte short to one too long, extra channel first | each pixel to its place, no overrun, the extra channel copied |
| `MCProfileTags` | 4 tags, 3 slots, 4 files and a new profile, media of several sizes | names stay unique, a read gives what was last written, a saved file reads the same |
| `MCProfileLocking` | 2 readers, 1 writer, 2 calls each, 3 tags, mutex plug-in | no answer is another tag's, no write is undone, every call returns |
| `MCReadWhileWriting` | 2 readers, 1 writer, plug-in | **fails**: the result is read after the unlock and may be nil |
| `MCFormattedTransform` | rows of 2 pixels, 2282 formats: 1 to 6 channels, 0 to 3 extras, every combination of flags that matters, buffers exact or longer | every sample is read from its place and stored in its place, pixels stay apart, exact buffers suffice; with the exceptions listed below |
| `MCTagCodec` | objects of every type in both versions, tags of other programs, two starts, two media, two saves, every cut | an object comes back, is read whole and in its tag, cuts are noticed, the next save writes the same bytes, writers panic on listed objects only |
| `MCPipelineHeap` | 3 stages of 4 kinds with two pipelines; 4 stages of 7 kinds in one for `PreOptimize` | no stage shared or lost, channels are those of the ends, refinement of `PipelineLists`, `PreOptimize` returns and leaves nothing to remove |
| `MCClutEvaluation` | tables of 1 to 6 inputs, every input of the small ones, 1 and 2 goroutines, 6 bundles, 3-bit words | exact on nodes, within 2 units elsewhere, bundles used once and given back |
| `MCLinking` | 30 profiles of every class; chains of 1 and 2 of all and of 3 of eight, 7 intents, black point compensation on and off; pairs of the eight with two intents | stages meet, each profile is in the pipeline once, sound chains are not refused |
| `MCLinearGamma` | the same, 16-bit buffers, bytes of 8 bits | **fails**: the ramp that measures the gamma never ends |

Why the bounds are enough. Three workers and four pixels give every case of the
cut: equal chunks, a short last chunk (4 by 3 gives 2, 2 and none), a worker
without pixels, more workers than pixels, one pixel, one worker. The two input
colours are the one the cache starts with and the one that differs from it in
the last channel only, which is the hardest pair for the comparison. In
`MCCallers` lanes above the channels start with 0 or 1, so a lane that was never written takes part in a comparison.
The second row reuses the first row's scratch. The two that pass the zero manager do
spoil each other's pixels (`WrittenPixelsCorrect` fails there), so that they leave the
third's alone is not for want of damage. The handle's formats have an extra channel to
copy, in front (`HandleFormats`); without one the steps are the same. In `MCScanlines` three lines separate an error in the start from one in
the step between lines, and input and output have paddings of their own. In
`MCProfileTags` two curve tags may share a block, one block is damaged, one entry
of size 0 is dropped, one file has a tag the library has no descriptor for, and
three slots for four tags make the directory overflow; the run is otherwise
unbounded: every sequence of calls and saves of every length is covered. In
`MCProfileLocking` two calls per goroutine let the second find what the first
left behind; the third tag is damaged, so the error exit is taken too.

In `MCFormattedTransform` the channel numbers 1 to 4 and 6 have rows of their
own and 5 has none, 3 extras have a row, and the second pixel is the one that
shows a wrong slice. `MCTagCodec` cuts each tag at every byte, and starts it on a
multiple of four and off one, since the alignment of a part counts from the
start of the file. In `MCPipelineHeap` three stages are enough for a rule to
remove the first, the last or two in the middle and leave one over; four for a
rule to make work for another. `MCClutEvaluation` takes every word for every
input of the small tables, so rounding is seen at every position; the arithmetic
depends on the width only through `Unit`, `Top` and `Half`, and four bits give
the same. Two goroutines in tables of six inputs hold four frames at once. In
`MCLinking` chains of two have every pair of classes, spaces and table types; with
three a profile is between two others. Five of the 30 profiles are there for what
proving found (an abstract one between the two connection spaces, named colours in
XYZ or with tables of their own, two whose header says something else than their tags). `MaxByte` is 3 in `MCLinking`, where the
ramp is only passed through, and 255 where it is the question.

The failing runs are disagreements between the code and its own comments, kept
as runs so that a repair shows. Each is quoted in `PROJECT.json` under "findings".

### Known disagreements without a run

They are conditions or exceptions of the modules, so that the properties hold for
the rest.

- Without a mutex plug-in, `defMtxLock` locks nothing (`cmserr.go`): two readers
  mix positions and tags. `MCProfileLocking` and the theorems assume `Locking`.
- `CachedXFORM` starts its strided walk at the second line (`cmsxform.go:999`);
  `MCScanlines` leaves it out.
- An extra channel that is not the first of its pixel makes the copy panic behind
  the last pixel of an exact buffer (`cmsalpha.go:797`), and so do any two; `MCScanlines`
  puts one first. In `CmsDoTransformParallel` every goroutine has exact slices, so
  there each of them panics before its first pixel and the program ends, where
  `lcms2.go:430` says that alpha channels are copied: that is the exception which
  `PanicsAreClean` and `Terminates` make.
  The converters other than those of equal bytes and equal words assert slices of
  other types than the `[]byte` they are given, and panic at the first pixel
  (`converted` of `Formats`).
- `CmsDoTransformParallel` panics on planar formats, whatever the buffers hold
  (`cmsxform.go:240`); its sequential path does not. `PixelMap` allows it.
- `channelsOf` says 4 for every larger space, so `CachedXFORM` compares too few
  lanes there: `ComparesEveryChannel` is the condition of the theorems.
- A raw tag that was read, written raw again and read is answered from the block
  it had in the file (`cmsio0.go:703`).
- Saving: `SaveTags` asserts `[]uint8`, so a profile with any cooked tag panics
  when it is saved, with the mutex held and the counting handler in place. A header
  that cannot be written panics. `cmsWriteAlignment` writes four bytes where it
  should fill up to four. `cmsSaveProfileToMem` fails for every buffer. Links are set in the
  order of the directory, so a link to a later link gets that one's old offset, and whatever links to it
  too; these entries are named in `Misplaced`. `cmsWriteRawTag` does not notice that its copy failed.
- Tag types: `NotReadBack`, `Fragile`, `Growing` and `Lossy` in `TagCodec` name the
  types whose reader refuses what its writer wrote, whose writer panics, whose
  second save differs, and whose contents are dropped. Since `SaveTags` does not
  get past its assertion with a cooked tag, `TagCodec` checks the handlers'
  contract, which a repaired `SaveTags` relies on.
- Interpolation: a table of more than half the positions' width in nodes along one
  input overflows its fixed-point position (`Tall`). The floating-point evaluators
  give the exact answers, but are never reached: `cmsintrp.go:63` looks at `Lerp16` only.
- Linking: the stages do not meet for a profile, no device link, whose device space
  is a connection space other than its own (`SpaceIsOtherPCS`), for one whose header
  says something else than its tags (`HeaderIsWrong`: a connection space that is none,
  named colours in XYZ, RGB colorants for another space), for a link with only a
  float tag of another intent (`BareFloat`), for named colours after the first
  profile, and for the empty pipeline the black-plane handler returns early (`Plain`). A
  refused inner transform is a typed nil, which is not the nil it is compared
  with, and panics when evaluated. A profile without a white point panics at the
  end of the creation, one whose adaptation was read from a file in the absolute
  intent. Keeping black between CMYK profiles panics: the transform to Lab is
  handed an array. The loop that trims device links drops the last of three or more profiles.

### Formats that are not read or stored as laid out

`Misreads`, `Overreads` and `Misplaces` in `FormattedTransform` name the formatters
that do not follow the layout. They are exceptions of the properties, so that the
properties hold for all others; a repair of the code is a line less in them.
All are in `cmspack.go`, except the last.

- `UnrollDoubleTo16` (825), `UnrollFloatTo16` (880), `UnrollLabFloatTo16` (712):
  one byte of a sample is taken for its value. `UnrollFloatsToFloat` (1046): the
  bits of a float are taken as an integer.
- `UnrollLabDoubleTo16` (678): chunky, `encoding/binary` panics on the unexported
  fields of `cmsCIELab`; planar, bytes are taken as above.
- `Unroll16ToFloat` (1002), planar: indexes bytes with offsets of samples.
- `UnrollAnyWordsPremul` (405), unless one extra channel comes first: the alpha
  is looked for in the last colour and the extras are not stepped over. Without
  an extra channel, `swapfirst` makes it step over an alpha that is not there: each
  pixel is read a word late, and the last one beyond an exact buffer (`Overreads`).
- `UnrollPlanarWords` (454), `UnrollPlanarWordsPremul` (488): the slice returned
  is the one behind the last plane, so only the first pixel is read.
- `PackChunkyWords` (1381), `PackPlanarWords` (1506): the slice returned has not
  moved, so every pixel overwrites the first. The extras of `PackChunkyWords`
  are taken out of `wOut` and stored behind the colours.
- `PackHalfFrom16` (2493), `PackHalfFromFloat` (2540): the output is not written.
- Premultiplied formats without an extra channel (`LacksAlpha`) have no alpha. The
  unrollers of bytes then divide by the 1 that their factor starts with: `(v << 16) / 1`
  is above `0xffff` for all but a zero (126-131, 186-191), so samples saturate
  (`Divided`). The packers of bytes and words multiply by the 0 theirs starts with
  (1362-1364, 1428, 1496-1498, 1549) and store zeros (`Multiplied`).
- `PackDoubleFrom16`, `PackFloatFrom16` and the four `...FromFloat` packers of Lab
  and XYZ and the two of floats, planar: side by side, or the first plane only.
- `swapfirst` without extras: the planar formatters of bytes do not move a
  sample; `PackChunkyBytes` and the float packers move another one than the
  unrollers do when the order is swapped as well; `PackFloatsFromFloat` and
  `PackDoublesFromFloat` store the wrong value in front.
- `Pack3BytesAndSkip1SwapSwapFirst` (1881) stores the high byte of a word, where
  its comment and the other packers round with `FROM_16_TO_8`.
- `Overlaps` names, among the packers above, those whose slices do not move on by a
  pixel; only these are excepted from `NeverOverwritten`.
- Planar formats in exact buffers: the planes are indexed from a slice that
  moves on, so the last plane is cut or indexed beyond the buffer
  (`StaysInBuffer`).
- `cmsChangeBuffersFormat` (`cmsxform.go:2012`) on a transform of floats changes
  its formats and leaves its formatters (`Outdated`).

## Fairness

`ParallelTransform` and `ConcurrentCallers` assume weak fairness of each
goroutine: the Go scheduler runs a goroutine that can run, and no step of a
pixel loop can be disabled by another goroutine, so strong fairness is not
needed. `Crash` is fair as well: the runtime ends a program in which a goroutine has
panicked. `Scanlines` is sequential: weak fairness of `Next` says that it runs.
`ProfileLocking` assumes weak fairness of each goroutine as a whole. With it a
lock that is free again and again could in general be taken by the others for
ever; here calls are bounded, so every waiting call has its turn. A Go mutex,
which a plug-in is expected to use, hands itself to a waiter it has starved.
`PipelineHeap` assumes weak fairness of `PreOptimizeStep`: the call is sequential
code and nothing runs in between. `FairSpec` of `Linking` assumes it of `FillRamp`
alone, the one loop of it. The other modules claim no liveness and assume no
fairness.

## The proofs

They are in eight modules, and hold for every value of the constants, from the assumptions
the modules name. A module's lemmas come in the order of its argument, and its
theorems where the argument has reached them.

`ParallelTransformProofs`, for every colour space, routine, sample set,
transform, number of workers and number of pixels:

- `TypeCorrect`: `Spec => []TypeOK`.
- `ParallelPixelsCorrect`: `Spec => []WrittenPixelsCorrect`, if a cache hit
  compares every channel of the entry space (`ComparesEveryChannel`).
- `WhenEveryChannelIsCompared`: which routines and spaces meet that condition.

The argument. `WrittenPixelsCorrect` alone is not inductive: the pixel about to
be encoded may come from the cache. The invariant adds that a cache entry is
sound (its output is the transform of every pixel that agrees with it on the
compared lanes, which with `ComparesEveryChannel` is one pixel), that a call
which has decoded has the channels of its pixel in its scratch lanes, and that
one about to encode has the transform of its pixel there. Each of these is
disturbed only by a call with the same scratch bundle, so the invariant also
needs that calls in progress do not share a manager (`ScratchIsPrivate`). In the
parallel call that is so by construction (`OwnManagers`: worker i makes its own), so it
is a hypothesis of the lemmas and no result; `MCCallers` has callers for which
it does not hold. There is one lemma per step of the pixel
loop, and under it one step per conjunct.

And for the call as a whole:

- `ReturnsWhenComplete`, `PanicsBeforeWriting`, `ChunksNeverMeet`: `ReturnedComplete`
  (with the WaitGroup's count), `PanicsAreClean` and `WrittenOnce`.
- `ParallelImplementsPixelMap`: `Spec => ImplementsPixelMap`, under `ComparesEveryChannel`.

Their invariant, `CallEndsRight`, says which path the call took and that its
buffers allow it (`PathTaken`, `Outside`), that each worker has the chunk its number
gives it and has written exactly the part of it before its position (`Chunked`,
`Evaluated`), and what the WaitGroup holds (`WaitGroupCounts`), from which it follows that
a call past `Wait` has no worker at work and no pixel open (`AtTheEnd`). A goroutine's
panic needs a part of its own: the slices are exact, so whether the extra channels can
be copied is the same for all workers, and if one panics over them no worker has gone
on to its first pixel (`Doom`). That the
chunks partition the request is arithmetic on rounding up, proved apart. The
refinement adds `PixelInv`, since a pixel must be right to be a step of `PixelMap`.

`ProfileLockingProofs`, for any readers, writers, tags and calls, if the mutex
excludes: `KeptRightWhenLocked`, `WritesSurviveWhenLocked`, `AnswersOwnWhenLocked`. The
invariant (`LockInv`) says that at most one call is between lock and unlock, that the
file position and what it has read are those of its own tag there, and that outside
the slots are as the last write left them. The result that is read after the
unlock is in none of them, which is what `MCReadWhileWriting` shows.

`ProfileTagsProofs`, for any signatures, types, files, sequence of operations and
saves: `NamesStayUnique` and `ReadsGiveTheLatest`. Their invariant (`TagsInv`) is that
each name has one slot, and that each slot keeps its promise in the form it is in:
not loaded, cooked or raw (`KeptAs`). And `SavesReadTheSame`: that a saved file has
the bytes of every tag that is not misplaced. Its invariant needs nothing more, since
touching a tag forgets the file; the work is in the save itself, with loops
over the directory in it. After each round of `SaveTags` the pieces of
the tags behind it lie one after another where their slots say (`Done`), and the
second pass puts each tag where the first did (`Agree`), for it writes the same
sizes after as many entries; a link has the place of the tag it names if that is no
link or was set before it (`SetLinksResult`); so each link of a chain that runs
backwards through the directory meets its end (`ChainStraight`, `LinksMeet`). That
chains are misplaced as soon as one of their links is, whichever it is, came out of
this proof: a link to a misplaced link copies what that one has.
The loops themselves, those of `cmsReadHeader` and of the save, need induction over
an interval, derived from the well-foundedness of the natural numbers
(`Induction`), and the existence of the values a loop leaves, each computed from
the one before (`Iteration`); `PipelineHeapProofs` and `LinkingProofs` have that
induction too.

`FormattedTransformProofs`, for any formats, with any number of channels and extras
and any flags, and rows of any length, outside the formats listed above that no
formatter serves as laid out: `LanesAreTheSamplesAlways`,
`SamplesAreTheLanesAlways`, `NeverStoredOver`, `TypesAreCorrect` and
`StaysInBufferAlways`, with the exceptions that the properties have. No formatter is defined by the layout of the format, so this is
shown formatter by formatter. The order of the samples in memory is first put in
closed form, colour by colour (`OrderIs`, `PlaceOfLane`). A format that was looked
up fits the row that answered and none before it (`LookupIs`), and the row settles
what its formatter takes for granted: the layout (`FixedRow`, `FixedPacks`) or only
the flags that it does not handle (`OpenRow`, `OpenPacks`). With that each of the
119 rows has a formatter that reads or stores the lanes of the first pixel as laid
out and moves on by a pixel (`Input16Serves`, `InputFloatServes`, `Output16Keeps`,
`OutputFloatKeeps`). The layout of pixel k is that of the first one, k pixels on
(`ProperSteps`), and the invariants are that the loop is there after k pixels
(`InStep`), that what is stored belongs to the pixels behind it, and that each of
those has all its lanes (`Laid`). Nothing is stored over because two pixels have no
sample in common, which in planes is a matter of remainders (`PixelsDiffer`). The
assumption is that formats have numbers in their fields, and rows a pixel. The
proof corrected the model's property: an output format of Lab version 2 is one also when
it carries the hint `OPTIMIZED_SH`, which the search takes away (`Unhinted`).

That no formatter goes beyond an exact buffer, and with formats that are not planar
beyond none that is longer, rests on what the formatters ask for: an unroller for no
more than the pixel it moves over (`Stays`), a packer for no more either, or, if it
leaves the slice where it is, for no more than it leaves (`Modest`). So n pixels
have used up at most n pixels of both buffers, and what is left is enough for the
others (`Left`). Planar formats in longer buffers are only model-checked, because how
much longer is long enough is different for each formatter. That a slice never has
a length below zero is shown for every formatter in every format that it can get
(`Sound`): once the formats of a transform of floats are changed, nothing else is
known of what its formatters do. This proof found the overread of
`UnrollAnyWordsPremul` listed above: the instance had had premultiplied formats with
extra channels only.

`ScanlinesProofs`, for any picture, padding, pixel and buffer size and every
routine but `CachedXFORM`, which is the one that starts at the second line:
`PixelsKeepTheirPlaces` and, if the extra channel comes first in its pixel,
`ExactBuffersAreEnough`. The code adds up pixel and line sizes; the invariant
(`WalkInv`) is that the sums are the products of the loop variables and those sizes
(`Positioned`), that what was moved went to its place (`InPlace`) and that all
pixels behind the walk have been moved (`ColoursMoved`). That a pixel's end is
within the buffer is then arithmetic on those products.

`ClutEvaluationProofs`, for any goroutines, tables of any number of inputs, work and
number of bundles: `FramesStayPrivate` and `BundlesNotShared`. The invariant
(`FramesInv`) describes the stack of a goroutine's calls: a call has a child frame from
its first plane on and only if it has more than four inputs (`CallOK`), every call
but the first works in the frame of the one below it (`StackOK`); and that each
bundle made is a goroutine's own, in the pool or the frame of exactly one call
(`Private`, `Taken`, `Counted`). A return, a blend and a panic all end a call in one
way (`Ended`). The assumptions are that each goroutine can have a bundle of its own
and that the jobs name tables.

`PipelineHeapProofs`, for any number of stages, pipelines, widths and kinds of
stage, and any sequence of operations: `EveryStageHasOneOwnerAlways`,
`ChannelsAreTheEndsAlways`, `NothingIsLeftToRemove` and the refinement,
`PipelinesImplementLists`. None of the first three is
inductive. That a stage has one owner is said of what the walk along `Next`
returns (`CellsOf`), and a walk says nothing of where a changed pointer leads; so
the invariant (`HeapInv`) says instead that there are chains, one per pipeline, of
different stages linked in that order, in no other chain, in nobody's hands and
not freed (`Owned`). The walk gives exactly that chain (`PlacesAreChains`), by
induction along it and because no chain is longer than all stages
(`NoLongerThanAll`); from there on each operation is shown to leave a heap with
other chains. What an operation does to a pointer is put together from a few
facts: a cell of a chain is made to point to the rest of it, to another chain or
to a loose stage (`CellIsPut`, `OneIsOut`), a loose stage is made or freed
(`StageIsMade`, `StageIsFreed`), and the channels are set (`Blessing`). The
channels of a pipeline are part of the invariant (`Sound`), since what
`PreOptimize` takes out must let through what goes in: an identity by itself, a
pair because the two are made with three channels each (`CutIsSound`). For that
the pipeline must fit from stage to stage, which the pass keeps (`Running`). And
the pass has its own part: the rules before this one match nothing, this one
nothing behind it, or it has something to tell (`Cleared`). The assumptions are
that stages are as the allocators make them (`KindsAssumption`), that there is a
stage (`CellsAssumption`), and that channels are numbers (`WidthsAssumption`).

The refinement rests on the same invariant. Read along its chain, a pipeline is a
sequence of stages with channels (`ListOf`), and what the caller holds is a
function from places to stages (`HandOf`). What can go wrong in the code is that a
pointer operation does something else than the operation on sequences it stands for.
So there is one lemma per operation (`PipelineInsertStageInserts`,
`PipelineUnlinkStageUnlinks`, `StealSteals`, `PipelineDuplicateDups`,
`CatPipelinesCats`, ...), and under them what relinking does to the sequence
(`OneBeforeThem`, `OneAfterThem`, `FirstIsGone`, `LastIsGone`, `StagesOfJoined`).
`cmsPipelineCat` is a loop on both sides, over the chain and over the sequence; the
two agree round by round (`InStepRound`, `AllInStep`), and the values of the loop
over the sequence are unique (`ListLoopIs`), so they are the ones the abstract
operation chooses. `PreOptimize` is the part where the two sides differ: the chain
loses or changes stages, and the abstract step only asks that the pipeline gets shorter,
still fits, keeps its channels, and computes the same (`SameMap`). What it computes is a
run of values over its stages (`ComputeIs`). Two runs that agree at a place go on alike
over the same stages (`RunsGoOn`); so taking out stages that do nothing keeps the
map (`CutKeepsMap`), and so does one stage for two it composes (`SwapKeepsMap`), for all
integer inputs and not only the vectors `SameMap` compares at. What the rules take
out does nothing (`DroppedIdentityIsNeutral`, `DroppedPairIsNeutral`, from
`ThereAndBack`), and the product of two matrices composes them in the right order
(`ProductApplies`), which is where the rule needs both to be of three by three
without an offset.

`LinkingProofs`, for any profiles, and chains of them of any length, with any intents:
`StagesMeetAlways`, `EachProfileOnceAlways` and `SoundChainsAreMadeAlways`. The assumption (`LinkingAssumption`) is that
a tag is of a type it may have (`SupportedTags`) and that a call has an intent and a
flag for each of its profiles; profiles with tags that cannot be read, without tags
and with wrong headers are among them. The state of a creation says little: the invariant
(`LinkingInv`) is that the pipeline of a call that has one is what the
handlers link for its chain, and the spaces the ones found for it. The work is in
what they link, in three layers. A pipeline that is made has a list of stages
(`Holds`), which inserting and stealing put together (`AtBeginHolds`, `AtEndHolds`,
`StealHolds`), and what goes through two lists goes through the one and then the
other (`ThroughBoth`). A reader, whatever the profile, the intent and the tags, fails
or makes stages that lead from the encoding of the one space to that of the other and of
which one is a table at most (`InputReads`, `OutputReads`, `LinkReads`,
`NamedInputReads`, `NamedLinkReads`, over the Lab of version 2, the float tags and the
matrix shapers); `AddConversion` leads from one connection space to the other with
stages of no profile (`AddConversionAdds`). The loop over the chain then puts the part of
each profile behind the parts before it (`StepHolds`, `PlaceNext`). What its invariant
(`ChainUpto`) needs beside that is the other loop: `GetXFormColorSpaces` decides by a rule
of its own which way a profile is used, and only where that comes to the same as in
`DefaultICCintents` (`WalkAgrees`) do the entry and exit of the transform belong to the
pipeline. The two part only at named colours: at their index, which is no space of
the profile, and at the end of a chain of nothing else. The proof changed the model
more than once: `Plain` had let through abstract profiles from XYZ to Lab, named
colours in XYZ or after the first profile, and headers that contradict the tags, and
`Sound` abstract profiles without a table of the first intent, those from a device
space, and tables with other channels than their spaces. The instance has a
profile for most of these now.

That a chain of sound profiles is linked (`SoundChainsAreMadeAlways`) says that no step
refuses it, so here what a pipeline is must be known and not only what it is if it is made:
`Yields` says that it was made and how many channels its stages take and give. A sound
profile yields what its spaces have, as an input, an output or an abstract profile
(`InputYields`, `OutputYields`, `AbstractYields`); a conversion between connection
spaces keeps three channels (`AddYields`). What the loop needs of the space it has come
to is `Comes`: after an odd place it is a connection space, after an even one the space
of the profile there, for a profile used the other way follows one of the same space
(`Turns`, which `Agree` gives). The loop of `GetXFormColorSpaces` may find the other
connection space there (`WalkAlike`), which has as many channels. The conversions come
last: their black points are measured by transforms whose chains are sound in the same way
(`TwoMade`, `RoundtripMade`), so every measurement is one (`MeasuredFound`) and no
conversion fails (`ConversionMade`). That also keeps the measurement of the gamma
from panicking. The invariant (`ReasonInv`) adds to `LinkingInv` why a creation returned.

Only model-checked: `ConcurrentCallers`, the copy of the extra channel in
`Scanlines`, longer buffers for planar formats in `FormattedTransform`, `TagCodec`, and what `ClutEvaluation`
answers. What a recursive definition computes for every
input (the exact answer of a table) is out of the prover's
reach, and so is all liveness.

## What is left out

- In `Formatters`, the factories that plug-ins register and the formatters of
  transforms without formats. Formats of more than 6 channels or 3 extras are not
  model-checked; the proofs cover them, with fields of any size.
- The values: in `CachedTransform` curves, matrices, interpolation and floating
  point are the constant function `Eval`. That `Eval` is a function, the same for
  every pixel of a transform, is an assumption: alarm codes changed between
  creation and use break it for an out-of-gamut zero (the cached entry keeps the
  old ones). In `ToneCurves` formulas are their parameters, in `PipelineLists` a
  stage is an affine map of integers and a conversion a stand-in for one.
- In `Scanlines`, planar layouts, several extra channels, in-place
  transforms and the conversions between sample types.
- In `ProfileTags`, chains of links that form a cycle, which `cmsSearchTag` would
  follow for ever: `cmsLinkTag` is given only links that form none. `DecideType` is
  any supported type. Of the header only what places the tags.
- In `ProfileSave`, `cmsSaveProfileToMem`; the media are files and the bytes a
  `MemoryIO` clips silently are not counted.
- In `PipelineHeap`, the optimisers after `PreOptimize`: they resample in floating
  point. What to look at there by other means: white points far apart that count as equal (`cmsopt.go:475`),
  a field `P` that is never set (`:827`), the low byte of a 16-bit sample (`:1431`).
- In `Linking`, proofing and the gamut check, the clip of negative values, colorant
  tables and the sequence of profiles, profiles of ink limits and of brightness
  (`cmsCreateInkLimitingDeviceLink` always gives nil), and plug-in intents. Intents that
  differ along the chain are model-checked for pairs; the proofs cover any. The optimisation at the end of the creation is taken to keep what
  is computed, and the formatters to be found.
- Contexts and plug-ins: the lists of plug-ins have one shape, and what a plug-in
  adds is not this code.
- The failure of an allocation: the Go runtime panics before the code can see it.

## Plan

Done, in the order they were written: `PixelMap`, `CachedTransform`,
`ParallelTransform`, `ConcurrentCallers`, `Scanlines`, `ProfileTags`,
`ProfileLocking`, `Formatters`, `FormattedTransform`; `IccStream` to `TagCodec`;
`ToneCurves`, `Pipelines`, `PipelineLists`, `PipelineHeap`; `Interpolation`,
`FloatInterpolation`, `ClutEvaluation`, `ClutAnswers`; `ProfileSave`; `DeviceLuts`, `VirtualProfiles`, `Linking`; and
the proofs above. What remains, in order:

1. `Contexts`: chunks, registration and reset of plug-ins, alarm codes and
   adaptation state under concurrent callers; resetting the mutex plug-in, which
   clears its functions instead of restoring the defaults (`cmserr.go:470`).
2. `MemoryIO` with integers of small width, under `ProfileSave`.
3. The optimisers after `PreOptimize`: which of them takes a pipeline, and what
   it does to the flags and formatters of the transform.
4. The gamut check and proofing of `cmsCreateExtendedTransform`.
