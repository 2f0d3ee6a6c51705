---------------------------- MODULE PipelineHeap ----------------------------
(***************************************************************************)
(* Pipelines as cmslut.go keeps them: stages linked by Next, a pipeline    *)
(* that points to the first, and operations that move the pointers.  With  *)
(* them PreOptimize of cmsopt.go, which takes stages out of the chain      *)
(* while it walks along it.                                                *)
(*                                                                         *)
(* The heap is a value, and the operations are functions of it.  A pointer *)
(* cell, what Go writes as &Lut.Elements or &stage.Next, is Nil for the    *)
(* first and the stage for the second.                                     *)
(***************************************************************************)
EXTENDS Pipelines, FiniteSetsExt

CONSTANTS
  NCells,     \* bound: stages that exist at a time
  MaxHeld,    \* bound: stages the caller holds at a time
  Luts, Widths, Kinds

ASSUME CellsAssumption == NCells \in Nat \ {0} /\ MaxHeld \in Nat

\* The pairs PreOptimize removes, in the order it looks for them.
Pairs == << <<"XYZ2Lab", "Lab2XYZ">>, <<"Lab2XYZ", "XYZ2Lab">>,
            <<"LabV4toV2", "LabV2toV4">>, <<"LabV2toV4", "LabV4toV2">>,
            <<"Lab2FloatPCS", "FloatPCS2Lab">>, <<"XYZ2FloatPCS", "FloatPCS2XYZ">> >>

\* What the allocators of cmslut.go make: a conversion has three channels, the
\* coefficients of a matrix are as many as its channels ask for, and a copy is
\* like the original.
WellMade(s) ==
  /\ s # NoStage /\ StageDup(s) = s
  /\ s.in \in Nat \ {0} /\ s.out \in Nat \ {0}
  /\ s.implements = "Identity" => s.in = s.out
  /\ (\E k \in DOMAIN Pairs : s.implements \in ToSet(Pairs[k])) => s.in = 3 /\ s.out = 3
  /\ s.implements = "Matrix" =>
       /\ s.data.matrix \in [1 .. s.in * s.out -> Int]
       /\ s.data.offset = <<>> \/ s.data.offset \in [1 .. s.out -> Int]
ASSUME KindsAssumption == \A k \in DOMAIN Kinds : WellMade(Kinds[k])
ASSUME WidthsAssumption == Widths \subseteq Nat \X Nat

Cells == 1 .. NCells
Nil == 0

VARIABLES
  heap,   \* the stages, their Next, and the pipelines
  held,   \* the stages the caller holds
  pass    \* where PreOptimize is

vars == <<heap, held, pass>>

NoLut == [in |-> 0, out |-> 0, head |-> Nil, nil |-> TRUE]
Idle == [lut |-> {}, rule |-> 0, at |-> Nil, opt |-> FALSE]

----------------------------------------------------------------------------
(* The operations on a heap h.                                             *)

\* The stages from head on; no chain is longer than all stages.
Chain(next, head) ==
  LET from[room \in 0 .. NCells] ==
        [c \in Cells \cup {Nil} |->
           IF c = Nil \/ room = 0 THEN <<>> ELSE <<c>> \o from[room - 1][next[c]]]
  IN from[NCells][head]
CellsOf(h, l) == Chain(h.next, h.lut[l].head)
StagesOf(h, l) == LET s == CellsOf(h, l) IN [k \in DOMAIN s |-> h.stage[s[k]]]
FreeCells(h) == {c \in Cells : h.stage[c] = NoStage}

\* The writes: lut.Elements, stage.Next, and the channels of a pipeline.
SetHead(h, l, c) == [h EXCEPT !.lut[l].head = c]
SetNext(h, c, d) == [h EXCEPT !.next[c] = d]
SetChannels(h, l, in, out) == [h EXCEPT !.lut[l] = [@ EXCEPT !.in = in, !.out = out]]

BlessLUT(h, l) ==
  LET s == StagesOf(h, l)
  IN IF s = <<>> THEN h ELSE SetChannels(h, l, Head(s).in, Last(s).out)

NewStage(h, c, s) == [h EXCEPT !.stage[c] = s, !.next[c] = Nil]
StageFree(h, c) == [h EXCEPT !.stage[c] = NoStage]

InsertBegin(h, l, c) == BlessLUT(SetHead(SetNext(h, c, h.lut[l].head), l, c), l)

\* Into an empty pipeline the stage goes as it is, with what its Next points to.
InsertEnd(h, l, c) ==
  LET s == CellsOf(h, l)
  IN BlessLUT(IF s = <<>> THEN SetHead(h, l, c) ELSE SetNext(SetNext(h, Last(s), c), c, Nil), l)

\* Mistake: the stage taken out keeps its Next.
UnlinkBeginChained(h, l) == BlessLUT(SetHead(h, l, h.next[h.lut[l].head]), l)
UnlinkBegin(h, l) ==
  LET c == h.lut[l].head
  IN BlessLUT(SetNext(SetHead(h, l, h.next[c]), c, Nil), l)

\* Mistake: the channels are not set again.
UnlinkEndUnblessed(h, l) ==
  LET s == CellsOf(h, l)
  IN IF Len(s) > 1 THEN SetNext(h, s[Len(s) - 1], Nil) ELSE SetHead(h, l, Nil)
UnlinkEnd(h, l) ==
  LET s == CellsOf(h, l)
  IN BlessLUT(IF Len(s) > 1 THEN SetNext(h, s[Len(s) - 1], Nil) ELSE SetHead(h, l, Nil), l)

\* cmsPipelineCat: a copy of each stage of m goes to the end of l, until one
\* does not fit; its copy stays.
CatCopy(r, l, c) ==
  LET new == Min(FreeCells(r.h))
      h   == InsertEnd(NewStage(r.h, new, StageDup(r.h.stage[c])), l, new)
  IN IF r.ok THEN [h |-> h, ok |-> Consistent(StagesOf(h, l))] ELSE r
PipelinesCat(h, l, m) ==
  LET both == IF CellsOf(h, l) = <<>> /\ CellsOf(h, m) = <<>>
              THEN SetChannels(h, l, h.lut[m].in, h.lut[m].out) ELSE h
      s == CellsOf(h, m)
      after[k \in 0 .. Len(s)] ==
        IF k = 0 THEN [h |-> both, ok |-> TRUE] ELSE CatCopy(after[k - 1], l, s[k])
  IN after[Len(s)]

PipelineCatSteal(h, l, m) ==
  LET s == CellsOf(h, l)
      c == h.lut[m].head
  IN IF c = Nil THEN BlessLUT(h, l)
     ELSE BlessLUT(SetHead(IF s = <<>> THEN SetHead(h, l, c) ELSE SetNext(h, Last(s), c), m, Nil), l)

\* cmsPipelineDup: the copies are linked one after the other; when the chain
\* is not consistent nothing keeps them, and too many channels are refused.
DupCopy(h, m, c) ==
  LET new == Min(FreeCells(h))
      s   == CellsOf(h, m)
      h2  == NewStage(h, new, StageDup(h.stage[c]))
  IN IF s = <<>> THEN SetHead(h2, m, new) ELSE SetNext(h2, Last(s), new)
CopyOf(h, l, m) ==
  LET s == CellsOf(h, l)
      after[k \in 0 .. Len(s)] ==
        IF k = 0 THEN [h EXCEPT !.lut[m] = [h.lut[l] EXCEPT !.head = Nil]]
        ELSE DupCopy(after[k - 1], m, s[k])
  IN IF PipelineAlloc(h.lut[l].in, h.lut[l].out).nil \/ ~Consistent(StagesOf(h, l)) THEN h
     ELSE BlessLUT(after[Len(s)], m)

----------------------------------------------------------------------------
(* PreOptimize.                                                            *)

LastRule == Len(Pairs) + 2       \* identities, the pairs, the matrices

PointsTo(h, l, at) == IF at = Nil THEN h.lut[l].head ELSE h.next[at]
PutAt(h, l, at, c) == IF at = Nil THEN SetHead(h, l, c) ELSE SetNext(h, at, c)
RemoveElement(h, l, at) ==
  LET c == PointsTo(h, l, at) IN StageFree(PutAt(h, l, at, h.next[c]), c)
\* The second of the two goes first.
RemoveTwo(h, l, at) == RemoveElement(RemoveElement(h, l, PointsTo(h, l, at)), l, at)

RowTimesColumn(a, b, i, j) ==
  a[i * 3 + 1] * b[j + 1] + a[i * 3 + 2] * b[3 + j + 1] + a[i * 3 + 3] * b[6 + j + 1]
\* cmsMAT3perFromSlices(a, b) applies b, then a.
\* Mistake: it applies a, then b.
MAT3perReversed(a, b) == [k \in 1 .. 9 |-> RowTimesColumn(b, a, (k - 1) \div 3, (k - 1) % 3)]
MAT3per(a, b) == [k \in 1 .. 9 |-> RowTimesColumn(a, b, (k - 1) \div 3, (k - 1) % 3)]
IdentityMatrix == <<1, 0, 0, 0, 1, 0, 0, 0, 1>>

\* The product takes the place of the two, unless it is the identity.
MultiplyTwo(h, l, at) ==
  LET first  == PointsTo(h, l, at)
      second == h.next[first]
      res    == MAT3per(h.stage[second].data.matrix, h.stage[first].data.matrix)
      less   == RemoveTwo(h, l, at)
      new    == Min(FreeCells(less))
      chain  == PointsTo(less, l, at)
  IN IF res = IdentityMatrix THEN less
     ELSE PutAt(SetNext(NewStage(less, new, StageAllocMatrix(3, 3, res, <<>>)), new, chain), l, at, new)

Multipliable(s) == s.in = 3 /\ s.out = 3 /\ s.data.offset = <<>>

----------------------------------------------------------------------------
Init ==
  /\ heap = [stage |-> [c \in Cells |-> NoStage], next |-> [c \in Cells |-> Nil],
             lut |-> [l \in Luts |-> NoLut]]
  /\ held = {}
  /\ pass = Idle

Alive == {l \in Luts : ~heap.lut[l].nil}
Resting == pass = Idle
HandsFree == Cardinality(held) < MaxHeld

AllocStage(s) ==
  /\ Resting /\ HandsFree /\ FreeCells(heap) # {}
  /\ LET c == Min(FreeCells(heap))
     IN heap' = NewStage(heap, c, s) /\ held' = held \cup {c}
  /\ UNCHANGED pass

\* Mistake: the caller goes on holding what it freed.
FreeHeldKept(c) ==
  /\ Resting
  /\ heap' = StageFree(heap, c)
  /\ UNCHANGED <<held, pass>>
FreeHeld(c) ==
  /\ Resting
  /\ heap' = StageFree(heap, c)
  /\ held' = held \ {c}
  /\ UNCHANGED pass

PipelineAllocate(l, w) ==
  /\ Resting /\ l \notin Alive
  /\ ~PipelineAlloc(w[1], w[2]).nil
  /\ heap' = [heap EXCEPT !.lut[l] = [in |-> w[1], out |-> w[2], head |-> Nil, nil |-> FALSE]]
  /\ UNCHANGED <<held, pass>>

PipelineFree(l) ==
  /\ Resting /\ l \in Alive
  /\ heap' = [heap EXCEPT
       !.stage = [c \in Cells |-> IF c \in ToSet(CellsOf(heap, l)) THEN NoStage ELSE @[c]],
       !.lut[l] = NoLut]
  /\ UNCHANGED <<held, pass>>

PipelineInsertStage(l, c) ==
  /\ Resting /\ l \in Alive
  /\ heap' \in {InsertBegin(heap, l, c), InsertEnd(heap, l, c)}
  /\ held' = held \ {c}
  /\ UNCHANGED pass

\* With a place for it the stage goes to the caller, else it is freed.
PipelineUnlinkStage(l) ==
  /\ Resting /\ l \in Alive /\ heap.lut[l].head # Nil
  /\ \E end \in {"begin", "end"} :
       LET c == IF end = "begin" THEN heap.lut[l].head ELSE Last(CellsOf(heap, l))
           h == IF end = "begin" THEN UnlinkBegin(heap, l) ELSE UnlinkEnd(heap, l)
       IN \/ HandsFree /\ heap' = h /\ held' = held \cup {c}
          \/ heap' = StageFree(h, c) /\ UNCHANGED held
  /\ UNCHANGED pass

RoomFor(l) == Cardinality(FreeCells(heap)) >= Len(CellsOf(heap, l))

PipelineDuplicate(l, m) ==
  /\ Resting /\ l \in Alive /\ m \notin Alive /\ RoomFor(l)
  /\ heap' = CopyOf(heap, l, m)
  /\ UNCHANGED <<held, pass>>

CatPipelines(l, m) ==
  /\ Resting /\ {l, m} \subseteq Alive /\ l # m
  /\ \/ RoomFor(m) /\ heap' = PipelinesCat(heap, l, m).h
     \/ heap' = PipelineCatSteal(heap, l, m)
  /\ UNCHANGED <<held, pass>>

----------------------------------------------------------------------------
(* PreOptimize, one stage of one rule at a time.  A pipeline whose stages  *)
(* do not fit was refused by its insertion and is not optimised.  Bound:   *)
(* it runs while there is no other pipeline and the caller holds nothing.  *)

PreOptimize(l) ==
  /\ Resting /\ Alive = {l} /\ held = {}
  /\ Consistent(StagesOf(heap, l))
  /\ pass' = [Idle EXCEPT !.lut = {l}, !.rule = 1]
  /\ UNCHANGED <<heap, held>>

Lut == CHOOSE l \in pass.lut : TRUE
Here == PointsTo(heap, Lut, pass.at)
Following == IF Here = Nil THEN Nil ELSE heap.next[Here]

Begun(rule, opt) == [lut |-> pass.lut, rule |-> rule, at |-> Nil, opt |-> opt]

\* A rule that did something ends the round and begins another; the round in
\* which none did is the last.
\* Mistakes: a rule that did something does not begin another round; or the
\* round it begins is not told apart from it.
RuleReturnsOnce(opt) ==
  pass' = IF pass.rule < LastRule THEN Begun(pass.rule + 1, FALSE) ELSE Idle
RuleReturnsAgain(opt) ==
  pass' = IF opt THEN Begun(1, pass.opt)
          ELSE IF pass.rule < LastRule THEN Begun(pass.rule + 1, pass.opt) ELSE Idle
RuleReturns(opt) ==
  pass' = IF opt THEN Begun(1, FALSE)
          ELSE IF pass.rule < LastRule THEN Begun(pass.rule + 1, pass.opt) ELSE Idle

AtEnd == (IF pass.rule = 1 THEN Here ELSE Following) = Nil
RuleEnds ==
  /\ ~Resting /\ AtEnd
  /\ RuleReturns(pass.opt)
  /\ UNCHANGED <<heap, held>>

Matches ==
  CASE pass.rule = 1        -> heap.stage[Here].implements = "Identity"
    [] pass.rule = LastRule -> /\ heap.stage[Here].implements = "Matrix"
                               /\ heap.stage[Following].implements = "Matrix"
    [] OTHER -> <<heap.stage[Here].implements, heap.stage[Following].implements>> = Pairs[pass.rule - 1]

StepOver ==
  /\ ~Resting /\ ~AtEnd /\ ~Matches
  /\ pass' = [pass EXCEPT !.at = Here]
  /\ UNCHANGED <<heap, held>>

Remove1Op ==
  /\ pass.rule = 1 /\ ~AtEnd /\ Matches
  /\ heap' = RemoveElement(heap, Lut, pass.at)
  /\ pass' = [pass EXCEPT !.opt = TRUE]
  /\ UNCHANGED held

Remove2Op ==
  /\ pass.rule \in 2 .. LastRule - 1 /\ ~AtEnd /\ Matches
  /\ heap' = RemoveTwo(heap, Lut, pass.at)
  /\ pass' = [pass EXCEPT !.opt = TRUE]
  /\ UNCHANGED held

BothMultipliable == Multipliable(heap.stage[Here]) /\ Multipliable(heap.stage[Following])
MultiplyMatrix ==
  /\ pass.rule = LastRule /\ ~AtEnd /\ Matches /\ BothMultipliable
  /\ heap' = MultiplyTwo(heap, Lut, pass.at)
  /\ pass' = [pass EXCEPT !.opt = TRUE]
  /\ UNCHANGED held

\* Two matrices that cannot be multiplied: what was done so far is not told.
MultiplyMatrixGivesUp ==
  /\ pass.rule = LastRule /\ ~AtEnd /\ Matches /\ ~BothMultipliable
  /\ RuleReturns(FALSE)
  /\ UNCHANGED <<heap, held>>

PreOptimizeStep ==
  RuleEnds \/ StepOver \/ Remove1Op \/ Remove2Op \/ MultiplyMatrix \/ MultiplyMatrixGivesUp

Next ==
  \/ \E k \in DOMAIN Kinds : AllocStage(Kinds[k])
  \/ \E c \in held : FreeHeld(c) \/ \E l \in Luts : PipelineInsertStage(l, c)
  \/ \E l \in Luts : PipelineFree(l) \/ PipelineUnlinkStage(l) \/ PreOptimize(l)
  \/ \E l \in Luts, w \in Widths : PipelineAllocate(l, w)
  \/ \E l, m \in Luts : PipelineDuplicate(l, m) \/ CatPipelines(l, m)
  \/ PreOptimizeStep

\* PreOptimize is a call that nothing interrupts.
Spec == Init /\ [][Next]_vars /\ WF_vars(PreOptimizeStep)

----------------------------------------------------------------------------
(* What must hold.                                                         *)

TypeOK ==
  /\ DOMAIN heap.stage = Cells /\ heap.next \in [Cells -> Cells \cup {Nil}]
  /\ held \subseteq Cells \ FreeCells(heap) /\ Cardinality(held) <= MaxHeld
  /\ \A l \in Luts : heap.lut[l].head \in Cells \cup {Nil}
  /\ pass.rule \in 0 .. LastRule /\ pass.lut \subseteq Alive

\* No stage is in two places: not twice in a pipeline, in two pipelines, or in
\* one and in the caller's hands; a chain ends, holds no freed stage, and a
\* stage in hand drags no others behind it.  Freeing a pipeline frees its
\* stages (cmslut.go:925), so a shared one would be used after its end.
EveryStageHasOneOwner ==
  LET places == [l \in Luts |-> CellsOf(heap, l)]
  IN /\ TypeOK
     /\ \A l \in Luts :
          /\ IsInjective(places[l])
          /\ places[l] # <<>> => heap.next[Last(places[l])] = Nil
          /\ ToSet(places[l]) \cap (held \cup FreeCells(heap)) = {}
     /\ \A l, m \in Luts : l # m => ToSet(places[l]) \cap ToSet(places[m]) = {}
     /\ \A c \in held : heap.next[c] = Nil

\* The channels of a pipeline are those of its ends after each operation, and
\* while PreOptimize, which never sets them, takes stages away: LUTeval16 cuts
\* its frames by them (cmslut.go:844).
ChannelsAreTheEnds ==
  \A l \in Luts : LET s == StagesOf(heap, l)
                  IN s # <<>> => heap.lut[l].in = Head(s).in /\ heap.lut[l].out = Last(s).out

\* When PreOptimize returns there is no identity and no pair of inverse
\* conversions left, unless the matrices it had multiplied were not told of
\* because two others could not be (cmsopt.go:171).
Irreducible(s) ==
  /\ \A k \in DOMAIN s : s[k].implements # "Identity"
  /\ \A k \in 1 .. Len(s) - 1 : <<s[k].implements, s[k + 1].implements>> \notin ToSet(Pairs)
NothingLeftToRemove ==
  [][~Resting /\ pass'.rule = 0 =>
       \/ pass.opt /\ MultiplyMatrixGivesUp
       \/ Irreducible(StagesOf(heap', Lut))]_vars

\* And it does return: each round that starts another has shortened the chain.
PreOptimizeReturns == []<>Resting

----------------------------------------------------------------------------
(* The pipelines as sequences of stages.                                   *)

AsList(l) ==
  LET p == heap.lut[l]
  IN IF p.nil THEN NoPipeline
     ELSE [in |-> p.in, out |-> p.out, elements |-> StagesOf(heap, l), saveAs8 |-> FALSE, nil |-> FALSE]
InHand(c) == IF c \in held THEN heap.stage[c] ELSE NoStage
Lists == INSTANCE PipelineLists
           WITH Slots <- Cells, lists <- [l \in Luts |-> AsList(l)], hand <- [c \in Cells |-> InHand(c)]

\* Every operation on the linked stages is the operation on the sequences, and
\* what PreOptimize does to them leaves the map they compute (cmslut.go:997,
\* cmsopt.go:200).
ImplementsLists == (held = {} /\ Alive = {} => Lists!Init) /\ [][Lists!Next]_(Lists!vars)
=============================================================================
