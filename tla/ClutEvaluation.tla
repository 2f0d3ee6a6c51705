--------------------------- MODULE ClutEvaluation ---------------------------
(***************************************************************************)
(* Goroutines that evaluate colour look-up tables of any number of inputs. *)
(* Each has a manager of its own with a bundle of scratch memory.  From    *)
(* four inputs on an evaluator keeps the answers of its two planes in the  *)
(* scratch of the manager it was given, Tmp1 and Tmp2; from five on it     *)
(* calls the evaluator of one input less, twice, with a child frame: a     *)
(* bundle taken from a pool all goroutines share, given back by a defer.   *)
(*                                                                         *)
(* Eval5Inputs .. Eval15Inputs differ in the number only.                  *)
(***************************************************************************)
EXTENDS Interpolation

CONSTANTS Goroutines,
          Bundles,      \* the bundles of scratch there may be: the bound on calls at a time
          NoBundle,     \* no bundle
          Cluts,        \* the tables: [name -> [nodes, out, trilinear, table]]
          Work          \* what the goroutines evaluate: [goroutine -> Seq([clut, input])]

VARIABLES todo,         \* what is left to evaluate
          calls,        \* the calls of each goroutine, the innermost last
          unwinding,    \* the goroutines in a panic
          answer,       \* the last job of each goroutine and its answer
          scratch,      \* Tmp1 and Tmp2 of each bundle
          pool,         \* the bundles given back
          made          \* the bundles allocated so far
vars == <<todo, calls, unwinding, answer, scratch, pool, made>>

NoJob == [clut |-> "none", input |-> <<>>, out |-> <<>>]
OneEach(own) == \A g, h \in Goroutines : g # h => own[g] # own[h]
Own == CHOOSE own \in [Goroutines -> Bundles] : OneEach(own)
ASSUME BundlesAssumption ==
  NoBundle \notin Bundles /\ \E own \in [Goroutines -> Bundles] : OneEach(own)
ASSUME WorkAssumption ==
  /\ \A c \in DOMAIN Cluts : Cluts[c].nodes \in Seq(Nat)
  /\ \A work \in Work : work \in [Goroutines -> Seq([clut : DOMAIN Cluts, input : Seq(Int)])]

\* The parameters are computed when a table is allocated.
Params == [c \in DOMAIN Cluts |->
             ComputeInterpParams(Cluts[c].nodes, Cluts[c].out, Cluts[c].trilinear)]

\* A call of the evaluator of n inputs.  The answer goes to `to': the caller of
\* the evaluation, or one of the two halves of a bundle.
Call(n, job, domain, base, input, mm, to) ==
  [n |-> n, clut |-> job.clut, domain |-> domain, base |-> base, input |-> input,
   mm |-> mm, inner |-> NoBundle, step |-> 0, to |-> to]
Running(g) == calls[g] # <<>> /\ g \notin unwinding
Top1(g)    == Last(calls[g])
ParamsOf(call) == [Params[call.clut] EXCEPT !.domain = call.domain]
TableOf(call)  == Cluts[call.clut].table

Init == /\ todo \in Work
        /\ calls = [g \in Goroutines |-> <<>>] /\ unwinding = {}
        /\ answer = [g \in Goroutines |-> NoJob]
        /\ scratch = [b \in Bundles |-> <<<<>>, <<>>>>]
        /\ pool = {} /\ made = {Own[g] : g \in Goroutines}

Start(g) ==
  /\ calls[g] = <<>> /\ todo[g] # <<>>
  /\ LET job == Head(todo[g])
         p   == Params[job.clut]
     IN calls' = [calls EXCEPT ![g] = <<Call(Len(p.domain), job, p.domain, 0, job.input, Own[g], <<>>)>>]
  /\ answer' = [answer EXCEPT ![g] = NoJob]
  /\ UNCHANGED <<todo, unwinding, scratch, pool, made>>

\* The last call is over, with this answer.
Over(g, out) ==
  /\ todo' = [todo EXCEPT ![g] = Tail(@)]
  /\ answer' = [answer EXCEPT ![g] = Head(todo[g]) @@ [out |-> out]]
Return(g, to, out) ==
  IF to = <<>> THEN Over(g, out) /\ UNCHANGED scratch
  ELSE scratch' = [scratch EXCEPT ![to[1]][to[2]] = out] /\ UNCHANGED <<todo, answer>>
Panic(g) == unwinding' = unwinding \cup {g} /\ UNCHANGED <<todo, calls, answer, scratch, pool, made>>

\* Up to three inputs: no scratch is used.
EvalFew(g) ==
  /\ Running(g) /\ Top1(g).n <= 3
  /\ LET call == Top1(g)
         out  == Lerp16(ParamsOf(call), TableOf(call), call.input)
     IN IF out = <<>> THEN Panic(g)
        ELSE /\ Return(g, call.to, out)
             /\ calls' = [calls EXCEPT ![g] = Front(@)]
             /\ UNCHANGED <<unwinding, pool, made>>

\* The axis of the first input, and where its two planes start.
KAxis(call) == Axis(call.input[1], call.domain[1], ParamsOf(call).opta[call.n])
PlaneAt(call, k) == call.base + KAxis(call).near + (IF k = 2 THEN KAxis(call).step ELSE 0)
NextStep(g) == [calls EXCEPT ![g][Len(calls[g])].step = @ + 1]

\* Four inputs: the planes of the three others.
Eval4Plane(g) ==
  /\ Running(g) /\ Top1(g).n = 4 /\ Top1(g).step < 2
  /\ LET call == Top1(g)
         axes == Tail(Axes(4, ParamsOf(call), call.input))
         k    == call.step + 1
         out  == Cluts[call.clut].out
     IN IF ~InTable(TableOf(call), PlaneAt(call, 1), axes, out)
           \/ ~InTable(TableOf(call), PlaneAt(call, 2), axes, out)
        THEN Panic(g)
        ELSE /\ scratch' = [scratch EXCEPT ![call.mm][k] = Plane(TableOf(call), PlaneAt(call, k), axes, out)]
             /\ calls' = NextStep(g)
             /\ UNCHANGED <<todo, unwinding, answer, pool, made>>

\* NewFrame: a bundle of the pool, or a new one (the pool may give either).
NewBundle == CHOOSE b \in Bundles : b \notin made
NewFrame(b) ==
  \/ b \in pool /\ pool' = pool \ {b} /\ UNCHANGED made
  \/ made # Bundles /\ b = NewBundle /\ made' = made \cup {b} /\ UNCHANGED pool
\* Mistake: the call of a plane gets the manager of its caller.
PlaneCallOfParent(call, inner, k) ==
  Call(call.n - 1, call, NextDomain(call.n, call.domain), PlaneAt(call, k), Tail(call.input),
       call.mm, <<call.mm, k>>)
PlaneCall(call, inner, k) ==
  Call(call.n - 1, call, NextDomain(call.n, call.domain), PlaneAt(call, k), Tail(call.input),
       inner, <<call.mm, k>>)
InRange(call, k) == PlaneAt(call, k) >= 0 /\ PlaneAt(call, k) < Len(TableOf(call))

\* More inputs: the child frame, and the call of the first plane.
EvalMoreFirst(g) ==
  /\ Running(g) /\ Top1(g).n > 4 /\ Top1(g).step = 0
  /\ LET call == Top1(g)
     IN IF ~InRange(call, 1) \/ ~InRange(call, 2) THEN Panic(g)
        ELSE \E b \in Bundles :
               /\ NewFrame(b)
               /\ calls' = [calls EXCEPT ![g] = Append([@ EXCEPT ![Len(@)] = [call EXCEPT !.inner = b, !.step = 1]],
                                                       PlaneCall(call, b, 1))]
               /\ UNCHANGED <<todo, unwinding, answer, scratch>>
EvalMoreSecond(g) ==
  /\ Running(g) /\ Top1(g).n > 4 /\ Top1(g).step = 1
  /\ calls' = [NextStep(g) EXCEPT ![g] = Append(@, PlaneCall(Top1(g), Top1(g).inner, 2))]
  /\ UNCHANGED <<todo, unwinding, answer, scratch, pool, made>>

\* The planes are blended; the deferred Close gives the child frame back.
\* Mistake: the frame is not given back.
CloseNever(call) == UNCHANGED pool
Close(call) == pool' = IF call.inner = NoBundle THEN pool ELSE pool \cup {call.inner}
Blend(g) ==
  /\ Running(g) /\ Top1(g).n >= 4 /\ Top1(g).step = 2
  /\ LET call == Top1(g)
         tmp  == scratch[call.mm]
     IN /\ Return(g, call.to, [c \in DOMAIN tmp[1] |-> LinearInterp(KAxis(call).rest, tmp[1][c], tmp[2][c])])
        /\ Close(call)
  /\ calls' = [calls EXCEPT ![g] = Front(@)]
  /\ UNCHANGED <<unwinding, made>>

\* A panic leaves the calls from the innermost out; their defers run.  It is
\* recovered around the evaluation.
Unwind(g) ==
  /\ g \in unwinding /\ calls[g] # <<>>
  /\ Close(Top1(g))
  /\ calls' = [calls EXCEPT ![g] = Front(@)]
  /\ IF Len(calls[g]) = 1 THEN Over(g, <<>>) /\ unwinding' = unwinding \ {g}
     ELSE UNCHANGED <<todo, answer, unwinding>>
  /\ UNCHANGED <<scratch, made>>

Step(g) == Start(g) \/ EvalFew(g) \/ Eval4Plane(g) \/ EvalMoreFirst(g) \/ EvalMoreSecond(g)
           \/ Blend(g) \/ Unwind(g)
Next == \E g \in Goroutines : Step(g)
Spec == Init /\ [][Next]_vars

----------------------------------------------------------------------------
OwnBundles == {Own[g] : g \in Goroutines}
\* A bundle is in the pool, a goroutine's own, or the child frame of one call, which
\* is the manager of the call it makes; when nobody evaluates, none is lost.
FramesArePrivate ==
  /\ \A g, h \in Goroutines : \A k \in DOMAIN calls[g], l \in DOMAIN calls[h] :
       calls[g][k].inner = calls[h][l].inner => calls[g][k].inner = NoBundle \/ (g = h /\ k = l)
  /\ \A g \in Goroutines : \A k \in DOMAIN calls[g] :
       /\ calls[g][k].inner # NoBundle => calls[g][k].inner \in made \ (pool \cup OwnBundles)
       /\ calls[g][k].mm = IF k = 1 THEN Own[g] ELSE calls[g][k - 1].inner
  /\ pool \subseteq made \ OwnBundles
  /\ (\A g \in Goroutines : calls[g] = <<>>) => made = pool \cup OwnBundles
=============================================================================
