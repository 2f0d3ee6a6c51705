------------------------ MODULE ClutEvaluationProofs ------------------------
(***************************************************************************)
(* Scratch bundles for any goroutines, tables of any number of inputs and  *)
(* any work: each call has the bundle of its own that its caller took for  *)
(* it, panics included, and none is lost.                                  *)
(***************************************************************************)
EXTENDS ClutEvaluation, SequenceTheorems, TLAPS

\* A call has a child frame from its first plane on if it has more than four inputs.
CallOK(call) ==
  /\ {"n", "inner", "step", "mm", "to"} \subseteq DOMAIN call
  /\ call.n \in Int /\ call.step \in Nat
  /\ call.inner # NoBundle => call.n > 4 /\ call.step # 0
  /\ call.n > 4 /\ call.step # 0 => call.inner # NoBundle

\* The calls of a goroutine: the first has its own bundle, each other one the child
\* frame of its caller, and answers into its caller's scratch.
StackOK(stack, g) ==
  /\ \E S : stack \in Seq(S)
  /\ \A k \in DOMAIN stack :
       /\ CallOK(stack[k])
       /\ k = 1 => stack[k].mm = Own[g]
       /\ k # 1 => /\ stack[k].mm = stack[k - 1].inner /\ stack[k].to # <<>>
                   /\ stack[k - 1].n > 4 /\ stack[k - 1].step # 0

StacksOK ==
  /\ todo \in [Goroutines -> Seq([clut : DOMAIN Cluts, input : Seq(Int)])]
  /\ DOMAIN calls = Goroutines /\ calls = [g \in Goroutines |-> calls[g]]
  /\ \A g \in Goroutines : StackOK(calls[g], g) /\ (calls[g] # <<>> => todo[g] # <<>>)

Frame(g, k) == calls[g][k].inner
Private ==
  \A g, h \in Goroutines : \A k \in DOMAIN calls[g], l \in DOMAIN calls[h] :
    Frame(g, k) = Frame(h, l) => Frame(g, k) = NoBundle \/ (g = h /\ k = l)
Taken ==
  \A g \in Goroutines : \A k \in DOMAIN calls[g] :
    Frame(g, k) # NoBundle => Frame(g, k) \in made \ (pool \cup OwnBundles)
Counted ==
  /\ made \subseteq Bundles /\ OwnBundles \subseteq made /\ pool \subseteq made \ OwnBundles
  /\ \A b \in made \ (pool \cup OwnBundles) :
       \E g \in Goroutines : \E k \in DOMAIN calls[g] : Frame(g, k) = b

FramesInv == StacksOK /\ Private /\ Taken /\ Counted

----------------------------------------------------------------------------
\* Stacks: pushing, popping and changing the top one leave the others alone.

LEMMA Push ==
  ASSUME NEW S, NEW s \in Seq(S), NEW c
  PROVE  /\ \E T : Append(s, c) \in Seq(T)
         /\ DOMAIN Append(s, c) = 1 .. Len(s) + 1
         /\ \A k \in 1 .. Len(s) : Append(s, c)[k] = s[k]
         /\ Append(s, c)[Len(s) + 1] = c
<1>1. s \in Seq(S \cup {c}) /\ c \in S \cup {c}
  BY SeqMonotonic
<1>2. Append(s, c) \in Seq(S \cup {c}) /\ Len(Append(s, c)) = Len(s) + 1
  BY <1>1, AppendProperties
<1>3. DOMAIN Append(s, c) = 1 .. Len(s) + 1
  BY <1>2, LenProperties
<1>4. QED
  BY <1>1, <1>2, <1>3, AppendProperties

LEMMA Pop ==
  ASSUME NEW S, NEW s \in Seq(S), s # <<>>
  PROVE  /\ Front(s) \in Seq(S)
         /\ Len(s) \in Nat \ {0}
         /\ DOMAIN Front(s) = 1 .. Len(s) - 1
         /\ \A k \in 1 .. Len(s) - 1 : Front(s)[k] = s[k]
<1>1. Len(s) \in Nat \ {0}
  BY EmptySeq
<1>2. QED
  BY <1>1 DEF Front

LEMMA Below == \A n \in Nat : \A k \in 1 .. n - 1 : k \in 1 .. n /\ k # n
  OBVIOUS

LEMMA Change ==
  ASSUME NEW S, NEW s \in Seq(S), s # <<>>, NEW c
  PROVE  /\ [s EXCEPT ![Len(s)] = c] \in Seq(S \cup {c})
         /\ Len([s EXCEPT ![Len(s)] = c]) = Len(s)
         /\ DOMAIN [s EXCEPT ![Len(s)] = c] = 1 .. Len(s)
         /\ \A k \in 1 .. Len(s) - 1 : [s EXCEPT ![Len(s)] = c][k] = s[k]
         /\ [s EXCEPT ![Len(s)] = c][Len(s)] = c
<1>1. Len(s) \in Nat /\ Len(s) \in 1 .. Len(s) /\ DOMAIN s = 1 .. Len(s)
  BY EmptySeq, LenProperties
<1>2. s \in Seq(S \cup {c})
  BY SeqMonotonic
<1>3. /\ [s EXCEPT ![Len(s)] = c] \in Seq(S \cup {c})
      /\ Len([s EXCEPT ![Len(s)] = c]) = Len(s)
      /\ \A k \in 1 .. Len(s) : [s EXCEPT ![Len(s)] = c][k] = IF k = Len(s) THEN c ELSE s[k]
  BY <1>1, <1>2, ExceptSeq
<1>4. DOMAIN [s EXCEPT ![Len(s)] = c] = 1 .. Len(s)
  BY <1>1
<1>5. \A k \in 1 .. Len(s) - 1 : k \in 1 .. Len(s) /\ k # Len(s)
  BY <1>1, Below
<1>6. \A k \in 1 .. Len(s) - 1 : [s EXCEPT ![Len(s)] = c][k] = s[k]
  BY <1>3, <1>5
<1>7. [s EXCEPT ![Len(s)] = c][Len(s)] = c
  BY <1>1, <1>3
<1>8. QED
  BY <1>3, <1>4, <1>6, <1>7

\* The top of a stack that is not empty.
LEMMA TopOfStack ==
  ASSUME NEW g \in Goroutines, StackOK(calls[g], g), calls[g] # <<>>
  PROVE  /\ Len(calls[g]) \in Nat \ {0} /\ DOMAIN calls[g] = 1 .. Len(calls[g])
         /\ Len(calls[g]) \in DOMAIN calls[g]
         /\ Top1(g) = calls[g][Len(calls[g])] /\ CallOK(Top1(g))
<1>1. PICK S : calls[g] \in Seq(S)
  BY DEF StackOK
<1>2. Len(calls[g]) \in Nat \ {0} /\ DOMAIN calls[g] = 1 .. Len(calls[g])
  BY <1>1, EmptySeq, LenProperties
<1>3. QED
  BY <1>2 DEF StackOK, Top1, Last

\* Own is what it says.
LEMMA OwnType == /\ OwnBundles \subseteq Bundles
                 /\ \A g, h \in Goroutines : g # h => Own[g] # Own[h]
<1>1. Own \in [Goroutines -> Bundles] /\ OneEach(Own)
  BY BundlesAssumption DEF Own
<1>2. QED
  BY <1>1 DEF OwnBundles, OneEach

----------------------------------------------------------------------------
\* What a step of one goroutine has to show.

Others(g) == \A h \in Goroutines : h # g => calls'[h] = calls[h] /\ todo'[h] = todo[h]

LEMMA StacksStay ==
  ASSUME StacksOK, NEW g \in Goroutines, Others(g),
         NEW stack, calls' = [calls EXCEPT ![g] = stack], StackOK(stack, g),
         todo' \in [Goroutines -> Seq([clut : DOMAIN Cluts, input : Seq(Int)])],
         stack # <<>> => todo'[g] # <<>>
  PROVE  StacksOK'
<1>1. calls'[g] = stack /\ DOMAIN calls' = Goroutines /\ calls' = [h \in Goroutines |-> calls'[h]]
  BY DEF StacksOK
<1>2. ASSUME NEW h \in Goroutines
      PROVE  StackOK(calls[h], h)' /\ (calls'[h] # <<>> => todo'[h] # <<>>)
  <2>1. CASE h = g
    BY <1>1, <2>1 DEF StackOK, CallOK
  <2>2. CASE h # g
    <3>1. calls'[h] = calls[h] /\ todo'[h] = todo[h]
      BY <2>2 DEF Others
    <3>2. QED
      BY <3>1 DEF StacksOK, StackOK, CallOK
  <2>3. QED
    BY <2>1, <2>2
<1>3. QED
  BY <1>1, <1>2 DEF StacksOK

\* A step that takes and returns no frame.
LEMMA SameFrames ==
  ASSUME Private, Taken, Counted, UNCHANGED <<pool, made>>,
         \A h \in Goroutines : \A k : k \in DOMAIN calls'[h] /\ Frame(h, k)' # NoBundle =>
                                   k \in DOMAIN calls[h] /\ Frame(h, k)' = Frame(h, k),
         \A h \in Goroutines : \A k : k \in DOMAIN calls[h] /\ Frame(h, k) # NoBundle =>
                                   k \in DOMAIN calls'[h] /\ Frame(h, k)' = Frame(h, k)
  PROVE  Private' /\ Taken' /\ Counted'
<1>1. Private'
  BY DEF Private
<1>2. Taken'
  BY DEF Taken
<1>3. Counted'
  <2>1. ASSUME NEW b \in made \ (pool \cup OwnBundles)
        PROVE  \E g \in Goroutines : \E k \in DOMAIN calls'[g] : Frame(g, k)' = b
    <3>1. PICK g \in Goroutines : \E k \in DOMAIN calls[g] : Frame(g, k) = b
      BY DEF Counted
    <3>2. b # NoBundle
      BY BundlesAssumption DEF Counted
    <3>3. QED
      BY <3>1, <3>2
  <2>2. QED
    BY <2>1 DEF Counted
<1>4. QED
  BY <1>1, <1>2, <1>3

\* A call whose child frame is not changed, nor its own bundle, by n, step and the
\* rest that does not matter here.
LEMMA Later ==
  ASSUME NEW g \in Goroutines, StackOK(calls[g], g), calls[g] # <<>>,
         Top1(g).n = 4 \/ (Top1(g).n > 4 /\ Top1(g).step = 1),
         NEW stack, stack = [calls[g] EXCEPT ![Len(calls[g])].step = @ + 1]
  PROVE  /\ StackOK(stack, g) /\ stack # <<>>
         /\ DOMAIN stack = DOMAIN calls[g]
         /\ \A k \in DOMAIN stack : stack[k].inner = calls[g][k].inner
         /\ stack[Len(stack)].n = Top1(g).n /\ stack[Len(stack)].step # 0
         /\ Len(stack) = Len(calls[g])
<1> DEFINE top == [Top1(g) EXCEPT !.step = @ + 1]
<1>1. PICK S : calls[g] \in Seq(S)
  BY DEF StackOK
<1>2. /\ Len(calls[g]) \in Nat \ {0} /\ DOMAIN calls[g] = 1 .. Len(calls[g])
      /\ Top1(g) = calls[g][Len(calls[g])] /\ CallOK(Top1(g))
  BY TopOfStack
<1>3. stack = [calls[g] EXCEPT ![Len(calls[g])] = top]
  BY <1>2
<1>4. /\ CallOK(top) /\ top.inner = Top1(g).inner /\ top.mm = Top1(g).mm /\ top.to = Top1(g).to
      /\ top.n = Top1(g).n /\ top.step # 0
  BY <1>2 DEF CallOK
<1>5. /\ stack \in Seq(S \cup {top}) /\ Len(stack) = Len(calls[g])
      /\ DOMAIN stack = 1 .. Len(calls[g])
      /\ \A k \in 1 .. Len(calls[g]) - 1 : stack[k] = calls[g][k]
      /\ stack[Len(calls[g])] = top
  BY <1>1, <1>3, Change
<1>6. StackOK(stack, g)
  BY <1>2, <1>4, <1>5 DEF StackOK
<1>7. stack # <<>>
  BY <1>2, <1>5
<1>8. QED
  BY <1>2, <1>4, <1>5, <1>6, <1>7

\* The first call of a goroutine, and the call a caller makes with its child frame.
LEMMA Nested ==
  ASSUME NEW g \in Goroutines, NEW stack, StackOK(stack, g), NEW call, CallOK(call),
         call.inner = NoBundle,
         stack = <<>> => call.mm = Own[g],
         stack # <<>> => /\ call.mm = stack[Len(stack)].inner /\ call.to # <<>>
                         /\ stack[Len(stack)].n > 4 /\ stack[Len(stack)].step # 0
  PROVE  /\ StackOK(Append(stack, call), g)
         /\ DOMAIN stack = 1 .. Len(stack) /\ Len(stack) \in Nat
         /\ DOMAIN Append(stack, call) = 1 .. Len(stack) + 1
         /\ \A k \in 1 .. Len(stack) : Append(stack, call)[k] = stack[k]
         /\ Append(stack, call)[Len(stack) + 1] = call
<1>1. PICK S : stack \in Seq(S)
  BY DEF StackOK
<1>2. Len(stack) \in Nat /\ DOMAIN stack = 1 .. Len(stack) /\ (stack = <<>> <=> Len(stack) = 0)
  BY <1>1, EmptySeq, LenProperties
<1>3. /\ \E T : Append(stack, call) \in Seq(T)
      /\ DOMAIN Append(stack, call) = 1 .. Len(stack) + 1
      /\ \A k \in 1 .. Len(stack) : Append(stack, call)[k] = stack[k]
      /\ Append(stack, call)[Len(stack) + 1] = call
  BY <1>1, Push
<1>4. StackOK(Append(stack, call), g)
  BY <1>2, <1>3 DEF StackOK
<1>5. QED
  BY <1>2, <1>3, <1>4

\* The innermost call is over.
LEMMA Popped ==
  ASSUME NEW g \in Goroutines, NEW stack, StackOK(stack, g), stack # <<>>
  PROVE  /\ StackOK(Front(stack), g)
         /\ DOMAIN Front(stack) = 1 .. Len(stack) - 1
         /\ DOMAIN stack = 1 .. Len(stack) /\ Len(stack) \in Nat \ {0}
         /\ \A k \in 1 .. Len(stack) - 1 : Front(stack)[k] = stack[k]
         /\ Len(stack) = 1 => Front(stack) = <<>>
<1>1. PICK S : stack \in Seq(S)
  BY DEF StackOK
<1>2. /\ Front(stack) \in Seq(S) /\ Len(stack) \in Nat \ {0}
      /\ DOMAIN Front(stack) = 1 .. Len(stack) - 1
      /\ \A k \in 1 .. Len(stack) - 1 : Front(stack)[k] = stack[k]
  BY <1>1, Pop
<1>3. DOMAIN stack = 1 .. Len(stack)
  BY <1>1, LenProperties
<1>4. StackOK(Front(stack), g)
  BY <1>2, <1>3 DEF StackOK
<1>5. Len(stack) = 1 => Len(Front(stack)) = 0
  BY <1>2, LenProperties
<1>6. QED
  BY <1>2, <1>3, <1>4, <1>5, EmptySeq

----------------------------------------------------------------------------
\* The steps.

LEMMA ParamsType == \A c \in DOMAIN Cluts : Len(Params[c].domain) \in Nat
<1> SUFFICES ASSUME NEW c \in DOMAIN Cluts PROVE Len(Params[c].domain) \in Nat
  OBVIOUS
<1>1. Cluts[c].nodes \in Seq(Nat)
  BY WorkAssumption
<1> DEFINE n == Len(Cluts[c].nodes)
<1>2. n \in Nat /\ \A k \in 1 .. n : Cluts[c].nodes[k] \in Nat
  BY <1>1
<1>3. Params[c].domain = [k \in 1 .. n |-> Cluts[c].nodes[k] - 1]
  BY DEF Params, ComputeInterpParams
<1>4. [k \in 1 .. n |-> Cluts[c].nodes[k] - 1] \in [1 .. n -> Int]
  BY <1>2
<1>5. Params[c].domain \in Seq(Int)
  BY <1>2, <1>3, <1>4, SeqDef
<1>6. QED
  BY <1>5, LenProperties

LEMMA InitFrames == Init => FramesInv
<1> SUFFICES ASSUME Init PROVE FramesInv
  OBVIOUS
<1>1. \A g \in Goroutines : calls[g] = <<>>
  BY DEF Init
<1>2. \A g \in Goroutines : DOMAIN calls[g] = {}
  BY <1>1
<1>3. \A g \in Goroutines : StackOK(calls[g], g)
  BY <1>1, <1>2, EmptySeq DEF StackOK
<1>4. StacksOK
  BY <1>1, <1>3, WorkAssumption DEF StacksOK, Init
<1>5. Private /\ Taken
  BY <1>2 DEF Private, Taken
<1>6. Counted
  BY OwnType DEF Counted, Init, OwnBundles
<1>7. QED
  BY <1>4, <1>5, <1>6 DEF FramesInv

\* A step that leaves all calls alone.
LEMMA Idle == ASSUME FramesInv, UNCHANGED <<todo, calls, pool, made>> PROVE FramesInv'
<1>1. \A g \in Goroutines : StackOK(calls[g], g)' <=> StackOK(calls[g], g)
  BY DEF StackOK, CallOK
<1>2. StacksOK'
  BY <1>1 DEF FramesInv, StacksOK
<1>3. Private' /\ Taken' /\ Counted'
  BY SameFrames DEF FramesInv, Frame
<1>4. QED
  BY <1>2, <1>3 DEF FramesInv

LEMMA StartFrames == ASSUME FramesInv, NEW g \in Goroutines, Start(g) PROVE FramesInv'
<1> DEFINE job   == Head(todo[g])
           first == Call(Len(Params[job.clut].domain), job, Params[job.clut].domain, 0, job.input, Own[g], <<>>)
<1>1. calls[g] = <<>> /\ todo[g] # <<>> /\ todo' = todo /\ calls' = [calls EXCEPT ![g] = <<first>>]
  BY DEF Start
<1>2. job.clut \in DOMAIN Cluts
  <2>1. todo[g] \in Seq([clut : DOMAIN Cluts, input : Seq(Int)])
    BY DEF FramesInv, StacksOK
  <2>2. job \in [clut : DOMAIN Cluts, input : Seq(Int)]
    BY <1>1, <2>1, HeadTailProperties, ElementOfSeq
  <2>3. QED
    BY <2>2
<1>3. CallOK(first) /\ first.inner = NoBundle /\ first.mm = Own[g]
  BY <1>2, ParamsType DEF CallOK, Call
<1>4. StackOK(<<>>, g)
  BY <1>1 DEF FramesInv, StacksOK
<1>5. Append(<<>>, first) = <<first>>
  OBVIOUS
<1>6. /\ StackOK(<<first>>, g) /\ DOMAIN <<first>> = 1 .. 1 /\ <<first>>[1] = first
  <2> HIDE DEF first
  <2>1. StackOK(Append(<<>>, first), g)
    BY <1>3, <1>4, Nested
  <2>2. QED
    BY <1>5, <2>1
<1> HIDE DEF first
<1>7. StacksOK'
  <2>1. Others(g)
    BY <1>1 DEF FramesInv, StacksOK, Others
  <2>2. todo' \in [Goroutines -> Seq([clut : DOMAIN Cluts, input : Seq(Int)])] /\ todo'[g] # <<>>
    BY <1>1 DEF FramesInv, StacksOK
  <2>3. QED
    BY <1>1, <1>6, <2>1, <2>2, StacksStay DEF FramesInv
<1>8. Private' /\ Taken' /\ Counted'
  <2>1. DOMAIN calls = Goroutines
    BY DEF FramesInv, StacksOK
  <2>2. \A h \in Goroutines : calls'[h] = IF h = g THEN <<first>> ELSE calls[h]
    BY <1>1, <2>1
  <2>3. DOMAIN calls[g] = {}
    BY <1>1
  <2>4. \A k \in DOMAIN calls'[g] : Frame(g, k)' = NoBundle
    BY <1>3, <1>6, <2>2 DEF Frame
  <2>5. \A h \in Goroutines : h # g => calls'[h] = calls[h]
    BY <2>2
  <2>6. UNCHANGED <<pool, made>>
    BY DEF Start
  <2>7. \A h \in Goroutines : \A k : k \in DOMAIN calls'[h] /\ Frame(h, k)' # NoBundle =>
                                 k \in DOMAIN calls[h] /\ Frame(h, k)' = Frame(h, k)
    BY <2>4, <2>5 DEF Frame
  <2>8. \A h \in Goroutines : \A k : k \in DOMAIN calls[h] /\ Frame(h, k) # NoBundle =>
                                 k \in DOMAIN calls'[h] /\ Frame(h, k)' = Frame(h, k)
    BY <2>3, <2>5 DEF Frame
  <2>9. QED
    BY <2>6, <2>7, <2>8, SameFrames DEF FramesInv
<1>9. QED
  BY <1>7, <1>8 DEF FramesInv

\* A call ends: the frame it took is given back.
Ended(g) ==
  /\ calls[g] # <<>> /\ calls' = [calls EXCEPT ![g] = Front(@)]
  /\ todo' = todo \/ (todo' = [todo EXCEPT ![g] = Tail(@)] /\ Len(calls[g]) = 1)
  /\ made' = made /\ Close(Top1(g))

LEMMA EndedFrames == ASSUME FramesInv, NEW g \in Goroutines, Ended(g) PROVE FramesInv'
<1> DEFINE n == Len(calls[g])
<1>1. /\ StackOK(Front(calls[g]), g) /\ DOMAIN Front(calls[g]) = 1 .. n - 1
      /\ DOMAIN calls[g] = 1 .. n /\ n \in Nat \ {0}
      /\ \A k \in 1 .. n - 1 : Front(calls[g])[k] = calls[g][k]
      /\ n = 1 => Front(calls[g]) = <<>>
  BY Popped DEF FramesInv, StacksOK, Ended
<1>2. calls[g] # <<>> /\ Top1(g) = calls[g][n]
  BY DEF Ended, Top1, Last
<1>3. \A h \in Goroutines : calls'[h] = IF h = g THEN Front(calls[g]) ELSE calls[h]
  BY DEF Ended, FramesInv, StacksOK
<1>4. \A h \in Goroutines : h # g => calls'[h] = calls[h]
  BY <1>3
<1>5. DOMAIN calls'[g] = 1 .. n - 1 /\ \A k \in 1 .. n - 1 : Frame(g, k)' = Frame(g, k)
  BY <1>1, <1>3 DEF Frame
<1>6. \A h \in Goroutines : \A k \in DOMAIN calls'[h] :
        k \in DOMAIN calls[h] /\ Frame(h, k)' = Frame(h, k) /\ ~(h = g /\ k = n)
  BY <1>1, <1>4, <1>5 DEF Frame
<1>7. \A h \in Goroutines : \A k \in DOMAIN calls[h] :
        (h = g /\ k = n) \/ (k \in DOMAIN calls'[h] /\ Frame(h, k)' = Frame(h, k))
  BY <1>1, <1>4, <1>5 DEF Frame
<1>8. StacksOK'
  <2>1. todo[g] \in Seq([clut : DOMAIN Cluts, input : Seq(Int)]) /\ todo[g] # <<>>
    BY <1>2 DEF FramesInv, StacksOK
  <2>2. Tail(todo[g]) \in Seq([clut : DOMAIN Cluts, input : Seq(Int)])
    BY <2>1
  <2>3. todo' \in [Goroutines -> Seq([clut : DOMAIN Cluts, input : Seq(Int)])]
    BY <2>2 DEF Ended, FramesInv, StacksOK
  <2>4. Front(calls[g]) # <<>> => todo'[g] # <<>>
    BY <1>1, <2>1 DEF Ended
  <2>5. Others(g)
    BY <1>3 DEF Ended, FramesInv, StacksOK, Others
  <2>6. QED
    BY <1>1, <2>3, <2>4, <2>5, StacksStay DEF FramesInv, Ended
<1>9. Private'
  BY <1>6 DEF FramesInv, Private
<1> DEFINE b == Frame(g, n)
<1>10. pool' = IF b = NoBundle THEN pool ELSE pool \cup {b}
  BY <1>2 DEF Ended, Close, Frame
<1>11. n \in DOMAIN calls[g]
  BY <1>1
<1>12. Taken'
  <2> SUFFICES ASSUME NEW h \in Goroutines, NEW k \in DOMAIN calls'[h], Frame(h, k)' # NoBundle
               PROVE  Frame(h, k)' \in made' \ (pool' \cup OwnBundles)
    BY DEF Taken
  <2>1. k \in DOMAIN calls[h] /\ Frame(h, k)' = Frame(h, k) /\ ~(h = g /\ k = n)
    BY <1>6
  <2>2. Frame(h, k) # b
    BY <1>11, <2>1 DEF FramesInv, Private
  <2>3. Frame(h, k) \in made \ (pool \cup OwnBundles)
    BY <2>1 DEF FramesInv, Taken
  <2>4. QED
    BY <1>10, <2>1, <2>2, <2>3 DEF Ended
<1>13. Counted'
  <2>1. b # NoBundle => b \in made \ OwnBundles
    BY <1>11 DEF FramesInv, Taken
  <2>2. ASSUME NEW c \in made \ (pool' \cup OwnBundles)
        PROVE  \E h \in Goroutines : \E k \in DOMAIN calls'[h] : Frame(h, k)' = c
    <3>1. c \in made \ (pool \cup OwnBundles)
      BY <1>10
    <3>2. PICK h \in Goroutines : \E k \in DOMAIN calls[h] : Frame(h, k) = c
      BY <3>1 DEF FramesInv, Counted
    <3>3. PICK k \in DOMAIN calls[h] : Frame(h, k) = c
      BY <3>2
    <3>4. c # b
      BY <1>10, BundlesAssumption DEF FramesInv, Counted
    <3>5. QED
      BY <1>7, <3>3, <3>4
  <2>3. QED
    BY <1>10, <2>1, <2>2 DEF FramesInv, Counted, Ended
<1>14. QED
  BY <1>8, <1>9, <1>12, <1>13 DEF FramesInv

LEMMA EvalFewFrames == ASSUME FramesInv, NEW g \in Goroutines, EvalFew(g) PROVE FramesInv'
<1>1. CASE Panic(g)
  BY <1>1, Idle DEF Panic
<1>2. CASE \E out : /\ Return(g, Top1(g).to, out)
                    /\ calls' = [calls EXCEPT ![g] = Front(@)] /\ UNCHANGED <<unwinding, pool, made>>
  <2>1. calls[g] # <<>> /\ StackOK(calls[g], g)
    BY DEF EvalFew, Running, FramesInv, StacksOK
  <2>2. CallOK(Top1(g)) /\ Top1(g) = calls[g][Len(calls[g])] /\ Len(calls[g]) \in DOMAIN calls[g]
    BY <2>1, TopOfStack
  <2>3. Top1(g).inner = NoBundle
    BY <2>2 DEF CallOK, EvalFew
  <2>4. Top1(g).to = <<>> => Len(calls[g]) = 1
    BY <2>1, <2>2 DEF StackOK
  <2>5. Ended(g)
    BY <1>2, <2>1, <2>3, <2>4 DEF Ended, Return, Over, Close
  <2>6. QED
    BY <2>5, EndedFrames
<1>3. QED
  BY <1>1, <1>2 DEF EvalFew

LEMMA BlendFrames == ASSUME FramesInv, NEW g \in Goroutines, Blend(g) PROVE FramesInv'
<1>1. calls[g] # <<>> /\ StackOK(calls[g], g)
  BY DEF Blend, Running, FramesInv, StacksOK
<1>2. Top1(g).to = <<>> => Len(calls[g]) = 1
  BY <1>1, TopOfStack DEF StackOK
<1>3. \E out : Return(g, Top1(g).to, out) /\ Close(Top1(g))
  BY DEF Blend
<1>4. Ended(g)
  BY <1>1, <1>2, <1>3 DEF Ended, Return, Over, Blend
<1>5. QED
  BY <1>4, EndedFrames

LEMMA UnwindFrames == ASSUME FramesInv, NEW g \in Goroutines, Unwind(g) PROVE FramesInv'
<1>1. Ended(g)
  BY DEF Ended, Over, Unwind
<1>2. QED
  BY <1>1, EndedFrames

\* A plane is evaluated: the step of the call goes on, and a call may follow.
LEMMA LaterFrames ==
  ASSUME FramesInv, NEW g \in Goroutines, calls[g] # <<>>,
         NEW stack, StackOK(stack, g), stack # <<>>,
         DOMAIN calls[g] \subseteq DOMAIN stack,
         \A k \in DOMAIN calls[g] : stack[k].inner = calls[g][k].inner,
         \A k \in DOMAIN stack \ DOMAIN calls[g] : stack[k].inner = NoBundle,
         calls' = [calls EXCEPT ![g] = stack], UNCHANGED <<todo, pool, made>>
  PROVE  FramesInv'
<1>1. \A h \in Goroutines : calls'[h] = IF h = g THEN stack ELSE calls[h]
  BY DEF FramesInv, StacksOK
<1>2. StacksOK'
  <2>1. todo[g] # <<>> /\ Others(g)
    BY <1>1 DEF FramesInv, StacksOK, Others
  <2>2. todo' \in [Goroutines -> Seq([clut : DOMAIN Cluts, input : Seq(Int)])]
    BY DEF FramesInv, StacksOK
  <2>3. QED
    BY <2>1, <2>2, StacksStay DEF FramesInv
<1>3. Private' /\ Taken' /\ Counted'
  <2>1. \A h \in Goroutines : \A k : k \in DOMAIN calls'[h] /\ Frame(h, k)' # NoBundle =>
                                 k \in DOMAIN calls[h] /\ Frame(h, k)' = Frame(h, k)
    BY <1>1 DEF Frame
  <2>2. \A h \in Goroutines : \A k : k \in DOMAIN calls[h] /\ Frame(h, k) # NoBundle =>
                                 k \in DOMAIN calls'[h] /\ Frame(h, k)' = Frame(h, k)
    BY <1>1 DEF Frame
  <2>3. QED
    BY <2>1, <2>2, SameFrames DEF FramesInv
<1>4. QED
  BY <1>2, <1>3 DEF FramesInv

LEMMA Eval4PlaneFrames == ASSUME FramesInv, NEW g \in Goroutines, Eval4Plane(g) PROVE FramesInv'
<1>1. CASE Panic(g)
  BY <1>1, Idle DEF Panic
<1>2. CASE calls' = NextStep(g) /\ UNCHANGED <<todo, unwinding, answer, pool, made>>
  <2> DEFINE stack == [calls[g] EXCEPT ![Len(calls[g])].step = @ + 1]
  <2>1. calls[g] # <<>> /\ StackOK(calls[g], g) /\ Top1(g).n = 4
    BY DEF Eval4Plane, Running, FramesInv, StacksOK
  <2>2. calls' = [calls EXCEPT ![g] = stack]
    BY <1>2 DEF NextStep, FramesInv, StacksOK
  <2>3. /\ StackOK(stack, g) /\ stack # <<>> /\ DOMAIN stack = DOMAIN calls[g]
        /\ \A k \in DOMAIN stack : stack[k].inner = calls[g][k].inner
    BY <2>1, Later
  <2> HIDE DEF stack
  <2>4. QED
    BY <1>2, <2>1, <2>2, <2>3, LaterFrames
<1>3. QED
  BY <1>1, <1>2 DEF Eval4Plane

LEMMA SecondFrames == ASSUME FramesInv, NEW g \in Goroutines, EvalMoreSecond(g) PROVE FramesInv'
<1> DEFINE stack == [calls[g] EXCEPT ![Len(calls[g])].step = @ + 1]
           plane == PlaneCall(Top1(g), Top1(g).inner, 2)
<1>1. calls[g] # <<>> /\ StackOK(calls[g], g) /\ Top1(g).n > 4 /\ Top1(g).step = 1
  BY DEF EvalMoreSecond, Running, FramesInv, StacksOK
<1>2. calls' = [calls EXCEPT ![g] = Append(stack, plane)]
  BY DEF EvalMoreSecond, NextStep, FramesInv, StacksOK
<1>3. /\ StackOK(stack, g) /\ stack # <<>> /\ DOMAIN stack = DOMAIN calls[g]
      /\ \A k \in DOMAIN stack : stack[k].inner = calls[g][k].inner
      /\ stack[Len(stack)].n = Top1(g).n /\ stack[Len(stack)].step # 0
      /\ Len(stack) = Len(calls[g])
  BY <1>1, Later
<1>4. /\ CallOK(Top1(g)) /\ Top1(g) = calls[g][Len(calls[g])] /\ Len(calls[g]) \in DOMAIN calls[g]
  BY <1>1, TopOfStack
<1>5. /\ CallOK(plane) /\ plane.inner = NoBundle /\ plane.to # <<>>
      /\ plane.mm = Top1(g).inner
  BY <1>4 DEF CallOK, PlaneCall, Call
<1>6. UNCHANGED <<todo, pool, made>>
  BY DEF EvalMoreSecond
<1> HIDE DEF stack, plane
<1>7. plane.mm = stack[Len(stack)].inner
  BY <1>3, <1>4, <1>5
<1>8. /\ StackOK(Append(stack, plane), g)
      /\ DOMAIN stack = 1 .. Len(stack) /\ Len(stack) \in Nat
      /\ DOMAIN Append(stack, plane) = 1 .. Len(stack) + 1
      /\ \A k \in 1 .. Len(stack) : Append(stack, plane)[k] = stack[k]
      /\ Append(stack, plane)[Len(stack) + 1] = plane
  BY <1>1, <1>3, <1>5, <1>7, Nested
<1> DEFINE new == Append(stack, plane)
<1>9. /\ DOMAIN calls[g] \subseteq DOMAIN new /\ new # <<>>
      /\ \A k \in DOMAIN calls[g] : new[k].inner = calls[g][k].inner
      /\ \A k \in DOMAIN new \ DOMAIN calls[g] : new[k].inner = NoBundle
  BY <1>3, <1>5, <1>8
<1>10. StackOK(new, g) /\ calls' = [calls EXCEPT ![g] = new]
  BY <1>2, <1>8
<1> HIDE DEF new
<1>11. QED
  BY <1>1, <1>6, <1>9, <1>10, LaterFrames

\* A frame from the pool or a new one is nobody's.
LEMMA NewFrameIsNew ==
  ASSUME FramesInv, NEW b \in Bundles, NewFrame(b)
  PROVE  /\ b # NoBundle /\ b \notin OwnBundles
         /\ made' = made \cup {b} /\ pool' = pool \ {b}
         /\ \A g \in Goroutines : \A k \in DOMAIN calls[g] : Frame(g, k) # b
<1>1. b # NoBundle
  BY BundlesAssumption
<1>2. CASE b \in pool /\ pool' = pool \ {b} /\ UNCHANGED made
  BY <1>1, <1>2 DEF FramesInv, Counted, Taken
<1>3. CASE made # Bundles /\ b = NewBundle /\ made' = made \cup {b} /\ UNCHANGED pool
  <2>1. \E c \in Bundles : c \notin made
    BY <1>3 DEF FramesInv, Counted
  <2>2. b \notin made
    BY <1>3, <2>1 DEF NewBundle
  <2>3. QED
    BY <1>1, <1>3, <2>2 DEF FramesInv, Counted, Taken
<1>4. QED
  BY <1>2, <1>3 DEF NewFrame

LEMMA FirstFrames == ASSUME FramesInv, NEW g \in Goroutines, EvalMoreFirst(g) PROVE FramesInv'
<1>1. CASE Panic(g)
  BY <1>1, Idle DEF Panic
<1>2. ASSUME NEW b \in Bundles, NewFrame(b), UNCHANGED <<todo, unwinding, answer, scratch>>,
             calls' = [calls EXCEPT ![g] = Append([@ EXCEPT ![Len(@)] = [Top1(g) EXCEPT !.inner = b, !.step = 1]],
                                                  PlaneCall(Top1(g), b, 1))]
      PROVE  FramesInv'
  <2>0. PICK n : n = Len(calls[g])
    OBVIOUS
  <2> DEFINE top   == [Top1(g) EXCEPT !.inner = b, !.step = 1]
             stack == [calls[g] EXCEPT ![n] = top]
             plane == PlaneCall(Top1(g), b, 1)
             new   == Append(stack, plane)
  <2>1. calls[g] # <<>> /\ StackOK(calls[g], g) /\ Top1(g).n > 4 /\ Top1(g).step = 0
    BY DEF EvalMoreFirst, Running, FramesInv, StacksOK
  <2>2. /\ n \in Nat \ {0} /\ DOMAIN calls[g] = 1 .. n
        /\ CallOK(Top1(g)) /\ Top1(g) = calls[g][n] /\ Frame(g, n) = NoBundle
    BY <2>0, <2>1, TopOfStack DEF CallOK, Frame
  <2>3. /\ b # NoBundle /\ b \notin OwnBundles /\ made' = made \cup {b} /\ pool' = pool \ {b}
        /\ \A h \in Goroutines : \A k \in DOMAIN calls[h] : Frame(h, k) # b
    BY <1>2, NewFrameIsNew
  <2>4. /\ CallOK(top) /\ top.inner = b /\ top.mm = Top1(g).mm /\ top.to = Top1(g).to
        /\ top.n = Top1(g).n /\ top.step = 1
    BY <2>1, <2>2, <2>3 DEF CallOK
  <2>5. CallOK(plane) /\ plane.inner = NoBundle /\ plane.to # <<>> /\ plane.mm = b
    BY <2>2 DEF CallOK, PlaneCall, Call
  <2>6. calls' = [calls EXCEPT ![g] = new]
    BY <1>2, <2>0 DEF FramesInv, StacksOK
  <2> HIDE DEF plane, top
  <2>7. /\ StackOK(stack, g) /\ DOMAIN stack = 1 .. n /\ Len(stack) = n
        /\ \A k \in 1 .. n - 1 : stack[k] = calls[g][k]
        /\ stack[n] = top
    <3>1. PICK S : calls[g] \in Seq(S)
      BY <2>1 DEF StackOK
    <3>2. /\ stack \in Seq(S \cup {top}) /\ Len(stack) = n /\ DOMAIN stack = 1 .. n
          /\ \A k \in 1 .. n - 1 : stack[k] = calls[g][k]
          /\ stack[n] = top
      BY <2>0, <2>1, <3>1, Change
    <3> HIDE DEF stack
    <3>3. StackOK(stack, g)
      BY <2>1, <2>2, <2>4, <3>2 DEF StackOK
    <3>4. QED
      BY <3>2, <3>3
  <2> HIDE DEF stack
  <2>8. /\ StackOK(new, g) /\ DOMAIN new = 1 .. n + 1
        /\ \A k \in 1 .. n : new[k] = stack[k]
        /\ new[n + 1] = plane
    <3>1. stack # <<>> /\ stack[Len(stack)].n > 4 /\ stack[Len(stack)].step # 0
      BY <2>1, <2>2, <2>4, <2>7
    <3>2. plane.mm = stack[Len(stack)].inner
      BY <2>4, <2>5, <2>7
    <3>3. QED
      BY <2>5, <2>7, <3>1, <3>2, Nested
  <2> HIDE DEF new
  <2>9. \A h \in Goroutines : calls'[h] = IF h = g THEN new ELSE calls[h]
    BY <2>6 DEF FramesInv, StacksOK
  <2>10. new # <<>>
    BY <2>2, <2>8
  <2>11. StacksOK'
    <3>1. Others(g) /\ todo'[g] # <<>>
      BY <1>2, <2>1, <2>9 DEF FramesInv, StacksOK, Others
    <3>2. todo' \in [Goroutines -> Seq([clut : DOMAIN Cluts, input : Seq(Int)])]
      BY <1>2 DEF FramesInv, StacksOK
    <3>3. QED
      BY <2>6, <2>8, <3>1, <3>2, StacksStay DEF FramesInv
  <2>12. \A h \in Goroutines : \A k \in DOMAIN calls'[h] :
           IF h = g /\ k = n THEN Frame(h, k)' = b
           ELSE Frame(h, k)' # NoBundle => k \in DOMAIN calls[h] /\ Frame(h, k)' = Frame(h, k)
    BY <2>2, <2>4, <2>5, <2>7, <2>8, <2>9 DEF Frame
  <2>13. n \in DOMAIN calls'[g] /\ Frame(g, n)' = b
    BY <2>2, <2>4, <2>7, <2>8, <2>9 DEF Frame
  <2>14. \A h \in Goroutines : \A k \in DOMAIN calls[h] :
           Frame(h, k) # NoBundle => k \in DOMAIN calls'[h] /\ Frame(h, k)' = Frame(h, k)
    BY <2>2, <2>7, <2>8, <2>9 DEF Frame
  <2>15. Private'
    BY <2>3, <2>12 DEF FramesInv, Private
  <2>16. Taken'
    BY <2>3, <2>12 DEF FramesInv, Taken
  <2>17. Counted'
    <3>1. ASSUME NEW c \in made' \ (pool' \cup OwnBundles)
          PROVE  \E h \in Goroutines : \E k \in DOMAIN calls'[h] : Frame(h, k)' = c
      <4>1. CASE c = b
        BY <2>13, <4>1
      <4>2. CASE c # b
        <5>1. c \in made \ (pool \cup OwnBundles) /\ c # NoBundle
          BY <2>3, <4>2, BundlesAssumption DEF FramesInv, Counted
        <5>2. PICK h \in Goroutines : \E k \in DOMAIN calls[h] : Frame(h, k) = c
          BY <5>1 DEF FramesInv, Counted
        <5>3. QED
          BY <2>14, <5>1, <5>2
      <4>3. QED
        BY <4>1, <4>2
    <3>2. QED
      BY <2>3, <3>1 DEF FramesInv, Counted
  <2>18. QED
    BY <2>11, <2>15, <2>16, <2>17 DEF FramesInv
<1>3. QED
  BY <1>1, <1>2 DEF EvalMoreFirst

----------------------------------------------------------------------------

LEMMA NextFrames == FramesInv /\ [Next]_vars => FramesInv'
<1> SUFFICES ASSUME FramesInv, [Next]_vars PROVE FramesInv'
  OBVIOUS
<1>1. CASE UNCHANGED vars
  BY <1>1, Idle DEF vars
<1>2. ASSUME NEW g \in Goroutines, Step(g) PROVE FramesInv'
  BY <1>2, StartFrames, EvalFewFrames, Eval4PlaneFrames, FirstFrames, SecondFrames, BlendFrames,
     UnwindFrames DEF Step
<1>3. QED
  BY <1>1, <1>2 DEF Next

\* Every bundle is accounted for at every step, through calls and panics of any depth
\* (the child frames of Eval5Inputs and the evaluators of more inputs).
THEOREM FramesAreCounted == Spec => []FramesInv
  BY InitFrames, NextFrames, PTL DEF Spec

\* No bundle is the child frame of two calls or given back while a call has it, each
\* call works in its caller's child frame, and nobody at work means none lost: for any
\* goroutines, tables of any number of inputs, and panics on the way.
THEOREM FramesStayPrivate == Spec => []FramesArePrivate
<1>1. FramesInv => FramesArePrivate
  <2> SUFFICES ASSUME FramesInv PROVE FramesArePrivate
    OBVIOUS
  <2>1. (\A g \in Goroutines : calls[g] = <<>>) => made = pool \cup OwnBundles
    BY DEF FramesInv, Counted
  <2>2. QED
    BY <2>1 DEF FramesInv, FramesArePrivate, StacksOK, StackOK, Private, Taken, Counted, Frame
<1>2. QED
  BY <1>1, FramesAreCounted, PTL

\* Two goroutines never work in one bundle: the managers of their calls differ, for
\* any depth of the calls.
THEOREM BundlesNotShared ==
  Spec => [](\A g, h \in Goroutines : \A k \in DOMAIN calls[g], l \in DOMAIN calls[h] :
               g # h => calls[g][k].mm # calls[h][l].mm)
<1> DEFINE Apart == \A g, h \in Goroutines : \A k \in DOMAIN calls[g], l \in DOMAIN calls[h] :
                      g # h => calls[g][k].mm # calls[h][l].mm
<1>1. FramesInv => Apart
  <2> SUFFICES ASSUME FramesInv, NEW g \in Goroutines, NEW h \in Goroutines, g # h,
                      NEW k \in DOMAIN calls[g], NEW l \in DOMAIN calls[h]
               PROVE  calls[g][k].mm # calls[h][l].mm
    OBVIOUS
  <2>1. ASSUME NEW f \in Goroutines, NEW m \in DOMAIN calls[f]
        PROVE  IF m = 1 THEN calls[f][m].mm = Own[f]
               ELSE /\ m - 1 \in DOMAIN calls[f] /\ calls[f][m].mm = Frame(f, m - 1)
                    /\ Frame(f, m - 1) # NoBundle /\ Frame(f, m - 1) \notin OwnBundles
    <3>1. PICK S : calls[f] \in Seq(S)
      BY DEF FramesInv, StacksOK, StackOK
    <3>2. DOMAIN calls[f] = 1 .. Len(calls[f]) /\ Len(calls[f]) \in Nat
      BY <3>1, LenProperties
    <3>3. m # 1 => m - 1 \in DOMAIN calls[f]
      BY <3>2
    <3>4. m = 1 => calls[f][m].mm = Own[f]
      BY DEF FramesInv, StacksOK, StackOK
    <3>5. ASSUME m # 1
          PROVE  /\ calls[f][m].mm = Frame(f, m - 1)
                 /\ calls[f][m - 1].n > 4 /\ calls[f][m - 1].step # 0
      BY <3>5 DEF FramesInv, StacksOK, StackOK, Frame
    <3>6. ASSUME m # 1 PROVE Frame(f, m - 1) # NoBundle
      BY <3>3, <3>5, <3>6 DEF FramesInv, StacksOK, StackOK, CallOK, Frame
    <3>7. ASSUME m # 1 PROVE Frame(f, m - 1) \notin OwnBundles
      BY <3>3, <3>6, <3>7 DEF FramesInv, Taken
    <3>8. QED
      BY <3>3, <3>4, <3>5, <3>6, <3>7
  <2>2. Own[g] # Own[h] /\ Own[g] \in OwnBundles /\ Own[h] \in OwnBundles
    BY OwnType DEF OwnBundles
  <2>3. QED
    BY <2>1, <2>2 DEF FramesInv, Private
<1>2. QED
  BY <1>1, FramesAreCounted, PTL
=============================================================================
