------------------------- MODULE ProfileTagsProofs -------------------------
(***************************************************************************)
(* The tag directory for any signatures, types and files, and any sequence *)
(* of operations and saves: a signature names one slot, a read gives what  *)
(* was last written, and a saved file reads as the profile does.           *)
(***************************************************************************)
EXTENDS ProfileSave, SequenceTheorems, FiniteSetTheorems, WellFoundedInduction, TLAPS

----------------------------------------------------------------------------
(* Loops: induction over their rounds, the last place they find, and what  *)
(* they compute.                                                           *)

\* A set of natural numbers has a least.
LEMMA LeastNatural ==
  ASSUME NEW T, T \subseteq Nat, T # {}
  PROVE  \E x \in T : \A y \in T : x <= y
<1> DEFINE R == {ss \in Nat \X Nat : ss[1] < ss[2]}
<1>1. IsWellFoundedOn(OpToRel(<, Nat), Nat)
  BY NatLessThanWellFounded
<1>2. OpToRel(<, Nat) = R
  BY DEF OpToRel
<1>3. IsWellFoundedOn(R, Nat)
  BY <1>1, <1>2, Zenon
<1>4. ASSUME NEW x \in T, NEW y \in T, ~(<<y, x>> \in R)
      PROVE  x <= y
  <2>1. <<y, x>> \in Nat \X Nat /\ <<y, x>>[1] = y /\ <<y, x>>[2] = x
    OBVIOUS
  <2>2. ~(y < x)
    BY <1>4, <2>1, Zenon
  <2>3. QED
    BY <2>2
<1> HIDE DEF R
<1>5. PICK x \in T : \A y \in T : ~(<<y, x>> \in R)
  BY <1>3, WFMin
<1>6. QED
  BY <1>4, <1>5

\* Induction over an interval.
LEMMA Induction ==
  ASSUME NEW n \in Nat, NEW S, 0 \in S, \A i \in 0 .. n : i \in S /\ i < n => i + 1 \in S
  PROVE  0 .. n \subseteq S
<1> SUFFICES ASSUME (0 .. n) \ S # {} PROVE FALSE
  OBVIOUS
<1>0. (0 .. n) \ S \subseteq Nat
  OBVIOUS
<1>1. PICK x \in (0 .. n) \ S : \A y \in (0 .. n) \ S : x <= y
  BY <1>0, LeastNatural
<1>2. x # 0 /\ x - 1 \in 0 .. n
  BY <1>1
<1>3. QED
  BY <1>1, <1>2

\* A set of numbers up to n has a greatest.
LEMMA MaxType ==
  ASSUME NEW n \in Nat, NEW T, T \subseteq 0 .. n, T # {}
  PROVE  Max(T) \in T
<1> DEFINE D == {n - x : x \in T}
<1>0. \A x \in T : x \in Nat /\ n - x \in Nat /\ n - x \in D
  OBVIOUS
<1>1. D \subseteq Nat /\ D # {}
  BY <1>0
<1>2. PICK d \in D : \A y \in D : d <= y
  BY <1>1, LeastNatural
<1>3. PICK x \in T : d = n - x
  BY <1>2
<1>4. \A y \in T : x >= y
  <2> HIDE DEF D
  <2> SUFFICES ASSUME NEW y \in T PROVE x >= y
    OBVIOUS
  <2>1. n - x <= n - y
    BY <1>0, <1>2, <1>3
  <2>2. QED
    BY <2>1, <1>0
<1>5. QED
  BY <1>4 DEF Max

\* What a loop computes: after[i] is what it has after i rounds.
IsLoop(after, n, S, first, round) ==
  /\ after \in [0 .. n -> S]
  /\ after[0] = first
  /\ \A i \in 1 .. n : after[i] = round[<<i, after[i - 1]>>]

\* It exists.
LEMMA Iteration ==
  ASSUME NEW n \in Nat, NEW S, NEW c \in S,
         NEW G \in [(1 .. n) \X S -> S]
  PROVE  \E f : IsLoop(f, n, S, c, G)
<1> DEFINE P(k, f) == /\ f \in [0 .. k -> S]
                      /\ f[0] = c
                      /\ \A i \in 1 .. k : f[i] = G[<<i, f[i - 1]>>]
           Reached == { k \in 0 .. n : \E f : P(k, f) }
<1>0. \A i \in 1 .. n, x \in S : G[<<i, x>>] \in S
  OBVIOUS
<1>1. 0 \in Reached
  <2>1. P(0, [i \in 0 .. 0 |-> c])
    OBVIOUS
  <2> HIDE DEF P
  <2>2. 0 \in 0 .. n
    OBVIOUS
  <2>3. QED
    BY <2>1, <2>2
<1>2. ASSUME NEW k \in 0 .. n, k \in Reached, k < n
      PROVE  k + 1 \in Reached
  <2>1. PICK f : P(k, f)
    BY <1>2
  <2> DEFINE g == [i \in 0 .. k + 1 |-> IF i = k + 1 THEN G[<<k + 1, f[k]>>] ELSE f[i]]
  <2>2. f[k] \in S /\ k + 1 \in 1 .. n
    BY <2>1, <1>2
  <2>3. G[<<k + 1, f[k]>>] \in S
    BY <2>2, <1>0
  <2>4. g \in [0 .. k + 1 -> S] /\ g[0] = c
    BY <2>1, <2>3
  <2>5. ASSUME NEW i \in 1 .. k + 1
        PROVE  g[i] = G[<<i, g[i - 1]>>]
    <3>1. CASE i = k + 1
      BY <3>1
    <3>2. CASE i # k + 1
      <4>1. i \in 1 .. k /\ g[i] = f[i] /\ g[i - 1] = f[i - 1]
        BY <3>2
      <4>2. QED
        BY <4>1, <2>1
    <3>3. QED
      BY <3>1, <3>2
  <2>6. P(k + 1, g)
    BY <2>4, <2>5
  <2> HIDE DEF P
  <2>7. k + 1 \in 0 .. n
    BY <1>2
  <2>8. QED
    BY <2>6, <2>7
<1> HIDE DEF Reached, P
<1>3. n \in Reached
  BY <1>1, <1>2, Induction
<1> USE DEF Reached, P
<1>4. PICK f : P(n, f)
  BY <1>3
<1>5. QED
  BY <1>4 DEF IsLoop

----------------------------------------------------------------------------
(* The directory.                                                          *)

LEMMA FileTypes ==
  ASSUME NEW b \in DOMAIN Disk
  PROVE  /\ b \in Nat /\ b # 0
         /\ Disk[b].type \in Types /\ Disk[b].val \in Values
         /\ Disk[b].size \in Nat /\ Disk[b].readable \in BOOLEAN
BY TagsAssumption

LEMMA PtrTypes ==
  /\ NoPtr \in Ptrs /\ RawBytes \in Ptrs /\ NilBytes \in Ptrs
  /\ \A t \in Types, v \in Values : Cooked(t, v) \in Ptrs
BY DEF Ptrs

LEMMA CookedPtrs ==
  ASSUME NEW p \in Ptrs, p.form = "cooked"
  PROVE  p.type \in Types /\ p.val \in Values /\ p = Cooked(p.type, p.val)
<1>1. p # NoPtr /\ p # RawBytes /\ p # NilBytes
  BY DEF NoPtr, RawBytes, NilBytes
<1>2. PICK t \in Types, v \in Values : p = Cooked(t, v)
  BY <1>1 DEF Ptrs
<1>3. QED
  BY <1>2 DEF Cooked

LEMMA SeqOfFunction ==
  ASSUME NEW S, NEW n \in Nat, NEW f \in [1 .. n -> S]
  PROVE  f \in Seq(S) /\ Len(f) = n
BY SeqDef

\* A slot as the file's directory gives it: nothing is in memory.
FileSlot == { slot \in Slot : slot.ptr = NoPtr /\ ~slot.raw /\ slot.offset # 0 }

LEMMA NewEntryType ==
  ASSUME NEW d \in Seq(FileSlot), NEW sig \in Sigs, NEW block \in DOMAIN Disk
  PROVE  NewEntry(d, sig, block) \in FileSlot
<1> DEFINE same == { j \in DOMAIN d : d[j].offset = block /\ CompatibleTypes(d[j].name, sig) }
<1>1. LinkTarget(d, sig, block) \in Sigs \cup {NoSig}
  <2>1. CASE same = {}
    BY <2>1 DEF LinkTarget
  <2>2. CASE same # {}
    <3>1. Len(d) \in Nat /\ DOMAIN d = 1 .. Len(d) /\ \A i \in DOMAIN d : d[i] \in FileSlot
      BY LenProperties, ElementOfSeq
    <3>2. same \subseteq 0 .. Len(d)
      BY <3>1
    <3>3. Max(same) \in same
      BY <2>2, <3>1, <3>2, MaxType
    <3>4. d[Max(same)].name \in Sigs \cup {NoSig}
      BY <3>1, <3>3 DEF FileSlot, Slot
    <3>5. QED
      BY <2>2, <3>4 DEF LinkTarget
  <2>3. QED
    BY <2>1, <2>2
<1>2. QED
  BY <1>1, FileTypes, PtrTypes DEF NewEntry, BlankSlot, FileSlot, Slot

LEMMA DirectoryType ==
  ASSUME NEW table \in Seq(Sigs \X DOMAIN Disk)
  PROVE  Directory(table) \in Seq(FileSlot) /\ Len(Directory(table)) <= Len(table)
<1> DEFINE n == Len(table)
           Grown(d, i) == IF Sane(table[i][2])
                            THEN Append(d, NewEntry(d, table[i][1], table[i][2]))
                            ELSE d
           after[i \in 0 .. n] == IF i = 0 THEN <<>> ELSE Grown(after[i - 1], i)
           G == [p \in (1 .. n) \X Seq(FileSlot) |-> Grown(p[2], p[1])]
<1>1. n \in Nat /\ \A i \in 1 .. n : table[i][1] \in Sigs /\ table[i][2] \in DOMAIN Disk
  <2>1. n \in Nat /\ \A i \in 1 .. n : table[i] \in Sigs \X DOMAIN Disk
    BY LenProperties, ElementOfSeq
  <2>2. QED
    BY <2>1
<1>2. ASSUME NEW i \in 1 .. n, NEW d \in Seq(FileSlot)
      PROVE  Grown(d, i) \in Seq(FileSlot) /\ Len(d) \in Nat /\ Len(Grown(d, i)) <= Len(d) + 1
  <2>1. NewEntry(d, table[i][1], table[i][2]) \in FileSlot
    BY <1>1, NewEntryType
  <2>2. QED
    BY <2>1, AppendProperties, LenProperties
<1>3. \A i \in 1 .. n, d \in Seq(FileSlot) : G[<<i, d>>] = Grown(d, i)
  OBVIOUS
<1> HIDE DEF Grown, after
<1>4. \E f : f = [i \in 0 .. n |-> IF i = 0 THEN <<>> ELSE Grown(f[i - 1], i)]
  <2> DEFINE S == Seq(FileSlot)
             none == <<>>
  <2>1. G \in [(1 .. n) \X S -> S]
    BY <1>2, <1>3
  <2>2. n \in Nat /\ none \in S
    BY <1>1, EmptySeq
  <2> HIDE DEF G, n, S, none
  <2>3. PICK f : IsLoop(f, n, S, none, G)
    BY <2>1, <2>2, Iteration
  <2> USE DEF S, none
  <2>4. ASSUME NEW i \in 1 .. n
        PROVE  f[i] = Grown(f[i - 1], i)
    <3>1. f[i - 1] \in Seq(FileSlot)
      BY <1>1, <2>3 DEF IsLoop
    <3>2. QED
      BY <2>3, <3>1, <1>3 DEF IsLoop
  <2>5. f = [i \in 0 .. n |-> IF i = 0 THEN <<>> ELSE Grown(f[i - 1], i)]
    BY <2>3, <2>4 DEF IsLoop
  <2>6. QED
    BY <2>5
<1>5. after = [i \in 0 .. n |-> IF i = 0 THEN <<>> ELSE Grown(after[i - 1], i)]
  BY <1>4 DEF after
<1>6. Directory(table) = after[n]
  BY DEF Directory, Grown, after
<1> DEFINE Good == { i \in 0 .. n : after[i] \in Seq(FileSlot) /\ Len(after[i]) <= i }
<1>7. 0 \in Good
  BY <1>1, <1>5, EmptySeq
<1>8. ASSUME NEW i \in 0 .. n, i \in Good, i < n
      PROVE  i + 1 \in Good
  <2>1. i + 1 \in 1 .. n /\ i + 1 \in 0 .. n /\ after[i + 1] = Grown(after[i], i + 1)
    BY <1>1, <1>5, <1>8
  <2>2. after[i + 1] \in Seq(FileSlot) /\ Len(after[i + 1]) <= Len(after[i]) + 1
    BY <2>1, <1>2, <1>8
  <2>3. Len(after[i + 1]) <= i + 1
    BY <2>2, <1>8, <1>1, LenProperties
  <2>4. QED
    BY <2>1, <2>2, <2>3
<1>9. n \in Good
  <2>1. n \in Nat
    BY <1>1
  <2> HIDE DEF Good, n
  <2>2. 0 .. n \subseteq Good
    BY <2>1, <1>7, <1>8, Induction
  <2>3. QED
    BY <2>1, <2>2
<1>10. QED
  BY <1>6, <1>9

----------------------------------------------------------------------------

OneSlotEach(d) == \A i, j \in DOMAIN d : d[i].name = d[j].name /\ d[i].name # NoSig => i = j

\* The slot can give back what its tag was given: from memory, by the handler
\* it was made with, or from the file.
KeptAs(slot, given, io) ==
  given.form = "cooked" =>
    /\ slot.ptr \in {given, NoPtr}
    /\ ~slot.raw
    /\ slot.ptr # NoPtr => slot.handler = given.type
    /\ slot.ptr = NoPtr \/ slot.size >= 8 =>
         /\ slot.size >= 8 /\ io /\ slot.offset # 0
         /\ Disk[slot.offset].readable
         /\ Disk[slot.offset].type = given.type
         /\ Disk[slot.offset].val = given.val

TagsInv ==
  /\ TypeOK
  /\ OneSlotEach(dir)
  /\ \A i \in DOMAIN dir : dir[i].name # NoSig => KeptAs(dir[i], promise[dir[i].name], hasIO)

\* The directory as a function.
LEMMA DirType ==
  ASSUME TypeOK
  PROVE  /\ Len(dir) \in Nat /\ DOMAIN dir = 1 .. Len(dir)
         /\ \A i \in DOMAIN dir : dir[i] \in Slot
BY LenProperties, ElementOfSeq DEF TypeOK

LEMMA InitTagsInv == SaveInit => TagsInv
<1> SUFFICES ASSUME Init PROVE TagsInv
  BY DEF SaveInit
<1>1. PICK table \in Files : /\ Len(table) <= MAX_TABLE_TAG
                            /\ dir = Directory(table)
                            /\ ~HasDuplicates(dir)
                            /\ hasIO = (table # <<>>)
  BY DEF Init
<1>2. table \in Seq(Sigs \X DOMAIN Disk) /\ MAX_TABLE_TAG \in Nat
  BY TagsAssumption
<1>3. dir \in Seq(FileSlot) /\ Len(dir) <= Len(table)
  BY <1>1, <1>2, DirectoryType
<1>4. /\ Len(dir) \in Nat /\ Len(table) \in Nat /\ DOMAIN dir = 1 .. Len(dir)
      /\ \A i \in DOMAIN dir : dir[i] \in FileSlot
  BY <1>2, <1>3, LenProperties, ElementOfSeq
<1>5. dir \in Seq(Slot) /\ Len(dir) <= MAX_TABLE_TAG
  <2>1. FileSlot \subseteq Slot
    BY DEF FileSlot
  <2>2. QED
    BY <2>1, <1>1, <1>2, <1>3, <1>4, SeqMonotonic
<1>6. OneSlotEach(dir)
  BY <1>1 DEF HasDuplicates, OneSlotEach
<1>7. ASSUME NEW i \in DOMAIN dir
      PROVE  OnDisk(dir[i]) \in Ptrs /\ KeptAs(dir[i], OnDisk(dir[i]), hasIO)
  <2>1. dir[i] \in FileSlot /\ table # <<>>
    BY <1>2, <1>3, <1>4, EmptySeq
  <2>2. /\ dir[i].offset \in DOMAIN Disk /\ dir[i].offset # 0 /\ ~dir[i].raw
        /\ dir[i].ptr = NoPtr
    BY <2>1 DEF FileSlot, Slot
  <2>3. CASE OnDisk(dir[i]) = NoPtr
    BY <2>3, PtrTypes DEF KeptAs, NoPtr
  <2>4. CASE OnDisk(dir[i]) # NoPtr
    <3>1. /\ dir[i].size >= 8 /\ Disk[dir[i].offset].readable
          /\ OnDisk(dir[i]) = Cooked(Disk[dir[i].offset].type, Disk[dir[i].offset].val)
      BY <2>4 DEF OnDisk
    <3>2. OnDisk(dir[i]) \in Ptrs
      BY <2>2, <3>1, FileTypes, PtrTypes
    <3>3. /\ OnDisk(dir[i]).type = Disk[dir[i].offset].type
          /\ OnDisk(dir[i]).val = Disk[dir[i].offset].val
      BY <3>1 DEF Cooked
    <3>4. hasIO
      BY <2>1, <1>1
    <3>5. QED
      BY <2>2, <3>1, <3>2, <3>3, <3>4 DEF KeptAs
  <2>5. QED
    BY <2>3, <2>4
<1>8. ASSUME NEW s \in Sigs
      PROVE  /\ promise[s] \in Ptrs
             /\ \A i \in DOMAIN dir : dir[i].name = s => promise[s] = OnDisk(dir[i])
  <2>0. promise[s] = IF \E i \in DOMAIN dir : dir[i].name = s
                       THEN OnDisk(dir[CHOOSE i \in DOMAIN dir : dir[i].name = s])
                       ELSE NoPtr
    BY DEF Init
  <2>1. CASE \E i \in DOMAIN dir : dir[i].name = s
    <3> DEFINE k == CHOOSE i \in DOMAIN dir : dir[i].name = s
    <3>1. k \in DOMAIN dir /\ dir[k].name = s
      BY <2>1
    <3>2. promise[s] = OnDisk(dir[k])
      BY <2>0, <2>1
    <3>3. \A i \in DOMAIN dir : dir[i].name = s => i = k
      BY <3>1, <1>6, TagsAssumption DEF OneSlotEach
    <3>4. QED
      BY <3>1, <3>2, <3>3, <1>7
  <2>2. CASE ~\E i \in DOMAIN dir : dir[i].name = s
    BY <2>0, <2>2, PtrTypes
  <2>3. QED
    BY <2>1, <2>2
<1>9. promise \in [Sigs -> Ptrs]
  <2>1. promise = [s \in Sigs |-> promise[s]]
    BY DEF Init
  <2>2. QED
    BY <1>8, <2>1
<1>10. TypeOK
  BY <1>1, <1>5, <1>9 DEF TypeOK, Init
<1>11. ASSUME NEW i \in DOMAIN dir, dir[i].name # NoSig
       PROVE  KeptAs(dir[i], promise[dir[i].name], hasIO)
  <2>1. dir[i].name \in Sigs
    BY <1>4, <1>11 DEF FileSlot, Slot
  <2>2. QED
    BY <2>1, <1>7, <1>8
<1>12. QED
  BY <1>6, <1>10, <1>11 DEF TagsInv

----------------------------------------------------------------------------

\* Where cmsSearchOneTag finds a signature that names one slot at most.
LEMMA Found ==
  ASSUME TypeOK, OneSlotEach(dir), NEW sig \in Sigs
  PROVE  \/ /\ SearchOneTag(sig) \in DOMAIN dir
            /\ dir[SearchOneTag(sig)].name = sig
            /\ \A i \in DOMAIN dir : dir[i].name = sig => i = SearchOneTag(sig)
         \/ /\ SearchOneTag(sig) = Len(dir) + 1
            /\ \A i \in DOMAIN dir : dir[i].name # sig
<1> DEFINE named == { i \in DOMAIN dir : dir[i].name = sig }
           T == named \cup {Len(dir) + 1}
<1>1. Len(dir) \in Nat /\ DOMAIN dir = 1 .. Len(dir)
  BY DirType
<1>2. SearchOneTag(sig) = CHOOSE x \in T : \A y \in T : x <= y
  BY DEF SearchOneTag, Min
<1>3. CASE named = {}
  <2>1. T = {Len(dir) + 1}
    BY <1>3
  <2>2. SearchOneTag(sig) = Len(dir) + 1
    BY <1>1, <1>2, <2>1
  <2>3. QED
    BY <1>3, <2>2
<1>4. CASE named # {}
  <2>1. PICK k \in DOMAIN dir : dir[k].name = sig
    BY <1>4
  <2>2. \A i \in DOMAIN dir : dir[i].name = sig => i = k
    BY <2>1, TagsAssumption DEF OneSlotEach
  <2>3. T = {k, Len(dir) + 1}
    BY <2>1, <2>2
  <2>4. k \in Nat /\ k <= Len(dir) + 1 /\ k # Len(dir) + 1
    BY <1>1, <2>1
  <2>5. SearchOneTag(sig) = k
    BY <1>1, <1>2, <2>3, <2>4
  <2>6. QED
    BY <2>1, <2>2, <2>5
<1>5. QED
  BY <1>3, <1>4

\* A slot that takes the place of another keeps the directory one.
LEMMA Replaced ==
  ASSUME TypeOK, NEW n \in DOMAIN dir, NEW slot \in Slot,
         dir' = [dir EXCEPT ![n] = slot]
  PROVE  /\ dir' \in Seq(Slot) /\ Len(dir') = Len(dir) /\ DOMAIN dir' = DOMAIN dir
         /\ \A i \in DOMAIN dir : dir'[i] = IF i = n THEN slot ELSE dir[i]
<1>1. dir \in Seq(Slot) /\ n \in 1 .. Len(dir)
  BY DirType DEF TypeOK
<1>2. QED
  BY <1>1, ExceptSeq, DirType, LenProperties

LEMMA PutType ==
  ASSUME TypeOK, OneSlotEach(dir), NEW sig \in Sigs, NEW slot \in Slot, HasRoom(sig)
  PROVE  LET n == NewPos(sig) IN
         /\ Put(sig, slot) \in Seq(Slot)
         /\ Len(Put(sig, slot)) <= MAX_TABLE_TAG
         /\ DOMAIN Put(sig, slot) = DOMAIN dir \cup {n}
         /\ \A i \in DOMAIN dir \cup {n} :
              Put(sig, slot)[i] = IF i = n THEN slot ELSE dir[i]
         /\ \A i \in DOMAIN dir : i # n => dir[i].name # sig
<1> DEFINE n == NewPos(sig)
           d == Put(sig, slot)
<1>1. /\ Len(dir) \in Nat /\ DOMAIN dir = 1 .. Len(dir)
      /\ \A i \in DOMAIN dir : dir[i] \in Slot
  BY DirType
<1>2. MAX_TABLE_TAG \in Nat /\ n <= MAX_TABLE_TAG /\ Len(dir) <= MAX_TABLE_TAG
  BY TagsAssumption DEF HasRoom, TypeOK
<1>3. /\ n \in DOMAIN dir \/ n = Len(dir) + 1
      /\ \A i \in DOMAIN dir : i # n => dir[i].name # sig
  BY Found DEF NewPos
<1>4. \E m \in Nat : DOMAIN dir \cup {n} = 1 .. m /\ m <= MAX_TABLE_TAG
  <2>1. CASE n \in DOMAIN dir
    BY <1>1, <1>2, <2>1
  <2>2. CASE n = Len(dir) + 1
    <3>1. DOMAIN dir \cup {n} = 1 .. (Len(dir) + 1)
      BY <1>1, <2>2
    <3>2. QED
      BY <1>1, <1>2, <2>2, <3>1
  <2>3. QED
    BY <1>3, <2>1, <2>2
<1>5. PICK m \in Nat : DOMAIN dir \cup {n} = 1 .. m /\ m <= MAX_TABLE_TAG
  BY <1>4
<1>6. d = [i \in 1 .. m |-> IF i = n THEN slot ELSE dir[i]]
  BY <1>5 DEF Put
<1>7. \A i \in 1 .. m : i # n => dir[i] \in Slot
  BY <1>1, <1>5
<1>8. d \in [1 .. m -> Slot]
  BY <1>6, <1>7
<1>9. d \in Seq(Slot) /\ Len(d) = m /\ DOMAIN d = 1 .. m
  BY <1>8, SeqOfFunction
<1> HIDE DEF n, d
<1>10. QED
  BY <1>3, <1>5, <1>6, <1>9 DEF n, d

\* What every operation that makes a slot for a tag leaves.
LEMMA ReplaceStep ==
  ASSUME TagsInv, NEW sig \in Sigs, NEW slot \in Slot, NEW given \in Ptrs,
         slot.name \in {sig, NoSig},
         KeptAs(slot, given, hasIO),
         Replace(sig, slot, given)
  PROVE  TagsInv'
<1> USE DEF TagsInv
<1>1. CASE DeletePanics(OldSlot(sig))
  <2>1. dir' = dir /\ promise' = promise /\ hasIO' = hasIO /\ status' = "panicked"
    BY <1>1 DEF Replace
  <2>2. QED
    BY <2>1 DEF TypeOK, OneSlotEach, KeptAs
<1>2. CASE ~DeletePanics(OldSlot(sig))
  <2> DEFINE n == NewPos(sig)
  <2>1. /\ dir' = Put(sig, slot) /\ promise' = [promise EXCEPT ![sig] = given]
        /\ hasIO' = hasIO /\ status' = status /\ HasRoom(sig)
    BY <1>2 DEF Replace
  <2>2. /\ dir' \in Seq(Slot) /\ Len(dir') <= MAX_TABLE_TAG
        /\ DOMAIN dir' = DOMAIN dir \cup {n}
        /\ \A i \in DOMAIN dir \cup {n} : dir'[i] = IF i = n THEN slot ELSE dir[i]
        /\ \A i \in DOMAIN dir : i # n => dir[i].name # sig
    <3> DEFINE d == Put(sig, slot)
    <3>1. /\ d \in Seq(Slot) /\ Len(d) <= MAX_TABLE_TAG
          /\ DOMAIN d = DOMAIN dir \cup {n}
          /\ \A i \in DOMAIN dir \cup {n} : d[i] = IF i = n THEN slot ELSE dir[i]
          /\ \A i \in DOMAIN dir : i # n => dir[i].name # sig
      <4>1. HasRoom(sig)
        BY <2>1
      <4>2. QED
        BY <4>1, PutType
    <3>2. dir' = d
      BY <2>1
    <3> HIDE DEF d, n
    <3>3. QED
      BY <3>1, <3>2
  <2>3. promise' \in [Sigs -> Ptrs]
    BY <2>1 DEF TypeOK
  <2>4. TypeOK'
    BY <2>1, <2>2, <2>3 DEF TypeOK
  <2>5. OneSlotEach(dir)'
    BY <2>2 DEF OneSlotEach
  <2>6. ASSUME NEW i \in DOMAIN dir', dir'[i].name # NoSig
        PROVE  KeptAs(dir'[i], promise'[dir'[i].name], hasIO')
    <3>1. CASE i = n
      <4>1. dir'[i] = slot /\ slot.name = sig /\ promise'[sig] = given
        BY <2>1, <2>2, <2>6, <3>1 DEF TypeOK
      <4>2. QED
        BY <2>1, <4>1
    <3>2. CASE i # n
      <4>1. i \in DOMAIN dir /\ dir'[i] = dir[i] /\ dir[i].name # sig
        BY <2>2, <3>2
      <4>2. promise'[dir[i].name] = promise[dir[i].name]
        BY <2>1, <4>1, <2>6, DirType DEF TypeOK, Slot
      <4>3. QED
        BY <2>1, <2>6, <4>1, <4>2
    <3>3. QED
      BY <3>1, <3>2
  <2>7. QED
    BY <2>4, <2>5, <2>6
<1>3. QED
  BY <1>1, <1>2

\* What every operation on a slot that is there leaves.
LEMMA ChangeStep ==
  ASSUME TagsInv, NEW n \in DOMAIN dir, NEW slot \in Slot,
         slot.name \in {dir[n].name, NoSig},
         dir' = [dir EXCEPT ![n] = slot],
         promise' \in [Sigs -> Ptrs],
         \A s \in Sigs : s # dir[n].name => promise'[s] = promise[s],
         hasIO' = hasIO, status' = status,
         slot.name # NoSig => KeptAs(slot, promise'[slot.name], hasIO)
  PROVE  TagsInv'
<1> USE DEF TagsInv
<1>1. /\ dir' \in Seq(Slot) /\ Len(dir') = Len(dir) /\ DOMAIN dir' = DOMAIN dir
      /\ \A i \in DOMAIN dir : dir'[i] = IF i = n THEN slot ELSE dir[i]
  BY Replaced
<1>2. TypeOK'
  BY <1>1 DEF TypeOK
<1>3. OneSlotEach(dir)'
  BY <1>1 DEF OneSlotEach
<1>4. ASSUME NEW i \in DOMAIN dir', dir'[i].name # NoSig
      PROVE  KeptAs(dir'[i], promise'[dir'[i].name], hasIO')
  <2>1. CASE i = n
    BY <1>1, <1>4, <2>1
  <2>2. CASE i # n
    <3>1. i \in DOMAIN dir /\ dir'[i] = dir[i] /\ dir[i].name \in Sigs
      BY <1>1, <1>4, <2>2, DirType DEF Slot
    <3>2. dir[i].name # dir[n].name
      BY <1>4, <2>2, <3>1 DEF OneSlotEach
    <3>3. QED
      BY <1>4, <3>1, <3>2
  <2>3. QED
    BY <2>1, <2>2
<1>5. QED
  BY <1>2, <1>3, <1>4

\* Nothing but the status changes.
LEMMA SameStep ==
  ASSUME TagsInv, dir' = dir, hasIO' = hasIO, promise' = promise,
         status' \in {"open", "closed", "panicked"}
  PROVE  TagsInv'
BY DEF TagsInv, TypeOK, OneSlotEach

\* What slot a number stands for.
LEMMA SlotAtType ==
  ASSUME TypeOK, NEW n
  PROVE  /\ SlotAt(n) \in Slot
         /\ n \in DOMAIN dir => SlotAt(n) = dir[n]
         /\ n \notin DOMAIN dir => SlotAt(n) = BlankSlot
<1>1. BlankSlot \in Slot
  BY PtrTypes DEF BlankSlot, Slot
<1>2. QED
  BY <1>1, DirType DEF SlotAt

LEMMA ReadStep ==
  ASSUME TagsInv, NEW sig \in Sigs, cmsReadTag(sig)
  PROVE  TagsInv'
<1> USE DEF TagsInv
<1> DEFINE n == Resolve(sig)
           new == [dir[n] EXCEPT !.handler = Disk[dir[n].offset].type,
                                 !.ptr = ReadFn(Disk[dir[n].offset])]
<1>1. /\ SlotAt(n).ptr = NoPtr /\ TypeOnDisk(sig, SlotAt(n))
      /\ dir' = [dir EXCEPT ![n].handler = Disk[SlotAt(n).offset].type,
                            ![n].ptr = ReadFn(Disk[SlotAt(n).offset])]
      /\ hasIO' = hasIO /\ status' = status /\ promise' = promise
  BY DEF cmsReadTag
<1> HIDE DEF n
<1>2. n \in DOMAIN dir /\ SlotAt(n) = dir[n] /\ dir[n] \in Slot
  BY <1>1, SlotAtType DEF TypeOnDisk, BlankSlot
<1>3. /\ dir[n].offset \in DOMAIN Disk /\ dir[n].size >= 8 /\ hasIO /\ dir[n].offset # 0
  BY <1>1, <1>2 DEF TypeOnDisk, Slot
<1>4. dir' = [dir EXCEPT ![n] = new]
  BY <1>1, <1>2, DirType
<1>5. ReadFn(Disk[dir[n].offset]) \in Ptrs
  BY <1>3, FileTypes, PtrTypes DEF ReadFn
<1>6. new \in Slot /\ new.name = dir[n].name
  BY <1>2, <1>3, <1>5, FileTypes DEF Slot
<1>7. ASSUME new.name # NoSig
      PROVE  KeptAs(new, promise[new.name], hasIO)
  <2>1. new.name \in Sigs /\ KeptAs(dir[n], promise[new.name], hasIO)
    BY <1>2, <1>6, <1>7 DEF Slot
  <2>2. CASE promise[new.name].form # "cooked"
    BY <2>2 DEF KeptAs
  <2>3. CASE promise[new.name].form = "cooked"
    <3> DEFINE p == promise[new.name]
    <3>1. p \in Ptrs
      BY <2>1 DEF TypeOK
    <3>2. p = Cooked(p.type, p.val)
      BY <2>3, <3>1, CookedPtrs
    <3>3. /\ ~dir[n].raw /\ Disk[dir[n].offset].readable
          /\ Disk[dir[n].offset].type = p.type
          /\ Disk[dir[n].offset].val = p.val
      BY <1>1, <1>2, <2>1, <2>3 DEF KeptAs
    <3>4. ReadFn(Disk[dir[n].offset]) = p
      BY <3>2, <3>3 DEF ReadFn
    <3>5. /\ new.ptr = p /\ ~new.raw /\ new.handler = p.type /\ new.size >= 8
          /\ new.offset = dir[n].offset
      BY <1>2, <1>3, <3>3, <3>4 DEF Slot
    <3> HIDE DEF p, new
    <3>6. QED
      BY <1>3, <3>3, <3>5 DEF KeptAs, p
  <2>4. QED
    BY <2>2, <2>3
<1> HIDE DEF new
<1>8. QED
  BY <1>1, <1>2, <1>4, <1>6, <1>7, ChangeStep DEF TypeOK

LEMMA RefuseStep ==
  ASSUME TagsInv, NEW sig \in Sigs, ReadRefused(sig)
  PROVE  TagsInv'
<1> USE DEF TagsInv
<1> DEFINE n == Resolve(sig)
           new == [dir[n] EXCEPT !.ptr = NoPtr]
<1>1. CASE FreePanics(SlotAt(n))
  <2>1. dir' = dir /\ promise' = promise /\ hasIO' = hasIO /\ status' = "panicked"
    BY <1>1 DEF ReadRefused
  <2>2. QED
    BY <2>1, SameStep
<1>2. CASE ~FreePanics(SlotAt(n))
  <2>1. /\ SlotAt(n).ptr # NoPtr
        /\ dir' = [dir EXCEPT ![n].ptr = NoPtr]
        /\ promise' = IF SlotAt(n).size < 8
                        THEN [promise EXCEPT ![SlotAt(n).name] = NoPtr]
                        ELSE promise
        /\ hasIO' = hasIO /\ status' = status
    BY <1>2 DEF ReadRefused
  <2> HIDE DEF n
  <2>2. n \in DOMAIN dir /\ SlotAt(n) = dir[n] /\ dir[n] \in Slot
    BY <2>1, SlotAtType DEF BlankSlot
  <2>3. dir' = [dir EXCEPT ![n] = new] /\ new \in Slot /\ new.name = dir[n].name
    BY <2>1, <2>2, PtrTypes, DirType DEF Slot
  <2>4. /\ promise' \in [Sigs -> Ptrs]
        /\ \A s \in Sigs : s # dir[n].name => promise'[s] = promise[s]
    BY <2>1, <2>2, PtrTypes DEF TypeOK
  <2>5. ASSUME new.name # NoSig
        PROVE  KeptAs(new, promise'[new.name], hasIO)
    <3>1. new.name \in Sigs /\ KeptAs(dir[n], promise[new.name], hasIO)
      BY <2>2, <2>3, <2>5 DEF Slot
    <3>2. CASE dir[n].size < 8
      <4>1. promise'[new.name] = NoPtr
        BY <2>1, <2>2, <2>3, <3>1, <3>2 DEF TypeOK
      <4>2. QED
        BY <4>1 DEF KeptAs, NoPtr
    <3>3. CASE ~(dir[n].size < 8)
      <4>1. promise'[new.name] = promise[new.name] /\ dir[n].size >= 8
        BY <2>1, <2>2, <3>3 DEF Slot
      <4>2. new.ptr = NoPtr /\ new.raw = dir[n].raw /\ new.size = dir[n].size
            /\ new.offset = dir[n].offset
        BY <2>2 DEF Slot
      <4> HIDE DEF new
      <4>3. QED
        BY <3>1, <4>1, <4>2 DEF KeptAs
    <3>4. QED
      BY <3>2, <3>3
  <2> HIDE DEF new
  <2>6. QED
    BY <2>1, <2>2, <2>3, <2>4, <2>5, ChangeStep
<1>3. QED
  BY <1>1, <1>2

LEMMA DeleteStep ==
  ASSUME TagsInv, NEW sig \in Sigs, DeleteTag(sig)
  PROVE  TagsInv'
<1> USE DEF TagsInv
<1> DEFINE n == SearchOneTag(sig)
           new == [Freed(dir[n]) EXCEPT !.name = NoSig]
<1>1. n \in DOMAIN dir /\ dir[n].name = sig /\ dir[n] \in Slot
  <2>1. n \in DOMAIN dir
    BY DEF DeleteTag
  <2>2. QED
    BY <2>1, Found, DirType
<1>2. CASE DeletePanics(dir[n])
  <2>1. dir' = dir /\ promise' = promise /\ hasIO' = hasIO /\ status' = "panicked"
    BY <1>2 DEF DeleteTag
  <2>2. QED
    BY <2>1, SameStep
<1>3. CASE ~DeletePanics(dir[n])
  <2>1. /\ dir' = [dir EXCEPT ![n] = new] /\ promise' = [promise EXCEPT ![sig] = NoPtr]
        /\ hasIO' = hasIO /\ status' = status
    BY <1>3 DEF DeleteTag
  <2>2. new \in Slot /\ new.name = NoSig
    BY <1>1, PtrTypes DEF Freed, Slot
  <2>3. /\ promise' \in [Sigs -> Ptrs]
        /\ \A s \in Sigs : s # dir[n].name => promise'[s] = promise[s]
    BY <1>1, <2>1, PtrTypes DEF TypeOK
  <2> HIDE DEF new, n
  <2>4. QED
    BY <1>1, <2>1, <2>2, <2>3, ChangeStep
<1>4. QED
  BY <1>2, <1>3

\* The slot a write starts from.
LEMMA OldSlotType ==
  ASSUME TagsInv, NEW sig \in Sigs
  PROVE  /\ Freed(OldSlot(sig)) \in Slot
         /\ Freed(OldSlot(sig)).name \in {sig, NoSig}
<1>1. OldSlot(sig) \in Slot
  BY SlotAtType DEF TagsInv, OldSlot
<1>2. OldSlot(sig).name \in {sig, NoSig}
  <2>1. CASE NewPos(sig) \in DOMAIN dir
    <3>1. dir[NewPos(sig)].name = sig
      BY <2>1, Found, DirType DEF TagsInv, NewPos
    <3>2. QED
      BY <2>1, <3>1 DEF OldSlot, SlotAt
  <2>2. CASE NewPos(sig) \notin DOMAIN dir
    BY <2>2 DEF OldSlot, SlotAt, BlankSlot
  <2>3. QED
    BY <2>1, <2>2
<1>3. QED
  BY <1>1, <1>2, PtrTypes DEF Freed, Slot

LEMMA WriteStep ==
  ASSUME TagsInv, NEW sig \in Sigs, NEW t \in Types, NEW v \in Values, cmsWriteTag(sig, t, v)
  PROVE  TagsInv'
<1> DEFINE given == IF <<t, v>> \in Malformed THEN NoPtr ELSE Cooked(t, v)
           new == [Emptied(sig) EXCEPT !.handler = t, !.name = sig, !.size = 0, !.offset = 0,
                                       !.ptr = given]
<1>1. Emptied(sig) \in Slot /\ ~Emptied(sig).raw
  BY OldSlotType DEF Emptied, Slot
<1>2. given \in Ptrs
  BY PtrTypes
<1>3. /\ new \in Slot /\ new.name = sig /\ new.ptr = given /\ ~new.raw
      /\ new.handler = t /\ new.size = 0
  BY <1>1, <1>2 DEF Slot
<1>4. Replace(sig, new, given)
  BY DEF cmsWriteTag
<1>5. KeptAs(new, given, hasIO)
  <2>1. CASE given = NoPtr
    BY <2>1 DEF KeptAs, NoPtr
  <2>2. CASE given = Cooked(t, v)
    <3>1. given.type = t /\ given # NoPtr
      BY <2>2 DEF Cooked, NoPtr
    <3> HIDE DEF new, given
    <3>2. QED
      BY <1>3, <3>1 DEF KeptAs
  <2>3. QED
    BY <2>1, <2>2
<1> HIDE DEF new, given
<1>6. QED
  BY <1>2, <1>3, <1>4, <1>5, ReplaceStep

LEMMA UnsupportedStep ==
  ASSUME TagsInv, NEW sig \in Sigs, WriteUnsupported(sig)
  PROVE  TagsInv'
<1>1. Emptied(sig) \in Slot /\ Emptied(sig).name \in {sig, NoSig}
  BY OldSlotType DEF Emptied, Slot
<1>2. KeptAs(Emptied(sig), NoPtr, hasIO)
  BY DEF KeptAs, NoPtr
<1>3. QED
  BY <1>1, <1>2, PtrTypes, ReplaceStep DEF WriteUnsupported

LEMMA RawStep ==
  ASSUME TagsInv, NEW sig \in Sigs, NEW size \in Nat, NEW copied \in {RawBytes, NilBytes},
         cmsWriteRawTag(sig, size, copied)
  PROVE  TagsInv'
<1> DEFINE new == [Freed(OldSlot(sig)) EXCEPT !.raw = TRUE, !.name = sig, !.linked = NoSig,
                                              !.ptr = copied, !.size = size]
<1>1. copied \in Ptrs
  BY PtrTypes
<1>2. new \in Slot /\ new.name = sig
  BY <1>1, OldSlotType DEF Slot
<1>3. KeptAs(new, copied, hasIO)
  BY DEF KeptAs, RawBytes, NilBytes
<1>4. Replace(sig, new, copied)
  BY DEF cmsWriteRawTag
<1> HIDE DEF new
<1>5. QED
  BY <1>1, <1>2, <1>3, <1>4, ReplaceStep

LEMMA LinkStep ==
  ASSUME TagsInv, NEW sig \in Sigs, NEW dest \in Sigs, cmsLinkTag(sig, dest)
  PROVE  TagsInv'
<1> DEFINE new == [Freed(OldSlot(sig)) EXCEPT !.raw = FALSE, !.name = sig, !.linked = dest,
                                              !.ptr = NoPtr, !.size = 0, !.offset = 0]
<1>1. new \in Slot /\ new.name = sig
  BY PtrTypes, OldSlotType DEF Slot
<1>2. KeptAs(new, NoPtr, hasIO)
  BY DEF KeptAs, NoPtr
<1>3. Replace(sig, new, NoPtr)
  BY DEF cmsLinkTag
<1> HIDE DEF new
<1>4. QED
  BY <1>1, <1>2, <1>3, PtrTypes, ReplaceStep

LEMMA NextTagsInv == TagsInv /\ [Next]_allVars => TagsInv'
<1> SUFFICES ASSUME TagsInv, [Next]_allVars PROVE TagsInv'
  OBVIOUS
<1>1. ASSUME NEW sig \in Sigs, TagOperation(sig)
      PROVE  TagsInv'
  <2>1. CASE \E w \in RawWrites : w[1] = sig /\ cmsWriteRawTag(sig, w[2], w[3])
    <3>1. PICK w \in RawWrites : w[1] = sig /\ cmsWriteRawTag(sig, w[2], w[3])
      BY <2>1
    <3>2. w[2] \in Nat /\ w[3] \in {RawBytes, NilBytes}
      BY TagsAssumption
    <3>3. QED
      BY <3>1, <3>2, RawStep
  <2>2. QED
    BY <1>1, <2>1, ReadStep, RefuseStep, WriteStep, UnsupportedStep, DeleteStep, LinkStep
    DEF TagOperation, Operation
<1>2. CASE cmsSaveProfileToFile
  BY <1>2, SameStep DEF cmsSaveProfileToFile, TagsInv, TypeOK
<1>3. CASE CmsCloseProfile
  BY <1>3, SameStep DEF CmsCloseProfile
<1>4. CASE Over \/ UNCHANGED allVars
  BY <1>4, SameStep DEF Over, allVars, vars, TagsInv, TypeOK
<1>5. QED
  BY <1>1, <1>2, <1>3, <1>4 DEF Next

----------------------------------------------------------------------------

\* A signature names one slot only, after any sequence of operations and saves
\* on any file.
THEOREM NamesStayUnique == Spec => []NamesUnique
<1>1. TagsInv => NamesUnique
  BY DEF TagsInv, OneSlotEach, NamesUnique
<1>2. QED
  BY <1>1, InitTagsInv, NextTagsInv, PTL DEF Spec

\* A read gives what the tag, or the one it links to, was last given by a
\* write, or has in the file.
THEOREM ReadsGiveTheLatest == Spec => []ReadsLatest
<1>1. ASSUME TagsInv
      PROVE  ReadsLatest
  <2> SUFFICES ASSUME NEW sig \in Sigs, Target(sig) # NoSig,
                      promise[Target(sig)].form = "cooked",
                      promise[Target(sig)].type \in Supported[sig]
      PROVE  Answer(sig) = promise[Target(sig)]
    BY DEF ReadsLatest
  <2> DEFINE slot == SlotAt(Resolve(sig))
             p == promise[Target(sig)]
  <2>1. Resolve(sig) \in DOMAIN dir /\ slot = dir[Resolve(sig)] /\ slot \in Slot
    BY <1>1, SlotAtType DEF TagsInv, Target, BlankSlot
  <2>2. Target(sig) = slot.name /\ slot.name \in Sigs
    BY <2>1 DEF Target, Slot
  <2>3. p \in Ptrs /\ KeptAs(slot, p, hasIO)
    BY <1>1, <2>1, <2>2 DEF TagsInv, TypeOK
  <2>4. p.type \in Types /\ p.val \in Values /\ p = Cooked(p.type, p.val) /\ p # NoPtr
    BY <2>3, CookedPtrs DEF NoPtr
  <2> HIDE DEF slot, p
  <2>5. CASE slot.ptr = NoPtr
    <3>1. ~InMemory(sig, slot) /\ TypeOnDisk(sig, slot)
      BY <2>3, <2>5 DEF InMemory, TypeOnDisk, KeptAs, p
    <3>2. ReadFn(Disk[slot.offset]) = p
      BY <2>3, <2>4, <2>5 DEF ReadFn, KeptAs, p
    <3>3. QED
      BY <2>5, <3>1, <3>2 DEF Answer, ReadFrom, slot, p
  <2>6. CASE slot.ptr # NoPtr
    <3>1. slot.ptr = p /\ InMemory(sig, slot)
      BY <2>3, <2>4, <2>6, TagsAssumption DEF InMemory, KeptAs, p
    <3>2. QED
      BY <3>1 DEF Answer, ReadFrom, slot, p
  <2>7. QED
    BY <2>5, <2>6
<1>2. QED
  BY <1>1, InitTagsInv, NextTagsInv, PTL DEF Spec

----------------------------------------------------------------------------
(* The passes of SaveTags *)

\* A slot whose offset is bytes of the file being written.
AnySlot ==
  [name : Sigs \cup {NoSig}, linked : Sigs \cup {NoSig}, size : Nat,
   offset : Nat, raw : BOOLEAN, ptr : Ptrs, handler : Types \cup {NoType}]

SameTag(a, b) ==
  a.name = b.name /\ a.linked = b.linked /\ a.ptr = b.ptr /\ (a.raw <=> b.raw)

\* The directories of the profile but for the offsets and sizes.
Relocated ==
  { d \in [DOMAIN dir -> AnySlot] : \A i \in DOMAIN dir : SameTag(d[i], dir[i]) }

Pieces == [offset : Nat, size : Nat, of : Sigs \cup {NoSig} \cup Nat]

Passes == [dir : Relocated, used : Nat, end : {"ok", "failed", "panicked"},
           pieces : SUBSET Pieces]

LEMMA Moved ==
  ASSUME NEW d \in Relocated, NEW i \in DOMAIN dir, NEW o \in Nat, NEW z \in Nat
  PROVE  /\ Placed(d, i, o, z) \in Relocated
         /\ Placed(d, i, o, z)[i].offset = o /\ Placed(d, i, o, z)[i].size = z
         /\ \A j \in DOMAIN dir : j # i => Placed(d, i, o, z)[j] = d[j]
<1> DEFINE slot == [d[i] EXCEPT !.offset = o, !.size = z]
           e == Placed(d, i, o, z)
<1>1. d \in [DOMAIN dir -> AnySlot] /\ d[i] \in AnySlot /\ SameTag(d[i], dir[i])
  BY DEF Relocated
<1>2. /\ slot \in AnySlot /\ slot.offset = o /\ slot.size = z
      /\ SameTag(slot, dir[i])
  BY <1>1 DEF AnySlot, SameTag
<1>3. e = [d EXCEPT ![i] = slot]
  BY <1>1 DEF Placed
<1> HIDE DEF slot, e
<1>4. e[i] = slot /\ e \in [DOMAIN dir -> AnySlot]
      /\ \A j \in DOMAIN dir : j # i => e[j] = d[j]
  BY <1>1, <1>2, <1>3
<1>5. \A j \in DOMAIN dir : SameTag(e[j], dir[j])
  BY <1>2, <1>4 DEF Relocated
<1>6. e \in Relocated
  BY <1>4, <1>5 DEF Relocated
<1>7. QED
  BY <1>2, <1>4, <1>6 DEF e

LEMMA PassType ==
  ASSUME NEW d \in Relocated, NEW used \in Nat, NEW end \in {"ok", "failed", "panicked"},
         NEW pieces \in SUBSET Pieces
  PROVE  /\ Pass(d, used, end, pieces) \in Passes
         /\ Pass(d, used, end, pieces).dir = d /\ Pass(d, used, end, pieces).used = used
         /\ Pass(d, used, end, pieces).end = end /\ Pass(d, used, end, pieces).pieces = pieces
BY DEF Pass, Passes

LEMMA AlignedType ==
  ASSUME NEW at \in Nat
  PROVE  Aligned(at) \in Nat /\ Aligned(at) >= at
BY DEF Aligned

LEMMA EndedType ==
  ASSUME NEW s \in Passes, NEW how \in {"failed", "panicked"}
  PROVE  Ended(s, how) \in Passes /\ Ended(s, how).end = how
<1>1. s.dir \in Relocated /\ s.used \in Nat /\ s.pieces \in SUBSET Pieces
  BY DEF Passes
<1>2. how \in {"ok", "failed", "panicked"}
  OBVIOUS
<1>3. Ended(s, how) = Pass(s.dir, s.used, how, s.pieces)
  BY DEF Ended
<1>4. /\ Pass(s.dir, s.used, how, s.pieces) \in Passes
      /\ Pass(s.dir, s.used, how, s.pieces).end = how
  BY <1>1, <1>2, PassType
<1>5. QED
  BY <1>3, <1>4

\* What SaveTag has done to a pass at the place i where nothing is written.
Left(s, t, i) ==
  /\ t.used = s.used /\ t.pieces = s.pieces
  /\ t.dir[i].offset = s.used /\ t.dir[i].size = s.dir[i].size
  /\ \A j \in DOMAIN dir : j # i => t.dir[j] = s.dir[j]

LEMMA SkippedType ==
  ASSUME NEW s \in Passes, NEW i \in DOMAIN dir
  PROVE  Skipped(s, i) \in Passes /\ Left(s, Skipped(s, i), i)
<1> DEFINE e == Placed(s.dir, i, s.used, s.dir[i].size)
<1>1. s.dir \in Relocated /\ s.used \in Nat /\ s.pieces \in SUBSET Pieces
  BY DEF Passes
<1>2. s.dir[i].size \in Nat
  BY <1>1 DEF Relocated, AnySlot
<1>4. /\ e \in Relocated /\ e[i].offset = s.used /\ e[i].size = s.dir[i].size
      /\ \A j \in DOMAIN dir : j # i => e[j] = s.dir[j]
  <2> DEFINE d == s.dir
             o == s.used
             z == s.dir[i].size
  <2>1. d \in Relocated /\ o \in Nat /\ z \in Nat /\ e = Placed(d, i, o, z)
    BY <1>1, <1>2
  <2> HIDE DEF d, o, z, e
  <2>2. LET p == Placed(d, i, o, z) IN
        /\ p \in Relocated /\ p[i].offset = o /\ p[i].size = z
        /\ \A j \in DOMAIN dir : j # i => p[j] = d[j]
    <3>1. d \in Relocated /\ o \in Nat /\ z \in Nat
      BY <2>1
    <3>2. QED
      BY <3>1, Moved
  <2>3. QED
    BY <2>1, <2>2 DEF d, o, z
<1> HIDE DEF e
<1>5. Skipped(s, i) = Pass(e, s.used, "ok", s.pieces)
  BY DEF Skipped, e
<1>6. QED
  <2>1. /\ Skipped(s, i) \in Passes /\ Skipped(s, i).dir = e
        /\ Skipped(s, i).used = s.used /\ Skipped(s, i).pieces = s.pieces
    <3>1. "ok" \in {"ok", "failed", "panicked"}
      OBVIOUS
    <3>2. QED
      BY <1>1, <1>4, <1>5, <3>1, PassType
  <2>2. QED
    BY <1>4, <2>1, Zenon DEF Left

\* And where a piece is.
Laid(s, t, i, size, of) ==
  /\ t.used \in Nat /\ t.used >= s.used + size /\ t.used = Aligned(s.used + size)
  /\ t.pieces = s.pieces \cup {[offset |-> s.used, size |-> size, of |-> of]}
  /\ t.dir[i].offset = s.used /\ t.dir[i].size = size
  /\ \A j \in DOMAIN dir : j # i => t.dir[j] = s.dir[j]

LEMMA WrittenType ==
  ASSUME NEW s \in Passes, NEW i \in DOMAIN dir, NEW size \in Nat,
         NEW of \in Sigs \cup {NoSig} \cup Nat, NEW room
  PROVE  LET t == WritePiece(s, i, size, of, room) IN
         /\ t \in Passes
         /\ t.end = "ok" => Laid(s, t, i, size, of)
<1> DEFINE t == WritePiece(s, i, size, of, room)
           e == Placed(s.dir, i, s.used, size)
           piece == [offset |-> s.used, size |-> size, of |-> of]
           more == s.pieces \cup {piece}
           used == Aligned(s.used + size)
<1>1. s.dir \in Relocated /\ s.used \in Nat /\ s.pieces \in SUBSET Pieces
  BY DEF Passes
<1>2. piece \in Pieces
  BY <1>1 DEF Pieces
<1>3. more \in SUBSET Pieces
  <2> HIDE DEF piece
  <2>1. QED
    BY <1>1, <1>2
<1>4. used \in Nat /\ used >= s.used + size
  BY <1>1, AlignedType
<1>5. CASE Fits(Aligned(s.used + size), room)
  <2>1. t = Pass(e, used, "ok", more)
    BY <1>5 DEF WritePiece
  <2> HIDE DEF e, more, used
  <2>2. /\ e \in Relocated /\ e[i].offset = s.used /\ e[i].size = size
        /\ \A j \in DOMAIN dir : j # i => e[j] = s.dir[j]
    <3> DEFINE d == s.dir
               o == s.used
    <3>1. d \in Relocated /\ o \in Nat /\ e = Placed(d, i, o, size)
      BY <1>1 DEF e
    <3> HIDE DEF d, o, t
    <3>2. LET p == Placed(d, i, o, size) IN
          /\ p \in Relocated /\ p[i].offset = o /\ p[i].size = size
          /\ \A j \in DOMAIN dir : j # i => p[j] = d[j]
      <4>1. d \in Relocated /\ o \in Nat
        BY <3>1
      <4>2. QED
        BY <4>1, Moved
    <3>3. QED
      BY <3>1, <3>2 DEF d, o
  <2> HIDE DEF t
  <2>3. /\ t \in Passes /\ t.dir = e /\ t.used = used /\ t.pieces = more
    <3>1. "ok" \in {"ok", "failed", "panicked"}
      OBVIOUS
    <3>2. QED
      BY <2>1, <2>2, <1>3, <1>4, <3>1, PassType
  <2>4. Laid(s, t, i, size, of)
    BY <2>2, <2>3, <1>4 DEF Laid, more, used
  <2>5. QED
    BY <2>3, <2>4 DEF t
<1>6. CASE ~Fits(Aligned(s.used + size), room)
  <2>1. t = Ended(s, "failed")
    BY <1>6 DEF WritePiece
  <2>2. t \in Passes /\ t.end = "failed"
    BY <2>1, EndedType
  <2>3. QED
    BY <2>2
<1>7. QED
  BY <1>5, <1>6


\* A tag SaveTags looks at, one it writes the bytes of from memory, and one it
\* writes at all.
Visited(i) == dir[i].name # NoSig /\ dir[i].linked = NoSig
Own(i) == Visited(i) /\ dir[i].ptr = RawBytes /\ dir[i].raw
Copied(i) == Visited(i) /\ dir[i].ptr = NilBytes /\ ~isWrite /\ hasIO
Wrote(i) == Own(i) \/ Copied(i)

LEMMA DirRelocated ==
  ASSUME TypeOK
  PROVE  dir \in Relocated
<1>1. \A i \in DOMAIN dir : dir[i] \in Slot
  BY DirType
<1>2. \A i \in DOMAIN dir : dir[i] \in AnySlot
  <2>1. {0} \cup DOMAIN Disk \subseteq Nat
    BY FileTypes
  <2>2. QED
    BY <1>1, <2>1 DEF Slot, AnySlot
<1>3. dir = [i \in DOMAIN dir |-> dir[i]]
  <2>1. dir \in [1 .. Len(dir) -> Slot]
    BY DirType DEF TypeOK
  <2>2. QED
    BY <2>1
<1>4. dir \in [DOMAIN dir -> AnySlot]
  BY <1>2, <1>3
<1>5. QED
  BY <1>4 DEF Relocated, SameTag

\* The piece a tag that is written has: its size, and whose bytes it is.
SizeOf(s, i) == IF Own(i) THEN s.dir[i].size ELSE dir[i].size
BytesOf(i) == IF Own(i) THEN dir[i].name ELSE dir[i].offset

LEMMA SaveTagStep ==
  ASSUME TypeOK, NEW s \in Passes, NEW i \in DOMAIN dir, NEW room
  PROVE  LET t == SaveTag(s, i, room) IN
         /\ s.end = "ok" => t \in Passes
         /\ s.end = "ok" /\ t.end = "ok" =>
              /\ ~Visited(i) => t = s
              /\ Visited(i) => dir[i].ptr.form = "raw"
              /\ Visited(i) /\ ~Wrote(i) => Left(s, t, i)
              /\ Wrote(i) => Laid(s, t, i, SizeOf(s, i), BytesOf(i))
<1> DEFINE t == SaveTag(s, i, room)
           slot == s.dir[i]
<1>1. s.dir \in Relocated /\ slot \in AnySlot /\ SameTag(slot, dir[i])
  BY DEF Passes, Relocated
<1>2. /\ slot.name = dir[i].name /\ slot.linked = dir[i].linked /\ slot.ptr = dir[i].ptr
      /\ (slot.raw <=> dir[i].raw)
  BY <1>1 DEF SameTag
<1>3. dir[i] \in Slot /\ dir[i].size \in Nat /\ dir[i].offset \in Nat /\ slot.size \in Nat
      /\ dir[i].name \in Sigs \cup {NoSig}
  BY <1>1, DirType, FileTypes DEF Slot, AnySlot
<1>4. RawBytes # NilBytes /\ RawBytes.form = "raw" /\ NilBytes.form = "raw"
  BY DEF RawBytes, NilBytes
<1>5. CASE ~Visited(i)
  <2>1. t = s
    BY <1>2, <1>5 DEF SaveTag, Visited
  <2>2. QED
    BY <1>5, <2>1 DEF Wrote, Own, Copied
<1>6. CASE Visited(i) /\ dir[i].ptr.form # "raw"
  <2>1. t = Ended(s, "panicked")
    BY <1>2, <1>6 DEF SaveTag, Visited
  <2>2. QED
    BY <2>1, EndedType
<1>7. CASE Visited(i) /\ dir[i].ptr.form = "raw" /\ dir[i].ptr = NilBytes
  <2>1. t = BlindCopy(s, i, room)
    BY <1>2, <1>7 DEF SaveTag, Visited
  <2>2. ~Own(i) /\ (Wrote(i) <=> ~isWrite /\ hasIO)
    BY <1>4, <1>7 DEF Wrote, Own, Copied
  <2>3. CASE isWrite
    <3>1. t = Ended(s, "failed")
      BY <2>1, <2>3 DEF BlindCopy
    <3>2. QED
      BY <3>1, EndedType
  <2>4. CASE ~isWrite /\ ~hasIO
    <3>1. t = Skipped(s, i)
      BY <2>1, <2>4 DEF BlindCopy
    <3>2. QED
      BY <3>1, <2>2, <2>4, <1>7, SkippedType
  <2>5. CASE ~isWrite /\ hasIO
    <3>1. t = WritePiece(s, i, dir[i].size, dir[i].offset, room)
      BY <2>1, <2>5 DEF BlindCopy
    <3>2. SizeOf(s, i) = dir[i].size /\ BytesOf(i) = dir[i].offset
      BY <2>2 DEF SizeOf, BytesOf
    <3>3. t \in Passes /\ (t.end = "ok" => Laid(s, t, i, SizeOf(s, i), BytesOf(i)))
      BY <3>1, <3>2, <1>3, WrittenType
    <3>4. QED
      BY <3>3, <2>2, <2>5, <1>7
  <2>6. QED
    BY <2>3, <2>4, <2>5
<1>8. CASE Visited(i) /\ dir[i].ptr.form = "raw" /\ dir[i].ptr # NilBytes /\ ~dir[i].raw
  <2>1. t = Skipped(s, i)
    BY <1>2, <1>8 DEF SaveTag, Visited
  <2>2. ~Wrote(i)
    BY <1>8 DEF Wrote, Own, Copied
  <2>3. QED
    BY <2>1, <2>2, <1>8, SkippedType
<1>9. CASE Visited(i) /\ dir[i].ptr.form = "raw" /\ dir[i].ptr # NilBytes /\ dir[i].raw
  <2>1. t = WritePiece(s, i, slot.size, slot.name, room)
    BY <1>2, <1>9 DEF SaveTag, Visited
  <2>2. Own(i) /\ Wrote(i)
    <3>1. dir[i].ptr = RawBytes
      BY <1>3, <1>9 DEF Slot, Ptrs, NoPtr, Cooked
    <3>2. QED
      BY <3>1, <1>9 DEF Wrote, Own
  <2>3. SizeOf(s, i) = slot.size /\ BytesOf(i) = slot.name
    BY <2>2, <1>2 DEF SizeOf, BytesOf
  <2>4. t \in Passes /\ (t.end = "ok" => Laid(s, t, i, SizeOf(s, i), BytesOf(i)))
    BY <2>1, <2>3, <1>2, <1>3, WrittenType
  <2>5. QED
    BY <2>2, <2>4, <1>9
<1>10. QED
  BY <1>5, <1>6, <1>7, <1>8, <1>9

SaveRound(s, i, room) == IF s.end # "ok" THEN s ELSE SaveTag(s, i, room)

\* The passes a run of SaveTags goes through.
IsSaving(f, d, room) ==
  /\ f \in [0 .. Len(dir) -> Passes]
  /\ f[0] = Pass(d, HeaderSize + DirectorySize(d), "ok", {})
  /\ \A i \in 1 .. Len(dir) : f[i] = SaveRound(f[i - 1], i, room)
  /\ SaveTags(d, room) = f[Len(dir)]

LEMMA DirectorySizeType ==
  ASSUME TypeOK, NEW d \in Relocated
  PROVE  /\ DirectorySize(d) \in Nat
         /\ DirectorySize(d) = DirectorySize(dir)
<1>1. Named(d) = Named(dir)
  BY DEF Named, Relocated, SameTag
<1>2. Cardinality(Named(dir)) \in Nat
  <2>1. Named(dir) \subseteq 1 .. Len(dir)
    BY DirType DEF Named
  <2>2. IsFiniteSet(1 .. Len(dir))
    BY DirType, FS_Interval
  <2>3. QED
    BY <2>1, <2>2, FS_Subset, FS_CardinalityType
<1>3. QED
  BY <1>1, <1>2 DEF DirectorySize

LEMMA SavingExists ==
  ASSUME TypeOK, NEW d \in Relocated, NEW room
  PROVE  \E f : IsSaving(f, d, room)
<1> DEFINE n == Len(dir)
           first == Pass(d, HeaderSize + DirectorySize(d), "ok", {})
           G == [p \in (1 .. n) \X Passes |-> SaveRound(p[2], p[1], room)]
           after[i \in 0 .. n] == IF i = 0 THEN first ELSE SaveRound(after[i - 1], i, room)
<1>1. n \in Nat /\ DOMAIN dir = 1 .. n /\ Len(d) = n
  <2>1. n \in Nat /\ DOMAIN dir = 1 .. n /\ d \in [1 .. n -> AnySlot]
    BY DirType DEF Relocated
  <2>2. QED
    BY <2>1, SeqOfFunction
<1>2. first \in Passes
  <2>1. "ok" \in {"ok", "failed", "panicked"} /\ {} \in SUBSET Pieces
    OBVIOUS
  <2>2. HeaderSize + DirectorySize(d) \in Nat
    BY DirectorySizeType DEF HeaderSize
  <2>3. QED
    BY <2>1, <2>2, PassType, Zenon
<1>3. ASSUME NEW i \in 1 .. n, NEW s \in Passes
      PROVE  SaveRound(s, i, room) \in Passes
  <2>1. i \in DOMAIN dir
    BY <1>1
  <2>2. QED
    BY <2>1, SaveTagStep DEF SaveRound
<1>4. \A i \in 1 .. n, s \in Passes : G[<<i, s>>] = SaveRound(s, i, room)
  OBVIOUS
<1>5. G \in [(1 .. n) \X Passes -> Passes]
  BY <1>3
<1> HIDE DEF n, first, G, after
<1>6. PICK f : IsLoop(f, n, Passes, first, G)
  BY <1>1, <1>2, <1>5, Iteration
<1>7. ASSUME NEW i \in 1 .. n
      PROVE  f[i] = SaveRound(f[i - 1], i, room)
  <2>1. f[i - 1] \in Passes
    BY <1>1, <1>6 DEF IsLoop
  <2>2. QED
    BY <1>6, <2>1, <1>4 DEF IsLoop
<1>8. f = [i \in 0 .. n |-> IF i = 0 THEN first ELSE SaveRound(f[i - 1], i, room)]
  BY <1>6, <1>7 DEF IsLoop
<1>9. after = [i \in 0 .. n |-> IF i = 0 THEN first ELSE SaveRound(after[i - 1], i, room)]
  BY <1>8 DEF after
<1>10. SaveTags(d, room) = after[n]
  BY <1>1 DEF SaveTags, after, first, SaveRound
<1>11. IsSaving(after, d, room)
  <2>1. after[0] = first /\ \A i \in 1 .. n : after[i] = SaveRound(after[i - 1], i, room)
    BY <1>1, <1>9
  <2>2. after \in [0 .. n -> Passes]
    <3> DEFINE Good == { i \in 0 .. n : after[i] \in Passes }
    <3>1. 0 \in Good
      BY <1>1, <1>2, <2>1
    <3>2. ASSUME NEW i \in 0 .. n, i \in Good, i < n
          PROVE  i + 1 \in Good
      <4>1. i + 1 \in 1 .. n /\ i + 1 \in 0 .. n /\ (i + 1) - 1 = i
        BY <1>1, <3>2
      <4>2. after[i + 1] = SaveRound(after[i], i + 1, room)
        BY <2>1, <4>1
      <4>3. QED
        BY <4>1, <4>2, <3>2, <1>3
    <3>3. 0 .. n \subseteq Good
      <4> HIDE DEF Good
      <4>1. QED
        BY <1>1, <3>1, <3>2, Induction
    <3>4. QED
      BY <3>3, <1>9
  <2>3. QED
    BY <2>1, <2>2, <1>10 DEF IsSaving, n, first
<1>12. QED
  BY <1>11


\* What a pass over the directory d has come to after the place i: the tags
\* further on are as they were; each tag with bytes has its piece where its
\* slot says, each piece is some tag's, and the pieces lie one after another.
Done(s, d, i) ==
  /\ \A j \in DOMAIN dir : j > i \/ ~Visited(j) => s.dir[j] = d[j]
  /\ \A j \in 1 .. i : Own(j) => s.dir[j].size = d[j].size
  /\ \A j \in 1 .. i : Own(j) =>
       [offset |-> s.dir[j].offset, size |-> d[j].size, of |-> dir[j].name] \in s.pieces
  /\ \A p \in s.pieces : \E j \in 1 .. i :
       /\ Wrote(j) /\ p.offset = s.dir[j].offset /\ p.size = s.dir[j].size
       /\ p.of = BytesOf(j)
  /\ \A j \in 1 .. i : Wrote(j) => s.dir[j].offset + s.dir[j].size <= s.used
  /\ \A j, k \in 1 .. i : j < k /\ Wrote(j) /\ Wrote(k) =>
       s.dir[j].offset + s.dir[j].size <= s.dir[k].offset
  /\ \A j \in 1 .. i : Visited(j) => dir[j].ptr.form = "raw"

LEMMA PlaceType ==
  ASSUME NEW s \in Passes, NEW j \in DOMAIN dir
  PROVE  s.dir[j].offset \in Nat /\ s.dir[j].size \in Nat /\ s.used \in Nat
BY DEF Passes, Relocated, AnySlot

LEMMA DoneStep ==
  ASSUME TypeOK, NEW d \in Relocated, NEW s \in Passes, NEW i \in 1 .. Len(dir), NEW room,
         s.end = "ok", Done(s, d, i - 1), SaveTag(s, i, room).end = "ok"
  PROVE  Done(SaveTag(s, i, room), d, i)
<1> DEFINE t == SaveTag(s, i, room)
<1>1. /\ Len(dir) \in Nat /\ DOMAIN dir = 1 .. Len(dir) /\ i \in DOMAIN dir /\ i \in Nat
      /\ \A j \in 1 .. i : j \in DOMAIN dir /\ j \in Nat /\ (j = i \/ j \in 1 .. (i - 1))
      /\ \A j \in 1 .. (i - 1) : j \in 1 .. i /\ j < i /\ j # i
  BY DirType
<1>2. /\ t \in Passes
      /\ ~Visited(i) => t = s
      /\ Visited(i) => dir[i].ptr.form = "raw"
      /\ Visited(i) /\ ~Wrote(i) => Left(s, t, i)
      /\ Wrote(i) => Laid(s, t, i, SizeOf(s, i), BytesOf(i))
  BY <1>1, SaveTagStep
<1>3. Wrote(i) => Visited(i)
  BY DEF Wrote, Own, Copied
<1>3a. Own(i) => Wrote(i)
  BY DEF Wrote
<1> HIDE DEF t
<1>4. s.dir[i] = d[i]
  BY <1>1 DEF Done
<1>5. t.dir[i].size = d[i].size \/ ~Own(i)
  BY <1>2, <1>3, <1>3a, <1>4 DEF Laid, SizeOf
<1>6. \A j \in DOMAIN dir : j # i => t.dir[j] = s.dir[j]
  BY <1>2, <1>3 DEF Left, Laid
<1>7. \A j \in DOMAIN dir : j > i \/ ~Visited(j) => t.dir[j] = d[j]
  <2> SUFFICES ASSUME NEW j \in DOMAIN dir, j > i \/ ~Visited(j) PROVE t.dir[j] = d[j]
    OBVIOUS
  <2>1. CASE j = i
    BY <1>1, <1>2, <1>4, <2>1
  <2>2. CASE j # i
    <3>1. j > i - 1 \/ ~Visited(j)
      BY <1>1
    <3>2. QED
      BY <3>1, <1>6, <2>2 DEF Done
  <2>3. QED
    BY <2>1, <2>2
<1>8. \A j \in 1 .. i : Own(j) => t.dir[j].size = d[j].size
  <2> SUFFICES ASSUME NEW j \in 1 .. i, Own(j) PROVE t.dir[j].size = d[j].size
    OBVIOUS
  <2>1. CASE j = i
    BY <1>5, <2>1
  <2>2. CASE j # i
    BY <1>1, <1>6, <2>2 DEF Done
  <2>3. QED
    BY <2>1, <2>2
<1>9. s.pieces \subseteq t.pieces
  BY <1>2, <1>3 DEF Left, Laid
<1>10. \A j \in 1 .. i : Own(j) =>
         [offset |-> t.dir[j].offset, size |-> d[j].size, of |-> dir[j].name] \in t.pieces
  <2> SUFFICES ASSUME NEW j \in 1 .. i, Own(j)
      PROVE  [offset |-> t.dir[j].offset, size |-> d[j].size, of |-> dir[j].name] \in t.pieces
    OBVIOUS
  <2>1. CASE j = i
    <3>1. SizeOf(s, i) = d[i].size /\ BytesOf(i) = dir[i].name
      BY <1>4, <2>1 DEF SizeOf, BytesOf
    <3>2. Laid(s, t, i, d[i].size, dir[i].name)
      BY <3>1, <1>2, <1>3a, <2>1
    <3>3. QED
      BY <3>2, <2>1 DEF Laid
  <2>2. CASE j # i
    <3>1. [offset |-> s.dir[j].offset, size |-> d[j].size, of |-> dir[j].name] \in s.pieces
      BY <1>1, <2>2 DEF Done
    <3>2. t.dir[j] = s.dir[j]
      BY <1>1, <1>6, <2>2
    <3>3. QED
      BY <3>1, <3>2, <1>9
  <2>3. QED
    BY <2>1, <2>2
<1>11. ASSUME NEW p \in t.pieces
       PROVE  \E j \in 1 .. i :
                /\ Wrote(j) /\ p.offset = t.dir[j].offset /\ p.size = t.dir[j].size
                /\ p.of = BytesOf(j)
  <2>1. CASE p \in s.pieces
    <3>1. PICK j \in 1 .. (i - 1) :
            /\ Wrote(j) /\ p.offset = s.dir[j].offset /\ p.size = s.dir[j].size
            /\ p.of = BytesOf(j)
      BY <2>1 DEF Done
    <3>2. t.dir[j] = s.dir[j] /\ j \in 1 .. i
      BY <1>1, <1>6
    <3>3. QED
      BY <3>1, <3>2
  <2>2. CASE p \notin s.pieces
    <3>1. Laid(s, t, i, SizeOf(s, i), BytesOf(i)) /\ Wrote(i)
      BY <1>2, <2>2 DEF Left
    <3>2. p = [offset |-> s.used, size |-> SizeOf(s, i), of |-> BytesOf(i)]
      BY <3>1, <2>2 DEF Laid
    <3>3. p.offset = t.dir[i].offset /\ p.size = t.dir[i].size /\ p.of = BytesOf(i)
      BY <3>1, <3>2 DEF Laid
    <3>4. i \in 1 .. i
      BY <1>1
    <3>5. QED
      BY <3>1, <3>3, <3>4
  <2>3. QED
    BY <2>1, <2>2
<1>12. /\ s.used \in Nat /\ t.used \in Nat /\ t.used >= s.used
       /\ Wrote(i) => t.dir[i].offset = s.used /\ t.dir[i].offset + t.dir[i].size <= t.used
  <2>1. s.used \in Nat /\ t.used \in Nat /\ t.dir[i].size \in Nat
    BY <1>1, <1>2, PlaceType
  <2>2. CASE ~Wrote(i)
    BY <1>2, <2>1, <2>2 DEF Left
  <2>3. CASE Wrote(i)
    BY <1>2, <2>1, <2>3 DEF Laid
  <2>4. QED
    BY <2>1, <2>2, <2>3
<1>13. \A j \in 1 .. i : Wrote(j) => t.dir[j].offset + t.dir[j].size <= t.used
  <2> SUFFICES ASSUME NEW j \in 1 .. i, Wrote(j)
      PROVE  t.dir[j].offset + t.dir[j].size <= t.used
    OBVIOUS
  <2>1. CASE j = i
    BY <1>12, <2>1
  <2>2. CASE j # i
    <3>1. s.dir[j].offset + s.dir[j].size <= s.used /\ t.dir[j] = s.dir[j]
      BY <1>1, <1>6, <2>2 DEF Done
    <3>2. s.dir[j].offset \in Nat /\ s.dir[j].size \in Nat
      BY <1>1, PlaceType
    <3>3. QED
      BY <3>1, <3>2, <1>12
  <2>3. QED
    BY <2>1, <2>2
<1>14. ASSUME NEW j \in 1 .. i, NEW k \in 1 .. i, j < k, Wrote(j), Wrote(k)
       PROVE  t.dir[j].offset + t.dir[j].size <= t.dir[k].offset
  <2>1. j \in 1 .. (i - 1) /\ j \in DOMAIN dir /\ j # i
    BY <1>1, <1>14
  <2>2. t.dir[j] = s.dir[j]
    BY <1>6, <2>1
  <2>3. CASE k = i
    <3>1. s.dir[j].offset + s.dir[j].size <= s.used /\ t.dir[k].offset = s.used
      BY <2>1, <2>3, <1>12, <1>14 DEF Done
    <3>2. QED
      BY <3>1, <2>2
  <2>4. CASE k # i
    <3>1. t.dir[k] = s.dir[k] /\ k \in 1 .. (i - 1)
      BY <1>1, <1>6, <2>4
    <3>2. QED
      BY <3>1, <2>1, <2>2, <1>14 DEF Done
  <2>5. QED
    BY <2>3, <2>4
<1>15. \A j \in 1 .. i : Visited(j) => dir[j].ptr.form = "raw"
  <2> SUFFICES ASSUME NEW j \in 1 .. i, Visited(j) PROVE dir[j].ptr.form = "raw"
    OBVIOUS
  <2>1. CASE j = i
    BY <1>2, <2>1
  <2>2. CASE j # i
    BY <1>1, <2>2 DEF Done
  <2>3. QED
    BY <2>1, <2>2
<1>16. Done(t, d, i)
  BY <1>7, <1>8, <1>10, <1>11, <1>13, <1>14, <1>15 DEF Done
<1>17. QED
  BY <1>16 DEF t

LEMMA SavingDone ==
  ASSUME TypeOK, NEW d \in Relocated, NEW room, NEW f, IsSaving(f, d, room)
  PROVE  \A i \in 0 .. Len(dir) : f[i] \in Passes /\ (f[i].end = "ok" => Done(f[i], d, i))
<1> DEFINE n == Len(dir)
           Good == { i \in 0 .. n : f[i].end = "ok" => Done(f[i], d, i) }
<1>1. n \in Nat /\ DOMAIN dir = 1 .. n /\ \A i \in 0 .. n : f[i] \in Passes
  BY DirType DEF IsSaving
<1>2. 0 \in Good
  <2>1. f[0] = Pass(d, HeaderSize + DirectorySize(d), "ok", {})
    BY DEF IsSaving
  <2>2. f[0].dir = d /\ f[0].pieces = {}
    BY <2>1 DEF Pass
  <2>3. \A j \in DOMAIN dir : f[0].dir[j] = d[j]
    BY <2>2
  <2>4. Done(f[0], d, 0)
    BY <2>2, <2>3 DEF Done
  <2>5. QED
    BY <1>1, <2>4
<1>3. ASSUME NEW i \in 0 .. n, i \in Good, i < n
      PROVE  i + 1 \in Good
  <2>1. i + 1 \in 1 .. n /\ i + 1 \in 0 .. n /\ (i + 1) - 1 = i
    BY <1>1, <1>3
  <2>2. f[i + 1] = SaveRound(f[i], i + 1, room)
    BY <2>1 DEF IsSaving
  <2>3. CASE f[i].end # "ok"
    BY <2>1, <2>2, <2>3 DEF SaveRound
  <2>4. CASE f[i].end = "ok"
    <3>1. f[i + 1] = SaveTag(f[i], i + 1, room)
      BY <2>2, <2>4 DEF SaveRound
    <3>2. Done(f[i], d, (i + 1) - 1)
      BY <1>3, <2>1, <2>4
    <3>3. f[i] \in Passes
      BY <1>1
    <3>4. ASSUME f[i + 1].end = "ok"
          PROVE  Done(f[i + 1], d, i + 1)
      <4> DEFINE k == i + 1
                 s == f[i]
      <4>1. k \in 1 .. Len(dir) /\ s \in Passes /\ s.end = "ok" /\ Done(s, d, k - 1)
            /\ SaveTag(s, k, room).end = "ok"
        BY <2>1, <2>4, <3>1, <3>2, <3>3, <3>4
      <4> HIDE DEF k, s
      <4>2. Done(SaveTag(s, k, room), d, k)
        BY <4>1, DoneStep
      <4>3. QED
        BY <4>2, <3>1 DEF k, s
    <3>5. QED
      BY <2>1, <3>4
  <2>5. QED
    BY <2>3, <2>4
<1>4. 0 .. n \subseteq Good
  <2> HIDE DEF Good, n
  <2>1. QED
    BY <1>1, <1>2, <1>3, Induction
<1>5. QED
  BY <1>1, <1>4


\* Two passes over directories that agree on the sizes of the tags with bytes
\* of their own put every tag at the same place.
Agree(s, t, i) ==
  s.used = t.used /\ \A j \in 1 .. i : Visited(j) => s.dir[j].offset = t.dir[j].offset

LEMMA AgreeStep ==
  ASSUME TypeOK, NEW s \in Passes, NEW t \in Passes, NEW i \in 1 .. Len(dir),
         NEW room1, NEW room2, s.end = "ok", t.end = "ok",
         SaveTag(s, i, room1).end = "ok", SaveTag(t, i, room2).end = "ok",
         Own(i) => s.dir[i].size = t.dir[i].size,
         Agree(s, t, i - 1)
  PROVE  Agree(SaveTag(s, i, room1), SaveTag(t, i, room2), i)
<1> DEFINE s2 == SaveTag(s, i, room1)
           t2 == SaveTag(t, i, room2)
<1>1. /\ i \in DOMAIN dir
      /\ \A j \in 1 .. i : j \in DOMAIN dir /\ (j = i \/ (j # i /\ j \in 1 .. (i - 1)))
  BY DirType
<1>2. /\ ~Visited(i) => s2 = s
      /\ Visited(i) /\ ~Wrote(i) => Left(s, s2, i)
      /\ Wrote(i) => Laid(s, s2, i, SizeOf(s, i), BytesOf(i))
  BY <1>1, SaveTagStep
<1>3. /\ ~Visited(i) => t2 = t
      /\ Visited(i) /\ ~Wrote(i) => Left(t, t2, i)
      /\ Wrote(i) => Laid(t, t2, i, SizeOf(t, i), BytesOf(i))
  BY <1>1, SaveTagStep
<1>4. Wrote(i) => Visited(i)
  BY DEF Wrote, Own, Copied
<1>5. SizeOf(s, i) = SizeOf(t, i)
  BY DEF SizeOf
<1>6. s.used = t.used /\ \A j \in 1 .. (i - 1) : Visited(j) => s.dir[j].offset = t.dir[j].offset
  BY DEF Agree
<1> HIDE DEF s2, t2
<1>7. s2.used = t2.used
  <2>1. CASE ~Visited(i)
    BY <1>2, <1>3, <1>6, <2>1
  <2>2. CASE Visited(i) /\ ~Wrote(i)
    BY <1>2, <1>3, <1>6, <2>2 DEF Left
  <2>3. CASE Wrote(i)
    <3>1. s2.used = Aligned(s.used + SizeOf(s, i)) /\ t2.used = Aligned(t.used + SizeOf(t, i))
      BY <1>2, <1>3, <2>3 DEF Laid
    <3>2. QED
      BY <3>1, <1>5, <1>6
  <2>4. QED
    BY <1>4, <2>1, <2>2, <2>3
<1>8. ASSUME NEW j \in 1 .. i, Visited(j)
      PROVE  s2.dir[j].offset = t2.dir[j].offset
  <2>1. CASE j = i
    <3>1. s2.dir[i].offset = s.used /\ t2.dir[i].offset = t.used
      BY <1>2, <1>3, <1>8, <2>1 DEF Left, Laid
    <3>2. QED
      BY <3>1, <1>6, <2>1
  <2>2. CASE j # i
    <3>1. s2.dir[j] = s.dir[j] /\ t2.dir[j] = t.dir[j] /\ j \in 1 .. (i - 1)
      BY <1>1, <1>2, <1>3, <2>2 DEF Left, Laid
    <3>2. QED
      BY <3>1, <1>6, <1>8
  <2>3. QED
    BY <2>1, <2>2
<1>9. Agree(s2, t2, i)
  BY <1>7, <1>8 DEF Agree
<1>10. QED
  BY <1>9 DEF s2, t2

LEMMA PassesAgree ==
  ASSUME TypeOK, NEW d \in Relocated, NEW e \in Relocated, NEW room1, NEW room2,
         NEW f, IsSaving(f, d, room1), NEW g, IsSaving(g, e, room2),
         \A i \in DOMAIN dir : Own(i) => d[i].size = e[i].size,
         f[Len(dir)].end = "ok", g[Len(dir)].end = "ok"
  PROVE  Agree(f[Len(dir)], g[Len(dir)], Len(dir))
<1> DEFINE n == Len(dir)
           Good == { i \in 0 .. n : f[i].end = "ok" /\ g[i].end = "ok" => Agree(f[i], g[i], i) }
<1>1. n \in Nat /\ DOMAIN dir = 1 .. n
  BY DirType
<1>2. /\ \A i \in 0 .. n : f[i] \in Passes /\ (f[i].end = "ok" => Done(f[i], d, i))
      /\ \A i \in 0 .. n : g[i] \in Passes /\ (g[i].end = "ok" => Done(g[i], e, i))
  BY SavingDone
<1>3. 0 \in Good
  <2>1. f[0] = Pass(d, HeaderSize + DirectorySize(d), "ok", {})
        /\ g[0] = Pass(e, HeaderSize + DirectorySize(e), "ok", {})
    BY DEF IsSaving
  <2>2. f[0].used = HeaderSize + DirectorySize(d) /\ g[0].used = HeaderSize + DirectorySize(e)
    BY <2>1 DEF Pass
  <2>3. f[0].used = g[0].used
    BY <2>2, DirectorySizeType
  <2>4. Agree(f[0], g[0], 0)
    BY <2>3 DEF Agree
  <2>5. QED
    BY <1>1, <2>4
<1>4. ASSUME NEW i \in 0 .. n, i \in Good, i < n
      PROVE  i + 1 \in Good
  <2> DEFINE k == i + 1
  <2>1. k \in 1 .. n /\ k \in 0 .. n /\ k - 1 = i /\ k > i /\ k \in DOMAIN dir
    BY <1>1, <1>4
  <2>2. f[k] = SaveRound(f[i], k, room1) /\ g[k] = SaveRound(g[i], k, room2)
    BY <2>1 DEF IsSaving
  <2> HIDE DEF k
  <2>3. ASSUME f[k].end = "ok", g[k].end = "ok"
        PROVE  Agree(f[k], g[k], k)
    <3>1. f[i].end = "ok" /\ g[i].end = "ok"
      BY <2>2, <2>3 DEF SaveRound
    <3>2. f[k] = SaveTag(f[i], k, room1) /\ g[k] = SaveTag(g[i], k, room2)
      BY <2>2, <3>1 DEF SaveRound
    <3>3. Agree(f[i], g[i], k - 1)
      BY <1>4, <2>1, <3>1
    <3>4. Own(k) => f[i].dir[k].size = g[i].dir[k].size
      <4>1. Done(f[i], d, i) /\ Done(g[i], e, i)
        BY <1>2, <3>1
      <4>2. f[i].dir[k] = d[k] /\ g[i].dir[k] = e[k]
        BY <2>1, <4>1 DEF Done
      <4>3. QED
        BY <2>1, <4>2
    <3>5. f[i] \in Passes /\ g[i] \in Passes
      BY <1>2
    <3> DEFINE s == f[i]
               t == g[i]
    <3>6. /\ s \in Passes /\ t \in Passes /\ s.end = "ok" /\ t.end = "ok" /\ k \in 1 .. Len(dir)
          /\ SaveTag(s, k, room1).end = "ok" /\ SaveTag(t, k, room2).end = "ok"
          /\ (Own(k) => s.dir[k].size = t.dir[k].size) /\ Agree(s, t, k - 1)
      BY <2>1, <2>3, <3>1, <3>2, <3>3, <3>4, <3>5
    <3> HIDE DEF s, t
    <3>7. Agree(SaveTag(s, k, room1), SaveTag(t, k, room2), k)
      BY <3>6, AgreeStep
    <3>8. QED
      BY <3>2, <3>7 DEF s, t
  <2>4. QED
    BY <2>1, <2>3 DEF k
<1>5. 0 .. n \subseteq Good
  <2> HIDE DEF Good, n
  <2>1. QED
    BY <1>1, <1>3, <1>4, Induction
<1>6. QED
  BY <1>1, <1>5

----------------------------------------------------------------------------
(* The links of a saved directory *)

\* The place of the tag that a slot links to.
NextOf(i) == SearchOneTag(dir[i].linked)

LinkRound(e, i) ==
  IF dir[i].linked = NoSig \/ NextOf(i) \notin DOMAIN dir THEN e
  ELSE Placed(e, i, e[NextOf(i)].offset, e[NextOf(i)].size)

LEMMA LinkRoundType ==
  ASSUME NEW e \in Relocated, NEW i \in DOMAIN dir
  PROVE  /\ LinkRound(e, i) \in Relocated
         /\ \A j \in DOMAIN dir : j # i => LinkRound(e, i)[j] = e[j]
         /\ dir[i].linked = NoSig => LinkRound(e, i)[i] = e[i]
         /\ dir[i].linked # NoSig /\ NextOf(i) \in DOMAIN dir =>
              /\ LinkRound(e, i)[i].offset = e[NextOf(i)].offset
              /\ LinkRound(e, i)[i].size = e[NextOf(i)].size
<1>1. CASE dir[i].linked = NoSig \/ NextOf(i) \notin DOMAIN dir
  BY <1>1 DEF LinkRound
<1>2. CASE dir[i].linked # NoSig /\ NextOf(i) \in DOMAIN dir
  <2> DEFINE o == e[NextOf(i)].offset
             z == e[NextOf(i)].size
             t == LinkRound(e, i)
  <2>1. o \in Nat /\ z \in Nat
    BY <1>2 DEF Relocated, AnySlot
  <2>2. t = Placed(e, i, o, z)
    BY <1>2 DEF LinkRound
  <2> HIDE DEF o, z, t
  <2>3. /\ t \in Relocated /\ t[i].offset = o /\ t[i].size = z
        /\ \A j \in DOMAIN dir : j # i => t[j] = e[j]
    BY <2>1, <2>2, Moved
  <2>4. QED
    BY <1>2, <2>3 DEF o, z, t
<1>3. QED
  BY <1>1, <1>2

\* A link has the place of the tag it names, if that is no link, or one before it.
LEMMA SetLinksResult ==
  ASSUME TypeOK, NEW d \in Relocated
  PROVE  /\ SetLinks(d) \in Relocated
         /\ \A i \in DOMAIN dir : dir[i].linked = NoSig => SetLinks(d)[i] = d[i]
         /\ \A i \in DOMAIN dir :
              LET j == NextOf(i) IN
              /\ dir[i].linked # NoSig /\ j \in DOMAIN dir
              /\ dir[j].linked = NoSig \/ j < i
              => /\ SetLinks(d)[i].offset = SetLinks(d)[j].offset
                 /\ SetLinks(d)[i].size = SetLinks(d)[j].size
<1> DEFINE n == Len(dir)
           G == [p \in (1 .. n) \X Relocated |-> LinkRound(p[2], p[1])]
           after[i \in 0 .. n] == IF i = 0 THEN d ELSE LinkRound(after[i - 1], i)
           round(e, i) == LET j == SearchOneTag(e[i].linked)
                          IN IF e[i].linked = NoSig \/ j \notin DOMAIN e THEN e
                             ELSE Placed(e, i, e[j].offset, e[j].size)
           step[i \in 0 .. n] == IF i = 0 THEN d ELSE round(step[i - 1], i)
<1>1. n \in Nat /\ DOMAIN dir = 1 .. n /\ Len(d) = n
  <2>1. n \in Nat /\ DOMAIN dir = 1 .. n /\ d \in [1 .. n -> AnySlot]
    BY DirType DEF Relocated
  <2>2. QED
    BY <2>1, SeqOfFunction
<1>2. \A i \in 1 .. n, e \in Relocated : LinkRound(e, i) \in Relocated
  BY <1>1, LinkRoundType
<1>3. \A i \in 1 .. n, e \in Relocated : round(e, i) = LinkRound(e, i)
  BY <1>1 DEF LinkRound, NextOf, Relocated, SameTag
<1>4. SetLinks(d) = step[n]
  BY <1>1 DEF SetLinks
<1>5. \A i \in 1 .. n, e \in Relocated : G[<<i, e>>] = LinkRound(e, i)
  OBVIOUS
<1>6. G \in [(1 .. n) \X Relocated -> Relocated]
  BY <1>2
<1> HIDE DEF n, G, after, step, round
<1>7. PICK f : IsLoop(f, n, Relocated, d, G)
  BY <1>1, <1>6, Iteration
<1>8. /\ \A i \in 0 .. n : f[i] \in Relocated
      /\ f[0] = d
      /\ \A i \in 1 .. n : f[i - 1] \in Relocated /\ f[i] = LinkRound(f[i - 1], i)
  <2>1. \A i \in 1 .. n : f[i - 1] \in Relocated
    BY <1>1, <1>7 DEF IsLoop
  <2>2. \A i \in 1 .. n : f[i] = G[<<i, f[i - 1]>>]
    BY <1>7 DEF IsLoop
  <2>3. \A i \in 1 .. n : f[i] = LinkRound(f[i - 1], i)
    BY <2>1, <2>2, <1>5
  <2>4. QED
    BY <1>7, <2>1, <2>3 DEF IsLoop
<1>9. f = [i \in 0 .. n |-> IF i = 0 THEN d ELSE round(f[i - 1], i)]
  BY <1>3, <1>7, <1>8 DEF IsLoop
<1>10. step = [i \in 0 .. n |-> IF i = 0 THEN d ELSE round(step[i - 1], i)]
  BY <1>9 DEF step
<1>11. step[0] = d /\ \A i \in 1 .. n : step[i] = round(step[i - 1], i)
  BY <1>1, <1>10
<1>12. \A i \in 0 .. n : step[i] \in Relocated
  <2> DEFINE Good == { i \in 0 .. n : step[i] \in Relocated }
  <2>1. 0 \in Good
    BY <1>1, <1>11
  <2>2. ASSUME NEW i \in 0 .. n, i \in Good, i < n
        PROVE  i + 1 \in Good
    <3>1. i + 1 \in 1 .. n /\ i + 1 \in 0 .. n /\ (i + 1) - 1 = i
      BY <1>1, <2>2
    <3>2. step[i + 1] = round(step[i], i + 1)
      BY <1>11, <3>1
    <3>3. QED
      BY <3>1, <3>2, <2>2, <1>2, <1>3
  <2>3. 0 .. n \subseteq Good
    <3> HIDE DEF Good
    <3>1. QED
      BY <1>1, <2>1, <2>2, Induction
  <2>4. QED
    BY <2>3
<1>13. ASSUME NEW i \in 1 .. n
       PROVE  step[i - 1] \in Relocated /\ step[i] = LinkRound(step[i - 1], i)
  <2>1. i - 1 \in 0 .. n
    BY <1>1
  <2>2. QED
    BY <2>1, <1>3, <1>11, <1>12
<1> DEFINE Behind(i) == /\ dir[i].linked # NoSig /\ NextOf(i) \in DOMAIN dir
                        /\ dir[NextOf(i)].linked = NoSig \/ NextOf(i) < i
           Same(e, i, j) == e[i].offset = e[j].offset /\ e[i].size = e[j].size
           Set(e, k) == /\ \A i \in DOMAIN dir : dir[i].linked = NoSig => e[i] = d[i]
                        /\ \A i \in 1 .. k : Behind(i) => Same(e, i, NextOf(i))
           Good == { k \in 0 .. n : Set(step[k], k) }
<1>14. 0 \in Good
  BY <1>1, <1>11
<1>15. ASSUME NEW k \in 0 .. n, k \in Good, k < n
       PROVE  k + 1 \in Good
  <2> DEFINE m == k + 1
             a == step[k]
             b == step[m]
  <2>1. /\ m \in 1 .. n /\ m \in 0 .. n /\ m - 1 = k /\ m \in DOMAIN dir /\ m \in Nat
        /\ \A i \in 1 .. m : i \in DOMAIN dir /\ (i = m \/ (i # m /\ i < m /\ i \in 1 .. k))
    BY <1>1, <1>15
  <2>2. Set(a, k)
    BY <1>15
  <2>3. /\ \A j \in DOMAIN dir : j # m => b[j] = a[j]
        /\ dir[m].linked = NoSig => b[m] = a[m]
        /\ dir[m].linked # NoSig /\ NextOf(m) \in DOMAIN dir =>
             /\ b[m].offset = a[NextOf(m)].offset
             /\ b[m].size = a[NextOf(m)].size
    <3>1. a \in Relocated /\ b = LinkRound(a, m)
      BY <2>1, <1>13
    <3> HIDE DEF a, b, m
    <3>2. QED
      BY <3>1, <2>1, LinkRoundType
  <2> HIDE DEF a, b, m
  <2>4. \A i \in DOMAIN dir : dir[i].linked = NoSig => b[i] = d[i]
    BY <2>2, <2>3
  <2>5. ASSUME NEW i \in 1 .. m, Behind(i)
        PROVE  Same(b, i, NextOf(i))
    <3>1. CASE i = m
      <4>1. NextOf(i) # m
        BY <2>1, <2>5, <3>1
      <4>2. b[NextOf(i)] = a[NextOf(i)]
        BY <2>3, <2>5, <4>1
      <4>3. QED
        BY <2>3, <2>5, <3>1, <4>2
    <3>2. CASE i # m
      <4>1. i \in 1 .. k /\ i \in DOMAIN dir /\ i < m
        BY <2>1, <3>2
      <4>2. b[i] = a[i] /\ Same(a, i, NextOf(i))
        BY <2>2, <2>3, <2>5, <3>2, <4>1
      <4>3. b[NextOf(i)] = a[NextOf(i)]
        <5>1. NextOf(i) # m \/ dir[m].linked = NoSig
          BY <2>1, <2>5, <4>1
        <5>2. QED
          BY <5>1, <2>3, <2>5
      <4>4. QED
        BY <4>2, <4>3
    <3>3. QED
      BY <3>1, <3>2
  <2>6. Set(b, m)
    BY <2>4, <2>5
  <2>7. QED
    BY <2>1, <2>6 DEF b, m
<1>16. Set(step[n], n)
  <2>1. n \in Good
    <3> HIDE DEF Good
    <3>1. 0 .. n \subseteq Good
      BY <1>1, <1>14, <1>15, Induction
    <3>2. QED
      BY <1>1, <3>1
  <2>2. QED
    BY <2>1
<1>17. SetLinks(d) \in Relocated
  BY <1>1, <1>4, <1>12
<1>18. QED
  BY <1>1, <1>4, <1>16, <1>17


----------------------------------------------------------------------------
(* The links cmsSearchTag follows *)

\* st[k] is the signature after k links from sig.
IsChain(st, sig) ==
  /\ st[0] = sig
  /\ \A k \in 0 .. Len(dir) : st[k] \in Sigs \cup {NoSig}
  /\ \A k \in 1 .. Len(dir) : st[k] = LinkedFrom(st[k - 1])
  /\ Chain(sig) = { st[k] : k \in 0 .. Len(dir) } \ {NoSig}

LEMMA LinkedFromType ==
  ASSUME TypeOK, NEW sig
  PROVE  LinkedFrom(sig) \in Sigs \cup {NoSig}
<1>1. SlotAt(SearchOneTag(sig)) \in Slot
  BY SlotAtType
<1>2. QED
  BY <1>1 DEF LinkedFrom, Slot

LEMMA ChainExists ==
  ASSUME TypeOK, NEW sig \in Sigs
  PROVE  \E st : IsChain(st, sig)
<1> DEFINE n == Len(dir)
           S == Sigs \cup {NoSig}
           G == [p \in (1 .. n) \X S |-> LinkedFrom(p[2])]
           step[k \in 0 .. n] == IF k = 0 THEN sig ELSE LinkedFrom(step[k - 1])
<1>1. n \in Nat /\ sig \in S
  BY DirType
<1>2. G \in [(1 .. n) \X S -> S] /\ \A k \in 1 .. n, s \in S : G[<<k, s>>] = LinkedFrom(s)
  BY LinkedFromType
<1>3. Chain(sig) = { step[k] : k \in 0 .. n } \ {NoSig}
  BY DEF Chain
<1> HIDE DEF n, G, step, S
<1>4. PICK f : IsLoop(f, n, S, sig, G)
  BY <1>1, <1>2, Iteration
<1>5. ASSUME NEW k \in 1 .. n
      PROVE  f[k] = LinkedFrom(f[k - 1])
  <2>1. f[k - 1] \in S
    BY <1>1, <1>4 DEF IsLoop
  <2>2. QED
    BY <1>4, <2>1, <1>2 DEF IsLoop
<1>6. f = [k \in 0 .. n |-> IF k = 0 THEN sig ELSE LinkedFrom(f[k - 1])]
  BY <1>4, <1>5 DEF IsLoop
<1>7. step = [k \in 0 .. n |-> IF k = 0 THEN sig ELSE LinkedFrom(step[k - 1])]
  BY <1>6 DEF step
<1>8. step[0] = sig /\ \A k \in 1 .. n : step[k] = LinkedFrom(step[k - 1])
  BY <1>1, <1>7
<1>9. \A k \in 0 .. n : step[k] \in S
  <2>1. \A k \in 0 .. n : k = 0 \/ k \in 1 .. n
    BY <1>1
  <2>2. QED
    BY <2>1, <1>1, <1>8, LinkedFromType DEF S
<1>10. IsChain(step, sig)
  BY <1>3, <1>8, <1>9 DEF IsChain, n, S
<1>11. QED
  BY <1>10

\* A chain has one end at most, and cmsSearchTag comes to it.
LEMMA ChainEnd ==
  ASSUME TypeOK, NEW sig \in Sigs, NEW st, IsChain(st, sig), NEW K \in 0 .. Len(dir),
         st[K] # NoSig, LinkedFrom(st[K]) = NoSig
  PROVE  Resolve(sig) = SearchOneTag(st[K])
<1> DEFINE n == Len(dir)
<1>1. n \in Nat
  BY DirType
<1>2. LinkedFrom(NoSig) = NoSig
  BY DEF LinkedFrom
<1>3. ASSUME NEW k \in 0 .. n, st[k] # NoSig, LinkedFrom(st[k]) = NoSig, NEW l \in 0 .. n, l > k
      PROVE  st[l] = NoSig
  <2> DEFINE Good == { i \in 0 .. n : i > k => st[i] = NoSig }
  <2>1. 0 \in Good
    BY <1>1
  <2>2. ASSUME NEW i \in 0 .. n, i \in Good, i < n
        PROVE  i + 1 \in Good
    <3>1. i + 1 \in 1 .. n /\ i + 1 \in 0 .. n /\ (i + 1) - 1 = i
      BY <1>1, <2>2
    <3>2. st[i + 1] = LinkedFrom(st[i])
      BY <3>1 DEF IsChain
    <3>3. CASE i > k
      BY <3>1, <3>2, <3>3, <2>2, <1>2
    <3>4. CASE i = k
      BY <3>1, <3>2, <3>4, <1>3
    <3>5. CASE i < k
      BY <3>1, <3>5
    <3>6. QED
      BY <3>3, <3>4, <3>5
  <2>3. 0 .. n \subseteq Good
    <3> HIDE DEF Good, n
    <3>1. QED
      BY <1>1, <2>1, <2>2, Induction
  <2>4. QED
    BY <2>3, <1>3
<1>4. ASSUME NEW s \in Chain(sig), LinkedFrom(s) = NoSig
      PROVE  s = st[K]
  <2>1. PICK k \in 0 .. n : s = st[k] /\ st[k] # NoSig
    BY DEF IsChain
  <2>2. k = K \/ k > K \/ K > k
    BY <1>1
  <2>3. QED
    BY <2>1, <2>2, <1>3, <1>4
<1>5. st[K] \in Chain(sig)
  BY DEF IsChain
<1>6. (CHOOSE s \in Chain(sig) : LinkedFrom(s) = NoSig) = st[K]
  BY <1>4, <1>5
<1>7. QED
  BY <1>6 DEF Resolve

\* From a signature with no misplaced link the chain goes through the
\* directory to an end, all but its last link back towards the first place.
Straight(st, K) ==
  /\ st[K] # NoSig /\ LinkedFrom(st[K]) = NoSig
  /\ \A k \in 0 .. Len(dir) : k < K =>
       LET i == SearchOneTag(st[k])
           j == SearchOneTag(st[k + 1])
       IN /\ st[k] \in Sigs /\ st[k + 1] \in Sigs
          /\ i \in DOMAIN dir /\ j \in DOMAIN dir
          /\ dir[i].linked = st[k + 1]
          /\ dir[j].linked = NoSig \/ j < i

LEMMA ChainStraight ==
  ASSUME TypeOK, NEW sig \in Sigs, NEW st, IsChain(st, sig),
         \A s \in Chain(sig) : ~MisplacedLink(s)
  PROVE  \E K \in 0 .. Len(dir) : Straight(st, K)
<1> DEFINE n == Len(dir)
           Ends == { k \in 0 .. n : LinkedFrom(st[k]) = NoSig }
<1>1. n \in Nat /\ DOMAIN dir = 1 .. n
  BY DirType
<1>2. NoSig \notin Sigs /\ LinkedFrom(NoSig) = NoSig
  BY TagsAssumption DEF LinkedFrom
<1>3. ASSUME NEW k \in 0 .. n, LinkedFrom(st[k]) # NoSig
      PROVE  LET i == SearchOneTag(st[k])
                 j == SearchOneTag(LinkedFrom(st[k]))
             IN /\ st[k] \in Sigs /\ LinkedFrom(st[k]) \in Sigs
                /\ i \in DOMAIN dir /\ j \in DOMAIN dir
                /\ dir[i].linked = LinkedFrom(st[k])
                /\ dir[j].linked = NoSig \/ j < i
  <2> DEFINE i == SearchOneTag(st[k])
             j == SearchOneTag(LinkedFrom(st[k]))
  <2>1. st[k] # NoSig /\ st[k] \in Sigs
    BY <1>2, <1>3 DEF IsChain
  <2>2. LinkedFrom(st[k]) = SlotAt(i).linked
    BY <2>1 DEF LinkedFrom
  <2>3. i \in DOMAIN dir /\ SlotAt(i) = dir[i]
    BY <2>2, <1>3 DEF SlotAt, BlankSlot
  <2>4. LinkedFrom(st[k]) \in Sigs
    BY <1>3, LinkedFromType
  <2>5. st[k] \in Chain(sig)
    BY <2>1 DEF IsChain
  <2>6. ~MisplacedLink(st[k])
    BY <2>5
  <2>7. j \in DOMAIN dir /\ (SlotAt(j).linked = NoSig \/ ~(j >= i))
    BY <2>2, <2>3, <2>6, <1>3 DEF MisplacedLink
  <2>8. SlotAt(j) = dir[j] /\ (j < i \/ j >= i)
    BY <2>3, <2>7, <1>1 DEF SlotAt
  <2>9. QED
    BY <2>1, <2>2, <2>3, <2>4, <2>7, <2>8
<1>4. Ends # {}
  <2> SUFFICES ASSUME Ends = {} PROVE FALSE
    OBVIOUS
  <2>1. \A k \in 0 .. n : LinkedFrom(st[k]) # NoSig
    OBVIOUS
  <2> DEFINE Good == { k \in 0 .. n : SearchOneTag(st[k]) <= n - k }
  <2>2. 0 \in Good
    <3>1. 0 \in 0 .. n
      BY <1>1
    <3>2. SearchOneTag(st[0]) \in DOMAIN dir
      BY <3>1, <2>1, <1>3
    <3>3. QED
      BY <3>1, <3>2, <1>1
  <2>3. ASSUME NEW k \in 0 .. n, k \in Good, k < n
        PROVE  k + 1 \in Good
    <3>1. k + 1 \in 1 .. n /\ k + 1 \in 0 .. n /\ (k + 1) - 1 = k
      BY <1>1, <2>3
    <3>2. st[k + 1] = LinkedFrom(st[k])
      BY <3>1 DEF IsChain
    <3> DEFINE i == SearchOneTag(st[k])
               j == SearchOneTag(st[k + 1])
    <3>3. i \in DOMAIN dir /\ j \in DOMAIN dir /\ (dir[j].linked = NoSig \/ j < i)
      BY <2>1, <3>2, <1>3
    <3>4. dir[j].linked # NoSig
      <4>1. LinkedFrom(st[k + 1]) # NoSig
        BY <3>1, <2>1
      <4>2. st[k + 1] # NoSig
        BY <4>1, <1>2
      <4>3. QED
        BY <3>3, <4>1, <4>2 DEF LinkedFrom, SlotAt
    <3>5. i <= n - k
      BY <2>3
    <3> HIDE DEF i, j
    <3>6. j <= n - (k + 1)
      BY <1>1, <3>3, <3>4, <3>5, <2>3
    <3>7. QED
      BY <3>1, <3>6 DEF j
  <2>4. n \in Good
    <3> HIDE DEF Good, n
    <3>1. 0 .. n \subseteq Good
      BY <1>1, <2>2, <2>3, Induction
    <3>2. QED
      BY <1>1, <3>1
  <2>5. SearchOneTag(st[n]) <= n - n /\ SearchOneTag(st[n]) \in DOMAIN dir
    <3>1. n \in 0 .. n
      BY <1>1
    <3>2. QED
      BY <3>1, <2>1, <2>4, <1>3
  <2>6. QED
    BY <1>1, <2>5
<1>5. PICK K \in Ends : \A k \in Ends : K <= k
  <2>1. Ends \subseteq Nat
    BY <1>1
  <2> HIDE DEF Ends
  <2>2. QED
    BY <1>4, <2>1, LeastNatural
<1>6. \A k \in 0 .. n : k < K => LinkedFrom(st[k]) # NoSig
  BY <1>1, <1>5
<1>7. K \in 0 .. n /\ LinkedFrom(st[K]) = NoSig
  BY <1>5
<1>8. ASSUME NEW k \in 0 .. n, k < K
      PROVE  st[k + 1] = LinkedFrom(st[k])
  <2>1. k + 1 \in 1 .. n /\ (k + 1) - 1 = k
    BY <1>1, <1>7, <1>8
  <2>2. QED
    BY <2>1 DEF IsChain
<1>9. st[K] # NoSig
  <2>1. CASE K = 0
    BY <2>1, <1>2 DEF IsChain
  <2>2. CASE K # 0
    <3>1. K - 1 \in 0 .. n /\ K - 1 < K /\ (K - 1) + 1 = K
      BY <1>1, <1>7, <2>2
    <3>2. st[K] = LinkedFrom(st[K - 1]) /\ LinkedFrom(st[K - 1]) # NoSig
      BY <3>1, <1>6, <1>8
    <3>3. QED
      BY <3>2
  <2>3. QED
    BY <2>1, <2>2
<1>10. Straight(st, K)
  BY <1>3, <1>6, <1>7, <1>8, <1>9 DEF Straight
<1>11. QED
  BY <1>7, <1>10


\* A link that is not misplaced has the place of the tag it leads to.
LEMMA LinksMeet ==
  ASSUME TypeOK, NEW d \in Relocated, NEW st, NEW K \in 0 .. Len(dir), Straight(st, K)
  PROVE  /\ SetLinks(d)[SearchOneTag(st[0])].offset = SetLinks(d)[SearchOneTag(st[K])].offset
         /\ SetLinks(d)[SearchOneTag(st[0])].size = SetLinks(d)[SearchOneTag(st[K])].size
<1> DEFINE n == Len(dir)
           e == SetLinks(d)
           Same(i, j) == e[i].offset = e[j].offset /\ e[i].size = e[j].size
           Good == { k \in 0 .. n : k <= K => Same(SearchOneTag(st[0]), SearchOneTag(st[k])) }
<1>1. n \in Nat
  BY DirType
<1>2. \A i \in DOMAIN dir :
        dir[i].linked # NoSig /\ NextOf(i) \in DOMAIN dir
          /\ (dir[NextOf(i)].linked = NoSig \/ NextOf(i) < i)
        => Same(i, NextOf(i))
  BY SetLinksResult
<1>3. 0 \in Good
  BY <1>1
<1>4. ASSUME NEW k \in 0 .. n, k \in Good, k < n
      PROVE  k + 1 \in Good
  <2>1. k + 1 \in 0 .. n
    BY <1>1, <1>4
  <2>2. ASSUME k + 1 <= K
        PROVE  Same(SearchOneTag(st[0]), SearchOneTag(st[k + 1]))
    <3> DEFINE i == SearchOneTag(st[k])
               j == SearchOneTag(st[k + 1])
    <3>1. k < K /\ k <= K
      BY <1>1, <2>2
    <3>2. /\ st[k + 1] \in Sigs /\ i \in DOMAIN dir /\ j \in DOMAIN dir
          /\ dir[i].linked = st[k + 1] /\ (dir[j].linked = NoSig \/ j < i)
      BY <3>1 DEF Straight
    <3>3. NextOf(i) = j /\ dir[i].linked # NoSig
      BY <3>2, TagsAssumption DEF NextOf
    <3> HIDE DEF e, i, j
    <3>4. Same(i, j)
      BY <1>2, <3>2, <3>3
    <3>5. Same(SearchOneTag(st[0]), i)
      BY <1>4, <3>1 DEF i
    <3>6. QED
      BY <3>4, <3>5 DEF j
  <2>3. QED
    BY <2>1, <2>2
<1>5. K \in Good
  <2> HIDE DEF Good, n
  <2>1. 0 .. n \subseteq Good
    BY <1>1, <1>3, <1>4, Induction
  <2>2. QED
    BY <2>1 DEF n
<1>6. QED
  BY <1>5

LEMMA SavedFile ==
  ASSUME TagsInv, NEW room, Saving(room).file # NoFile
  PROVE  \E counted, written \in Passes :
           LET linked == SetLinks(counted.dir) IN
           /\ Saving(room).file = [table |-> TagTable(linked), pieces |-> written.pieces,
                                   size |-> counted.used]
           /\ linked \in Relocated
           /\ Done(counted, dir, Len(dir)) /\ Done(written, linked, Len(dir))
           /\ Agree(counted, written, Len(dir))
<1> DEFINE n == Len(dir)
           counted == SaveTags(dir, NoLimit)
           linked == SetLinks(counted.dir)
           written == SaveTags(linked, room)
<1>1. /\ counted.end = "ok" /\ written.end = "ok"
      /\ Saving(room).file = [table |-> TagTable(linked), pieces |-> written.pieces,
                              size |-> counted.used]
  BY DEF Saving
<1>2. TypeOK /\ n \in Nat /\ DOMAIN dir = 1 .. n /\ n \in 0 .. n
  <2>1. TypeOK
    BY DEF TagsInv
  <2>2. QED
    BY <2>1, DirType
<1>3. PICK f : IsSaving(f, dir, NoLimit)
  BY <1>2, DirRelocated, SavingExists
<1>4. counted = f[n]
  BY <1>3 DEF IsSaving
<1>5. counted \in Passes /\ Done(counted, dir, n)
  <2>1. f[n] \in Passes /\ (f[n].end = "ok" => Done(f[n], dir, n))
    BY <1>2, <1>3, DirRelocated, SavingDone
  <2>2. QED
    BY <2>1, <1>1, <1>4
<1>6. counted.dir \in Relocated
  BY <1>5 DEF Passes
<1>7. linked \in Relocated /\ \A i \in DOMAIN dir : dir[i].linked = NoSig => linked[i] = counted.dir[i]
  BY <1>2, <1>6, SetLinksResult
<1> HIDE DEF counted, linked, n
<1>8. PICK g : IsSaving(g, linked, room)
  BY <1>2, <1>7, SavingExists
<1>9. written = g[n]
  BY <1>8 DEF IsSaving, n
<1> HIDE DEF written
<1>10. written \in Passes /\ Done(written, linked, n)
  <2>1. g[n] \in Passes /\ (g[n].end = "ok" => Done(g[n], linked, n))
    BY <1>2, <1>7, <1>8, SavingDone DEF n
  <2>2. QED
    BY <2>1, <1>1, <1>9
<1>11. \A i \in DOMAIN dir : Own(i) => dir[i].size = linked[i].size
  <2> SUFFICES ASSUME NEW i \in DOMAIN dir, Own(i) PROVE dir[i].size = linked[i].size
    OBVIOUS
  <2>1. linked[i] = counted.dir[i]
    BY <1>7 DEF Own, Visited
  <2>2. counted.dir[i].size = dir[i].size
    BY <1>2, <1>5 DEF Done
  <2>3. QED
    BY <2>1, <2>2
<1>12. Agree(counted, written, n)
  <2>1. f[n].end = "ok" /\ g[n].end = "ok"
    BY <1>1, <1>4, <1>9
  <2>2. Agree(f[n], g[n], n)
    BY <1>2, <1>3, <1>7, <1>8, <1>11, <2>1, DirRelocated, PassesAgree DEF n
  <2>3. QED
    BY <2>2, <1>4, <1>9
<1>13. QED
  BY <1>1, <1>5, <1>7, <1>10, <1>12 DEF linked, n

LEMMA EntryOf ==
  ASSUME TagsInv, NEW d \in Relocated, NEW sig \in Sigs
  PROVE  LET i == SearchOneTag(sig) IN
         /\ i \in DOMAIN dir =>
              \A e \in TagTable(d) :
                e.sig = sig => e.offset = d[i].offset /\ e.size = d[i].size
         /\ i \in DOMAIN dir =>
              [sig |-> sig, offset |-> d[i].offset, size |-> d[i].size] \in TagTable(d)
         /\ i \notin DOMAIN dir => \A e \in TagTable(d) : e.sig # sig
<1> DEFINE i == SearchOneTag(sig)
<1>1. \/ /\ i \in DOMAIN dir /\ dir[i].name = sig
         /\ \A j \in DOMAIN dir : dir[j].name = sig => j = i
      \/ i \notin DOMAIN dir /\ \A j \in DOMAIN dir : dir[j].name # sig
  <2>1. TypeOK /\ OneSlotEach(dir)
    BY DEF TagsInv
  <2>2. Len(dir) + 1 \notin DOMAIN dir
    BY <2>1, DirType
  <2>3. QED
    BY <2>1, <2>2, Found
<1>2. DOMAIN d = DOMAIN dir /\ \A j \in DOMAIN dir : d[j].name = dir[j].name
  BY DEF Relocated, SameTag
<1>3. sig # NoSig
  BY TagsAssumption
<1> HIDE DEF i
<1>4. \A e \in TagTable(d) : \E j \in DOMAIN dir :
        e.sig = dir[j].name /\ e.offset = d[j].offset /\ e.size = d[j].size
  BY <1>2 DEF TagTable, Named
<1>5. ASSUME i \in DOMAIN dir
      PROVE  [sig |-> sig, offset |-> d[i].offset, size |-> d[i].size] \in TagTable(d)
  <2>1. i \in Named(d) /\ d[i].name = sig
    BY <1>1, <1>2, <1>3, <1>5 DEF Named
  <2>2. QED
    BY <2>1 DEF TagTable
<1>6. QED
  BY <1>1, <1>4, <1>5 DEF i

\* What a save leaves reads as the profile does.
LEMMA SavedRight ==
  ASSUME TagsInv, NEW room, Saving(room).file # NoFile, NEW sig \in Sigs, ~Misplaced(sig)
  PROVE  BytesIn(Saving(room).file, sig) = Bytes(sig)
<1> DEFINE n == Len(dir)
           m == SearchOneTag(sig)
           r == Resolve(sig)
<1>1. TypeOK /\ OneSlotEach(dir) /\ n \in Nat /\ DOMAIN dir = 1 .. n
  <2>1. TypeOK /\ OneSlotEach(dir)
    BY DEF TagsInv
  <2>2. QED
    BY <2>1, DirType
<1>2. PICK st : IsChain(st, sig)
  BY <1>1, ChainExists
<1>3. ~Hollow(SlotAt(r)) /\ \A s \in Chain(sig) : ~MisplacedLink(s)
  BY DEF Misplaced
<1>4. PICK K \in 0 .. n : Straight(st, K)
  BY <1>1, <1>2, <1>3, ChainStraight
<1>5. st[K] # NoSig /\ LinkedFrom(st[K]) = NoSig /\ st[0] = sig /\ st[K] \in Sigs
  BY <1>2, <1>4 DEF Straight, IsChain
<1>6. r = SearchOneTag(st[K])
  BY <1>1, <1>2, <1>4, <1>5, ChainEnd
<1>7. PICK counted \in Passes, written \in Passes :
        LET linked == SetLinks(counted.dir) IN
        /\ Saving(room).file = [table |-> TagTable(linked), pieces |-> written.pieces,
                                size |-> counted.used]
        /\ linked \in Relocated
        /\ Done(counted, dir, n) /\ Done(written, linked, n)
        /\ Agree(counted, written, n)
  BY SavedFile
<1> DEFINE linked == SetLinks(counted.dir)
           f == Saving(room).file
<1>8. f.table = TagTable(linked) /\ f.pieces = written.pieces /\ f.size = counted.used
      /\ linked \in Relocated
  BY <1>7
<1> HIDE DEF f, r
<1>9. CASE m \notin DOMAIN dir
  <2>1. K = 0
    <3>1. 0 < K => m \in DOMAIN dir
      <4>1. 0 \in 0 .. Len(dir)
        BY <1>1
      <4>2. QED
        BY <4>1, <1>4, <1>5 DEF Straight
    <3>2. QED
      BY <3>1, <1>1, <1>4, <1>9
  <2>2. SlotAt(r) = BlankSlot
    BY <2>1, <1>5, <1>6, <1>9 DEF SlotAt
  <2>3. Bytes(sig) = {}
    BY <2>2 DEF Bytes, BlankSlot, NoPtr, RawBytes, r
  <2>4. \A e \in f.table : e.sig # sig
    BY <1>8, <1>9, EntryOf
  <2>5. PiecesIn(f, sig) = {}
    BY <2>4 DEF PiecesIn
  <2>6. QED
    BY <2>3, <2>5 DEF BytesIn, f
<1>10. CASE m \in DOMAIN dir
  <2>1. r \in DOMAIN dir
    <3>1. CASE K = 0
      BY <3>1, <1>5, <1>6, <1>10
    <3>2. CASE K # 0
      <4>1. K - 1 \in 0 .. Len(dir) /\ K - 1 < K /\ (K - 1) + 1 = K
        BY <3>2, <1>1, <1>4
      <4>2. SearchOneTag(st[(K - 1) + 1]) \in DOMAIN dir
        BY <4>1, <1>4 DEF Straight
      <4>3. QED
        BY <4>1, <4>2, <1>6
    <3>3. QED
      BY <3>1, <3>2
  <2>2. SlotAt(r) = dir[r] /\ dir[r].linked = NoSig /\ dir[r].name # NoSig
    <3>1. dir[r].name = st[K]
      BY <2>1, <1>1, <1>5, <1>6, Found
    <3>2. SlotAt(r) = dir[r]
      BY <2>1 DEF SlotAt
    <3>3. dir[r].linked = NoSig
      BY <3>2, <1>5, <1>6 DEF LinkedFrom
    <3>4. QED
      BY <3>1, <3>2, <3>3, <1>5
  <2>3. dir[r] \in Slot /\ r \in 1 .. n
    BY <2>1, <1>1, DirType
  <2>4. Own(r)
    <3>1. Visited(r)
      BY <2>2 DEF Visited
    <3>2. dir[r].ptr.form = "raw"
      BY <3>1, <2>3, <1>7 DEF Done
    <3>3. dir[r].ptr = RawBytes \/ dir[r].ptr = NilBytes
      BY <3>2, <2>3 DEF Slot, Ptrs, NoPtr, Cooked
    <3>4. QED
      BY <3>1, <3>3, <2>2, <1>3 DEF Own, Hollow
  <2> DEFINE z == dir[r].size
             o == written.dir[r].offset
             name == dir[r].name
             q == [offset |-> o, size |-> z, of |-> name]
  <2>5. linked[r] = counted.dir[r]
    <3>1. counted.dir \in Relocated
      BY DEF Passes
    <3>2. QED
      BY <3>1, <2>1, <2>2, <1>1, SetLinksResult
  <2>6. linked[r].size = z /\ linked[r].offset = o
    <3>1. counted.dir[r].size = z
      BY <2>3, <2>4, <1>7 DEF Done
    <3>2. counted.dir[r].offset = o
      BY <2>2, <2>3, <1>7 DEF Agree, Visited
    <3>3. QED
      BY <3>1, <3>2, <2>5
  <2>7. linked[m].offset = linked[r].offset /\ linked[m].size = linked[r].size
    <3>1. counted.dir \in Relocated
      BY DEF Passes
    <3>2. QED
      BY <3>1, <1>1, <1>4, <1>5, <1>6, LinksMeet
  <2>8. z \in Nat /\ o \in Nat /\ written.dir[r].size = z
    <3>1. written.dir[r].size = linked[r].size
      BY <2>3, <2>4, <1>7 DEF Done
    <3>2. o \in Nat /\ written.dir[r].size \in Nat
      BY <2>1, PlaceType
    <3>3. QED
      BY <3>1, <3>2, <2>6
  <2>9. q \in f.pieces
    <3>1. [offset |-> written.dir[r].offset, size |-> linked[r].size, of |-> dir[r].name]
            \in written.pieces
      BY <2>3, <2>4, <1>7 DEF Done
    <3>2. QED
      BY <3>1, <2>6, <1>8
  <2>10. o + z <= f.size
    <3>1. counted.dir[r].offset + counted.dir[r].size <= counted.used
      BY <2>3, <2>4, <1>7 DEF Done, Wrote
    <3>2. QED
      BY <3>1, <2>5, <2>6, <1>8
  <2>11. Bytes(sig) = IF z > 0 THEN {[of |-> name, size |-> z]} ELSE {}
    <3>1. SlotAt(Resolve(sig)).ptr = RawBytes /\ SlotAt(Resolve(sig)).raw
      BY <2>2, <2>4 DEF Own, r
    <3>2. SlotAt(Resolve(sig)).size = z /\ SlotAt(Resolve(sig)).name = name
      BY <2>2 DEF r
    <3> HIDE DEF z, name
    <3>3. QED
      BY <3>1, <3>2 DEF Bytes
  <2>12. /\ \A e \in f.table : e.sig = sig => e.offset = o /\ e.size = z
         /\ [sig |-> sig, offset |-> o, size |-> z] \in f.table
    BY <2>6, <2>7, <1>8, <1>10, EntryOf
  <2>13. ASSUME NEW p \in f.pieces, p.offset = o, p.size = z, z > 0
         PROVE  p.of = name
    <3>1. PICK j \in 1 .. n :
            /\ Wrote(j) /\ p.offset = written.dir[j].offset /\ p.size = written.dir[j].size
            /\ p.of = BytesOf(j)
      BY <1>7, <1>8 DEF Done
    <3>2. Wrote(r)
      BY <2>4 DEF Wrote
    <3>3. ~(j < r)
      <4>1. j < r => written.dir[j].offset + written.dir[j].size <= written.dir[r].offset
        BY <3>1, <3>2, <2>3, <1>7 DEF Done
      <4>2. QED
        BY <4>1, <3>1, <2>8, <2>13
    <3>4. ~(r < j)
      <4>1. r < j => written.dir[r].offset + written.dir[r].size <= written.dir[j].offset
        BY <3>1, <3>2, <2>3, <1>7 DEF Done
      <4>2. QED
        BY <4>1, <3>1, <2>8, <2>13
    <3>5. j = r
      BY <3>3, <3>4, <2>3, <1>1
    <3>6. QED
      BY <3>1, <3>5, <2>4 DEF BytesOf
  <2> HIDE DEF z, o, name
  <2>14. CASE z > 0
    <3>1. q \in PiecesIn(f, sig)
      <4> DEFINE e == [sig |-> sig, offset |-> o, size |-> z]
      <4>1. e \in f.table /\ e.sig = sig /\ e.offset = o /\ e.size = z
        BY <2>12
      <4>2. q.offset = o /\ q.size = z
        OBVIOUS
      <4> HIDE DEF e, q
      <4>3. QED
        BY <4>1, <4>2, <2>9, <2>10, <2>14 DEF PiecesIn
    <3>2. \A p \in PiecesIn(f, sig) : p.size = z /\ p.of = name
      BY <2>12, <2>13, <2>14 DEF PiecesIn
    <3>3. q.size = z /\ q.of = name
      OBVIOUS
    <3> HIDE DEF q
    <3>4. BytesIn(f, sig) = {[of |-> name, size |-> z]}
      BY <3>1, <3>2, <3>3 DEF BytesIn
    <3>5. QED
      BY <3>4, <2>11, <2>14 DEF f
  <2>15. CASE ~(z > 0)
    <3>1. PiecesIn(f, sig) = {}
      BY <2>12, <2>15 DEF PiecesIn
    <3>2. BytesIn(f, sig) = {}
      BY <3>1 DEF BytesIn
    <3>3. QED
      BY <3>2, <2>11, <2>15 DEF f
  <2>16. QED
    BY <2>14, <2>15
<1>11. QED
  BY <1>9, <1>10


LEMMA SameBytes ==
  ASSUME dir' = dir, NEW sig
  PROVE  Bytes(sig)' = Bytes(sig) /\ (Misplaced(sig)' <=> Misplaced(sig))
<1>1. Bytes(sig)' = Bytes(sig)
  BY DEF Bytes, Resolve, Chain, LinkedFrom, SearchOneTag, SlotAt
<1>2. Misplaced(sig)' = Misplaced(sig)
  BY DEF Misplaced, MisplacedLink, Hollow, Resolve, Chain, LinkedFrom, SearchOneTag, SlotAt
<1>3. QED
  BY <1>1, <1>2

LEMMA SaveStep ==
  ASSUME TagsInv, SavedReadsTheSame, dir' = dir,
         file' = file \/ \E room \in Rooms : file' = Saving(room).file
  PROVE  SavedReadsTheSame'
<1> SUFFICES ASSUME file' # NoFile, NEW sig \in Sigs, ~Misplaced(sig)'
             PROVE  BytesIn(file', sig) = Bytes(sig)'
  BY DEF SavedReadsTheSame
<1>1. ~Misplaced(sig) /\ Bytes(sig)' = Bytes(sig)
  BY SameBytes
<1>2. CASE file' = file
  BY <1>1, <1>2 DEF SavedReadsTheSame
<1>3. CASE \E room \in Rooms : file' = Saving(room).file
  BY <1>1, <1>3, SavedRight
<1>4. QED
  BY <1>2, <1>3

\* A saved file has, for every tag that is not misplaced, the bytes that the
\* tag or the one it links to stands for, after any operations and saves, on a
\* medium of any size.
THEOREM SavesReadTheSame == Spec => []SavedReadsTheSame
<1>1. SaveInit => SavedReadsTheSame
  BY DEF SaveInit, SavedReadsTheSame
<1>2. TagsInv /\ SavedReadsTheSame /\ [Next]_allVars => SavedReadsTheSame'
  <2> SUFFICES ASSUME TagsInv, SavedReadsTheSame, [Next]_allVars
               PROVE  SavedReadsTheSame'
    OBVIOUS
  <2>1. CASE \E sig \in Sigs : TagOperation(sig)
    <3>1. file' = NoFile
      BY <2>1 DEF TagOperation
    <3>2. QED
      BY <3>1 DEF SavedReadsTheSame, NoFile
  <2>2. CASE cmsSaveProfileToFile
    BY <2>2, SaveStep DEF cmsSaveProfileToFile
  <2>3. CASE CmsCloseProfile
    BY <2>3, SaveStep DEF CmsCloseProfile
  <2>4. CASE Over \/ UNCHANGED allVars
    BY <2>4, SaveStep DEF Over, allVars, vars
  <2>5. QED
    BY <2>1, <2>2, <2>3, <2>4 DEF Next
<1>3. QED
  BY <1>1, <1>2, InitTagsInv, NextTagsInv, PTL DEF Spec

=============================================================================
