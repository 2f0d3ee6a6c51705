---------------------------- MODULE ProfileTags ----------------------------
(***************************************************************************)
(* The tag directory of an open profile (cmsICCPROFILE's Tag... arrays) and *)
(* the operations of cmsio0.go on it, each of which runs under the         *)
(* profile's mutex from its search to its last assignment.                 *)
(*                                                                         *)
(* A tag is in memory (a cooked structure or raw bytes), or still on disk, *)
(* or a link to another tag.  The contents of a tag are a type and a       *)
(* value; offsets are blocks of the file, 0 being its header.              *)
(***************************************************************************)
EXTENDS Integers, Sequences, FiniteSets, FiniteSetsExt

CONSTANTS
  Sigs,          \* tag signatures
  Types,         \* tag types
  StrictFree,    \* the types whose FreeFn asserts the Go type of its argument
  Supported,     \* SupportedTypes of each signature; {} is no descriptor
  Values,        \* values of a tag's structure
  Malformed,     \* the pairs <<type, value>> the DupFn of the type gives up on
  RawWrites,     \* the triples <<sig, size, copied>> of calls of cmsWriteRawTag
  Disk,          \* the blocks of files: [type, val, size, readable]
  Files,         \* tag tables of files, and <<>> for a new profile
  Links,         \* the pairs <<sig, dest>> callers pass to cmsLinkTag
  MAX_TABLE_TAG

NoSig == "0"
NoType == "none"
NoPtr == [form |-> "nil", type |-> NoType, val |-> 0]
RawBytes == [form |-> "raw", type |-> NoType, val |-> 0]
\* cmsDupMem gives a nil slice for data it cannot copy; in TagPtrs it is not nil.
NilBytes == [form |-> "raw", type |-> NoType, val |-> 1]
Cooked(t, v) == [form |-> "cooked", type |-> t, val |-> v]
Ptrs == {NoPtr, RawBytes, NilBytes} \cup { Cooked(t, v) : t \in Types, v \in Values }

BlankSlot == [name |-> NoSig, linked |-> NoSig, size |-> 0, offset |-> 0,
              raw |-> FALSE, ptr |-> NoPtr, handler |-> NoType]

ASSUME TagsAssumption ==
  /\ NoSig \notin Sigs /\ NoType \notin Types
  /\ StrictFree \subseteq Types
  /\ Supported \in [Sigs -> SUBSET Types]
  /\ Malformed \subseteq Types \X Values
  /\ RawWrites \subseteq Sigs \X Nat \X {RawBytes, NilBytes}
  /\ \A b \in DOMAIN Disk :
       /\ b \in Nat \ {0}
       /\ Disk[b] \in [type : Types, val : Values, size : Nat, readable : BOOLEAN]
  /\ Files \subseteq Seq(Sigs \X DOMAIN Disk)
  /\ Links \subseteq Sigs \X Sigs
  /\ MAX_TABLE_TAG \in Nat

VARIABLES
  dir,      \* the slots in use: the arrays' first TagCount places
  hasIO,    \* whether Icc.IOhandler is set
  status,   \* "open", "closed" or "panicked"
  promise   \* history: what each tag was last given: a Ptr, NoPtr for nothing

vars == <<dir, hasIO, status, promise>>

----------------------------------------------------------------------------
(* Opening *)

CompatibleTypes(s, t) == Supported[s] # {} /\ Supported[s] = Supported[t]

\* An entry at the same place as an earlier one of a compatible type is a
\* link to it, to the latest if there are several.
LinkTarget(d, sig, block) ==
  LET same == { j \in DOMAIN d : d[j].offset = block /\ CompatibleTypes(d[j].name, sig) }
  IN IF same = {} THEN NoSig ELSE d[Max(same)].name

NewEntry(d, sig, block) ==
  [BlankSlot EXCEPT !.name = sig, !.offset = block, !.size = Disk[block].size,
                    !.linked = LinkTarget(d, sig, block)]

\* cmsReadHeader, which drops the entries that lie outside the file.
Sane(block) == Disk[block].size > 0

Directory(table) ==
  LET after[i \in 0 .. Len(table)] ==
        IF i = 0 THEN <<>>
        ELSE IF Sane(table[i][2])
               THEN Append(after[i - 1], NewEntry(after[i - 1], table[i][1], table[i][2]))
               ELSE after[i - 1]
  IN after[Len(table)]

HasDuplicates(d) == \E i, j \in DOMAIN d : i # j /\ d[i].name = d[j].name

\* What a tag holds when the profile has just been opened.
OnDisk(slot) ==
  IF /\ slot.linked = NoSig /\ slot.size >= 8
     /\ Disk[slot.offset].readable
     /\ Disk[slot.offset].type \in Supported[slot.name]
    THEN Cooked(Disk[slot.offset].type, Disk[slot.offset].val)
    ELSE NoPtr

Init ==
  /\ \E table \in Files :
       /\ Len(table) <= MAX_TABLE_TAG
       /\ dir = Directory(table)
       /\ ~HasDuplicates(dir)
       /\ hasIO = (table # <<>>)
  /\ status = "open"
  /\ promise = [s \in Sigs |->
       IF \E i \in DOMAIN dir : dir[i].name = s
         THEN OnDisk(dir[CHOOSE i \in DOMAIN dir : dir[i].name = s])
         ELSE NoPtr]

----------------------------------------------------------------------------
(* Searching *)

\* The slot a number stands for; there is none after the last.
SlotAt(n) == IF n \in DOMAIN dir THEN dir[n] ELSE BlankSlot

\* Mistake: the last slot is not searched.
SearchAllButLast(sig) ==
  Min({ i \in 1 .. Len(dir) - 1 : dir[i].name = sig } \cup {Len(dir) + 1})

\* The first slot of that name, or the place after the last slot.
SearchOneTag(sig) ==
  Min({ i \in DOMAIN dir : dir[i].name = sig } \cup {Len(dir) + 1})

\* The tags cmsSearchTag visits from sig; a chain of links is as long as the
\* directory at most, since callers build no cycle of links.
LinkedFrom(sig) == IF sig = NoSig THEN NoSig ELSE SlotAt(SearchOneTag(sig)).linked

Chain(sig) ==
  LET step[k \in 0 .. Len(dir)] ==
        IF k = 0 THEN sig ELSE LinkedFrom(step[k - 1])
  IN { step[k] : k \in 0 .. Len(dir) } \ {NoSig}

\* cmsSearchTag with followLinks: the slot at the end of the chain.
Resolve(sig) ==
  SearchOneTag(CHOOSE s \in Chain(sig) : LinkedFrom(s) = NoSig)

----------------------------------------------------------------------------
(* Reading *)

InMemory(sig, slot) ==
  /\ slot.ptr # NoPtr
  /\ slot.handler # NoType
  /\ slot.handler \in Supported[sig]
  /\ ~slot.raw

\* The file has a tag of a supported type where the slot says.  The header
\* at offset 0 starts with the profile's size, which is no type.
TypeOnDisk(sig, slot) ==
  /\ slot.size >= 8
  /\ hasIO
  /\ slot.offset # 0
  /\ Disk[slot.offset].type \in Supported[sig]

ReadFn(block) ==
  IF block.readable THEN Cooked(block.type, block.val) ELSE NoPtr

\* What cmsReadTag returns.
ReadFrom(sig, slot) ==
  IF InMemory(sig, slot) THEN slot.ptr
  ELSE IF slot.ptr = NoPtr /\ TypeOnDisk(sig, slot) THEN ReadFn(Disk[slot.offset])
  ELSE NoPtr

Answer(sig) == ReadFrom(sig, SlotAt(Resolve(sig)))

\* freeOneTag calls the FreeFn of the handler the slot has, whatever the
\* pointer is; one that asserts the type of its argument panics on raw bytes.
FreePanics(slot) ==
  /\ slot.ptr.form = "raw"
  /\ slot.handler \in StrictFree

\* A tag in memory stays; one on disk is read and kept with its handler.
cmsReadTag(sig) ==
  LET n == Resolve(sig)
      slot == SlotAt(n)
  IN /\ status = "open"
     /\ slot.ptr = NoPtr
     /\ TypeOnDisk(sig, slot)
     /\ dir' = [dir EXCEPT ![n].handler = Disk[slot.offset].type,
                           ![n].ptr = ReadFn(Disk[slot.offset])]
     /\ UNCHANGED <<hasIO, status, promise>>

\* The Error exit of cmsReadTag frees what the slot holds.  What was never
\* on disk is lost with it.
ReadRefused(sig) ==
  LET n == Resolve(sig)
      slot == SlotAt(n)
  IN /\ status = "open"
     /\ slot.ptr # NoPtr
     /\ ~InMemory(sig, slot)
     /\ IF FreePanics(slot)
          THEN /\ status' = "panicked"
               /\ UNCHANGED <<dir, promise>>
          ELSE /\ dir' = [dir EXCEPT ![n].ptr = NoPtr]
               /\ promise' = IF slot.size < 8
                               THEN [promise EXCEPT ![slot.name] = NoPtr]
                               ELSE promise
               /\ UNCHANGED status
     /\ UNCHANGED hasIO

----------------------------------------------------------------------------
(* Writing *)

\* cmsDeleteTagByPos: raw bytes, and what has no handler, stay.
Freed(slot) ==
  IF ~slot.raw /\ slot.handler # NoType THEN [slot EXCEPT !.ptr = NoPtr] ELSE slot

\* cmsDeleteTagByPos frees without looking at links, and may panic as well.
DeletePanics(slot) == ~slot.raw /\ FreePanics(slot)

\* cmsNewTag takes the slot of sig, or the next one.
NewPos(sig) == SearchOneTag(sig)

\* Mistake: one tag too many is let in.
HasRoomForOneMore(sig) == NewPos(sig) <= MAX_TABLE_TAG + 1

HasRoom(sig) == NewPos(sig) <= MAX_TABLE_TAG

OldSlot(sig) == SlotAt(NewPos(sig))

\* The directory with the slot cmsNewTag found for sig replaced.
Put(sig, slot) ==
  [ i \in DOMAIN dir \cup {NewPos(sig)} |-> IF i = NewPos(sig) THEN slot ELSE dir[i] ]

Replace(sig, slot, given) ==
  /\ status = "open"
  /\ HasRoom(sig)
  /\ IF DeletePanics(OldSlot(sig))
       THEN /\ status' = "panicked"
            /\ UNCHANGED <<dir, promise>>
       ELSE /\ dir' = Put(sig, slot)
            /\ promise' = [promise EXCEPT ![sig] = given]
            /\ UNCHANGED status
  /\ UNCHANGED hasIO

\* Mistake: a cooked tag written over a raw one stays marked as raw.
EmptiedStillRaw(sig) == [Freed(OldSlot(sig)) EXCEPT !.linked = NoSig]

Emptied(sig) == [Freed(OldSlot(sig)) EXCEPT !.raw = FALSE, !.linked = NoSig]

\* DecideType gives the value its type; DupFn gives up on a malformed one.
cmsWriteTag(sig, t, v) ==
  /\ t \in Supported[sig]
  /\ Replace(sig,
       [Emptied(sig) EXCEPT !.handler = t, !.name = sig, !.size = 0, !.offset = 0,
                            !.ptr = IF <<t, v>> \in Malformed THEN NoPtr ELSE Cooked(t, v)],
       IF <<t, v>> \in Malformed THEN NoPtr ELSE Cooked(t, v))

\* A tag without a descriptor is refused once cmsNewTag has made it room.
WriteUnsupported(sig) ==
  /\ Supported[sig] = {}
  /\ Replace(sig, Emptied(sig), NoPtr)

DeleteTag(sig) ==
  LET n == SearchOneTag(sig)
  IN /\ status = "open"
     /\ n \in DOMAIN dir
     /\ IF DeletePanics(dir[n])
          THEN /\ status' = "panicked"
               /\ UNCHANGED <<dir, promise>>
          ELSE /\ dir' = [dir EXCEPT ![n] = [Freed(dir[n]) EXCEPT !.name = NoSig]]
               /\ promise' = [promise EXCEPT ![sig] = NoPtr]
               /\ UNCHANGED status
     /\ UNCHANGED hasIO

\* The old offset and handler stay.  That nothing was copied is not noticed.
cmsWriteRawTag(sig, size, copied) ==
  Replace(sig,
    [Freed(OldSlot(sig)) EXCEPT !.raw = TRUE, !.name = sig, !.linked = NoSig,
                                !.ptr = copied, !.size = size],
    copied)

cmsLinkTag(sig, dest) ==
  /\ <<sig, dest>> \in Links
  /\ sig \notin Chain(dest)
  /\ Replace(sig,
       [Freed(OldSlot(sig)) EXCEPT !.raw = FALSE, !.name = sig, !.linked = dest,
                                   !.ptr = NoPtr, !.size = 0, !.offset = 0],
       NoPtr)

\* One call about the tag sig.
Operation(sig) ==
  \/ cmsReadTag(sig)
  \/ ReadRefused(sig)
  \/ \E t \in Types, v \in Values : cmsWriteTag(sig, t, v)
  \/ WriteUnsupported(sig)
  \/ DeleteTag(sig)
  \/ \E w \in RawWrites : w[1] = sig /\ cmsWriteRawTag(sig, w[2], w[3])
  \/ \E dest \in Sigs : cmsLinkTag(sig, dest)

----------------------------------------------------------------------------

Slot ==
  [name : Sigs \cup {NoSig}, linked : Sigs \cup {NoSig}, size : Nat,
   offset : {0} \cup DOMAIN Disk, raw : BOOLEAN, ptr : Ptrs,
   handler : Types \cup {NoType}]

TypeOK ==
  /\ dir \in Seq(Slot) /\ Len(dir) <= MAX_TABLE_TAG
  /\ hasIO \in BOOLEAN
  /\ status \in {"open", "closed", "panicked"}
  /\ promise \in [Sigs -> Ptrs]

\* A signature names one slot only, however the calls went before.
NamesUnique ==
  /\ TypeOK
  /\ \A i, j \in DOMAIN dir : dir[i].name = dir[j].name /\ dir[i].name # NoSig => i = j

\* The tag a signature stands for, links followed, or NoSig.
Target(sig) == SlotAt(Resolve(sig)).name

\* A read returns what the tag, or the tag it links to, was last given by a
\* write, or what the file says of it when nothing was written, as long as
\* the type is one the signature asked for supports.
ReadsLatest ==
  \A sig \in Sigs :
    /\ Target(sig) # NoSig
    /\ promise[Target(sig)].form = "cooked"
    /\ promise[Target(sig)].type \in Supported[sig]
    => Answer(sig) = promise[Target(sig)]
=============================================================================
