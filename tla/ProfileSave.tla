---------------------------- MODULE ProfileSave ----------------------------
(***************************************************************************)
(* Saving a profile (cmsSaveProfileToIOhandler of cmsio0.go): the tags are *)
(* written twice, first to a handler that only counts, so that the header  *)
(* of the second pass knows where they will be; then the profile is given  *)
(* back the directory it had.                                              *)
(*                                                                         *)
(* A file is its tag table and its pieces: what stands at which offset.    *)
(***************************************************************************)
EXTENDS ProfileTags

CONSTANT Rooms     \* bytes a medium may take before its writes fail

ASSUME SaveAssumption == Rooms \subseteq Nat

VARIABLES
  isWrite,  \* Icc.IsWrite: opened for writing, saved when closed
  file      \* the file saved last, until the profile's tags are touched again

allVars == <<vars, isWrite, file>>

NoFile == [table |-> {}, pieces |-> {}, size |-> 0]
HeaderSize == 128

----------------------------------------------------------------------------

Named(d) == { i \in DOMAIN d : d[i].name # NoSig }

DirectorySize(d) == 4 + 12 * Cardinality(Named(d))

\* The entries cmsWriteHeader writes of the directory as it is just then.
TagTable(d) == { [sig |-> d[i].name, offset |-> d[i].offset, size |-> d[i].size] : i \in Named(d) }

\* cmsWriteAlignment writes four bytes wherever the position is not aligned.
Aligned(at) == IF at % 4 = 0 THEN at ELSE at + 4

\* The null handler of the first pass takes whatever is written.
NoLimit == -1
Fits(at, room) == room = NoLimit \/ at <= room

\* The directory with a tag at another place of the file.
Placed(d, i, offset, size) ==
  [d EXCEPT ![i] = [@ EXCEPT !.offset = offset, !.size = size]]

\* A pass of SaveTags: how it ended, the bytes used, the directory with the
\* new offsets and sizes, and the pieces written.
Pass(d, used, end, pieces) == [dir |-> d, used |-> used, end |-> end, pieces |-> pieces]

Ended(s, how) == Pass(s.dir, s.used, how, s.pieces)

\* A tag of which nothing is written keeps its size.
Skipped(s, i) == Pass(Placed(s.dir, i, s.used, s.dir[i].size), s.used, "ok", s.pieces)

\* One piece written and aligned; room is what the handler still takes.
WritePiece(s, i, size, of, room) ==
  IF Fits(Aligned(s.used + size), room)
    THEN Pass(Placed(s.dir, i, s.used, size), Aligned(s.used + size), "ok",
              s.pieces \cup {[offset |-> s.used, size |-> size, of |-> of]})
    ELSE Ended(s, "failed")

\* A nil slice stands for a tag still in the file the profile came from.
\* Reading from a file open for writing fails.
BlindCopy(s, i, room) ==
  IF isWrite THEN Ended(s, "failed")
  ELSE IF ~hasIO THEN Skipped(s, i)
  ELSE WritePiece(s, i, dir[i].size, dir[i].offset, room)

\* Only raw tags hold bytes; where they are not marked as raw any more
\* (WriteUnsupported) there is no descriptor to write them by.
SaveTag(s, i, room) ==
  LET slot == s.dir[i] IN
  IF slot.name = NoSig \/ slot.linked # NoSig THEN s
  ELSE IF slot.ptr.form # "raw" THEN Ended(s, "panicked")
  ELSE IF slot.ptr = NilBytes THEN BlindCopy(s, i, room)
  ELSE IF slot.raw THEN WritePiece(s, i, slot.size, slot.name, room)
  ELSE Skipped(s, i)

SaveTags(d, room) ==
  LET after[i \in 0 .. Len(d)] ==
        IF i = 0 THEN Pass(d, HeaderSize + DirectorySize(d), "ok", {})
        ELSE IF after[i - 1].end # "ok" THEN after[i - 1]
        ELSE SaveTag(after[i - 1], i, room)
  IN after[Len(d)]

\* Mistake: links are left with the offsets they had.
SetNoLinks(d) == d

\* Each link in turn takes the offset and size of the tag it names.
SetLinks(d) ==
  LET after[i \in 0 .. Len(d)] ==
        IF i = 0 THEN d
        ELSE LET e == after[i - 1]
                 j == SearchOneTag(e[i].linked)
             IN IF e[i].linked = NoSig \/ j \notin DOMAIN e THEN e
                ELSE Placed(e, i, e[j].offset, e[j].size)
  IN after[Len(d)]

\* How the saving ends on a medium with so much room, and the file if it is
\* saved.  A header that cannot be written panics.
Saving(room) ==
  LET counted == SaveTags(dir, NoLimit)
      linked == SetLinks(counted.dir)
      written == SaveTags(linked, room)
  IN IF counted.end # "ok" THEN [end |-> counted.end, file |-> NoFile]
     ELSE IF ~Fits(HeaderSize + DirectorySize(dir), room)
       THEN [end |-> "panicked", file |-> NoFile]
     ELSE IF written.end # "ok" THEN [end |-> written.end, file |-> NoFile]
     ELSE [end |-> "saved",
           file |-> [table |-> TagTable(linked), pieces |-> written.pieces,
                     size |-> counted.used]]

\* *Icc = Keep: the directory is the one before, unless SaveTags panicked.
cmsSaveProfileToFile ==
  /\ status = "open"
  /\ \E room \in Rooms :
       /\ file' = Saving(room).file
       /\ status' = IF Saving(room).end = "panicked" THEN "panicked" ELSE status
  /\ UNCHANGED <<dir, hasIO, promise, isWrite>>

\* A profile opened for writing is saved before its tags are freed.
CmsCloseProfile ==
  /\ status = "open"
  /\ \E room \in Rooms :
       /\ file' = IF isWrite THEN Saving(room).file ELSE file
       /\ status' = IF \/ isWrite /\ Saving(room).end = "panicked"
                       \/ \E i \in DOMAIN dir : FreePanics(dir[i])
                      THEN "panicked" ELSE "closed"
  /\ isWrite' = FALSE
  /\ UNCHANGED <<dir, hasIO, promise>>

SaveInit ==
  /\ Init
  /\ file = NoFile
  /\ isWrite \in BOOLEAN
  /\ isWrite => dir = <<>>

TagOperation(sig) ==
  /\ Operation(sig)
  /\ file' = NoFile
  /\ UNCHANGED isWrite

Over == status # "open" /\ UNCHANGED allVars

Next ==
  \/ \E sig \in Sigs : TagOperation(sig)
  \/ cmsSaveProfileToFile
  \/ CmsCloseProfile
  \/ Over

Spec == SaveInit /\ [][Next]_allVars

----------------------------------------------------------------------------

\* The bytes a tag of the profile stands for, links followed.
Bytes(sig) ==
  LET slot == SlotAt(Resolve(sig)) IN
  IF slot.ptr = RawBytes /\ slot.raw /\ slot.size > 0
    THEN {[of |-> slot.name, size |-> slot.size]} ELSE {}

\* The pieces a file f has for it, in an entry cmsReadHeader would not drop.
PiecesIn(f, sig) ==
  { p \in f.pieces :
      \E e \in f.table :
        /\ e.sig = sig /\ e.offset = p.offset /\ e.size = p.size
        /\ e.size > 0 /\ e.offset + e.size <= f.size }

BytesIn(f, sig) == { [of |-> p.of, size |-> p.size] : p \in PiecesIn(f, sig) }

\* The entries SaveTags and SetLinks get wrong: of a tag without bytes of its
\* own, which keeps a size for what is not written; of a link to a tag that
\* is not there, which keeps an offset of the file before; and of a link to
\* a link that is not before it in the directory, which copies that one's old
\* offset.  A link to a misplaced one is misplaced as well.
Hollow(slot) == slot.ptr = NilBytes \/ (slot.ptr = RawBytes /\ ~slot.raw)

MisplacedLink(sig) ==
  LET n == SearchOneTag(sig)
      next == SearchOneTag(SlotAt(n).linked)
  IN /\ SlotAt(n).linked # NoSig
     /\ next \notin DOMAIN dir \/ (SlotAt(next).linked # NoSig /\ next >= n)

Misplaced(sig) ==
  Hollow(SlotAt(Resolve(sig))) \/ \E s \in Chain(sig) : MisplacedLink(s)

\* A saved file has, for every tag of the profile, the bytes that tag, or the
\* one it links to, stands for; but for those it misplaces.
SavedReadsTheSame ==
  file # NoFile =>
    \A sig \in Sigs : BytesIn(file, sig) = Bytes(sig) \/ Misplaced(sig)

=============================================================================
