----------------------------- MODULE IccStream -----------------------------
(***************************************************************************)
(* The byte stream the tag handlers read and write: big-endian numbers,    *)
(* fixed point and float32 values, the type base and the alignment.        *)
(*                                                                         *)
(* A stream is a sequence of bytes; positions count from 0, as io.Tell     *)
(* does.  A real number is the integer number of 1/65536 it stands for, so *)
(* the 15.16 conversions are exact on the numbers the model has; a float32 *)
(* is its bit pattern as a signed integer.  An unsigned number of 2^31 or  *)
(* more reads as Huge.                                                     *)
(***************************************************************************)
EXTENDS Integers, Sequences, FiniteSets, SequencesExt

Huge == 2147483647
TypeBase == 8          \* sizeof(CmsTagBase)

\* What a handler gives back.  Writing appends bytes, is refused (the handler
\* returns false) or panics; reading gives an object and the position after
\* it, nil, or a panic.
Wrote(bytes) == [r |-> "ok", b |-> bytes]
Refused      == [r |-> "refused", b |-> <<>>]
WritePanics  == [r |-> "panic", b |-> <<>>]
Got(x, pos)  == [r |-> "ok", o |-> x, at |-> pos]
NotRead      == [r |-> "nil"]
ReadPanics   == [r |-> "panic"]

\* Several writes in a row: the first that fails ends them.
InTurn(x, y) == IF x.r = "ok" THEN [r |-> y.r, b |-> x.b \o y.b] ELSE x
AllWritten(s) == FoldLeft(InTurn, Wrote(<<>>), s)

\* Several reads in a row, with what each goes on with: a reading that fails
\* is the outcome.  After begins with a reading, Then goes on from a record st
\* of what was read so far.
After(got, Next(_))    == IF got.r = "ok" THEN Next(got) ELSE [r |-> got.r]
Then(st, got, Next(_)) == IF got.r = "ok" THEN Next(got) ELSE [st EXCEPT !.r = got.r]
Ended(st, Object(_))   == After(st, LAMBDA s : Got(Object(s.o), s.at))
\* The caller asserts the type of what a handler gave: its nil panics.
Asserted(got) == IF got.r = "ok" THEN Got(got.o.v, got.at) ELSE ReadPanics

B8(n)  == <<n % 256>>
B16(n) == <<(n \div 256) % 256, n % 256>>
B32(n) == <<(n \div 16777216) % 256, (n \div 65536) % 256>> \o B16(n)

Concat(parts)      == FoldLeft(\o, <<>>, parts)
EachAs32(numbers)  == Concat([k \in DOMAIN numbers |-> B32(numbers[k])])
EachAs16(numbers)  == Concat([k \in DOMAIN numbers |-> B16(numbers[k])])
Zeros(n)           == [k \in 1 .. n |-> 0]

\* WriteStruct's failures are those of the io handler.  MemoryWrite copies
\* what the slice has of the size it was told, NULLWrite only counts that size,
\* FileWrite writes all of the slice and then compares.
IoWrite(medium, size, slice) ==
  CASE medium \in {"memory", "null"} -> Wrote(SubSeq(slice \o Zeros(size), 1, size))
    [] size = 0          -> Wrote(<<>>)
    [] OTHER -> IF Len(slice) = size THEN Wrote(slice) ELSE Refused

\* Read of count blocks of size bytes: all of them or nothing.
Readable(b, p, n) == p >= 0 /\ n >= 0 /\ p <= Len(b) /\ n <= Len(b) - p

U8(b, p)  == b[p + 1]
U16(b, p) == b[p + 1] * 256 + b[p + 2]
S32(b, p) == (IF b[p + 1] >= 128 THEN b[p + 1] - 256 ELSE b[p + 1]) * 16777216
             + b[p + 2] * 65536 + U16(b, p + 2)
U32(b, p) == IF b[p + 1] >= 128 THEN Huge ELSE S32(b, p)
Each32(b, p, n) == [k \in 1 .. n |-> S32(b, p + 4 * (k - 1))]
Each16(b, p, n) == [k \in 1 .. n |-> U16(b, p + 2 * (k - 1))]
Bytes(b, p, n)  == SubSeq(b, p + 1, p + n)

\* cmsDoubleTo8Fixed8 and back: the eight lowest bits of a 15.16 are lost.
DoubleTo8Fixed8(x) == (x \div 256) % 65536
\* Mistake: the reader is off by the last bit of a 15.16.
Fixed8ToDoubleLess(n) == n * 256 - 1
Fixed8ToDouble(n)  == n * 256

\* Not a NaN, not an infinity, and at most 1e20 in size.
FloatLimit == 1621981420     \* the bits of 1e20
FloatOk(bits) == IF bits >= 0 THEN bits <= FloatLimit
                 ELSE bits + Huge + 1 <= FloatLimit

CeilDiv4(n) == (n + 3) \div 4
AlignLong(n) == 4 * CeilDiv4(n)
\* cmsWriteAlignment writes the whole of its buffer.
WriteAlignment(at) == IF AlignLong(at) = at THEN <<>> ELSE Zeros(4)
\* Mistake: the reader does not skip the padding.
NoAlignment(at) == at
AfterAlignment(at) == AlignLong(at)
=============================================================================
