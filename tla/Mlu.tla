-------------------------------- MODULE Mlu --------------------------------
(***************************************************************************)
(* Multi-localised text.  An entry is a language, a country, and where its *)
(* characters lie in the pool.  The pool is a Go value of three shapes:    *)
(* nil, []uint8 (built by AddMLUBlock) or []uint16 (built by TypeMLURead), *)
(* and each function accepts only the shapes it tests for.                 *)
(***************************************************************************)
EXTENDS Integers, Sequences, SequencesExt

CONSTANT PoolUnit    \* the first size of a pool in bytes, 256 in GrowMLUpool

ASSUME PoolUnitAssumption == PoolUnit \in Nat \ {0}

NoEntry == [lang |-> 0, ctry |-> 0, len |-> 0, strW |-> 0]

MLUalloc(n) == [alloc |-> IF n = 0 THEN 2 ELSE n, entries |-> <<>>, shape |-> "nil",
                pool |-> <<>>, size |-> 0]

PoolUsed(m) == Len(m.pool)

SearchMLUEntry(m, lang, ctry) ==
  {k \in DOMAIN m.entries : m.entries[k].lang = lang /\ m.entries[k].ctry = ctry}

\* Little-endian, as AddMLUBlock stores it.
LeBytes(chars) == [k \in 1 .. 2 * Len(chars) |->
                     LET c == chars[(k + 1) \div 2]
                     IN IF k % 2 = 1 THEN c % 256 ELSE c \div 256]
FromLe(bytes) == [k \in 1 .. Len(bytes) \div 2 |->
                    bytes[2 * k - 1] + 256 * bytes[2 * k]]


\* GrowMLUpool to a size.  cmsRealloc passes the new size as the old one too,
\* so copying a pool that exists slices beyond it.
GrowMLUpool(m, size) ==
  CASE m.shape = "nil" -> [r |-> "ok", m |-> [m EXCEPT !.shape = "u8", !.size = size]]
    [] m.shape = "u8"  -> [r |-> "panic", m |-> m]
    [] OTHER           -> [r |-> "refused", m |-> m]

\* AddMLUBlock: the entry is refused when its language and country are there.
AddMLUBlock(m, chars, lang, ctry) ==
  LET used  == Len(m.entries)
      size  == 2 * Len(chars)
      slots == IF used >= m.alloc THEN 2 * m.alloc ELSE m.alloc
      room  == m.size - PoolUsed(m)
      next  == IF m.size > 0 THEN 2 * m.size ELSE PoolUnit
      grown == IF room >= size THEN [r |-> "ok", m |-> m] ELSE GrowMLUpool(m, next)
      again == IF grown.r = "ok" /\ grown.m.size - PoolUsed(m) < size
               THEN GrowMLUpool(grown.m, 2 * grown.m.size) ELSE grown
      g     == [again.m EXCEPT !.alloc = slots]
  IN CASE SearchMLUEntry(m, lang, ctry) # {} -> [r |-> "refused", m |-> [m EXCEPT !.alloc = slots]]
       [] again.r # "ok" -> [r |-> again.r, m |-> g]
       [] g.shape # "u8" \/ used >= slots -> [r |-> "panic", m |-> g]
       [] OTHER -> [r |-> "ok",
                    m |-> [g EXCEPT !.pool = @ \o LeBytes(chars),
                                    !.entries = Append(@, [lang |-> lang, ctry |-> ctry,
                                                           len |-> size, strW |-> PoolUsed(m)])]]

\* An empty string is stored as a NUL.
MLUsetASCII(m, lang, ctry, chars) ==
  AddMLUBlock(m, IF chars = <<>> THEN <<0>> ELSE chars, lang, ctry)

\* The entry with this language and country, else the first of the language,
\* else the first of all.
BestMatch(m, lang, ctry) ==
  LET exact == SearchMLUEntry(m, lang, ctry)
      near  == {k \in DOMAIN m.entries : m.entries[k].lang = lang}
      First(S) == CHOOSE k \in S : \A l \in S : k <= l
  IN CASE exact # {} -> First(exact) [] near # {} -> First(near) [] OTHER -> 1

\* _cmsMLUgetWide: the characters, or nothing.
GetWide(m, lang, ctry) ==
  IF m.alloc = 0 \/ m.shape # "u8" THEN [found |-> FALSE, chars |-> <<>>]
  ELSE LET k == BestMatch(m, lang, ctry)
           e == IF k \in DOMAIN m.entries THEN m.entries[k] ELSE NoEntry
       IN IF e.strW + e.len > m.size THEN [found |-> FALSE, chars |-> <<>>]
          ELSE [found |-> TRUE, chars |-> FromLe(SubSeq(m.pool, e.strW + 1, e.strW + e.len))]

\* cmsMLUgetASCII into a buffer long enough: the text and its final NUL, or
\* nothing.  Without a buffer it gives the length of this.
MLUgetASCII(m, lang, ctry) ==
  LET w == GetWide(m, lang, ctry)
  IN IF w.found THEN [k \in 1 .. Len(w.chars) |-> w.chars[k] % 256] \o <<0>> ELSE <<>>

\* cmsMLUdup copies the used part of a []uint8 pool, and no other.
MLUdup(m) ==
  LET copy == [m EXCEPT !.alloc = MLUalloc(Len(m.entries)).alloc, !.size = PoolUsed(m)]
  IN CASE PoolUsed(m) = 0 -> [r |-> "ok", m |-> [copy EXCEPT !.shape = "nil"]]
       [] m.shape = "u8"  -> [r |-> "ok", m |-> copy]
       [] OTHER           -> [r |-> "nil", m |-> m]
=============================================================================
