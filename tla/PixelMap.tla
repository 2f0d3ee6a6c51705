------------------------------ MODULE PixelMap ------------------------------
(***************************************************************************)
(* What CmsDoTransformParallel promises its caller: every pixel of the     *)
(* output buffer becomes the colour transform of the input pixel at the    *)
(* same position, each exactly once, in no particular order, and the call  *)
(* returns only after the last of them.  When the buffers are too small,   *)
(* or the formats are not ones it is made for, the call may panic instead, *)
(* and over extra channels to copy it may end the whole program, but then  *)
(* before it has written anything.  The specification says nothing of      *)
(* chunks, goroutines, scratch buffers or caches.                          *)
(***************************************************************************)
EXTENDS Integers

CONSTANTS
  Pixel,      \* the input colours
  Output,     \* the output colours
  Eval,       \* the transform: a function from Pixel to Output
  Untouched   \* an output pixel the transform has not written

VARIABLES
  formats,    \* the kind of the pixel formats
  pixels,     \* the number of pixels the caller asks for
  room,       \* the pixels each of the buffers holds
  in,         \* the input buffer
  out,        \* the output buffer
  result      \* "running", "returned", "panicked" or "crashed"

vars == <<formats, pixels, room, in, out, result>>

\* The pixels the call has to write.
Asked == 0 .. pixels - 1

Init ==
  /\ formats \in {"plain", "leading", "trailing", "converted", "planar"}
  /\ pixels \in Int
  /\ room \in Nat
  /\ in \in [0 .. room - 1 -> Pixel]
  /\ out = [p \in 0 .. room - 1 |-> Untouched]
  /\ result = "running"

\* One pixel is transformed.
Emit(p) ==
  /\ result = "running"
  /\ p \in Asked
  /\ p < room
  /\ out[p] = Untouched
  /\ out' = [out EXCEPT ![p] = Eval[in[p]]]
  /\ UNCHANGED <<formats, pixels, room, in, result>>

\* The call returns, the whole of the request written.
Return ==
  /\ result = "running"
  /\ \A p \in Asked : p < room /\ out[p] # Untouched
  /\ result' = "returned"
  /\ UNCHANGED <<formats, pixels, room, in, out>>

\* The formats with extra channels to copy that are not all in front, or of
\* a type the converters do not take.
Uncopied == {"trailing", "converted"}

\* The request does not fit in the buffers, or the formats do not suit.
Panic ==
  /\ result = "running"
  /\ room < pixels \/ formats \in Uncopied \cup {"planar"}
  /\ result' = "panicked"
  /\ UNCHANGED <<formats, pixels, room, in, out>>

\* The program ends, nothing written.
Crash ==
  /\ result = "running"
  /\ formats \in Uncopied
  /\ \A p \in 0 .. room - 1 : out[p] = Untouched
  /\ result' = "crashed"
  /\ UNCHANGED <<formats, pixels, room, in, out>>

Next ==
  \/ \E p \in Asked : Emit(p)
  \/ Return
  \/ Panic \/ Crash

Spec == Init /\ [][Next]_vars

=============================================================================
