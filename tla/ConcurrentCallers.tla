------------------------- MODULE ConcurrentCallers -------------------------
(***************************************************************************)
(* Goroutines of the application that call CmsDoTransform on one handle    *)
(* themselves, row after row.  Each brings a memory manager, or passes the *)
(* zero one, which CmsDoTransform replaces with the manager the transform  *)
(* was created with.  A manager may have served other transforms before,   *)
(* so its lanes start with anything.                                       *)
(***************************************************************************)
EXTENDS CachedTransform, FiniteSets

CONSTANTS
  ZeroCallers,    \* the callers that pass the zero mem.Manager
  PMemManager,    \* p.mem_manager
  DirtyLanes,     \* what WInU16 of a used manager may hold
  HandleFormats,  \* what the formats of the handle may be
  Size,           \* pixels of a row
  Rows            \* rows of each caller: a bound on its calls

\* Callers are numbered, and own the manager of their number unless they pass
\* the zero one.  Rows are slices of their length, so the formats are those
\* whose extra channels can be copied in such slices.
ASSUME CallersAssumption ==
  /\ Calls \subseteq Nat
  /\ PMemManager \in Managers \ Calls
  /\ ZeroCallers \subseteq Calls
  /\ Calls \ ZeroCallers \subseteq Managers
  /\ DirtyLanes \subseteq [Lanes -> Sample]
  /\ HandleFormats \subseteq {"plain", "leading"}
  /\ Size \in Nat
  /\ Rows \in Nat

VARIABLE row      \* the rows each caller has asked for

vars == <<callVars, row>>

\* Mistake: the caller's manager is ignored.
SharedManagerOf(c) == PMemManager

\* CmsDoTransform: a zero manager means the transform's own.
ManagerOf(c) == IF c \in ZeroCallers THEN PMemManager ELSE c

Init ==
  /\ formats \in HandleFormats
  /\ room = Cardinality(Calls) * Rows * Size
  /\ wIn \in [Managers -> DirtyLanes]
  /\ mgr = [c \in Calls |-> PMemManager]
  /\ CallInit
  /\ row = [c \in Calls |-> 0]

CmsDoTransform(c) ==
  LET first == (c * Rows + row[c]) * Size
  IN /\ row[c] < Rows
     /\ BeginXform(c, ManagerOf(c), first, first + Size)
     /\ row' = [row EXCEPT ![c] = row[c] + 1]

Work(c) ==
  /\ HandleExtraChannels(c, last[c]) \/ PixelStep(c) \/ EndXform(c)
  /\ UNCHANGED row

Finished ==
  /\ \A c \in Calls : row[c] = Rows /\ pc[c] = "done"
  /\ UNCHANGED vars

Next ==
  \/ \E c \in Calls : CmsDoTransform(c) \/ Work(c)
  \/ Finished

Fairness == \A c \in Calls : WF_vars(CmsDoTransform(c) \/ Work(c))

Spec == Init /\ [][Next]_vars
FairSpec == Spec /\ Fairness

----------------------------------------------------------------------------

\* The caller whose rows a pixel is in.
Owner(p) == p \div (Rows * Size)

\* Callers that share their manager with no other.
Alone(c) == c \in ZeroCallers => ZeroCallers = {c}

\* Callers that pass the zero manager side by side spoil each other's
\* pixels, for their scratch is one.  That is all they spoil: whoever has a
\* manager to itself gets every pixel right, whatever the others do on the
\* same handle at the same time.
DamageStaysWithSharers ==
  \A p \in 0 .. room - 1 :
    out[p] # Untouched /\ Alone(Owner(p)) => out[p] = Eval[in[p]]

\* Every caller gets all of its rows in the end, and gets them right if it
\* shares its manager with no other.
AllTransformed ==
  <>(\A p \in 0 .. room - 1 :
       out[p] # Untouched /\ (Alone(Owner(p)) => out[p] = Eval[in[p]]))

=============================================================================
