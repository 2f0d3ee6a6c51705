--------------------------- MODULE ProfileLocking ---------------------------
(***************************************************************************)
(* Goroutines that read, and may write, tags of one profile opened from a  *)
(* file: cmsReadTag step by step on the shared directory and the shared    *)
(* position of the profile's IO handler.  The mutex of the profile works   *)
(* with a mutex plug-in; defMtxLock, which is there without one, does      *)
(* nothing.                                                                *)
(*                                                                         *)
(* The tags are distinct, unlinked and of types their signatures support;  *)
(* the handler is stored before the pointer on every path and never        *)
(* cleared, so a pointer stands for both.                                  *)
(***************************************************************************)
EXTENDS Integers

CONSTANTS
  Readers, Writers,   \* goroutines
  Tags,
  Disk,               \* the value in the file; Nothing when it is damaged
  Written,            \* what the writers write
  Nothing,            \* a nil pointer
  Free,               \* nobody holds the mutex
  Locking,            \* whether a mutex plug-in is registered
  MaxCalls            \* bound on the calls of a goroutine

Procs == Readers \cup Writers
Contents == {Disk[t] : t \in Tags} \cup {Written, Nothing}

ASSUME LockingAssumption ==
  /\ Readers \cap Writers = {}
  /\ Free \notin Procs
  /\ DOMAIN Disk = Tags
  /\ Written # Nothing
  /\ Locking \in BOOLEAN
  /\ MaxCalls \in Nat

VARIABLES
  mutex,    \* who holds Icc.UsrMutex
  pos,      \* the IO handler's position: a tag and the part that comes next
  ptrs,     \* TagPtrs
  onDisk,   \* whether TagSizes still says that the tag is in the file
  pc, calls,
  sig,      \* the tag each call is about
  found,    \* what ReadFn returned
  answer,   \* what the reader's latest call returned
  held      \* history: everything a tag was given so far

vars == <<mutex, pos, ptrs, onDisk, pc, calls, sig, found, answer, held>>

Parts == {"base", "body", "end"}

Init ==
  /\ mutex = Free
  /\ pos \in Tags \X {"base"}
  /\ ptrs = [t \in Tags |-> Nothing]
  /\ onDisk = [t \in Tags |-> TRUE]
  /\ pc = [p \in Procs |-> "idle"]
  /\ calls = [p \in Procs |-> 0]
  /\ sig \in [Procs -> Tags]
  /\ found = [p \in Procs |-> Nothing]
  /\ answer = [p \in Procs |-> Nothing]
  /\ held = [t \in Tags |-> {Disk[t]}]

Goto(p, label) == pc' = [pc EXCEPT ![p] = label]

Call(p) ==
  /\ pc[p] = "idle"
  /\ calls[p] < MaxCalls
  /\ calls' = [calls EXCEPT ![p] = calls[p] + 1]
  /\ \E t \in Tags : sig' = [sig EXCEPT ![p] = t]
  /\ Goto(p, "lock")
  /\ UNCHANGED <<mutex, pos, ptrs, onDisk, found, answer, held>>

\* Mistake: the mutex is taken whoever holds it.
LockAtOnce(p) ==
  /\ pc[p] = "lock"
  /\ mutex' = IF Locking THEN p ELSE mutex
  /\ Goto(p, IF p \in Readers THEN "lookup" ELSE "delete")
  /\ UNCHANGED <<pos, ptrs, onDisk, calls, sig, found, answer, held>>

cmsLockMutex(p) ==
  /\ pc[p] = "lock"
  /\ Locking => mutex = Free
  /\ mutex' = IF Locking THEN p ELSE mutex
  /\ Goto(p, IF p \in Readers THEN "lookup" ELSE "delete")
  /\ UNCHANGED <<pos, ptrs, onDisk, calls, sig, found, answer, held>>

Unlock == mutex' = IF Locking THEN Free ELSE mutex

----------------------------------------------------------------------------
(* cmsReadTag *)

\* In memory already, or in the file, or neither.
Lookup(r) ==
  /\ pc[r] = "lookup"
  /\ Goto(r, IF ptrs[sig[r]] # Nothing THEN "unlock"
             ELSE IF onDisk[sig[r]] THEN "seek" ELSE "error")
  /\ UNCHANGED <<mutex, pos, ptrs, onDisk, calls, sig, found, answer, held>>

\* Mistake: the tag is read from where the last one ended.
SeekNowhere(r) ==
  /\ pc[r] = "seek"
  /\ Goto(r, "base")
  /\ UNCHANGED <<mutex, pos, ptrs, onDisk, calls, sig, found, answer, held>>

Seek(r) ==
  /\ pc[r] = "seek"
  /\ pos' = <<sig[r], "base">>
  /\ Goto(r, "base")
  /\ UNCHANGED <<mutex, ptrs, onDisk, calls, sig, found, answer, held>>

\* Eight bytes from anywhere but the start of a tag are no known type.
cmsReadTypeBase(r) ==
  /\ pc[r] = "base"
  /\ IF pos[2] = "base"
       THEN pos' = <<pos[1], "body">> /\ Goto(r, "body")
       ELSE pos' = <<pos[1], "end">> /\ Goto(r, "error")
  /\ UNCHANGED <<mutex, ptrs, onDisk, calls, sig, found, answer, held>>

\* The type handler reads what is at the position, whichever tag's it is.
ReadFn(r) ==
  /\ pc[r] = "body"
  /\ found' = [found EXCEPT ![r] = IF pos[2] = "body" THEN Disk[pos[1]] ELSE Nothing]
  /\ pos' = <<pos[1], "end">>
  /\ Goto(r, "store")
  /\ UNCHANGED <<mutex, ptrs, onDisk, calls, sig, answer, held>>

Store(r) ==
  /\ pc[r] = "store"
  /\ ptrs' = [ptrs EXCEPT ![sig[r]] = found[r]]
  /\ Goto(r, "check")
  /\ UNCHANGED <<mutex, pos, onDisk, calls, sig, found, answer, held>>

Check(r) ==
  /\ pc[r] = "check"
  /\ Goto(r, IF ptrs[sig[r]] = Nothing THEN "error" ELSE "unlock")
  /\ UNCHANGED <<mutex, pos, ptrs, onDisk, calls, sig, found, answer, held>>

cmsUnlockMutex(r) ==
  /\ pc[r] = "unlock"
  /\ Unlock
  /\ Goto(r, "return")
  /\ UNCHANGED <<pos, ptrs, onDisk, calls, sig, found, answer, held>>

\* TagPtrs[n] is read for the result once the mutex has been let go.
Return(r) ==
  /\ pc[r] = "return"
  /\ answer' = [answer EXCEPT ![r] = ptrs[sig[r]]]
  /\ Goto(r, "idle")
  /\ UNCHANGED <<mutex, pos, ptrs, onDisk, calls, sig, found, held>>

Error(r) ==
  /\ pc[r] = "error"
  /\ ptrs' = [ptrs EXCEPT ![sig[r]] = Nothing]
  /\ Goto(r, "refuse")
  /\ UNCHANGED <<mutex, pos, onDisk, calls, sig, found, answer, held>>

\* Mistake: the error path keeps the mutex.
RefuseLocked(r) ==
  /\ pc[r] = "refuse"
  /\ answer' = [answer EXCEPT ![r] = Nothing]
  /\ Goto(r, "idle")
  /\ UNCHANGED <<mutex, pos, ptrs, onDisk, calls, sig, found, held>>

Refuse(r) ==
  /\ pc[r] = "refuse"
  /\ Unlock
  /\ answer' = [answer EXCEPT ![r] = Nothing]
  /\ Goto(r, "idle")
  /\ UNCHANGED <<pos, ptrs, onDisk, calls, sig, found, held>>

----------------------------------------------------------------------------
(* cmsWriteTag of an existing tag *)

cmsDeleteTagByPos(w) ==
  /\ pc[w] = "delete"
  /\ ptrs' = [ptrs EXCEPT ![sig[w]] = Nothing]
  /\ Goto(w, "write")
  /\ UNCHANGED <<mutex, pos, onDisk, calls, sig, found, answer, held>>

DupFn(w) ==
  /\ pc[w] = "write"
  /\ ptrs' = [ptrs EXCEPT ![sig[w]] = Written]
  /\ onDisk' = [onDisk EXCEPT ![sig[w]] = FALSE]
  /\ held' = [held EXCEPT ![sig[w]] = @ \cup {Written}]
  /\ Goto(w, "written")
  /\ UNCHANGED <<mutex, pos, calls, sig, found, answer>>

EndWrite(w) ==
  /\ pc[w] = "written"
  /\ Unlock
  /\ Goto(w, "idle")
  /\ UNCHANGED <<pos, ptrs, onDisk, calls, sig, found, answer, held>>

----------------------------------------------------------------------------

Step(p) ==
  \/ Call(p) \/ cmsLockMutex(p)
  \/ Lookup(p) \/ Seek(p) \/ cmsReadTypeBase(p) \/ ReadFn(p) \/ Store(p)
  \/ Check(p) \/ cmsUnlockMutex(p) \/ Return(p) \/ Error(p) \/ Refuse(p)
  \/ cmsDeleteTagByPos(p) \/ DupFn(p) \/ EndWrite(p)

Finished ==
  /\ \A p \in Procs : pc[p] = "idle" /\ calls[p] = MaxCalls
  /\ UNCHANGED vars

Next == (\E p \in Procs : Step(p)) \/ Finished

Spec == Init /\ [][Next]_vars
FairSpec == Spec /\ \A p \in Procs : WF_vars(Step(p))

----------------------------------------------------------------------------

Labels == {"idle", "lock", "lookup", "seek", "base", "body", "store", "check",
           "unlock", "return", "error", "refuse", "delete", "write", "written"}

TypeOK ==
  /\ mutex \in Procs \cup {Free}
  /\ pos \in Tags \X Parts
  /\ ptrs \in [Tags -> Contents]
  /\ onDisk \in [Tags -> BOOLEAN]
  /\ pc \in [Procs -> Labels]
  /\ calls \in [Procs -> 0 .. MaxCalls]
  /\ sig \in [Procs -> Tags]
  /\ found \in [Procs -> Contents]
  /\ answer \in [Procs -> Contents]
  /\ held \in [Tags -> SUBSET Contents]

\* What a call of cmsReadTag returned is something that tag has held, or nil:
\* never the contents of another tag.
AnswersOwn ==
  \A r \in Readers :
    pc[r] = "idle" /\ calls[r] > 0 => answer[r] \in held[sig[r]] \cup {Nothing}

\* What a call of cmsReadTag returned is something that tag has held, which
\* is nil for a damaged tag only.
AnswersHeld ==
  \A r \in Readers :
    pc[r] = "idle" /\ calls[r] > 0 => answer[r] \in held[sig[r]]

\* What the profile keeps for a tag is that tag's, so a call gone wrong does
\* not spoil the calls after it.
KeptRight == TypeOK /\ \A t \in Tags : ptrs[t] \in held[t] \cup {Nothing}

\* What a write left in memory is not undone by the reads around it.
WritesSurvive ==
  \A t \in Tags :
    ~onDisk[t] /\ (\A w \in Writers : pc[w] = "write" => sig[w] # t)
      => ptrs[t] = Written

\* Every call returns, whatever the others are doing.
CallsReturn == \A p \in Procs : pc[p] = "lock" ~> pc[p] = "idle"

=============================================================================
