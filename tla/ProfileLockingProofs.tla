------------------------ MODULE ProfileLockingProofs ------------------------
(***************************************************************************)
(* What a mutex plug-in gives the goroutines that share a profile, for any *)
(* number of them, of tags and of calls.  Without one the tags of two      *)
(* readers mix; with one, the mutex is held from the search for a tag to   *)
(* the last assignment of its call, and only the read of the result comes  *)
(* after it.                                                               *)
(***************************************************************************)
EXTENDS ProfileLocking, TLAPS

\* Where a call is when it holds the mutex.
Holding == Labels \ {"idle", "lock", "return"}

ReadSteps == {"lookup", "seek", "base", "body", "store", "check", "unlock",
              "return", "error", "refuse"}
WriteSteps == {"delete", "write", "written"}

\* Goroutines run the code of their kind, and hold the mutex while they do.
Excluded ==
  /\ \A p \in Procs : pc[p] \in Holding => mutex = p
  /\ \A p \in Procs : pc[p] \in ReadSteps => p \in Readers
  /\ \A p \in Procs : pc[p] \in WriteSteps => p \in Writers

\* A reader that reads the file is where its tag's contents come next, and
\* reads only a tag the file still has, or that nothing was written of.
ReadsItsOwn ==
  \A r \in Procs :
    /\ pc[r] = "base" => pos = <<sig[r], "base">>
    /\ pc[r] = "body" => pos = <<sig[r], "body">>
    /\ pc[r] = "store" => found[r] = Disk[sig[r]]
    /\ pc[r] \in {"seek", "base", "body", "store", "check", "error"} => onDisk[sig[r]]

\* What was in the file belongs to the tag's history.
FileHeld == \A t \in Tags : Disk[t] \in held[t]

LockInv ==
  /\ TypeOK
  /\ Excluded
  /\ ReadsItsOwn
  /\ FileHeld
  /\ \A t \in Tags : ptrs[t] \in held[t] \cup {Nothing}
  /\ WritesSurvive
  /\ AnswersOwn

LEMMA InitLockInv == Init => LockInv
<1> SUFFICES ASSUME Init PROVE LockInv
  OBVIOUS
<1>1. TypeOK
  BY LockingAssumption DEF Init, TypeOK, Contents, Parts, Labels
<1>2. QED
  BY <1>1, LockingAssumption
  DEF Init, LockInv, Excluded, Holding, Labels, ReadSteps, WriteSteps, ReadsItsOwn,
      FileHeld, WritesSurvive, AnswersOwn, Procs

LEMMA StepType ==
  ASSUME TypeOK, NEW p \in Procs, Step(p)
  PROVE  TypeOK'
<1> USE LockingAssumption DEF TypeOK, Goto
<1>1. CASE Call(p)
  BY <1>1 DEF Call, Labels
<1>2. CASE cmsLockMutex(p)
  BY <1>2 DEF cmsLockMutex, Labels
<1>3. CASE Lookup(p)
  BY <1>3 DEF Lookup, Labels
<1>4. CASE Seek(p)
  BY <1>4 DEF Seek, Labels, Parts
<1>5. CASE cmsReadTypeBase(p)
  BY <1>5 DEF cmsReadTypeBase, Labels, Parts
<1>6. CASE ReadFn(p)
  BY <1>6 DEF ReadFn, Labels, Parts, Contents
<1>7. CASE Store(p)
  BY <1>7 DEF Store, Labels
<1>8. CASE Check(p)
  BY <1>8 DEF Check, Labels
<1>9. CASE cmsUnlockMutex(p)
  BY <1>9 DEF cmsUnlockMutex, Unlock, Labels
<1>10. CASE Return(p)
  BY <1>10 DEF Return, Labels
<1>11. CASE Error(p)
  BY <1>11 DEF Error, Labels, Contents
<1>12. CASE Refuse(p)
  BY <1>12 DEF Refuse, Unlock, Labels, Contents
<1>13. CASE cmsDeleteTagByPos(p)
  BY <1>13 DEF cmsDeleteTagByPos, Labels, Contents
<1>14. CASE DupFn(p)
  BY <1>14 DEF DupFn, Labels, Contents
<1>15. CASE EndWrite(p)
  BY <1>15 DEF EndWrite, Unlock, Labels
<1>16. QED
  BY <1>1, <1>2, <1>3, <1>4, <1>5, <1>6, <1>7, <1>8, <1>9, <1>10, <1>11, <1>12,
     <1>13, <1>14, <1>15 DEF Step

LEMMA StepExcluded ==
  ASSUME LockInv, Locking, NEW p \in Procs, Step(p)
  PROVE  Excluded'
<1> USE LockingAssumption DEF LockInv, TypeOK, Excluded, Goto, Procs
<1>1. CASE Call(p)
  BY <1>1 DEF Call, Holding, ReadSteps, WriteSteps
<1>2. CASE cmsLockMutex(p)
  BY <1>2 DEF cmsLockMutex, Holding, ReadSteps, WriteSteps
<1>3. CASE Lookup(p) \/ Seek(p) \/ cmsReadTypeBase(p) \/ ReadFn(p) \/ Store(p) \/ Check(p)
           \/ Return(p) \/ Error(p) \/ cmsDeleteTagByPos(p) \/ DupFn(p)
  BY <1>3 DEF Lookup, Seek, cmsReadTypeBase, ReadFn, Store, Check, Return, Error,
     cmsDeleteTagByPos, DupFn, Holding, ReadSteps, WriteSteps, Labels
<1>4. CASE cmsUnlockMutex(p) \/ Refuse(p) \/ EndWrite(p)
  BY <1>4 DEF cmsUnlockMutex, Refuse, EndWrite, Unlock, Holding, ReadSteps, WriteSteps, Labels
<1>5. QED
  BY <1>1, <1>2, <1>3, <1>4 DEF Step

\* At most one goroutine is between its lock and its unlock.
LEMMA Alone ==
  ASSUME LockInv, NEW p \in Procs, NEW q \in Procs,
         pc[p] \in Holding, pc[q] \in Holding
  PROVE  p = q
BY DEF LockInv, Excluded

LEMMA StepReadsItsOwn ==
  ASSUME LockInv, Locking, NEW p \in Procs, Step(p)
  PROVE  ReadsItsOwn'
<1> SUFFICES ASSUME NEW r \in Procs
    PROVE  /\ pc'[r] = "base" => pos' = <<sig'[r], "base">>
           /\ pc'[r] = "body" => pos' = <<sig'[r], "body">>
           /\ pc'[r] = "store" => found'[r] = Disk[sig'[r]]
           /\ pc'[r] \in {"seek", "base", "body", "store", "check", "error"} => onDisk'[sig'[r]]
  BY DEF ReadsItsOwn
<1> USE LockingAssumption DEF LockInv, TypeOK, ReadsItsOwn, Goto, Holding, Labels
<1>1. CASE Call(p)
  BY <1>1 DEF Call
<1>2. CASE cmsLockMutex(p)
  BY <1>2 DEF cmsLockMutex
<1>3. CASE Lookup(p)
  <2>1. pc[p] = "lookup" /\ pc[p] \in Holding /\ \A w \in Writers : pc[w] # "write"
    BY <1>3, Alone DEF Lookup, Excluded, Procs
  <2>2. ~onDisk[sig[p]] => ptrs[sig[p]] # Nothing
    BY <2>1 DEF WritesSurvive
  <2>3. QED
    BY <1>3, <2>2 DEF Lookup
<1>4. CASE Seek(p)
  BY <1>4, Alone DEF Seek
<1>5. CASE cmsReadTypeBase(p)
  BY <1>5, Alone DEF cmsReadTypeBase
<1>6. CASE ReadFn(p)
  BY <1>6, Alone DEF ReadFn
<1>7. CASE Store(p) \/ Check(p) \/ cmsUnlockMutex(p) \/ Return(p) \/ Error(p)
           \/ Refuse(p) \/ cmsDeleteTagByPos(p) \/ EndWrite(p)
  BY <1>7 DEF Store, Check, cmsUnlockMutex, Return, Error, Refuse, cmsDeleteTagByPos, EndWrite
<1>8. CASE DupFn(p)
  BY <1>8, Alone DEF DupFn
<1>9. QED
  BY <1>1, <1>2, <1>3, <1>4, <1>5, <1>6, <1>7, <1>8 DEF Step

LEMMA StepHistory ==
  ASSUME LockInv, NEW p \in Procs, Step(p)
  PROVE  FileHeld' /\ \A t \in Tags : held[t] \subseteq held'[t]
BY LockingAssumption DEF LockInv, TypeOK, FileHeld, Step, Goto, Call, cmsLockMutex, Lookup, Seek,
   cmsReadTypeBase, ReadFn, Store, Check, cmsUnlockMutex, Return, Error, Refuse,
   cmsDeleteTagByPos, DupFn, EndWrite

LEMMA StepKept ==
  ASSUME LockInv, Locking, NEW p \in Procs, Step(p)
  PROVE  \A t \in Tags : ptrs'[t] \in held'[t] \cup {Nothing}
<1> USE LockingAssumption DEF LockInv, TypeOK, Goto
<1>1. CASE Store(p)
  BY <1>1 DEF Store, ReadsItsOwn, FileHeld
<1>2. CASE Error(p) \/ cmsDeleteTagByPos(p)
  BY <1>2 DEF Error, cmsDeleteTagByPos
<1>3. CASE DupFn(p)
  BY <1>3 DEF DupFn
<1>4. CASE Call(p) \/ cmsLockMutex(p) \/ Lookup(p) \/ Seek(p) \/ cmsReadTypeBase(p)
           \/ ReadFn(p) \/ Check(p) \/ cmsUnlockMutex(p) \/ Return(p) \/ Refuse(p)
           \/ EndWrite(p)
  BY <1>4 DEF Call, cmsLockMutex, Lookup, Seek, cmsReadTypeBase, ReadFn, Check,
     cmsUnlockMutex, Return, Refuse, EndWrite
<1>5. QED
  BY <1>1, <1>2, <1>3, <1>4 DEF Step

LEMMA StepWritesSurvive ==
  ASSUME LockInv, Locking, NEW p \in Procs, Step(p)
  PROVE  WritesSurvive'
<1> SUFFICES ASSUME NEW t \in Tags, ~onDisk'[t],
                    \A w \in Writers : pc'[w] = "write" => sig'[w] # t
    PROVE  ptrs'[t] = Written
  BY DEF WritesSurvive
<1> USE LockingAssumption DEF LockInv, TypeOK, Goto, Procs
<1>1. CASE DupFn(p)
  <2>1. CASE sig[p] = t
    BY <1>1, <2>1 DEF DupFn
  <2>2. CASE sig[p] # t
    BY <1>1, <2>2 DEF DupFn, WritesSurvive
  <2>3. QED
    BY <2>1, <2>2
<1>2. CASE cmsDeleteTagByPos(p)
  BY <1>2 DEF cmsDeleteTagByPos, WritesSurvive, Excluded, WriteSteps
<1>3. CASE Store(p) \/ Error(p)
  BY <1>3 DEF Store, Error, WritesSurvive, ReadsItsOwn
<1>4. CASE Call(p) \/ cmsLockMutex(p) \/ Lookup(p) \/ Seek(p) \/ cmsReadTypeBase(p)
           \/ ReadFn(p) \/ Check(p) \/ cmsUnlockMutex(p) \/ Return(p) \/ Refuse(p)
           \/ EndWrite(p)
  BY <1>4 DEF Call, cmsLockMutex, Lookup, Seek, cmsReadTypeBase, ReadFn, Check,
     cmsUnlockMutex, Return, Refuse, EndWrite, WritesSurvive
<1>5. QED
  BY <1>1, <1>2, <1>3, <1>4 DEF Step

LEMMA StepAnswersOwn ==
  ASSUME LockInv, NEW p \in Procs, Step(p)
  PROVE  AnswersOwn'
<1> SUFFICES ASSUME NEW r \in Readers, pc'[r] = "idle", calls'[r] > 0
    PROVE  answer'[r] \in held'[sig'[r]] \cup {Nothing}
  BY DEF AnswersOwn
<1> USE LockingAssumption DEF LockInv, TypeOK, Goto, Procs
<1>0. \A t \in Tags : held[t] \subseteq held'[t]
  BY StepHistory
<1>1. CASE Return(p)
  BY <1>1 DEF Return, AnswersOwn
<1>2. CASE Refuse(p)
  BY <1>2 DEF Refuse, AnswersOwn
<1>3. CASE Call(p) \/ cmsLockMutex(p) \/ Lookup(p) \/ Seek(p) \/ cmsReadTypeBase(p)
           \/ ReadFn(p) \/ Store(p) \/ Check(p) \/ cmsUnlockMutex(p) \/ Error(p)
           \/ cmsDeleteTagByPos(p) \/ DupFn(p) \/ EndWrite(p)
  BY <1>0, <1>3 DEF Call, cmsLockMutex, Lookup, Seek, cmsReadTypeBase, ReadFn, Store, Check,
     cmsUnlockMutex, Error, cmsDeleteTagByPos, DupFn, EndWrite, AnswersOwn, Excluded, WriteSteps
<1>4. QED
  BY <1>1, <1>2, <1>3 DEF Step

LEMMA NextLockInv == Locking /\ LockInv /\ [Next]_vars => LockInv'
<1> SUFFICES ASSUME Locking, LockInv, [Next]_vars PROVE LockInv'
  OBVIOUS
<1>1. CASE \E p \in Procs : Step(p)
  <2> PICK p \in Procs : Step(p)
    BY <1>1
  <2>1. TypeOK'
    BY StepType DEF LockInv
  <2>2. Excluded' /\ ReadsItsOwn' /\ WritesSurvive' /\ AnswersOwn'
    BY StepExcluded, StepReadsItsOwn, StepWritesSurvive, StepAnswersOwn
  <2>3. QED
    BY <2>1, <2>2, StepHistory, StepKept DEF LockInv
<1>2. CASE UNCHANGED vars
  BY <1>2 DEF vars, LockInv, TypeOK, Excluded, ReadsItsOwn, FileHeld, WritesSurvive, AnswersOwn
<1>3. QED
  BY <1>1, <1>2 DEF Next, Finished

----------------------------------------------------------------------------

\* With a mutex plug-in every goroutine is alone with the directory and the
\* file position from its search for a tag to the last assignment of its call.
THEOREM LockedCalls == ASSUME Locking PROVE Spec => []LockInv
<1>1. LockInv /\ [Next]_vars => LockInv'
  BY NextLockInv
<1>2. QED
  BY <1>1, InitLockInv, PTL DEF Spec

\* With a mutex plug-in, what a profile keeps for a tag is that tag's.
THEOREM KeptRightWhenLocked == ASSUME Locking PROVE Spec => []KeptRight
<1>1. LockInv => KeptRight
  BY DEF LockInv, KeptRight
<1>2. QED
  BY <1>1, LockedCalls, PTL

\* With a mutex plug-in, no read undoes a write.
THEOREM WritesSurviveWhenLocked == ASSUME Locking PROVE Spec => []WritesSurvive
<1>1. LockInv => WritesSurvive
  BY DEF LockInv
<1>2. QED
  BY <1>1, LockedCalls, PTL

\* With a mutex plug-in, no call returns the contents of another tag.
THEOREM AnswersOwnWhenLocked == ASSUME Locking PROVE Spec => []AnswersOwn
<1>1. LockInv => AnswersOwn
  BY DEF LockInv
<1>2. QED
  BY <1>1, LockedCalls, PTL

=============================================================================
