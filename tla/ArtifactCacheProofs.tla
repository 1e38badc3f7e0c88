------------------------ MODULE ArtifactCacheProofs ------------------------
(* Theorems about ArtifactCache, for every number of processes, every bound *)
(* on the acquire loop and every set of faults.                             *)
EXTENDS ArtifactCache, TLAPS

----------------------------------------------------------------------------
(* Type correctness *)

\* A waiter that is looking at the lock file has an iteration left.
AttemptsLeft ==
  \A p \in Publishers :
    pc[p] \in {"stat", "readpid", "unlink"} => attempt[p] < MaxAttempts

TypeInv == TypeOK /\ AttemptsLeft

\* The cache starts well typed, whatever an earlier run left behind.
LEMMA InitType == Init => TypeInv
<1> SUFFICES ASSUME Init PROVE TypeInv
  OBVIOUS
<1> USE CacheAssumption DEF Init
<1>1. content \in [Dirs -> SUBSET Files]
  BY DEF Dirs
<1>2. got \in [Readers -> [Files -> Dirs \cup {None}]]
  OBVIOUS
<1>3. /\ dest \in Dirs \cup {None}
      /\ pc \in [Actors -> PublisherPc \cup RemoverPc]
      /\ want \in [Readers -> SUBSET Files]
  BY DEF PublisherPc, RemoverPc, Dirs
<1>4. /\ attempt \in [Publishers -> 0..MaxAttempts]
      /\ victim \in [Actors -> Dirs \cup {None}]
  OBVIOUS
<1>5. AttemptsLeft
  BY DEF AttemptsLeft, Actors
<1> QED
  BY <1>1, <1>2, <1>3, <1>4, <1>5 DEF TypeInv, TypeOK

\* The acquire loop of publish keeps the type invariant.
LEMMA AcquireType ==
  ASSUME TypeInv, NEW p \in Publishers, Acquire(p)
  PROVE  TypeInv'
<1> USE CacheAssumption DEF TypeInv, TypeOK, AttemptsLeft, PublisherPc,
      RemoverPc, Actors, Goto, Return, readerVars, lockVars
<1>1. CASE CreateLock(p)
  BY <1>1 DEF CreateLock
<1>2. CASE LockExists(p)
  BY <1>2 DEF LockExists
<1>3. CASE LockTimeout(p)
  BY <1>3 DEF LockTimeout
<1>4. CASE WritePid(p)
  BY <1>4 DEF WritePid
<1>5. CASE StatLock(p)
  <2>1. attempt[p] < MaxAttempts
    BY <1>5 DEF StatLock
  <2>2. /\ pc' \in [Actors -> PublisherPc \cup RemoverPc]
        /\ attempt' \in [Publishers -> 0..MaxAttempts]
    <3>1. PICK c \in {"unlink", "open", "readpid"} :
            pc' = [pc EXCEPT ![p] = c]
      BY <1>5 DEF StatLock
    <3>2. pc' \in [Actors -> PublisherPc \cup RemoverPc]
      BY <3>1
    <3>3. attempt' \in {attempt, [attempt EXCEPT ![p] = @ + 1]}
      BY <1>5 DEF StatLock
    <3>4. attempt[p] + 1 \in 0..MaxAttempts
      BY <2>1
    <3>5. [attempt EXCEPT ![p] = @ + 1] \in [Publishers -> 0..MaxAttempts]
      BY <3>4
    <3> QED
      BY <3>2, <3>3, <3>5
  <2>3. AttemptsLeft'
    BY <1>5 DEF StatLock
  <2>4. UNCHANGED <<dest, content, lockBy, lockPid, lockAge, victim, result,
                    rpc, want, got>>
    BY <1>5 DEF StatLock
  <2> QED
    BY <2>2, <2>3, <2>4
<1>6. CASE ReadPid(p)
  <2>1. /\ \/ /\ pc' = [pc EXCEPT ![p] = "open"]
              /\ attempt' = [attempt EXCEPT ![p] = @ + 1]
           \/ /\ pc' = [pc EXCEPT ![p] = "unlink"]
              /\ attempt' = attempt
        /\ attempt[p] < MaxAttempts
        /\ UNCHANGED <<dest, content, lockBy, lockPid, lockAge, victim, result,
                       rpc, want, got>>
    BY <1>6 DEF ReadPid
  <2>2. attempt[p] + 1 \in 0..MaxAttempts
    BY <2>1
  <2>3. [attempt EXCEPT ![p] = @ + 1] \in [Publishers -> 0..MaxAttempts]
    BY <2>2
  <2>4. pc' \in [Actors -> PublisherPc \cup RemoverPc]
    BY <2>1
  <2>5. attempt' \in [Publishers -> 0..MaxAttempts]
    BY <2>1, <2>3
  <2>6. AttemptsLeft'
    BY <2>1
  <2> QED
    BY <2>1, <2>4, <2>5, <2>6
<1>7. CASE UnlinkStale(p)
  BY <1>7 DEF UnlinkStale, UnlinkLock
<1>8. CASE LockIoError(p)
  BY <1>8 DEF LockIoError
<1> QED
  BY <1>1, <1>2, <1>3, <1>4, <1>5, <1>6, <1>7, <1>8 DEF Acquire

\* remove_dir_all keeps it, whoever runs it.
LEMMA RemoveDirAllType ==
  ASSUME TypeInv, NEW a \in Actors, RemoveDirAll(a)
  PROVE  TypeInv'
<1> USE CacheAssumption DEF TypeInv, TypeOK, AttemptsLeft, PublisherPc,
      RemoverPc, Actors, Goto, Return, readerVars, lockVars, RemovalDone
<1>1. CASE RemoveDirOpen(a)
  <2>1. CASE dest = None
    BY <1>1, <2>1 DEF RemoveDirOpen
  <2>2. CASE dest # None
    <3>1. /\ pc' = [pc EXCEPT ![a] = "rmunlink"]
          /\ victim' = [victim EXCEPT ![a] = dest]
          /\ UNCHANGED <<dest, content, lockBy, lockPid, lockAge, attempt,
                         result, rpc, want, got>>
      BY <1>1, <2>2 DEF RemoveDirOpen
    <3>2. pc' \in [Actors -> PublisherPc \cup RemoverPc]
      BY <3>1
    <3>3. victim' \in [Actors -> Dirs \cup {None}]
      BY <3>1
    <3>4. AttemptsLeft'
      BY <3>1
    <3> QED
      BY <3>1, <3>2, <3>3, <3>4
  <2> QED
    BY <2>1, <2>2
<1>2. CASE RemoveDirUnlink(a)
  <2>1. PICK f : content' = [content EXCEPT ![victim[a]] = @ \ {f}]
    BY <1>2 DEF RemoveDirUnlink
  <2>2. victim[a] \in Dirs => content[victim[a]] \ {f} \in SUBSET Files
    OBVIOUS
  <2>3. content' \in [Dirs -> SUBSET Files]
    BY <2>1, <2>2
  <2> QED
    BY <1>2, <2>3 DEF RemoveDirUnlink
<1>3. CASE RemoveDirFinish(a)
  <2>1. CASE dest # None /\ content[dest] # {}
    BY <1>3, <2>1 DEF RemoveDirFinish
  <2>2. CASE ~(dest # None /\ content[dest] # {})
    BY <1>3, <2>2 DEF RemoveDirFinish
  <2> QED
    BY <2>1, <2>2
<1> QED
  BY <1>1, <1>2, <1>3 DEF RemoveDirAll

\* Every step of a publisher, remover, reader or of the environment keeps the
\* type invariant.
LEMMA NextType == TypeInv /\ [Next]_vars => TypeInv'
<1> SUFFICES ASSUME TypeInv, [Next]_vars PROVE TypeInv'
  OBVIOUS
<1> USE CacheAssumption DEF TypeInv, TypeOK, AttemptsLeft, PublisherPc,
      RemoverPc, Actors, Dirs, Goto, Return, readerVars, lockVars
<1>1. ASSUME NEW p \in Publishers, Publish(p) PROVE TypeInv'
  <2>1. CASE Acquire(p)
    BY <2>1, AcquireType
  <2>2. CASE CheckExisting(p)
    BY <2>2 DEF CheckExisting
  <2>3. CASE WriteFile(p)
    BY <2>3 DEF WriteFile
  <2>4. CASE Recheck(p)
    BY <2>4 DEF Recheck
  <2>5. CASE DirExists(p)
    BY <2>5 DEF DirExists
  <2>6. CASE RemoveDirAll(p)
    BY <2>6, RemoveDirAllType
  <2>7. CASE RenameIntoPlace(p)
    BY <2>7 DEF RenameIntoPlace
  <2>8. CASE PublishIoError(p)
    BY <2>8 DEF PublishIoError
  <2>9. CASE Cleanup(p)
    BY <2>9 DEF Cleanup
  <2>10. CASE ReleaseLock(p)
    BY <2>10 DEF ReleaseLock, UnlinkLock
  <2> QED
    BY <1>1, <2>1, <2>2, <2>3, <2>4, <2>5, <2>6, <2>7, <2>8, <2>9, <2>10
    DEF Publish
<1>2. ASSUME NEW m \in Removers, Remove(m) PROVE TypeInv'
  <2>1. CASE ListForRemove(m)
    BY <2>1 DEF ListForRemove
  <2>2. CASE RemoveDirAll(m)
    BY <2>2, RemoveDirAllType
  <2>3. CASE RemoveIoError(m)
    BY <2>3 DEF RemoveIoError
  <2> QED
    BY <1>2, <2>1, <2>2, <2>3 DEF Remove
<1>3. ASSUME NEW r \in Readers, Read(r) PROVE TypeInv'
  <2>1. CASE Lookup(r)
    <3>1. dest # None => content[dest] \ {"key"} \in SUBSET Files
      OBVIOUS
    <3>2. want' \in [Readers -> SUBSET Files]
      BY <2>1, <3>1 DEF Lookup, IsComplete
    <3>3. rpc' \in [Readers -> {"lookup", "read", "miss", "failed", "loaded"}]
      BY <2>1 DEF Lookup
    <3> QED
      BY <2>1, <3>2, <3>3 DEF Lookup
  <2>2. CASE ReadFile(r)
    <3>1. PICK f \in want[r] :
            IF dest # None /\ f \in content[dest]
              THEN got' = [got EXCEPT ![r][f] = dest] /\ UNCHANGED rpc
              ELSE rpc' = [rpc EXCEPT ![r] = "failed"] /\ UNCHANGED got
      BY <2>2 DEF ReadFile
    <3>2. got' \in [Readers -> [Files -> Dirs \cup {None}]]
      <4>1. f \in Files
        BY <3>1
      <4>2. CASE got' = got
        BY <4>2
      <4>3. CASE dest # None /\ got' = [got EXCEPT ![r][f] = dest]
        BY <4>1, <4>3
      <4> QED
        BY <3>1, <4>2, <4>3
    <3>3. rpc' \in [Readers -> {"lookup", "read", "miss", "failed", "loaded"}]
      BY <3>1
    <3> QED
      BY <2>2, <3>2, <3>3 DEF ReadFile
  <2>3. CASE ReadDone(r)
    BY <2>3 DEF ReadDone
  <2> QED
    BY <1>3, <2>1, <2>2, <2>3 DEF Read
<1>4. ASSUME NEW a \in Actors, Crash(a) PROVE TypeInv'
  BY <1>4 DEF Crash
<1>5. CASE LockAges
  BY <1>5 DEF LockAges
<1>6. CASE UNCHANGED vars
  BY <1>6 DEF vars
<1> QED
  BY <1>1, <1>2, <1>3, <1>4, <1>5, <1>6 DEF Next, Terminated

\* Every behaviour of the cache keeps the type invariant.
THEOREM TypeCorrect == Spec => []TypeOK
<1>1. Spec => []TypeInv
  BY InitType, NextType, PTL DEF Spec
<1>2. TypeInv => TypeOK
  BY DEF TypeInv
<1> QED
  BY <1>1, <1>2, PTL

----------------------------------------------------------------------------
(* What holds under every fault *)

\* A publisher that has not yet tried its rename.
BeforeRename == PublisherPc \ {"cleanup", "release", "done", "dead"}

\* Until its rename, a publisher's staging directory is out of everyone's
\* reach: it is not at the entry path and no remove_dir_all has it open.
StagingPrivate ==
  \A p \in Publishers :
    pc[p] \in BeforeRename =>
      dest # p /\ \A a \in Actors : victim[a] # p

\* What the staging directory holds follows from the point publish is at.
StagingContent ==
  \A p \in Publishers :
    /\ pc[p] \in {"open", "writepid", "stat", "readpid", "unlink", "check"}
         => content[p] = {}
    /\ pc[p] \in {"recheck", "exists", "rmopen", "rmunlink", "rename"}
         => content[p] = Files
    /\ pc[p] \in {"release", "done"}
         => content[p] = {} \/ result[p] = "published" \/ p \in Unlucky

\* The lock file at the path was created by a publisher that still holds its
\* guard, was killed while it did, or failed to remove it.
LockHasHolder ==
  \A p \in Publishers :
    lockBy = p => pc[p] \in LockedPc \cup {"dead"} \/ p \in Unlucky

FaultInv == TypeInv /\ StagingPrivate /\ StagingContent /\ LockHasHolder

\* The fault-tolerant invariant holds before anybody has run.
LEMMA InitFault == Init => FaultInv
<1> SUFFICES ASSUME Init PROVE FaultInv
  OBVIOUS
<1>1. TypeInv
  BY InitType
<1>2. StagingPrivate /\ StagingContent /\ LockHasHolder
  BY CacheAssumption
  DEF Init, StagingPrivate, StagingContent, LockHasHolder, Actors, Dirs
<1> QED
  BY <1>1, <1>2 DEF FaultInv

\* The acquire loop, which may unlink any lock file, keeps it.
LEMMA AcquireFault ==
  ASSUME FaultInv, NEW p \in Publishers, Acquire(p)
  PROVE  (StagingPrivate /\ StagingContent /\ LockHasHolder)'
<1> USE CacheAssumption DEF FaultInv, TypeInv, TypeOK, StagingPrivate,
      StagingContent, LockHasHolder, BeforeRename, PublisherPc, RemoverPc,
      LockedPc, Actors, Goto, Return, readerVars, lockVars
<1>1. CASE CreateLock(p)
  BY <1>1 DEF CreateLock
<1>2. CASE LockExists(p)
  BY <1>2 DEF LockExists
<1>3. CASE LockTimeout(p)
  BY <1>3 DEF LockTimeout
<1>4. CASE WritePid(p)
  BY <1>4 DEF WritePid
<1>5. CASE StatLock(p)
  BY <1>5 DEF StatLock
<1>6. CASE ReadPid(p)
  BY <1>6 DEF ReadPid
<1>7. CASE UnlinkStale(p)
  BY <1>7 DEF UnlinkStale, UnlinkLock
<1>8. CASE LockIoError(p)
  BY <1>8 DEF LockIoError
<1> QED
  BY <1>1, <1>2, <1>3, <1>4, <1>5, <1>6, <1>7, <1>8 DEF Acquire

\* remove_dir_all keeps it: it only ever opens what is at the entry path.
LEMMA RemoveDirAllFault ==
  ASSUME FaultInv, NEW a \in Actors, RemoveDirAll(a)
  PROVE  (StagingPrivate /\ StagingContent /\ LockHasHolder)'
<1> USE CacheAssumption DEF FaultInv, TypeInv, TypeOK, StagingPrivate,
      StagingContent, LockHasHolder, BeforeRename, PublisherPc, RemoverPc,
      LockedPc, Actors, Dirs, Goto, Return, readerVars, lockVars, RemovalDone
<1>1. CASE RemoveDirOpen(a)
  BY <1>1 DEF RemoveDirOpen
<1>2. CASE RemoveDirUnlink(a)
  BY <1>2 DEF RemoveDirUnlink
<1>3. CASE RemoveDirFinish(a)
  BY <1>3 DEF RemoveDirFinish
<1> QED
  BY <1>1, <1>2, <1>3 DEF RemoveDirAll

\* Every step keeps it, faults included.
LEMMA NextFault == FaultInv /\ [Next]_vars => FaultInv'
<1> SUFFICES ASSUME FaultInv, [Next]_vars
             PROVE  (StagingPrivate /\ StagingContent /\ LockHasHolder)'
  BY NextType DEF FaultInv
<1> USE CacheAssumption DEF FaultInv, TypeInv, TypeOK, StagingPrivate,
      StagingContent, LockHasHolder, BeforeRename, PublisherPc, RemoverPc,
      LockedPc, Actors, Dirs, Goto, Return, readerVars, lockVars
<1> DEFINE Goal == (StagingPrivate /\ StagingContent /\ LockHasHolder)'
<1>1. ASSUME NEW p \in Publishers, Publish(p) PROVE Goal
  <2>1. CASE Acquire(p)
    BY <2>1, AcquireFault
  <2>2. CASE CheckExisting(p)
    BY <2>2 DEF CheckExisting
  <2>3. CASE WriteFile(p)
    BY <2>3 DEF WriteFile
  <2>4. CASE Recheck(p)
    BY <2>4 DEF Recheck
  <2>5. CASE DirExists(p)
    BY <2>5 DEF DirExists
  <2>6. CASE RemoveDirAll(p)
    BY <2>6, RemoveDirAllFault
  <2>7. CASE RenameIntoPlace(p)
    BY <2>7 DEF RenameIntoPlace
  <2>8. CASE PublishIoError(p)
    BY <2>8 DEF PublishIoError
  <2>9. CASE Cleanup(p)
    BY <2>9 DEF Cleanup
  <2>10. CASE ReleaseLock(p)
    BY <2>10 DEF ReleaseLock, UnlinkLock
  <2> QED
    BY <1>1, <2>1, <2>2, <2>3, <2>4, <2>5, <2>6, <2>7, <2>8, <2>9, <2>10
    DEF Publish
<1>2. ASSUME NEW m \in Removers, Remove(m) PROVE Goal
  <2>1. CASE ListForRemove(m)
    BY <2>1 DEF ListForRemove
  <2>2. CASE RemoveDirAll(m)
    BY <2>2, RemoveDirAllFault
  <2>3. CASE RemoveIoError(m)
    BY <2>3 DEF RemoveIoError
  <2> QED
    BY <1>2, <2>1, <2>2, <2>3 DEF Remove
<1>3. ASSUME NEW r \in Readers, Read(r) PROVE Goal
  BY <1>3 DEF Read, Lookup, ReadFile, ReadDone
<1>4. ASSUME NEW a \in Actors, Crash(a) PROVE Goal
  BY <1>4 DEF Crash
<1>5. CASE LockAges
  BY <1>5 DEF LockAges
<1>6. CASE UNCHANGED vars
  BY <1>6 DEF vars
<1> QED
  BY <1>1, <1>2, <1>3, <1>4, <1>5, <1>6 DEF Next, Terminated

\* The fault-tolerant invariant holds in every behaviour.
LEMMA FaultInvHolds == Spec => []FaultInv
BY InitFault, NextFault, PTL DEF Spec

\* Publication is atomic under crashes, I/O errors, clock changes, wrongly
\* reclaimed locks and concurrent removals: only a rename puts a directory at
\* the entry path, and what it renames is whole.
THEOREM PublicationAtomic == Spec => PublicationIsAtomic
<1>1. FaultInv /\ [Next]_vars
        => [dest' \notin {dest, None} => content'[dest'] = Files]_vars
  <2> SUFFICES ASSUME FaultInv, Next, dest' \notin {dest, None}
               PROVE  content'[dest'] = Files
    OBVIOUS
  <2>1. PICK p \in Publishers : RenameIntoPlace(p)
    BY DEF Next, Publish, Acquire, Remove, Read, RemoveDirAll, CreateLock,
       LockExists, LockTimeout, LockIoError, WritePid, StatLock, ReadPid,
       UnlinkStale, RemoveIoError, CheckExisting, WriteFile, Recheck, DirExists, RemoveDirOpen,
       RemoveDirUnlink, RemoveDirFinish, PublishIoError, Cleanup, ReleaseLock,
       ListForRemove, Lookup, ReadFile, ReadDone, Crash, LockAges, Terminated,
       vars
  <2> QED
    BY <2>1 DEF RenameIntoPlace, FaultInv, StagingContent
<1> QED
  BY <1>1, FaultInvHolds, PTL DEF Spec, PublicationIsAtomic

\* A publisher that returns leaves no lock file of its own, on every path on
\* which its remove_file works.
THEOREM LockReleased == Spec => []LockIsReleased
<1>1. FaultInv => LockIsReleased
  BY DEF FaultInv, LockHasHolder, LockedPc, LockIsReleased
<1> QED
  BY <1>1, FaultInvHolds, PTL

\* A publisher that returns leaves no staging directory, on every path on which
\* its remove_dir_all works.
THEOREM StagingRemoved == Spec => []StagingIsRemoved
<1>1. FaultInv => StagingIsRemoved
  BY DEF FaultInv, StagingContent, StagingIsRemoved
<1> QED
  BY <1>1, FaultInvHolds, PTL

----------------------------------------------------------------------------
(* What the lock achieves when nothing fails *)

\* No process is killed, no I/O fails, the clock behaves, no lock is held for
\* STALE_SECS, and nobody runs `cache remove`.
FaultFree == Faults = {} /\ Unlucky = {} /\ Removers = {}

\* The points of publish that may only be visited while the entry is missing.
BuildPc == {"stage", "recheck", "exists", "rmopen", "rmunlink", "rename"}

\* While the entry is missing, the publisher under the lock is the creator of
\* the lock file, nobody is about to unlink it, and nobody has succeeded yet.
MissingEntry ==
  ~IsComplete(dest) =>
    \A p \in Publishers :
      /\ pc[p] \in LockedPc => lockBy = p
      /\ pc[p] \notin {"unlink", "cleanup", "release"}
      /\ pc[p] = "stat" => lockBy # None
      /\ result[p] \notin {"hit", "published"}

\* Once the entry is complete nobody is still building one.
PresentEntry ==
  IsComplete(dest) => \A p \in Publishers : pc[p] \notin BuildPc

\* Where the builder's removal of a leftover stands.
LeftoverRemoval ==
  \A p \in Publishers :
    /\ pc[p] = "rmopen" => dest # None
    /\ pc[p] = "rmunlink" => dest # None /\ victim[p] = dest
    /\ pc[p] = "rename" => dest = None
    /\ pc[p] = "cleanup" => result[p] = "published"

\* No lock is ever judged by its pid, and no process is gone.
NoRecovery ==
  /\ lockAge = "recent"
  /\ \A p \in Publishers : pc[p] \notin {"readpid", "dead"}

NoFaultInv ==
  FaultInv /\ MissingEntry /\ PresentEntry /\ LeftoverRemoval /\ NoRecovery

\* The fault-free invariant holds before anybody has run.
LEMMA InitNoFault == Init => NoFaultInv
<1> SUFFICES ASSUME Init PROVE NoFaultInv
  OBVIOUS
<1>1. FaultInv
  BY InitFault
<1>2. MissingEntry /\ PresentEntry /\ LeftoverRemoval /\ NoRecovery
  BY CacheAssumption
  DEF Init, MissingEntry, PresentEntry, LeftoverRemoval, NoRecovery, BuildPc,
      LockedPc, Actors
<1> QED
  BY <1>1, <1>2 DEF NoFaultInv

\* Without faults every step keeps the lock with the one builder until the
\* entry is complete.
LEMMA NextNoFault ==
  ASSUME FaultFree, NoFaultInv, [Next]_vars
  PROVE  /\ NoFaultInv'
         /\ IsComplete(dest) => dest' = dest /\ content'[dest] = content[dest]
<1> DEFINE Kept == IsComplete(dest) =>
                     dest' = dest /\ content'[dest] = content[dest]
           Goal == (MissingEntry /\ PresentEntry /\ LeftoverRemoval
                      /\ NoRecovery)' /\ Kept
<1>1. FaultInv'
  BY NextFault DEF NoFaultInv
<1> SUFFICES Goal
  BY <1>1 DEF NoFaultInv
<1> USE CacheAssumption DEF FaultFree, NoFaultInv, FaultInv, TypeInv, TypeOK,
      StagingPrivate, StagingContent, LockHasHolder, BeforeRename, PublisherPc,
      LockedPc, BuildPc, Actors, Dirs, MissingEntry, PresentEntry,
      LeftoverRemoval, NoRecovery, IsComplete, Goto, Return, readerVars,
      lockVars
<1>2. ASSUME NEW p \in Publishers, Publish(p) PROVE Goal
  <2>1. CASE CreateLock(p)
    BY <2>1 DEF CreateLock
  <2>2. CASE LockExists(p)
    BY <2>2 DEF LockExists
  <2>3. CASE LockTimeout(p)
    BY <2>3 DEF LockTimeout
  <2>4. CASE WritePid(p)
    BY <2>4 DEF WritePid
  <2>5. CASE StatLock(p)
    BY <2>5 DEF StatLock
  <2>6. CASE ReadPid(p)
    BY <2>6 DEF ReadPid
  <2>7. CASE UnlinkStale(p)
    BY <2>7 DEF UnlinkStale, UnlinkLock
  <2>8. CASE CheckExisting(p)
    BY <2>8 DEF CheckExisting
  <2>9. CASE WriteFile(p)
    BY <2>9 DEF WriteFile
  <2>10. CASE Recheck(p)
    BY <2>10 DEF Recheck
  <2>11. CASE DirExists(p)
    BY <2>11 DEF DirExists
  <2>12. CASE RemoveDirOpen(p)
    BY <2>12 DEF RemoveDirOpen, RemovalDone
  <2>13. CASE RemoveDirUnlink(p)
    BY <2>13 DEF RemoveDirUnlink
  <2>14. CASE RemoveDirFinish(p)
    BY <2>14 DEF RemoveDirFinish, RemovalDone
  <2>15. CASE RenameIntoPlace(p)
    BY <2>15 DEF RenameIntoPlace, Files
  <2>16. CASE PublishIoError(p)
    BY <2>16 DEF PublishIoError
  <2>17. CASE Cleanup(p)
    BY <2>17 DEF Cleanup
  <2>18. CASE ReleaseLock(p)
    BY <2>18 DEF ReleaseLock, UnlinkLock
  <2>19. CASE LockIoError(p)
    BY <2>19 DEF LockIoError
  <2> QED
    BY <1>2, <2>1, <2>2, <2>3, <2>4, <2>5, <2>6, <2>7, <2>8, <2>9, <2>10,
       <2>11, <2>12, <2>13, <2>14, <2>15, <2>16, <2>17, <2>18, <2>19
    DEF Publish, Acquire, RemoveDirAll
<1>3. ASSUME NEW r \in Readers, Read(r) PROVE Goal
  BY <1>3 DEF Read, Lookup, ReadFile, ReadDone
<1>4. CASE UNCHANGED vars
  BY <1>4 DEF vars
<1>5. ~ (\E m \in Removers : Remove(m)) /\ ~ (\E a \in Actors : Crash(a))
        /\ ~ LockAges
  BY DEF Crash, LockAges
<1> QED
  BY <1>2, <1>3, <1>4, <1>5 DEF Next, Terminated

\* The fault-free invariant holds in every behaviour without faults.
LEMMA NoFaultInvHolds ==
  ASSUME FaultFree PROVE Spec => []NoFaultInv
<1>1. NoFaultInv /\ [Next]_vars => NoFaultInv'
  BY NextNoFault
<1> QED
  BY <1>1, InitNoFault, PTL DEF Spec

\* Without faults at most one publisher works on a missing entry, although
\* after the entry is there two of them may hold the lock at once.
THEOREM SoleBuilderWithoutFaults ==
  ASSUME FaultFree PROVE Spec => []SoleBuilder
<1>1. NoFaultInv => SoleBuilder
  BY DEF NoFaultInv, MissingEntry, SoleBuilder
<1> QED
  BY <1>1, NoFaultInvHolds, PTL

\* Without faults publish never takes a complete entry away.
THEOREM CompleteEntryKeptWithoutFaults ==
  ASSUME FaultFree PROVE Spec => CompleteEntryIsKept
<1>1. NoFaultInv /\ [Next]_vars
        => [IsComplete(dest) => dest' = dest
                                /\ content'[dest] = content[dest]]_vars
  BY NextNoFault
<1> QED
  BY <1>1, NoFaultInvHolds, PTL DEF Spec, CompleteEntryIsKept

\* Without faults a publisher that returned Ok left a complete entry behind.
THEOREM SuccessWithoutFaults ==
  ASSUME FaultFree PROVE Spec => []SuccessMeansComplete
<1>1. NoFaultInv => SuccessMeansComplete
  BY DEF NoFaultInv, MissingEntry, SuccessMeansComplete
<1> QED
  BY <1>1, NoFaultInvHolds, PTL

\* A reader past its lookup reads from the entry that is there, which is whole if
\* a publisher put it there.
ReaderInv ==
  /\ IsComplete(dest) /\ dest \in Publishers => content[dest] = Files
  /\ \A r \in Readers :
       /\ rpc[r] # "failed"
       /\ rpc[r] \in {"read", "loaded"} =>
            /\ IsComplete(dest)
            /\ want[r] = content[dest] \ {"key"}
            /\ \A f \in Files : got[r][f] \in {None, dest}
       /\ rpc[r] = "loaded" => \A f \in want[r] : got[r][f] # None
       /\ rpc[r] = "lookup" => \A f \in Files : got[r][f] = None

\* No reader has looked yet, and no publisher has put anything in place.
LEMMA InitReader ==
  ASSUME Init PROVE ReaderInv
<1> USE CacheAssumption DEF Init
<1>1. dest \notin Publishers
  BY DEF Actors
<1>2. ASSUME NEW r \in Readers
      PROVE  rpc[r] = "lookup" /\ \A f \in Files : got[r][f] = None
  OBVIOUS
<1> QED
  BY <1>1, <1>2 DEF ReaderInv

\* Without faults every step keeps what the readers rely on.
LEMMA NextReader ==
  ASSUME FaultFree, NoFaultInv, ReaderInv, [Next]_vars
  PROVE  ReaderInv'
<1>1. NoFaultInv' /\ (IsComplete(dest) => dest' = dest
                                       /\ content'[dest] = content[dest])
  BY NextNoFault
<1>2. (IsComplete(dest) /\ dest \in Publishers => content[dest] = Files)'
  <2>1. CASE IsComplete(dest)
    BY <1>1, <2>1 DEF ReaderInv, IsComplete
  <2>2. CASE ~IsComplete(dest) /\ Next /\ IsComplete(dest)'
    <3>1. PICK p \in Publishers : Publish(p)
      BY <2>2 DEF Next, FaultFree, Read, Lookup, ReadFile, ReadDone, Crash,
         LockAges, Terminated, vars, IsComplete
    <3> USE <3>1, <2>2, CacheAssumption DEF NoFaultInv, FaultInv, TypeInv,
        TypeOK, StagingPrivate, StagingContent, BeforeRename, PublisherPc, Dirs,
        Actors, IsComplete, lockVars
    <3>2. CASE RenameIntoPlace(p)
      BY <3>2 DEF RenameIntoPlace
    <3>3. CASE WriteFile(p)
      BY <3>3 DEF WriteFile
    <3>4. CASE Cleanup(p)
      BY <3>4 DEF Cleanup, LeftoverRemoval
    <3>5. CASE RemoveDirUnlink(p)
      BY <3>5 DEF RemoveDirUnlink
    <3>6. CASE RemoveDirFinish(p)
      BY <3>6 DEF RemoveDirFinish
    <3>7. CASE UNCHANGED <<dest, content>>
      BY <3>7
    <3> QED
      BY <3>2, <3>3, <3>4, <3>5, <3>6, <3>7
      DEF Publish, Acquire, RemoveDirAll, CreateLock, LockExists, LockTimeout,
          LockIoError, WritePid, StatLock, ReadPid, UnlinkStale, CheckExisting, Recheck,
          DirExists, RemoveDirOpen, PublishIoError, ReleaseLock
  <2> QED
    BY <2>1, <2>2 DEF vars, IsComplete
<1>3. CASE UNCHANGED readerVars
  BY <1>1, <1>2, <1>3 DEF ReaderInv, readerVars, IsComplete
<1>4. ASSUME NEW r \in Readers, Read(r) PROVE ReaderInv'
  <2> USE CacheAssumption DEF NoFaultInv, FaultInv, TypeInv, TypeOK, ReaderInv,
      IsComplete
  <2>1. CASE Lookup(r)
    BY <1>2, <2>1 DEF Lookup
  <2>2. CASE ReadFile(r)
    <3>1. PICK f \in want[r] :
            IF dest # None /\ f \in content[dest]
              THEN got' = [got EXCEPT ![r][f] = dest] /\ UNCHANGED rpc
              ELSE rpc' = [rpc EXCEPT ![r] = "failed"] /\ UNCHANGED got
      BY <2>2 DEF ReadFile
    <3>2. rpc[r] = "read" /\ UNCHANGED <<dest, content, want>>
      BY <2>2 DEF ReadFile
    <3>3. f \in content[dest] /\ dest # None
      BY <3>1, <3>2
    <3>4. got' = [got EXCEPT ![r][f] = dest] /\ UNCHANGED rpc
      BY <3>1, <3>3
    <3>5. ASSUME NEW q \in Readers, NEW g \in Files
          PROVE  got'[q][g] = IF q = r /\ g = f THEN dest ELSE got[q][g]
      BY <3>4
    <3> QED
      BY <1>2, <3>2, <3>3, <3>4, <3>5
  <2>3. CASE ReadDone(r)
    BY <1>2, <2>3 DEF ReadDone
  <2> QED
    BY <1>4, <2>1, <2>2, <2>3 DEF Read
<1> QED
  BY <1>3, <1>4
  DEF Next, Publish, Acquire, Remove, RemoveDirAll, RemoveIoError, CreateLock,
      LockExists, LockTimeout, LockIoError, WritePid, StatLock, ReadPid, UnlinkStale,
      CheckExisting, WriteFile, Recheck, DirExists, RemoveDirOpen,
      RemoveDirUnlink, RemoveDirFinish, RenameIntoPlace, PublishIoError,
      Cleanup, ReleaseLock, ListForRemove, Crash, LockAges, Terminated, vars,
      readerVars

\* Without faults and removers, and whatever an earlier run left at the entry path, a
\* loader whose lookup hit meets no gap and no mixture: it reads all files of one
\* directory, and that directory is whole if it was published, which lookup asks of
\* two of the files only.
THEOREM ReaderSeesOneEntryWithoutFaults ==
  ASSUME FaultFree PROVE Spec => []ReaderSeesOneEntry
<1>1. Init => ReaderInv
  BY InitReader
<1>2. NoFaultInv /\ ReaderInv /\ [Next]_vars => ReaderInv'
  BY NextReader
<1>3. NoFaultInv /\ ReaderInv => ReaderSeesOneEntry
  BY DEF NoFaultInv, FaultInv, TypeInv, TypeOK, ReaderInv,
     ReaderSeesOneEntry, IsComplete
<1> QED
  BY <1>1, <1>2, <1>3, NoFaultInvHolds, PTL DEF Spec
=============================================================================
