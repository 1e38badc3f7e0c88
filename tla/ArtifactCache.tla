--------------------------- MODULE ArtifactCache ---------------------------
(***************************************************************************)
(* The content-addressed executable cache of dyninfer-cache, for one       *)
(* digest: the publish lock file with its stale-lock recovery, the staging *)
(* directory, the rename into place, the unlocked `cache remove`, and a    *)
(* loader that looks an entry up and then reads its files by path.         *)
(* Locks, staging directories and entries of different digests never share *)
(* a path, so one digest stands for all of them.                           *)
(*                                                                         *)
(* Every actor is an operating-system process; one action is one file      *)
(* system call (or a run of calls on files nobody else can see).           *)
(***************************************************************************)
EXTENDS Naturals, FiniteSets

CONSTANTS
  Publishers,     \* processes that call ArtifactCache::publish once
  Removers,       \* processes that run `dyninfer cache remove`
  Readers,        \* processes that look the entry up and materialise it
  Prior,          \* the directory an earlier run may have left at the entry path
  PriorContents,  \* the sets of files that directory may hold
  None,           \* no directory, no lock, no pid
  HasDecode,      \* TRUE iff the executable is split and has a decode.vmfb
  MaxAttempts,    \* iterations of the acquire loop (500 in the code)
  Faults,         \* which faults the environment may inject
  Unlucky         \* publishers whose calls may fail with an error the code
                  \* discards (`let _ =`)

\* Processes are killed; a call fails and its error is returned; a lock outlives
\* STALE_SECS; the clock is set back; the build has no /proc.
FaultKinds == {"crash", "io", "old", "future", "no_proc"}

Files == IF HasDecode THEN {"model", "decode", "manifest", "key"}
                      ELSE {"model", "manifest", "key"}

Actors == Publishers \cup Removers
Dirs == Publishers \cup {Prior}

ASSUME CacheAssumption ==
  /\ Publishers \cap Removers = {}
  /\ Publishers \cap Readers = {}
  /\ Removers \cap Readers = {}
  /\ Prior \notin Publishers
  /\ None \notin Actors \cup Dirs
  /\ HasDecode \in BOOLEAN
  /\ PriorContents \subseteq SUBSET Files
  /\ MaxAttempts \in Nat \ {0}
  /\ Faults \subseteq FaultKinds
  /\ Unlucky \subseteq Publishers

VARIABLES
  dest,     \* directory at executables/<digest>, or None
  content,  \* content[d]: the files present in directory d; content[p] is the
            \* staging directory of publisher p until p renames it into place
  lockBy,   \* publisher that created the file locks/<digest>.lock, or None
  lockPid,  \* pid recorded in the lock file, None while it is still empty
  lockAge,  \* modification time of the lock file seen against the clock
  pc,       \* control point of every publisher and remover
  attempt,  \* finished iterations of the acquire loop
  victim,   \* directory a running remove_dir_all has open, or None
  result,   \* what publish or remove returned
  rpc,      \* control point of every reader
  want,     \* files the reader's CacheEntry names
  got       \* got[r][f]: the directory reader r read file f from, or None

lockVars == <<lockBy, lockPid, lockAge>>
readerVars == <<rpc, want, got>>
vars == <<dest, content, lockBy, lockPid, lockAge, pc, attempt, victim, result,
          rpc, want, got>>

----------------------------------------------------------------------------
(* Helpers *)

\* entry_if_complete: manifest.json and model.vmfb are files; decode.vmfb and
\* key.json are not asked for. The calls of is_file are one step: a directory
\* appears with all its files and only loses them, so both answer as at one moment
\* between them, and a miss at the second is a miss at that moment.
IsComplete(d) == d # None /\ {"manifest", "model"} \subseteq content[d]

\* process_is_running: the pid has a directory under /proc. Builds for other
\* systems ("no_proc") always answer no.
ProcessIsRunning(p) == "no_proc" \notin Faults /\ pc[p] # "dead"

\* The order in which publish writes the files of the staging directory.
WriteRank == [f \in {"model", "decode", "manifest", "key"} |->
                CASE f = "model" -> 1 [] f = "decode" -> 2
                  [] f = "manifest" -> 3 [] f = "key" -> 4]

\* The order in which materialize_bundle_from_cache reads them.
ReadRank == [f \in {"model", "decode", "manifest", "key"} |->
                CASE f = "manifest" -> 1 [] f = "model" -> 2
                  [] f = "decode" -> 3 [] f = "key" -> 4]

Goto(a, where) == pc' = [pc EXCEPT ![a] = where]
Return(a, value) == result' = [result EXCEPT ![a] = value]

----------------------------------------------------------------------------
Init ==
  /\ dest \in {None, Prior}
  /\ \E fs \in PriorContents :
       content = [d \in Dirs |-> IF d = Prior THEN fs ELSE {}]
  /\ lockBy = None /\ lockPid = None /\ lockAge = "recent"
  /\ pc = [a \in Actors |-> IF a \in Publishers THEN "open" ELSE "list"]
  /\ attempt = [p \in Publishers |-> 0]
  /\ victim = [a \in Actors |-> None]
  /\ result = [a \in Actors |-> "none"]
  /\ rpc = [r \in Readers |-> "lookup"]
  /\ want = [r \in Readers |-> {}]
  /\ got = [r \in Readers |-> [f \in Files |-> None]]

----------------------------------------------------------------------------
(* acquire_publish_lock and lock_is_stale *)

\* Mutant: create instead of create_new, an existing lock file is opened.
CreateLockShared(p) ==
  /\ pc[p] = "open" /\ attempt[p] < MaxAttempts
  /\ lockBy' = p /\ lockPid' = None /\ lockAge' = "recent"
  /\ Goto(p, "writepid")
  /\ UNCHANGED <<dest, content, attempt, victim, result, readerVars>>

\* OpenOptions::create_new succeeds: an empty lock file.
CreateLock(p) ==
  /\ pc[p] = "open" /\ attempt[p] < MaxAttempts
  /\ lockBy = None
  /\ lockBy' = p /\ lockPid' = None /\ lockAge' = "recent"
  /\ Goto(p, "writepid")
  /\ UNCHANGED <<dest, content, attempt, victim, result, readerVars>>

\* Mutant: the loop runs one iteration too many.
LockExistsOnceMore(p) ==
  /\ pc[p] = "open" /\ attempt[p] <= MaxAttempts
  /\ lockBy # None
  /\ Goto(p, "stat")
  /\ UNCHANGED <<dest, content, lockVars, attempt, victim, result, readerVars>>

\* create_new fails with AlreadyExists.
LockExists(p) ==
  /\ pc[p] = "open" /\ attempt[p] < MaxAttempts
  /\ lockBy # None
  /\ Goto(p, "stat")
  /\ UNCHANGED <<dest, content, lockVars, attempt, victim, result, readerVars>>

\* The loop ran out of iterations: publish returns the timeout error.
LockTimeout(p) ==
  /\ pc[p] = "open" /\ attempt[p] = MaxAttempts
  /\ Goto(p, "done") /\ Return(p, "timeout")
  /\ UNCHANGED <<dest, content, lockVars, attempt, victim, readerVars>>

\* create_new fails for another reason: publish returns the error.
LockIoError(p) ==
  /\ "io" \in Faults
  /\ pc[p] = "open" /\ attempt[p] < MaxAttempts
  /\ Goto(p, "done") /\ Return(p, "error")
  /\ UNCHANGED <<dest, content, lockVars, attempt, victim, readerVars>>

\* writeln!(pid) through the handle: it reaches the file p created, which may
\* no longer be the one at the lock path. A write renews the mtime; an error of
\* the write is ignored.
WritePid(p) ==
  /\ pc[p] = "writepid"
  /\ Goto(p, "check")
  /\ \/ lockBy = p /\ lockPid' = p /\ lockAge' = "recent" /\ UNCHANGED lockBy
     \/ (lockBy # p \/ p \in Unlucky) /\ UNCHANGED lockVars
  /\ UNCHANGED <<dest, content, attempt, victim, result, readerVars>>

\* Mutant: a wait for a recent lock does not count as an iteration.
StatLockUncounted(p) ==
  /\ pc[p] = "stat"
  /\ Goto(p, CASE lockBy = None \/ lockAge = "future" -> "unlink"
               [] lockBy # None /\ lockAge = "recent" -> "open"
               [] lockBy # None /\ lockAge = "old" -> "readpid")
  /\ UNCHANGED <<dest, content, lockVars, attempt, victim, result, readerVars>>

\* lock_is_stale, first half: metadata of the path. No file or an mtime in the
\* future counts as stale; a recent one sends the waiter to sleep.
StatLock(p) ==
  /\ pc[p] = "stat"
  /\ \/ /\ lockBy = None \/ lockAge = "future"
        /\ Goto(p, "unlink") /\ UNCHANGED attempt
     \/ /\ lockBy # None /\ lockAge = "recent"
        /\ Goto(p, "open") /\ attempt' = [attempt EXCEPT ![p] = @ + 1]
     \/ /\ lockBy # None /\ lockAge = "old"
        /\ Goto(p, "readpid") /\ UNCHANGED attempt
  /\ UNCHANGED <<dest, content, lockVars, victim, result, readerVars>>

\* lock_is_stale, second half: the recorded pid. An unreadable or empty file
\* counts as a holder that has exited.
ReadPid(p) ==
  /\ pc[p] = "readpid"
  /\ IF lockBy # None /\ lockPid # None /\ ProcessIsRunning(lockPid)
       THEN Goto(p, "open") /\ attempt' = [attempt EXCEPT ![p] = @ + 1]
       ELSE Goto(p, "unlink") /\ UNCHANGED attempt
  /\ UNCHANGED <<dest, content, lockVars, victim, result, readerVars>>

\* remove_file(path): whatever lock file is there now.
UnlinkLock(p) ==
  \/ lockBy' = None /\ lockPid' = None /\ lockAge' = "recent"
  \/ p \in Unlucky /\ UNCHANGED lockVars

\* The stale lock is removed, errors ignored, and the loop continues.
UnlinkStale(p) ==
  /\ pc[p] = "unlink"
  /\ UnlinkLock(p)
  /\ Goto(p, "open") /\ attempt' = [attempt EXCEPT ![p] = @ + 1]
  /\ UNCHANGED <<dest, content, victim, result, readerVars>>

----------------------------------------------------------------------------
(* publish, under the lock *)

\* Mutant: any directory at the entry path counts as the entry.
CheckExistingDir(p) ==
  /\ pc[p] = "check"
  /\ IF dest # None
       THEN Goto(p, "release") /\ Return(p, "hit")
       ELSE Goto(p, "stage") /\ UNCHANGED result
  /\ UNCHANGED <<dest, content, lockVars, attempt, victim, readerVars>>

\* Mutant: the early return does not drop the guard.
CheckExistingKeepsLock(p) ==
  /\ pc[p] = "check"
  /\ IF IsComplete(dest)
       THEN Goto(p, "done") /\ Return(p, "hit")
       ELSE Goto(p, "stage") /\ UNCHANGED result
  /\ UNCHANGED <<dest, content, lockVars, attempt, victim, readerVars>>

\* The first entry_if_complete: an existing entry is returned as it is.
CheckExisting(p) ==
  /\ pc[p] = "check"
  /\ IF IsComplete(dest)
       THEN Goto(p, "release") /\ Return(p, "hit")
       ELSE Goto(p, "stage") /\ UNCHANGED result
  /\ UNCHANGED <<dest, content, lockVars, attempt, victim, readerVars>>

\* Mutant: the split executable's decode.vmfb is forgotten.
WriteFileNoDecode(p) ==
  /\ pc[p] = "stage"
  /\ \E f \in Files \ (content[p] \cup {"decode"}) :
       /\ \A g \in Files \ {"decode"} :
            WriteRank[g] < WriteRank[f] => g \in content[p]
       /\ content' = [content EXCEPT ![p] = @ \cup {f}]
       /\ Goto(p, IF content[p] \cup {f, "decode"} = Files THEN "recheck" ELSE "stage")
  /\ UNCHANGED <<dest, lockVars, attempt, victim, result, readerVars>>

\* Mutant: key.json is written after the rename, if at all.
WriteFileNoKey(p) ==
  /\ pc[p] = "stage"
  /\ \E f \in Files \ (content[p] \cup {"key"}) :
       /\ \A g \in Files : WriteRank[g] < WriteRank[f] => g \in content[p]
       /\ content' = [content EXCEPT ![p] = @ \cup {f}]
       /\ Goto(p, IF content[p] \cup {f, "key"} = Files THEN "recheck" ELSE "stage")
  /\ UNCHANGED <<dest, lockVars, attempt, victim, result, readerVars>>

\* Write the next file of the staging directory; its name holds the pid and a
\* time stamp, so nobody else opens it.
WriteFile(p) ==
  /\ pc[p] = "stage"
  /\ \E f \in Files \ content[p] :
       /\ \A g \in Files : WriteRank[g] < WriteRank[f] => g \in content[p]
       /\ content' = [content EXCEPT ![p] = @ \cup {f}]
       /\ Goto(p, IF content[p] \cup {f} = Files THEN "recheck" ELSE "stage")
  /\ UNCHANGED <<dest, lockVars, attempt, victim, result, readerVars>>

\* The second entry_if_complete, after staging.
Recheck(p) ==
  /\ pc[p] = "recheck"
  /\ IF IsComplete(dest)
       THEN Goto(p, "cleanup") /\ Return(p, "hit")
       ELSE Goto(p, "exists") /\ UNCHANGED result
  /\ UNCHANGED <<dest, content, lockVars, attempt, victim, readerVars>>

\* dir.exists(): a leftover is removed before the rename.
DirExists(p) ==
  /\ pc[p] = "exists"
  /\ Goto(p, IF dest # None THEN "rmopen" ELSE "rename")
  /\ UNCHANGED <<dest, content, lockVars, attempt, victim, result, readerVars>>

\* fs::rename of a directory: the target must be absent or an empty directory.
RenameIntoPlace(p) ==
  /\ pc[p] = "rename"
  /\ IF dest = None \/ content[dest] = {}
       THEN dest' = p /\ Return(p, "published")
       ELSE dest' = dest /\ Return(p, "error")
  /\ Goto(p, "cleanup")
  /\ UNCHANGED <<content, lockVars, attempt, victim, readerVars>>

\* Mutant: an error leaves publish at once, past the staging cleanup.
PublishIoErrorReturns(p) ==
  /\ "io" \in Faults
  /\ pc[p] \in {"stage", "rmopen", "rmunlink", "rename"}
  /\ Goto(p, "release") /\ Return(p, "error")
  /\ victim' = [victim EXCEPT ![p] = None]
  /\ UNCHANGED <<dest, content, lockVars, attempt, readerVars>>

\* An I/O error of create_dir_all, a write, remove_dir_all or rename.
PublishIoError(p) ==
  /\ "io" \in Faults
  /\ pc[p] \in {"stage", "rmopen", "rmunlink", "rename"}
  /\ Goto(p, "cleanup") /\ Return(p, "error")
  /\ victim' = [victim EXCEPT ![p] = None]
  /\ UNCHANGED <<dest, content, lockVars, attempt, readerVars>>

\* if staging.exists() { remove_dir_all(staging) }, its error ignored; after a
\* rename the staging directory is gone.
Cleanup(p) ==
  /\ pc[p] = "cleanup"
  /\ \/ result[p] = "published" /\ UNCHANGED content
     \/ result[p] # "published" /\ content' = [content EXCEPT ![p] = {}]
     \/ /\ result[p] # "published" /\ p \in Unlucky
        /\ \E left \in SUBSET content[p] : content' = [content EXCEPT ![p] = left]
  /\ Goto(p, "release")
  /\ UNCHANGED <<dest, lockVars, attempt, victim, result, readerVars>>

\* PublishLockGuard::drop: remove_file(path), whoever created the file there.
ReleaseLock(p) ==
  /\ pc[p] = "release"
  /\ UnlinkLock(p)
  /\ Goto(p, "done")
  /\ UNCHANGED <<dest, content, attempt, victim, result, readerVars>>

----------------------------------------------------------------------------
(* fs::remove_dir_all(executables/<digest>), by a publisher that found a     *)
(* leftover or by `cache remove`                                            *)

RemovalDone(a, ok) ==
  IF a \in Publishers
    THEN /\ Goto(a, IF ok THEN "rename" ELSE "cleanup")
         /\ IF ok THEN UNCHANGED result ELSE Return(a, "error")
    ELSE /\ Goto(a, "done")
         /\ Return(a, IF ok THEN "removed" ELSE "error")

\* Open the directory; the handle follows the directory, not the path.
RemoveDirOpen(a) ==
  /\ pc[a] = "rmopen"
  /\ IF dest = None
       THEN RemovalDone(a, FALSE) /\ UNCHANGED victim
       ELSE /\ victim' = [victim EXCEPT ![a] = dest]
            /\ Goto(a, "rmunlink") /\ UNCHANGED result
  /\ UNCHANGED <<dest, content, lockVars, attempt, readerVars>>

\* Unlink one of the files, in directory order, which is arbitrary.
RemoveDirUnlink(a) ==
  /\ pc[a] = "rmunlink"
  /\ \E f \in content[victim[a]] :
       content' = [content EXCEPT ![victim[a]] = @ \ {f}]
  /\ UNCHANGED <<dest, lockVars, pc, attempt, victim, result, readerVars>>

\* Remove the emptied directory by its path; a path that is gone is fine, one
\* that names a non-empty directory is an error.
RemoveDirFinish(a) ==
  /\ pc[a] = "rmunlink" /\ content[victim[a]] = {}
  /\ victim' = [victim EXCEPT ![a] = None]
  /\ IF dest # None /\ content[dest] # {}
       THEN RemovalDone(a, FALSE) /\ UNCHANGED dest
       ELSE RemovalDone(a, TRUE) /\ dest' = None
  /\ UNCHANGED <<content, lockVars, attempt, readerVars>>

\* ArtifactCache::remove takes no lock: it lists the entries (key.json and
\* model.vmfb present) and removes the one that matches.
ListForRemove(m) ==
  /\ pc[m] = "list"
  /\ IF dest # None /\ {"key", "model"} \subseteq content[dest]
       THEN Goto(m, "rmopen") /\ UNCHANGED result
       ELSE Goto(m, "done") /\ Return(m, "absent")
  /\ UNCHANGED <<dest, content, lockVars, attempt, victim, readerVars>>

\* An I/O error of list or of remove_dir_all.
RemoveIoError(m) ==
  /\ "io" \in Faults
  /\ pc[m] \in {"list", "rmopen", "rmunlink"}
  /\ Goto(m, "done") /\ Return(m, "error")
  /\ victim' = [victim EXCEPT ![m] = None]
  /\ UNCHANGED <<dest, content, lockVars, attempt, readerVars>>

----------------------------------------------------------------------------
(* lookup, and materialize_bundle_from_cache on a hit *)

Lookup(r) ==
  /\ rpc[r] = "lookup"
  /\ IF IsComplete(dest)
       THEN /\ rpc' = [rpc EXCEPT ![r] = "read"]
            /\ want' = [want EXCEPT ![r] = content[dest] \ {"key"}]
       ELSE /\ rpc' = [rpc EXCEPT ![r] = "miss"]
            /\ UNCHANGED want
  /\ UNCHANGED <<dest, content, lockVars, pc, attempt, victim, result, got>>

\* Read the next file the entry names, by path.
ReadFile(r) ==
  /\ rpc[r] = "read"
  /\ \E f \in want[r] :
       /\ got[r][f] = None
       /\ \A g \in want[r] : ReadRank[g] < ReadRank[f] => got[r][g] # None
       /\ IF dest # None /\ f \in content[dest]
            THEN got' = [got EXCEPT ![r][f] = dest] /\ UNCHANGED rpc
            ELSE rpc' = [rpc EXCEPT ![r] = "failed"] /\ UNCHANGED got
  /\ UNCHANGED <<dest, content, lockVars, pc, attempt, victim, result, want>>

ReadDone(r) ==
  /\ rpc[r] = "read" /\ \A f \in want[r] : got[r][f] # None
  /\ rpc' = [rpc EXCEPT ![r] = "loaded"]
  /\ UNCHANGED <<dest, content, lockVars, pc, attempt, victim, result, want, got>>

----------------------------------------------------------------------------
(* The environment *)

\* A process is killed; its files stay.
Crash(a) ==
  /\ "crash" \in Faults
  /\ pc[a] \notin {"open", "list", "done", "dead"}
  /\ Goto(a, "dead")
  /\ victim' = [victim EXCEPT ![a] = None]
  /\ UNCHANGED <<dest, content, lockVars, attempt, result, readerVars>>

\* Time passes STALE_SECS, or the clock is set back behind the mtime.
LockAges ==
  /\ lockBy # None /\ lockAge = "recent"
  /\ \E age \in {"old", "future"} \cap Faults : lockAge' = age
  /\ UNCHANGED <<dest, content, lockBy, lockPid, pc, attempt, victim, result,
                 readerVars>>

----------------------------------------------------------------------------
Acquire(p) ==
  \/ CreateLock(p) \/ LockExists(p) \/ LockTimeout(p) \/ LockIoError(p) \/ WritePid(p)
  \/ StatLock(p) \/ ReadPid(p) \/ UnlinkStale(p)

RemoveDirAll(a) == RemoveDirOpen(a) \/ RemoveDirUnlink(a) \/ RemoveDirFinish(a)

Publish(p) ==
  \/ Acquire(p) \/ CheckExisting(p) \/ WriteFile(p) \/ Recheck(p)
  \/ DirExists(p) \/ RemoveDirAll(p) \/ RenameIntoPlace(p) \/ PublishIoError(p)
  \/ Cleanup(p) \/ ReleaseLock(p)

Remove(m) == ListForRemove(m) \/ RemoveDirAll(m) \/ RemoveIoError(m)

Read(r) == Lookup(r) \/ ReadFile(r) \/ ReadDone(r)

Finished ==
  /\ \A a \in Actors : pc[a] \in {"done", "dead"}
  /\ \A r \in Readers : rpc[r] \in {"miss", "failed", "loaded"}

\* Every process has returned; nothing is left to do.
Terminated == Finished /\ UNCHANGED vars

Next ==
  \/ \E p \in Publishers : Publish(p)
  \/ \E m \in Removers : Remove(m)
  \/ \E r \in Readers : Read(r)
  \/ \E a \in Actors : Crash(a)
  \/ LockAges
  \/ Terminated

Spec == Init /\ [][Next]_vars

\* Every live process keeps running: the scheduler is weakly fair to it.
Fairness ==
  /\ \A p \in Publishers : WF_vars(Publish(p))
  /\ \A m \in Removers : WF_vars(Remove(m))
  /\ \A r \in Readers : WF_vars(Read(r))

FairSpec == Spec /\ Fairness

----------------------------------------------------------------------------
(* Properties *)

PublisherPc == {"open", "writepid", "stat", "readpid", "unlink", "check",
                "stage", "recheck", "exists", "rmopen", "rmunlink", "rename",
                "cleanup", "release", "done", "dead"}
RemoverPc == {"list", "rmopen", "rmunlink", "done", "dead"}

\* The points of publish between a successful create_new and the guard's drop.
LockedPc == {"writepid", "check", "stage", "recheck", "exists", "rmopen",
             "rmunlink", "rename", "cleanup", "release"}

\* Type invariant of the file system, the lock file and the processes.
TypeOK ==
  /\ dest \in Dirs \cup {None}
  /\ content \in [Dirs -> SUBSET Files]
  /\ lockBy \in Publishers \cup {None}
  /\ lockPid \in Publishers \cup {None}
  /\ lockAge \in {"recent", "old", "future"}
  /\ pc \in [Actors -> PublisherPc \cup RemoverPc]
  /\ attempt \in [Publishers -> 0..MaxAttempts]
  /\ victim \in [Actors -> Dirs \cup {None}]
  /\ result \in [Actors -> {"none", "hit", "published", "error", "timeout",
                            "removed", "absent"}]
  /\ rpc \in [Readers -> {"lookup", "read", "miss", "failed", "loaded"}]
  /\ want \in [Readers -> SUBSET Files]
  /\ got \in [Readers -> [Files -> Dirs \cup {None}]]

\* Publication is atomic (spec.md section 19.3): whatever faults occur, a
\* directory that appears at the entry path holds every file of the entry.
PublicationIsAtomic ==
  [][dest' \notin {dest, None} => content'[dest'] = Files]_vars

\* No early return of publish keeps the lock: a publisher that has returned
\* (not crashed) leaves no lock file of its own behind, unless remove_file itself
\* failed, an error the code discards.
LockIsReleased ==
  \A p \in Publishers \ Unlucky : pc[p] = "done" => lockBy # p

\* No early return of publish keeps its staging directory: a publisher that
\* has returned without publishing has removed what it staged, unless
\* remove_dir_all itself failed, an error the code discards.
StagingIsRemoved ==
  \A p \in Publishers \ Unlucky :
    pc[p] = "done" /\ content[p] # {} => result[p] = "published"

\* "Exclusive create-new lock file": two publishers are never both between
\* create_new and the drop of the guard.
LockIsExclusive ==
  \A p, q \in Publishers : pc[p] \in LockedPc /\ pc[q] \in LockedPc => p = q

\* What the lock is for: while there is no complete entry, at most one
\* publisher is at work on it.
SoleBuilder ==
  ~IsComplete(dest) =>
    \A p, q \in Publishers : pc[p] \in LockedPc /\ pc[q] \in LockedPc => p = q

\* "Never delete a complete destination (avoids reader gaps)": once an entry is
\* complete no step of a publisher takes it away or removes a file of it.
CompleteEntryIsKept ==
  [][IsComplete(dest) => dest' = dest /\ content'[dest] = content[dest]]_vars

\* A reader whose lookup hit never meets a file that is gone, and what it loaded is
\* all of one directory: of the entry of one publisher every file, of a directory an
\* earlier run left, which lookup takes without decode.vmfb and key.json too, every
\* file that is there.
ReaderSeesOneEntry ==
  \A r \in Readers :
    /\ rpc[r] # "failed"
    /\ rpc[r] = "loaded" =>
         \E d \in Dirs :
           /\ want[r] = content[d] \ {"key"}
           /\ \A f \in want[r] : got[r][f] = d
           /\ d \in Publishers => content[d] = Files

\* A publisher that returns Ok really leaves a complete entry behind, however
\* many others published, timed out or found the entry in the meantime.
SuccessMeansComplete ==
  \A p \in Publishers :
    result[p] \in {"hit", "published"} => IsComplete(dest)

\* The acquire loop is bounded: whatever the others do or fail to do, every
\* publisher, remover and reader that is not killed returns.
EveryoneReturns == <>Finished

\* Without faults the competition ends with a complete entry that stays: the
\* publishers never all wait for, unlink or time out on each other.
EntryIsPublished == <>[]IsComplete(dest)
=============================================================================
