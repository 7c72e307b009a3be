----------------------------- MODULE LocalArchive -----------------------------
(***************************************************************************)
(* LocalArchiveStore under the archive loop of run_collecting_stage: the    *)
(* copies of one run's files, all in one directory, made through temporary  *)
(* files, on a file system that keeps for sure only what was synced.  The   *)
(* process may be killed and the power may fail between any two calls.      *)
(*                                                                         *)
(* A commit to the queue is durable (WAL with synchronous=FULL).            *)
(***************************************************************************)
EXTENDS Naturals, FiniteSets

CONSTANTS
  LastFile,    \* the plan has the ordinals 1..LastFile
  Depth,       \* directories from the file system's root down to the run's
  MaxExits     \* bound on kills and power failures

ASSUME ArchiveAssumption ==
  LastFile \in Nat \ {0} /\ Depth \in Nat \ {0} /\ MaxExits \in Nat

VARIABLES
  source,      \* the input of each file: as it was inspected, changed or gone
  cache,       \* what each name of the directory holds, for a process
  disk,        \* what it may hold after a loss of power
  made,        \* directories that exist, by their depth
  kept,        \* directories whose entry in their parent was synced
  rows,        \* planned, archived or failed, in the queue
  job,         \* collecting, attention, or past collecting
  pc, file,    \* where the worker thread is, and its file
  level,       \* the directory sync_directory_chain is at
  sequence,    \* temporary_sequence
  exits,
  \* history, for the properties alone
  altered,     \* copies somebody has altered
  left,        \* files a temporary was left of when a process ended
  faulted      \* files for which a system call has failed

archiveVars == <<source, cache, disk, made, kept, rows, job, pc, file, level, sequence,
                 exits, altered, left, faulted>>
storage == <<cache, disk, made, kept>>
history == <<altered, left, faulted>>
steady == <<source, exits, altered, left>>   \* what the thread never changes

Files == 1..LastFile
Levels == 1..Depth
Contents == {"part", "whole", "other"}   \* whole: the size and hash of the plan

\* A process archives each file once at most, so its numbers stay below LastFile.
Names == Files \X (0..LastFile)
Copy(f) == <<f, LastFile>>
Temporary == <<file, sequence - 1>>

PcValues == {"down", "look",                  \* recover_archive
             "syncFound",                     \* the copy was there
             "make", "open", "copying", "verify", "syncTemporary", "rename",
             "chain",                         \* sync_directory_chain
             "mark", "failed", "conflict",    \* back in the loop
             "done"}

\* The temporary of the file is there, or may be.
HasTemporary == pc \in {"copying", "verify", "syncTemporary", "rename"}

GoTo(place) ==
  /\ pc' = place
  /\ UNCHANGED <<steady, rows, job, file, sequence, faulted>>

-----------------------------------------------------------------------------
(* The file system.                                                        *)

\* The name changes; what it held may come back.
Write(name, content) ==
  /\ cache' = [cache EXCEPT ![name] = content]
  /\ disk' = [disk EXCEPT ![name] = @ \cup {content}]
  /\ UNCHANGED <<made, kept>>

\* fsync of a file: its content, not its name.
SyncFile(name) ==
  /\ disk' = [disk EXCEPT ![name] = @ \cap {cache[name], "absent"}]
  /\ UNCHANGED <<cache, made, kept>>

Renamed(from, to) ==
  /\ cache' = [cache EXCEPT ![to] = cache[from], ![from] = "absent"]
  /\ disk' = [disk EXCEPT ![to] = @ \cup (disk[from] \ {"absent"}), ![from] = @ \cup {"absent"}]
  /\ UNCHANGED <<made, kept>>

\* fsync of a directory: the names in it, which for all but the lowest is the
\* next directory of the chain.
SyncDirectory(l) ==
  /\ disk' = IF l < Depth THEN disk ELSE
       [n \in Names |-> IF cache[n] = "absent" THEN {"absent"} ELSE disk[n] \ {"absent"}]
  /\ kept' = IF l < Depth THEN kept \cup {l + 1} ELSE kept
  /\ UNCHANGED <<cache, made>>

-----------------------------------------------------------------------------
(* archive() and recover_archive().                                        *)

\* A copy that is there is compared before anything else.
LookForCopy ==
  /\ pc = "look"
  /\ GoTo(CASE cache[Copy(file)] = "absent" -> "make"
            [] cache[Copy(file)] = "whole" -> "syncFound"
            [] OTHER -> "conflict")
  /\ UNCHANGED <<storage, level>>

\* Mutant: a copy that is there is taken to be on the disk.
SyncFoundNot == pc = "syncFound" /\ GoTo("mark") /\ UNCHANGED <<storage, level>>

\* It may come from a process that was killed before it could sync.
SyncFound ==
  /\ pc = "syncFound" /\ SyncFile(Copy(file))
  /\ GoTo("chain") /\ level' = Depth

\* Mutant: the directories are taken to be there.
MakeDirectoriesNot == pc = "make" /\ GoTo("open") /\ UNCHANGED <<storage, level>>

MakeDirectories ==
  /\ pc = "make" /\ made' = Levels
  /\ GoTo("open") /\ UNCHANGED <<cache, disk, kept, level>>

\* copy_file takes a number and does not overwrite: a temporary of that number
\* an earlier process has left makes it throw, and so does a missing source.
OpenTemporary ==
  LET name == <<file, sequence>> IN
  /\ pc = "open" /\ sequence' = sequence + 1
  /\ IF cache[name] = "absent" /\ source[file] # "gone"
     THEN pc' = "copying" /\ Write(name, "part")
     ELSE pc' = "failed" /\ Write(name, "absent")
  /\ UNCHANGED <<steady, rows, job, file, level, faulted>>

\* A source that changes while it is read may be seen or not.
CopyAll ==
  /\ pc = "copying"
  /\ \E content \in IF source[file] = "same" THEN {"whole"} ELSE {"whole", "other"} :
       Write(Temporary, content)
  /\ GoTo("verify") /\ UNCHANGED level

VerifyTemporary ==
  /\ pc = "verify"
  /\ IF cache[Temporary] = "whole"
     THEN GoTo("syncTemporary") /\ UNCHANGED storage
     ELSE GoTo("failed") /\ Write(Temporary, "absent")
  /\ UNCHANGED level

\* Mutant: the content is left to the cache.
SyncTemporaryNot == pc = "syncTemporary" /\ GoTo("rename") /\ UNCHANGED <<storage, level>>

SyncTemporary ==
  /\ pc = "syncTemporary" /\ SyncFile(Temporary)
  /\ GoTo("rename") /\ UNCHANGED level

Rename ==
  /\ pc = "rename" /\ Renamed(Temporary, Copy(file))
  /\ GoTo("chain") /\ level' = Depth

\* From the directory of the file up to the root.
SyncChain ==
  /\ pc = "chain" /\ SyncDirectory(level)
  /\ IF level = 0 THEN GoTo("mark") /\ UNCHANGED level
                  ELSE GoTo("chain") /\ level' = level - 1

\* A system call fails: the temporary is removed, if that is possible.  A copy
\* that was renamed already stays.
CallFails ==
  /\ pc \in {"look", "syncFound", "make", "open", "copying", "verify", "syncTemporary",
             "rename", "chain"}
  /\ \/ UNCHANGED storage
     \/ HasTemporary /\ Write(Temporary, "absent")
     \/ pc = "open" /\ Write(<<file, sequence>>, "absent")
  /\ pc' = "failed" /\ faulted' = faulted \cup {file}
  /\ sequence' = IF pc = "open" THEN sequence + 1 ELSE sequence
  /\ UNCHANGED <<steady, rows, job, file, level>>

-----------------------------------------------------------------------------
(* The loop.                                                               *)

\* The next file that has not failed; past the last one, the job goes on.
NextFile(marked) ==
  LET rest == {f \in Files : f > file /\ marked[f] # "failed"} IN
  IF rest = {} THEN pc' = "done" /\ job' = "collected" /\ UNCHANGED file
  ELSE pc' = "look" /\ file' \in rest /\ (\A f \in rest : file' <= f) /\ UNCHANGED job

\* mark_file_archived, mark_file_failed.
MarkFile ==
  /\ pc \in {"mark", "failed"}
  /\ rows' = [rows EXCEPT ![file] = IF pc = "mark" THEN "archived" ELSE "failed"]
  /\ NextFile(rows')
  /\ UNCHANGED <<steady, storage, level, sequence, faulted>>

\* Mutant: the conflict is taken for a failure of the file.
MarkConflictFailed == pc = "conflict" /\ GoTo("failed") /\ UNCHANGED <<storage, level>>

\* ArchiveConflictError leaves the loop: the job waits for the operator.
MarkConflict ==
  /\ pc = "conflict" /\ pc' = "done" /\ job' = "attention"
  /\ UNCHANGED <<steady, storage, rows, file, level, sequence, faulted>>

-----------------------------------------------------------------------------
(* The world.                                                              *)

ProcessGone ==
  /\ exits < MaxExits /\ exits' = exits + 1
  /\ pc' = "down" /\ sequence' = 0
  /\ left' = left \cup {f \in Files : \E n \in 0..(LastFile - 1) : cache'[<<f, n>>] # "absent"}
  /\ UNCHANGED <<source, rows, job, file, level, altered, faulted>>

Killed == pc # "down" /\ UNCHANGED storage /\ ProcessGone

\* Every name that was not synced holds any of the things it has held since; a
\* directory that is lost takes along what was below it.
PowerFails ==
  LET doubtful == {n \in Names : disk[n] # {cache[n]}} IN
  \E lucky \in SUBSET (made \ kept) :
    LET there == {l \in Levels : \A k \in 1..l : k \in kept \cup lucky} IN
    /\ exits < MaxExits
    /\ made' = there /\ kept' = there
    /\ IF Depth \in there
       THEN \E found \in [doubtful -> UNION {disk[n] : n \in doubtful}] :
              /\ \A n \in doubtful : found[n] \in disk[n]
              /\ cache' = [n \in Names |-> IF n \in doubtful THEN found[n] ELSE cache[n]]
       ELSE cache' = [n \in Names |-> "absent"]
    /\ disk' = [n \in Names |-> {cache'[n]}]
    /\ ProcessGone

\* The job is recovered: the whole plan again, without the files that failed.
Restart ==
  /\ pc = "down"
  /\ IF job = "collecting" /\ \E f \in Files : rows[f] # "failed"
     THEN /\ pc' = "look" /\ UNCHANGED job
          /\ file' \in {f \in Files : rows[f] # "failed" /\ \A g \in 1..(f - 1) : rows[g] = "failed"}
     ELSE pc' = "done" /\ job' = (IF job = "collecting" THEN "collected" ELSE job) /\ UNCHANGED file
  /\ UNCHANGED <<steady, storage, rows, level, sequence, faulted>>

SourceChanges(f) ==
  /\ source[f] = "same" /\ \E s \in {"changed", "gone"} : source' = [source EXCEPT ![f] = s]
  /\ UNCHANGED <<storage, rows, job, pc, file, level, sequence, exits, history>>

\* Somebody writes to a copy.
CopyAltered(f) ==
  /\ cache[Copy(f)] = "whole" /\ altered' = altered \cup {f}
  /\ Write(Copy(f), "other")
  /\ UNCHANGED <<source, rows, job, pc, file, level, sequence, exits, left, faulted>>

Finished == pc = "done" /\ UNCHANGED archiveVars

-----------------------------------------------------------------------------

ArchiveInit ==
  /\ source = [f \in Files |-> "same"]
  /\ cache = [n \in Names |-> "absent"] /\ disk = [n \in Names |-> {"absent"}]
  /\ made = {} /\ kept = {}
  /\ rows = [f \in Files |-> "planned"] /\ job = "collecting"
  /\ pc = "look" /\ file = 1 /\ level = 0 /\ sequence = 0 /\ exits = 0
  /\ altered = {} /\ left = {} /\ faulted = {}

ArchiveNext ==
  \/ LookForCopy \/ SyncFound
  \/ MakeDirectories \/ OpenTemporary \/ CopyAll \/ VerifyTemporary \/ SyncTemporary
  \/ Rename \/ SyncChain
  \/ CallFails
  \/ MarkFile \/ MarkConflict
  \/ Killed \/ PowerFails \/ Restart
  \/ \E f \in Files : SourceChanges(f) \/ CopyAltered(f)
  \/ Finished

ArchiveSpec == ArchiveInit /\ [][ArchiveNext]_archiveVars

-----------------------------------------------------------------------------
(* Properties.                                                             *)

ArchiveTypeOK ==
  /\ source \in [Files -> {"same", "changed", "gone"}]
  /\ cache \in [Names -> Contents \cup {"absent"}]
  /\ disk \in [Names -> SUBSET (Contents \cup {"absent"})]
  /\ \A n \in Names : cache[n] \in disk[n]
  /\ made \subseteq Levels /\ kept \subseteq made
  /\ rows \in [Files -> {"planned", "archived", "failed"}]
  /\ job \in {"collecting", "attention", "collected"}
  /\ pc \in PcValues /\ file \in Files /\ level \in 0..Depth /\ exits \in 0..MaxExits
  /\ sequence \in 0..LastFile /\ (HasTemporary => sequence > 0)
  /\ altered \subseteq Files /\ left \subseteq Files /\ faulted \subseteq Files

\* The name a manifest gives for a file never has a part of it, neither for a
\* process nor after the power has failed, whatever was interrupted when.
EvidenceWhole ==
  \A f \in Files \ altered :
    cache[Copy(f)] \in {"absent", "whole"} /\ disk[Copy(f)] \subseteq {"absent", "whole"}

\* A file is reported as failed only if its source has changed, a system call
\* has failed, or a temporary was left of it by a kill, or by a loss of power
\* before the rename was synced: the next process may find the name taken, since
\* the numbers begin anew.
FailedForCause ==
  \A f \in Files : rows[f] = "failed" =>
    source[f] # "same" \/ f \in faulted \/ f \in left

\* The archive keeps its promise: no file is recorded before its copy is safe
\* from a loss of power, name, content and directories, and what is safe stays.
Safe == {f \in Files : disk[Copy(f)] = {"whole"} /\ kept = Levels}
Promise == INSTANCE Evidence WITH
  stored <- Safe, recorded <- {f \in Files : rows[f] = "archived"}, damaged <- altered
EvidenceKept == Promise!EvidenceSpec
=============================================================================
