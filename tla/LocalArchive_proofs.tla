-------------------------- MODULE LocalArchive_proofs --------------------------
(***************************************************************************)
(* Proofs about LocalArchive: the evidence is whole, a file fails for a     *)
(* cause, and the archive keeps the promise of Evidence, for every plan,    *)
(* every depth and every number of kills and losses of power.               *)
(***************************************************************************)
EXTENDS LocalArchive, TLAPS

\* A process numbers its temporaries below the ordinal of the file it is at.
Numbered ==
  /\ sequence <= file
  /\ pc \in {"look", "syncFound", "make", "open"} => sequence < file
  /\ pc = "down" => sequence = 0

\* There is a file only where the directories are.
DirectoriesMade ==
  /\ (\E n \in Names : cache[n] # "absent") => made = Levels
  /\ pc \in {"syncFound", "open", "chain"} \/ HasTemporary => made = Levels

\* What the temporary holds, step by step.
TemporaryOK ==
  /\ pc = "verify" => cache[Temporary] = "whole" \/ source[file] # "same"
  /\ pc = "syncTemporary" => cache[Temporary] = "whole"
  /\ pc = "rename" => cache[Temporary] = "whole" /\ disk[Temporary] \subseteq {"absent", "whole"}

\* What the copy under its own name holds, until it is recorded.
CopyOK ==
  file \notin altered =>
    /\ pc \in {"syncFound", "chain"} => cache[Copy(file)] = "whole"
    /\ pc = "mark" \/ (pc = "chain" /\ level < Depth) => disk[Copy(file)] = {"whole"}

\* How far up the directories are synced.
ChainOK ==
  /\ pc = "chain" => \A k \in Levels : k > level + 1 => k \in kept
  /\ pc = "mark" => kept = Levels

\* A temporary no call has failed over is in use, or was left by an earlier process.
TemporariesTold ==
  \A f \in Files, n \in 0..(LastFile - 1) :
    cache[<<f, n>>] # "absent" =>
      f \in left \/ f \in faulted \/ (HasTemporary /\ f = file /\ n = sequence - 1)

Caused(f) == source[f] # "same" \/ f \in faulted \/ f \in left
FailureCaused == pc = "failed" => Caused(file)

ArchiveInv ==
  /\ ArchiveTypeOK /\ Numbered /\ DirectoriesMade
  /\ EvidenceWhole /\ TemporaryOK /\ CopyOK /\ ChainOK
  /\ TemporariesTold /\ FailureCaused /\ FailedForCause

-----------------------------------------------------------------------------
(* Names and the file system.                                              *)

\* No temporary has the name of a copy, and no two copies have one name.
LEMMA NamesDiffer ==
  /\ \A f \in Files : Copy(f) \in Names /\ Copy(f)[1] = f /\ Copy(f)[2] = LastFile
  /\ \A f, g \in Files : Copy(f) = Copy(g) => f = g
  /\ \A f \in Files, n \in 0..(LastFile - 1) :
       <<f, n>> \in Names /\ \A g \in Files : <<f, n>> # Copy(g)
BY ArchiveAssumption DEF Files, Names, Copy

\* The temporary in use has a number of its own.
LEMMA TemporaryNamed ==
  ASSUME ArchiveTypeOK, Numbered, HasTemporary
  PROVE  /\ sequence - 1 \in 0..(LastFile - 1)
         /\ Temporary = <<file, sequence - 1>> /\ Temporary \in Names
         /\ \A f \in Files : Temporary # Copy(f)
<1>1. sequence \in Nat /\ sequence > 0 /\ sequence <= file /\ file \in Files
  BY ArchiveAssumption DEF ArchiveTypeOK, Numbered
<1>2. sequence - 1 \in 0..(LastFile - 1)
  BY <1>1, ArchiveAssumption DEF Files
<1> QED BY <1>1, <1>2, NamesDiffer DEF Temporary

\* The next temporary, at the time it is opened.
LEMMA NextTemporaryNamed ==
  ASSUME ArchiveTypeOK, Numbered, pc = "open"
  PROVE  /\ sequence \in 0..(LastFile - 1) /\ sequence + 1 \in 0..LastFile
         /\ sequence + 1 <= file
         /\ <<file, sequence>> \in Names
         /\ \A f \in Files : <<file, sequence>> # Copy(f)
<1>1. sequence \in Nat /\ sequence < file /\ file \in Files
  BY ArchiveAssumption DEF ArchiveTypeOK, Numbered
<1>2. sequence \in 0..(LastFile - 1) /\ sequence + 1 \in 0..LastFile /\ sequence + 1 <= file
  BY <1>1, ArchiveAssumption DEF Files
<1> QED BY <1>1, <1>2, NamesDiffer

\* The types of the storage.
StorageOK ==
  /\ cache \in [Names -> Contents \cup {"absent"}]
  /\ disk \in [Names -> SUBSET (Contents \cup {"absent"})]
  /\ \A n \in Names : cache[n] \in disk[n]
  /\ made \subseteq Levels /\ kept \subseteq made

\* A write changes one name, and the disk may hold what it held before.
LEMMA WriteOne ==
  ASSUME StorageOK, NEW n \in Names, NEW c \in Contents \cup {"absent"}, Write(n, c)
  PROVE  /\ StorageOK' /\ made' = made /\ kept' = kept
         /\ cache'[n] = c /\ disk'[n] = disk[n] \cup {c}
         /\ \A m \in Names \ {n} : cache'[m] = cache[m] /\ disk'[m] = disk[m]
<1>1. cache' = [cache EXCEPT ![n] = c] /\ disk' = [disk EXCEPT ![n] = disk[n] \cup {c}]
      /\ made' = made /\ kept' = kept
  BY DEF Write
<1>2. cache' \in [Names -> Contents \cup {"absent"}]
  BY <1>1 DEF StorageOK
<1>3. disk' \in [Names -> SUBSET (Contents \cup {"absent"})]
  BY <1>1 DEF StorageOK
<1>4. cache'[n] = c /\ disk'[n] = disk[n] \cup {c}
  BY <1>1 DEF StorageOK
<1>5. \A m \in Names \ {n} : cache'[m] = cache[m] /\ disk'[m] = disk[m]
  BY <1>1 DEF StorageOK
<1>6. \A m \in Names : cache'[m] \in disk'[m]
  BY <1>4, <1>5 DEF StorageOK
<1> QED BY <1>1, <1>2, <1>3, <1>4, <1>5, <1>6 DEF StorageOK

\* A synced file holds what a process sees, if its name is kept at all.
LEMMA SyncFileOne ==
  ASSUME StorageOK, NEW n \in Names, SyncFile(n)
  PROVE  /\ StorageOK' /\ cache' = cache /\ made' = made /\ kept' = kept
         /\ disk'[n] = disk[n] \cap {cache[n], "absent"}
         /\ \A m \in Names \ {n} : disk'[m] = disk[m]
<1>1. disk' = [disk EXCEPT ![n] = disk[n] \cap {cache[n], "absent"}]
      /\ cache' = cache /\ made' = made /\ kept' = kept
  BY DEF SyncFile
<1>2. disk' \in [Names -> SUBSET (Contents \cup {"absent"})]
  BY <1>1 DEF StorageOK
<1>3. disk'[n] = disk[n] \cap {cache[n], "absent"}
  BY <1>1 DEF StorageOK
<1>4. \A m \in Names \ {n} : disk'[m] = disk[m]
  BY <1>1 DEF StorageOK
<1>5. \A m \in Names : cache'[m] \in disk'[m]
  BY <1>1, <1>3, <1>4 DEF StorageOK
<1> QED BY <1>1, <1>2, <1>3, <1>4, <1>5 DEF StorageOK

\* A rename moves what the name holds, on the disk perhaps not yet.
LEMMA RenamedTwo ==
  ASSUME StorageOK, NEW from \in Names, NEW to \in Names, from # to, cache[from] # "absent",
         Renamed(from, to)
  PROVE  /\ StorageOK' /\ made' = made /\ kept' = kept
         /\ cache'[to] = cache[from] /\ cache'[from] = "absent"
         /\ disk'[to] = disk[to] \cup (disk[from] \ {"absent"})
         /\ \A m \in Names \ {from, to} : cache'[m] = cache[m] /\ disk'[m] = disk[m]
<1>1. /\ cache' = [cache EXCEPT ![to] = cache[from], ![from] = "absent"]
      /\ disk' = [disk EXCEPT ![to] = disk[to] \cup (disk[from] \ {"absent"}),
                              ![from] = disk[from] \cup {"absent"}]
      /\ made' = made /\ kept' = kept
  BY DEF Renamed, StorageOK
<1>2. /\ cache'[to] = cache[from] /\ cache'[from] = "absent"
      /\ \A m \in Names \ {from, to} : cache'[m] = cache[m]
  BY <1>1 DEF StorageOK
<1>3. /\ disk'[to] = disk[to] \cup (disk[from] \ {"absent"})
      /\ disk'[from] = disk[from] \cup {"absent"}
      /\ \A m \in Names \ {from, to} : disk'[m] = disk[m]
  BY <1>1 DEF StorageOK
<1>4. cache' \in [Names -> Contents \cup {"absent"}]
  BY <1>1, <1>2 DEF StorageOK
<1>5. disk' \in [Names -> SUBSET (Contents \cup {"absent"})]
  BY <1>1, <1>3 DEF StorageOK
<1>6. \A m \in Names : cache'[m] \in disk'[m]
  BY <1>2, <1>3 DEF StorageOK
<1> QED BY <1>1, <1>2, <1>3, <1>4, <1>5, <1>6 DEF StorageOK

\* A synced directory: of the lowest the names, of any other the next directory.
LEMMA DirectorySynced ==
  ASSUME StorageOK, made = Levels, NEW l \in 0..Depth, SyncDirectory(l)
  PROVE  /\ StorageOK' /\ made' = made /\ cache' = cache
         /\ kept' = IF l < Depth THEN kept \cup {l + 1} ELSE kept
         /\ l < Depth => disk' = disk
         /\ l = Depth => \A n \in Names :
              disk'[n] = IF cache[n] = "absent" THEN {"absent"} ELSE disk[n] \ {"absent"}
<1>1. l \in Nat /\ Depth \in Nat /\ l <= Depth
  BY ArchiveAssumption
<1>2. kept' \subseteq Levels /\ kept' = IF l < Depth THEN kept \cup {l + 1} ELSE kept
  <2>1. l < Depth => l + 1 \in Levels
    BY <1>1 DEF Levels
  <2> QED BY <2>1 DEF SyncDirectory, StorageOK
<1>3. CASE l < Depth
  BY <1>2, <1>3, <1>1 DEF SyncDirectory, StorageOK
<1>4. CASE l = Depth
  <2>1. disk' = [n \in Names |-> IF cache[n] = "absent" THEN {"absent"}
                                                      ELSE disk[n] \ {"absent"}]
    BY <1>1, <1>4 DEF SyncDirectory
  <2>2. /\ disk' \in [Names -> SUBSET (Contents \cup {"absent"})]
        /\ \A n \in Names : cache[n] \in disk'[n]
    BY <2>1 DEF StorageOK
  <2> QED BY <2>1, <2>2, <1>1, <1>2, <1>4 DEF SyncDirectory, StorageOK
<1> QED BY <1>1, <1>3, <1>4

-----------------------------------------------------------------------------
(* The invariant, one lemma per action.                                    *)

LEMMA TypeIsStorage == ArchiveTypeOK => StorageOK
BY DEF ArchiveTypeOK, StorageOK

\* Looking for the copy: what is found there was written whole, or altered since.
LEMMA LookForCopyStep == ArchiveInv /\ LookForCopy => ArchiveInv'
<1> SUFFICES ASSUME ArchiveInv, LookForCopy PROVE ArchiveInv'
  OBVIOUS
<1>1. /\ UNCHANGED <<steady, storage, rows, job, file, level, sequence, faulted>> /\ pc = "look"
      /\ pc' \in {"make", "syncFound", "conflict"}
      /\ pc' = "syncFound" => cache[Copy(file)] = "whole"
  <2>1. /\ UNCHANGED <<steady, storage, rows, job, file, level, sequence, faulted>> /\ pc = "look"
        /\ pc' = CASE cache[Copy(file)] = "absent" -> "make"
                   [] cache[Copy(file)] = "whole" -> "syncFound"
                   [] OTHER -> "conflict"
    BY DEF LookForCopy, GoTo
  <2> QED BY <2>1, Zenon
<1> USE DEF ArchiveInv, steady, storage
<1>2. ArchiveTypeOK'
  BY <1>1 DEF ArchiveTypeOK, PcValues, HasTemporary
<1>3. Numbered'
  BY <1>1 DEF Numbered
<1>4. DirectoriesMade'
  BY <1>1, NamesDiffer DEF DirectoriesMade, HasTemporary, ArchiveTypeOK
<1>5. EvidenceWhole' /\ FailedForCause'
  BY <1>1 DEF EvidenceWhole, FailedForCause, Copy
<1>6. TemporaryOK' /\ ChainOK' /\ FailureCaused'
  BY <1>1 DEF TemporaryOK, ChainOK, FailureCaused
<1>7. CopyOK'
  BY <1>1 DEF CopyOK, Copy
<1>8. TemporariesTold'
  BY <1>1 DEF TemporariesTold, HasTemporary
<1> QED BY <1>2, <1>3, <1>4, <1>5, <1>6, <1>7, <1>8

\* What is found is synced before the directories are: until then it may come
\* from a process that was killed.
LEMMA SyncFoundStep == ArchiveInv /\ SyncFound => ArchiveInv' /\ Safe \subseteq Safe'
<1> SUFFICES ASSUME ArchiveInv, SyncFound PROVE ArchiveInv' /\ Safe \subseteq Safe'
  OBVIOUS
<1> USE DEF ArchiveInv, steady
<1>1. /\ UNCHANGED <<steady, rows, job, file, sequence, faulted>> /\ pc = "syncFound"
      /\ pc' = "chain" /\ level' = Depth /\ SyncFile(Copy(file))
  BY DEF SyncFound, GoTo
<1>2. Copy(file) \in Names /\ file \in Files /\ StorageOK
  BY NamesDiffer, TypeIsStorage DEF ArchiveTypeOK
<1>3. /\ StorageOK' /\ cache' = cache /\ made' = made /\ kept' = kept
      /\ disk'[Copy(file)] = disk[Copy(file)] \cap {cache[Copy(file)], "absent"}
      /\ \A m \in Names \ {Copy(file)} : disk'[m] = disk[m]
  BY <1>1, <1>2, SyncFileOne
<1>4. \A f \in Files : disk'[Copy(f)] \subseteq disk[Copy(f)] /\ cache[Copy(f)] \in disk'[Copy(f)]
  BY <1>2, <1>3, NamesDiffer DEF StorageOK
<1>5. ArchiveTypeOK'
  BY <1>1, <1>3, ArchiveAssumption DEF ArchiveTypeOK, StorageOK, PcValues, HasTemporary
<1>6. Numbered' /\ FailureCaused'
  BY <1>1 DEF Numbered, FailureCaused
<1>7. DirectoriesMade'
  BY <1>1, <1>3 DEF DirectoriesMade, HasTemporary
<1>8. EvidenceWhole' /\ FailedForCause'
  BY <1>1, <1>3, <1>4 DEF EvidenceWhole, FailedForCause, Copy
<1>9. TemporaryOK'
  BY <1>1 DEF TemporaryOK
<1>10. ChainOK'
  BY <1>1, ArchiveAssumption DEF ChainOK, Levels
<1>11. CopyOK'
  BY <1>1, <1>3, ArchiveAssumption DEF CopyOK, Copy
<1>12. TemporariesTold'
  BY <1>1, <1>3 DEF TemporariesTold, HasTemporary
<1>13. Safe \subseteq Safe'
  BY <1>3, <1>4 DEF Safe, Copy
<1> QED BY <1>5, <1>6, <1>7, <1>8, <1>9, <1>10, <1>11, <1>12, <1>13

\* The directories are made before anything is written into them.
LEMMA MakeDirectoriesStep == ArchiveInv /\ MakeDirectories => ArchiveInv' /\ Safe \subseteq Safe'
<1> SUFFICES ASSUME ArchiveInv, MakeDirectories PROVE ArchiveInv' /\ Safe \subseteq Safe'
  OBVIOUS
<1> USE DEF ArchiveInv, steady
<1>1. /\ UNCHANGED <<steady, rows, job, file, sequence, faulted, cache, disk, kept, level>>
      /\ pc = "make" /\ pc' = "open" /\ made' = Levels
  BY DEF MakeDirectories, GoTo
<1>2. ArchiveTypeOK'
  BY <1>1 DEF ArchiveTypeOK, PcValues, HasTemporary
<1>3. Numbered' /\ FailureCaused'
  BY <1>1 DEF Numbered, FailureCaused
<1>4. DirectoriesMade'
  BY <1>1 DEF DirectoriesMade, Levels
<1>5. EvidenceWhole' /\ FailedForCause'
  BY <1>1 DEF EvidenceWhole, FailedForCause, Copy
<1>6. TemporaryOK' /\ ChainOK'
  BY <1>1 DEF TemporaryOK, ChainOK
<1>7. CopyOK'
  BY <1>1 DEF CopyOK
<1>8. TemporariesTold'
  BY <1>1 DEF TemporariesTold, HasTemporary
<1>9. Safe \subseteq Safe'
  BY <1>1 DEF Safe, Copy, Levels
<1> QED BY <1>2, <1>3, <1>4, <1>5, <1>6, <1>7, <1>8, <1>9

\* A write to a temporary alone touches no copy.
LEMMA NotACopy ==
  ASSUME ArchiveTypeOK, EvidenceWhole,
         NEW n \in Names, \A f \in Files : n # Copy(f),
         \A m \in Names \ {n} : cache'[m] = cache[m] /\ disk'[m] = disk[m],
         kept' = kept, altered' = altered
  PROVE  /\ EvidenceWhole' /\ Safe' = Safe
         /\ \A f \in Files : cache'[Copy(f)] = cache[Copy(f)] /\ disk'[Copy(f)] = disk[Copy(f)]
<1>1. \A f \in Files : cache'[Copy(f)] = cache[Copy(f)] /\ disk'[Copy(f)] = disk[Copy(f)]
  BY NamesDiffer
<1>2. EvidenceWhole'
  BY <1>1 DEF EvidenceWhole, Copy, Files
<1>3. \A f \in Files : disk'[Copy(f)] = {"whole"} <=> disk[Copy(f)] = {"whole"}
  BY <1>1
<1>4. Safe' = Safe
  BY <1>3 DEF Safe, Copy, Levels, Files
<1> QED BY <1>1, <1>2, <1>4

\* A number that is taken, or a source that is gone, fails the file.
LEMMA OpenTemporaryStep == ArchiveInv /\ OpenTemporary => ArchiveInv' /\ Safe' = Safe
<1> SUFFICES ASSUME ArchiveInv, OpenTemporary PROVE ArchiveInv' /\ Safe' = Safe
  OBVIOUS
<1> USE DEF ArchiveInv, steady
<1> DEFINE name == <<file, sequence>>
<1>1. /\ UNCHANGED <<steady, rows, job, file, level, faulted>>
      /\ pc = "open" /\ sequence' = sequence + 1
      /\ IF cache[name] = "absent" /\ source[file] # "gone"
         THEN pc' = "copying" /\ Write(name, "part")
         ELSE pc' = "failed" /\ Write(name, "absent")
  BY DEF OpenTemporary
<1>2. /\ name \in Names /\ file \in Files /\ StorageOK /\ \A f \in Files : name # Copy(f)
      /\ sequence \in 0..(LastFile - 1) /\ sequence + 1 \in 0..LastFile /\ sequence + 1 <= file
  BY <1>1, NextTemporaryNamed, TypeIsStorage DEF ArchiveTypeOK
<1>3. PICK c \in Contents \cup {"absent"} : Write(name, c)
  BY <1>1 DEF Contents
<1> HIDE DEF name
<1>4. /\ StorageOK' /\ made' = made /\ kept' = kept
      /\ cache'[name] = c
      /\ \A m \in Names \ {name} : cache'[m] = cache[m] /\ disk'[m] = disk[m]
  BY <1>2, <1>3, WriteOne
<1>5. pc' \in {"copying", "failed"} /\ (pc' = "failed" => cache'[name] = "absent")
  <2>1. CASE cache[name] = "absent" /\ source[file] # "gone"
    BY <1>1, <2>1
  <2>2. CASE ~(cache[name] = "absent" /\ source[file] # "gone")
    <3>1. pc' = "failed" /\ Write(name, "absent")
      BY <1>1, <2>2
    <3>2. cache'[name] = "absent"
      BY <1>2, <3>1, WriteOne
    <3> QED BY <3>1, <3>2
  <2> QED BY <2>1, <2>2
<1>6. EvidenceWhole' /\ Safe' = Safe
      /\ \A f \in Files : cache'[Copy(f)] = cache[Copy(f)] /\ disk'[Copy(f)] = disk[Copy(f)]
  BY <1>1, <1>2, <1>4, NotACopy
<1>7. ArchiveTypeOK'
  BY <1>1, <1>2, <1>4, <1>5 DEF ArchiveTypeOK, StorageOK, PcValues, HasTemporary
<1>8. Numbered' /\ FailedForCause'
  BY <1>1, <1>2, <1>5 DEF Numbered, FailedForCause
<1>9. DirectoriesMade'
  BY <1>1, <1>4 DEF DirectoriesMade
<1>10. TemporaryOK' /\ ChainOK' /\ CopyOK'
  BY <1>5 DEF TemporaryOK, ChainOK, CopyOK
<1>11. \A f \in Files, n \in 0..(LastFile - 1) :
         /\ <<f, n>> \in Names /\ (<<f, n>> = name <=> f = file /\ n = sequence)
  BY <1>2, NamesDiffer DEF name
<1>12. TemporariesTold'
  <2> SUFFICES ASSUME NEW f \in Files, NEW n \in 0..(LastFile - 1), cache'[<<f, n>>] # "absent"
               PROVE  \/ f \in left' \/ f \in faulted'
                      \/ HasTemporary' /\ f = file' /\ n = sequence' - 1
    BY DEF TemporariesTold
  <2>1. CASE <<f, n>> = name
    <3>1. f = file /\ n = sequence /\ pc' = "copying"
      BY <2>1, <1>11, <1>5
    <3>2. n = sequence' - 1
      BY <3>1, <1>1, <1>2
    <3> QED BY <3>1, <3>2, <1>1 DEF HasTemporary
  <2>2. CASE <<f, n>> # name
    <3>1. cache[<<f, n>>] # "absent"
      BY <2>2, <1>4, <1>11
    <3> QED BY <3>1, <1>1 DEF TemporariesTold, HasTemporary
  <2> QED BY <2>1, <2>2
<1>13. FailureCaused'
  <2>1. CASE source[file] # "same"
    BY <2>1, <1>1 DEF FailureCaused, Caused
  <2>2. CASE cache[name] # "absent"
    <3>1. file \in left \/ file \in faulted
      BY <2>2, <1>1, <1>2 DEF TemporariesTold, HasTemporary, name
    <3> QED BY <3>1, <1>1 DEF FailureCaused, Caused
  <2>3. CASE cache[name] = "absent" /\ source[file] = "same"
    BY <2>3, <1>1 DEF FailureCaused
  <2> QED BY <2>1, <2>2, <2>3
<1> QED BY <1>6, <1>7, <1>8, <1>9, <1>10, <1>12, <1>13

\* A source that was the same when the copy was made gives the whole of it.
LEMMA CopyAllStep == ArchiveInv /\ CopyAll => ArchiveInv' /\ Safe' = Safe
<1> SUFFICES ASSUME ArchiveInv, CopyAll PROVE ArchiveInv' /\ Safe' = Safe
  OBVIOUS
<1> USE DEF ArchiveInv, steady
<1>1. PICK c \in Contents \cup {"absent"} :
        /\ Write(Temporary, c) /\ pc = "copying" /\ pc' = "verify"
        /\ UNCHANGED <<steady, rows, job, file, sequence, faulted, level>>
        /\ c = "whole" \/ source[file] # "same"
  BY DEF CopyAll, GoTo, Contents
<1>2. /\ Temporary \in Names /\ file \in Files /\ StorageOK /\ \A f \in Files : Temporary # Copy(f)
      /\ Temporary = <<file, sequence - 1>> /\ sequence - 1 \in 0..(LastFile - 1)
  BY <1>1, TemporaryNamed, TypeIsStorage DEF ArchiveTypeOK, HasTemporary
<1>3. /\ StorageOK' /\ made' = made /\ kept' = kept
      /\ cache'[Temporary] = c
      /\ \A m \in Names \ {Temporary} : cache'[m] = cache[m] /\ disk'[m] = disk[m]
  BY <1>1, <1>2, WriteOne
<1>4. EvidenceWhole' /\ Safe' = Safe
  BY <1>1, <1>2, <1>3, NotACopy
<1>5. ArchiveTypeOK'
  BY <1>1, <1>3 DEF ArchiveTypeOK, StorageOK, PcValues, HasTemporary
<1>6. Numbered' /\ FailedForCause' /\ FailureCaused'
  BY <1>1 DEF Numbered, FailedForCause, FailureCaused
<1>7. DirectoriesMade'
  BY <1>1, <1>3 DEF DirectoriesMade, HasTemporary
<1>8. TemporaryOK'
  BY <1>1, <1>3 DEF TemporaryOK, Temporary
<1>9. ChainOK' /\ CopyOK'
  BY <1>1 DEF ChainOK, CopyOK
<1>10. TemporariesTold'
  <2> SUFFICES ASSUME NEW f \in Files, NEW n \in 0..(LastFile - 1), cache'[<<f, n>>] # "absent"
               PROVE  \/ f \in left' \/ f \in faulted'
                      \/ HasTemporary' /\ f = file' /\ n = sequence' - 1
    BY DEF TemporariesTold
  <2>1. CASE <<f, n>> = Temporary
    BY <2>1, <1>1, <1>2 DEF HasTemporary
  <2>2. CASE <<f, n>> # Temporary
    <3>1. cache[<<f, n>>] # "absent"
      BY <2>2, <1>3, NamesDiffer
    <3> QED BY <3>1, <1>1 DEF TemporariesTold, HasTemporary
  <2> QED BY <2>1, <2>2
<1> QED BY <1>4, <1>5, <1>6, <1>7, <1>8, <1>9, <1>10

\* The thread gives the file up with its temporary removed.
LEMMA TemporaryRemoved ==
  ASSUME ArchiveInv, NEW k \in 0..(LastFile - 1), Write(<<file, k>>, "absent"),
         UNCHANGED <<steady, rows, job, file, level>>, pc' = "failed",
         sequence' \in 0..LastFile, sequence' <= file, faulted \subseteq faulted',
         faulted' \subseteq Files,
         ~ HasTemporary \/ k = sequence - 1 \/ file \in faulted',
         source[file] # "same" \/ file \in faulted'
  PROVE  ArchiveInv' /\ Safe' = Safe
<1> DEFINE name == <<file, k>>
<1> USE DEF ArchiveInv, steady
<1>1. name \in Names /\ file \in Files /\ StorageOK /\ \A f \in Files : name # Copy(f)
  BY NamesDiffer, TypeIsStorage DEF ArchiveTypeOK
<1>2. \A f \in Files, n \in 0..(LastFile - 1) :
        <<f, n>> \in Names /\ (<<f, n>> = name <=> f = file /\ n = k)
  BY NamesDiffer
<1> HIDE DEF name
<1>3. /\ StorageOK' /\ made' = made /\ kept' = kept
      /\ cache'[name] = "absent"
      /\ \A m \in Names \ {name} : cache'[m] = cache[m] /\ disk'[m] = disk[m]
  BY <1>1, WriteOne DEF name
<1>4. EvidenceWhole' /\ Safe' = Safe
  BY <1>1, <1>3, NotACopy
<1>5. ArchiveTypeOK'
  BY <1>3 DEF ArchiveTypeOK, StorageOK, PcValues, HasTemporary
<1>6. Numbered' /\ FailureCaused'
  BY DEF Numbered, FailureCaused, Caused
<1>7. FailedForCause'
  BY DEF FailedForCause
<1>8. DirectoriesMade'
  BY <1>3 DEF DirectoriesMade, HasTemporary
<1>9. TemporaryOK' /\ ChainOK' /\ CopyOK'
  BY DEF TemporaryOK, ChainOK, CopyOK
<1>10. TemporariesTold'
  <2> SUFFICES ASSUME NEW f \in Files, NEW n \in 0..(LastFile - 1), cache'[<<f, n>>] # "absent"
               PROVE  f \in left' \/ f \in faulted'
    BY DEF TemporariesTold
  <2>1. cache[<<f, n>>] # "absent" /\ <<f, n>> # name
    BY <1>2, <1>3
  <2>2. f \in left \/ f \in faulted \/ (HasTemporary /\ f = file /\ n = sequence - 1)
    BY <2>1 DEF TemporariesTold
  <2> QED BY <2>1, <2>2, <1>2
<1> QED BY <1>4, <1>5, <1>6, <1>7, <1>8, <1>9, <1>10

\* A copy that differs from the plan is never synced.
LEMMA VerifyTemporaryStep == ArchiveInv /\ VerifyTemporary => ArchiveInv' /\ Safe' = Safe
<1> SUFFICES ASSUME ArchiveInv, VerifyTemporary PROVE ArchiveInv' /\ Safe' = Safe
  OBVIOUS
<1> USE DEF ArchiveInv
<1>1. pc = "verify" /\ UNCHANGED <<steady, rows, job, file, sequence, faulted, level>>
  BY DEF VerifyTemporary, GoTo
<1>2. CASE cache[Temporary] = "whole"
  <2>1. pc' = "syncTemporary" /\ UNCHANGED storage
    BY <1>2 DEF VerifyTemporary, GoTo
  <2> USE DEF steady, storage
  <2>2. ArchiveTypeOK'
    BY <1>1, <2>1 DEF ArchiveTypeOK, PcValues, HasTemporary
  <2>3. Numbered' /\ FailureCaused' /\ FailedForCause' /\ EvidenceWhole'
    BY <1>1, <2>1 DEF Numbered, FailureCaused, FailedForCause, EvidenceWhole, Copy
  <2>4. DirectoriesMade' /\ ChainOK' /\ CopyOK'
    BY <1>1, <2>1 DEF DirectoriesMade, HasTemporary, ChainOK, CopyOK
  <2>5. TemporaryOK' /\ TemporariesTold'
    BY <1>1, <1>2, <2>1 DEF TemporaryOK, TemporariesTold, HasTemporary, Temporary
  <2>6. Safe' = Safe
    BY <2>1 DEF Safe, Copy
  <2> QED BY <2>2, <2>3, <2>4, <2>5, <2>6
<1>3. CASE cache[Temporary] # "whole"
  <2>1. pc' = "failed" /\ Write(Temporary, "absent")
    BY <1>3 DEF VerifyTemporary, GoTo
  <2>2. sequence - 1 \in 0..(LastFile - 1) /\ Temporary = <<file, sequence - 1>>
    BY <1>1, TemporaryNamed DEF HasTemporary
  <2>3. source[file] # "same"
    BY <1>1, <1>3 DEF TemporaryOK
  <2>4. sequence \in 0..LastFile /\ sequence <= file /\ faulted \subseteq Files
    BY DEF ArchiveTypeOK, Numbered
  <2> QED BY <1>1, <2>1, <2>2, <2>3, <2>4, TemporaryRemoved DEF ArchiveInv
<1> QED BY <1>2, <1>3

\* What is renamed next is whole, on the disk too.
LEMMA SyncTemporaryStep == ArchiveInv /\ SyncTemporary => ArchiveInv' /\ Safe' = Safe
<1> SUFFICES ASSUME ArchiveInv, SyncTemporary PROVE ArchiveInv' /\ Safe' = Safe
  OBVIOUS
<1> USE DEF ArchiveInv, steady
<1>1. /\ pc = "syncTemporary" /\ pc' = "rename" /\ SyncFile(Temporary)
      /\ UNCHANGED <<steady, rows, job, file, sequence, faulted, level>>
  BY DEF SyncTemporary, GoTo
<1>2. /\ Temporary \in Names /\ file \in Files /\ StorageOK /\ \A f \in Files : Temporary # Copy(f)
  BY <1>1, TemporaryNamed, TypeIsStorage DEF ArchiveTypeOK, HasTemporary
<1>3. /\ StorageOK' /\ cache' = cache /\ made' = made /\ kept' = kept
      /\ disk'[Temporary] = disk[Temporary] \cap {cache[Temporary], "absent"}
      /\ \A m \in Names \ {Temporary} : disk'[m] = disk[m]
  BY <1>1, <1>2, SyncFileOne
<1>4. EvidenceWhole' /\ Safe' = Safe
  BY <1>1, <1>2, <1>3, NotACopy
<1>5. ArchiveTypeOK'
  BY <1>1, <1>3 DEF ArchiveTypeOK, StorageOK, PcValues, HasTemporary
<1>6. Numbered' /\ FailedForCause' /\ FailureCaused'
  BY <1>1 DEF Numbered, FailedForCause, FailureCaused
<1>7. DirectoriesMade' /\ ChainOK' /\ CopyOK'
  BY <1>1, <1>3 DEF DirectoriesMade, HasTemporary, ChainOK, CopyOK
<1>8. TemporaryOK'
  <2>1. cache[Temporary] = "whole"
    BY <1>1 DEF TemporaryOK
  <2> QED BY <1>1, <1>3, <2>1 DEF TemporaryOK, Temporary
<1>9. TemporariesTold'
  BY <1>1, <1>3 DEF TemporariesTold, HasTemporary
<1> QED BY <1>4, <1>5, <1>6, <1>7, <1>8, <1>9

\* The copy gets its name whole; what the name held on the disk may come back.
LEMMA RenameStep == ArchiveInv /\ Rename => ArchiveInv' /\ Safe \subseteq Safe'
<1> SUFFICES ASSUME ArchiveInv, Rename PROVE ArchiveInv' /\ Safe \subseteq Safe'
  OBVIOUS
<1> USE DEF ArchiveInv, steady
<1>1. /\ pc = "rename" /\ pc' = "chain" /\ level' = Depth /\ Renamed(Temporary, Copy(file))
      /\ UNCHANGED <<steady, rows, job, file, sequence, faulted>>
  BY DEF Rename, GoTo
<1>2. /\ Temporary \in Names /\ file \in Files /\ StorageOK /\ \A f \in Files : Temporary # Copy(f)
      /\ Temporary = <<file, sequence - 1>> /\ Copy(file) \in Names
  BY <1>1, TemporaryNamed, TypeIsStorage, NamesDiffer DEF ArchiveTypeOK, HasTemporary
<1>3. cache[Temporary] = "whole" /\ disk[Temporary] \subseteq {"absent", "whole"}
  BY <1>1 DEF TemporaryOK
<1>4. /\ StorageOK' /\ made' = made /\ kept' = kept
      /\ cache'[Copy(file)] = "whole" /\ cache'[Temporary] = "absent"
      /\ disk'[Copy(file)] = disk[Copy(file)] \cup (disk[Temporary] \ {"absent"})
      /\ \A m \in Names \ {Temporary, Copy(file)} : cache'[m] = cache[m] /\ disk'[m] = disk[m]
  BY <1>1, <1>2, <1>3, RenamedTwo
<1>5. \A f \in Files \ {file} : cache'[Copy(f)] = cache[Copy(f)] /\ disk'[Copy(f)] = disk[Copy(f)]
  BY <1>2, <1>4, NamesDiffer
<1>6. disk'[Copy(file)] \subseteq disk[Copy(file)] \cup {"whole"}
  BY <1>3, <1>4
<1>7. ArchiveTypeOK'
  BY <1>1, <1>4, ArchiveAssumption DEF ArchiveTypeOK, StorageOK, PcValues, HasTemporary
<1>8. Numbered' /\ FailedForCause' /\ FailureCaused'
  BY <1>1 DEF Numbered, FailedForCause, FailureCaused
<1>9. DirectoriesMade'
  BY <1>1, <1>4 DEF DirectoriesMade, HasTemporary
<1>10. EvidenceWhole'
  BY <1>1, <1>4, <1>5, <1>6 DEF EvidenceWhole, Copy
<1>11. TemporaryOK'
  BY <1>1 DEF TemporaryOK
<1>12. CopyOK'
  BY <1>1, <1>4, ArchiveAssumption DEF CopyOK, Copy
<1>13. ChainOK'
  BY <1>1, ArchiveAssumption DEF ChainOK, Levels
<1>14. TemporariesTold'
  <2> SUFFICES ASSUME NEW f \in Files, NEW n \in 0..(LastFile - 1), cache'[<<f, n>>] # "absent"
               PROVE  f \in left' \/ f \in faulted'
    BY DEF TemporariesTold
  <2>1. <<f, n>> # Temporary /\ cache[<<f, n>>] # "absent"
    BY <1>2, <1>4, NamesDiffer
  <2> QED BY <2>1, <1>1, <1>2 DEF TemporariesTold
<1>15. Safe \subseteq Safe'
  BY <1>4, <1>5, <1>6, <1>2, TypeIsStorage DEF Safe, Copy, StorageOK
<1> QED BY <1>7, <1>8, <1>9, <1>10, <1>11, <1>12, <1>13, <1>14, <1>15

\* The lowest directory keeps the name, the others keep the directory: past the
\* root the copy is safe.
LEMMA SyncChainStep == ArchiveInv /\ SyncChain => ArchiveInv' /\ Safe \subseteq Safe'
<1> SUFFICES ASSUME ArchiveInv, SyncChain PROVE ArchiveInv' /\ Safe \subseteq Safe'
  OBVIOUS
<1> USE DEF ArchiveInv, steady
<1>1. /\ pc = "chain" /\ SyncDirectory(level)
      /\ UNCHANGED <<steady, rows, job, file, sequence, faulted>>
      /\ IF level = 0 THEN pc' = "mark" /\ level' = level
                      ELSE pc' = "chain" /\ level' = level - 1
  BY DEF SyncChain, GoTo
<1>2. /\ StorageOK /\ level \in 0..Depth /\ Depth \in Nat \ {0}
      /\ file \in Files /\ Copy(file) \in Names
  BY TypeIsStorage, NamesDiffer, ArchiveAssumption DEF ArchiveTypeOK
<1>3. made = Levels
  BY <1>1 DEF DirectoriesMade
<1>4. /\ StorageOK' /\ made' = made /\ cache' = cache
      /\ kept' = IF level < Depth THEN kept \cup {level + 1} ELSE kept
      /\ level < Depth => disk' = disk
      /\ level = Depth => \A n \in Names :
           disk'[n] = IF cache[n] = "absent" THEN {"absent"} ELSE disk[n] \ {"absent"}
  BY <1>1, <1>2, <1>3, DirectorySynced
<1>5. \A n \in Names :
        /\ disk'[n] \subseteq disk[n] /\ disk'[n] # {}
        /\ level = Depth /\ cache[n] # "absent" => "absent" \notin disk'[n]
  BY <1>2, <1>4 DEF StorageOK
<1>6. level' \in 0..Depth /\ pc' \in {"chain", "mark"}
  BY <1>1, <1>2
<1>7. ArchiveTypeOK'
  BY <1>1, <1>4, <1>6 DEF ArchiveTypeOK, StorageOK, PcValues, HasTemporary
<1>8. Numbered' /\ FailedForCause' /\ FailureCaused'
  BY <1>1, <1>6 DEF Numbered, FailedForCause, FailureCaused
<1>9. DirectoriesMade'
  BY <1>1, <1>3, <1>4, <1>6 DEF DirectoriesMade, HasTemporary
<1>10. EvidenceWhole'
  BY <1>1, <1>4, <1>5, NamesDiffer DEF EvidenceWhole, Copy
<1>11. TemporaryOK'
  BY <1>6 DEF TemporaryOK
<1>12. CopyOK'
  <2> SUFFICES ASSUME file \notin altered
               PROVE  cache'[Copy(file)] = "whole" /\ disk'[Copy(file)] = {"whole"}
    BY <1>1 DEF CopyOK, Copy
  <2>1. cache[Copy(file)] = "whole" /\ disk[Copy(file)] \subseteq {"absent", "whole"}
    BY <1>1, <1>2 DEF CopyOK, EvidenceWhole
  <2>2. CASE level < Depth
    BY <2>1, <2>2, <1>1, <1>2, <1>4 DEF CopyOK
  <2>3. CASE level = Depth
    BY <2>1, <2>3, <1>2, <1>4, <1>5 DEF StorageOK
  <2> QED BY <2>2, <2>3, <1>2
<1>13. ChainOK'
  <2>1. CASE level = 0
    <3>1. kept' = kept \cup {1} /\ pc' = "mark" /\ \A k \in Levels : k > 1 => k \in kept
      BY <2>1, <1>1, <1>2, <1>4 DEF ChainOK
    <3>2. Levels \subseteq kept'
      BY <3>1, <1>2 DEF Levels
    <3> QED BY <3>1, <3>2, <1>4 DEF ChainOK, StorageOK, Levels
  <2>2. CASE level # 0
    <3>1. pc' = "chain" /\ level' = level - 1
      BY <2>2, <1>1
    <3>2. ASSUME NEW k \in Levels, k > level' + 1 PROVE k \in kept'
      <4>1. CASE k > level + 1
        BY <4>1, <1>1, <1>4 DEF ChainOK
      <4>2. CASE k = level + 1
        BY <4>2, <1>2, <1>4 DEF Levels
      <4> QED BY <3>1, <3>2, <4>1, <4>2, <1>2 DEF Levels
    <3> QED BY <3>1, <3>2 DEF ChainOK, Levels
  <2> QED BY <2>1, <2>2
<1>14. TemporariesTold'
  BY <1>1, <1>4 DEF TemporariesTold, HasTemporary
<1>15. Safe \subseteq Safe'
  <2> SUFFICES ASSUME NEW f \in Files, disk[Copy(f)] = {"whole"}, kept = Levels
               PROVE  disk'[Copy(f)] = {"whole"} /\ kept' = Levels
    BY DEF Safe, Copy, Levels, Files
  <2> QED BY <1>4, <1>5, NamesDiffer DEF StorageOK
<1> QED BY <1>7, <1>8, <1>9, <1>10, <1>11, <1>12, <1>13, <1>14, <1>15

\* A failed call fails the file, with its temporary removed or left behind.
LEMMA CallFailsStep == ArchiveInv /\ CallFails => ArchiveInv' /\ Safe' = Safe
<1> SUFFICES ASSUME ArchiveInv, CallFails PROVE ArchiveInv' /\ Safe' = Safe
  OBVIOUS
<1>1. /\ pc' = "failed" /\ faulted' = faulted \cup {file}
      /\ sequence' = IF pc = "open" THEN sequence + 1 ELSE sequence
      /\ UNCHANGED <<steady, rows, job, file, level>>
  BY DEF CallFails
<1>2. file \in Files /\ faulted \subseteq Files
  BY DEF ArchiveInv, ArchiveTypeOK
<1>3. sequence' \in 0..LastFile /\ sequence' <= file
  BY <1>1, NextTemporaryNamed DEF ArchiveInv, ArchiveTypeOK, Numbered
<1>4. CASE UNCHANGED storage
  <2> USE DEF ArchiveInv, steady, storage
  <2>1. ArchiveTypeOK'
    BY <1>1, <1>2, <1>3, <1>4 DEF ArchiveTypeOK, PcValues, HasTemporary
  <2>2. Numbered' /\ FailedForCause' /\ FailureCaused'
    BY <1>1, <1>3 DEF Numbered, FailedForCause, FailureCaused, Caused
  <2>3. DirectoriesMade' /\ EvidenceWhole'
    BY <1>1, <1>4 DEF DirectoriesMade, HasTemporary, EvidenceWhole, Copy
  <2>4. TemporaryOK' /\ CopyOK' /\ ChainOK'
    BY <1>1 DEF TemporaryOK, CopyOK, ChainOK
  <2>5. TemporariesTold'
    BY <1>1, <1>4 DEF TemporariesTold
  <2>6. Safe' = Safe
    BY <1>4 DEF Safe, Copy
  <2> QED BY <2>1, <2>2, <2>3, <2>4, <2>5, <2>6
<1>5. CASE HasTemporary /\ Write(Temporary, "absent")
  <2>1. sequence - 1 \in 0..(LastFile - 1) /\ Temporary = <<file, sequence - 1>>
    BY <1>5, TemporaryNamed DEF ArchiveInv
  <2> QED BY <1>1, <1>2, <1>3, <1>5, <2>1, TemporaryRemoved
<1>6. CASE pc = "open" /\ Write(<<file, sequence>>, "absent")
  <2>1. sequence \in 0..(LastFile - 1)
    BY <1>6, NextTemporaryNamed DEF ArchiveInv
  <2> QED BY <1>1, <1>2, <1>3, <1>6, <2>1, TemporaryRemoved
<1> QED BY <1>4, <1>5, <1>6 DEF CallFails

\* A file is marked once its copy is safe, or has been altered, or has failed.
LEMMA MarkFileStep == ArchiveInv /\ MarkFile => ArchiveInv'
<1> SUFFICES ASSUME ArchiveInv, MarkFile PROVE ArchiveInv'
  OBVIOUS
<1> USE DEF ArchiveInv, steady, storage
<1>1. /\ pc \in {"mark", "failed"} /\ NextFile(rows')
      /\ rows' = [rows EXCEPT ![file] = IF pc = "mark" THEN "archived" ELSE "failed"]
      /\ UNCHANGED <<steady, storage, level, sequence, faulted>>
  BY DEF MarkFile
<1>2. /\ pc' \in {"done", "look"} /\ job' \in {"collecting", "attention", "collected"}
      /\ file' \in Files /\ file' >= file /\ (pc' = "look" => file' > file)
  BY <1>1 DEF NextFile, ArchiveTypeOK, Files
<1>3. sequence \in Nat /\ sequence <= file /\ file \in Nat /\ file' \in Nat
  BY <1>2 DEF Numbered, ArchiveTypeOK, Files
<1>4. /\ rows' \in [Files -> {"planned", "archived", "failed"}]
      /\ \A f \in Files : rows'[f] = "failed" => rows[f] = "failed" \/ (f = file /\ pc = "failed")
  BY <1>1 DEF ArchiveTypeOK
<1>5. ArchiveTypeOK'
  BY <1>1, <1>2, <1>4 DEF ArchiveTypeOK, PcValues, HasTemporary
<1>6. Numbered'
  BY <1>1, <1>2, <1>3 DEF Numbered
<1>7. FailedForCause' /\ FailureCaused'
  BY <1>1, <1>2, <1>4 DEF FailedForCause, FailureCaused, Caused
<1>8. DirectoriesMade' /\ EvidenceWhole'
  BY <1>1, <1>2 DEF DirectoriesMade, HasTemporary, EvidenceWhole, Copy
<1>9. TemporaryOK' /\ CopyOK' /\ ChainOK'
  BY <1>2 DEF TemporaryOK, CopyOK, ChainOK
<1>10. TemporariesTold'
  BY <1>1 DEF TemporariesTold, HasTemporary
<1> QED BY <1>5, <1>6, <1>7, <1>8, <1>9, <1>10

\* A conflict leaves everything as it is for the operator.
LEMMA MarkConflictStep == ArchiveInv /\ MarkConflict => ArchiveInv'
<1> SUFFICES ASSUME ArchiveInv, MarkConflict PROVE ArchiveInv'
  OBVIOUS
<1> USE DEF ArchiveInv, steady, storage
<1>1. /\ pc = "conflict" /\ pc' = "done" /\ job' = "attention"
      /\ UNCHANGED <<steady, storage, rows, file, level, sequence, faulted>>
  BY DEF MarkConflict
<1>2. ArchiveTypeOK'
  BY <1>1 DEF ArchiveTypeOK, PcValues, HasTemporary
<1>3. Numbered' /\ FailedForCause' /\ FailureCaused'
  BY <1>1 DEF Numbered, FailedForCause, FailureCaused
<1>4. DirectoriesMade' /\ EvidenceWhole'
  BY <1>1 DEF DirectoriesMade, HasTemporary, EvidenceWhole, Copy
<1>5. TemporaryOK' /\ CopyOK' /\ ChainOK'
  BY <1>1 DEF TemporaryOK, CopyOK, ChainOK
<1>6. TemporariesTold'
  BY <1>1 DEF TemporariesTold, HasTemporary
<1> QED BY <1>2, <1>3, <1>4, <1>5, <1>6

\* The end of a process leaves the names as they are, or what the disk gives
\* back, and every temporary there is counts as left.
LEMMA ProcessGoneStep ==
  ASSUME ArchiveInv, StorageOK', ProcessGone, EvidenceWhole',
         (\E n \in Names : cache'[n] # "absent") => made' = Levels
  PROVE  ArchiveInv'
<1> USE DEF ArchiveInv
<1>1. /\ exits < MaxExits /\ exits' = exits + 1
      /\ pc' = "down" /\ sequence' = 0
      /\ left' = left \cup {f \in Files : \E n \in 0..(LastFile - 1) : cache'[<<f, n>>] # "absent"}
      /\ UNCHANGED <<source, rows, job, file, level, altered, faulted>>
  BY DEF ProcessGone
<1>2. exits' \in 0..MaxExits /\ 0 <= file
  BY <1>1, ArchiveAssumption DEF ArchiveTypeOK, Files
<1>3. left \subseteq left' /\ left' \subseteq Files
  BY <1>1 DEF ArchiveTypeOK
<1>4. ArchiveTypeOK'
  BY <1>1, <1>2, <1>3, ArchiveAssumption DEF ArchiveTypeOK, StorageOK, PcValues, HasTemporary
<1>5. Numbered' /\ FailureCaused'
  BY <1>1, <1>2 DEF Numbered, FailureCaused
<1>6. FailedForCause'
  BY <1>1, <1>3 DEF FailedForCause
<1>7. DirectoriesMade' /\ TemporaryOK' /\ CopyOK' /\ ChainOK'
  BY <1>1 DEF DirectoriesMade, HasTemporary, TemporaryOK, CopyOK, ChainOK
<1>8. TemporariesTold'
  BY <1>1 DEF TemporariesTold
<1> QED BY <1>4, <1>5, <1>6, <1>7, <1>8

\* A kill costs no file anything it holds.
LEMMA KilledStep == ArchiveInv /\ Killed => ArchiveInv' /\ Safe' = Safe
<1> SUFFICES ASSUME ArchiveInv, Killed PROVE ArchiveInv' /\ Safe' = Safe
  OBVIOUS
<1>1. UNCHANGED storage /\ ProcessGone /\ altered' = altered
  BY DEF Killed, ProcessGone
<1>2. StorageOK' /\ EvidenceWhole' /\ Safe' = Safe
  BY <1>1, TypeIsStorage DEF ArchiveInv, storage, StorageOK, EvidenceWhole, Safe, Copy
<1>3. (\E n \in Names : cache'[n] # "absent") => made' = Levels
  BY <1>1 DEF ArchiveInv, storage, DirectoriesMade
<1> QED BY <1>1, <1>2, <1>3, ProcessGoneStep

\* A loss of power brings a name back with something it has held since it was
\* synced, and nothing without the directories above it.
LEMMA PowerFailsStep == ArchiveInv /\ PowerFails => ArchiveInv' /\ Safe \subseteq Safe'
<1> SUFFICES ASSUME ArchiveInv, PowerFails PROVE ArchiveInv' /\ Safe \subseteq Safe'
  OBVIOUS
<1> USE DEF ArchiveInv
<1> DEFINE doubtful == {n \in Names : disk[n] # {cache[n]}}
<1>1. PICK lucky \in SUBSET (made \ kept) :
        LET there == {l \in Levels : \A k \in 1..l : k \in kept \cup lucky} IN
        /\ exits < MaxExits
        /\ made' = there /\ kept' = there
        /\ IF Depth \in there
           THEN \E found \in [doubtful -> UNION {disk[n] : n \in doubtful}] :
                  /\ \A n \in doubtful : found[n] \in disk[n]
                  /\ cache' = [n \in Names |-> IF n \in doubtful THEN found[n] ELSE cache[n]]
           ELSE cache' = [n \in Names |-> "absent"]
        /\ disk' = [n \in Names |-> {cache'[n]}]
        /\ ProcessGone
  BY DEF PowerFails
<1> DEFINE there == {l \in Levels : \A k \in 1..l : k \in kept \cup lucky}
<1>2. there \subseteq Levels /\ (Depth \in there => there = Levels)
      /\ (kept = Levels => Depth \in there)
  BY ArchiveAssumption DEF Levels
<1>3. made' = there /\ kept' = there /\ disk' = [n \in Names |-> {cache'[n]}] /\ ProcessGone
  BY <1>1
<1>4. /\ \A n \in Names : cache'[n] = "absent" \/ (Depth \in there /\ cache'[n] \in disk[n])
      /\ Depth \in there => \A n \in Names : cache'[n] \in disk[n]
      /\ DOMAIN cache' = Names /\ cache' = [n \in Names |-> cache'[n]]
  <2>1. CASE Depth \in there
    <3>1. PICK found \in [doubtful -> UNION {disk[n] : n \in doubtful}] :
            /\ \A n \in doubtful : found[n] \in disk[n]
            /\ cache' = [n \in Names |-> IF n \in doubtful THEN found[n] ELSE cache[n]]
      BY <1>1, <2>1
    <3>2. \A n \in Names : cache'[n] \in disk[n]
      BY <3>1 DEF ArchiveTypeOK
    <3> QED BY <3>1, <3>2, <2>1
  <2>2. CASE Depth \notin there
    BY <1>1, <2>2
  <2> QED BY <2>1, <2>2
<1> HIDE DEF there, doubtful
<1>5. StorageOK'
  <2>1. \A n \in Names : cache'[n] \in Contents \cup {"absent"}
    BY <1>4 DEF ArchiveTypeOK
  <2>2. cache' \in [Names -> Contents \cup {"absent"}]
    BY <2>1, <1>4
  <2> QED BY <2>1, <2>2, <1>2, <1>3 DEF StorageOK
<1>6. \A n \in Names : disk'[n] = {cache'[n]}
  BY <1>3
<1>7. EvidenceWhole'
  <2>1. \A f \in Files \ altered : cache'[Copy(f)] \in {"absent", "whole"}
    BY <1>4, NamesDiffer DEF EvidenceWhole
  <2> QED BY <2>1, <1>3, <1>6, NamesDiffer DEF EvidenceWhole, Copy, ProcessGone
<1>8. (\E n \in Names : cache'[n] # "absent") => made' = Levels
  BY <1>2, <1>3, <1>4
<1>9. Safe \subseteq Safe'
  <2> SUFFICES ASSUME NEW f \in Files, disk[Copy(f)] = {"whole"}, kept = Levels
               PROVE  disk'[Copy(f)] = {"whole"} /\ kept' = Levels
    BY DEF Safe, Copy, Levels, Files
  <2> QED BY <1>2, <1>3, <1>4, <1>6, NamesDiffer
<1> QED BY <1>3, <1>5, <1>7, <1>8, <1>9, ProcessGoneStep

\* The next process begins with the first file that has not failed.
LEMMA RestartStep == ArchiveInv /\ Restart => ArchiveInv'
<1> SUFFICES ASSUME ArchiveInv, Restart PROVE ArchiveInv'
  OBVIOUS
<1> USE DEF ArchiveInv, steady, storage
<1>1. /\ pc = "down" /\ UNCHANGED <<steady, storage, rows, level, sequence, faulted>>
      /\ pc' \in {"look", "done"} /\ file' \in Files
      /\ job' \in {"collecting", "attention", "collected"}
  BY DEF Restart, ArchiveTypeOK
<1>2. ArchiveTypeOK'
  BY <1>1 DEF ArchiveTypeOK, PcValues, HasTemporary
<1>3. Numbered'
  BY <1>1 DEF Numbered, Files
<1>4. FailedForCause' /\ FailureCaused'
  BY <1>1 DEF FailedForCause, FailureCaused
<1>5. DirectoriesMade' /\ EvidenceWhole'
  BY <1>1 DEF DirectoriesMade, HasTemporary, EvidenceWhole, Copy
<1>6. TemporaryOK' /\ CopyOK' /\ ChainOK'
  BY <1>1 DEF TemporaryOK, CopyOK, ChainOK
<1>7. TemporariesTold'
  BY <1>1 DEF TemporariesTold, HasTemporary
<1> QED BY <1>2, <1>3, <1>4, <1>5, <1>6, <1>7

\* A source may change while it is copied; what was read before may be whole.
LEMMA SourceChangesStep ==
  ASSUME ArchiveInv, NEW f \in Files, SourceChanges(f)
  PROVE  ArchiveInv'
<1> USE DEF ArchiveInv, storage, history
<1>1. PICK s \in {"changed", "gone"} : source' = [source EXCEPT ![f] = s]
  BY DEF SourceChanges
<1>2. UNCHANGED <<storage, rows, job, pc, file, level, sequence, exits, history>>
  BY DEF SourceChanges
<1>3. /\ source' \in [Files -> {"same", "changed", "gone"}]
      /\ \A g \in Files : source[g] # "same" => source'[g] # "same"
  BY <1>1 DEF ArchiveTypeOK
<1>4. ArchiveTypeOK'
  BY <1>2, <1>3 DEF ArchiveTypeOK, HasTemporary
<1>5. Numbered' /\ DirectoriesMade' /\ EvidenceWhole' /\ CopyOK' /\ ChainOK'
  BY <1>2 DEF Numbered, DirectoriesMade, HasTemporary, EvidenceWhole, Copy, CopyOK, ChainOK
<1>6. FailedForCause' /\ FailureCaused'
  BY <1>2, <1>3 DEF FailedForCause, FailureCaused, Caused, ArchiveTypeOK
<1>7. TemporaryOK'
  BY <1>2, <1>3 DEF TemporaryOK, Temporary, ArchiveTypeOK
<1>8. TemporariesTold'
  BY <1>2 DEF TemporariesTold, HasTemporary
<1> QED BY <1>4, <1>5, <1>6, <1>7, <1>8

\* A copy that is altered is no longer safe, and no other changes.
LEMMA CopyAlteredStep ==
  ASSUME ArchiveInv, NEW f \in Files, CopyAltered(f)
  PROVE  ArchiveInv' /\ Safe' = Safe \ {f}
<1> USE DEF ArchiveInv
<1>1. /\ cache[Copy(f)] = "whole" /\ altered' = altered \cup {f} /\ Write(Copy(f), "other")
      /\ UNCHANGED <<source, rows, job, pc, file, level, sequence, exits, left, faulted>>
  BY DEF CopyAltered
<1>2. Copy(f) \in Names /\ StorageOK
  BY NamesDiffer, TypeIsStorage
<1>3. /\ StorageOK' /\ made' = made /\ kept' = kept
      /\ cache'[Copy(f)] = "other" /\ disk'[Copy(f)] = disk[Copy(f)] \cup {"other"}
      /\ \A m \in Names \ {Copy(f)} : cache'[m] = cache[m] /\ disk'[m] = disk[m]
  BY <1>1, <1>2, WriteOne DEF Contents
<1>4. \A g \in Files \ {f} : cache'[Copy(g)] = cache[Copy(g)] /\ disk'[Copy(g)] = disk[Copy(g)]
  BY <1>3, NamesDiffer
<1>5. ArchiveTypeOK'
  BY <1>1, <1>3 DEF ArchiveTypeOK, StorageOK, HasTemporary
<1>6. Numbered' /\ FailedForCause' /\ FailureCaused' /\ ChainOK'
  BY <1>1, <1>3 DEF Numbered, FailedForCause, FailureCaused, Caused, ChainOK
<1>7. DirectoriesMade'
  BY <1>1, <1>2, <1>3 DEF DirectoriesMade, HasTemporary
<1>8. EvidenceWhole'
  BY <1>1, <1>4 DEF EvidenceWhole, Copy
<1>9. CopyOK'
  BY <1>1, <1>4 DEF CopyOK, Copy, ArchiveTypeOK
<1>10. TemporaryOK'
  <2>1. HasTemporary => Temporary \in Names \ {Copy(f)} /\ Temporary' = Temporary
    BY <1>1, TemporaryNamed DEF Temporary
  <2> QED BY <2>1, <1>1, <1>3 DEF TemporaryOK, HasTemporary
<1>11. TemporariesTold'
  BY <1>1, <1>3, NamesDiffer DEF TemporariesTold, HasTemporary
<1>12. Safe' = Safe \ {f}
  <2>1. disk'[Copy(f)] # {"whole"}
    BY <1>3
  <2>2. \A g \in Files : g \in Safe' <=> g \in Safe /\ g # f
    BY <2>1, <1>3, <1>4 DEF Safe, Copy, Levels, Files
  <2> QED BY <2>2 DEF Safe, Files
<1> QED BY <1>5, <1>6, <1>7, <1>8, <1>9, <1>10, <1>11, <1>12

LEMMA ArchiveInitOK == ArchiveInit => ArchiveInv
<1> SUFFICES ASSUME ArchiveInit PROVE ArchiveInv
  OBVIOUS
<1> USE DEF ArchiveInit
<1>1. 1 \in Files /\ 0 \in 0..LastFile /\ 0 \in 0..MaxExits /\ 0 \in 0..Depth
  BY ArchiveAssumption DEF Files
<1>2. \A f \in Files : Copy(f) \in Names
  BY NamesDiffer
<1>3. ArchiveTypeOK
  BY <1>1 DEF ArchiveTypeOK, Contents, PcValues, HasTemporary
<1>4. Numbered /\ FailureCaused /\ FailedForCause
  BY DEF Numbered, FailureCaused, FailedForCause
<1>5. DirectoriesMade /\ EvidenceWhole
  BY <1>2 DEF DirectoriesMade, HasTemporary, EvidenceWhole
<1>6. TemporaryOK /\ CopyOK /\ ChainOK
  BY DEF TemporaryOK, CopyOK, ChainOK
<1>7. TemporariesTold
  BY NamesDiffer DEF TemporariesTold
<1> QED BY <1>3, <1>4, <1>5, <1>6, <1>7 DEF ArchiveInv

LEMMA ArchiveNextOK == ArchiveInv /\ [ArchiveNext]_archiveVars => ArchiveInv'
<1> SUFFICES ASSUME ArchiveInv, [ArchiveNext]_archiveVars PROVE ArchiveInv'
  OBVIOUS
<1>1. CASE UNCHANGED archiveVars
  BY <1>1 DEF archiveVars, ArchiveInv, ArchiveTypeOK, Numbered, DirectoriesMade, EvidenceWhole,
     TemporaryOK, CopyOK, ChainOK, TemporariesTold, FailureCaused, FailedForCause, Caused,
     HasTemporary, Copy, Temporary
<1>2. CASE \E f \in Files : SourceChanges(f) \/ CopyAltered(f)
  BY <1>2, SourceChangesStep, CopyAlteredStep
<1>3. CASE Finished
  BY <1>1, <1>3 DEF Finished
<1> QED BY <1>1, <1>2, <1>3, LookForCopyStep, SyncFoundStep, MakeDirectoriesStep,
     OpenTemporaryStep, CopyAllStep, VerifyTemporaryStep, SyncTemporaryStep, RenameStep,
     SyncChainStep, CallFailsStep, MarkFileStep, MarkConflictStep, KilledStep, PowerFailsStep,
     RestartStep DEF ArchiveNext

\* The invariant holds in every state of every archive.
THEOREM ArchiveInvariance == ArchiveSpec => []ArchiveInv
<1>1. ArchiveInit => ArchiveInv
  BY ArchiveInitOK
<1>2. ArchiveInv /\ [ArchiveNext]_archiveVars => ArchiveInv'
  BY ArchiveNextOK
<1> QED BY <1>1, <1>2, PTL DEF ArchiveSpec

\* The types of the archive's state; a process never runs out of numbers for its
\* temporaries, so none has the name of a copy.
THEOREM ArchiveTypeCorrect == ArchiveSpec => []ArchiveTypeOK
<1>1. ArchiveInv => ArchiveTypeOK
  BY DEF ArchiveInv
<1> QED BY <1>1, ArchiveInvariance, PTL

\* The name a manifest gives never has a part of a file, whatever was
\* interrupted when: archive() verifies and syncs before it renames.
THEOREM EvidenceIsWhole == ArchiveSpec => []EvidenceWhole
<1>1. ArchiveInv => EvidenceWhole
  BY DEF ArchiveInv
<1> QED BY <1>1, ArchiveInvariance, PTL

\* No file is reported as failed without a cause in the world: its source, a
\* system call, or a temporary an earlier process has left.
THEOREM FailuresHaveCause == ArchiveSpec => []FailedForCause
<1>1. ArchiveInv => FailedForCause
  BY DEF ArchiveInv
<1> QED BY <1>1, ArchiveInvariance, PTL

-----------------------------------------------------------------------------
(* The archive implements Evidence.                                        *)

EvidenceNext ==
  Promise!Store \/ \E f \in Files : Promise!Record(f) \/ Promise!Withdraw(f) \/ Promise!Damage(f)
Recorded == {f \in Files : rows[f] = "archived"}

LEMMA PromiseInit == ArchiveInit => Promise!EvidenceInit
<1> SUFFICES ASSUME ArchiveInit PROVE Safe = {} /\ Recorded = {} /\ altered = {}
  BY DEF Promise!EvidenceInit, Recorded
<1>1. \A f \in Files : disk[Copy(f)] = {"absent"} /\ rows[f] = "planned"
  BY NamesDiffer DEF ArchiveInit
<1> QED BY <1>1 DEF ArchiveInit, Safe, Recorded

\* A step that marks no file and alters no copy stores, or changes nothing.
LEMMA StoreOrNothing ==
  ASSUME Safe \subseteq Safe', UNCHANGED <<rows, altered>>
  PROVE  Promise!Store
<1>1. Safe' \in SUBSET Files
  BY DEF Safe, Files
<1> QED BY <1>1 DEF Promise!Store

\* At "mark" the copy is safe, or somebody has altered it since.
LEMMA MarkFilePromise == ArchiveInv /\ MarkFile => EvidenceNext
<1> SUFFICES ASSUME ArchiveInv, MarkFile PROVE EvidenceNext
  OBVIOUS
<1> PICK f \in Files : f = file
  BY DEF ArchiveInv, ArchiveTypeOK
<1>1. /\ pc \in {"mark", "failed"}
      /\ rows \in [Files -> {"planned", "archived", "failed"}]
      /\ rows' = [rows EXCEPT ![f] = IF pc = "mark" THEN "archived" ELSE "failed"]
      /\ UNCHANGED <<disk, kept, altered>>
  BY DEF MarkFile, steady, storage, ArchiveInv, ArchiveTypeOK
<1>2. Safe' = Safe
  BY <1>1 DEF Safe, Copy
<1>3. CASE pc = "mark"
  <2>1. Recorded' = Recorded \cup {f}
    BY <1>1, <1>3 DEF Recorded
  <2>2. f \in Safe \/ f \in altered
    BY <1>1, <1>3 DEF ArchiveInv, CopyOK, ChainOK, Safe
  <2>3. Promise!Record(f)
    BY <2>1, <2>2, <1>1, <1>2 DEF Promise!Record, Recorded
  <2> QED BY <2>3, <1>1 DEF EvidenceNext
<1>4. CASE pc = "failed"
  <2>1. Recorded' = Recorded \ {f}
    BY <1>1, <1>4 DEF Recorded
  <2>2. Promise!Withdraw(f)
    BY <2>1, <1>1, <1>2 DEF Promise!Withdraw, Recorded
  <2> QED BY <2>2, <1>1 DEF EvidenceNext
<1> QED BY <1>1, <1>3, <1>4

\* Every step of the archive is a step the promise allows, or none.
LEMMA PromiseStep ==
  ArchiveInv /\ [ArchiveNext]_archiveVars => [EvidenceNext]_(Promise!evidenceVars)
<1> SUFFICES ASSUME ArchiveInv, [ArchiveNext]_archiveVars
             PROVE  EvidenceNext \/ UNCHANGED <<Safe, Recorded, altered>>
  BY DEF Promise!evidenceVars, Recorded
<1>1. CASE UNCHANGED <<disk, kept, rows, altered>>
  BY <1>1 DEF Safe, Recorded, Copy
<1>2. CASE Safe \subseteq Safe' /\ UNCHANGED <<rows, altered>>
  BY <1>2, StoreOrNothing DEF EvidenceNext
<1>3. CASE LookForCopy \/ MarkConflict \/ Restart \/ Finished \/ UNCHANGED archiveVars
  BY <1>1, <1>3 DEF LookForCopy, GoTo, MarkConflict, Restart, Finished, archiveVars, steady, storage
<1>4. CASE SyncFound \/ MakeDirectories \/ Rename \/ SyncChain \/ PowerFails
  <2>1. UNCHANGED <<rows, altered>>
    BY <1>4 DEF SyncFound, MakeDirectories, Rename, SyncChain, GoTo, PowerFails, ProcessGone, steady
  <2> QED BY <2>1, <1>2, <1>4, SyncFoundStep, MakeDirectoriesStep, RenameStep, SyncChainStep,
       PowerFailsStep
<1>5. CASE OpenTemporary \/ CopyAll \/ VerifyTemporary \/ SyncTemporary \/ CallFails \/ Killed
  <2>1. UNCHANGED <<rows, altered>>
    BY <1>5 DEF OpenTemporary, CopyAll, VerifyTemporary, SyncTemporary, CallFails, GoTo, Killed,
       ProcessGone, steady
  <2> QED BY <2>1, <1>2, <1>5, OpenTemporaryStep, CopyAllStep, VerifyTemporaryStep,
       SyncTemporaryStep, CallFailsStep, KilledStep
<1>6. CASE MarkFile
  BY <1>6, MarkFilePromise
<1>7. ASSUME NEW f \in Files, SourceChanges(f)
      PROVE  EvidenceNext \/ UNCHANGED <<Safe, Recorded, altered>>
  BY <1>1, <1>7 DEF SourceChanges, storage, history
<1>8. ASSUME NEW f \in Files, CopyAltered(f)
      PROVE  EvidenceNext \/ UNCHANGED <<Safe, Recorded, altered>>
  <2>1. Safe' = Safe \ {f} /\ altered' = altered \cup {f} /\ rows' = rows
    BY <1>8, CopyAlteredStep DEF CopyAltered
  <2>2. Promise!Damage(f)
    BY <2>1 DEF Promise!Damage
  <2> QED BY <2>2 DEF EvidenceNext
<1> QED BY <1>3, <1>4, <1>5, <1>6, <1>7, <1>8 DEF ArchiveNext

\* What is recorded as archived has a copy that neither a kill nor a loss of
\* power takes away: the archive loop keeps the promise of Evidence.
THEOREM ArchiveKeepsPromise == ArchiveSpec => EvidenceKept
<1>1. ArchiveInit => Promise!EvidenceInit
  BY PromiseInit
<1>2. ArchiveInv /\ [ArchiveNext]_archiveVars => [EvidenceNext]_(Promise!evidenceVars)
  BY PromiseStep
<1> QED BY <1>1, <1>2, ArchiveInvariance, PTL
     DEF ArchiveSpec, EvidenceKept, Promise!EvidenceSpec, EvidenceNext
================================================================================
