---------------------------- MODULE WritableFile ----------------------------
(***************************************************************************)
(* PosixWritableFile of db/Env_posix.cpp and the operations of PosixEnv    *)
(* that create, rename and delete files, on one directory: what is in the  *)
(* buffer of stdio, what the kernel has and what is on disk, when calls    *)
(* fail, the process dies or the power fails.                              *)
(*                                                                         *)
(* Data are counted in records, of which an Append writes some.  A file is *)
(* an inode; what it holds is a number of records since it was created or  *)
(* last truncated, which begins a new generation of its contents.  A file is written by    *)
(* one WritableFile at a time.                                             *)
(*                                                                         *)
(* stdio, the kernel and the disk are external: a buffer may be written    *)
(* out during any Append, a page or a directory entry at any time; fsync() *)
(* that succeeds leaves on disk what the kernel had.                       *)
(***************************************************************************)
EXTENDS Naturals

CONSTANTS
  Writers,      (* threads, each with at most one WritableFile             *)
  Names,        (* names in the directory                                  *)
  Manifests,    (* those that begin with MANIFEST                          *)
  Inodes,
  None,
  MaxRecords,   (* bound of the model: records in a file                   *)
  MaxGen        (* bound of the model: truncations of a file               *)

ASSUME WritableFileAssumption ==
  /\ Manifests \subseteq Names
  /\ None \notin Names \cup Inodes
  /\ MaxRecords \in Nat
  /\ MaxGen \in Nat

VARIABLES
  entry,        (* the directory in the kernel: a name's inode, or None    *)
  durable,      (* the directory on disk                                   *)
  cache,        (* the contents of each file in the kernel                 *)
  disk,         (* its contents on disk                                    *)
  at,           (* where each writer is                                    *)
  name,         (* filename_, or None                                      *)
  file,         (* the file of file_, or None where file_ is NULL          *)
  buffer,       (* how many records stdio still has                        *)
  answer        (* what each writer's last call returned                   *)

(* What the calls that returned OK have promised; no code reads these.     *)
VARIABLES
  given,        (* the length the writer's file has if no call failed      *)
  failed,       (* some call on the writer's file has failed               *)
  flushed,      (* the contents of each file at its last Flush or Close    *)
  synced,       (* the contents of each file at its last Sync              *)
  listed,       (* the directory when the writer's Sync began              *)
  kept          (* the directory a Sync of a manifest has promised         *)

fileVars  == <<cache, disk>>
promises  == <<given, failed, flushed, synced, listed, kept>>
vars == <<entry, durable, cache, disk, at, name, file, buffer, answer, promises>>

Contents(g, n) == [gen |-> g, len |-> n]
Nothing == Contents(0, 0)
NoNames == [n \in Names |-> None]

Init ==
  /\ entry = NoNames
  /\ durable = NoNames
  /\ cache = [i \in Inodes |-> Nothing]
  /\ disk = [i \in Inodes |-> Nothing]
  /\ at = [w \in Writers |-> "idle"]
  /\ name = [w \in Writers |-> None]
  /\ file = [w \in Writers |-> None]
  /\ buffer = [w \in Writers |-> 0]
  /\ answer = [w \in Writers |-> "ok"]
  /\ given = [w \in Writers |-> 0]
  /\ failed = [w \in Writers |-> FALSE]
  /\ flushed = [i \in Inodes |-> Nothing]
  /\ synced = [i \in Inodes |-> Nothing]
  /\ listed = [w \in Writers |-> NoNames]
  /\ kept = NoNames

-----------------------------------------------------------------------------
Go(w, from, to) == at[w] = from /\ at' = [at EXCEPT ![w] = to]

Answer(w, a) == answer' = [answer EXCEPT ![w] = a]

(* k of the records of w's buffer reach the kernel.                        *)
WriteOut(w, k) == cache' = [cache EXCEPT ![file[w]].len = @ + k]

(* The call fails: an unknown part of the pending records is written, and  *)
(* the rest dropped or kept for later.                                     *)
Lose(w, pending) ==
  /\ \E k \in 0..pending : WriteOut(w, k) /\ \E b \in 0..(pending - k) :
       buffer' = [buffer EXCEPT ![w] = b]
  /\ failed' = [failed EXCEPT ![w] = TRUE]
  /\ Answer(w, "error")

(* All of w's buffer reaches the kernel.                                   *)
WriteAll(w) ==
  /\ WriteOut(w, buffer[w])
  /\ buffer' = [buffer EXCEPT ![w] = 0]

(* A call that has flushed all it was given, or on a file that has failed. *)
Promise(w, p) ==
  IF failed[w] THEN p
  ELSE [p EXCEPT ![file[w]] = Contents(cache[file[w]].gen, given[w])]

(* The entry of n changes: nothing is promised about it any more.          *)
Rebind(bindings) ==
  /\ entry' = [n \in Names |-> IF n \in DOMAIN bindings THEN bindings[n] ELSE entry[n]]
  /\ kept' = [n \in Names |-> IF n \in DOMAIN bindings THEN None ELSE kept[n]]
  /\ listed' = [w \in Writers |->
       [n \in Names |-> IF n \in DOMAIN bindings THEN None ELSE listed[w][n]]]

-----------------------------------------------------------------------------
(* Mutants of the definitions below, each a plausible slip in the code.    *)

(* Flush returns OK without a fflush().                                    *)
FlushNothing(w) ==
  /\ Go(w, "open", "open")
  /\ flushed' = Promise(w, flushed)
  /\ Answer(w, "ok")
  /\ UNCHANGED <<entry, durable, cache, disk, name, file, buffer, given, failed, synced,
                 listed, kept>>

(* Sync calls fsync() without a fflush() before it.                        *)
SyncUnflushed(w) ==
  /\ Go(w, "flush", "fsync")
  /\ UNCHANGED <<entry, durable, cache, disk, name, file, buffer, answer, promises>>

(* SyncDirIfManifest opens the directory and does not fsync() it.          *)
SyncDirNot(w) ==
  /\ name[w] \in Manifests
  /\ Go(w, "open", "flush")
  /\ listed' = [listed EXCEPT ![w] = entry]
  /\ UNCHANGED <<entry, durable, cache, disk, name, file, buffer, answer, given, failed,
                 flushed, synced, kept>>

-----------------------------------------------------------------------------
(* NewWritableFile and NewAppendableFile.                                  *)
Unused(i) ==
  /\ \A n \in Names : entry[n] # i /\ durable[n] # i
  /\ \A w \in Writers : file[w] # i

Opened(w, n, i, len) ==
  /\ Go(w, "idle", "open")
  /\ name' = [name EXCEPT ![w] = n]
  /\ file' = [file EXCEPT ![w] = i]
  /\ buffer' = [buffer EXCEPT ![w] = 0]
  /\ given' = [given EXCEPT ![w] = len]
  /\ failed' = [failed EXCEPT ![w] = FALSE]
  /\ Answer(w, "ok")
  /\ UNCHANGED durable

(* fopen() makes a new file ...                                            *)
Create(w, n) ==
  /\ entry[n] = None
  /\ \E i \in Inodes :
       /\ Unused(i)
       /\ Rebind([m \in {n} |-> i])
       /\ Opened(w, n, i, 0)
       /\ cache' = [cache EXCEPT ![i] = Nothing]
       /\ disk' = [disk EXCEPT ![i] = Nothing]
       /\ flushed' = [flushed EXCEPT ![i] = Nothing]
       /\ synced' = [synced EXCEPT ![i] = Nothing]

NobodyWrites(i) == \A w \in Writers : file[w] # i

(* ... with "w", truncates the one there is ...                            *)
Truncate(w, n) ==
  LET i == entry[n] empty == Contents(cache[i].gen + 1, 0) IN
  /\ i # None
  /\ NobodyWrites(i)
  /\ cache[i].gen < MaxGen
  /\ Opened(w, n, i, 0)
  /\ cache' = [cache EXCEPT ![i] = empty]
  /\ flushed' = [flushed EXCEPT ![i] = empty]
  /\ synced' = [synced EXCEPT ![i] = Nothing]
  /\ UNCHANGED <<entry, disk, listed, kept>>

(* ... with "a", keeps what it holds ...                                   *)
Extend(w, n) ==
  LET i == entry[n] IN
  /\ i # None
  /\ NobodyWrites(i)
  /\ Opened(w, n, i, cache[i].len)
  /\ UNCHANGED <<entry, cache, disk, flushed, synced, listed, kept>>

(* ... or fails.                                                           *)
OpenFails(w) ==
  /\ Go(w, "idle", "idle")
  /\ Answer(w, "error")
  /\ UNCHANGED <<entry, durable, cache, disk, name, file, buffer, promises>>

NewWritableFile(w, n) == Create(w, n) \/ Truncate(w, n) \/ OpenFails(w)

NewAppendableFile(w, n) == Create(w, n) \/ Extend(w, n) \/ OpenFails(w)

-----------------------------------------------------------------------------
(* Append: fwrite() of m records.                                          *)
AppendRecords(w, m) ==
  /\ Go(w, "open", "open")
  /\ given[w] + m <= MaxRecords /\ cache[file[w]].len + buffer[w] + m <= MaxRecords
  /\ \/ /\ \E k \in 0..(buffer[w] + m) :
             WriteOut(w, k) /\ buffer' = [buffer EXCEPT ![w] = @ + m - k]
        /\ given' = [given EXCEPT ![w] = @ + m]
        /\ Answer(w, "ok")
        /\ UNCHANGED failed
     \/ Lose(w, buffer[w] + m) /\ UNCHANGED given
  /\ UNCHANGED <<entry, durable, disk, name, file, flushed, synced, listed, kept>>

(* Flush: fflush().                                                        *)
Flush(w) ==
  /\ Go(w, "open", "open")
  /\ \/ /\ WriteAll(w)
        /\ flushed' = Promise(w, flushed)
        /\ Answer(w, "ok")
        /\ UNCHANGED failed
     \/ Lose(w, buffer[w]) /\ UNCHANGED flushed
  /\ UNCHANGED <<entry, durable, disk, name, file, given, synced, listed, kept>>

(* Close, and the destructor of a file that is still open: fclose().       *)
Close(w) ==
  /\ Go(w, "open", "idle")
  /\ \/ /\ WriteOut(w, buffer[w])
        /\ flushed' = Promise(w, flushed)
        /\ Answer(w, "ok")
     \/ /\ \E k \in 0..buffer[w] : WriteOut(w, k)
        /\ Answer(w, "error")
        /\ UNCHANGED flushed
  /\ name' = [name EXCEPT ![w] = None]
  /\ file' = [file EXCEPT ![w] = None]
  /\ buffer' = [buffer EXCEPT ![w] = 0]
  /\ given' = [given EXCEPT ![w] = 0]
  /\ failed' = [failed EXCEPT ![w] = FALSE]
  /\ listed' = [listed EXCEPT ![w] = NoNames]
  /\ UNCHANGED <<entry, durable, disk, synced, kept>>

-----------------------------------------------------------------------------
(* Sync: SyncDirIfManifest(), fflush(), fsync().                           *)
SyncDir(w) ==
  /\ name[w] \in Manifests
  /\ \/ /\ Go(w, "open", "flush")
        /\ durable' = entry
        /\ listed' = [listed EXCEPT ![w] = entry]
        /\ UNCHANGED answer
     \/ /\ Go(w, "open", "open")
        /\ Answer(w, "error")
        /\ UNCHANGED <<durable, listed>>
  /\ UNCHANGED <<entry, cache, disk, name, file, buffer, given, failed, flushed, synced, kept>>

SkipDir(w) ==
  /\ name[w] \notin Manifests
  /\ Go(w, "open", "flush")
  /\ UNCHANGED <<entry, durable, cache, disk, name, file, buffer, answer, promises>>

SyncFlush(w) ==
  /\ \/ Go(w, "flush", "fsync") /\ WriteAll(w) /\ UNCHANGED <<answer, failed>>
     \/ Go(w, "flush", "open") /\ Lose(w, buffer[w])
  /\ UNCHANGED <<entry, durable, disk, name, file, given, flushed, synced, listed, kept>>

SyncFile(w) ==
  LET i == file[w] IN
  /\ Go(w, "fsync", "open")
  /\ \/ /\ disk' = [disk EXCEPT ![i] = cache[i]]
        /\ flushed' = Promise(w, flushed)
        /\ synced' = Promise(w, synced)
        /\ kept' = [n \in Names |-> IF listed[w][n] # None THEN listed[w][n] ELSE kept[n]]
        /\ Answer(w, "ok")
        /\ UNCHANGED failed
     \/ /\ failed' = [failed EXCEPT ![w] = TRUE]
        /\ Answer(w, "error")
        /\ UNCHANGED <<disk, flushed, synced, kept>>
  /\ listed' = [listed EXCEPT ![w] = NoNames]
  /\ UNCHANGED <<entry, durable, cache, name, file, buffer, given>>

-----------------------------------------------------------------------------
(* DeleteFile and RenameFile; a call that fails changes nothing.           *)
DeleteFile(n) ==
  /\ entry[n] # None
  /\ Rebind([m \in {n} |-> None])
  /\ UNCHANGED <<durable, cache, disk, at, name, file, buffer, answer, given, failed,
                 flushed, synced>>

RenameFile(n, m) ==
  /\ n # m
  /\ entry[n] # None
  /\ Rebind([l \in {n, m} |-> IF l = n THEN None ELSE entry[n]])
  /\ UNCHANGED <<durable, cache, disk, at, name, file, buffer, answer, given, failed,
                 flushed, synced>>

-----------------------------------------------------------------------------
(* The kernel writes back what it likes and when it likes.                 *)
WriteBackFile(i) ==
  /\ disk' = [disk EXCEPT ![i] = cache[i]]
  /\ UNCHANGED <<entry, durable, cache, at, name, file, buffer, answer, promises>>

WriteBackEntry(n) ==
  /\ durable' = [durable EXCEPT ![n] = entry[n]]
  /\ UNCHANGED <<entry, cache, disk, at, name, file, buffer, answer, promises>>

(* The writers are gone, and what their buffers held.                      *)
Restart ==
  /\ at' = [w \in Writers |-> "idle"]
  /\ name' = [w \in Writers |-> None]
  /\ file' = [w \in Writers |-> None]
  /\ buffer' = [w \in Writers |-> 0]
  /\ answer' = [w \in Writers |-> "ok"]
  /\ given' = [w \in Writers |-> 0]
  /\ failed' = [w \in Writers |-> FALSE]
  /\ listed' = [w \in Writers |-> NoNames]

ProcessDies ==
  /\ Restart
  /\ UNCHANGED <<entry, durable, cache, disk, flushed, synced, kept>>

(* What is not on disk is gone, too.                                       *)
PowerFails ==
  /\ Restart
  /\ entry' = durable
  /\ cache' = disk
  /\ flushed' = synced
  /\ UNCHANGED <<durable, disk, synced, kept>>

-----------------------------------------------------------------------------
Call(w) ==
  \/ \E n \in Names : NewWritableFile(w, n) \/ NewAppendableFile(w, n)
  \/ \E m \in 1..MaxRecords : AppendRecords(w, m)
  \/ Flush(w) \/ Close(w)
  \/ SyncDir(w) \/ SkipDir(w) \/ SyncFlush(w) \/ SyncFile(w)

External ==
  \/ \E i \in Inodes : WriteBackFile(i)
  \/ \E n \in Names : WriteBackEntry(n)
  \/ ProcessDies
  \/ PowerFails

Next ==
  \/ \E w \in Writers : Call(w)
  \/ \E n \in Names : DeleteFile(n) \/ \E m \in Names : RenameFile(n, m)
  \/ External

Spec == Init /\ [][Next]_vars

-----------------------------------------------------------------------------
(* Properties.                                                             *)

Content == [gen : Nat, len : Nat]
Directory == [Names -> Inodes \cup {None}]

(* The directory, the files and the writers keep their shapes, and file_   *)
(* is NULL exactly when no file is open: Close and then the destructor     *)
(* never close it twice.                                                   *)
TypeOK ==
  /\ \A w \in Writers : file[w] = None <=> at[w] = "idle"
  /\ entry \in Directory /\ durable \in Directory /\ kept \in Directory
  /\ cache \in [Inodes -> Content] /\ disk \in [Inodes -> Content]
  /\ flushed \in [Inodes -> Content] /\ synced \in [Inodes -> Content]
  /\ at \in [Writers -> {"idle", "open", "flush", "fsync"}]
  /\ name \in [Writers -> Names \cup {None}]
  /\ file \in [Writers -> Inodes \cup {None}]
  /\ buffer \in [Writers -> Nat]
  /\ given \in [Writers -> Nat]
  /\ failed \in [Writers -> BOOLEAN]
  /\ answer \in [Writers -> {"ok", "error"}]
  /\ listed \in [Writers -> Directory]

(* c holds at least what is promised by p.                                 *)
Holds(c, p) == p.len = 0 \/ (c.gen = p.gen /\ c.len >= p.len)

(* What a Flush or a Close that returned OK wrote outlives the process,    *)
(* provided that no call on the file had failed.                           *)
FlushedInKernel == \A i \in Inodes : Holds(cache[i], flushed[i])

(* Every record appended before a Sync that returned OK is on disk, across *)
(* any later crash, provided that no call on the file had failed before:   *)
(* nothing of it was left in the buffer or the cache.  A failed call may   *)
(* have lost records, and a Sync that returns OK afterwards promises       *)
(* nothing more; what was promised before stays on disk all the same.      *)
SyncedOnDisk == \A i \in Inodes : Holds(disk[i], synced[i])

(* "Ensure new files referred to by the manifest are in the filesystem"    *)
(* (Env_posix.cpp:246): after a Sync of a manifest that returned OK, every *)
(* file that was in the directory when it was called, and was not deleted  *)
(* or renamed since, is still there after the power fails.                 *)
ManifestKeepsFiles == \A n \in Names : kept[n] # None => durable[n] = kept[n]
=============================================================================
