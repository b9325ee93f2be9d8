------------------------ MODULE WritableFileProofs -------------------------
(***************************************************************************)
(* Proofs about WritableFile, about the routines of WriteString that use   *)
(* it, and those of ReadString that run beside them, for any writers,      *)
(* readers, names, files, strings, fragments and bounds.                   *)
(***************************************************************************)
EXTENDS ReadString, TLAPS

(* Parts of TypeOK.                                                        *)
NamesOK ==
  /\ entry \in Directory /\ durable \in Directory /\ kept \in Directory
  /\ name \in [Writers -> Names \cup {None}]
  /\ listed \in [Writers -> Directory]

FilesOK ==
  /\ cache \in [Inodes -> Content] /\ disk \in [Inodes -> Content]
  /\ flushed \in [Inodes -> Content] /\ synced \in [Inodes -> Content]

WritersOK ==
  /\ at \in [Writers -> {"idle", "open", "flush", "fsync"}]
  /\ file \in [Writers -> Inodes \cup {None}]
  /\ buffer \in [Writers -> Nat]
  /\ given \in [Writers -> Nat]
  /\ failed \in [Writers -> BOOLEAN]
  /\ answer \in [Writers -> {"ok", "error"}]

NullOK == \A w \in Writers : file[w] = None <=> at[w] = "idle"

Typed == NamesOK /\ FilesOK /\ WritersOK /\ NullOK

(* No file is open twice.                                                  *)
OneWriter == \A w, v \in Writers : file[w] # None /\ file[w] = file[v] => w = v

(* What a file has been given is in the kernel or still in the buffer.     *)
Sums ==
  \A w \in Writers :
    file[w] # None /\ failed[w] = FALSE =>
      cache[file[w]].len + buffer[w] = given[w]

(* What Sync has flushed is no longer in the buffer.                       *)
FlushedFirst == \A w \in Writers : at[w] = "fsync" => buffer[w] = 0

(* Both promises hold of the kernel, the stronger one of the disk too.     *)
PromisesKept ==
  \A i \in Inodes :
    /\ Holds(cache[i], flushed[i])
    /\ Holds(cache[i], synced[i])
    /\ Holds(disk[i], synced[i])

IInv == Typed /\ OneWriter /\ Sums /\ FlushedFirst /\ PromisesKept

(* The parts are the whole.                                                *)
LEMMA TypedIs == TypeOK <=> Typed
BY DEF TypeOK, Typed, NamesOK, FilesOK, WritersOK, NullOK

(* Nothing has been written.                                               *)
LEMMA InitIInv == Init => IInv
<1> SUFFICES ASSUME Init PROVE IInv
  OBVIOUS
<1>1. NamesOK
  BY DEF Init, NamesOK, Directory, NoNames
<1>2. FilesOK
  BY DEF Init, FilesOK, Content, Nothing, Contents
<1>3. WritersOK /\ NullOK
  BY DEF Init, WritersOK, NullOK
<1>4. OneWriter /\ Sums /\ FlushedFirst
  BY DEF Init, OneWriter, Sums, FlushedFirst
<1>5. PromisesKept
  BY DEF Init, PromisesKept, Holds, Nothing, Contents
<1>6. QED
  BY <1>1, <1>2, <1>3, <1>4, <1>5 DEF IInv, Typed

-----------------------------------------------------------------------------
(* k records reach file i in the kernel.                                   *)
LEMMA Grown ==
  ASSUME NEW c \in [Inodes -> Content], NEW i \in Inodes, NEW k \in Nat
  PROVE  LET d == [c EXCEPT ![i].len = @ + k] IN
         /\ d \in [Inodes -> Content]
         /\ d[i].gen = c[i].gen /\ d[i].len = c[i].len + k
         /\ \A j \in Inodes : j # i => d[j] = c[j]
BY DEF Content

(* What a file holds it still holds when it has grown.                     *)
LEMMA HoldsGrown ==
  ASSUME NEW c \in Content, NEW d \in Content, NEW p \in Content,
         d.gen = c.gen, d.len >= c.len, Holds(c, p)
  PROVE  Holds(d, p)
BY DEF Content, Holds

(* The writer w writes out k records and keeps the rest, unless a call has *)
(* failed; if it has flushed them all it may promise that it did.          *)
LEMMA Wrote ==
  ASSUME IInv, NEW w \in Writers, file[w] # None, NEW k \in Nat, WriteOut(w, k),
         WritersOK',
         \A v \in Writers : v # w =>
           at'[v] = at[v] /\ buffer'[v] = buffer[v] /\ given'[v] = given[v]
             /\ failed'[v] = failed[v],
         failed'[w] = FALSE =>
           failed[w] = FALSE /\ k + buffer'[w] + given[w] = given'[w] + buffer[w],
         at'[w] # "idle", at'[w] = "fsync" => buffer'[w] = 0,
         UNCHANGED <<entry, durable, kept, name, listed, file, disk, synced>>,
         \/ flushed' = flushed
         \/ /\ buffer'[w] = 0 /\ failed'[w] = FALSE
            /\ flushed' = [flushed EXCEPT ![file[w]] =
                             Contents(cache[file[w]].gen, given'[w])]
  PROVE  IInv'
<1> DEFINE i == file[w]
<1>1. Typed /\ OneWriter /\ Sums /\ FlushedFirst /\ PromisesKept
  BY DEF IInv
<1>2. i \in Inodes
  BY <1>1 DEF Typed, WritersOK
<1>3. /\ cache' \in [Inodes -> Content]
      /\ cache'[i].gen = cache[i].gen /\ cache'[i].len = cache[i].len + k
      /\ \A j \in Inodes : j # i => cache'[j] = cache[j]
  BY <1>1, <1>2, Grown DEF WriteOut, Typed, FilesOK
<1>4. /\ cache \in [Inodes -> Content] /\ synced \in [Inodes -> Content]
      /\ flushed \in [Inodes -> Content]
      /\ cache[i].gen \in Nat /\ cache[i].len \in Nat
  BY <1>1, <1>2 DEF Typed, FilesOK, Content
<1>5. flushed' \in [Inodes -> Content]
  BY <1>2, <1>4 DEF Contents, Content, WritersOK
<1>6. NamesOK' /\ FilesOK'
  BY <1>1, <1>3, <1>5 DEF Typed, NamesOK, FilesOK
<1>7. WritersOK' /\ NullOK'
  <2>1. WritersOK /\ NullOK
    BY <1>1 DEF Typed
  <2>2. NullOK'
    BY <2>1, <1>2, WritableFileAssumption DEF NullOK
  <2>3. QED
    BY <2>2
<1>8. OneWriter'
  BY <1>1 DEF OneWriter
<1>9. Sums'
  <2>1. ASSUME NEW v \in Writers, file'[v] # None, failed'[v] = FALSE
        PROVE  cache'[file'[v]].len + buffer'[v] = given'[v]
    <3>1. CASE v = w
      <4>1. failed[w] = FALSE
        BY <2>1, <3>1
      <4>2. cache[i].len + buffer[w] = given[w]
        BY <1>1, <4>1 DEF Sums
      <4>3. /\ buffer[w] \in Nat /\ given[w] \in Nat
            /\ buffer'[w] \in Nat /\ given'[w] \in Nat
        BY <1>1 DEF Typed, WritersOK
      <4>4. cache'[file'[v]].len = cache[i].len + k
        BY <1>3, <3>1
      <4>5. k + buffer'[w] + given[w] = given'[w] + buffer[w]
        BY <2>1, <3>1
      <4>6. QED
        BY <1>4, <3>1, <4>2, <4>3, <4>4, <4>5
    <3>2. CASE v # w
      <4>1. file[v] # i /\ file[v] \in Inodes
        BY <1>1, <2>1, <3>2 DEF OneWriter, Typed, WritersOK
      <4>2. buffer'[v] = buffer[v] /\ given'[v] = given[v] /\ failed[v] = FALSE
        BY <2>1, <3>2
      <4>3. QED
        BY <1>1, <1>3, <2>1, <4>1, <4>2 DEF Sums
    <3>3. QED
      BY <3>1, <3>2
  <2>2. QED
    BY <2>1 DEF Sums
<1>10. FlushedFirst'
  BY <1>1 DEF FlushedFirst, Typed, WritersOK
<1>11. PromisesKept'
  <2>1. ASSUME NEW j \in Inodes
        PROVE  Holds(cache'[j], flushed[j]) /\ Holds(cache'[j], synced[j])
    <3>1. /\ cache[j] \in Content /\ cache'[j] \in Content
          /\ flushed[j] \in Content /\ synced[j] \in Content
      BY <1>3, <1>4
    <3>2. cache'[j].gen = cache[j].gen /\ cache'[j].len >= cache[j].len
      BY <1>3, <1>4, <3>1 DEF Content
    <3>3. Holds(cache[j], flushed[j]) /\ Holds(cache[j], synced[j])
      BY <1>1 DEF PromisesKept
    <3>4. QED
      BY <3>1, <3>2, <3>3, HoldsGrown
  <2>2. ASSUME NEW j \in Inodes PROVE Holds(cache'[j], flushed'[j])
    <3>1. CASE flushed'[j] = flushed[j]
      BY <2>1, <3>1
    <3>2. CASE /\ j = i /\ buffer'[w] = 0 /\ failed'[w] = FALSE
               /\ flushed'[i] = Contents(cache[i].gen, given'[w])
      <4>1. cache[i].len + buffer[w] = given[w] /\ k + 0 + given[w] = given'[w] + buffer[w]
        BY <1>1, <3>2 DEF Sums
      <4>2. buffer[w] \in Nat /\ given[w] \in Nat /\ given'[w] \in Nat
        BY <1>1 DEF Typed, WritersOK
      <4>3. cache'[i].len = given'[w]
        BY <1>3, <1>4, <4>1, <4>2
      <4>4. QED
        BY <1>3, <1>4, <3>2, <4>2, <4>3 DEF Holds, Contents
    <3>3. QED
      BY <1>2, <1>4, <3>1, <3>2
  <2>3. QED
    BY <1>1, <2>1, <2>2 DEF PromisesKept
<1>12. QED
  BY <1>6, <1>7, <1>8, <1>9, <1>10, <1>11 DEF IInv, Typed

-----------------------------------------------------------------------------
(* A call on an open file, which stays open.                               *)
LEMMA StaysOpen ==
  ASSUME Typed, NEW w \in Writers, NEW from \in {"open", "flush", "fsync"},
         NEW to \in {"open", "flush", "fsync"}, Go(w, from, to)
  PROVE  /\ file[w] # None /\ file[w] \in Inodes
         /\ at' \in [Writers -> {"idle", "open", "flush", "fsync"}]
         /\ at'[w] = to /\ \A v \in Writers : v # w => at'[v] = at[v]
<1>1. WritersOK /\ NullOK
  BY DEF Typed
<1>2. at[w] # "idle"
  BY DEF Go
<1>3. file[w] # None /\ file[w] \in Inodes
  BY <1>1, <1>2 DEF WritersOK, NullOK
<1>4. QED
  BY <1>1, <1>3 DEF Go, WritersOK

(* What the members of a writer are.                                       *)
LEMMA Values ==
  ASSUME Typed, NEW w \in Writers
  PROVE  given[w] \in Nat /\ failed[w] \in BOOLEAN /\ buffer[w] \in Nat
BY DEF Typed, WritersOK

(* A call that loses some of the records that are pending.                 *)
LEMMA LoseIInv ==
  ASSUME IInv, NEW w \in Writers, NEW from \in {"open", "flush"}, Go(w, from, "open"),
         NEW pending \in Nat, Lose(w, pending),
         UNCHANGED <<given, entry, durable, kept, name, listed, file, disk, synced, flushed>>
  PROVE  IInv'
<1>1. Typed
  BY DEF IInv
<1>2. PICK k \in 0..pending : WriteOut(w, k) /\ \E b \in 0..(pending - k) :
        buffer' = [buffer EXCEPT ![w] = b]
  BY DEF Lose
<1>3. PICK b \in 0..(pending - k) : buffer' = [buffer EXCEPT ![w] = b]
  BY <1>2
<1>4. k \in Nat /\ b \in Nat
  OBVIOUS
<1>5. /\ file[w] # None /\ at' \in [Writers -> {"idle", "open", "flush", "fsync"}]
      /\ at'[w] = "open" /\ \A v \in Writers : v # w => at'[v] = at[v]
  BY <1>1, StaysOpen
<1>6. WritersOK'
  BY <1>1, <1>3, <1>4, <1>5 DEF Typed, WritersOK, Lose, Answer
<1>7. /\ failed'[w] = TRUE
      /\ \A v \in Writers : v # w =>
           buffer'[v] = buffer[v] /\ given'[v] = given[v] /\ failed'[v] = failed[v]
  BY <1>1, <1>3 DEF Typed, WritersOK, Lose
<1>8. QED
  BY <1>2, <1>4, <1>5, <1>6, <1>7, Wrote

(* A call that flushes everything, and may promise so.                     *)
LEMMA FlushIInv ==
  ASSUME IInv, NEW w \in Writers, NEW from \in {"open", "flush"},
         NEW to \in {"open", "fsync"}, Go(w, from, to), WriteAll(w),
         flushed' = flushed \/ flushed' = Promise(w, flushed),
         answer' = answer \/ Answer(w, "ok"),
         UNCHANGED <<given, failed, entry, durable, kept, name, listed, file, disk, synced>>
  PROVE  IInv'
<1>1. Typed
  BY DEF IInv
<1>2. /\ file[w] # None /\ at' \in [Writers -> {"idle", "open", "flush", "fsync"}]
      /\ at'[w] = to /\ \A v \in Writers : v # w => at'[v] = at[v]
  BY <1>1, StaysOpen
<1>3. given[w] \in Nat /\ failed[w] \in BOOLEAN /\ buffer[w] \in Nat
  BY <1>1, Values
<1>4. WriteOut(w, buffer[w]) /\ buffer' = [buffer EXCEPT ![w] = 0]
  BY DEF WriteAll
<1>5. WritersOK'
  BY <1>1, <1>2, <1>4 DEF Typed, WritersOK, Answer
<1>6. buffer'[w] = 0 /\ \A v \in Writers : v # w => buffer'[v] = buffer[v]
  BY <1>1, <1>4 DEF Typed, WritersOK
<1>7. \/ flushed' = flushed
      \/ /\ failed'[w] = FALSE
         /\ flushed' = [flushed EXCEPT ![file[w]] = Contents(cache[file[w]].gen, given'[w])]
  BY <1>3 DEF Promise
<1>8. buffer[w] + buffer'[w] + given[w] = given'[w] + buffer[w]
  BY <1>3, <1>6
<1>9. QED
  BY <1>2, <1>3, <1>4, <1>5, <1>6, <1>7, <1>8, Wrote

(* Append puts m records behind the others.                                *)
LEMMA AppendIInv ==
  ASSUME IInv, NEW w \in Writers, NEW m \in Nat, AppendRecords(w, m) PROVE IInv'
<1>1. Typed
  BY DEF IInv
<1>2. given[w] \in Nat /\ failed[w] \in BOOLEAN /\ buffer[w] \in Nat
  BY <1>1, Values
<1>3. CASE Lose(w, buffer[w] + m) /\ UNCHANGED given
  <2>1. buffer[w] + m \in Nat
    BY <1>2
  <2>2. QED
    BY <1>3, <2>1, LoseIInv DEF AppendRecords
<1>4. ASSUME NEW k \in 0..(buffer[w] + m), WriteOut(w, k),
             buffer' = [buffer EXCEPT ![w] = @ + m - k],
             given' = [given EXCEPT ![w] = @ + m], Answer(w, "ok"), UNCHANGED failed
      PROVE  IInv'
  <2>1. k \in Nat /\ buffer[w] + m - k \in Nat /\ given[w] + m \in Nat
    BY <1>2
  <2>2. /\ file[w] # None /\ at' \in [Writers -> {"idle", "open", "flush", "fsync"}]
        /\ at'[w] = "open" /\ \A v \in Writers : v # w => at'[v] = at[v]
    BY <1>1, StaysOpen DEF AppendRecords
  <2>3. WritersOK'
    BY <1>1, <1>4, <2>1, <2>2 DEF Typed, WritersOK, Answer, AppendRecords
  <2>4. /\ buffer'[w] = buffer[w] + m - k /\ given'[w] = given[w] + m
        /\ \A v \in Writers : v # w => buffer'[v] = buffer[v] /\ given'[v] = given[v]
    BY <1>1, <1>4 DEF Typed, WritersOK
  <2>5. k + buffer'[w] + given[w] = given'[w] + buffer[w]
    BY <1>2, <2>1, <2>4
  <2>6. UNCHANGED <<entry, durable, kept, name, listed, file, disk, synced, flushed>>
    BY DEF AppendRecords
  <2>7. QED
    BY <1>4, <2>1, <2>2, <2>3, <2>4, <2>5, <2>6, Wrote
<1>5. QED
  BY <1>3, <1>4 DEF AppendRecords

(* Flush sends everything to the kernel, or fails.                         *)
LEMMA FlushCallIInv == ASSUME IInv, NEW w \in Writers, Flush(w) PROVE IInv'
<1>1. buffer[w] \in Nat
  BY DEF IInv, Typed, WritersOK
<1>2. CASE Lose(w, buffer[w]) /\ UNCHANGED flushed
  BY <1>1, <1>2, LoseIInv DEF Flush
<1>3. CASE WriteAll(w) /\ flushed' = Promise(w, flushed) /\ Answer(w, "ok") /\ UNCHANGED failed
  BY <1>3, FlushIInv DEF Flush
<1>4. QED
  BY <1>2, <1>3 DEF Flush

(* So does the fflush() of Sync.                                           *)
LEMMA SyncFlushIInv == ASSUME IInv, NEW w \in Writers, SyncFlush(w) PROVE IInv'
<1>1. buffer[w] \in Nat
  BY DEF IInv, Typed, WritersOK
<1>2. CASE Go(w, "flush", "open") /\ Lose(w, buffer[w])
  BY <1>1, <1>2, LoseIInv DEF SyncFlush
<1>3. CASE Go(w, "flush", "fsync") /\ WriteAll(w) /\ UNCHANGED <<answer, failed>>
  BY <1>3, FlushIInv DEF SyncFlush
<1>4. QED
  BY <1>2, <1>3 DEF SyncFlush

(* A fsync() that succeeds has nothing of the buffer left to lose.         *)
LEMMA SyncFileIInv == ASSUME IInv, NEW w \in Writers, SyncFile(w) PROVE IInv'
<1> DEFINE i == file[w]
<1>1. Typed /\ OneWriter /\ Sums /\ FlushedFirst /\ PromisesKept
  BY DEF IInv
<1>2. /\ file[w] # None /\ i \in Inodes
      /\ at' \in [Writers -> {"idle", "open", "flush", "fsync"}]
      /\ at'[w] = "open" /\ \A v \in Writers : v # w => at'[v] = at[v]
  BY <1>1, StaysOpen DEF SyncFile
<1>3. at[w] = "fsync" /\ at[w] # "idle" /\ buffer[w] = 0
  BY <1>1 DEF SyncFile, Go, FlushedFirst
<1>4. /\ given[w] \in Nat /\ cache[i] \in Content /\ i \in Inodes
      /\ cache \in [Inodes -> Content] /\ disk \in [Inodes -> Content]
      /\ flushed \in [Inodes -> Content] /\ synced \in [Inodes -> Content]
  BY <1>1, <1>2 DEF Typed, WritersOK, FilesOK
<1>5. ASSUME NEW p \in [Inodes -> Content]
      PROVE  /\ Promise(w, p) \in [Inodes -> Content]
             /\ \A j \in Inodes :
                  Promise(w, p)[j] = p[j] \/ (j = i /\ Promise(w, p)[j] = cache[j])
  <2>1. failed[w] \in BOOLEAN
    BY <1>1 DEF Typed, WritersOK
  <2>2. CASE failed[w] = TRUE
    BY <2>2 DEF Promise
  <2>3. CASE failed[w] = FALSE
    <3>1. cache[i].len + buffer[w] = given[w]
      BY <1>1, <1>2, <2>3 DEF Sums
    <3>2. cache[i].len \in Nat
      BY <1>4 DEF Content
    <3>3. Contents(cache[i].gen, given[w]) = cache[i]
      BY <1>3, <1>4, <3>1, <3>2 DEF Contents, Content
    <3>4. QED
      BY <1>4, <2>3, <3>3 DEF Promise
  <2>4. QED
    BY <2>1, <2>2, <2>3
<1>6. /\ flushed' = flushed \/ flushed' = Promise(w, flushed)
      /\ \/ synced' = synced
         \/ synced' = Promise(w, synced) /\ disk' = [disk EXCEPT ![i] = cache[i]]
      /\ disk' = disk \/ disk' = [disk EXCEPT ![i] = cache[i]]
      /\ UNCHANGED <<entry, durable, cache, name, file, buffer, given>>
  BY DEF SyncFile
<1>7. FilesOK'
  BY <1>4, <1>5, <1>6 DEF FilesOK
<1>8. NamesOK'
  <2>1. \/ kept' = kept
        \/ kept' = [n \in Names |-> IF listed[w][n] # None THEN listed[w][n] ELSE kept[n]]
    BY DEF SyncFile
  <2>2. listed' = [listed EXCEPT ![w] = NoNames]
    BY DEF SyncFile
  <2>3. NamesOK
    BY <1>1 DEF Typed
  <2>4. QED
    BY <1>6, <2>1, <2>2, <2>3 DEF NamesOK, Directory, NoNames
<1>9. WritersOK'
  BY <1>1, <1>2, <1>6 DEF Typed, WritersOK, SyncFile, Answer
<1>10. NullOK'
  BY <1>1, <1>2, <1>3, <1>6, WritableFileAssumption DEF Typed, NullOK
<1>11. OneWriter' /\ FlushedFirst'
  BY <1>1, <1>2, <1>6 DEF OneWriter, FlushedFirst
<1>12. Sums'
  <2>1. ASSUME NEW v \in Writers, failed'[v] = FALSE PROVE failed[v] = FALSE
    BY <1>1, <2>1 DEF Typed, WritersOK, SyncFile
  <2>2. QED
    BY <1>1, <1>6, <2>1 DEF Sums
<1>13. PromisesKept'
  <2>1. ASSUME NEW j \in Inodes
        PROVE  /\ Holds(cache[j], flushed'[j]) /\ Holds(cache[j], synced'[j])
               /\ Holds(disk'[j], synced'[j])
    <3>1. /\ Holds(cache[j], flushed[j]) /\ Holds(cache[j], synced[j])
          /\ Holds(disk[j], synced[j])
      BY <1>1 DEF PromisesKept
    <3>2. cache[j].len \in Nat /\ Holds(cache[j], cache[j])
      BY <1>4 DEF Content, Holds
    <3>3. flushed'[j] = flushed[j] \/ flushed'[j] = cache[j]
      BY <1>4, <1>5, <1>6
    <3>4. synced'[j] = synced[j] \/ (synced'[j] = cache[j] /\ disk'[j] = cache[j])
      BY <1>4, <1>5, <1>6
    <3>5. disk'[j] = disk[j] \/ disk'[j] = cache[j]
      BY <1>4, <1>6
    <3>6. QED
      BY <3>1, <3>2, <3>3, <3>4, <3>5
  <2>2. QED
    BY <1>6, <2>1 DEF PromisesKept
<1>14. QED
  BY <1>7, <1>8, <1>9, <1>10, <1>11, <1>12, <1>13 DEF IInv, Typed

(* Close writes out what is left, or loses it and says so.                 *)
LEMMA CloseIInv == ASSUME IInv, NEW w \in Writers, Close(w) PROVE IInv'
<1> DEFINE i == file[w]
<1>1. Typed /\ OneWriter /\ Sums /\ FlushedFirst /\ PromisesKept
  BY DEF IInv
<1>2. at[w] = "open" /\ file[w] # None /\ i \in Inodes
  BY <1>1 DEF Close, Go, Typed, WritersOK, NullOK
<1>3. /\ given[w] \in Nat /\ buffer[w] \in Nat /\ failed[w] \in BOOLEAN
      /\ cache \in [Inodes -> Content] /\ flushed \in [Inodes -> Content]
      /\ synced \in [Inodes -> Content] /\ cache[i] \in Content
  BY <1>1, <1>2 DEF Typed, WritersOK, FilesOK
<1>4. PICK k \in 0..buffer[w] :
        /\ WriteOut(w, k)
        /\ flushed' = flushed \/ (k = buffer[w] /\ flushed' = Promise(w, flushed))
  BY <1>3 DEF Close
<1>5. /\ cache' \in [Inodes -> Content]
      /\ cache'[i].gen = cache[i].gen /\ cache'[i].len = cache[i].len + k
      /\ \A j \in Inodes : j # i => cache'[j] = cache[j]
  BY <1>2, <1>3, <1>4, Grown DEF WriteOut
<1>6. /\ flushed' \in [Inodes -> Content]
      /\ \A j \in Inodes : flushed'[j] = flushed[j] \/ (j = i /\ flushed'[j] = cache'[j])
  <2>1. CASE flushed' = flushed
    BY <1>3, <2>1
  <2>2. CASE failed[w] = FALSE /\ k = buffer[w]
             /\ flushed' = [flushed EXCEPT ![i] = Contents(cache[i].gen, given[w])]
    <3>1. cache[i].len + buffer[w] = given[w]
      BY <1>1, <1>2, <2>2 DEF Sums
    <3>2. cache'[i] \in Content
      BY <1>2, <1>5
    <3>3. Contents(cache[i].gen, given[w]) = cache'[i]
      BY <1>5, <2>2, <3>1, <3>2 DEF Contents, Content
    <3>4. QED
      BY <1>2, <1>3, <2>2, <3>2, <3>3
  <2>3. QED
    BY <1>3, <1>4, <2>1, <2>2 DEF Promise
<1>7. FilesOK'
  BY <1>1, <1>5, <1>6 DEF Close, FilesOK, Typed
<1>8. NamesOK'
  BY <1>1 DEF Close, NamesOK, Typed, Directory, NoNames
<1>9. WritersOK' /\ NullOK'
  BY <1>1, <1>2 DEF Close, WritersOK, NullOK, Typed, Go, Answer
<1>10. /\ file'[w] = None
       /\ \A v \in Writers : v # w =>
            file'[v] = file[v] /\ buffer'[v] = buffer[v] /\ given'[v] = given[v]
              /\ failed'[v] = failed[v]
  BY <1>1 DEF Close, Typed, WritersOK
<1>11. OneWriter' /\ FlushedFirst'
  BY <1>1, <1>10 DEF OneWriter, FlushedFirst, Close, Go, Typed, WritersOK
<1>12. Sums'
  <2>1. ASSUME NEW v \in Writers, file'[v] # None, failed'[v] = FALSE
        PROVE  cache'[file'[v]].len + buffer'[v] = given'[v]
    <3>1. v # w
      BY <1>10, <2>1
    <3>2. file[v] # i /\ file[v] \in Inodes
      BY <1>1, <1>2, <1>10, <2>1, <3>1 DEF OneWriter, Typed, WritersOK
    <3>3. QED
      BY <1>1, <1>5, <1>10, <2>1, <3>1, <3>2 DEF Sums
  <2>2. QED
    BY <2>1 DEF Sums
<1>13. PromisesKept'
  <2>1. ASSUME NEW j \in Inodes
        PROVE  Holds(cache'[j], flushed'[j]) /\ Holds(cache'[j], synced[j])
    <3>1. /\ cache[j] \in Content /\ cache'[j] \in Content
          /\ flushed[j] \in Content /\ synced[j] \in Content
      BY <1>3, <1>5
    <3>2. cache'[j].gen = cache[j].gen /\ cache'[j].len >= cache[j].len
      BY <1>3, <1>5, <3>1 DEF Content
    <3>3. Holds(cache[j], flushed[j]) /\ Holds(cache[j], synced[j])
      BY <1>1 DEF PromisesKept
    <3>4. Holds(cache'[j], flushed[j]) /\ Holds(cache'[j], synced[j])
      BY <3>1, <3>2, <3>3, HoldsGrown
    <3>5. Holds(cache'[j], cache'[j])
      BY <3>1 DEF Holds, Content
    <3>6. QED
      BY <1>6, <3>4, <3>5
  <2>2. disk' = disk /\ synced' = synced
    BY DEF Close
  <2>3. QED
    BY <1>1, <2>1, <2>2 DEF PromisesKept
<1>14. QED
  BY <1>7, <1>8, <1>9, <1>11, <1>12, <1>13 DEF IInv, Typed

-----------------------------------------------------------------------------
(* An entry of the directory is changed.                                   *)
LEMMA Rebound ==
  ASSUME NamesOK, NEW bindings, DOMAIN bindings \subseteq Names,
         \A n \in DOMAIN bindings : bindings[n] \in Inodes \cup {None},
         Rebind(bindings), durable' = durable,
         name' \in [Writers -> Names \cup {None}]
  PROVE  NamesOK'
BY DEF NamesOK, Rebind, Directory

(* A file nobody writes is opened by w, with what it holds in the kernel   *)
(* as what it has been given.                                              *)
LEMMA OpenedIInv ==
  ASSUME IInv, NEW w \in Writers, NEW n \in Names, NEW i \in Inodes, NobodyWrites(i),
         FilesOK', Opened(w, n, i, cache'[i].len), NamesOK',
         \A j \in Inodes : j # i => cache'[j] = cache[j],
         PromisesKept'
  PROVE  IInv'
<1>1. Typed /\ OneWriter /\ Sums /\ FlushedFirst
  BY DEF IInv
<1>2. cache'[i].len \in Nat
  BY DEF FilesOK, Content
<1>3. /\ file'[w] = i /\ buffer'[w] = 0 /\ given'[w] = cache'[i].len /\ at'[w] = "open"
      /\ \A v \in Writers : v # w =>
           /\ file'[v] = file[v] /\ buffer'[v] = buffer[v] /\ given'[v] = given[v]
           /\ failed'[v] = failed[v] /\ at'[v] = at[v]
  BY <1>1 DEF Opened, Go, Typed, WritersOK
<1>4. i # None
  BY WritableFileAssumption
<1>5. WritersOK'
  BY <1>1, <1>2 DEF Opened, Go, Answer, Typed, WritersOK
<1>6. NullOK'
  BY <1>1, <1>3, <1>4 DEF Typed, NullOK
<1>7. OneWriter' /\ FlushedFirst'
  BY <1>1, <1>3 DEF OneWriter, FlushedFirst, NobodyWrites
<1>8. Sums'
  <2>1. ASSUME NEW v \in Writers, file'[v] # None, failed'[v] = FALSE
        PROVE  cache'[file'[v]].len + buffer'[v] = given'[v]
    <3>1. CASE v = w
      BY <1>2, <1>3, <3>1
    <3>2. CASE v # w
      <4>1. file[v] # i /\ file[v] \in Inodes
        BY <1>1, <1>3, <2>1, <3>2 DEF NobodyWrites, Typed, WritersOK
      <4>2. QED
        BY <1>1, <1>3, <2>1, <3>2, <4>1 DEF Sums
    <3>3. QED
      BY <3>1, <3>2
  <2>2. QED
    BY <2>1 DEF Sums
<1>9. QED
  BY <1>5, <1>6, <1>7, <1>8 DEF IInv, Typed

(* A new file is empty everywhere, and nothing is promised of it.          *)
LEMMA CreateIInv == ASSUME IInv, NEW w \in Writers, NEW n \in Names, Create(w, n) PROVE IInv'
<1>1. Typed /\ PromisesKept
  BY DEF IInv
<1>2. PICK i \in Inodes :
        /\ Unused(i)
        /\ Rebind([m \in {n} |-> i])
        /\ Opened(w, n, i, 0)
        /\ cache' = [cache EXCEPT ![i] = Nothing]
        /\ disk' = [disk EXCEPT ![i] = Nothing]
        /\ flushed' = [flushed EXCEPT ![i] = Nothing]
        /\ synced' = [synced EXCEPT ![i] = Nothing]
  BY DEF Create
<1>3. Nothing \in Content /\ Nothing.len = 0
  BY DEF Nothing, Contents, Content
<1>4. FilesOK'
  BY <1>1, <1>2, <1>3 DEF Typed, FilesOK
<1>5. cache'[i] = Nothing /\ \A j \in Inodes : j # i => cache'[j] = cache[j]
  BY <1>1, <1>2 DEF Typed, FilesOK
<1>6. NamesOK'
  <2>1. name' \in [Writers -> Names \cup {None}] /\ durable' = durable /\ NamesOK
    BY <1>1, <1>2 DEF Opened, Typed, NamesOK
  <2>2. QED
    BY <1>2, <2>1, Rebound
<1>7. PromisesKept'
  <2>1. ASSUME NEW j \in Inodes
        PROVE  Holds(cache'[j], flushed'[j]) /\ Holds(cache'[j], synced'[j])
                 /\ Holds(disk'[j], synced'[j])
    <3>1. CASE j = i
      BY <1>1, <1>2, <1>3, <3>1 DEF Holds, Typed, FilesOK
    <3>2. CASE j # i
      BY <1>1, <1>2, <3>2 DEF PromisesKept, Typed, FilesOK
    <3>3. QED
      BY <3>1, <3>2
  <2>2. QED
    BY <2>1 DEF PromisesKept
<1>8. NobodyWrites(i)
  BY <1>2 DEF Unused, NobodyWrites
<1>9. Opened(w, n, i, cache'[i].len)
  BY <1>2, <1>3, <1>5
<1>10. QED
  BY <1>4, <1>5, <1>6, <1>7, <1>8, <1>9, OpenedIInv

(* A truncated file is empty in the kernel, and nothing is promised of it. *)
LEMMA TruncateIInv == ASSUME IInv, NEW w \in Writers, NEW n \in Names, Truncate(w, n) PROVE IInv'
<1> DEFINE i == entry[n]
           empty == Contents(cache[i].gen + 1, 0)
<1>1. Typed /\ PromisesKept
  BY DEF IInv
<1>2. i \in Inodes /\ NobodyWrites(i)
  BY <1>1 DEF Truncate, Typed, NamesOK, Directory
<1>3. empty \in Content /\ empty.len = 0 /\ Nothing \in Content /\ Nothing.len = 0
  BY <1>1, <1>2 DEF Typed, FilesOK, Nothing, Contents, Content
<1>4. /\ Opened(w, n, i, 0)
      /\ cache' = [cache EXCEPT ![i] = empty]
      /\ flushed' = [flushed EXCEPT ![i] = empty]
      /\ synced' = [synced EXCEPT ![i] = Nothing]
      /\ UNCHANGED <<entry, disk, listed, kept>>
  BY DEF Truncate
<1> HIDE DEF empty
<1>5. FilesOK'
  BY <1>1, <1>3, <1>4 DEF Typed, FilesOK
<1>6. cache'[i] = empty /\ \A j \in Inodes : j # i => cache'[j] = cache[j]
  BY <1>1, <1>2, <1>4 DEF Typed, FilesOK
<1>7. NamesOK'
  BY <1>1, <1>4 DEF Opened, Typed, NamesOK
<1>8. PromisesKept'
  <2>1. ASSUME NEW j \in Inodes
        PROVE  Holds(cache'[j], flushed'[j]) /\ Holds(cache'[j], synced'[j])
                 /\ Holds(disk'[j], synced'[j])
    <3>1. CASE j = i
      BY <1>1, <1>3, <1>4, <3>1 DEF Holds, Typed, FilesOK
    <3>2. CASE j # i
      BY <1>1, <1>4, <3>2 DEF PromisesKept, Typed, FilesOK
    <3>3. QED
      BY <3>1, <3>2
  <2>2. QED
    BY <2>1 DEF PromisesKept
<1>9. Opened(w, n, i, cache'[i].len)
  BY <1>3, <1>4, <1>6
<1>10. QED
  BY <1>2, <1>5, <1>6, <1>7, <1>8, <1>9, OpenedIInv

(* A file that is appended to is what it was.                              *)
LEMMA ExtendIInv == ASSUME IInv, NEW w \in Writers, NEW n \in Names, Extend(w, n) PROVE IInv'
<1> DEFINE i == entry[n]
<1>1. Typed /\ PromisesKept
  BY DEF IInv
<1>2. /\ i \in Inodes /\ NobodyWrites(i)
      /\ Opened(w, n, i, cache[i].len)
      /\ UNCHANGED <<entry, cache, disk, flushed, synced, listed, kept>>
  BY <1>1 DEF Extend, Typed, NamesOK, Directory
<1>3. NamesOK' /\ FilesOK' /\ PromisesKept'
  BY <1>1, <1>2 DEF Opened, Typed, NamesOK, FilesOK, PromisesKept
<1>4. Opened(w, n, i, cache'[i].len)
  BY <1>2
<1>5. QED
  BY <1>2, <1>3, <1>4, OpenedIInv

-----------------------------------------------------------------------------
(* What changes neither files nor writers.                                 *)
LEMMA SameFiles ==
  ASSUME IInv, NamesOK', WritersOK', NullOK', \A w \in Writers : at'[w] # "fsync" \/ at'[w] = at[w],
         UNCHANGED <<cache, disk, file, buffer, given, failed, flushed, synced>>
  PROVE  IInv'
BY DEF IInv, Typed, FilesOK, OneWriter, Sums, FlushedFirst, PromisesKept

(* SyncDirIfManifest writes the directory, or the call fails at once.      *)
LEMMA SyncDirIInv == ASSUME IInv, NEW w \in Writers, SyncDir(w) \/ SkipDir(w) PROVE IInv'
<1>1. Typed
  BY DEF IInv
<1>2. PICK to \in {"open", "flush"} : Go(w, "open", to)
  BY DEF SyncDir, SkipDir
<1>3. /\ at' \in [Writers -> {"idle", "open", "flush", "fsync"}] /\ at'[w] = to
      /\ \A v \in Writers : v # w => at'[v] = at[v]
  BY <1>1, <1>2, StaysOpen
<1>4. at[w] = "open"
  BY <1>2 DEF Go
<1>5. NamesOK'
  BY <1>1 DEF SyncDir, SkipDir, Typed, NamesOK, promises
<1>6. WritersOK'
  BY <1>1, <1>3 DEF SyncDir, SkipDir, Typed, WritersOK, Answer, promises
<1>7. UNCHANGED <<cache, disk, file, buffer, given, failed, flushed, synced>>
  BY DEF SyncDir, SkipDir, promises
<1>8. NullOK'
  BY <1>1, <1>3, <1>4, <1>7 DEF Typed, NullOK
<1>9. \A v \in Writers : at'[v] # "fsync" \/ at'[v] = at[v]
  BY <1>3
<1>10. QED
  BY <1>5, <1>6, <1>7, <1>8, <1>9, SameFiles

(* A call that opens no file changes nothing.                              *)
LEMMA OpenFailsIInv == ASSUME IInv, NEW w \in Writers, OpenFails(w) PROVE IInv'
<1>1. Typed
  BY DEF IInv
<1>2. at' = at
  BY <1>1 DEF OpenFails, Go, Typed, WritersOK
<1>3. /\ NamesOK' /\ NullOK'
      /\ UNCHANGED <<cache, disk, file, buffer, given, failed, flushed, synced>>
  BY <1>1, <1>2 DEF OpenFails, promises, Typed, NamesOK, NullOK
<1>4. WritersOK'
  BY <1>1, <1>2 DEF OpenFails, promises, Typed, WritersOK, Answer
<1>5. QED
  BY <1>2, <1>3, <1>4, SameFiles

(* DeleteFile, RenameFile and the directory on disk are about names only.  *)
LEMMA NamesChange ==
  ASSUME IInv, \/ \E n \in Names : DeleteFile(n) \/ \E m \in Names : RenameFile(n, m)
               \/ \E n \in Names : WriteBackEntry(n)
  PROVE  IInv'
<1>1. Typed
  BY DEF IInv
<1>2. UNCHANGED <<cache, disk, at, name, file, buffer, answer, given, failed, flushed, synced>>
  BY DEF DeleteFile, RenameFile, WriteBackEntry, promises
<1>3. WritersOK' /\ NullOK'
  BY <1>1, <1>2 DEF Typed, WritersOK, NullOK
<1>4. NamesOK'
  <2>1. NamesOK /\ name' \in [Writers -> Names \cup {None}]
    BY <1>1, <1>2 DEF Typed, NamesOK
  <2>2. ASSUME NEW n \in Names, DeleteFile(n) PROVE NamesOK'
    BY <2>1, <2>2, Rebound DEF DeleteFile
  <2>3. ASSUME NEW n \in Names, NEW m \in Names, RenameFile(n, m) PROVE NamesOK'
    <3>1. entry[n] \in Inodes \cup {None}
      BY <2>1 DEF NamesOK, Directory
    <3>2. QED
      BY <2>1, <2>3, <3>1, Rebound DEF RenameFile
  <2>4. ASSUME NEW n \in Names, WriteBackEntry(n) PROVE NamesOK'
    BY <2>1, <2>4 DEF WriteBackEntry, promises, NamesOK, Directory
  <2>5. QED
    BY <2>2, <2>3, <2>4
<1>5. QED
  BY <1>2, <1>3, <1>4, SameFiles

(* The kernel writes a file back: the disk holds what the kernel does.     *)
LEMMA WriteBackFileIInv == ASSUME IInv, NEW i \in Inodes, WriteBackFile(i) PROVE IInv'
<1>1. Typed /\ OneWriter /\ Sums /\ FlushedFirst /\ PromisesKept
  BY DEF IInv
<1>2. UNCHANGED <<entry, durable, cache, at, name, file, buffer, answer, given, failed,
                  flushed, synced, listed, kept>>
  BY DEF WriteBackFile, promises
<1>3. Typed'
  BY <1>1, <1>2 DEF Typed, NamesOK, FilesOK, WritersOK, NullOK, WriteBackFile
<1>4. OneWriter' /\ Sums' /\ FlushedFirst'
  BY <1>1, <1>2 DEF OneWriter, Sums, FlushedFirst
<1>5. \A j \in Inodes : disk'[j] = disk[j] \/ disk'[j] = cache[j]
  BY <1>1 DEF Typed, FilesOK, WriteBackFile
<1>6. PromisesKept'
  BY <1>1, <1>2, <1>5 DEF PromisesKept
<1>7. QED
  BY <1>3, <1>4, <1>6 DEF IInv

(* After a crash nobody writes; after a power failure the disk is all      *)
(* there is.                                                               *)
LEMMA CrashIInv == ASSUME IInv, ProcessDies \/ PowerFails PROVE IInv'
<1>1. Typed /\ PromisesKept /\ Restart
  BY DEF IInv, ProcessDies, PowerFails
<1>2. /\ UNCHANGED <<durable, disk, synced, kept>>
      /\ cache' = cache \/ (cache' = disk /\ flushed' = synced)
      /\ flushed' = flushed \/ (cache' = disk /\ flushed' = synced)
      /\ entry' = entry \/ entry' = durable
  BY DEF ProcessDies, PowerFails
<1>3. NamesOK'
  BY <1>1, <1>2 DEF Typed, NamesOK, Restart, NoNames, Directory
<1>4. FilesOK'
  BY <1>1, <1>2 DEF Typed, FilesOK
<1>5. WritersOK' /\ NullOK'
  BY <1>1 DEF Restart, WritersOK, NullOK
<1>6. OneWriter' /\ Sums' /\ FlushedFirst'
  BY <1>1 DEF Restart, OneWriter, Sums, FlushedFirst
<1>7. PromisesKept'
  BY <1>1, <1>2 DEF PromisesKept
<1>8. QED
  BY <1>3, <1>4, <1>5, <1>6, <1>7 DEF IInv, Typed

(* Every step preserves the invariant.                                     *)
LEMMA NextIInv == IInv /\ [Next]_vars => IInv'
<1> SUFFICES ASSUME IInv, [Next]_vars PROVE IInv'
  OBVIOUS
<1>1. CASE UNCHANGED vars
  BY <1>1 DEF vars, promises, IInv, Typed, NamesOK, FilesOK, WritersOK, NullOK, OneWriter,
              Sums, FlushedFirst, PromisesKept
<1>2. ASSUME NEW w \in Writers, Call(w) PROVE IInv'
  <2>1. ASSUME NEW n \in Names, NewWritableFile(w, n) \/ NewAppendableFile(w, n) PROVE IInv'
    BY <2>1, CreateIInv, TruncateIInv, ExtendIInv, OpenFailsIInv
       DEF NewWritableFile, NewAppendableFile
  <2>2. ASSUME NEW m \in 1..MaxRecords, AppendRecords(w, m) PROVE IInv'
    BY <2>2, AppendIInv, WritableFileAssumption
  <2>3. CASE Flush(w)
    BY <2>3, FlushCallIInv
  <2>4. CASE Close(w)
    BY <2>4, CloseIInv
  <2>5. CASE SyncDir(w) \/ SkipDir(w)
    BY <2>5, SyncDirIInv
  <2>6. CASE SyncFlush(w)
    BY <2>6, SyncFlushIInv
  <2>7. CASE SyncFile(w)
    BY <2>7, SyncFileIInv
  <2>8. QED
    BY <1>2, <2>1, <2>2, <2>3, <2>4, <2>5, <2>6, <2>7 DEF Call
<1>3. CASE External
  BY <1>3, NamesChange, WriteBackFileIInv, CrashIInv DEF External
<1>4. CASE \E n \in Names : DeleteFile(n) \/ \E m \in Names : RenameFile(n, m)
  BY <1>4, NamesChange
<1>5. QED
  BY <1>1, <1>2, <1>3, <1>4 DEF Next

(* The directory, the files and the writers keep their shapes, and file_   *)
(* is NULL exactly when no file is open.                                   *)
THEOREM TypeCorrect == Spec => []TypeOK
<1>1. IInv => TypeOK
  BY TypedIs DEF IInv
<1>2. QED
  BY <1>1, InitIInv, NextIInv, PTL DEF Spec

(* What a Flush or Close that returned OK wrote outlives the process, if   *)
(* no call on the file had failed.                                         *)
THEOREM FlushOutlivesProcess == Spec => []FlushedInKernel
<1>1. IInv => FlushedInKernel
  BY DEF IInv, PromisesKept, FlushedInKernel
<1>2. QED
  BY <1>1, InitIInv, NextIInv, PTL DEF Spec

(* What was appended before a Sync that returned OK is on disk from then   *)
(* on, if no call on the file had failed before that Sync; calls that fail *)
(* after it and crashes take nothing of it away.                           *)
THEOREM SyncOutlivesPower == Spec => []SyncedOnDisk
<1>1. IInv => SyncedOnDisk
  BY DEF IInv, PromisesKept, SyncedOnDisk
<1>2. QED
  BY <1>1, InitIInv, NextIInv, PTL DEF Spec

-----------------------------------------------------------------------------
(* What Sync has seen of the directory, and what it has promised, is so in *)
(* the kernel and on disk.                                                 *)
KeptThere == \A n \in Names : kept[n] # None => entry[n] = kept[n] /\ durable[n] = kept[n]

ListedThere ==
  \A w \in Writers, n \in Names :
    listed[w][n] # None => entry[n] = listed[w][n] /\ durable[n] = listed[w][n]

DirectoryInv == NamesOK /\ KeptThere /\ ListedThere

(* There are no names yet.                                                 *)
LEMMA InitDirectory == Init => DirectoryInv
<1>1. Init => NamesOK
  BY InitIInv DEF IInv, Typed
<1>2. QED
  BY <1>1 DEF Init, DirectoryInv, KeptThere, ListedThere, NoNames

(* An entry that changes is no longer promised.                            *)
LEMMA ReboundDirectory ==
  ASSUME DirectoryInv, NEW bindings, Rebind(bindings), durable' = durable
  PROVE  KeptThere' /\ ListedThere'
BY DEF DirectoryInv, NamesOK, KeptThere, ListedThere, Rebind

(* Every step preserves it.                                                *)
LEMMA NextDirectory == IInv /\ DirectoryInv /\ [Next]_vars => DirectoryInv'
<1> SUFFICES ASSUME IInv, DirectoryInv, [Next]_vars PROVE DirectoryInv'
  OBVIOUS
<1>1. NamesOK'
  BY NextIInv DEF IInv, Typed
<1>2. NamesOK /\ KeptThere /\ ListedThere
  BY DEF DirectoryInv
<1>3. CASE UNCHANGED <<entry, durable, kept, listed>>
  BY <1>1, <1>2, <1>3 DEF DirectoryInv, KeptThere, ListedThere
<1>4. ASSUME NEW w \in Writers, SyncDir(w) PROVE DirectoryInv'
  <2>1. CASE UNCHANGED <<durable, listed>>
    BY <1>3, <1>4, <2>1 DEF SyncDir
  <2>2. CASE durable' = entry /\ listed' = [listed EXCEPT ![w] = entry]
    BY <1>1, <1>2, <1>4, <2>2 DEF SyncDir, DirectoryInv, KeptThere, ListedThere, NamesOK
  <2>3. QED
    BY <1>4, <2>1, <2>2 DEF SyncDir
<1>5. ASSUME NEW w \in Writers, SyncFile(w) PROVE DirectoryInv'
  <2>1. /\ UNCHANGED <<entry, durable>> /\ listed' = [listed EXCEPT ![w] = NoNames]
        /\ \/ kept' = kept
           \/ kept' = [n \in Names |-> IF listed[w][n] # None THEN listed[w][n] ELSE kept[n]]
    BY <1>5 DEF SyncFile
  <2>2. KeptThere'
    BY <1>2, <2>1 DEF KeptThere, ListedThere
  <2>3. ListedThere'
    BY <1>2, <2>1 DEF ListedThere, NamesOK, NoNames
  <2>4. QED
    BY <1>1, <2>2, <2>3 DEF DirectoryInv
<1>6. ASSUME NEW w \in Writers, Close(w) PROVE DirectoryInv'
  BY <1>1, <1>2, <1>6 DEF Close, DirectoryInv, KeptThere, ListedThere, NamesOK, NoNames
<1>7. ASSUME NEW w \in Writers, NEW n \in Names, Create(w, n) PROVE DirectoryInv'
  BY <1>1, <1>7, ReboundDirectory DEF Create, Opened, DirectoryInv
<1>8. ASSUME NEW w \in Writers, Call(w) PROVE DirectoryInv'
  <2>1. ASSUME NEW n \in Names, Truncate(w, n) \/ Extend(w, n) PROVE DirectoryInv'
    BY <1>3, <2>1 DEF Truncate, Extend, Opened
  <2>2. CASE OpenFails(w) \/ SkipDir(w)
    BY <1>3, <2>2 DEF OpenFails, SkipDir, promises
  <2>3. ASSUME NEW m \in 1..MaxRecords, AppendRecords(w, m) PROVE DirectoryInv'
    BY <1>3, <2>3 DEF AppendRecords
  <2>4. CASE Flush(w) \/ SyncFlush(w)
    BY <1>3, <2>4 DEF Flush, SyncFlush
  <2>5. QED
    BY <1>4, <1>5, <1>6, <1>7, <1>8, <2>1, <2>2, <2>3, <2>4
       DEF Call, NewWritableFile, NewAppendableFile
<1>9. ASSUME NEW n \in Names, DeleteFile(n) \/ \E m \in Names : RenameFile(n, m)
      PROVE  DirectoryInv'
  <2>1. durable' = durable /\ \E bindings : Rebind(bindings)
    BY <1>9 DEF DeleteFile, RenameFile
  <2>2. QED
    BY <1>1, <2>1, ReboundDirectory DEF DirectoryInv
<1>10. CASE External
  <2>1. ASSUME NEW n \in Names, WriteBackEntry(n) PROVE DirectoryInv'
    BY <1>1, <1>2, <2>1 DEF WriteBackEntry, promises, DirectoryInv, KeptThere, ListedThere, NamesOK,
       Directory
  <2>2. ASSUME NEW i \in Inodes, WriteBackFile(i) PROVE DirectoryInv'
    BY <1>3, <2>2 DEF WriteBackFile, promises
  <2>3. CASE ProcessDies \/ PowerFails
    BY <1>1, <1>2, <2>3 DEF ProcessDies, PowerFails, Restart, NoNames, DirectoryInv, KeptThere,
       ListedThere
  <2>4. QED
    BY <1>10, <2>1, <2>2, <2>3 DEF External
<1>11. CASE UNCHANGED vars
  BY <1>3, <1>11 DEF vars, promises
<1>12. QED
  BY <1>8, <1>9, <1>10, <1>11 DEF Next

(* After a Sync of a manifest that returned OK, the files that were in the *)
(* directory are there after a power failure, unless deleted or renamed.   *)
THEOREM ManifestFilesStay == Spec => []ManifestKeepsFiles
<1>1. DirectoryInv => ManifestKeepsFiles
  BY DEF DirectoryInv, KeptThere, ManifestKeepsFiles
<1>2. QED
  BY <1>1, InitIInv, NextIInv, InitDirectory, NextDirectory, PTL DEF Spec

-----------------------------------------------------------------------------
(* WriteString.  What the routine of a writer has done of its work.        *)
RoutinesOK ==
  /\ stage \in [Writers -> {"none", "append", "sync", "close", "delete", "remove"}]
  /\ fname \in [Writers -> Names \cup {None}]
  /\ sync \in [Writers -> BOOLEAN]
  /\ outcome \in [Names -> {"none", "written", "synced", "failed"}]

RoutineOK(w) ==
  /\ stage[w] = "none" <=> fname[w] = None
  /\ at[w] = "idle" <=> stage[w] \in {"none", "remove"}
  /\ at[w] \in {"flush", "fsync"} => stage[w] = "sync"
  /\ file[w] # None => name[w] = fname[w] /\ entry[fname[w]] = file[w]
  /\ fname[w] # None => outcome[fname[w]] = "none"
  /\ stage[w] = "append" => given[w] = 0
  /\ stage[w] \in {"sync", "close"} => given[w] = StringLength
  /\ stage[w] \in {"append", "sync", "close"} => failed[w] = FALSE
  /\ stage[w] = "close" /\ sync[w] =>
       cache[file[w]].len = StringLength /\ disk[file[w]].len = StringLength
  /\ fname[w] \in Manifests
       /\ (at[w] \in {"flush", "fsync"} \/ (stage[w] = "close" /\ sync[w])) =>
       durable[fname[w]] = entry[fname[w]]

OneRoutine == \A w, v \in Writers : fname[w] # None /\ fname[w] = fname[v] => w = v

(* A file has one name, in the kernel and on disk.                         *)
OneName ==
  \A n, m \in Names : n # m =>
    /\ entry[n] # None => entry[n] # entry[m] /\ entry[n] # durable[m]
    /\ durable[n] # None => durable[n] # durable[m]

(* The two properties, of one name.                                        *)
StringOK(n) ==
  /\ outcome[n] \in {"written", "synced"} => HasString(entry, cache, n)
  /\ outcome[n] = "failed" => entry[n] = None
  /\ outcome[n] = "synced" =>
       /\ HasString(entry, disk, n)
       /\ n \in Manifests => durable[n] = entry[n]

StringInv ==
  /\ RoutinesOK /\ OneRoutine /\ OneName
  /\ \A w \in Writers : RoutineOK(w)
  /\ \A n \in Names : StringOK(n)

(* No routine has begun.                                                   *)
LEMMA InitString == InitW => IInv /\ StringInv
<1> SUFFICES ASSUME InitW PROVE IInv /\ StringInv
  OBVIOUS
<1>1. Init
  BY DEF InitW
<1>2. RoutinesOK /\ OneRoutine
  BY DEF InitW, RoutinesOK, OneRoutine
<1>3. OneName
  BY <1>1 DEF Init, NoNames, OneName
<1>4. ASSUME NEW w \in Writers PROVE RoutineOK(w)
  BY <1>1, <1>4 DEF InitW, Init, RoutineOK
<1>5. ASSUME NEW n \in Names PROVE StringOK(n)
  BY <1>5 DEF InitW, StringOK
<1>6. QED
  BY <1>1, <1>2, <1>3, <1>4, <1>5, InitIInv DEF StringInv

(* A step of the routine of w that changes at most its own file and its    *)
(* own name keeps what is true of the others.                              *)
LEMMA OthersKeep ==
  ASSUME IInv, StringInv, NEW w \in Writers, NEW own \in Names, fname[w] = own,
         fname'[w] \in {own, None},
         RoutinesOK', RoutineOK(w)', StringOK(own)',
         \A n \in Names : durable'[n] = durable[n] \/ durable'[n] = entry[n],
         \A n \in Names : entry'[n] = entry[n] \/ (n = own /\ entry'[n] = None),
         \A n \in Names : n # own => outcome'[n] = outcome[n],
         \A i \in Inodes : i # file[w] => cache'[i] = cache[i] /\ disk'[i] = disk[i],
         \A v \in Writers : v # w =>
           /\ at'[v] = at[v] /\ file'[v] = file[v] /\ name'[v] = name[v]
           /\ given'[v] = given[v] /\ failed'[v] = failed[v]
           /\ stage'[v] = stage[v] /\ fname'[v] = fname[v] /\ sync'[v] = sync[v]
  PROVE  StringInv'
<1>1. /\ RoutinesOK /\ OneRoutine /\ OneName /\ OneWriter /\ WritersOK /\ NamesOK /\ NullOK
      /\ \A v \in Writers : RoutineOK(v)
      /\ \A n \in Names : StringOK(n)
  BY DEF StringInv, IInv, Typed
<1>2. own # None /\ None \notin Names \cup Inodes
  BY <1>1, WritableFileAssumption DEF RoutinesOK
<1>3. OneRoutine'
  BY <1>1 DEF OneRoutine
<1>4. OneName'
  BY <1>1 DEF OneName
<1>5. ASSUME NEW v \in Writers, v # w PROVE RoutineOK(v)'
  <2>1. RoutineOK(v)
    BY <1>1
  <2>2. fname[v] = None \/ (fname[v] \in Names /\ fname[v] # own)
    BY <1>1, <1>2, <1>5 DEF RoutinesOK, OneRoutine
  <2>3. fname[v] # None =>
          /\ entry'[fname[v]] = entry[fname[v]]
          /\ outcome'[fname[v]] = outcome[fname[v]]
          /\ (durable[fname[v]] = entry[fname[v]] => durable'[fname[v]] = entry[fname[v]])
    BY <2>2
  <2>4. file[v] = None \/ (file[v] \in Inodes /\ file[v] # file[w])
    BY <1>1, <1>5 DEF OneWriter, WritersOK
  <2>5. file[v] # None => cache'[file[v]] = cache[file[v]] /\ disk'[file[v]] = disk[file[v]]
    BY <2>4
  <2>6. stage[v] = "close" => file[v] # None
    BY <1>1, <2>1 DEF NullOK, RoutineOK
  <2>7. file[v] # None => fname[v] # None
    BY <1>1, <2>1 DEF NullOK, RoutineOK
  <2>8. fname[v] \in Manifests => fname[v] # None
    BY <1>2, WritableFileAssumption
  <2>9. QED
    BY <1>5, <2>1, <2>3, <2>5, <2>6, <2>7, <2>8 DEF RoutineOK
<1>6. ASSUME NEW n \in Names, n # own PROVE StringOK(n)'
  <2>1. StringOK(n)
    BY <1>1
  <2>2. file[w] # None => entry[own] = file[w]
    BY <1>1 DEF RoutineOK
  <2>3. entry[n] = None \/ (entry[n] \in Inodes /\ entry[n] # file[w])
    BY <1>1, <1>2, <1>6, <2>2 DEF OneName, NamesOK, Directory
  <2>4. entry[n] # None => cache'[entry[n]] = cache[entry[n]] /\ disk'[entry[n]] = disk[entry[n]]
    BY <2>3
  <2>5. entry'[n] = entry[n] /\ outcome'[n] = outcome[n]
    BY <1>6
  <2>6. durable[n] = entry[n] => durable'[n] = entry[n]
    OBVIOUS
  <2>7. QED
    BY <2>1, <2>4, <2>5, <2>6 DEF StringOK, HasString
<1>7. QED
  BY <1>2, <1>3, <1>4, <1>5, <1>6 DEF StringInv

-----------------------------------------------------------------------------
(* What the step of a routine leaves of the routines' variables.           *)
LEMMA ContinueKeeps ==
  ASSUME RoutinesOK, NEW w \in Writers, fname[w] # None,
         NEW ok \in {"append", "sync", "close"}, NEW bad \in {"delete", "remove"},
         Continue(w, ok, bad)
  PROVE  /\ RoutinesOK'
         /\ stage'[w] = IF answer'[w] = "ok" THEN ok ELSE bad
         /\ fname' = fname /\ sync' = sync /\ outcome' = outcome
         /\ \A v \in Writers : v # w => stage'[v] = stage[v]
BY DEF Continue, RoutinesOK

LEMMA LeaveKeeps ==
  ASSUME RoutinesOK, NEW w \in Writers, Leave(w),
         outcome' \in [Names -> {"none", "written", "synced", "failed"}]
  PROVE  /\ RoutinesOK'
         /\ stage'[w] = "none" /\ fname'[w] = None /\ sync'[w] = FALSE
         /\ \A v \in Writers : v # w =>
              stage'[v] = stage[v] /\ fname'[v] = fname[v] /\ sync'[v] = sync[v]
BY DEF Leave, RoutinesOK

(* The records that w writes out are its own file's.                       *)
LEMMA WritesOwn ==
  ASSUME Typed, NEW w \in Writers, NEW k, WriteOut(w, k)
  PROVE  \A i \in Inodes : i # file[w] => cache'[i] = cache[i]
BY DEF WriteOut, Typed, FilesOK

(* A file that is open, and what is known of it.                           *)
LEMMA OpenFile ==
  ASSUME IInv, StringInv, NEW w \in Writers, stage[w] \notin {"none", "remove"}
  PROVE  /\ Typed /\ Sums /\ FlushedFirst /\ RoutinesOK /\ RoutineOK(w)
         /\ fname[w] \in Names /\ fname[w] # None /\ outcome[fname[w]] = "none"
         /\ file[w] \in Inodes /\ file[w] # None
         /\ name[w] = fname[w] /\ entry[fname[w]] = file[w]
<1>1. Typed /\ Sums /\ FlushedFirst /\ RoutinesOK /\ RoutineOK(w)
  BY DEF IInv, StringInv
<1>2. fname[w] # None /\ at[w] # "idle"
  BY <1>1 DEF RoutineOK
<1>3. file[w] # None
  BY <1>1, <1>2 DEF Typed, NullOK
<1>4. fname[w] \in Names /\ file[w] \in Inodes
  BY <1>1, <1>2, <1>3 DEF RoutinesOK, Typed, WritersOK
<1>5. QED
  BY <1>1, <1>2, <1>3, <1>4 DEF RoutineOK

(* Nothing is said yet of the name of a routine that is still at work.     *)
LEMMA NotYet ==
  ASSUME NEW n \in Names, outcome[n] = "none", outcome' = outcome
  PROVE  StringOK(n)'
BY DEF StringOK

(* Append gives the file the whole string, or the routine gives up.        *)
LEMMA AppendString ==
  ASSUME IInv, StringInv, NEW w \in Writers, WSAppend(w) PROVE StringInv'
<1>1. stage[w] = "append"
  BY DEF WSAppend
<1>2. /\ Typed /\ RoutinesOK /\ RoutineOK(w)
      /\ fname[w] \in Names /\ fname[w] # None /\ outcome[fname[w]] = "none"
      /\ file[w] \in Inodes /\ file[w] # None
      /\ name[w] = fname[w] /\ entry[fname[w]] = file[w]
  BY <1>1, OpenFile
<1> DEFINE next == IF sync[w] THEN "sync" ELSE "close"
<1>3. AppendRecords(w, StringLength) /\ Continue(w, next, "delete")
  BY DEF WSAppend
<1>4. next \in {"append", "sync", "close"} /\ (next = "close" => sync[w] = FALSE)
  BY <1>2 DEF RoutinesOK
<1>5. /\ RoutinesOK'
      /\ stage'[w] = IF answer'[w] = "ok" THEN next ELSE "delete"
      /\ fname' = fname /\ sync' = sync /\ outcome' = outcome
      /\ \A v \in Writers : v # w => stage'[v] = stage[v]
  BY <1>2, <1>3, <1>4, ContinueKeeps
<1>6. /\ at[w] = "open" /\ at'[w] = "open"
      /\ UNCHANGED <<entry, durable, disk, name, file>>
      /\ \A v \in Writers : v # w =>
           at'[v] = at[v] /\ given'[v] = given[v] /\ failed'[v] = failed[v]
  BY <1>2, <1>3 DEF AppendRecords, Go, Lose, Typed, WritersOK
<1>7. \A i \in Inodes : i # file[w] => cache'[i] = cache[i]
  BY <1>2, <1>3, WritesOwn DEF AppendRecords, Lose
<1>8. \/ answer'[w] = "error"
      \/ answer'[w] = "ok" /\ given'[w] = StringLength /\ failed'[w] = FALSE
  <2>1. given[w] = 0 /\ failed[w] = FALSE
    BY <1>1, <1>2 DEF RoutineOK
  <2>2. StringLength \in Nat
    BY WriteStringAssumption, WritableFileAssumption
  <2>3. CASE Lose(w, buffer[w] + StringLength)
    BY <1>2, <2>3 DEF Lose, Answer, Typed, WritersOK
  <2>4. CASE given' = [given EXCEPT ![w] = @ + StringLength] /\ Answer(w, "ok")
             /\ UNCHANGED failed
    BY <1>2, <2>1, <2>2, <2>4 DEF Answer, Typed, WritersOK
  <2>5. QED
    BY <1>3, <2>3, <2>4 DEF AppendRecords
<1> HIDE DEF next
<1>9. RoutineOK(w)'
  <2>1. stage'[w] \in {"sync", "close", "delete"}
    BY <1>4, <1>5, <1>8 DEF next
  <2>2. stage'[w] = "close" => sync'[w] = FALSE
    BY <1>4, <1>5
  <2>3. stage'[w] \in {"sync", "close"} => given'[w] = StringLength /\ failed'[w] = FALSE
    BY <1>5, <1>8
  <2>4. QED
    BY <1>2, <1>5, <1>6, <2>1, <2>2, <2>3 DEF RoutineOK
<1>10. PICK n \in Names : n = fname[w]
  BY <1>2
<1>11. StringOK(n)'
  BY <1>2, <1>5, <1>10, NotYet
<1>12. QED
  BY <1>2, <1>11, <1>5, <1>6, <1>7, <1>9, <1>10, OthersKeep

(* DoWriteStringToFile deletes the WritableFile, which closes the file.    *)
LEMMA DeleteString ==
  ASSUME IInv, StringInv, NEW w \in Writers, WSDelete(w) PROVE StringInv'
<1>1. stage[w] = "delete" /\ Close(w)
  BY DEF WSDelete
<1>2. /\ Typed /\ RoutinesOK /\ RoutineOK(w)
      /\ fname[w] \in Names /\ fname[w] # None /\ outcome[fname[w]] = "none"
  BY <1>1, OpenFile
<1>3. /\ RoutinesOK' /\ stage'[w] = "remove"
      /\ fname' = fname /\ sync' = sync /\ outcome' = outcome
      /\ \A v \in Writers : v # w => stage'[v] = stage[v]
  BY <1>2 DEF WSDelete, RoutinesOK
<1>4. /\ at'[w] = "idle" /\ file'[w] = None
      /\ UNCHANGED <<entry, durable, disk>>
      /\ \A v \in Writers : v # w =>
           /\ at'[v] = at[v] /\ given'[v] = given[v] /\ failed'[v] = failed[v]
           /\ name'[v] = name[v] /\ file'[v] = file[v]
  BY <1>1, <1>2 DEF Close, Go, Typed, WritersOK, NamesOK
<1>5. \A i \in Inodes : i # file[w] => cache'[i] = cache[i]
  BY <1>1, <1>2, WritesOwn DEF Close
<1>6. RoutineOK(w)'
  BY <1>2, <1>3, <1>4 DEF RoutineOK
<1>7. PICK n \in Names : n = fname[w]
  BY <1>2
<1>8. StringOK(n)'
  BY <1>2, <1>3, <1>7, NotYet
<1>9. QED
  BY <1>2, <1>8, <1>3, <1>4, <1>5, <1>6, <1>7, OthersKeep

-----------------------------------------------------------------------------
(* A step of Sync changes nothing of the other writers.                    *)
LEMMA SyncKeeps ==
  ASSUME Typed, NEW w \in Writers, file[w] # None,
         SyncDir(w) \/ SkipDir(w) \/ SyncFlush(w) \/ SyncFile(w)
  PROVE  /\ UNCHANGED <<entry, name, file, given>>
         /\ at[w] \in {"open", "flush", "fsync"} /\ at'[w] \in {"open", "flush", "fsync"}
         /\ durable' = durable \/ durable' = entry
         /\ \A i \in Inodes : i # file[w] => cache'[i] = cache[i] /\ disk'[i] = disk[i]
         /\ \A v \in Writers : v # w => at'[v] = at[v] /\ failed'[v] = failed[v]
<1>1. CASE SyncDir(w)
  BY <1>1 DEF SyncDir, Go, Typed, WritersOK
<1>2. CASE SkipDir(w)
  BY <1>2 DEF SkipDir, Go, Typed, WritersOK, promises
<1>3. CASE SyncFlush(w)
  <2>1. \A i \in Inodes : i # file[w] => cache'[i] = cache[i]
    BY <1>3, WritesOwn DEF SyncFlush, WriteAll, Lose
  <2>2. QED
    BY <1>3, <2>1 DEF SyncFlush, Go, Lose, Typed, WritersOK
<1>4. CASE SyncFile(w)
  <2>1. \A i \in Inodes : i # file[w] => disk'[i] = disk[i]
    BY <1>4 DEF SyncFile, Typed, FilesOK
  <2>2. QED
    BY <1>4, <2>1 DEF SyncFile, Go, Typed, WritersOK
<1>5. QED
  BY <1>1, <1>2, <1>3, <1>4

(* A Sync that goes on has seen to the directory; one that returns OK has  *)
(* no call behind it that failed, and leaves the whole string on disk.     *)
LEMMA SyncDoes ==
  ASSUME IInv, NEW w \in Writers, file[w] \in Inodes, NEW n \in Names, name[w] = n,
         failed[w] = FALSE,
         n \in Manifests /\ at[w] \in {"flush", "fsync"} => durable[n] = entry[n],
         SyncDir(w) \/ SkipDir(w) \/ SyncFlush(w) \/ SyncFile(w),
         at'[w] # "open" \/ answer'[w] = "ok"
  PROVE  /\ failed'[w] = FALSE
         /\ n \in Manifests => durable'[n] = entry[n]
         /\ at'[w] = "open" =>
              cache'[file[w]] = cache[file[w]] /\ disk'[file[w]] = cache[file[w]]
                /\ cache[file[w]].len = given[w]
<1>1. Typed /\ Sums /\ FlushedFirst /\ file[w] # None
  BY WritableFileAssumption DEF IInv
<1>2. CASE SyncDir(w)
  <2>1. at' = [at EXCEPT ![w] = "flush"] /\ durable' = entry /\ failed' = failed
    BY <1>1, <1>2 DEF SyncDir, Go, Answer, Typed, WritersOK
  <2>2. at'[w] = "flush"
    BY <1>1, <2>1 DEF Typed, WritersOK
  <2>3. QED
    BY <2>1, <2>2
<1>3. CASE SkipDir(w)
  <2>1. at'[w] = "flush" /\ durable' = durable /\ failed' = failed /\ n \notin Manifests
    BY <1>1, <1>3 DEF SkipDir, Go, Typed, WritersOK, promises
  <2>2. QED
    BY <2>1
<1>4. CASE SyncFlush(w)
  <2>1. at[w] = "flush" /\ durable' = durable
    BY <1>4 DEF SyncFlush, Go
  <2>2. at'[w] = "fsync" /\ failed' = failed
    <3>1. CASE Go(w, "flush", "fsync") /\ UNCHANGED failed
      BY <1>1, <3>1 DEF Go, Typed, WritersOK
    <3>2. CASE Go(w, "flush", "open") /\ Lose(w, buffer[w])
      BY <1>1, <3>2 DEF Go, Lose, Answer, Typed, WritersOK
    <3>3. QED
      BY <1>4, <3>1, <3>2 DEF SyncFlush
  <2>3. QED
    BY <2>1, <2>2
<1>5. CASE SyncFile(w)
  <2>1. at[w] = "fsync" /\ at'[w] = "open" /\ buffer[w] = 0 /\ UNCHANGED <<durable, cache>>
    BY <1>1, <1>5 DEF SyncFile, Go, FlushedFirst, Typed, WritersOK
  <2>2. disk' = [disk EXCEPT ![file[w]] = cache[file[w]]] /\ failed' = failed
    BY <1>1, <1>5, <2>1 DEF SyncFile, Answer, Typed, WritersOK
  <2>3. disk'[file[w]] = cache[file[w]]
    BY <1>1, <2>2 DEF Typed, FilesOK
  <2>4. cache[file[w]].len + 0 = given[w] /\ cache[file[w]].len \in Nat
    BY <1>1, <2>1 DEF Sums, Typed, FilesOK, Content
  <2>5. QED
    BY <2>1, <2>2, <2>3, <2>4
<1>6. QED
  BY <1>2, <1>3, <1>4, <1>5

(* Sync.                                                                   *)
LEMMA SyncString ==
  ASSUME IInv, StringInv, NEW w \in Writers, WSSync(w) PROVE StringInv'
<1>1. stage[w] = "sync"
  BY DEF WSSync
<1>2. /\ Typed /\ RoutinesOK /\ RoutineOK(w)
      /\ fname[w] \in Names /\ fname[w] # None /\ outcome[fname[w]] = "none"
      /\ file[w] \in Inodes /\ file[w] # None
      /\ name[w] = fname[w] /\ entry[fname[w]] = file[w]
  BY <1>1, OpenFile
<1>3. SyncDir(w) \/ SkipDir(w) \/ SyncFlush(w) \/ SyncFile(w)
  BY DEF WSSync
<1>4. /\ UNCHANGED <<entry, name, file, given>>
      /\ at[w] \in {"open", "flush", "fsync"} /\ at'[w] \in {"open", "flush", "fsync"}
      /\ durable' = durable \/ durable' = entry
      /\ \A i \in Inodes : i # file[w] => cache'[i] = cache[i] /\ disk'[i] = disk[i]
      /\ \A v \in Writers : v # w => at'[v] = at[v] /\ failed'[v] = failed[v]
  BY <1>2, <1>3, SyncKeeps
<1>5. /\ RoutinesOK'
      /\ fname' = fname /\ sync' = sync /\ outcome' = outcome
      /\ \A v \in Writers : v # w => stage'[v] = stage[v]
      /\ \/ at'[w] = "open" /\ stage'[w] = IF answer'[w] = "ok" THEN "close" ELSE "delete"
         \/ at'[w] # "open" /\ stage'[w] = "sync"
  <2>1. CASE at'[w] = "open"
    <3>1. Continue(w, "close", "delete")
      BY <2>1 DEF WSSync
    <3>2. QED
      BY <1>2, <2>1, <3>1, ContinueKeeps
  <2>2. CASE at'[w] # "open"
    BY <1>1, <1>2, <2>2 DEF WSSync, RoutinesOK
  <2>3. QED
    BY <2>1, <2>2
<1>6. RoutineOK(w)'
  <2>1. given[w] = StringLength /\ failed[w] = FALSE
    BY <1>1, <1>2 DEF RoutineOK
  <2>2. CASE at'[w] = "open" /\ stage'[w] = "delete"
    BY <1>2, <1>4, <1>5, <2>2 DEF RoutineOK
  <2>3. CASE at'[w] # "open" \/ answer'[w] = "ok"
    <3>1. fname[w] \in Manifests /\ at[w] \in {"flush", "fsync"} =>
            durable[fname[w]] = entry[fname[w]]
      BY <1>2 DEF RoutineOK
    <3>2. /\ failed'[w] = FALSE
          /\ fname[w] \in Manifests => durable'[fname[w]] = entry[fname[w]]
          /\ at'[w] = "open" =>
               cache'[file[w]] = cache[file[w]] /\ disk'[file[w]] = cache[file[w]]
                 /\ cache[file[w]].len = given[w]
      BY <1>2, <1>3, <2>1, <2>3, <3>1, SyncDoes
    <3>3. stage'[w] \in {"sync", "close"} /\ (stage'[w] = "close" <=> at'[w] = "open")
      BY <1>5, <2>3
    <3>4. QED
      BY <1>2, <1>4, <1>5, <2>1, <3>2, <3>3 DEF RoutineOK
  <2>4. QED
    BY <1>5, <2>2, <2>3
<1>7. PICK n \in Names : n = fname[w]
  BY <1>2
<1>8. StringOK(n)'
  BY <1>2, <1>5, <1>7, NotYet
<1>9. QED
  BY <1>2, <1>8, <1>4, <1>5, <1>6, <1>7, OthersKeep

(* Close, the last call that may fail: if it does not, the kernel has the  *)
(* whole string, and the disk too if it was asked for.                     *)
LEMMA CloseString ==
  ASSUME IInv, StringInv, NEW w \in Writers, WSClose(w) PROVE StringInv'
<1>1. stage[w] = "close" /\ Close(w)
  BY DEF WSClose
<1>2. /\ Typed /\ Sums /\ RoutinesOK /\ RoutineOK(w)
      /\ fname[w] \in Names /\ fname[w] # None /\ outcome[fname[w]] = "none"
      /\ file[w] \in Inodes /\ file[w] # None
      /\ name[w] = fname[w] /\ entry[fname[w]] = file[w]
  BY <1>1, OpenFile
<1>3. /\ at'[w] = "idle" /\ file'[w] = None
      /\ UNCHANGED <<entry, durable, disk>>
      /\ \A v \in Writers : v # w =>
           /\ at'[v] = at[v] /\ given'[v] = given[v] /\ failed'[v] = failed[v]
           /\ name'[v] = name[v] /\ file'[v] = file[v]
  BY <1>1, <1>2 DEF Close, Go, Typed, WritersOK, NamesOK
<1>4. \A i \in Inodes : i # file[w] => cache'[i] = cache[i]
  BY <1>1, <1>2, WritesOwn DEF Close
<1> PICK own \in Names : own = fname[w]
  BY <1>2
<1>5. CASE answer'[w] # "ok"
  <2>1. Continue(w, "none", "remove")
    BY <1>5 DEF WSClose
  <2>2. /\ RoutinesOK' /\ stage'[w] = "remove"
        /\ fname' = fname /\ sync' = sync /\ outcome' = outcome
        /\ \A v \in Writers : v # w => stage'[v] = stage[v]
    BY <1>2, <1>5, <2>1 DEF Continue, RoutinesOK
  <2>3. RoutineOK(w)'
    BY <1>2, <1>3, <2>2 DEF RoutineOK
  <2>4. StringOK(own)'
    BY <1>2, <2>2, NotYet
  <2>5. QED
    BY <1>2, <1>3, <1>4, <2>2, <2>3, <2>4, OthersKeep
<1>6. CASE answer'[w] = "ok"
  <2> DEFINE o == IF sync[w] THEN "synced" ELSE "written"
  <2>1. Leave(w) /\ Report(w, o)
    BY <1>6 DEF WSClose
  <2>2. /\ outcome' \in [Names -> {"none", "written", "synced", "failed"}]
        /\ outcome'[own] = o
        /\ \A n \in Names : n # own => outcome'[n] = outcome[n]
    BY <1>2, <2>1 DEF Report, RoutinesOK
  <2>3. /\ RoutinesOK'
        /\ stage'[w] = "none" /\ fname'[w] = None /\ sync'[w] = FALSE
        /\ \A v \in Writers : v # w =>
             stage'[v] = stage[v] /\ fname'[v] = fname[v] /\ sync'[v] = sync[v]
    BY <1>2, <2>1, <2>2, LeaveKeeps
  <2>4. RoutineOK(w)'
    <3>1. fname'[w] \notin Manifests
      BY <2>3, WritableFileAssumption
    <3>2. QED
      BY <1>3, <2>3, <3>1 DEF RoutineOK
  <2>5. cache'[file[w]].len = StringLength
    <3>1. given[w] = StringLength /\ failed[w] = FALSE
      BY <1>1, <1>2 DEF RoutineOK
    <3>2. WriteOut(w, buffer[w])
      BY <1>1, <1>2, <1>6 DEF Close, Answer, Typed, WritersOK
    <3>3. cache'[file[w]].len = cache[file[w]].len + buffer[w]
      BY <1>2, <3>2, Grown DEF WriteOut, Typed, FilesOK, WritersOK
    <3>4. QED
      BY <1>2, <3>1, <3>3 DEF Sums
  <2>6. sync[w] = TRUE =>
          /\ disk[file[w]].len = StringLength
          /\ fname[w] \in Manifests => durable[fname[w]] = entry[fname[w]]
    BY <1>1, <1>2 DEF RoutineOK
  <2>7. StringOK(own)'
    <3>1. (o = "synced" <=> sync[w] = TRUE) /\ o # "failed"
      BY <1>2 DEF RoutinesOK
    <3> HIDE DEF o
    <3>2. QED
      BY <1>2, <1>3, <2>2, <2>5, <2>6, <3>1 DEF StringOK, HasString
  <2>8. QED
    BY <1>2, <1>3, <1>4, <2>2, <2>3, <2>4, <2>7, OthersKeep
<1>7. QED
  BY <1>5, <1>6

(* DeleteFile of the name of a routine that has failed.                    *)
LEMMA RemoveString ==
  ASSUME IInv, StringInv, NEW w \in Writers, WSRemove(w) PROVE StringInv'
<1>1. stage[w] = "remove" /\ Leave(w)
  BY DEF WSRemove
<1>2. Typed /\ RoutinesOK /\ RoutineOK(w)
  BY DEF IInv, StringInv
<1>3. fname[w] # None /\ outcome[fname[w]] = "none" /\ at[w] = "idle" /\ file[w] = None
  BY <1>1, <1>2 DEF RoutineOK, Typed, NullOK
<1> PICK own \in Names : own = fname[w]
  BY <1>2, <1>3 DEF RoutinesOK
<1>4. /\ UNCHANGED <<durable, cache, disk, at, name, file, given, failed>>
      /\ \/ entry' = entry /\ outcome' = outcome
         \/ /\ entry'[own] = None /\ outcome' = [outcome EXCEPT ![own] = "failed"]
            /\ \A n \in Names : n # own => entry'[n] = entry[n]
  <2>1. CASE DeleteFile(fname[w]) /\ Report(w, "failed")
    BY <2>1 DEF DeleteFile, Rebind, Report
  <2>2. CASE UNCHANGED <<vars, outcome>>
    BY <2>2 DEF vars, promises
  <2>3. QED
    BY <2>1, <2>2 DEF WSRemove
<1>5. outcome' \in [Names -> {"none", "written", "synced", "failed"}]
  BY <1>2, <1>4 DEF RoutinesOK
<1>6. /\ RoutinesOK'
      /\ stage'[w] = "none" /\ fname'[w] = None /\ sync'[w] = FALSE
      /\ \A v \in Writers : v # w =>
           stage'[v] = stage[v] /\ fname'[v] = fname[v] /\ sync'[v] = sync[v]
  BY <1>1, <1>2, <1>5, LeaveKeeps
<1>7. RoutineOK(w)'
  <2>1. fname'[w] \notin Manifests
    BY <1>6, WritableFileAssumption
  <2>2. QED
    BY <1>3, <1>4, <1>6, <2>1 DEF RoutineOK
<1>8. StringOK(own)'
  <2>1. CASE outcome' = outcome
    BY <1>3, <2>1, NotYet
  <2>2. CASE entry'[own] = None /\ outcome' = [outcome EXCEPT ![own] = "failed"]
    BY <1>2, <2>2 DEF StringOK, RoutinesOK
  <2>3. QED
    BY <1>4, <2>1, <2>2
<1>9. \A n \in Names : n # own => outcome'[n] = outcome[n]
  BY <1>2, <1>4 DEF RoutinesOK
<1>10. QED
  BY <1>4, <1>6, <1>7, <1>8, <1>9, OthersKeep

-----------------------------------------------------------------------------
(* A routine opens file i under the name n, which no other routine works   *)
(* on and no other name stands for.                                        *)
LEMMA OpenedString ==
  ASSUME IInv, StringInv, NEW w \in Writers, NEW n \in Names, NEW i \in Inodes, NEW s \in BOOLEAN,
         stage[w] = "none", \A v \in Writers : fname[v] # n,
         Opened(w, n, i, 0), NobodyWrites(i),
         entry'[n] = i, \A m \in Names : m # n =>
           entry'[m] = entry[m] /\ entry[m] # i /\ durable[m] # i,
         entry[n] = i \/ durable[n] # i,
         \A j \in Inodes : j # i => cache'[j] = cache[j] /\ disk'[j] = disk[j],
         stage' = [stage EXCEPT ![w] = "append"],
         fname' = [fname EXCEPT ![w] = n],
         sync' = [sync EXCEPT ![w] = s],
         outcome' = [outcome EXCEPT ![n] = "none"]
  PROVE  StringInv'
<1>1. /\ RoutinesOK /\ OneRoutine /\ OneName /\ WritersOK /\ NamesOK /\ NullOK
      /\ \A v \in Writers : RoutineOK(v)
      /\ \A m \in Names : StringOK(m)
  BY DEF StringInv, IInv, Typed
<1>2. n # None /\ i # None /\ None \notin Manifests
  BY WritableFileAssumption
<1>3. /\ RoutinesOK'
      /\ stage'[w] = "append" /\ fname'[w] = n /\ outcome'[n] = "none"
      /\ \A v \in Writers : v # w =>
           stage'[v] = stage[v] /\ fname'[v] = fname[v] /\ sync'[v] = sync[v]
      /\ \A m \in Names : m # n => outcome'[m] = outcome[m]
  BY <1>1 DEF RoutinesOK
<1>4. /\ at'[w] = "open" /\ name'[w] = n /\ file'[w] = i /\ given'[w] = 0 /\ failed'[w] = FALSE
      /\ durable' = durable
      /\ \A v \in Writers : v # w =>
           /\ at'[v] = at[v] /\ name'[v] = name[v] /\ file'[v] = file[v]
           /\ given'[v] = given[v] /\ failed'[v] = failed[v]
  BY <1>1 DEF Opened, Go, WritersOK, NamesOK
<1>5. OneRoutine'
  BY <1>1, <1>3 DEF OneRoutine
<1>6. OneName'
  <2>1. ASSUME NEW l \in Names, NEW m \in Names, l # m
        PROVE  /\ entry'[l] # None => entry'[l] # entry'[m] /\ entry'[l] # durable[m]
               /\ durable[l] # None => durable[l] # durable[m]
    <3>1. CASE l = n
      BY <1>1, <1>2, <2>1, <3>1 DEF OneName
    <3>2. CASE m = n
      BY <1>1, <1>2, <2>1, <3>2 DEF OneName
    <3>3. CASE l # n /\ m # n
      BY <1>1, <2>1, <3>3 DEF OneName
    <3>4. QED
      BY <3>1, <3>2, <3>3
  <2>2. QED
    BY <1>4, <2>1 DEF OneName
<1>7. RoutineOK(w)'
  BY <1>2, <1>3, <1>4 DEF RoutineOK
<1>8. ASSUME NEW v \in Writers, v # w PROVE RoutineOK(v)'
  <2>1. RoutineOK(v)
    BY <1>1
  <2>2. fname[v] # None =>
          entry'[fname[v]] = entry[fname[v]] /\ outcome'[fname[v]] = outcome[fname[v]]
    <3>1. fname[v] = None \/ (fname[v] \in Names /\ fname[v] # n)
      BY <1>1 DEF RoutinesOK
    <3>2. QED
      BY <1>3, <3>1
  <2>3. file[v] # None => cache'[file[v]] = cache[file[v]] /\ disk'[file[v]] = disk[file[v]]
    BY <1>1 DEF NobodyWrites, WritersOK
  <2>4. stage[v] = "close" => file[v] # None
    BY <1>1, <2>1 DEF NullOK, RoutineOK
  <2>5. file[v] # None => fname[v] # None
    BY <1>1, <2>1 DEF NullOK, RoutineOK
  <2>6. QED
    BY <1>2, <1>3, <1>4, <1>8, <2>1, <2>2, <2>3, <2>4, <2>5 DEF RoutineOK
<1>9. ASSUME NEW m \in Names PROVE StringOK(m)'
  <2>1. CASE m = n
    BY <1>3, <2>1 DEF StringOK
  <2>2. CASE m # n
    <3>1. StringOK(m)
      BY <1>1
    <3>2. entry[m] = None \/ (entry[m] \in Inodes /\ entry[m] # i)
      BY <1>1, <2>2 DEF NamesOK, Directory
    <3>3. entry[m] # None => cache'[entry[m]] = cache[entry[m]] /\ disk'[entry[m]] = disk[entry[m]]
      BY <3>2
    <3>4. entry'[m] = entry[m] /\ outcome'[m] = outcome[m] /\ durable'[m] = durable[m]
      BY <1>3, <1>4, <2>2
    <3>5. QED
      BY <3>1, <3>3, <3>4 DEF StringOK, HasString
  <2>3. QED
    BY <2>1, <2>2
<1>10. QED
  BY <1>3, <1>5, <1>6, <1>7, <1>8, <1>9 DEF StringInv

(* A step that is none of the routines'.                                   *)
LEMMA SameString ==
  ASSUME StringInv,
         UNCHANGED <<entry, durable, cache, disk, at, name, file, given, failed,
                     stage, fname, sync, outcome>>
  PROVE  StringInv'
<1>1. /\ RoutinesOK /\ OneRoutine /\ OneName
      /\ \A v \in Writers : RoutineOK(v)
      /\ \A m \in Names : StringOK(m)
  BY DEF StringInv
<1>2. RoutinesOK' /\ OneRoutine' /\ OneName'
  BY <1>1 DEF RoutinesOK, OneRoutine, OneName
<1>3. \A v \in Writers : RoutineOK(v)'
  BY <1>1 DEF RoutineOK
<1>4. \A m \in Names : StringOK(m)'
  BY <1>1 DEF StringOK, HasString
<1>5. QED
  BY <1>2, <1>3, <1>4 DEF StringInv

(* NewWritableFile.                                                        *)
LEMMA OpenString ==
  ASSUME IInv, StringInv, NEW w \in Writers, NEW n \in Names, NEW s \in BOOLEAN, WSOpen(w, n, s)
  PROVE  StringInv'
<1>1. /\ stage[w] = "none" /\ \A v \in Writers : fname[v] # n
      /\ NewWritableFile(w, n)
      /\ answer'[w] = "ok" =>
           /\ stage' = [stage EXCEPT ![w] = "append"]
           /\ fname' = [fname EXCEPT ![w] = n]
           /\ sync' = [sync EXCEPT ![w] = s]
           /\ outcome' = [outcome EXCEPT ![n] = "none"]
      /\ answer'[w] # "ok" => UNCHANGED <<stage, fname, sync, outcome>>
  BY DEF WSOpen
<1>2. Typed /\ OneName
  BY DEF IInv, StringInv
<1>3. ASSUME NEW i \in Inodes, Opened(w, n, i, 0) PROVE answer'[w] = "ok"
  BY <1>2, <1>3 DEF Opened, Answer, Typed, WritersOK
<1>4. CASE Create(w, n)
  <2>1. PICK i \in Inodes :
          /\ Unused(i)
          /\ Rebind([m \in {n} |-> i])
          /\ Opened(w, n, i, 0)
          /\ cache' = [cache EXCEPT ![i] = Nothing]
          /\ disk' = [disk EXCEPT ![i] = Nothing]
    BY <1>4 DEF Create
  <2>2. entry'[n] = i /\ \A m \in Names : m # n => entry'[m] = entry[m]
    BY <2>1 DEF Rebind
  <2>3. NobodyWrites(i) /\ \A m \in Names : entry[m] # i /\ durable[m] # i
    BY <2>1 DEF Unused, NobodyWrites
  <2>4. \A j \in Inodes : j # i => cache'[j] = cache[j] /\ disk'[j] = disk[j]
    BY <1>2, <2>1 DEF Typed, FilesOK
  <2>5. answer'[w] = "ok"
    BY <1>3, <2>1
  <2>6. QED
    BY <1>1, <2>1, <2>2, <2>3, <2>4, <2>5, OpenedString
<1>5. CASE Truncate(w, n)
  <2>1. PICK i \in Inodes : i = entry[n]
    BY <1>2, <1>5 DEF Truncate, Typed, NamesOK, Directory
  <2>2. /\ Opened(w, n, i, 0) /\ NobodyWrites(i) /\ UNCHANGED <<entry, disk>>
        /\ \A j \in Inodes : j # i => cache'[j] = cache[j]
    BY <1>2, <1>5, <2>1 DEF Truncate, Typed, FilesOK
  <2>3. i # None
    BY WritableFileAssumption
  <2>4. \A m \in Names : m # n => entry[m] # i /\ durable[m] # i
    BY <1>2, <2>1, <2>3 DEF OneName
  <2>5. answer'[w] = "ok"
    BY <1>3, <2>2
  <2>6. QED
    BY <1>1, <2>1, <2>2, <2>4, <2>5, OpenedString
<1>6. CASE OpenFails(w)
  <2>1. answer'[w] = "error" /\ at' = at
    BY <1>2, <1>6 DEF OpenFails, Answer, Go, Typed, WritersOK
  <2>2. UNCHANGED <<stage, fname, sync, outcome>>
    BY <1>1, <2>1
  <2>3. QED
    BY <1>6, <2>1, <2>2, SameString DEF OpenFails, promises
<1>7. QED
  BY <1>1, <1>4, <1>5, <1>6 DEF NewWritableFile

-----------------------------------------------------------------------------
(* The kernel writes back: what it holds is on disk, too.                  *)
LEMMA WriteBackString == ASSUME IInv, StringInv, WSWriteBack PROVE StringInv'
<1>1. /\ RoutinesOK /\ OneRoutine /\ OneName /\ Typed
      /\ \A v \in Writers : RoutineOK(v)
      /\ \A m \in Names : StringOK(m)
  BY DEF StringInv, IInv
<1>2. /\ UNCHANGED <<stage, fname, sync, outcome>>
      /\ UNCHANGED <<entry, cache, at, name, file, given, failed>>
      /\ \A n \in Names : durable'[n] = durable[n] \/ durable'[n] = entry[n]
      /\ \A j \in Inodes : disk'[j] = disk[j] \/ disk'[j] = cache[j]
  <2>1. ASSUME NEW i \in Inodes, WriteBackFile(i)
        PROVE  /\ UNCHANGED <<entry, durable, cache, at, name, file, given, failed>>
               /\ \A j \in Inodes : disk'[j] = disk[j] \/ disk'[j] = cache[j]
    BY <1>1, <2>1 DEF WriteBackFile, promises, Typed, FilesOK
  <2>2. ASSUME NEW n \in Names, WriteBackEntry(n)
        PROVE  /\ UNCHANGED <<entry, cache, disk, at, name, file, given, failed>>
               /\ \A m \in Names : durable'[m] = durable[m] \/ durable'[m] = entry[m]
    BY <1>1, <2>2 DEF WriteBackEntry, promises, Typed, NamesOK, Directory
  <2>3. QED
    BY <2>1, <2>2 DEF WSWriteBack
<1>3. RoutinesOK' /\ OneRoutine'
  BY <1>1, <1>2 DEF RoutinesOK, OneRoutine
<1>4. OneName'
  BY <1>1, <1>2 DEF OneName
<1>5. ASSUME NEW v \in Writers PROVE RoutineOK(v)'
  <2>1. RoutineOK(v)
    BY <1>1
  <2>2. stage[v] = "close" => file[v] \in Inodes
    <3>1. stage[v] = "close" => file[v] # None
      BY <1>1, <2>1 DEF Typed, NullOK, RoutineOK
    <3>2. QED
      BY <1>1, <3>1 DEF Typed, WritersOK
  <2>3. fname[v] \in Manifests => fname[v] \in Names
    BY WritableFileAssumption
  <2>4. QED
    BY <1>2, <2>1, <2>2, <2>3 DEF RoutineOK
<1>6. ASSUME NEW n \in Names PROVE StringOK(n)'
  <2>1. StringOK(n)
    BY <1>1
  <2>2. entry[n] # None => entry[n] \in Inodes
    BY <1>1 DEF Typed, NamesOK, Directory
  <2>3. entry[n] # None =>
          /\ cache'[entry[n]] = cache[entry[n]]
          /\ disk'[entry[n]] = disk[entry[n]] \/ disk'[entry[n]] = cache[entry[n]]
    BY <1>2, <2>2
  <2>4. outcome[n] = "synced" => HasString(entry, cache, n)
    BY <2>1 DEF StringOK
  <2>5. QED
    BY <1>2, <2>1, <2>3, <2>4 DEF StringOK, HasString
<1>7. QED
  BY <1>3, <1>4, <1>5, <1>6 DEF StringInv

(* A crash ends every routine.  What the kernel had outlives the process;  *)
(* what was synced, under a name that was, the power.                      *)
LEMMA CrashString == ASSUME IInv, StringInv, WSCrash PROVE StringInv'
<1>1. /\ RoutinesOK /\ OneName /\ Typed
      /\ \A m \in Names : StringOK(m)
  BY DEF StringInv, IInv
<1>2. /\ stage' = [w \in Writers |-> "none"]
      /\ fname' = [w \in Writers |-> None]
      /\ sync' = [w \in Writers |-> FALSE]
      /\ at' = [w \in Writers |-> "idle"]
      /\ file' = [w \in Writers |-> None]
      /\ UNCHANGED <<durable, disk>>
  BY DEF WSCrash, ProcessDies, PowerFails, Restart
<1>3. \/ UNCHANGED <<entry, cache, outcome>>
      \/ /\ entry' = durable /\ cache' = disk
         /\ outcome' = [n \in Names |->
              IF outcome[n] = "synced" /\ n \in Manifests THEN "synced" ELSE "none"]
  BY DEF WSCrash, ProcessDies, PowerFails
<1>4. RoutinesOK' /\ OneRoutine'
  BY <1>1, <1>2, <1>3 DEF RoutinesOK, OneRoutine
<1>5. OneName'
  BY <1>1, <1>2, <1>3 DEF OneName
<1>6. ASSUME NEW v \in Writers PROVE RoutineOK(v)'
  BY <1>2, WritableFileAssumption DEF RoutineOK
<1>7. ASSUME NEW n \in Names PROVE StringOK(n)'
  <2>1. StringOK(n)
    BY <1>1
  <2>2. CASE UNCHANGED <<entry, cache, outcome>>
    BY <1>2, <2>1, <2>2 DEF StringOK, HasString
  <2>3. CASE /\ entry' = durable /\ cache' = disk
             /\ outcome'[n] = "none" \/ (outcome[n] = "synced" /\ outcome'[n] = "synced"
                                           /\ n \in Manifests)
    BY <1>2, <2>1, <2>3 DEF StringOK, HasString
  <2>4. QED
    BY <1>3, <2>2, <2>3
<1>8. QED
  BY <1>4, <1>5, <1>6, <1>7 DEF StringInv

(* Every step of a routine is one of WritableFile, or none.                *)
LEMMA RoutineStep == ASSUME StringInv, NextW PROVE [Next]_vars
<1>1. CASE WSCrash \/ WSWriteBack
  BY <1>1 DEF WSCrash, WSWriteBack, Next, External
<1>2. ASSUME NEW w \in Writers, DoWriteStringToFile(w) PROVE [Next]_vars
  <2>1. RoutinesOK /\ RoutineOK(w)
    BY DEF StringInv
  <2>2. ASSUME NEW n \in Names, NEW s \in BOOLEAN, WSOpen(w, n, s) PROVE Call(w)
    BY <2>2 DEF WSOpen, Call
  <2>3. CASE WSAppend(w)
    <3>1. AppendRecords(w, StringLength) /\ StringLength \in 1..MaxRecords
      BY <2>3, WriteStringAssumption DEF WSAppend
    <3>2. Call(w)
      BY <3>1 DEF Call
    <3>3. QED
      BY <3>2 DEF Next
  <2>4. CASE WSSync(w) \/ WSClose(w) \/ WSDelete(w)
    <3>1. Call(w)
      BY <2>4 DEF WSSync, WSClose, WSDelete, Call
    <3>2. QED
      BY <3>1 DEF Next
  <2>5. CASE WSRemove(w)
    <3>1. CASE DeleteFile(fname[w])
      <4>1. fname[w] \in Names
        BY <2>1, <2>5 DEF RoutinesOK, RoutineOK, WSRemove
      <4>2. QED
        BY <3>1, <4>1 DEF Next
    <3>2. QED
      BY <2>5, <3>1 DEF WSRemove
  <2>6. QED
    BY <1>2, <2>2, <2>3, <2>4, <2>5 DEF DoWriteStringToFile, Next
<1>3. QED
  BY <1>1, <1>2 DEF NextW

(* Every step preserves both invariants.                                   *)
LEMMA NextString == IInv /\ StringInv /\ [NextW]_allVars => IInv' /\ StringInv'
<1> SUFFICES ASSUME IInv, StringInv, [NextW]_allVars PROVE IInv' /\ StringInv'
  OBVIOUS
<1>1. CASE UNCHANGED allVars
  <2>1. UNCHANGED vars /\ UNCHANGED <<stage, fname, sync, outcome>>
    BY <1>1 DEF allVars
  <2>2. UNCHANGED <<entry, durable, cache, disk, at, name, file, given, failed>>
    BY <2>1 DEF vars, promises
  <2>3. QED
    BY <2>1, <2>2, NextIInv, SameString
<1>2. CASE NextW
  <2>1. IInv'
    BY <1>2, RoutineStep, NextIInv
  <2>2. ASSUME NEW w \in Writers, DoWriteStringToFile(w) PROVE StringInv'
    BY <2>2, OpenString, AppendString, SyncString, CloseString, DeleteString, RemoveString
       DEF DoWriteStringToFile
  <2>3. QED
    BY <1>2, <2>1, <2>2, WriteBackString, CrashString DEF NextW
<1>3. QED
  BY <1>1, <1>2

(* WriteStringToFile writes all of the string if it returns OK, also if    *)
(* the process dies then; if it fails it leaves nothing of it, unless      *)
(* DeleteFile fails, too: for any routines at work on other names.         *)
THEOREM StringAllOrNothing == SpecW => []AllOrNothing
<1>1. StringInv => AllOrNothing
  BY DEF StringInv, StringOK, AllOrNothing
<1>2. QED
  BY <1>1, InitString, NextString, PTL DEF SpecW

(* What WriteStringToFileSync has written is on disk when it returns OK,   *)
(* and under its name if that is a manifest's, whatever crashes then.      *)
THEOREM SyncedStringStays == SpecW => []SyncedStringSurvives
<1>1. StringInv => SyncedStringSurvives
  BY DEF StringInv, StringOK, SyncedStringSurvives
<1>2. QED
  BY <1>1, InitString, NextString, PTL DEF SpecW

-----------------------------------------------------------------------------
(* ReadString.  A name whose last routine has returned OK.                 *)
Stands == {"written", "synced"}

ReadersOK ==
  /\ reading \in [Readers -> Inodes \cup {None}]
  /\ rname \in [Readers -> Names \cup {None}]
  /\ data \in [Readers -> Seq(Nat)]
  /\ fragment \in [Readers -> Nat]
  /\ status \in [Readers -> {"none", "busy", "ok", "error"}]
  /\ whole \in [Readers -> BOOLEAN]

(* What a reader has, as long as the string stands, is a part of it.       *)
ReaderOK(r) ==
  /\ status[r] = "busy" <=> reading[r] # None
  /\ whole[r] /\ status[r] \in {"busy", "ok"} =>
       /\ rname[r] \in Names /\ outcome[rname[r]] \in Stands
       /\ Len(data[r]) <= StringLength
       /\ status[r] = "ok" =>
            Len(data[r]) = StringLength /\ \A i, j \in DOMAIN data[r] : data[r][i] = data[r][j]
       /\ status[r] = "busy" =>
            /\ entry[rname[r]] = reading[r]
            /\ \A i \in DOMAIN data[r] : data[r][i] = cache[reading[r]].gen

ReadInv == ReadersOK /\ \A r \in Readers : ReaderOK(r)

(* Nobody has read anything.                                               *)
LEMMA InitRead == InitR => IInv /\ StringInv /\ ReadInv
<1> SUFFICES ASSUME InitR PROVE IInv /\ StringInv /\ ReadInv
  OBVIOUS
<1>1. ReadersOK
  BY DEF InitR, ReadersOK
<1>2. ASSUME NEW r \in Readers PROVE ReaderOK(r)
  BY DEF InitR, ReaderOK
<1>3. QED
  BY <1>1, <1>2, InitString DEF InitR, ReadInv

(* Writing out adds to a file and begins no new generation.                *)
LEMMA WritesGeneration ==
  ASSUME Typed, NEW w \in Writers, file[w] \in Inodes, NEW k, WriteOut(w, k)
  PROVE  \A i \in Inodes : cache'[i].gen = cache[i].gen
BY DEF WriteOut, Typed, FilesOK, Content

(* A routine that works on another name leaves a string that stands alone. *)
LEMMA StandsStill ==
  ASSUME IInv, StringInv, NEW w \in Writers, DoWriteStringToFile(w),
         NEW n \in Names, outcome[n] \in Stands, outcome'[n] \in Stands
  PROVE  entry'[n] = entry[n] /\ cache'[entry[n]].gen = cache[entry[n]].gen
<1>1. Typed /\ RoutinesOK /\ RoutineOK(w) /\ OneName /\ StringOK(n)
  BY DEF IInv, StringInv
<1>2. entry[n] \in Inodes /\ entry[n] # None
  BY <1>1 DEF Stands, StringOK, HasString, Typed, NamesOK, Directory
<1>3. CASE WSAppend(w)
  <2>1. file[w] \in Inodes
    BY <1>3, OpenFile DEF WSAppend
  <2>2. entry' = entry /\ \E k : WriteOut(w, k)
    BY <1>3 DEF WSAppend, AppendRecords, Lose
  <2>3. QED
    BY <1>1, <1>2, <2>1, <2>2, WritesGeneration
<1>4. CASE WSSync(w)
  <2>1. file[w] \in Inodes
    BY <1>4, OpenFile DEF WSSync
  <2>2. entry' = entry /\ (cache' = cache \/ \E k : WriteOut(w, k))
    BY <1>4 DEF WSSync, SyncDir, SkipDir, SyncFlush, SyncFile, WriteAll, Lose
  <2>3. QED
    BY <1>1, <1>2, <2>1, <2>2, WritesGeneration
<1>5. CASE WSClose(w) \/ WSDelete(w)
  <2>1. file[w] \in Inodes
    BY <1>5, OpenFile DEF WSClose, WSDelete
  <2>2. entry' = entry /\ \E k : WriteOut(w, k)
    BY <1>5 DEF WSClose, WSDelete, Close
  <2>3. QED
    BY <1>1, <1>2, <2>1, <2>2, WritesGeneration
<1>6. CASE WSRemove(w)
  <2>1. n # fname[w]
    BY <1>1, <1>6 DEF Stands, RoutineOK, WSRemove
  <2>2. CASE DeleteFile(fname[w])
    BY <2>1, <2>2 DEF DeleteFile, Rebind
  <2>3. CASE UNCHANGED vars
    BY <2>3 DEF vars
  <2>4. QED
    BY <1>6, <2>2, <2>3 DEF WSRemove
<1>7. ASSUME NEW m \in Names, NEW s \in BOOLEAN, WSOpen(w, m, s)
      PROVE  entry'[n] = entry[n] /\ cache'[entry[n]].gen = cache[entry[n]].gen
  <2>1. CASE OpenFails(w)
    BY <2>1 DEF OpenFails
  <2>2. CASE answer'[w] = "ok"
    <3>1. n # m
      BY <1>1, <1>7, <2>2 DEF WSOpen, Stands, RoutinesOK
    <3>2. CASE Create(w, m)
      <4>1. PICK i \in Inodes :
              Unused(i) /\ Rebind([l \in {m} |-> i]) /\ cache' = [cache EXCEPT ![i] = Nothing]
        BY <3>2 DEF Create
      <4>2. entry[n] # i
        BY <4>1 DEF Unused
      <4>3. QED
        BY <1>1, <1>2, <3>1, <4>1, <4>2 DEF Rebind, Typed, FilesOK
    <3>3. CASE Truncate(w, m)
      <4>1. entry' = entry /\ entry[n] # entry[m]
        BY <1>1, <1>2, <3>1, <3>3 DEF Truncate, OneName
      <4>2. QED
        BY <1>1, <1>2, <3>3, <4>1 DEF Truncate, Typed, FilesOK
    <3>4. QED
      BY <1>7, <2>1, <3>2, <3>3 DEF WSOpen, NewWritableFile
  <2>3. CASE answer'[w] # "ok"
    <3>1. CASE OpenFails(w)
      BY <2>1, <3>1
    <3>2. CASE Create(w, m) \/ Truncate(w, m)
      <4>1. Answer(w, "ok")
        BY <3>2 DEF Create, Truncate, Opened
      <4>2. QED
        BY <1>1, <2>3, <4>1 DEF Answer, Typed, WritersOK
    <3>3. QED
      BY <1>7, <3>1, <3>2 DEF WSOpen, NewWritableFile
  <2>4. QED
    BY <2>2, <2>3
<1>8. QED
  BY <1>3, <1>4, <1>5, <1>6, <1>7 DEF DoWriteStringToFile

(* A step of reader r, which only reads, is none of another's.             *)
LEMMA OthersRead ==
  ASSUME ReadInv, NEW r \in Readers, UNCHANGED allVars, ReadersOK', ReaderOK(r)',
         \A q \in Readers : q # r =>
           /\ reading'[q] = reading[q] /\ rname'[q] = rname[q] /\ data'[q] = data[q]
           /\ status'[q] = status[q] /\ whole'[q] = whole[q]
  PROVE  ReadInv'
<1>1. UNCHANGED <<entry, cache, outcome>>
  BY DEF allVars, vars
<1>2. ASSUME NEW q \in Readers, q # r PROVE ReaderOK(q)'
  <2>1. ReaderOK(q)
    BY DEF ReadInv
  <2>2. QED
    BY <1>1, <1>2, <2>1 DEF ReaderOK
<1>3. QED
  BY <1>2 DEF ReadInv

(* ReadFileToString: a record more, or the end, or an error.               *)
LEMMA ReadStep ==
  ASSUME IInv, StringInv, ReadInv, NEW r \in Readers, ReadFileToString(r) PROVE ReadInv'
<1>1. ReadersOK /\ ReaderOK(r) /\ Typed /\ \A n \in Names : StringOK(n)
  BY DEF ReadInv, StringInv, IInv
<1>2. StringLength \in Nat /\ None \notin Inodes
  BY WriteStringAssumption, WritableFileAssumption
<1>3. /\ data[r] \in Seq(Nat) /\ Len(data[r]) \in Nat /\ DOMAIN data[r] = 1..Len(data[r])
      /\ status[r] \in {"none", "busy", "ok", "error"}
      /\ fragment[r] \in Nat /\ whole[r] \in BOOLEAN
  BY <1>1 DEF ReadersOK
<1>4. reading[r] # None => reading[r] \in Inodes /\ cache[reading[r]] \in Content /\ status[r] = "busy"
  BY <1>1 DEF ReadersOK, Typed, FilesOK, ReaderOK
<1>5. /\ whole[r] /\ status[r] = "busy" => cache[reading[r]].len = StringLength
  BY <1>1 DEF ReaderOK, StringOK, Stands, HasString
<1>6. UNCHANGED allVars /\ UNCHANGED <<entry, cache, outcome>>
  <2>1. UNCHANGED allVars
    BY DEF ReadFileToString, RSOpen, ReadRecord, ReadEnd, ReadError
  <2>2. QED
    BY <2>1 DEF allVars, vars
<1>7. ASSUME NEW n \in Names, RSOpen(r, n) PROVE ReadInv'
  <2>1. entry[n] \in Inodes \cup {None}
    BY <1>1 DEF Typed, NamesOK, Directory
  <2>2. /\ status[r] # "busy" /\ reading[r] = None
        /\ data' = [data EXCEPT ![r] = <<>>]
        /\ rname' = [rname EXCEPT ![r] = n]
        /\ whole' = [whole EXCEPT ![r] = outcome[n] \in Stands]
        /\ fragment' = fragment
        /\ \/ /\ entry[n] # None
              /\ reading' = [reading EXCEPT ![r] = entry[n]]
              /\ status' = [status EXCEPT ![r] = "busy"]
           \/ status' = [status EXCEPT ![r] = "error"] /\ UNCHANGED reading
    BY <1>1, <1>7 DEF RSOpen, ReaderOK, Stands
  <2>3. (outcome[n] \in Stands) \in BOOLEAN /\ <<>> \in Seq(Nat)
    OBVIOUS
  <2>4. ReadersOK'
    BY <1>1, <2>1, <2>2, <2>3 DEF ReadersOK
  <2>5. /\ data'[r] = <<>> /\ rname'[r] = n /\ (whole'[r] <=> outcome[n] \in Stands)
        /\ \/ entry[n] # None /\ reading'[r] = entry[n] /\ status'[r] = "busy"
           \/ status'[r] = "error" /\ reading'[r] = None
    BY <1>1, <2>2 DEF ReadersOK
  <2>6. ReaderOK(r)'
    <3>1. Len(<<>>) = 0 /\ DOMAIN <<>> = {} /\ 0 <= StringLength
      BY <1>2
    <3>2. QED
      BY <1>6, <2>5, <3>1 DEF ReaderOK
  <2>7. \A q \in Readers : q # r =>
          /\ reading'[q] = reading[q] /\ rname'[q] = rname[q] /\ data'[q] = data[q]
          /\ status'[q] = status[q] /\ whole'[q] = whole[q]
    BY <1>1, <2>2 DEF ReadersOK
  <2>8. QED
    BY <1>6, <2>4, <2>6, <2>7, OthersRead
<1>8. CASE ReadRecord(r)
  <2> DEFINE g == cache[reading[r]].gen
             d == Append(data[r], g)
  <2>1. /\ reading[r] # None /\ ~(Len(data[r]) >= cache[reading[r]].len)
        /\ data' = [data EXCEPT ![r] = d]
        /\ fragment' = [fragment EXCEPT ![r] = (@ + 1) % Fragment]
        /\ UNCHANGED <<reading, rname, status, whole>>
    BY <1>8 DEF ReadRecord, Record, AtEnd
  <2>2. g \in Nat /\ cache[reading[r]].len \in Nat
    BY <1>4, <2>1 DEF Content
  <2> HIDE DEF g
  <2>3. /\ d \in Seq(Nat) /\ Len(d) = Len(data[r]) + 1 /\ DOMAIN d = 1..Len(d)
        /\ d[Len(d)] = g /\ \A i \in 1..Len(data[r]) : d[i] = data[r][i]
    BY <1>3, <2>2
  <2> HIDE DEF d
  <2>4. (fragment[r] + 1) % Fragment \in Nat
    BY <1>3, ReadStringAssumption
  <2>5. ReadersOK'
    BY <1>1, <2>1, <2>3, <2>4 DEF ReadersOK
  <2>6. data'[r] = d
    BY <1>1, <2>1 DEF ReadersOK
  <2>7. whole[r] => Len(d) <= StringLength /\ \A i \in DOMAIN d : d[i] = g
    <3>1. SUFFICES ASSUME whole[r]
                   PROVE  Len(d) <= StringLength /\ \A i \in DOMAIN d : d[i] = g
      OBVIOUS
    <3>2. cache[reading[r]].len = StringLength /\ \A i \in DOMAIN data[r] : data[r][i] = g
      BY <1>1, <1>4, <1>5, <2>1, <3>1 DEF ReaderOK, g
    <3>3. Len(data[r]) + 1 <= StringLength
      BY <1>2, <1>3, <2>1, <3>2
    <3>4. ASSUME NEW i \in DOMAIN d PROVE d[i] = g
      <4>1. i = Len(d) \/ i \in 1..Len(data[r])
        BY <1>3, <2>3
      <4>2. QED
        BY <1>3, <2>3, <3>2, <4>1
    <3>5. QED
      BY <2>3, <3>3, <3>4
  <2>8. ReaderOK(r)'
    <3>1. status[r] = "busy"
      BY <1>4, <2>1
    <3>2. QED
      BY <1>1, <1>6, <2>1, <2>6, <2>7, <3>1 DEF ReaderOK, g
  <2>9. \A q \in Readers : q # r => data'[q] = data[q]
    BY <1>1, <2>1 DEF ReadersOK
  <2>10. QED
    BY <1>6, <2>1, <2>5, <2>8, <2>9, OthersRead
<1>9. CASE ReadEnd(r)
  <2>1. /\ reading[r] # None /\ Len(data[r]) >= cache[reading[r]].len
        /\ UNCHANGED <<rname, data, whole>>
    BY <1>9 DEF ReadEnd, AtEnd
  <2>2. CASE Finish(r, "ok")
    <3>1. ReadersOK'
      BY <1>1, <2>1, <2>2 DEF Finish, ReadersOK
    <3>2. reading'[r] = None /\ status'[r] = "ok"
      BY <1>1, <2>2 DEF Finish, ReadersOK
    <3>3. whole[r] => Len(data[r]) = StringLength
      BY <1>1, <1>2, <1>3, <1>4, <1>5, <2>1 DEF ReaderOK
    <3>4. ReaderOK(r)'
      BY <1>1, <1>4, <1>6, <2>1, <3>2, <3>3 DEF ReaderOK
    <3>5. \A q \in Readers : q # r => reading'[q] = reading[q] /\ status'[q] = status[q]
      BY <1>1, <2>2 DEF Finish, ReadersOK
    <3>6. QED
      BY <1>6, <2>1, <3>1, <3>4, <3>5, OthersRead
  <2>3. CASE fragment' = [fragment EXCEPT ![r] = 0] /\ UNCHANGED <<reading, status>>
    <3>1. ReadersOK'
      BY <1>1, <2>1, <2>3 DEF ReadersOK
    <3>2. ReaderOK(r)'
      BY <1>1, <1>6, <2>1, <2>3 DEF ReaderOK
    <3>3. QED
      BY <1>6, <2>1, <2>3, <3>1, <3>2, OthersRead
  <2>4. QED
    BY <1>9, <2>2, <2>3 DEF ReadEnd
<1>10. CASE ReadError(r)
  <2> DEFINE d == SubSeq(data[r], 1, Len(data[r]) - fragment[r])
  <2>1. /\ data' = [data EXCEPT ![r] = d] /\ Finish(r, "error") /\ UNCHANGED <<rname, whole>>
    BY <1>10 DEF ReadError
  <2>2. d \in Seq(Nat)
    BY <1>3
  <2> HIDE DEF d
  <2>3. ReadersOK'
    BY <1>1, <2>1, <2>2 DEF Finish, ReadersOK
  <2>4. reading'[r] = None /\ status'[r] = "error"
    BY <1>1, <2>1 DEF Finish, ReadersOK
  <2>5. ReaderOK(r)'
    BY <2>4 DEF ReaderOK
  <2>6. \A q \in Readers : q # r =>
          reading'[q] = reading[q] /\ status'[q] = status[q] /\ data'[q] = data[q]
    BY <1>1, <2>1 DEF Finish, ReadersOK
  <2>7. QED
    BY <1>6, <2>1, <2>3, <2>5, <2>6, OthersRead
<1>11. QED
  BY <1>7, <1>8, <1>9, <1>10 DEF ReadFileToString

(* What WriteStringToFile does meanwhile is done to other names, unless it *)
(* takes back what the reader was told.                                    *)
LEMMA WritingStep ==
  ASSUME IInv, StringInv, ReadInv, NEW w \in Writers, Writing(w) PROVE ReadInv'
<1>1. ReadersOK /\ DoWriteStringToFile(w) /\ UNCHANGED <<reading, rname, data, fragment, status>>
  BY DEF ReadInv, Writing
<1>2. whole' = [r \in Readers |-> whole[r] /\ \A n \in Names : n = rname[r] => outcome'[n] \in Stands]
  BY DEF Writing, Stands
<1>3. ReadersOK'
  BY <1>1, <1>2 DEF ReadersOK
<1>4. ASSUME NEW r \in Readers PROVE ReaderOK(r)'
  <2>1. ReaderOK(r)
    BY DEF ReadInv
  <2>2. CASE ~whole'[r] \/ status[r] \notin {"busy", "ok"}
    BY <1>1, <2>1, <2>2 DEF ReaderOK
  <2>3. CASE whole'[r] /\ status[r] \in {"busy", "ok"}
    <3>1. whole[r]
      BY <1>2, <2>3
    <3>2. rname[r] \in Names /\ outcome[rname[r]] \in Stands
      BY <2>1, <2>3, <3>1 DEF ReaderOK
    <3>3. outcome'[rname[r]] \in Stands
      BY <1>2, <2>3, <3>2
    <3>4. entry'[rname[r]] = entry[rname[r]] /\ cache'[entry[rname[r]]].gen = cache[entry[rname[r]]].gen
      BY <1>1, <3>2, <3>3, StandsStill
    <3>5. QED
      BY <1>1, <2>1, <2>3, <3>1, <3>2, <3>3, <3>4 DEF ReaderOK
  <2>4. QED
    BY <2>2, <2>3
<1>5. QED
  BY <1>3, <1>4 DEF ReadInv

(* A step of ReadString is one of WriteString, or none.                    *)
LEMMA NextRead ==
  IInv /\ StringInv /\ ReadInv /\ [NextR]_<<allVars, readVars>> => IInv' /\ StringInv' /\ ReadInv'
<1> SUFFICES ASSUME IInv, StringInv, ReadInv, [NextR]_<<allVars, readVars>>
             PROVE  IInv' /\ StringInv' /\ ReadInv'
  OBVIOUS
<1>1. ReadersOK /\ \A r \in Readers : ReaderOK(r)
  BY DEF ReadInv
<1>2. ASSUME NEW r \in Readers, ReadFileToString(r) PROVE IInv' /\ StringInv' /\ ReadInv'
  <2>1. UNCHANGED allVars
    BY <1>2 DEF ReadFileToString, RSOpen, ReadRecord, ReadEnd, ReadError
  <2>2. QED
    BY <1>2, <2>1, NextString, ReadStep
<1>3. ASSUME NEW w \in Writers, Writing(w) PROVE IInv' /\ StringInv' /\ ReadInv'
  <2>1. NextW
    BY <1>3 DEF Writing, NextW
  <2>2. QED
    BY <1>3, <2>1, NextString, WritingStep
<1>4. CASE WritingBack
  <2>1. NextW /\ UNCHANGED readVars
    BY <1>4 DEF WritingBack, NextW
  <2>2. UNCHANGED <<entry, cache, outcome>>
    BY <1>4 DEF WritingBack, WSWriteBack, WriteBackFile, WriteBackEntry
  <2>3. ReadInv'
    BY <1>1, <2>1, <2>2 DEF readVars, ReadInv, ReadersOK, ReaderOK
  <2>4. QED
    BY <2>1, <2>3, NextString
<1>5. CASE Crash
  <2>1. NextW
    BY <1>5 DEF Crash, NextW
  <2>2. ReadersOK'
    BY <1>5 DEF Crash, ReadersOK
  <2>3. ASSUME NEW r \in Readers PROVE ReaderOK(r)'
    BY <1>5, <2>3 DEF Crash, ReaderOK
  <2>4. QED
    BY <2>1, <2>2, <2>3, NextString DEF ReadInv
<1>6. CASE UNCHANGED <<allVars, readVars>>
  <2>1. UNCHANGED allVars /\ UNCHANGED readVars /\ UNCHANGED <<entry, cache, outcome>>
    BY <1>6 DEF allVars, vars
  <2>2. ReadInv'
    BY <1>1, <2>1 DEF readVars, ReadInv, ReadersOK, ReaderOK
  <2>3. QED
    BY <2>1, <2>2, NextString
<1>7. QED
  BY <1>2, <1>3, <1>4, <1>5, <1>6 DEF NextR

(* What WriteStringToFile wrote before it returned OK is what              *)
(* ReadFileToString returns with OK, whatever other routines do meanwhile. *)
THEOREM ReadBack == SpecR => []ReadsBack
<1>1. ReadInv => ReadsBack
  BY DEF ReadInv, ReaderOK, ReadsBack
<1>2. QED
  BY <1>1, InitRead, NextRead, PTL DEF SpecR
=============================================================================
