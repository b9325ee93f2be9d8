---------------------------- MODULE WriteString ----------------------------
(***************************************************************************)
(* DoWriteStringToFile of db/Env.cpp, which WriteStringToFile and          *)
(* WriteStringToFileSync call: the calls it makes on a WritableFile, in    *)
(* the order the code makes them in, each of which may fail.  Every step   *)
(* of the routine is a step of WritableFile; between two of them the other *)
(* writers run, the kernel writes back, the process dies or the power      *)
(* fails.                                                                  *)
(***************************************************************************)
EXTENDS WritableFile

CONSTANT
  StringLength  (* records of the string                                   *)

ASSUME WriteStringAssumption == StringLength \in 1..MaxRecords

VARIABLES
  stage,        (* the call each writer's routine makes next               *)
  fname,        (* the argument fname of each writer's routine             *)
  sync,         (* the argument should_sync                                *)
  outcome       (* per name: what the last routine to return for it said   *)

allVars == <<vars, stage, fname, sync, outcome>>

InitW ==
  /\ Init
  /\ stage = [w \in Writers |-> "none"]
  /\ fname = [w \in Writers |-> None]
  /\ sync = [w \in Writers |-> FALSE]
  /\ outcome = [n \in Names |-> "none"]

-----------------------------------------------------------------------------
(* On to the call ok if the last one returned OK, to the call bad if not.  *)
Continue(w, ok, bad) ==
  /\ stage' = [stage EXCEPT ![w] = IF answer'[w] = "ok" THEN ok ELSE bad]
  /\ UNCHANGED <<fname, sync, outcome>>

Report(w, o) == outcome' = [outcome EXCEPT ![fname[w]] = o]

(* The routine returns.                                                    *)
Leave(w) ==
  /\ stage' = [stage EXCEPT ![w] = "none"]
  /\ fname' = [fname EXCEPT ![w] = None]
  /\ sync' = [sync EXCEPT ![w] = FALSE]

-----------------------------------------------------------------------------
(* Mutants of the definitions below, each a plausible slip in the code.    *)

(* The status of Close is lost.                                            *)
CloseUnchecked(w) ==
  /\ stage[w] = "close"
  /\ Close(w)
  /\ Leave(w)
  /\ Report(w, IF sync[w] THEN "synced" ELSE "written")

(* should_sync is not looked at.                                           *)
AppendNeverSyncs(w) ==
  /\ stage[w] = "append"
  /\ AppendRecords(w, StringLength)
  /\ Continue(w, "close", "delete")

-----------------------------------------------------------------------------
(* env->NewWritableFile(fname, &file).  One routine at a time has a name.  *)
WSOpen(w, n, s) ==
  /\ stage[w] = "none"
  /\ \A v \in Writers : fname[v] # n
  /\ NewWritableFile(w, n)
  /\ IF answer'[w] = "ok"
     THEN /\ stage' = [stage EXCEPT ![w] = "append"]
          /\ fname' = [fname EXCEPT ![w] = n]
          /\ sync' = [sync EXCEPT ![w] = s]
          /\ outcome' = [outcome EXCEPT ![n] = "none"]
     ELSE UNCHANGED <<stage, fname, sync, outcome>>

WSAppend(w) ==
  /\ stage[w] = "append"
  /\ AppendRecords(w, StringLength)
  /\ Continue(w, IF sync[w] THEN "sync" ELSE "close", "delete")

WSSync(w) ==
  /\ stage[w] = "sync"
  /\ SyncDir(w) \/ SkipDir(w) \/ SyncFlush(w) \/ SyncFile(w)
  /\ IF at'[w] = "open"
     THEN Continue(w, "close", "delete")
     ELSE UNCHANGED <<stage, fname, sync, outcome>>

WSClose(w) ==
  /\ stage[w] = "close"
  /\ Close(w)
  /\ IF answer'[w] = "ok"
     THEN Leave(w) /\ Report(w, IF sync[w] THEN "synced" ELSE "written")
     ELSE Continue(w, "none", "remove")

(* delete file, which closes it if it is still open.                       *)
WSDelete(w) ==
  /\ stage[w] = "delete"
  /\ Close(w)
  /\ stage' = [stage EXCEPT ![w] = "remove"]
  /\ UNCHANGED <<fname, sync, outcome>>

(* env->DeleteFile(fname), whose status is not looked at.                  *)
WSRemove(w) ==
  /\ stage[w] = "remove"
  /\ \/ DeleteFile(fname[w]) /\ Report(w, "failed")
     \/ UNCHANGED <<vars, outcome>>
  /\ Leave(w)

DoWriteStringToFile(w) ==
  \/ \E n \in Names, s \in BOOLEAN : WSOpen(w, n, s)
  \/ WSAppend(w) \/ WSSync(w) \/ WSClose(w) \/ WSDelete(w) \/ WSRemove(w)

-----------------------------------------------------------------------------
(* The kernel writes back.                                                 *)
WSWriteBack ==
  /\ (\E i \in Inodes : WriteBackFile(i)) \/ (\E n \in Names : WriteBackEntry(n))
  /\ UNCHANGED <<stage, fname, sync, outcome>>

(* The process dies or the power fails; only what was synced to a file     *)
(* whose directory was synced too outlives the latter.                     *)
WSCrash ==
  /\ stage' = [w \in Writers |-> "none"]
  /\ fname' = [w \in Writers |-> None]
  /\ sync' = [w \in Writers |-> FALSE]
  /\ \/ ProcessDies /\ UNCHANGED outcome
     \/ /\ PowerFails
        /\ outcome' = [n \in Names |->
             IF outcome[n] = "synced" /\ n \in Manifests THEN "synced" ELSE "none"]

NextW == (\E w \in Writers : DoWriteStringToFile(w)) \/ WSWriteBack \/ WSCrash

SpecW == InitW /\ [][NextW]_allVars

-----------------------------------------------------------------------------
(* Properties.                                                             *)

(* The name stands for a file with exactly the string.                     *)
HasString(directory, contents, n) ==
  directory[n] # None /\ contents[directory[n]].len = StringLength

(* If the routine returns OK the file has exactly the string, also after   *)
(* the process dies; if it fails, and DeleteFile does not, there is no     *)
(* file: never a truncated one or a part of the string.                    *)
AllOrNothing ==
  \A n \in Names :
    /\ outcome[n] \in {"written", "synced"} => HasString(entry, cache, n)
    /\ outcome[n] = "failed" => entry[n] = None

(* With should_sync the string is on disk before OK is returned, and a     *)
(* manifest's name is, too: it outlives a power failure.                   *)
SyncedStringSurvives ==
  \A n \in Names :
    outcome[n] = "synced" =>
      /\ HasString(entry, disk, n)
      /\ n \in Manifests => durable[n] = entry[n]
=============================================================================
