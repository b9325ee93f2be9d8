----------------------------- MODULE ReadString -----------------------------
(***************************************************************************)
(* ReadFileToString of db/Env.cpp over PosixSequentialFile, while          *)
(* WriteStringToFile runs in other threads.  A Read of a fragment is one   *)
(* fread(), which asks the kernel for more until it has the fragment or    *)
(* comes to the end of the file; the file may change in between.           *)
(***************************************************************************)
EXTENDS WriteString, Sequences

CONSTANTS
  Readers,
  Fragment      (* records of a fragment, kBufferSize in the code          *)

ASSUME ReadStringAssumption == Fragment \in Nat \ {0}

VARIABLES
  reading,      (* the file of each reader's file_, or None                *)
  rname,        (* the argument fname                                      *)
  data,         (* what has been read: the generation of every record      *)
  fragment,     (* how many records the Read under way has                 *)
  status,       (* what the routine returned, or "busy"                    *)
  whole         (* the file had the whole string when the routine began,   *)
                (* and no routine has opened it for writing since          *)

readVars == <<reading, rname, data, fragment, status, whole>>

InitR ==
  /\ InitW
  /\ reading = [r \in Readers |-> None]
  /\ rname = [r \in Readers |-> None]
  /\ data = [r \in Readers |-> <<>>]
  /\ fragment = [r \in Readers |-> 0]
  /\ status = [r \in Readers |-> "none"]
  /\ whole = [r \in Readers |-> FALSE]

-----------------------------------------------------------------------------
(* The next record in the file.                                            *)
Record(r) == cache[reading[r]].gen

AtEnd(r) == Len(data[r]) >= cache[reading[r]].len

(* delete file, and the routine returns s.                                 *)
Finish(r, s) ==
  /\ reading' = [reading EXCEPT ![r] = None]
  /\ fragment' = [fragment EXCEPT ![r] = 0]
  /\ status' = [status EXCEPT ![r] = s]

-----------------------------------------------------------------------------
(* Mutants of the definitions below, each a plausible slip in the code.    *)

(* Read takes every short fread() for the end of the file.                 *)
ReadErrorAsEnd(r) ==
  /\ reading[r] # None
  /\ Finish(r, "ok")
  /\ UNCHANGED <<allVars, rname, data, whole>>

-----------------------------------------------------------------------------
(* data->clear() and NewSequentialFile(): fopen() may find no file.        *)
RSOpen(r, n) ==
  /\ status[r] # "busy"
  /\ data' = [data EXCEPT ![r] = <<>>]
  /\ rname' = [rname EXCEPT ![r] = n]
  /\ whole' = [whole EXCEPT ![r] = outcome[n] \in {"written", "synced"}]
  /\ \/ /\ entry[n] # None
        /\ reading' = [reading EXCEPT ![r] = entry[n]]
        /\ status' = [status EXCEPT ![r] = "busy"]
     \/ status' = [status EXCEPT ![r] = "error"] /\ UNCHANGED reading
  /\ UNCHANGED <<allVars, fragment>>

(* fread() gets one more record; a full fragment is appended to *data.     *)
ReadRecord(r) ==
  /\ reading[r] # None /\ ~AtEnd(r)
  /\ data' = [data EXCEPT ![r] = Append(@, Record(r))]
  /\ fragment' = [fragment EXCEPT ![r] = (@ + 1) % Fragment]
  /\ UNCHANGED <<allVars, reading, rname, status, whole>>

(* A short fragment is appended, too, and Read is called again, unless it  *)
(* was empty; stdio may or may not ask the kernel again after the end.     *)
ReadEnd(r) ==
  /\ reading[r] # None /\ AtEnd(r)
  /\ \/ Finish(r, "ok")
     \/ /\ fragment[r] # 0
        /\ fragment' = [fragment EXCEPT ![r] = 0]
        /\ UNCHANGED <<reading, status>>
  /\ UNCHANGED <<allVars, rname, data, whole>>

(* Neither a full fragment nor feof(): it is dropped, the error returned.  *)
ReadError(r) ==
  /\ reading[r] # None
  /\ data' = [data EXCEPT ![r] = SubSeq(@, 1, Len(@) - fragment[r])]
  /\ Finish(r, "error")
  /\ UNCHANGED <<allVars, rname, whole>>

ReadFileToString(r) ==
  (\E n \in Names : RSOpen(r, n)) \/ ReadRecord(r) \/ ReadEnd(r) \/ ReadError(r)

-----------------------------------------------------------------------------
(* WriteStringToFile meanwhile.  An inode that a reader has open is not    *)
(* used for a new file.                                                    *)
Writing(w) ==
  /\ DoWriteStringToFile(w)
  /\ \A r \in Readers : reading[r] # None =>
       \A n \in Names : entry'[n] = reading[r] => entry[n] = reading[r]
  /\ whole' = [r \in Readers |-> whole[r] /\ \A n \in Names :
                 n = rname[r] => outcome'[n] \in {"written", "synced"}]
  /\ UNCHANGED <<reading, rname, data, fragment, status>>

WritingBack == WSWriteBack /\ UNCHANGED readVars

(* The readers are gone, too.                                              *)
Crash ==
  /\ WSCrash
  /\ reading' = [r \in Readers |-> None]
  /\ rname' = [r \in Readers |-> None]
  /\ data' = [r \in Readers |-> <<>>]
  /\ fragment' = [r \in Readers |-> 0]
  /\ status' = [r \in Readers |-> "none"]
  /\ whole' = [r \in Readers |-> FALSE]

NextR ==
  \/ \E r \in Readers : ReadFileToString(r)
  \/ \E w \in Writers : Writing(w)
  \/ WritingBack \/ Crash

SpecR == InitR /\ [][NextR]_<<allVars, readVars>>

-----------------------------------------------------------------------------
(* Properties.                                                             *)

(* A ReadFileToString that returns OK has read the whole string and only   *)
(* it, if WriteStringToFile had returned OK before and was not called      *)
(* again meanwhile, across fragments, short reads and crashes between.     *)
ReadsBack ==
  \A r \in Readers : status[r] = "ok" /\ whole[r] =>
    Len(data[r]) = StringLength /\ \A i, j \in DOMAIN data[r] : data[r][i] = data[r][j]
=============================================================================
