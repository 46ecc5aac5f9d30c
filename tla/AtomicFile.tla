----------------------------- MODULE AtomicFile -----------------------------
(* internal/atomicfile: write, as concurrent callers run it on one path, with *)
(* an error of any of its system calls, a kill of the calling process and a   *)
(* power failure at any point.  The store's entries.json, the receiver's and  *)
(* the puller's outputs are all written by it.                                *)
(*                                                                            *)
(* CreateTemp picks a name no other file has, so each call has a temporary    *)
(* file of its own; a name freed by a rename and picked again while the first *)
(* caller's deferred Remove is still to run is left out (32 random bits).     *)
EXTENDS FiniteSets

CONSTANTS
  Writer,  \* calls of write, each made at most once
  Doc,     \* the documents written
  None     \* no file, or no document

(* An inode: the document written to it, whether all of it is there, and      *)
(* whether it has reached the disk.                                           *)
Inode == [doc : Doc, whole : BOOLEAN, synced : BOOLEAN]

ASSUME DocAssumption == None \notin Doc \cup Inode

VARIABLES
  pc,      \* per call: the step it is at
  doc,     \* per call: its argument
  tmp,     \* per call: its temporary file
  target,  \* the inode the path names
  earlier  \* inodes the path may name again after a power failure: os.Rename
           \* is not followed by an fsync of the directory

vars == <<pc, doc, tmp, target, earlier>>

Steps == {"idle", "create", "write", "sync", "close", "chmod", "rename",
          "ok", "error", "killed"}

TypeOK ==
  /\ pc \in [Writer -> Steps]
  /\ doc \in [Writer -> Doc \cup {None}]
  /\ tmp \in [Writer -> Inode \cup {None}]
  /\ target \in Inode \cup {None}
  /\ earlier \subseteq Inode \cup {None}

Init ==
  /\ pc = [w \in Writer |-> "idle"]
  /\ doc = [w \in Writer |-> None]
  /\ tmp = [w \in Writer |-> None]
  /\ target = None
  /\ earlier = {}

Goto(w, step) == pc' = [pc EXCEPT ![w] = step]

Call(w, d) ==
  /\ pc[w] = "idle"
  /\ Goto(w, "create")
  /\ doc' = [doc EXCEPT ![w] = d]
  /\ UNCHANGED <<tmp, target, earlier>>

\* mutant: os.WriteFile straight to the path instead of a temporary file
WriteInPlace(w) ==
  /\ pc[w] = "write"
  /\ Goto(w, "sync")
  /\ tmp' = [tmp EXCEPT ![w].whole = TRUE]
  /\ target' = [doc |-> doc[w], whole |-> FALSE, synced |-> FALSE]
  /\ UNCHANGED <<doc, earlier>>

CreateTemp(w) ==
  /\ pc[w] = "create"
  /\ Goto(w, "write")
  /\ tmp' = [tmp EXCEPT ![w] = [doc |-> doc[w], whole |-> FALSE, synced |-> FALSE]]
  /\ UNCHANGED <<doc, target, earlier>>

Write(w) ==
  /\ pc[w] = "write"
  /\ Goto(w, "sync")
  /\ tmp' = [tmp EXCEPT ![w].whole = TRUE]
  /\ UNCHANGED <<doc, target, earlier>>

\* mutant: the file is renamed without having been flushed
SyncSkipped(w) ==
  /\ pc[w] = "sync"
  /\ Goto(w, "close")
  /\ UNCHANGED <<doc, tmp, target, earlier>>

Sync(w) ==
  /\ pc[w] = "sync"
  /\ Goto(w, "close")
  /\ tmp' = [tmp EXCEPT ![w].synced = TRUE]
  /\ UNCHANGED <<doc, target, earlier>>

Close(w) ==
  /\ pc[w] = "close"
  /\ Goto(w, "chmod")
  /\ UNCHANGED <<doc, tmp, target, earlier>>

Chmod(w) ==
  /\ pc[w] = "chmod"
  /\ Goto(w, "rename")
  /\ UNCHANGED <<doc, tmp, target, earlier>>

(* Rename, the return, and the deferred Remove, which finds nothing.  A       *)
(* caller killed after the rename is one whose return nobody sees.            *)
Rename(w) ==
  /\ pc[w] = "rename"
  /\ Goto(w, "ok")
  /\ target' = tmp[w]
  /\ earlier' = earlier \cup {target}
  /\ tmp' = [tmp EXCEPT ![w] = None]
  /\ UNCHANGED doc

\* mutant: the error paths return before the deferred Remove is registered
FailLeaving(w) ==
  /\ pc[w] \in {"create", "write", "sync", "close", "chmod", "rename"}
  /\ Goto(w, "error")
  /\ UNCHANGED <<doc, tmp, target, earlier>>

(* Any of the calls returns an error; the deferred Remove runs.               *)
Fail(w) ==
  /\ pc[w] \in {"create", "write", "sync", "close", "chmod", "rename"}
  /\ Goto(w, "error")
  /\ tmp' = [tmp EXCEPT ![w] = None]
  /\ UNCHANGED <<doc, target, earlier>>

Kill(w) ==
  /\ pc[w] \in {"create", "write", "sync", "close", "chmod", "rename"}
  /\ Goto(w, "killed")
  /\ UNCHANGED <<doc, tmp, target, earlier>>

(* The kernel writes the directory back some time after the renames.          *)
DirectoryFlush ==
  /\ earlier # {}
  /\ earlier' = {}
  /\ UNCHANGED <<pc, doc, tmp, target>>

(* What the disk holds of an inode when the power fails.                      *)
Survives(i) ==
  IF i = None \/ i.synced THEN {i}
  ELSE {[i EXCEPT !.whole = b] : b \in {FALSE, i.whole}}

(* Every process dies; the path names its inode or one it named before the    *)
(* renames that were not written back.                                        *)
PowerFailure ==
  /\ pc' = [w \in Writer |-> IF pc[w] \in {"idle", "ok", "error"} THEN pc[w] ELSE "killed"]
  /\ target' \in UNION {Survives(i) : i \in earlier \cup {target}}
  /\ earlier' = {}
  /\ tmp' = [w \in Writer |-> IF tmp[w] = None THEN None
                              ELSE [tmp[w] EXCEPT !.whole = @ /\ tmp[w].synced]]
  /\ UNCHANGED doc

Next ==
  \/ \E w \in Writer, d \in Doc : Call(w, d)
  \/ \E w \in Writer :
       \/ CreateTemp(w) \/ Write(w) \/ Sync(w) \/ Close(w) \/ Chmod(w) \/ Rename(w)
       \/ Fail(w) \/ Kill(w)
  \/ DirectoryFlush
  \/ PowerFailure

Spec == Init /\ [][Next]_vars

-----------------------------------------------------------------------------
(* By the time of the rename the temporary file is whole and flushed, and it  *)
(* is always the caller's own document.                                       *)
Ready(w) ==
  /\ pc[w] \in {"write", "sync", "close", "chmod", "rename"} =>
       tmp[w] # None /\ tmp[w].doc = doc[w]
  /\ pc[w] \in {"sync", "close", "chmod", "rename"} => tmp[w].whole
  /\ pc[w] \in {"close", "chmod", "rename"} => tmp[w].synced

ReadyToRename == \A w \in Writer : Ready(w)

(* What the path names, or may name again, is whole and on the disk: no       *)
(* error, kill or power failure leaves a truncated document under it.         *)
TargetWhole ==
  \A i \in {target} \cup earlier : i # None => i.whole /\ i.synced

(* A call that returned left no temporary file behind, whatever failed in it; *)
(* only a killed process does.                                                *)
NoLitter == \A w \in Writer : pc[w] \in {"ok", "error"} => tmp[w] = None

(* The document under the path is one whose call returned no error: a caller  *)
(* told of a failure, and one that died before the rename, changed nothing.   *)
OnlySuccessShows ==
  \A i \in {target} \cup earlier :
    i # None => \E w \in Writer : doc[w] = i.doc /\ pc[w] = "ok"

\* a truncated document is no document
DocOf(i) == IF i = None THEN None ELSE IF i.whole THEN i.doc ELSE None

R == INSTANCE Register WITH
       asked   <- {doc[w] : w \in Writer} \ {None},
       value   <- DocOf(target),
       earlier <- {DocOf(i) : i \in earlier}

(* What callers rely on: the path is a register of whole documents, taken     *)
(* over in one step, by the rename.                                           *)
ImplementsRegister == R!Spec
=============================================================================
