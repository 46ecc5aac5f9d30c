-------------------------- MODULE AtomicFileProofs --------------------------
(* What holds of AtomicFile for every number of calls and every set of        *)
(* documents, and that it implements the register its callers assume.         *)
EXTENDS AtomicFile, TLAPS

(* The inductive invariant.  ReadyToRename is why Rename keeps TargetWhole;   *)
(* the last conjunct says which documents have been asked for.                *)
HasDoc == \A w \in Writer : IF pc[w] = "idle" THEN doc[w] = None ELSE doc[w] \in Doc

FileInv ==
  /\ TypeOK
  /\ ReadyToRename
  /\ TargetWhole
  /\ NoLitter
  /\ OnlySuccessShows
  /\ HasDoc

(* The two updates of an inode and what they leave alone.                     *)
WithWhole(i, b) == [i EXCEPT !.whole = b]
WithSynced(i) == [i EXCEPT !.synced = TRUE]

(* Writing changes an inode's length and nothing else.                        *)
LEMMA WithWholeFields ==
  ASSUME NEW i \in Inode, NEW b \in BOOLEAN
  PROVE  /\ WithWhole(i, b) \in Inode
         /\ WithWhole(i, b).doc = i.doc
         /\ WithWhole(i, b).synced = i.synced
         /\ WithWhole(i, b).whole = b
BY DEF WithWhole, Inode

(* Flushing changes whether it is on the disk and nothing else.               *)
LEMMA WithSyncedFields ==
  ASSUME NEW i \in Inode
  PROVE  /\ WithSynced(i) \in Inode
         /\ WithSynced(i).doc = i.doc
         /\ WithSynced(i).whole = i.whole
         /\ WithSynced(i).synced
BY DEF WithSynced, Inode

(* It holds before the first call, when the file does not exist.              *)
LEMMA InitFileInv == Init => FileInv
<1> SUFFICES ASSUME Init PROVE FileInv
  OBVIOUS
<1>1. TypeOK
  BY DEF Init, TypeOK, Steps
<1>2. ReadyToRename /\ NoLitter
  BY DEF Init, ReadyToRename, Ready, NoLitter
<1>3. TargetWhole /\ OnlySuccessShows
  BY DEF Init, TargetWhole, OnlySuccessShows
<1> QED
  BY <1>1, <1>2, <1>3 DEF FileInv, HasDoc, Init

(* Every inode the path names or may name again is flushed, so a power        *)
(* failure takes none of its contents away.                                   *)
LEMMA PowerFailureTarget ==
  ASSUME FileInv, PowerFailure
  PROVE  target' \in earlier \cup {target}
<1>1. PICK i \in earlier \cup {target} : target' \in Survives(i)
  BY DEF PowerFailure
<1>2. i = None \/ i.synced
  BY DEF FileInv, TargetWhole
<1>3. Survives(i) = {i}
  BY <1>2 DEF Survives
<1> QED
  BY <1>1, <1>3

(* Types are kept by every step.                                              *)
LEMMA NextFileType == FileInv /\ [Next]_vars => TypeOK'
<1> SUFFICES ASSUME FileInv, [Next]_vars PROVE TypeOK'
  OBVIOUS
<1> USE DEF TypeOK, Inode, Steps, Goto
<1>1. ASSUME NEW w \in Writer, NEW d \in Doc, Call(w, d) PROVE TypeOK'
  BY <1>1 DEF FileInv, Call
<1>2. ASSUME NEW w \in Writer, CreateTemp(w) PROVE TypeOK'
  <2>1. doc[w] \in Doc
    BY <1>2 DEF FileInv, HasDoc, CreateTemp
  <2> QED
    BY <1>2, <2>1 DEF FileInv, CreateTemp
<1>3. ASSUME NEW w \in Writer, Write(w) PROVE TypeOK'
  <2>1. tmp' = [tmp EXCEPT ![w] = WithWhole(tmp[w], TRUE)]
    BY <1>3 DEF Write, WithWhole
  <2>2. tmp[w] \in Inode
    BY <1>3 DEF FileInv, Write, ReadyToRename, Ready
  <2>3. WithWhole(tmp[w], TRUE) \in Inode
    BY <2>2, WithWholeFields
  <2>4. tmp' \in [Writer -> Inode \cup {None}]
    BY <2>1, <2>3 DEF FileInv
  <2> QED
    BY <1>3, <2>4 DEF FileInv, Write
<1>4. ASSUME NEW w \in Writer, Sync(w) PROVE TypeOK'
  <2>1. tmp' = [tmp EXCEPT ![w] = WithSynced(tmp[w])]
    BY <1>4 DEF Sync, WithSynced
  <2>2. tmp[w] \in Inode
    BY <1>4 DEF FileInv, Sync, ReadyToRename, Ready
  <2>3. WithSynced(tmp[w]) \in Inode
    BY <2>2, WithSyncedFields
  <2>4. tmp' \in [Writer -> Inode \cup {None}]
    BY <2>1, <2>3 DEF FileInv
  <2> QED
    BY <1>4, <2>4 DEF FileInv, Sync
<1>5. ASSUME NEW w \in Writer, Close(w) \/ Chmod(w) \/ Kill(w) PROVE TypeOK'
  BY <1>5 DEF FileInv, Close, Chmod, Kill
<1>6. ASSUME NEW w \in Writer, Rename(w) PROVE TypeOK'
  BY <1>6 DEF FileInv, Rename
<1>7. ASSUME NEW w \in Writer, Fail(w) PROVE TypeOK'
  BY <1>7 DEF FileInv, Fail
<1>8. CASE DirectoryFlush
  BY <1>8 DEF FileInv, DirectoryFlush
<1>9. CASE PowerFailure
  <2>1. target' \in Inode \cup {None}
    BY <1>9, PowerFailureTarget DEF FileInv
  <2>2. tmp' \in [Writer -> Inode \cup {None}]
    <3>1. ASSUME NEW w \in Writer, tmp[w] # None
          PROVE  WithWhole(tmp[w], tmp[w].whole /\ tmp[w].synced) \in Inode
      <4>1. tmp[w] \in Inode
        BY <3>1 DEF FileInv
      <4>2. (tmp[w].whole /\ tmp[w].synced) \in BOOLEAN
        OBVIOUS
      <4> QED
        BY <4>1, <4>2, WithWholeFields
    <3>2. tmp' = [w \in Writer |-> IF tmp[w] = None THEN None
                    ELSE WithWhole(tmp[w], tmp[w].whole /\ tmp[w].synced)]
      BY <1>9 DEF PowerFailure, WithWhole
    <3> QED
      BY <3>1, <3>2
  <2> QED
    BY <1>9, <2>1, <2>2 DEF FileInv, PowerFailure
<1>10. CASE UNCHANGED vars
  BY <1>10 DEF FileInv, vars
<1> QED
  BY <1>1, <1>2, <1>3, <1>4, <1>5, <1>6, <1>7, <1>8, <1>9, <1>10 DEF Next

(* What the invariant says of one call.                                       *)
CallInv(w) ==
  /\ Ready(w)
  /\ pc[w] \in {"ok", "error"} => tmp[w] = None
  /\ IF pc[w] = "idle" THEN doc[w] = None ELSE doc[w] \in Doc

(* The steps of one call but its rename keep what the invariant says of it.   *)
LEMMA OwnStep ==
  ASSUME FileInv, TypeOK', NEW w \in Writer,
         \/ \E d \in Doc : Call(w, d)
         \/ CreateTemp(w) \/ Write(w) \/ Sync(w) \/ Close(w) \/ Chmod(w)
         \/ Fail(w) \/ Kill(w)
  PROVE  CallInv(w)'
<1> USE DEF CallInv, Ready, Goto
<1>1. TypeOK /\ CallInv(w)
  BY DEF FileInv, ReadyToRename, NoLitter, HasDoc
<1>2. ASSUME NEW d \in Doc, Call(w, d) PROVE CallInv(w)'
  BY <1>1, <1>2 DEF Call, TypeOK
<1>3. CASE CreateTemp(w)
  <2>1. tmp'[w] = [doc |-> doc[w], whole |-> FALSE, synced |-> FALSE] /\ pc'[w] = "write"
    BY <1>1, <1>3 DEF CreateTemp, TypeOK
  <2>2. doc'[w] = doc[w] /\ doc[w] \in Doc
    BY <1>1, <1>3 DEF CreateTemp
  <2>3. tmp'[w] \in Inode
    BY <2>1, <2>2 DEF Inode
  <2>4. tmp'[w] # None
    BY <2>3, DocAssumption
  <2> QED
    BY <2>1, <2>2, <2>4
<1>4. CASE Write(w)
  <2>1. tmp'[w] = WithWhole(tmp[w], TRUE) /\ pc'[w] = "sync" /\ doc'[w] = doc[w]
    BY <1>1, <1>4 DEF Write, TypeOK, WithWhole
  <2>2. tmp[w] \in Inode /\ tmp[w].doc = doc[w] /\ doc[w] \in Doc
    BY <1>1, <1>4 DEF Write, TypeOK
  <2>3. tmp'[w] # None /\ tmp'[w].doc = doc[w] /\ tmp'[w].whole
    BY <2>1, <2>2, WithWholeFields, DocAssumption
  <2> QED
    BY <2>1, <2>2, <2>3
<1>5. CASE Sync(w)
  <2>1. tmp'[w] = WithSynced(tmp[w]) /\ pc'[w] = "close" /\ doc'[w] = doc[w]
    BY <1>1, <1>5 DEF Sync, TypeOK, WithSynced
  <2>2. tmp[w] \in Inode /\ tmp[w].doc = doc[w] /\ doc[w] \in Doc /\ tmp[w].whole
    BY <1>1, <1>5 DEF Sync, TypeOK
  <2>3. tmp'[w] # None /\ tmp'[w].doc = doc[w] /\ tmp'[w].whole /\ tmp'[w].synced
    BY <2>1, <2>2, WithSyncedFields, DocAssumption
  <2> QED
    BY <2>1, <2>2, <2>3
<1>6. CASE Close(w)
  BY <1>1, <1>6 DEF Close, TypeOK
<1>7. CASE Chmod(w)
  BY <1>1, <1>7 DEF Chmod, TypeOK
<1>8. CASE Fail(w)
  BY <1>1, <1>8 DEF Fail, TypeOK
<1>9. CASE Kill(w)
  BY <1>1, <1>9 DEF Kill, TypeOK
<1> QED
  BY <1>2, <1>3, <1>4, <1>5, <1>6, <1>7, <1>8, <1>9

(* The same steps leave alone the other calls and what the path names.        *)
LEMMA OwnStepFrame ==
  ASSUME FileInv, NEW w \in Writer,
         \/ \E d \in Doc : Call(w, d)
         \/ CreateTemp(w) \/ Write(w) \/ Sync(w) \/ Close(w) \/ Chmod(w)
         \/ Fail(w) \/ Kill(w)
  PROVE  /\ UNCHANGED <<target, earlier>>
         /\ pc[w] # "ok"
         /\ \A v \in Writer \ {w} : pc'[v] = pc[v] /\ doc'[v] = doc[v] /\ tmp'[v] = tmp[v]
<1>1. UNCHANGED <<target, earlier>>
  BY DEF Call, CreateTemp, Write, Sync, Close, Chmod, Fail, Kill
<1>2. pc[w] # "ok"
  BY DEF Call, CreateTemp, Write, Sync, Close, Chmod, Fail, Kill
<1>3. \A v \in Writer \ {w} : pc'[v] = pc[v]
  BY DEF Call, CreateTemp, Write, Sync, Close, Chmod, Fail, Kill, Goto, FileInv, TypeOK
<1>4. \A v \in Writer \ {w} : doc'[v] = doc[v]
  BY DEF Call, CreateTemp, Write, Sync, Close, Chmod, Fail, Kill, FileInv, TypeOK
<1>5. \A v \in Writer \ {w} : tmp'[v] = tmp[v]
  BY DEF Call, CreateTemp, Write, Sync, Close, Chmod, Fail, Kill, FileInv, TypeOK
<1> QED
  BY <1>1, <1>2, <1>3, <1>4, <1>5

(* Every step keeps the invariant.                                            *)
LEMMA NextFileInv == FileInv /\ [Next]_vars => FileInv'
<1> SUFFICES ASSUME FileInv, [Next]_vars PROVE FileInv'
  OBVIOUS
<1>1. TypeOK'
  BY NextFileType
<1>2. ASSUME NEW w \in Writer,
             \/ \E d \in Doc : Call(w, d)
             \/ CreateTemp(w) \/ Write(w) \/ Sync(w) \/ Close(w) \/ Chmod(w)
             \/ Fail(w) \/ Kill(w)
      PROVE  FileInv'
  <2>1. CallInv(w)'
    BY <1>1, <1>2, OwnStep
  <2>2. /\ UNCHANGED <<target, earlier>>
        /\ pc[w] # "ok"
        /\ \A v \in Writer \ {w} : pc'[v] = pc[v] /\ doc'[v] = doc[v] /\ tmp'[v] = tmp[v]
    BY <1>2, OwnStepFrame
  <2>3. \A v \in Writer \ {w} : CallInv(v)'
    BY <2>2 DEF FileInv, CallInv, Ready, ReadyToRename, NoLitter, HasDoc
  <2>4. \A v \in Writer : CallInv(v)'
    BY <2>1, <2>3
  <2>5. ReadyToRename' /\ NoLitter' /\ HasDoc'
    BY <2>4 DEF CallInv, ReadyToRename, NoLitter, HasDoc
  <2>6. TargetWhole' /\ OnlySuccessShows'
    BY <2>2 DEF FileInv, TargetWhole, OnlySuccessShows
  <2> QED
    BY <1>1, <2>5, <2>6 DEF FileInv
<1>3. ASSUME NEW w \in Writer, Rename(w) PROVE FileInv'
  <2>1. /\ pc[w] = "rename" /\ pc' = [pc EXCEPT ![w] = "ok"]
        /\ target' = tmp[w] /\ earlier' = earlier \cup {target}
        /\ tmp' = [tmp EXCEPT ![w] = None] /\ doc' = doc
    BY <1>3 DEF Rename, Goto
  <2>2. tmp[w] # None /\ tmp[w].doc = doc[w] /\ tmp[w].whole /\ tmp[w].synced
    BY <2>1 DEF FileInv, ReadyToRename, Ready
  <2>3. pc'[w] = "ok" /\ tmp'[w] = None
    BY <2>1 DEF FileInv, TypeOK
  <2>4. \A v \in Writer \ {w} : pc'[v] = pc[v] /\ tmp'[v] = tmp[v]
    BY <2>1 DEF FileInv, TypeOK
  <2>5. TargetWhole'
    BY <2>1, <2>2 DEF FileInv, TargetWhole
  <2>6. OnlySuccessShows'
    BY <2>1, <2>2, <2>3, <2>4 DEF FileInv, OnlySuccessShows
  <2>7. ReadyToRename' /\ NoLitter' /\ HasDoc'
    BY <2>1, <2>3, <2>4 DEF FileInv, ReadyToRename, Ready, NoLitter, HasDoc
  <2> QED
    BY <1>1, <2>5, <2>6, <2>7 DEF FileInv
<1>4. CASE DirectoryFlush
  <2>1. earlier' = {} /\ UNCHANGED <<pc, doc, tmp, target>>
    BY <1>4 DEF DirectoryFlush
  <2> QED
    BY <1>1, <2>1 DEF FileInv, ReadyToRename, Ready, TargetWhole, NoLitter, OnlySuccessShows, HasDoc
<1>5. CASE PowerFailure
  <2>1. target' \in earlier \cup {target} /\ earlier' = {} /\ doc' = doc
    BY <1>5, PowerFailureTarget DEF PowerFailure
  <2>2. \A w \in Writer :
          /\ pc'[w] = IF pc[w] \in {"idle", "ok", "error"} THEN pc[w] ELSE "killed"
          /\ tmp[w] = None => tmp'[w] = None
    BY <1>5 DEF PowerFailure
  <2>3. TargetWhole' /\ OnlySuccessShows'
    BY <2>1, <2>2 DEF FileInv, TargetWhole, OnlySuccessShows
  <2>4. ReadyToRename' /\ NoLitter' /\ HasDoc'
    BY <2>1, <2>2 DEF FileInv, ReadyToRename, Ready, NoLitter, HasDoc
  <2> QED
    BY <1>1, <2>3, <2>4 DEF FileInv
<1>6. CASE UNCHANGED vars
  BY <1>1, <1>6 DEF vars, FileInv, ReadyToRename, Ready, TargetWhole, NoLitter, OnlySuccessShows, HasDoc
<1> QED
  BY <1>2, <1>3, <1>4, <1>5, <1>6 DEF Next

(* The invariant, for the theorems below.                                     *)
LEMMA FileInvariant == Spec => []FileInv
BY InitFileInv, NextFileInv, PTL DEF Spec

(* No truncated document is ever found under the path.                        *)
THEOREM AlwaysWhole == Spec => []TargetWhole
BY FileInvariant, PTL DEF FileInv

(* A call that returned has left no temporary file, whichever step failed.    *)
THEOREM NothingIsLeft == Spec => []NoLitter
BY FileInvariant, PTL DEF FileInv

(* A failed call has changed nothing: what is found was written successfully. *)
THEOREM FailureIsInvisible == Spec => []OnlySuccessShows
BY FileInvariant, PTL DEF FileInv
-----------------------------------------------------------------------------
(* One step of the calls is one step of the register, or none of it.          *)
LEMMA RegisterStep == FileInv /\ [Next]_vars => [R!Next]_(R!vars)
<1> SUFFICES ASSUME FileInv, [Next]_vars PROVE [R!Next]_(R!vars)
  OBVIOUS
<1> DEFINE asked == {doc[w] : w \in Writer} \ {None}
<1>1. ASSUME NEW w \in Writer, NEW d \in Doc, Call(w, d) PROVE R!Ask(d)
  <2>1. doc' = [doc EXCEPT ![w] = d] /\ doc[w] = None /\ UNCHANGED <<target, earlier>>
    BY <1>1 DEF Call, FileInv, HasDoc
  <2>2. doc'[w] = d /\ \A v \in Writer \ {w} : doc'[v] = doc[v]
    BY <2>1 DEF FileInv, TypeOK
  <2>3. asked' = asked \cup {d}
    BY <2>1, <2>2, DocAssumption
  <2> QED
    BY <2>1, <2>3 DEF R!Ask, DocOf
<1>2. ASSUME NEW w \in Writer,
             CreateTemp(w) \/ Write(w) \/ Sync(w) \/ Close(w) \/ Chmod(w) \/ Fail(w) \/ Kill(w)
      PROVE  UNCHANGED R!vars
  <2>1. UNCHANGED <<doc, target, earlier>>
    BY <1>2 DEF CreateTemp, Write, Sync, Close, Chmod, Fail, Kill
  <2> QED
    BY <2>1 DEF R!vars, DocOf
<1>3. ASSUME NEW w \in Writer, Rename(w) PROVE R!Take(doc[w])
  <2>1. /\ pc[w] = "rename" /\ target' = tmp[w]
        /\ earlier' = earlier \cup {target} /\ doc' = doc
    BY <1>3 DEF Rename
  <2>2. doc[w] \in asked
    BY <2>1, DocAssumption DEF FileInv, HasDoc
  <2>3. DocOf(tmp[w]) = doc[w]
    BY <2>1 DEF FileInv, ReadyToRename, Ready, DocOf
  <2> QED
    BY <2>1, <2>2, <2>3 DEF R!Take, DocOf
<1>4. CASE DirectoryFlush
  BY <1>4 DEF DirectoryFlush, R!MakeDurable, R!Next, DocOf
<1>5. CASE PowerFailure
  <2>1. target' \in earlier \cup {target} /\ earlier' = {} /\ doc' = doc
    BY <1>5, PowerFailureTarget DEF PowerFailure
  <2>2. R!PowerFailure
    BY <2>1 DEF R!PowerFailure, DocOf
  <2> QED
    BY <2>2 DEF R!Next
<1>6. CASE UNCHANGED vars
  BY <1>6 DEF vars, R!vars, DocOf
<1>7. ASSUME NEW w \in Writer, Rename(w) PROVE R!Next
  <2>1. doc[w] \in Doc
    BY <1>7 DEF Rename, FileInv, HasDoc
  <2> QED
    BY <1>3, <1>7, <2>1 DEF R!Next
<1>8. ASSUME NEW w \in Writer, NEW d \in Doc, Call(w, d) PROVE R!Next
  BY <1>1, <1>8 DEF R!Next
<1> QED
  BY <1>2, <1>4, <1>5, <1>6, <1>7, <1>8 DEF Next

(* Whatever fails and whoever is killed, the path is a register: readers find *)
(* whole documents, each write takes effect at its rename or not at all.      *)
THEOREM FileIsRegister == Spec => ImplementsRegister
<1>1. Init => R!Init
  <2> SUFFICES ASSUME Init PROVE R!Init
    OBVIOUS
  <2>1. {doc[w] : w \in Writer} \ {None} = {}
    BY DEF Init
  <2>2. DocOf(target) = None /\ {DocOf(i) : i \in earlier} = {}
    BY DEF Init, DocOf
  <2> QED
    BY <2>1, <2>2 DEF R!Init
<1> QED
  BY <1>1, FileInvariant, RegisterStep, PTL DEF Spec, ImplementsRegister, R!Spec
=============================================================================
