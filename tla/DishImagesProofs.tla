-------------------------- MODULE DishImagesProofs --------------------------
(***************************************************************************)
(* Proofs about DishImages: its type invariant, the relation of rows and   *)
(* files, and the bound on the number of rows under races.                 *)
(***************************************************************************)
EXTENDS DishImages, FiniteSetTheorems, TLAPS

(* What the request r does in one step.                                    *)
Act(r) == Begin(r) \/ Continue(r) \/ TransactionFails(r)

LEMMA NextSplit ==
    [Next]_vars <=> (\E r \in Requests : Act(r)) \/ Crash \/ UNCHANGED vars
BY DEF Next, Act

(***************************************************************************)
(* Type correctness, with what an image to be promoted is not.             *)
(***************************************************************************)
TypeInv == TypeOK /\ PromotesAnother

LEMMA InitType == Init => TypeInv
BY ImagesAssumption DEF Init, TypeInv, TypeOK, PromotesAnother, PCs

LEMMA BeginType ==
    ASSUME NEW r \in Requests, TypeInv, Begin(r)
    PROVE  TypeInv'
<1>. USE ImagesAssumption DEF TypeInv, TypeOK, PromotesAnother, PCs, Goto,
        table, disk, history, local, Fresh, Fault
<1>1. CASE RejectUpload(r)
  BY <1>1 DEF RejectUpload, vars
<1>2. CASE StoreFile(r)
  BY <1>2 DEF StoreFile
<1>3. CASE StoreFileFails(r)
  BY <1>3 DEF StoreFileFails
<1>4. CASE FindForCover(r)
  BY <1>4 DEF FindForCover
<1>5. CASE FindForDelete(r)
  BY <1>5 DEF FindForDelete
<1>. QED  BY <1>1, <1>2, <1>3, <1>4, <1>5 DEF Begin

LEMMA RankIsNat == Cardinality({i \in Images : createdAt[i] # 0}) + 1 \in Nat
<1>. DEFINE S == {i \in Images : createdAt[i] # 0}
<1>1. S \in SUBSET Images
  OBVIOUS
<1>2. IsFiniteSet(S)
  BY <1>1, ImagesAssumption, FS_Subset
<1>. QED  BY <1>2, FS_CardinalityType

LEMMA RowsFinite ==
    ASSUME TypeOK
    PROVE  IsFiniteSet(rows) /\ Cardinality(rows) \in Nat
<1>1. rows \in SUBSET Images
  BY DEF TypeOK
<1>. QED  BY <1>1, ImagesAssumption, FS_Subset, FS_CardinalityType

LEMMA ContinueType ==
    ASSUME NEW r \in Requests, TypeInv, Continue(r)
    PROVE  TypeInv'
<1>. USE ImagesAssumption DEF TypeInv, TypeOK, PromotesAnother, PCs, Goto,
        table, disk, history, local, Fault, Forget, EndTransaction
<1>1. CASE CountRows(r)
  BY <1>1, RowsFinite DEF CountRows
<1>2. CASE RejectFull(r)
  BY <1>2 DEF RejectFull
<1>3. CASE CommitUpload(r)
  BY <1>3, RankIsNat DEF CommitUpload, InsertRow
<1>4. CASE CommitUploadAckLost(r)
  BY <1>4, RankIsNat DEF CommitUploadAckLost, InsertRow
<1>5. CASE CleanUp(r)
  BY <1>5 DEF CleanUp, RemoveFile
<1>6. CASE BeginClear(r)
  BY <1>6 DEF BeginClear
<1>7. CASE ClearOne(r)
  BY <1>7 DEF ClearOne
<1>8. CASE CommitCover(r)
  BY <1>8 DEF CommitCover, RowExists
<1>9. CASE CoverGone(r)
  BY <1>9 DEF CoverGone, RowExists
<1>10. CASE DeleteRow(r)
  BY <1>10 DEF DeleteRow, RowExists, CommitDelete, DropRow
<1>11. CASE DeleteGone(r)
  BY <1>11 DEF DeleteGone, RowExists
<1>12. CASE FindNextCover(r)
  BY <1>12 DEF FindNextCover, CommitDelete, DropRow, IsFirst, Left
<1>13. CASE PromoteNext(r)
  BY <1>13 DEF PromoteNext, CommitDelete, DropRow
<1>14. CASE PromoteGone(r)
  BY <1>14 DEF PromoteGone
<1>15. CASE Unlink(r)
  BY <1>15 DEF Unlink, RemoveFile
<1>. QED  BY <1>1, <1>2, <1>3, <1>4, <1>5, <1>6, <1>7, <1>8, <1>9, <1>10, <1>11, <1>12, <1>13, <1>14, <1>15 DEF Continue

LEMMA NextType == TypeInv /\ [Next]_vars => TypeInv'
<1>. SUFFICES ASSUME TypeInv, [Next]_vars PROVE TypeInv'
  OBVIOUS
<1>1. ASSUME NEW r \in Requests, TransactionFails(r)
      PROVE  TypeInv'
  BY <1>1 DEF TransactionFails, TypeInv, TypeOK, PromotesAnother, PCs, Forget,
       EndTransaction, table, disk, history
<1>2. CASE Crash
  BY <1>2, ImagesAssumption DEF Crash, Fault, TypeInv, TypeOK, PromotesAnother,
       PCs, InFlight, OwnsFile, table, disk
<1>3. CASE UNCHANGED vars
  BY <1>3 DEF vars, table, disk, history, local, TypeInv, TypeOK, PromotesAnother
<1>. QED  BY <1>1, <1>2, <1>3, BeginType, ContinueType, NextSplit DEF Act

(* The variables have their types in every reachable state, whatever the   *)
(* number of requests, images and faults.                                  *)
THEOREM TypeCorrect == Spec => [](TypeOK /\ PromotesAnother)
<1>1. TypeInv <=> TypeOK /\ PromotesAnother
  BY DEF TypeInv
<1>. QED  BY <1>1, InitType, NextType, PTL DEF Spec

(***************************************************************************)
(* Rows and files.  RowsHaveFiles alone is not inductive: that a request   *)
(* never removes the file of a row rests on Ownership, which says that the *)
(* identity of an upload is its own and that the request that is about to  *)
(* remove a file finds no row for it.                                      *)
(***************************************************************************)
FileInv == Ownership /\ RowsHaveFiles

LEMMA InitFile == Init => FileInv
BY DEF Init, FileInv, Ownership, RowsHaveFiles, Uploading, OwnsFile

LEMMA BeginFile ==
    ASSUME NEW r \in Requests, TypeInv, FileInv, Begin(r)
    PROVE  FileInv'
<1>. USE DEF TypeInv, TypeOK, PCs, FileInv, Ownership, RowsHaveFiles, Uploading,
        OwnsFile, Goto, table, disk, history, local, Fresh, Fault
<1>1. CASE RejectUpload(r)
  BY <1>1 DEF RejectUpload, vars
<1>2. CASE StoreFile(r)
  BY <1>2 DEF StoreFile
<1>3. CASE StoreFileFails(r)
  BY <1>3 DEF StoreFileFails
<1>4. CASE FindForCover(r)
  BY <1>4 DEF FindForCover
<1>5. CASE FindForDelete(r)
  BY <1>5 DEF FindForDelete
<1>. QED  BY <1>1, <1>2, <1>3, <1>4, <1>5 DEF Begin

LEMMA ContinueFile ==
    ASSUME NEW r \in Requests, "ack" \notin FaultKinds,
           TypeInv, FileInv, Continue(r)
    PROVE  FileInv'
<1>. USE DEF TypeInv, TypeOK, PCs, FileInv, Ownership, RowsHaveFiles, Uploading,
        OwnsFile, Goto, table, disk, history, local, Fault, Forget, EndTransaction
<1>1. CASE CountRows(r)
  BY <1>1 DEF CountRows
<1>2. CASE RejectFull(r)
  BY <1>2 DEF RejectFull
<1>3. CASE CommitUpload(r)
  BY <1>3 DEF CommitUpload, InsertRow
<1>4. CASE CommitUploadAckLost(r)
  BY <1>4 DEF CommitUploadAckLost, InsertRow
<1>5. CASE CleanUp(r)
  BY <1>5 DEF CleanUp, RemoveFile
<1>6. CASE BeginClear(r)
  BY <1>6 DEF BeginClear
<1>7. CASE ClearOne(r)
  BY <1>7 DEF ClearOne
<1>8. CASE CommitCover(r)
  BY <1>8 DEF CommitCover, RowExists
<1>9. CASE CoverGone(r)
  BY <1>9 DEF CoverGone, RowExists
<1>10. CASE DeleteRow(r)
  BY <1>10 DEF DeleteRow, RowExists, CommitDelete, DropRow
<1>11. CASE DeleteGone(r)
  BY <1>11 DEF DeleteGone, RowExists
<1>12. CASE FindNextCover(r)
  BY <1>12 DEF FindNextCover, CommitDelete, DropRow, IsFirst, Left
<1>13. CASE PromoteNext(r)
  BY <1>13 DEF PromoteNext, CommitDelete, DropRow
<1>14. CASE PromoteGone(r)
  BY <1>14 DEF PromoteGone
<1>15. CASE Unlink(r)
  BY <1>15 DEF Unlink, RemoveFile
<1>. QED  BY <1>1, <1>2, <1>3, <1>4, <1>5, <1>6, <1>7, <1>8, <1>9, <1>10, <1>11, <1>12, <1>13, <1>14, <1>15 DEF Continue

LEMMA NextFile ==
    ASSUME "ack" \notin FaultKinds
    PROVE  TypeInv /\ FileInv /\ [Next]_vars => FileInv'
<1>. SUFFICES ASSUME TypeInv, FileInv, [Next]_vars PROVE FileInv'
  OBVIOUS
<1>. USE DEF TypeInv, TypeOK, PCs, FileInv, Ownership, RowsHaveFiles, Uploading,
        OwnsFile, table, disk, history, local
<1>1. ASSUME NEW r \in Requests, TransactionFails(r)
      PROVE  FileInv'
  BY <1>1 DEF TransactionFails, Forget, EndTransaction
<1>2. CASE Crash
  BY <1>2 DEF Crash
<1>3. CASE UNCHANGED vars
  BY <1>3 DEF vars
<1>. QED  BY <1>1, <1>2, <1>3, BeginFile, ContinueFile, NextSplit DEF Act

(* Unless the answer to a COMMIT is lost, a listed image always has its    *)
(* file: for any number of concurrent requests, with crashes between any   *)
(* two steps and with failing writes and unlinks.                          *)
THEOREM ListedImagesAreServable ==
    ASSUME "ack" \notin FaultKinds
    PROVE  Spec => []RowsHaveFiles
<1>1. FileInv => RowsHaveFiles
  BY DEF FileInv
<1>. QED  BY <1>1, InitType, NextType, InitFile, NextFile, PTL DEF Spec

(***************************************************************************)
(* Orphans.  What a step takes away from the rows or from the requests in  *)
(* flight it gives to the other, removes, or charges to a fault.           *)
(***************************************************************************)
LEMMA ContinueAccounts ==
    ASSUME NEW r \in Requests, TypeInv, FilesAccountedFor, Continue(r)
    PROVE  FilesAccountedFor'
<1>. USE DEF TypeInv, TypeOK, PCs, FilesAccountedFor, InFlight, OwnsFile,
        Goto, table, disk, history, local, Fault, Forget, EndTransaction
<1>1. CASE CountRows(r)
  BY <1>1 DEF CountRows
<1>2. CASE RejectFull(r)
  BY <1>2 DEF RejectFull
<1>3. CASE CommitUpload(r)
  BY <1>3 DEF CommitUpload, InsertRow
<1>4. CASE CommitUploadAckLost(r)
  BY <1>4 DEF CommitUploadAckLost, InsertRow
<1>5. CASE CleanUp(r)
  BY <1>5 DEF CleanUp, RemoveFile
<1>6. CASE BeginClear(r)
  BY <1>6 DEF BeginClear
<1>7. CASE ClearOne(r)
  BY <1>7 DEF ClearOne
<1>8. CASE CommitCover(r)
  BY <1>8 DEF CommitCover, RowExists
<1>9. CASE CoverGone(r)
  BY <1>9 DEF CoverGone, RowExists
<1>10. CASE DeleteRow(r)
  BY <1>10 DEF DeleteRow, RowExists, CommitDelete, DropRow
<1>11. CASE DeleteGone(r)
  BY <1>11 DEF DeleteGone, RowExists
<1>12. CASE FindNextCover(r)
  BY <1>12 DEF FindNextCover, CommitDelete, DropRow, IsFirst, Left
<1>13. CASE PromoteNext(r)
  BY <1>13 DEF PromoteNext, CommitDelete, DropRow
<1>14. CASE PromoteGone(r)
  BY <1>14 DEF PromoteGone
<1>15. CASE Unlink(r)
  BY <1>15 DEF Unlink, RemoveFile
<1>. QED  BY <1>1, <1>2, <1>3, <1>4, <1>5, <1>6, <1>7, <1>8, <1>9, <1>10, <1>11, <1>12, <1>13, <1>14, <1>15 DEF Continue

LEMMA NextAccounts ==
    TypeInv /\ FilesAccountedFor /\ [Next]_vars => FilesAccountedFor'
<1>. SUFFICES ASSUME TypeInv, FilesAccountedFor, [Next]_vars
              PROVE  FilesAccountedFor'
  OBVIOUS
<1>. USE DEF TypeInv, TypeOK, PCs, FilesAccountedFor, InFlight, OwnsFile,
        table, disk, history, local
<1>1. ASSUME NEW r \in Requests, Begin(r)
      PROVE  FilesAccountedFor'
  <2>1. CASE RejectUpload(r)
    BY <2>1 DEF RejectUpload, vars
  <2>2. CASE StoreFile(r)
    BY <2>2 DEF StoreFile, Goto, Fresh
  <2>3. CASE StoreFileFails(r)
    BY <2>3 DEF StoreFileFails, Fault, Fresh
  <2>4. CASE FindForCover(r)
    BY <2>4 DEF FindForCover, Goto
  <2>5. CASE FindForDelete(r)
    BY <2>5 DEF FindForDelete, Goto
  <2>. QED  BY <1>1, <2>1, <2>2, <2>3, <2>4, <2>5 DEF Begin
<1>2. ASSUME NEW r \in Requests, TransactionFails(r)
      PROVE  FilesAccountedFor'
  BY <1>2 DEF TransactionFails, Forget, EndTransaction
<1>3. CASE Crash
  BY <1>3 DEF Crash
<1>4. CASE UNCHANGED vars
  BY <1>4 DEF vars
<1>. QED  BY <1>1, <1>2, <1>3, <1>4, ContinueAccounts, NextSplit DEF Act

(* Every file without a row belongs to a request in flight or is to be     *)
(* charged to a fault, however many requests race.                         *)
THEOREM NoSilentOrphans == Spec => []FilesAccountedFor
<1>1. Init => FilesAccountedFor
  BY DEF Init, FilesAccountedFor
<1>. QED  BY <1>1, InitType, NextType, NextAccounts, PTL DEF Spec

(***************************************************************************)
(* The limit under races.  A request between its count and its insertion   *)
(* is a row to come; RoomForCounted bounds the rows present and to come.   *)
(* An upload enters the race only while the rows present are below the     *)
(* limit, and then all requests together are no more than Requests; inside *)
(* the race an insertion only turns a row to come into a row.              *)
(***************************************************************************)
LEMMA PastCountFinite ==
    /\ IsFiniteSet(PastCount) /\ Cardinality(PastCount) \in Nat
    /\ Cardinality(Requests) \in Nat \ {0}
    /\ Cardinality(PastCount) <= Cardinality(Requests)
<1>1. PastCount \in SUBSET Requests
  BY DEF PastCount
<1>. QED  BY <1>1, ImagesAssumption, FS_Subset, FS_CardinalityType, FS_EmptySet

LEMMA PastCountFinitePrime ==
    /\ IsFiniteSet(PastCount') /\ Cardinality(PastCount') \in Nat
    /\ Cardinality(PastCount') <= Cardinality(Requests)
<1>1. PastCount' \in SUBSET Requests
  BY DEF PastCount
<1>. QED  BY <1>1, ImagesAssumption, FS_Subset, FS_CardinalityType

(* A step that neither inserts a row nor takes an upload past its count.   *)
LEMMA NoneAdded ==
    ASSUME TypeOK, RoomForCounted, rows' \subseteq rows,
           PastCount' \subseteq PastCount
    PROVE  RoomForCounted'
<1>1. /\ Cardinality(rows') \in Nat
      /\ Cardinality(rows') <= Cardinality(rows)
  BY RowsFinite, FS_Subset, FS_CardinalityType
<1>2. Cardinality(PastCount') <= Cardinality(PastCount)
  BY PastCountFinite, FS_Subset
<1>. QED
  BY <1>1, <1>2, RowsFinite, PastCountFinite, PastCountFinitePrime,
     ImagesAssumption DEF RoomForCounted

LEMMA CountKeepsRoom ==
    ASSUME TypeOK, NEW r \in Requests, CountRows(r)
    PROVE  RoomForCounted'
<1>1. Cardinality(rows) < MaxImages /\ rows' = rows
  BY DEF CountRows, BelowLimit, table
<1>. QED
  BY <1>1, RowsFinite, PastCountFinite, PastCountFinitePrime, ImagesAssumption
     DEF RoomForCounted

LEMMA InsertKeepsRoom ==
    ASSUME TypeOK, RoomForCounted, NEW r \in Requests,
           CommitUpload(r) \/ CommitUploadAckLost(r)
    PROVE  RoomForCounted'
<1>1. /\ r \in PastCount
      /\ PastCount' = PastCount \ {r}
  BY DEF CommitUpload, CommitUploadAckLost, Goto, PastCount, TypeOK
<1>2. Cardinality(PastCount') = Cardinality(PastCount) - 1
  BY <1>1, PastCountFinite, FS_RemoveElement
<1>3. rows' = rows \cup {img[r]}
  BY DEF CommitUpload, CommitUploadAckLost, InsertRow
<1>4. /\ Cardinality(rows') \in Nat
      /\ Cardinality(rows') <= Cardinality(rows) + 1
  <2>1. /\ IsFiniteSet(rows')
        /\ Cardinality(rows') = IF img[r] \in rows THEN Cardinality(rows)
                                ELSE Cardinality(rows) + 1
    BY <1>3, RowsFinite, FS_AddElement
  <2>. QED  BY <2>1, RowsFinite, FS_CardinalityType
<1>. QED
  BY <1>2, <1>4, RowsFinite, PastCountFinite, ImagesAssumption DEF RoomForCounted

LEMMA OthersAddNone ==
    ASSUME TypeOK, [Next]_vars,
           \A r \in Requests : ~CountRows(r) /\ ~CommitUpload(r)
                                /\ ~CommitUploadAckLost(r)
    PROVE  rows' \subseteq rows /\ PastCount' \subseteq PastCount
<1>. USE DEF TypeOK, PastCount, Goto, table, disk, history, local
<1>1. ASSUME NEW r \in Requests, Begin(r)
      PROVE  rows' \subseteq rows /\ PastCount' \subseteq PastCount
  BY <1>1 DEF Begin, RejectUpload, StoreFile, StoreFileFails, FindForCover,
       FindForDelete, vars
<1>2. ASSUME NEW r \in Requests, Continue(r)
      PROVE  rows' \subseteq rows /\ PastCount' \subseteq PastCount
  <2>1. CASE RejectFull(r) \/ CleanUp(r)
    BY <2>1 DEF RejectFull, CleanUp
  <2>2. CASE BeginClear(r) \/ ClearOne(r) \/ CommitCover(r) \/ CoverGone(r)
    BY <2>2 DEF BeginClear, ClearOne, CommitCover, CoverGone
  <2>3. CASE DeleteRow(r) \/ DeleteGone(r)
    BY <2>3 DEF DeleteRow, DeleteGone, CommitDelete, DropRow
  <2>4. CASE FindNextCover(r) \/ PromoteNext(r) \/ PromoteGone(r) \/ Unlink(r)
    BY <2>4 DEF FindNextCover, PromoteNext, PromoteGone, Unlink, CommitDelete,
         DropRow
  <2>. QED  BY <1>2, <2>1, <2>2, <2>3, <2>4 DEF Continue
<1>3. ASSUME NEW r \in Requests, TransactionFails(r)
      PROVE  rows' \subseteq rows /\ PastCount' \subseteq PastCount
  BY <1>3 DEF TransactionFails
<1>4. CASE Crash
  BY <1>4 DEF Crash
<1>5. CASE UNCHANGED vars
  BY <1>5 DEF vars
<1>. QED  BY <1>1, <1>2, <1>3, <1>4, <1>5, NextSplit DEF Act

LEMMA NextRoom == TypeInv /\ RoomForCounted /\ [Next]_vars => RoomForCounted'
BY NoneAdded, CountKeepsRoom, InsertKeepsRoom, OthersAddNone DEF TypeInv

(* However many uploads race, the limit is overrun by at most one image    *)
(* for each request but one: MaxImages + Cardinality(Requests) - 1 rows.   *)
THEOREM RacesOverrunLimitByRequests == Spec => []LimitWithinRace
<1>1. Init => RoomForCounted
  <2>. SUFFICES ASSUME Init PROVE RoomForCounted
    OBVIOUS
  <2>1. rows = {} /\ PastCount = {}
    BY DEF Init, PastCount
  <2>. QED
    BY <2>1, PastCountFinite, FS_EmptySet, ImagesAssumption DEF RoomForCounted
<1>2. TypeInv /\ RoomForCounted => LimitWithinRace
  BY RowsFinite, PastCountFinite, ImagesAssumption
     DEF TypeInv, RoomForCounted, LimitWithinRace
<1>. QED  BY <1>1, <1>2, InitType, NextType, NextRoom, PTL DEF Spec

(* One request at a time, the limit holds exactly.                         *)
THEOREM SerialLimit ==
    ASSUME Cardinality(Requests) = 1
    PROVE  Spec => []LimitHolds
<1>1. TypeInv /\ LimitWithinRace => LimitHolds
  BY RowsFinite, ImagesAssumption DEF TypeInv, LimitWithinRace, LimitHolds
<1>2. Spec => []TypeInv
  BY InitType, NextType, PTL DEF Spec
<1>. QED  BY <1>1, <1>2, RacesOverrunLimitByRequests, PTL

(***************************************************************************)
(* One request at a time: the service implements the atomic gallery.  What *)
(* the request reads stays true until it commits (ReadsHold), so a commit  *)
(* of an upload is Add, of a switch Choose, of a delete Remove; every      *)
(* other step, and every fault, leaves the gallery alone.                  *)
(***************************************************************************)
SoleCover ==
    /\ rows = {} => covers = {}
    /\ rows # {} => \E c \in rows : covers = {c}

Drawn ==
    /\ rows \subseteq used
    /\ \A r \in Requests : pc[r] \in {"stored", "counted"} => img[r] \in used

SerialInv == ReadsHold /\ SoleCover /\ Drawn

LEMMA EmptyCount == ASSUME TypeOK PROVE Cardinality(rows) = 0 <=> rows = {}
BY RowsFinite, FS_EmptySet

LEMMA InitSerial == Init => SerialInv
BY DEF Init, SerialInv, ReadsHold, SoleCover, Drawn

LEMMA InsertIsAdd ==
    ASSUME NEW r \in Requests, TypeInv, SerialInv, pc[r] = "counted", InsertRow(r)
    PROVE  SoleCover' /\ Atomic!Add(img[r]) /\ img[r] \in Images
<1>1. /\ img[r] \in Images /\ img[r] \notin rows
      /\ count[r] = Cardinality(rows) /\ count[r] < MaxImages
  BY DEF TypeInv, TypeOK, SerialInv, ReadsHold
<1>2. count[r] = 0 <=> rows = {}
  BY <1>1, EmptyCount DEF TypeInv
<1>3. /\ rows' = rows \cup {img[r]}
      /\ covers' = IF rows = {} THEN {img[r]} ELSE covers
  BY <1>2 DEF InsertRow, SerialInv, SoleCover
<1>4. SoleCover'
  <2>1. CASE rows = {}
    BY <1>3, <2>1 DEF SoleCover
  <2>2. CASE rows # {}
    BY <1>3, <2>2 DEF SerialInv, SoleCover
  <2>. QED  BY <2>1, <2>2
<1>5. Atomic!Add(img[r])
  BY <1>1, <1>3 DEF Atomic!Add, Atomic!Cardinality, Cardinality
<1>. QED  BY <1>1, <1>4, <1>5

LEMMA ContinueSerial ==
    ASSUME NEW r \in Requests, Requests = {r}, TypeInv, SerialInv, Continue(r)
    PROVE  SerialInv' /\ [Atomic!Next]_(Atomic!vars)
<1>. USE RowsFinite, EmptyCount DEF TypeInv, TypeOK, PromotesAnother, PCs,
        SerialInv, ReadsHold, SoleCover, Drawn, Goto, table, disk, history, local,
        Fault, Forget, EndTransaction, LockedByOther, Atomic!Next, Atomic!vars,
        Atomic!Add, Atomic!Choose, Atomic!Remove
<1>1. CASE CountRows(r)
  BY <1>1 DEF CountRows, BelowLimit
<1>2. CASE RejectFull(r)
  BY <1>2 DEF RejectFull
<1>3. CASE CommitUpload(r)
  <2>1. InsertRow(r) /\ pc[r] = "counted" /\ pc' = [pc EXCEPT ![r] = "idle"]
    BY <1>3 DEF CommitUpload
  <2>2. SoleCover' /\ Atomic!Add(img[r]) /\ img[r] \in Images
    BY <2>1, InsertIsAdd
  <2>3. Drawn'
    BY <1>3, <2>1 DEF CommitUpload, InsertRow
  <2>4. pc'[r] = "idle"
    BY <2>1
  <2>5. ReadsHold'
    BY <2>4 DEF ReadsHold
  <2>. QED  BY <2>2, <2>3, <2>5
<1>4. CASE CommitUploadAckLost(r)
  <2>1. InsertRow(r) /\ pc[r] = "counted" /\ pc' = [pc EXCEPT ![r] = "cleanup"]
    BY <1>4 DEF CommitUploadAckLost
  <2>2. SoleCover' /\ Atomic!Add(img[r]) /\ img[r] \in Images
    BY <2>1, InsertIsAdd
  <2>3. Drawn'
    BY <1>4, <2>1 DEF CommitUploadAckLost, InsertRow
  <2>4. pc'[r] = "cleanup"
    BY <2>1
  <2>5. ReadsHold'
    BY <2>4 DEF ReadsHold
  <2>. QED  BY <2>2, <2>3, <2>5
<1>5. CASE CleanUp(r)
  BY <1>5 DEF CleanUp, RemoveFile
<1>6. CASE BeginClear(r)
  BY <1>6 DEF BeginClear
<1>7. CASE ClearOne(r)
  BY <1>7 DEF ClearOne
<1>8. CASE CommitCover(r)
  BY <1>8 DEF CommitCover, RowExists
<1>9. CASE CoverGone(r)
  BY <1>9 DEF CoverGone, RowExists
<1>10. CASE DeleteRow(r)
  BY <1>10 DEF DeleteRow, RowExists, CommitDelete, DropRow
<1>11. CASE DeleteGone(r)
  BY <1>11 DEF DeleteGone, RowExists
<1>12. CASE FindNextCover(r)
  BY <1>12 DEF FindNextCover, CommitDelete, DropRow, IsFirst, Left
<1>13. CASE PromoteNext(r)
  BY <1>13 DEF PromoteNext, CommitDelete, DropRow
<1>14. CASE PromoteGone(r)
  BY <1>14 DEF PromoteGone
<1>15. CASE Unlink(r)
  BY <1>15 DEF Unlink, RemoveFile
<1>. QED
  BY <1>1, <1>2, <1>3, <1>4, <1>5, <1>6, <1>7, <1>8, <1>9, <1>10, <1>11, <1>12,
     <1>13, <1>14, <1>15 DEF Continue

LEMMA NextSerial ==
    ASSUME Cardinality(Requests) = 1
    PROVE  TypeInv /\ SerialInv /\ [Next]_vars
             => SerialInv' /\ [Atomic!Next]_(Atomic!vars)
<1>. SUFFICES ASSUME TypeInv, SerialInv, [Next]_vars
              PROVE  SerialInv' /\ [Atomic!Next]_(Atomic!vars)
  OBVIOUS
<1>1. PICK r0 : Requests = {r0}
  BY FS_Singleton, ImagesAssumption
<1>. USE DEF TypeInv, TypeOK, PromotesAnother, PCs, SerialInv, ReadsHold,
        SoleCover, Drawn, Goto, table, disk, history, local, Atomic!vars
<1>2. ASSUME NEW r \in Requests, Begin(r)
      PROVE  SerialInv' /\ [Atomic!Next]_(Atomic!vars)
  <2>1. CASE RejectUpload(r)
    BY <2>1 DEF RejectUpload, vars
  <2>2. CASE StoreFile(r)
    BY <2>2, <1>1 DEF StoreFile, Fresh
  <2>3. CASE StoreFileFails(r)
    BY <2>3 DEF StoreFileFails, Fault, Fresh
  <2>4. CASE FindForCover(r)
    BY <2>4, <1>1 DEF FindForCover
  <2>5. CASE FindForDelete(r)
    BY <2>5, <1>1 DEF FindForDelete
  <2>. QED  BY <1>2, <2>1, <2>2, <2>3, <2>4, <2>5 DEF Begin
<1>3. ASSUME NEW r \in Requests, TransactionFails(r)
      PROVE  SerialInv' /\ [Atomic!Next]_(Atomic!vars)
  BY <1>3, <1>1 DEF TransactionFails, Forget, EndTransaction
<1>4. CASE Crash
  BY <1>4 DEF Crash
<1>5. CASE UNCHANGED vars
  BY <1>5 DEF vars
<1>6. ASSUME NEW r \in Requests, Continue(r)
      PROVE  SerialInv' /\ [Atomic!Next]_(Atomic!vars)
  <2>1. Requests = {r}
    BY <1>1
  <2>. QED  BY <1>6, <2>1, ContinueSerial
<1>. QED  BY <1>2, <1>3, <1>4, <1>5, <1>6, NextSplit DEF Act

(* Requests that do not overlap are atomic: whatever faults come between   *)
(* their steps, the rows behave like the gallery of the documentation.     *)
THEOREM SerialRequestsAreAtomic ==
    ASSUME Cardinality(Requests) = 1
    PROVE  Spec => ImplementsGallery
<1>1. Init => Atomic!Init
  BY DEF Init, Atomic!Init
<1>. QED
  BY <1>1, InitType, NextType, InitSerial, NextSerial, PTL
     DEF Spec, ImplementsGallery, Atomic!Spec

(* Requests that do not overlap leave exactly one cover on a dish that has *)
(* images, and none on one that has not.                                   *)
THEOREM SerialRequestsKeepOneCover ==
    ASSUME Cardinality(Requests) = 1
    PROVE  Spec => []OneCover
<1>1. SerialInv => OneCover
  <2>1. SerialInv /\ rows = {} => OneCover
    BY FS_EmptySet DEF SerialInv, SoleCover, OneCover
  <2>2. SerialInv /\ rows # {} => OneCover
    BY FS_Singleton DEF SerialInv, SoleCover, OneCover
  <2>. QED  BY <2>1, <2>2
<1>. QED  BY <1>1, InitType, NextType, InitSerial, NextSerial, PTL DEF Spec

(***************************************************************************)
(* Covers.  A step that keeps the rows adds a cover with each it removes:  *)
(* only setCover removes one, and it adds its own.                         *)
(***************************************************************************)
LEMMA NextKeepsCover ==
    ASSUME TypeInv, [Next]_vars, rows' = rows, covers # {}
    PROVE  covers' # {}
<1>. USE DEF TypeInv, TypeOK, table, disk, history, local
<1>1. ASSUME NEW r \in Requests, Begin(r) \/ TransactionFails(r)
      PROVE  covers' = covers
  BY <1>1 DEF Begin, RejectUpload, StoreFile, StoreFileFails, FindForCover,
       FindForDelete, TransactionFails, vars
<1>2. ASSUME NEW r \in Requests, Continue(r)
      PROVE  covers' # {}
  <2>1. CASE CommitUpload(r) \/ CommitUploadAckLost(r)
    BY <2>1 DEF CommitUpload, CommitUploadAckLost, InsertRow
  <2>2. CASE CommitCover(r)
    BY <2>2 DEF CommitCover
  <2>3. CASE \E promoted : DropRow(r, promoted)
    BY <2>3 DEF DropRow
  <2>4. CASE covers' = covers
    BY <2>4
  <2>5. \/ CommitUpload(r) \/ CommitUploadAckLost(r) \/ CommitCover(r)
        \/ (\E promoted : DropRow(r, promoted)) \/ covers' = covers
    <3>1. CASE DeleteRow(r) \/ FindNextCover(r) \/ PromoteNext(r)
      BY <3>1 DEF DeleteRow, FindNextCover, PromoteNext, CommitDelete
    <3>2. CASE CountRows(r) \/ RejectFull(r) \/ CleanUp(r) \/ BeginClear(r)
               \/ ClearOne(r) \/ CoverGone(r) \/ DeleteGone(r)
               \/ PromoteGone(r) \/ Unlink(r)
      BY <3>2 DEF CountRows, RejectFull, CleanUp, BeginClear, ClearOne, CoverGone,
           DeleteGone, PromoteGone, Unlink
    <3>. QED  BY <1>2, <3>1, <3>2 DEF Continue
  <2>. QED  BY <2>1, <2>2, <2>3, <2>4, <2>5
<1>3. CASE Crash \/ UNCHANGED vars
  BY <1>3 DEF Crash, vars
<1>. QED  BY <1>1, <1>2, <1>3, NextSplit DEF Act

(* However many requests race, and whatever fails, an upload or a change   *)
(* of the cover never leaves a dish without one: only a delete does.       *)
THEOREM OnlyDeletesLoseCovers == Spec => OnlyDeleteLosesCovers
<1>1. TypeInv /\ [Next]_vars =>
        [covers # {} /\ covers' = {} => rows' # rows]_vars
  BY NextKeepsCover
<1>. QED  BY <1>1, InitType, NextType, PTL DEF Spec, OnlyDeleteLosesCovers

(***************************************************************************)
(* Rows without a file when the answer to a COMMIT may be lost.  The       *)
(* clean-up that follows such a loss removes the file of a row: the row is *)
(* charged to the loss from then on, and no other step puts one at risk.   *)
(***************************************************************************)
LEMMA BeginCharged ==
    ASSUME NEW r \in Requests, TypeInv, RisksCharged, Begin(r)
    PROVE  RisksCharged'
<1>. USE DEF TypeInv, TypeOK, PCs, RisksCharged, UploadsApart, AtRisk, Goto, table,
        disk, history, local, Fresh, Fault
<1>1. CASE RejectUpload(r)
  BY <1>1 DEF RejectUpload, vars
<1>2. CASE StoreFile(r)
  BY <1>2 DEF StoreFile
<1>3. CASE StoreFileFails(r)
  BY <1>3 DEF StoreFileFails
<1>4. CASE FindForCover(r)
  BY <1>4 DEF FindForCover
<1>5. CASE FindForDelete(r)
  BY <1>5 DEF FindForDelete
<1>. QED  BY <1>1, <1>2, <1>3, <1>4, <1>5 DEF Begin

LEMMA ContinueCharged ==
    ASSUME NEW r \in Requests, TypeInv, RisksCharged, Continue(r)
    PROVE  RisksCharged'
<1>. USE DEF TypeInv, TypeOK, PromotesAnother, PCs, RisksCharged, UploadsApart, AtRisk,
        Goto, table, disk, history, local, Fault, Forget, EndTransaction
<1>1. CASE CountRows(r)
  BY <1>1 DEF CountRows
<1>2. CASE RejectFull(r)
  BY <1>2 DEF RejectFull
<1>3. CASE CommitUpload(r)
  BY <1>3 DEF CommitUpload, InsertRow
<1>4. CASE CommitUploadAckLost(r)
  BY <1>4 DEF CommitUploadAckLost, InsertRow
<1>5. CASE CleanUp(r)
  BY <1>5 DEF CleanUp, RemoveFile
<1>6. CASE BeginClear(r)
  BY <1>6 DEF BeginClear
<1>7. CASE ClearOne(r)
  BY <1>7 DEF ClearOne
<1>8. CASE CommitCover(r)
  BY <1>8 DEF CommitCover
<1>9. CASE CoverGone(r)
  BY <1>9 DEF CoverGone
<1>10. CASE DeleteRow(r)
  BY <1>10 DEF DeleteRow, RowExists, CommitDelete, DropRow
<1>11. CASE DeleteGone(r)
  BY <1>11 DEF DeleteGone
<1>12. CASE FindNextCover(r)
  BY <1>12 DEF FindNextCover, CommitDelete, DropRow, IsFirst, Left
<1>13. CASE PromoteNext(r)
  BY <1>13 DEF PromoteNext, CommitDelete, DropRow
<1>14. CASE PromoteGone(r)
  BY <1>14 DEF PromoteGone
<1>15. CASE Unlink(r)
  BY <1>15 DEF Unlink, RemoveFile
<1>. QED  BY <1>1, <1>2, <1>3, <1>4, <1>5, <1>6, <1>7, <1>8, <1>9, <1>10, <1>11, <1>12, <1>13, <1>14, <1>15 DEF Continue

LEMMA NextCharged == TypeInv /\ RisksCharged /\ [Next]_vars => RisksCharged'
<1>. SUFFICES ASSUME TypeInv, RisksCharged, [Next]_vars PROVE RisksCharged'
  OBVIOUS
<1>. USE DEF RisksCharged, UploadsApart, AtRisk, table, disk, history
<1>1. ASSUME NEW r \in Requests, TransactionFails(r)
      PROVE  RisksCharged'
  BY <1>1 DEF TransactionFails, Forget, EndTransaction, TypeInv, TypeOK, PCs
<1>2. CASE Crash
  BY <1>2 DEF Crash, Fault
<1>3. CASE UNCHANGED vars
  BY <1>3 DEF vars, local
<1>. QED  BY <1>1, <1>2, <1>3, BeginCharged, ContinueCharged, NextSplit DEF Act

(* A listed image without a file is one whose own COMMIT was carried out   *)
(* and not answered: for any number of requests that race, with crashes    *)
(* between any two steps, with failing writes and unlinks and with lost    *)
(* answers of other requests.                                              *)
THEOREM DanglingRowsCostTheirAnswer == Spec => []DanglingOnlyAfterLostAnswer
<1>1. Init => RisksCharged
  BY DEF Init, RisksCharged, AtRisk, UploadsApart
<1>2. RisksCharged => DanglingOnlyAfterLostAnswer
  BY DEF RisksCharged, AtRisk, DanglingOnlyAfterLostAnswer
<1>. QED  BY <1>1, <1>2, InitType, NextType, NextCharged, PTL DEF Spec
=============================================================================
