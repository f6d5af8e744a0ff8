----------------------------- MODULE DishImages -----------------------------
(***************************************************************************)
(* The images of one dish: DishImagesService of the backend                *)
(* (src/backend/src/dish-images/dish-images.service.ts).                   *)
(*                                                                         *)
(* A picture is two things written by two different stores: a file below   *)
(* the uploads directory and a row of the table dish_images.  The service  *)
(* writes the file first and the row second on upload, and removes the row *)
(* first and the file second on delete.                                    *)
(*                                                                         *)
(* Every HTTP request is served by an async function, so requests          *)
(* interleave at every await.  The database transactions are Prisma        *)
(* interactive transactions at PostgreSQL's default isolation level, READ  *)
(* COMMITTED: every statement sees what is committed when it starts, an    *)
(* UPDATE or DELETE locks its row until the transaction ends, a statement  *)
(* that meets a row locked by another transaction waits for that           *)
(* transaction and then checks its condition again on the new version of   *)
(* the row.  Each statement is an action here; the last statement of a     *)
(* transaction and its COMMIT are one action, since nothing that another   *)
(* request can see lies between them.                                      *)
(*                                                                         *)
(* Dishes are never deleted by the service, one dish's rows never meet     *)
(* another's, and the fields of a row that no condition reads (MIME type,  *)
(* size, width, height) are left out.                                      *)
(***************************************************************************)
EXTENDS Naturals, FiniteSets

CONSTANTS
    Requests,   \* the requests the server may be serving at the same time
    Images,     \* the identities of the uploads; its size bounds their number
    MaxImages,  \* MAX_IMAGES_PER_DISH
    FaultKinds, \* which faults the environment may inflict
    MaxFaults,  \* bound on the number of faults of a behaviour
    None        \* no image

(* A crash of the server process, a failing write or unlink of a file, and *)
(* the loss of the database's answer to a COMMIT it has carried out.       *)
AllFaultKinds == {"crash", "disk", "ack"}

ASSUME ImagesAssumption ==
    /\ IsFiniteSet(Requests) /\ Requests # {}
    /\ IsFiniteSet(Images)
    /\ None \notin Images
    /\ MaxImages \in Nat \ {0}
    /\ FaultKinds \subseteq AllFaultKinds
    /\ MaxFaults \in Nat

VARIABLES
    rows,       \* the committed rows of dish_images
    covers,     \* the committed rows whose isCover is true
    sortOrder,  \* their column sortOrder
    createdAt,  \* their column createdAt: the rank of the insertion, 0 before
    files,      \* the files below the uploads directory
    used,       \* the identities randomUUID() has returned so far
    leaked,     \* history: files a fault left behind
    lost,       \* history: uploads whose COMMIT was carried out unanswered
    faults,     \* number of faults so far
    pc,         \* per request: the await it is suspended at
    img,        \* per request: the image it works on
    count,      \* per upload: the number of rows it has counted
    todo,       \* per transaction: rows its current statement must still update
    held        \* per transaction: rows it has locked

table   == <<rows, covers, sortOrder, createdAt>>
disk    == <<files, used>>
history == <<leaked, lost, faults>>
local   == <<img, count, todo, held>>
vars    == <<table, disk, history, pc, local>>

PCs == {"idle",
        "stored",      \* upload: file written, transaction not begun
        "counted",     \* upload: in the transaction, below the limit
        "cleanup",     \* upload: transaction failed, file to be removed
        "coverFound",  \* setCover: the image has been read
        "clearing",    \* setCover: in the transaction, inside updateMany
        "deletePlain", \* delete: the image has been read, it was no cover
        "deleteCover", \* delete: the image has been read, it was a cover
        "deleted",     \* delete: in the transaction, row deleted
        "promoting",   \* delete: in the transaction, next cover chosen
        "unlinking"}   \* delete: committed, file to be removed

Init ==
    /\ rows = {} /\ covers = {}
    /\ sortOrder = [i \in Images |-> 0]
    /\ createdAt = [i \in Images |-> 0]
    /\ files = {} /\ used = {}
    /\ leaked = {} /\ lost = {} /\ faults = 0
    /\ pc = [r \in Requests |-> "idle"]
    /\ img = [r \in Requests |-> None]
    /\ count = [r \in Requests |-> 0]
    /\ todo = [r \in Requests |-> {}]
    /\ held = [r \in Requests |-> {}]

-----------------------------------------------------------------------------
(* Control and faults.                                                     *)

Goto(r, from, to) ==
    /\ pc[r] = from
    /\ pc' = [pc EXCEPT ![r] = to]

(* The end of a request, or of its transaction: locals die, locks go.      *)
Forget(r) ==
    /\ img' = [img EXCEPT ![r] = None]
    /\ count' = [count EXCEPT ![r] = 0]
    /\ todo' = [todo EXCEPT ![r] = {}]
    /\ held' = [held EXCEPT ![r] = {}]

(* The transaction is over, the request still owns its image's file.       *)
EndTransaction(r) ==
    /\ todo' = [todo EXCEPT ![r] = {}]
    /\ held' = [held EXCEPT ![r] = {}]
    /\ UNCHANGED <<img, count>>

Fault(kind) ==
    /\ kind \in FaultKinds
    /\ faults < MaxFaults
    /\ faults' = faults + 1

LockedByOther(r, i) == \E q \in Requests \ {r} : i \in held[q]

-----------------------------------------------------------------------------
(* Upload.                                                                 *)

(* No file, a type that is not allowed, a conversion or a size that cannot *)
(* be read, a dish of another workspace: 400 or 404, nothing was written.  *)
RejectUpload(r) ==
    /\ pc[r] = "idle"
    /\ UNCHANGED vars

(* Mutant: the file takes its name from the request, not from randomUUID() *)
FreshFromClient == Images

(* randomUUID() in the storage key.                                        *)
Fresh == Images \ used

StoreFile(r) ==
    \E i \in Fresh :
        /\ Goto(r, "idle", "stored")
        /\ img' = [img EXCEPT ![r] = i]
        /\ files' = files \cup {i}
        /\ used' = used \cup {i}
        /\ UNCHANGED <<table, history, count, todo, held>>

(* writeFile stands before the try: a file it wrote in part stays.         *)
StoreFileFails(r) ==
    \E i \in Fresh :
        /\ pc[r] = "idle"
        /\ Fault("disk")
        /\ files' = files \cup {i}
        /\ used' = used \cup {i}
        /\ leaked' = leaked \cup {i}
        /\ UNCHANGED <<table, lost, pc, local>>

(* Mutant: the comparison is off by one.                                   *)
BelowOrAtLimit == Cardinality(rows) <= MaxImages

BelowLimit == Cardinality(rows) < MaxImages

CountRows(r) ==
    /\ Goto(r, "stored", "counted")
    /\ BelowLimit
    /\ count' = [count EXCEPT ![r] = Cardinality(rows)]
    /\ UNCHANGED <<table, disk, history, img, todo, held>>

RejectFull(r) ==
    /\ Goto(r, "stored", "cleanup")
    /\ ~BelowLimit
    /\ UNCHANGED <<table, disk, history, local>>

InsertRow(r) ==
    /\ rows' = rows \cup {img[r]}
    /\ covers' = IF count[r] = 0 THEN covers \cup {img[r]} ELSE covers
    /\ sortOrder' = [sortOrder EXCEPT ![img[r]] = count[r]]
    /\ createdAt' = [createdAt EXCEPT
          ![img[r]] = Cardinality({i \in Images : createdAt[i] # 0}) + 1]

CommitUpload(r) ==
    /\ Goto(r, "counted", "idle")
    /\ InsertRow(r)
    /\ Forget(r)
    /\ UNCHANGED <<disk, history>>

(* COMMIT was carried out but $transaction rejects: the catch block runs.  *)
CommitUploadAckLost(r) ==
    /\ Goto(r, "counted", "cleanup")
    /\ Fault("ack")
    /\ lost' = lost \cup {img[r]}
    /\ InsertRow(r)
    /\ UNCHANGED <<disk, leaked, local>>

(* Mutant: the catch block and delete forget the file.                     *)
KeepFile(r) == UNCHANGED <<files, history>>

(* deleteFileQuietly: what unlink throws is swallowed.                     *)
RemoveFile(r) ==
    \/ /\ files' = files \ {img[r]}
       /\ UNCHANGED history
    \/ /\ Fault("disk")
       /\ leaked' = leaked \cup {img[r]}
       /\ UNCHANGED <<files, lost>>

CleanUp(r) ==
    /\ Goto(r, "cleanup", "idle")
    /\ RemoveFile(r)
    /\ Forget(r)
    /\ UNCHANGED <<table, used>>

-----------------------------------------------------------------------------
(* setCover.                                                               *)

FindForCover(r) ==
    \E i \in rows :
        /\ Goto(r, "idle", "coverFound")
        /\ img' = [img EXCEPT ![r] = i]
        /\ UNCHANGED <<table, disk, history, count, todo, held>>

(* The snapshot of updateMany.                                             *)
BeginClear(r) ==
    /\ Goto(r, "coverFound", "clearing")
    /\ todo' = [todo EXCEPT ![r] = covers]
    /\ UNCHANGED <<table, disk, history, img, count, held>>

(* updateMany reaches a row no other transaction holds: a row that is no   *)
(* longer a cover, or no longer there, is passed over.  The order in which *)
(* it reaches the rows is left open.                                       *)
ClearOne(r) ==
    \E i \in todo[r] :
        /\ pc[r] = "clearing"
        /\ ~LockedByOther(r, i)
        /\ todo' = [todo EXCEPT ![r] = @ \ {i}]
        /\ held' = [held EXCEPT ![r] = IF i \in covers THEN @ \cup {i} ELSE @]
        /\ UNCHANGED <<table, disk, history, pc, img, count>>

(* What update and delete by id require of the row (otherwise P2025).      *)
RowExists(r) == img[r] \in rows

(* update by id and COMMIT; an answer that is lost changes nothing here.   *)
CommitCover(r) ==
    /\ Goto(r, "clearing", "idle")
    /\ todo[r] = {}
    /\ ~LockedByOther(r, img[r])
    /\ RowExists(r)
    /\ covers' = (covers \ held[r]) \cup {img[r]}
    /\ Forget(r)
    /\ UNCHANGED <<rows, sortOrder, createdAt, disk, history>>

(* Mutant: the two updates of setCover are not one transaction.            *)
CoverGoneUnrolled(r) ==
    /\ Goto(r, "clearing", "idle")
    /\ todo[r] = {} /\ img[r] \notin rows
    /\ covers' = covers \ held[r]
    /\ Forget(r)
    /\ UNCHANGED <<rows, sortOrder, createdAt, disk, history>>

(* Mutant: a transaction that fails is tried again as it is.               *)
CoverGoneRetries(r) ==
    /\ Goto(r, "clearing", "coverFound")
    /\ todo[r] = {}
    /\ ~RowExists(r)
    /\ EndTransaction(r)
    /\ UNCHANGED <<table, disk, history>>

(* update by id finds no row (P2025): the transaction is rolled back.      *)
CoverGone(r) ==
    /\ Goto(r, "clearing", "idle")
    /\ todo[r] = {}
    /\ ~RowExists(r)
    /\ Forget(r)
    /\ UNCHANGED <<table, disk, history>>

-----------------------------------------------------------------------------
(* delete.                                                                 *)

(* The image is read outside the transaction, its isCover with it.         *)
FindForDelete(r) ==
    \E i \in rows :
        /\ Goto(r, "idle", IF i \in covers THEN "deleteCover" ELSE "deletePlain")
        /\ img' = [img EXCEPT ![r] = i]
        /\ UNCHANGED <<table, disk, history, count, todo, held>>

(* The order of the listing and of the choice of the next cover.           *)
Before(i, j) ==
    \/ sortOrder[i] < sortOrder[j]
    \/ sortOrder[i] = sortOrder[j] /\ createdAt[i] < createdAt[j]

IsFirst(i, S) == i \in S /\ \A j \in S \ {i} : Before(i, j)

(* Mutant: the deletion promotes nobody.                                   *)
DropRowOnly(r, promoted) ==
    /\ rows' = rows \ {img[r]}
    /\ covers' = covers \ {img[r]}
    /\ UNCHANGED <<sortOrder, createdAt>>

DropRow(r, promoted) ==
    /\ rows' = rows \ {img[r]}
    /\ covers' = (covers \ {img[r]}) \cup promoted
    /\ UNCHANGED <<sortOrder, createdAt>>

(* COMMIT of a delete; when its answer is lost the function throws before  *)
(* it removes the file.                                                    *)
CommitDelete(r, from, promoted) ==
    /\ DropRow(r, promoted)
    /\ \/ /\ Goto(r, from, "unlinking")
          /\ EndTransaction(r)
          /\ UNCHANGED <<disk, history>>
       \/ /\ Goto(r, from, "idle")
          /\ Fault("ack")
          /\ leaked' = leaked \cup (files \cap {img[r]})
          /\ Forget(r)
          /\ UNCHANGED <<disk, lost>>

DeleteRow(r) ==
    /\ RowExists(r)
    /\ ~LockedByOther(r, img[r])
    /\ \/ CommitDelete(r, "deletePlain", {})
       \/ /\ Goto(r, "deleteCover", "deleted")
          /\ held' = [held EXCEPT ![r] = {img[r]}]
          /\ UNCHANGED <<table, disk, history, img, count, todo>>

(* delete by id finds no row (P2025).                                      *)
DeleteGone(r) ==
    /\ \/ Goto(r, "deletePlain", "idle")
       \/ Goto(r, "deleteCover", "idle")
    /\ ~RowExists(r)
    /\ Forget(r)
    /\ UNCHANGED <<table, disk, history>>

(* Mutant: the next cover is looked for outside the transaction, where the *)
(* deleted row is still there.                                             *)
LeftOutside(r) == rows

(* The rows findFirst sees: committed, less the one it deleted itself.     *)
Left(r) == rows \ {img[r]}

FindNextCover(r) ==
    \/ /\ Left(r) = {}
       /\ CommitDelete(r, "deleted", {})
    \/ /\ Left(r) # {}
       /\ Goto(r, "deleted", "promoting")
       /\ \E i \in Left(r) :
             /\ IsFirst(i, Left(r))
             /\ todo' = [todo EXCEPT ![r] = {i}]
       /\ UNCHANGED <<table, disk, history, img, count, held>>

PromoteNext(r) ==
    /\ todo[r] \subseteq rows
    /\ \A i \in todo[r] : ~LockedByOther(r, i)
    /\ CommitDelete(r, "promoting", todo[r])

(* Mutant: the file goes although the deletion was rolled back.            *)
PromoteGoneUnlinks(r) ==
    /\ Goto(r, "promoting", "unlinking")
    /\ ~(todo[r] \subseteq rows)
    /\ EndTransaction(r)
    /\ UNCHANGED <<table, disk, history>>

(* update by id finds no row (P2025): the deletion is rolled back as well. *)
PromoteGone(r) ==
    /\ Goto(r, "promoting", "idle")
    /\ ~(todo[r] \subseteq rows)
    /\ Forget(r)
    /\ UNCHANGED <<table, disk, history>>

Unlink(r) ==
    /\ Goto(r, "unlinking", "idle")
    /\ RemoveFile(r)
    /\ Forget(r)
    /\ UNCHANGED <<table, used>>

-----------------------------------------------------------------------------
(* Environment.                                                            *)

(* The database or Prisma gives the transaction up: a deadlock victim, the *)
(* timeout of an interactive transaction, a lost connection.               *)
TransactionFails(r) ==
    /\ \/ /\ pc[r] \in {"stored", "counted"}
          /\ pc' = [pc EXCEPT ![r] = "cleanup"]
          /\ EndTransaction(r)
       \/ /\ pc[r] \in {"coverFound", "clearing", "deletePlain", "deleteCover",
                        "deleted", "promoting"}
          /\ pc' = [pc EXCEPT ![r] = "idle"]
          /\ Forget(r)
    /\ UNCHANGED <<table, disk, history>>

(* The file a request has written or is about to remove.                   *)
OwnsFile(r) == pc[r] \in {"stored", "counted", "cleanup", "unlinking"}

InFlight == {img[r] : r \in {q \in Requests : OwnsFile(q)}}

(* The server dies and comes back: every request is lost, open             *)
(* transactions are rolled back, rows and files stay.                      *)
Crash ==
    /\ Fault("crash")
    /\ leaked' = leaked \cup (InFlight \ rows)
    /\ pc' = [r \in Requests |-> "idle"]
    /\ img' = [r \in Requests |-> None]
    /\ count' = [r \in Requests |-> 0]
    /\ todo' = [r \in Requests |-> {}]
    /\ held' = [r \in Requests |-> {}]
    /\ UNCHANGED <<table, disk, lost>>

-----------------------------------------------------------------------------
(* Lock waits.                                                             *)

(* The rows of which the current statement needs one that is free.  Inside *)
(* updateMany any row still to be updated will do.                         *)
Needs(r) ==
    IF pc[r] \in {"clearing", "promoting"} /\ todo[r] # {} THEN todo[r]
    ELSE IF pc[r] \in {"clearing", "deletePlain", "deleteCover"}
         THEN {img[r]} \cap rows
    ELSE {}

Waits(r) == Needs(r) # {} /\ \A i \in Needs(r) : LockedByOther(r, i)

(* Some requests, r among them, all wait and each for one of the others.   *)
Deadlocked(r) ==
    \E S \in SUBSET Requests :
        /\ r \in S
        /\ \A q \in S : Waits(q) /\ \E p \in S : Needs(q) \cap held[p] # {}

(* The deadlock detector picks r as its victim.                            *)
DeadlockVictim(r) == Deadlocked(r) /\ TransactionFails(r)

-----------------------------------------------------------------------------
(* What a request that has begun does next.                                *)
Continue(r) ==
    \/ CountRows(r) \/ RejectFull(r) \/ CommitUpload(r)
    \/ CommitUploadAckLost(r) \/ CleanUp(r)
    \/ BeginClear(r) \/ ClearOne(r) \/ CommitCover(r) \/ CoverGone(r)
    \/ DeleteRow(r) \/ DeleteGone(r) \/ FindNextCover(r) \/ PromoteNext(r)
    \/ PromoteGone(r) \/ Unlink(r)

Begin(r) ==
    \/ RejectUpload(r) \/ StoreFile(r) \/ StoreFileFails(r)
    \/ FindForCover(r) \/ FindForDelete(r)

Next ==
    \/ \E r \in Requests : Begin(r) \/ Continue(r) \/ TransactionFails(r)
    \/ Crash

Spec == Init /\ [][Next]_vars

(* Nothing forces a client to send a request, and no transaction has to    *)
(* fail.  A request the server has begun is driven on by the event loop;   *)
(* one that waits for a row is queued by PostgreSQL and gets it after      *)
(* those before it, hence strong fairness; and a cycle of waiting          *)
(* transactions is broken by the deadlock detector.                        *)
FairSpec ==
    /\ Spec
    /\ \A r \in Requests : SF_vars(Continue(r))
    /\ WF_vars(\E r \in Requests : DeadlockVictim(r))

-----------------------------------------------------------------------------
(* Properties.                                                             *)

(* Every variable has its type: the requests' locals are what the code     *)
(* between two awaits can have read.                                       *)
TypeOK ==
    /\ rows \subseteq Images /\ covers \subseteq rows
    /\ sortOrder \in [Images -> Nat] /\ createdAt \in [Images -> Nat]
    /\ files \subseteq used /\ used \subseteq Images
    /\ leaked \subseteq Images /\ lost \subseteq Images
    /\ faults \in 0..MaxFaults
    /\ pc \in [Requests -> PCs]
    /\ img \in [Requests -> Images \cup {None}]
    /\ \A r \in Requests : pc[r] # "idle" => img[r] \in Images
    /\ count \in [Requests -> Nat]
    /\ todo \in [Requests -> SUBSET Images]
    /\ held \in [Requests -> SUBSET Images]

(* getFile never answers 404 for an image that is listed: a committed row  *)
(* has its file, whatever requests, crashes and full disks come between    *)
(* the two stores.  (Upload writes the file before the row, delete removes *)
(* it after the row, and a failed upload removes only its own.)            *)
RowsHaveFiles == rows \subseteq files

(* No file is left behind silently: a file without a row belongs to a      *)
(* request that is still going to insert its row or to remove it, or a     *)
(* fault is to blame.                                                      *)
FilesAccountedFor == files \ rows \subseteq InFlight \cup leaked

(* What the limit of upload is worth when uploads race: each other request *)
(* can be one row late, so the limit is overrun by one row per request     *)
(* less one and never by more.                                             *)
LimitWithinRace == Cardinality(rows) + 1 <= MaxImages + Cardinality(Requests)

(* The limit as upload means it, with count and create in one transaction. *)
LimitHolds == Cardinality(rows) <= MaxImages

(* A dish with images has exactly one cover, one without has none.         *)
OneCover == Cardinality(covers) = IF rows = {} THEN 0 ELSE 1

(* Only a delete can leave a dish without a cover: an upload or a change   *)
(* of the cover, rolled back or not, never does.                           *)
OnlyDeleteLosesCovers ==
    [][covers # {} /\ covers' = {} => rows' # rows]_vars

(* The new cover is the oldest remaining image: when the deletion of a     *)
(* cover promotes an image, none that stays was created before it.         *)
PromotesOldest ==
    [][\A i \in covers' \ covers, j \in rows' :
          rows' # rows /\ i \in rows => createdAt[i] <= createdAt[j]]_vars

(* A dish that keeps images keeps a cover when its cover is deleted.       *)
DeleteKeepsACover ==
    [][covers # {} /\ covers' = {} => rows' = {}]_vars

(* A listed image without a file is one whose upload was committed while  *)
(* the answer to that COMMIT was lost: races, crashes, full disks, and the *)
(* lost answers of deletes and of other uploads never make one.            *)
DanglingOnlyAfterLostAnswer == rows \ files \subseteq lost

(* Every request is answered: no lock wait, deadlock or failure keeps one  *)
(* for ever.                                                               *)
RequestsEnd ==
    \A r \in Requests : (pc[r] # "idle") ~> (pc[r] = "idle")

(* Served one at a time, the requests implement the atomic gallery.        *)
Atomic == INSTANCE Gallery WITH pics <- rows, cover <- covers
ImplementsGallery == Atomic!Spec

-----------------------------------------------------------------------------
(* The inductive invariants of the proofs.                                 *)

Uploading(r) == pc[r] \in {"stored", "counted", "cleanup"}

(* Who may touch which file: a request works on an identity that has been  *)
(* drawn, an upload's identity is its own, and a request that is going to  *)
(* remove a file, or has yet to insert its row, finds no row for it.       *)
Ownership ==
    /\ \A r \in Requests : pc[r] # "idle" => img[r] \in used
    /\ \A r \in Requests : Uploading(r) =>
          \A q \in Requests \ {r} : pc[q] # "idle" => img[q] # img[r]
    /\ \A r \in Requests : pc[r] \in {"stored", "counted"} =>
          img[r] \in files
    /\ \A r \in Requests : OwnsFile(r) => img[r] \notin rows

(* The same when COMMIT answers may be lost, so that a clean-up may find a  *)
(* row: only an upload that has not committed is apart from all others.    *)
UploadsApart ==
    /\ rows \subseteq used
    /\ \A r \in Requests : pc[r] # "idle" => img[r] \in used
    /\ \A r \in Requests : pc[r] \in {"stored", "counted"} =>
          /\ img[r] \in files \ rows
          /\ \A q \in Requests \ {r} : pc[q] # "idle" => img[q] # img[r]
    /\ \A r \in Requests : pc[r] = "unlinking" => img[r] \notin rows

(* The rows without a file, and those whose file a clean-up is going to    *)
(* remove: they are of uploads whose answer was lost.                      *)
AtRisk ==
    (rows \ files) \cup {i \in rows : \E r \in Requests :
                                       pc[r] = "cleanup" /\ img[r] = i}

RisksCharged == UploadsApart /\ AtRisk \subseteq lost

(* The image a delete promotes is not the one it deletes.                  *)
PromotesAnother ==
    \A r \in Requests : pc[r] = "promoting" => img[r] \notin todo[r]

(* An upload past its count is a row to come: rows present and to come     *)
(* together respect the bound.                                             *)
PastCount == {r \in Requests : pc[r] = "counted"}

RoomForCounted ==
    Cardinality(rows) + Cardinality(PastCount) + 1
        <= MaxImages + Cardinality(Requests)

(* What a request that is alone may rely on between its awaits: everything *)
(* it has read still holds.                                                *)
ReadsHold ==
    \A r \in Requests :
        /\ pc[r] \in {"stored", "counted"} => img[r] \notin rows
        /\ pc[r] = "counted" =>
              count[r] = Cardinality(rows) /\ count[r] < MaxImages
        /\ pc[r] \in {"coverFound", "clearing", "deletePlain", "deleteCover",
                      "deleted", "promoting"} => img[r] \in rows
        /\ pc[r] = "clearing" => covers \subseteq todo[r] \cup held[r]
        /\ pc[r] = "deletePlain" => img[r] \notin covers
        /\ pc[r] \in {"deleteCover", "deleted", "promoting"} =>
              img[r] \in covers
        /\ pc[r] = "promoting" => \E i \in rows : todo[r] = {i}
=============================================================================
