---------------------------- MODULE FeedbackCard ----------------------------
(***************************************************************************)
(* One card of the record lists (MealRecordCard of components/             *)
(* recent-meal-records.tsx, in RecentMealRecords or in the history panel)  *)
(* and what it shows of its user's feedback, against FeedbackService and   *)
(* MealRecordsService.update and delete.                                   *)
(*                                                                         *)
(* Every write of the feedback has a number (its updatedAt, which the list *)
(* reads too), so that two feedbacks are the same object for React exactly *)
(* when their numbers agree; likewise for the record.  The callbacks given *)
(* to mutate are dropped when the card is unmounted before the answer; the *)
(* invalidation of the hook is not.  A mounted card observes the list, so  *)
(* an invalidation cancels the fetch that runs and starts another.         *)
(***************************************************************************)
EXTENDS Naturals

CONSTANTS
    Ratings,   \* the ratings of a feedback
    NoRating,  \* selectedRating is undefined
    Notes,     \* the notes that are typed, without the empty one
    NoNote,    \* no note, which is what an empty one is sent and saved as
    Slots,     \* the feedback requests that may be on their way at once
    NoSlot,    \* none of them
    MaxWrites, \* bound on the writes of the feedback
    MaxEdits   \* bound on the versions of the record

ASSUME CardAssumption ==
    /\ NoRating \notin Ratings /\ NoNote \notin Notes /\ NoSlot \notin Slots
    /\ MaxWrites \in Nat \ {0} /\ MaxEdits \in Nat \ {0}

VARIABLES
    fb,       \* the feedback row of the user
    rec,      \* the version of the record, 0 once it is deleted
    list,     \* data of the list query, as far as it is about this record
    fetch,    \* the fetch of the list that counts
    place,    \* the list that shows the card
    mounted,  \* whether the card is on the screen
    current,  \* currentFeedback
    selected, \* selectedRating
    mode,     \* mode
    note,     \* note, the draft; NoNote when its form is closed
    form,     \* the version the edit form got its default values from
    ups,      \* per slot: a request of useUpsertFeedback
    own,      \* the slot of the mutation this mount of the card observes
    change,   \* the pending update or deletion of the record by this card
    crossed   \* ghost: a newer feedback was read while a request was pending

card == <<mounted, current, selected, mode, note, form, own, crossed>>
vars == <<fb, rec, list, fetch, place, card, ups, change>>

Revs       == 0 .. MaxWrites
Versions   == 0 .. MaxEdits
Feedbacks  == [rev : Revs, rating : Ratings \cup {NoRating},
               note : Notes \cup {NoNote}]
NoFeedback == [rev |-> 0, rating |-> NoRating, note |-> NoNote]

\* "variants", which shows another panel below the card, is "view" here.
Modes      == {"view", "editing", "delete-confirm", "note"}

\* kind: submitRating or submitNote.  base: the rating of the closure's
\* currentFeedback.  Ghosts: saw, the feedback in the list at the click, and
\* clean, that the card had not crossed it.
Unused == [at |-> "idle", kind |-> "rating", rating |-> NoRating,
           note |-> NoNote, base |-> NoRating, got |-> NoFeedback,
           saw |-> 0, clean |-> FALSE]
NoChange == [at |-> "idle", kind |-> "edit"]

Resting == [at |-> "idle", fb |-> NoFeedback, rec |-> 0]
Sent    == [Resting EXCEPT !.at = "sent"]

UpPending     == own # NoSlot
DelPending    == change.at # "idle" /\ change.kind = "delete"
EditPending   == change.at # "idle" /\ change.kind = "edit"

Init ==
    /\ fb \in {NoFeedback} \cup {[rev |-> 1, rating |-> r, note |-> n] :
                                    r \in Ratings, n \in Notes}
    /\ rec = 1 /\ list = [fb |-> fb, rec |-> 1]
    /\ fetch = Resting
    /\ place \in {"recent", "history"}
    /\ mounted = TRUE /\ current = fb /\ selected = fb.rating
    /\ mode = "view" /\ note = NoNote /\ form = 0
    /\ ups = [s \in Slots |-> Unused] /\ own = NoSlot
    /\ change = NoChange
    /\ crossed = FALSE

-----------------------------------------------------------------------------
\* The list query.

\* invalidateMealRecordDependencies: only a list on the screen is fetched.
Invalidate == fetch' = IF mounted THEN Sent ELSE fetch

ReadList ==
    /\ fetch.at = "sent"
    /\ fetch' = [at |-> "read", fb |-> fb, rec |-> rec]
    /\ UNCHANGED <<fb, rec, list, place, card, ups, change>>

\* Mutant of Refill: the effect resets the draft with the feedback.
RefillDraft(f) ==
    IF f.rev = list.fb.rev THEN UNCHANGED <<current, selected, crossed, note>>
    ELSE /\ current' = f /\ selected' = f.rating /\ note' = f.note
         /\ crossed' = UpPending

\* Mutant of Refill: no effect, the state of the first render is kept.
NoRefill(f) == UNCHANGED <<current, selected, crossed, note>>

\* useEffect on serverFeedback: structural sharing keeps an equal object.
Refill(f) ==
    IF f.rev = list.fb.rev THEN UNCHANGED <<current, selected, crossed, note>>
    ELSE /\ current' = f /\ selected' = f.rating
         /\ crossed' = UpPending
         /\ UNCHANGED note

\* The key of EditMealRecordForm: another version of the record mounts another
\* form, and the callback of the old one is dropped.
Rekey(v) ==
    IF mode = "editing" /\ v # list.rec
    THEN /\ form' = v
         /\ change' = IF EditPending THEN NoChange ELSE change
    ELSE UNCHANGED <<form, change>>

\* A request that was served: what was sent is of no use to its answer, and
\* without callbacks neither is what came back.
Served(q)   == [Unused EXCEPT !.at = "served", !.kind = q.kind, !.base = q.base]
ServedAlone == [Unused EXCEPT !.at = "served"]

\* Requests without callbacks: the rating onError would put back is no matter.
Orphans(q) == [s \in Slots |-> IF q[s].at = "served" THEN ServedAlone
                               ELSE [q[s] EXCEPT !.base = NoRating]]

\* Unmounted: the state of the card is gone, its callbacks are dropped.
Leave ==
    /\ mounted' = FALSE /\ own' = NoSlot /\ crossed' = FALSE
    /\ current' = NoFeedback /\ selected' = NoRating
    /\ mode' = "view" /\ note' = NoNote /\ form' = 0

\* A change without its callback is left to Elsewhere, and its invalidation to
\* ListFails and Reconnect, which together do the same.
DropChange == change' = NoChange

\* Fresh data: the card is filled again, or goes with its record.
ListArrives ==
    /\ fetch.at = "read"
    /\ list' = [fb |-> fetch.fb, rec |-> fetch.rec]
    /\ fetch' = Resting
    /\ IF ~mounted THEN UNCHANGED <<card, ups, change>>
       ELSE IF fetch.rec = 0 THEN Leave /\ ups' = Orphans(ups) /\ DropChange
       ELSE /\ Refill(fetch.fb) /\ Rekey(fetch.rec)
            /\ UNCHANGED <<mounted, mode, own, ups>>
    /\ UNCHANGED <<fb, rec, place>>

ListFails ==
    /\ fetch.at # "idle"
    /\ fetch' = Resting
    /\ UNCHANGED <<fb, rec, list, place, card, ups, change>>

\* refetchOnReconnect, the only refetch nobody asks for.
Reconnect ==
    /\ mounted /\ fetch.at = "idle"
    /\ fetch' = Sent
    /\ UNCHANGED <<fb, rec, list, place, card, ups, change>>

-----------------------------------------------------------------------------
\* The card comes and goes with its tab.

Mount ==
    /\ ~mounted /\ list.rec # 0
    /\ mounted' = TRUE
    /\ current' = list.fb /\ selected' = list.fb.rating
    /\ mode' = "view" /\ crossed' = FALSE
    /\ fetch' = IF fetch.at = "idle" THEN Sent ELSE fetch
    /\ UNCHANGED <<fb, rec, list, place, note, form, own, ups, change>>

Unmount ==
    /\ mounted /\ Leave /\ ups' = Orphans(ups) /\ DropChange
    /\ UNCHANGED <<fb, rec, list, fetch, place>>

-----------------------------------------------------------------------------
\* Feedback.

Request(kind, r, n) ==
    [at |-> "sent", kind |-> kind, rating |-> r, note |-> n,
     base |-> current.rating, got |-> NoFeedback,
     saw |-> list.fb.rev, clean |-> ~crossed]

Send(s, q) == /\ ups[s].at = "idle" /\ ups' = [ups EXCEPT ![s] = q] /\ own' = s

\* Mutant of ClickRating: the rating alone is sent.
ClickRatingOnly(s, r) ==
    /\ mounted /\ ~UpPending
    /\ selected' = r
    /\ Send(s, Request("rating", r, NoNote))
    /\ UNCHANGED <<fb, rec, list, fetch, place, mounted, current, mode, note,
                   form, change, crossed>>

\* submitRating: the note goes along as the card knows it.
ClickRating(s, r) ==
    /\ mounted /\ ~UpPending
    /\ selected' = r
    /\ Send(s, Request("rating", r, current.note))
    /\ UNCHANGED <<fb, rec, list, fetch, place, mounted, current, mode, note,
                   form, change, crossed>>

\* submitNote: the rating goes along.
SubmitNote(s) ==
    /\ mounted /\ mode = "note" /\ current.rev # 0 /\ ~UpPending
    /\ Send(s, Request("note", current.rating, note))
    /\ UNCHANGED <<fb, rec, list, fetch, place, mounted, current, selected,
                   mode, note, form, change, crossed>>

\* FeedbackService.upsert, as one statement (Catalog takes it apart).
ServeUp(s) ==
    /\ ups[s].at = "sent" /\ rec # 0 /\ fb.rev < MaxWrites
    /\ fb' = [rev |-> fb.rev + 1, rating |-> ups[s].rating, note |-> ups[s].note]
    /\ ups' = [ups EXCEPT ![s] = IF own = s THEN [Served(ups[s]) EXCEPT !.got = fb']
                                 ELSE ServedAlone]
    /\ UNCHANGED <<rec, list, fetch, place, card, change>>

\* Another mode unmounts the edit form, and its callback with it.
Enter(m) ==
    /\ mode' = m
    /\ note' = IF m = "note" THEN current.note ELSE NoNote
    /\ form' = IF m = "editing" THEN list.rec ELSE 0
    /\ change' = IF EditPending THEN NoChange ELSE change

\* onRecordChange: in the history panel resetPage empties the list, the card
\* with it; for RecentMealRecords only recommendations are reset.
RecordChangeUnmounts == place = "history"

\* onSuccess of the hook, then that of the call.
AnswerUp(s) ==
    /\ ups[s].at = "served"
    /\ ups' = [ups EXCEPT ![s] = Unused]
    /\ Invalidate
    /\ IF own # s THEN UNCHANGED <<card, change>>
       ELSE IF RecordChangeUnmounts THEN Leave /\ DropChange
       ELSE /\ own' = NoSlot /\ current' = ups[s].got
            /\ IF ups[s].kind = "note" THEN Enter("view")
               ELSE UNCHANGED <<mode, note, form, change>>
            /\ UNCHANGED <<mounted, selected, crossed>>
    /\ UNCHANGED <<fb, rec, list, place>>

\* The record is gone (404), the request fails, or its answer is lost; onError.
UpFails(s) ==
    /\ ups[s].at # "idle"
    /\ ups' = [ups EXCEPT ![s] = Unused]
    /\ IF own = s
       THEN /\ own' = NoSlot
            /\ selected' = IF ups[s].kind = "rating" THEN ups[s].base ELSE selected
       ELSE UNCHANGED <<own, selected>>
    /\ UNCHANGED <<fb, rec, list, fetch, place, mounted, current, mode, note,
                   form, change, crossed>>

-----------------------------------------------------------------------------
\* Modes of the card.

\* The buttons that open a mode or close it again, and the one for the variants.
Toggle(m) ==
    /\ mounted
    /\ m \in {"editing", "delete-confirm"} => ~DelPending
    /\ m = "note" => current.rev # 0 /\ ~UpPending
    /\ Enter(IF mode = m /\ m # "delete-confirm" THEN "view" ELSE m)
    /\ UNCHANGED <<fb, rec, list, fetch, place, mounted, current, selected, own,
                   ups, crossed>>

\* The cancel buttons of the note, the deletion and the edit form.
Cancel ==
    /\ mounted
    /\ \/ mode = "note" /\ current.rev # 0 /\ ~UpPending
       \/ mode = "delete-confirm" /\ ~DelPending
       \/ mode = "editing" /\ ~EditPending
    /\ Enter("view")
    /\ UNCHANGED <<fb, rec, list, fetch, place, mounted, current, selected, own,
                   ups, crossed>>

TypeNote(n) ==
    /\ mounted /\ mode = "note" /\ current.rev # 0 /\ n # note
    /\ note' = n
    /\ UNCHANGED <<fb, rec, list, fetch, place, mounted, current, selected, mode,
                   form, own, ups, change, crossed>>

\* submit of the edit form, or handleDelete; one at a time.
Submit(kind) ==
    /\ mounted /\ change.at = "idle"
    /\ mode = IF kind = "edit" THEN "editing" ELSE "delete-confirm"
    /\ change' = [at |-> "sent", kind |-> kind]
    /\ UNCHANGED <<fb, rec, list, fetch, place, card, ups>>

\* MealRecordsService.update and delete; the feedback goes with its record.
ServeChange ==
    /\ change.at = "sent" /\ rec # 0
    /\ IF change.kind = "edit"
       THEN rec < MaxEdits /\ rec' = rec + 1 /\ UNCHANGED fb
       ELSE rec' = 0 /\ fb' = NoFeedback
    /\ change' = [change EXCEPT !.at = "served"]
    /\ UNCHANGED <<list, fetch, place, card, ups>>

AnswerChange ==
    /\ change.at = "served"
    /\ Invalidate
    /\ change' = NoChange
    /\ IF RecordChangeUnmounts THEN Leave /\ ups' = Orphans(ups)
       ELSE /\ mode' = "view" /\ note' = NoNote /\ form' = 0
            /\ UNCHANGED <<mounted, current, selected, own, ups, crossed>>
    /\ UNCHANGED <<fb, rec, list, place>>

ChangeFails ==
    /\ change.at # "idle"
    /\ change' = NoChange
    /\ UNCHANGED <<fb, rec, list, fetch, place, card, ups>>

-----------------------------------------------------------------------------
\* The same user on another device, and other members.

Elsewhere ==
    /\ rec # 0
    /\ \/ /\ fb.rev < MaxWrites
          /\ \E r \in Ratings, n \in Notes \cup {NoNote} :
                fb' = [rev |-> fb.rev + 1, rating |-> r, note |-> n]
          /\ UNCHANGED rec
       \/ rec < MaxEdits /\ rec' = rec + 1 /\ UNCHANGED fb
       \/ rec' = 0 /\ fb' = NoFeedback
    /\ UNCHANGED <<list, fetch, place, card, ups, change>>

Next ==
    \/ ReadList \/ ListArrives \/ ListFails \/ Reconnect \/ Mount \/ Unmount
    \/ \E s \in Slots, r \in Ratings : ClickRating(s, r)
    \/ \E s \in Slots : SubmitNote(s) \/ ServeUp(s) \/ AnswerUp(s) \/ UpFails(s)
    \/ \E m \in Modes : Toggle(m)
    \/ Cancel
    \/ \E n \in Notes \cup {NoNote} : TypeNote(n)
    \/ \E k \in {"edit", "delete"} : Submit(k)
    \/ ServeChange \/ AnswerChange \/ ChangeFails
    \/ Elsewhere

Spec == Init /\ [][Next]_vars

-----------------------------------------------------------------------------
\* Every variable holds a value of its type: the state of the card, of the list
\* it reads and of the requests it has sent.
TypeOK ==
    /\ fb \in Feedbacks /\ rec \in Versions
    /\ list \in [fb : Feedbacks, rec : Versions]
    /\ fetch \in [at : {"idle", "sent", "read"}, fb : Feedbacks, rec : Versions]
    /\ place \in {"recent", "history"} /\ mounted \in BOOLEAN
    /\ current \in Feedbacks /\ selected \in Ratings \cup {NoRating}
    /\ mode \in Modes /\ note \in Notes \cup {NoNote} /\ form \in Versions
    /\ ups \in [Slots -> [at : {"idle", "sent", "served"},
                          kind : {"rating", "note"},
                          rating : Ratings \cup {NoRating},
                          note : Notes \cup {NoNote},
                          base : Ratings \cup {NoRating},
                          got : Feedbacks, saw : Revs, clean : BOOLEAN]]
    /\ own \in Slots \cup {NoSlot}
    /\ change \in [at : {"idle", "sent", "served"}, kind : {"edit", "delete"}]
    /\ crossed \in BOOLEAN

\* Once the list shows the feedback the server has and no request of this card
\* is pending, the card shows it too, whatever was written elsewhere, failed or
\* was answered late: the effect of recent-meal-records.tsx:133.  The exception
\* is a newer feedback that was read while a request was pending, which its
\* answer, or the old rating its onError puts back, overwrites.
CardKnows ==
    mounted /\ ~UpPending /\ ~crossed /\ rec # 0 /\ list.fb = fb =>
        current = fb /\ selected = fb.rating

\* A rating keeps the note and a note keeps the rating, although both are sent
\* together, as long as the list showed what the request meets in the table:
\* submitRating and submitNote send along what the card knows.
RatingAndNoteSurvive ==
    [][\A s \in Slots :
        ups[s].at = "sent" /\ ups'[s].at = "served"
        /\ ups[s].clean /\ ups[s].saw = fb.rev =>
            IF ups[s].kind = "rating" THEN fb'.note = fb.note
            ELSE fb'.rating = fb.rating]_vars

\* Neither fresh data nor the answer to a rating changes the note that is being
\* typed or closes its form, unless the card itself goes (the history panel
\* empties its list): the effect fills everything but the draft.
DraftKept ==
    [][(list' # list \/ \E s \in Slots : /\ ups[s].kind = "rating"
                                         /\ ups[s].at = "served"
                                         /\ ups'[s].at = "idle")
       /\ mounted /\ mounted' =>
            note' = note /\ (mode = "note" => mode' = "note")]_vars

\* The open edit form started from the version of the record on the screen,
\* also when another member changed it meanwhile: its key holds updatedAt, so
\* that a save never brings back what the list no longer shows.
EditsWhatIsShown == mounted /\ mode = "editing" => form = list.rec

\* The three invariants together, which strengthen one another.
CardConsistent == TypeOK /\ CardKnows /\ EditsWhatIsShown

=============================================================================
