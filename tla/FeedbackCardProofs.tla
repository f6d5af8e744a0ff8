------------------------- MODULE FeedbackCardProofs -------------------------
(***************************************************************************)
(* Proofs about FeedbackCard, for any ratings, notes, requests, and number *)
(* of writes: the card shows what its list shows, a rating and a note keep *)
(* each other, and the draft is left alone.                                *)
(***************************************************************************)
EXTENDS FeedbackCard, TLAPS

Marks    == Ratings \cup {NoRating}
Texts    == Notes \cup {NoNote}
Fetches  == [at : {"idle", "sent", "read"}, fb : Feedbacks, rec : Versions]
Requests == [at : {"idle", "sent", "served"}, kind : {"rating", "note"},
             rating : Marks, note : Texts, base : Marks,
             got : Feedbacks, saw : Revs, clean : BOOLEAN]
Changes  == [at : {"idle", "sent", "served"}, kind : {"edit", "delete"}]

\* The type invariant by its parts.
ServerTypes ==
    /\ fb \in Feedbacks /\ rec \in Versions
    /\ list \in [fb : Feedbacks, rec : Versions] /\ fetch \in Fetches
    /\ place \in {"recent", "history"}
CardTypes ==
    /\ mounted \in BOOLEAN /\ crossed \in BOOLEAN
    /\ current \in Feedbacks /\ selected \in Marks
    /\ mode \in Modes /\ note \in Texts /\ form \in Versions
    /\ own \in Slots \cup {NoSlot}
RequestTypes == ups \in [Slots -> Requests] /\ change \in Changes

TypeInv == ServerTypes /\ CardTypes /\ RequestTypes

LEMMA TypesAgree == TypeInv <=> TypeOK
BY Zenon DEF TypeInv, ServerTypes, CardTypes, RequestTypes, TypeOK, Marks, Texts,
             Fetches, Requests, Changes

(***************************************************************************)
(* The records.                                                            *)
(***************************************************************************)
LEMMA ConstantRecords ==
    /\ NoFeedback \in Feedbacks /\ NoFeedback.rev = 0 /\ NoFeedback.rating = NoRating
    /\ Resting \in Fetches /\ Sent \in Fetches
    /\ Resting.at = "idle" /\ Sent.at = "sent"
    /\ Unused \in Requests /\ Unused.at = "idle" /\ NoChange \in Changes
    /\ ServedAlone \in Requests /\ ServedAlone.at = "served"
    /\ 0 \in Versions /\ 1 \in Versions /\ 0 \in Revs
    /\ NoRating \in Marks /\ NoNote \in Texts
<1>1. 0 \in Versions /\ 1 \in Versions /\ 0 \in Revs
  BY CardAssumption DEF Versions, Revs
<1>2. NoRating \in Marks /\ NoNote \in Texts
  BY DEF Marks, Texts
<1>3. NoFeedback \in Feedbacks /\ NoFeedback.rev = 0 /\ NoFeedback.rating = NoRating
  BY <1>1 DEF NoFeedback, Feedbacks
<1>4. Resting \in Fetches /\ Resting.at = "idle"
  BY <1>1, <1>3 DEF Resting, Fetches
<1>5. Sent \in Fetches /\ Sent.at = "sent"
  BY <1>4 DEF Sent, Resting, Fetches
<1>6. Unused \in Requests /\ Unused.at = "idle"
  <2>1. FALSE \in BOOLEAN
    OBVIOUS
  <2>2. Unused \in Requests
    BY Zenon, <1>1, <1>2, <1>3, <2>1 DEF Unused, Requests
  <2>. QED  BY <2>2 DEF Unused
<1>7. NoChange \in Changes
  BY DEF NoChange, Changes
<1>8. ServedAlone \in Requests /\ ServedAlone.at = "served"
  BY <1>6 DEF ServedAlone, Requests
<1>. QED  BY <1>1, <1>2, <1>3, <1>4, <1>5, <1>6, <1>7, <1>8

LEMMA MadeFeedback ==
    ASSUME NEW n \in Revs, NEW r \in Marks, NEW t \in Texts
    PROVE  [rev |-> n, rating |-> r, note |-> t] \in Feedbacks
BY DEF Feedbacks, Marks, Texts

\* What is kept of a request that was served.
LEMMA ServedRequest ==
    ASSUME NEW q \in Requests, NEW f \in Feedbacks
    PROVE  /\ [Served(q) EXCEPT !.got = f] \in Requests
           /\ [Served(q) EXCEPT !.got = f].at = "served"
           /\ [Served(q) EXCEPT !.got = f].got = f
           /\ [Served(q) EXCEPT !.got = f].kind = q.kind
           /\ [Served(q) EXCEPT !.got = f].base = q.base
BY ConstantRecords DEF Served, Requests

LEMMA OrphanTypes ==
    ASSUME ups \in [Slots -> Requests]
    PROVE  /\ Orphans(ups) \in [Slots -> Requests]
           /\ \A s \in Slots :
                 /\ Orphans(ups)[s].at = ups[s].at
                 /\ ups[s].at = "sent" =>
                       /\ Orphans(ups)[s].kind = ups[s].kind
                       /\ Orphans(ups)[s].rating = ups[s].rating
                       /\ Orphans(ups)[s].note = ups[s].note
                       /\ Orphans(ups)[s].saw = ups[s].saw
                       /\ Orphans(ups)[s].clean = ups[s].clean
<1>1. ASSUME NEW q \in Requests
      PROVE  [q EXCEPT !.base = NoRating] \in Requests
  BY ConstantRecords DEF Requests
<1>2. \A s \in Slots : Orphans(ups)[s] \in Requests
  BY <1>1, ConstantRecords DEF Orphans
<1>3. Orphans(ups) \in [Slots -> Requests]
  BY <1>2 DEF Orphans
<1>4. ASSUME NEW s \in Slots, ups[s].at = "served"
      PROVE  Orphans(ups)[s] = ServedAlone
  BY <1>4 DEF Orphans
<1>5. ASSUME NEW s \in Slots, ups[s].at # "served"
      PROVE  Orphans(ups)[s] = [ups[s] EXCEPT !.base = NoRating]
  BY <1>5 DEF Orphans
<1>. QED  BY <1>3, <1>4, <1>5, ConstantRecords DEF Requests

LEMMA LeaveTypes ==
    ASSUME Leave
    PROVE  CardTypes' /\ mounted' = FALSE /\ own' = NoSlot
BY Zenon, ConstantRecords DEF Leave, CardTypes, Modes

LEMMA RefillTypes ==
    ASSUME TypeInv, NEW f \in Feedbacks, Refill(f)
    PROVE  current' \in Feedbacks /\ selected' \in Marks
           /\ note' \in Texts /\ crossed' \in BOOLEAN
<1>1. f.rating \in Marks
  BY DEF Feedbacks, Marks
<1>2. CASE f.rev = list.fb.rev
  BY Zenon, <1>2 DEF Refill, TypeInv, CardTypes
<1>3. CASE f.rev # list.fb.rev
  BY Zenon, <1>1, <1>3 DEF Refill, TypeInv, CardTypes, UpPending
<1>. QED  BY <1>2, <1>3

LEMMA EnterTypes ==
    ASSUME TypeInv, NEW m \in Modes, Enter(m)
    PROVE  mode' \in Modes /\ note' \in Texts /\ form' \in Versions /\ change' \in Changes
<1>1. current.note \in Texts /\ list.rec \in Versions
  BY DEF TypeInv, CardTypes, ServerTypes, Feedbacks, Texts
<1>. QED  BY <1>1, ConstantRecords DEF Enter, TypeInv, RequestTypes

\* A fetch is begun again, or it is left alone.
LEMMA InvalidateTypes ==
    ASSUME TypeInv, Invalidate
    PROVE  fetch' \in Fetches /\ (fetch' = fetch \/ fetch' = Sent)
BY ConstantRecords DEF Invalidate, TypeInv, ServerTypes

(***************************************************************************)
(* The steps by what they are about.                                       *)
(***************************************************************************)
ListStep == ReadList \/ ListArrives \/ ListFails \/ Reconnect \/ Mount \/ Unmount
SendStep ==
    \/ \E s \in Slots, r \in Ratings : ClickRating(s, r)
    \/ \E s \in Slots : SubmitNote(s)
UpStep   == \E s \in Slots : ServeUp(s) \/ AnswerUp(s) \/ UpFails(s)
ModeStep ==
    \/ \E m \in Modes : Toggle(m)
    \/ Cancel
    \/ \E n \in Texts : TypeNote(n)
    \/ \E k \in {"edit", "delete"} : Submit(k)
RecStep  == ServeChange \/ AnswerChange \/ ChangeFails \/ Elsewhere

LEMMA NextSteps ==
    [Next]_vars => ListStep \/ SendStep \/ UpStep \/ ModeStep \/ RecStep
                   \/ UNCHANGED vars
BY DEF Next, ListStep, SendStep, UpStep, ModeStep, RecStep, Texts

LEMMA InitTypes == Init => TypeInv
<1>. SUFFICES ASSUME Init PROVE TypeInv
  OBVIOUS
<1>. USE ConstantRecords
<1>1. fb \in Feedbacks
  <2>1. \A r \in Ratings, n \in Notes :
           [rev |-> 1, rating |-> r, note |-> n] \in Feedbacks
    BY CardAssumption DEF Feedbacks, Revs
  <2>. QED  BY <2>1 DEF Init
<1>2. ServerTypes
  BY <1>1 DEF Init, ServerTypes
<1>3. fb.rating \in Marks
  BY <1>1 DEF Feedbacks, Marks
<1>4. CardTypes
  BY Zenon, <1>1, <1>3 DEF Init, CardTypes, Modes
<1>5. RequestTypes
  BY DEF Init, RequestTypes
<1>. QED  BY <1>2, <1>4, <1>5 DEF TypeInv

LEMMA ListTypes == ASSUME TypeInv, ListStep PROVE TypeInv'
<1>. USE ConstantRecords
<1>1. CASE ReadList
  <2>1. fetch' \in Fetches
    BY <1>1 DEF ReadList, TypeInv, ServerTypes, Fetches
  <2>. QED  BY Zenon, <1>1, <2>1 DEF ReadList, TypeInv, ServerTypes, CardTypes,
                                      RequestTypes, card
<1>2. CASE ListArrives
  <2>1. fetch.fb \in Feedbacks /\ fetch.rec \in Versions
    BY DEF TypeInv, ServerTypes, Fetches
  <2>2. ServerTypes'
    BY <1>2, <2>1 DEF ListArrives, TypeInv, ServerTypes
  <2>3. CASE ~mounted
    BY Zenon, <1>2, <2>2, <2>3 DEF ListArrives, TypeInv, CardTypes, RequestTypes, card
  <2>4. CASE mounted /\ fetch.rec = 0
    <3>1. Leave /\ ups' = Orphans(ups) /\ DropChange
      BY <1>2, <2>4 DEF ListArrives
    <3>2. RequestTypes'
      BY <3>1, OrphanTypes DEF DropChange, TypeInv, RequestTypes
    <3>. QED  BY <2>2, <3>1, <3>2, LeaveTypes DEF TypeInv
  <2>5. CASE mounted /\ fetch.rec # 0
    <3>1. /\ Refill(fetch.fb) /\ Rekey(fetch.rec)
          /\ UNCHANGED <<mounted, mode, own, ups>>
      BY <1>2, <2>5 DEF ListArrives
    <3>2. form' \in Versions /\ change' \in Changes
      BY <2>1, <3>1 DEF Rekey, TypeInv, CardTypes, RequestTypes
    <3>. QED  BY Zenon, <2>1, <2>2, <3>1, <3>2, RefillTypes
              DEF TypeInv, CardTypes, RequestTypes
  <2>. QED  BY <2>3, <2>4, <2>5
<1>3. CASE ListFails \/ Reconnect
  <2>1. ServerTypes'
    BY <1>3 DEF ListFails, Reconnect, TypeInv, ServerTypes
  <2>. QED  BY Zenon, <1>3, <2>1 DEF ListFails, Reconnect, TypeInv, CardTypes,
                                      RequestTypes, card
<1>4. CASE Mount
  <2>1. list.fb \in Feedbacks /\ list.fb.rating \in Marks
    BY DEF TypeInv, ServerTypes, Feedbacks, Marks
  <2>2. ServerTypes'
    BY <1>4 DEF Mount, TypeInv, ServerTypes
  <2>. QED  BY Zenon, <1>4, <2>1, <2>2 DEF Mount, TypeInv, CardTypes, RequestTypes, Modes
<1>5. CASE Unmount
  <2>1. RequestTypes'
    BY <1>5, OrphanTypes DEF Unmount, DropChange, TypeInv, RequestTypes
  <2>2. ServerTypes'
    BY Zenon, <1>5 DEF Unmount, TypeInv, ServerTypes
  <2>. QED  BY <1>5, <2>1, <2>2, LeaveTypes DEF Unmount, TypeInv
<1>. QED  BY <1>1, <1>2, <1>3, <1>4, <1>5 DEF ListStep

\* A request as it is sent.
LEMMA RequestMade ==
    ASSUME TypeInv, NEW k \in {"rating", "note"}, NEW r \in Marks, NEW n \in Texts
    PROVE  /\ Request(k, r, n) \in Requests
           /\ Request(k, r, n).at = "sent" /\ Request(k, r, n).kind = k
           /\ Request(k, r, n).rating = r /\ Request(k, r, n).note = n
           /\ Request(k, r, n).base = current.rating
           /\ Request(k, r, n).saw = list.fb.rev
           /\ Request(k, r, n).clean = ~crossed
<1>. DEFINE b == ~crossed
<1>1. b \in BOOLEAN
  BY Zenon
<1>2. current.rating \in Marks /\ list.fb.rev \in Revs
  BY DEF TypeInv, CardTypes, ServerTypes, Feedbacks, Marks
<1>3. Request(k, r, n) =
        [at |-> "sent", kind |-> k, rating |-> r, note |-> n,
         base |-> current.rating, got |-> NoFeedback, saw |-> list.fb.rev, clean |-> b]
  BY DEF Request
<1>. HIDE DEF b
<1>4. Request(k, r, n) \in Requests
  BY <1>1, <1>2, <1>3, ConstantRecords DEF Requests
<1>5. Request(k, r, n).clean = ~crossed
  BY <1>3 DEF b
<1>. QED  BY <1>3, <1>4, <1>5

\* What a click sends: its record, and the slot it goes to.
LEMMA SendRecords ==
    ASSUME TypeInv, SendStep
    PROVE  \E s \in Slots, k \in {"rating", "note"}, r \in Marks, n \in Texts :
              /\ own = NoSlot /\ mounted /\ mounted' = mounted /\ ups[s].at = "idle"
              /\ ups' = [ups EXCEPT ![s] = Request(k, r, n)] /\ own' = s
              /\ k = "rating" => selected' = r /\ n = current.note
              /\ k = "note" => selected' = selected /\ r = current.rating
              /\ UNCHANGED <<fb, rec, list, fetch, place, current, mode, form,
                             change, crossed, note>>
<1>. current.note \in Texts /\ current.rating \in Marks /\ note \in Texts
  BY DEF TypeInv, CardTypes, Feedbacks, Texts, Marks
<1>1. ASSUME NEW s \in Slots, NEW r \in Ratings, ClickRating(s, r)
      PROVE  /\ r \in Marks /\ own = NoSlot /\ mounted /\ mounted' = mounted
             /\ ups[s].at = "idle"
             /\ ups' = [ups EXCEPT ![s] = Request("rating", r, current.note)] /\ own' = s
             /\ selected' = r
             /\ UNCHANGED <<fb, rec, list, fetch, place, current, mode, form,
                            change, crossed, note>>
  BY <1>1 DEF ClickRating, Send, UpPending, Marks
<1>2. ASSUME NEW s \in Slots, SubmitNote(s)
      PROVE  /\ own = NoSlot /\ mounted /\ mounted' = mounted /\ ups[s].at = "idle"
             /\ ups' = [ups EXCEPT ![s] = Request("note", current.rating, note)] /\ own' = s
             /\ selected' = selected
             /\ UNCHANGED <<fb, rec, list, fetch, place, current, mode, form,
                            change, crossed, note>>
  BY <1>2 DEF SubmitNote, Send, UpPending
<1>3. CASE \E s \in Slots, r \in Ratings : ClickRating(s, r)
  <2>1. PICK s \in Slots, r \in Ratings : ClickRating(s, r)
    BY <1>3
  <2>. WITNESS s \in Slots, "rating" \in {"rating", "note"}
  <2>. QED  BY <1>1, <2>1
<1>4. CASE \E s \in Slots : SubmitNote(s)
  <2>1. PICK s \in Slots : SubmitNote(s)
    BY <1>4
  <2>. WITNESS s \in Slots, "note" \in {"rating", "note"}
  <2>. QED  BY <1>2, <2>1
<1>. QED  BY <1>3, <1>4 DEF SendStep

LEMMA SendTypes == ASSUME TypeInv, SendStep PROVE TypeInv'
<1>1. PICK s \in Slots, k \in {"rating", "note"}, r \in Marks, n \in Texts :
         /\ ups' = [ups EXCEPT ![s] = Request(k, r, n)] /\ own' = s
         /\ k = "rating" => selected' = r
         /\ k = "note" => selected' = selected
         /\ UNCHANGED <<fb, rec, list, fetch, place, mounted, current, mode, form,
                        change, crossed, note>>
  BY SendRecords
<1>2. ups' \in [Slots -> Requests]
  BY <1>1, RequestMade DEF TypeInv, RequestTypes
<1>3. selected' \in Marks
  BY <1>1 DEF TypeInv, CardTypes
<1>4. mounted' \in BOOLEAN /\ crossed' \in BOOLEAN
  BY Zenon, <1>1 DEF TypeInv, CardTypes
<1>. QED  BY <1>1, <1>2, <1>3, <1>4 DEF TypeInv, CardTypes, ServerTypes, RequestTypes

LEMMA UpTypes == ASSUME TypeInv, UpStep PROVE TypeInv'
<1>. USE ConstantRecords, CardAssumption
<1>1. ASSUME NEW s \in Slots, ServeUp(s) PROVE TypeInv'
  <2>1. ups[s] \in Requests /\ ups[s].rating \in Marks /\ ups[s].note \in Texts
    BY DEF TypeInv, RequestTypes, Requests
  <2>2. fb.rev + 1 \in Revs
    BY <1>1 DEF ServeUp, TypeInv, ServerTypes, Feedbacks, Revs
  <2>3. fb' \in Feedbacks
    BY <1>1, <2>1, <2>2, MadeFeedback DEF ServeUp
  <2>4. ups' \in [Slots -> Requests]
    BY <1>1, <2>1, <2>3, ServedRequest DEF ServeUp, TypeInv, RequestTypes
  <2>. QED  BY Zenon, <1>1, <2>3, <2>4 DEF ServeUp, TypeInv, ServerTypes, CardTypes,
                                            RequestTypes, card
<1>2. ASSUME NEW s \in Slots, AnswerUp(s) PROVE TypeInv'
  <2>1. ups' \in [Slots -> Requests]
    BY <1>2 DEF AnswerUp, TypeInv, RequestTypes
  <2>2. ServerTypes'
    BY <1>2, InvalidateTypes DEF AnswerUp, TypeInv, ServerTypes
  <2>3. CASE own # s
    <3>1. UNCHANGED <<card, change>>
      BY <1>2, <2>3 DEF AnswerUp
    <3>. QED  BY Zenon, <2>1, <2>2, <3>1 DEF TypeInv, CardTypes, RequestTypes, card
  <2>4. CASE own = s /\ RecordChangeUnmounts
    <3>1. Leave /\ change' = NoChange
      BY <1>2, <2>4 DEF AnswerUp, DropChange
    <3>. QED  BY <2>1, <2>2, <3>1, LeaveTypes DEF TypeInv, RequestTypes
  <2>5. CASE own = s /\ ~RecordChangeUnmounts
    <3>1. /\ own' = NoSlot /\ current' = ups[s].got
          /\ Enter("view") \/ UNCHANGED <<mode, note, form, change>>
          /\ UNCHANGED <<mounted, selected, crossed>>
      BY <1>2, <2>5 DEF AnswerUp
    <3>2. ups[s].got \in Feedbacks
      BY DEF TypeInv, RequestTypes, Requests
    <3>3. mode' \in Modes /\ note' \in Texts /\ form' \in Versions /\ change' \in Changes
      BY <3>1, EnterTypes DEF TypeInv, CardTypes, RequestTypes, Modes
    <3>. QED  BY Zenon, <2>1, <2>2, <3>1, <3>2, <3>3 DEF TypeInv, CardTypes, RequestTypes
  <2>. QED  BY <2>3, <2>4, <2>5
<1>3. ASSUME NEW s \in Slots, UpFails(s) PROVE TypeInv'
  <2>1. ups' \in [Slots -> Requests]
    BY <1>3 DEF UpFails, TypeInv, RequestTypes
  <2>2. own' \in Slots \cup {NoSlot} /\ selected' \in Marks
    BY <1>3 DEF UpFails, TypeInv, CardTypes, RequestTypes, Requests
  <2>. QED  BY Zenon, <1>3, <2>1, <2>2 DEF UpFails, TypeInv, ServerTypes, CardTypes,
                                            RequestTypes
<1>. QED  BY <1>1, <1>2, <1>3 DEF UpStep

\* The steps of the modes leave alone what the card knows.
SameKnowledge ==
    UNCHANGED <<fb, rec, list, fetch, place, mounted, current, selected, own, ups, crossed>>

LEMMA ModeTypes == ASSUME TypeInv, ModeStep PROVE TypeInv' /\ SameKnowledge
<1>1. SameKnowledge
  BY DEF ModeStep, Toggle, Cancel, TypeNote, Submit, card, SameKnowledge
<1>2. mode' \in Modes /\ note' \in Texts /\ form' \in Versions /\ change' \in Changes
  <2>1. CASE \E m \in Modes : Toggle(m)
    BY <2>1, EnterTypes DEF Toggle, Modes
  <2>2. CASE Cancel
    BY <2>2, EnterTypes DEF Cancel, Modes
  <2>3. CASE \E n \in Texts : TypeNote(n)
    BY <2>3 DEF TypeNote, TypeInv, CardTypes, RequestTypes
  <2>4. CASE \E k \in {"edit", "delete"} : Submit(k)
    BY <2>4 DEF Submit, card, TypeInv, CardTypes, RequestTypes, Changes
  <2>. QED  BY <2>1, <2>2, <2>3, <2>4 DEF ModeStep
<1>. QED  BY Zenon, <1>1, <1>2 DEF SameKnowledge, TypeInv, ServerTypes, CardTypes,
                                    RequestTypes

LEMMA RecTypes == ASSUME TypeInv, RecStep PROVE TypeInv'
<1>. USE ConstantRecords, CardAssumption
<1>1. CASE ServeChange
  <2>1. fb' \in Feedbacks /\ rec' \in Versions
    BY <1>1 DEF ServeChange, TypeInv, ServerTypes, Versions
  <2>2. change' \in Changes
    BY <1>1 DEF ServeChange, TypeInv, RequestTypes, Changes
  <2>. QED  BY Zenon, <1>1, <2>1, <2>2 DEF ServeChange, TypeInv, ServerTypes, CardTypes,
                                            RequestTypes, card
<1>2. CASE AnswerChange
  <2>1. ServerTypes' /\ change' \in Changes
    BY <1>2, InvalidateTypes DEF AnswerChange, TypeInv, ServerTypes
  <2>2. CASE RecordChangeUnmounts
    <3>1. Leave /\ ups' = Orphans(ups)
      BY <1>2, <2>2 DEF AnswerChange
    <3>. QED  BY <2>1, <3>1, LeaveTypes, OrphanTypes DEF TypeInv, RequestTypes
  <2>3. CASE ~RecordChangeUnmounts
    BY Zenon, <1>2, <2>1, <2>3 DEF AnswerChange, TypeInv, CardTypes, RequestTypes, Modes
  <2>. QED  BY <2>2, <2>3
<1>3. CASE ChangeFails
  BY Zenon, <1>3 DEF ChangeFails, TypeInv, ServerTypes, CardTypes, RequestTypes, card
<1>4. CASE Elsewhere
  <2>1. fb' \in Feedbacks /\ rec' \in Versions
    <3>1. CASE /\ fb.rev < MaxWrites
               /\ \E r \in Ratings, n \in Notes \cup {NoNote} :
                     fb' = [rev |-> fb.rev + 1, rating |-> r, note |-> n]
               /\ UNCHANGED rec
      <4>1. fb.rev + 1 \in Revs
        BY <3>1 DEF TypeInv, ServerTypes, Feedbacks, Revs
      <4>. QED  BY <3>1, <4>1, MadeFeedback DEF TypeInv, ServerTypes, Marks, Texts
    <3>2. CASE rec < MaxEdits /\ rec' = rec + 1 /\ UNCHANGED fb
      BY <3>2 DEF TypeInv, ServerTypes, Versions
    <3>3. CASE rec' = 0 /\ fb' = NoFeedback
      BY <3>3
    <3>. QED  BY <1>4, <3>1, <3>2, <3>3 DEF Elsewhere
  <2>. QED  BY Zenon, <1>4, <2>1 DEF Elsewhere, TypeInv, ServerTypes, CardTypes,
                                      RequestTypes, card
<1>. QED  BY <1>1, <1>2, <1>3, <1>4 DEF RecStep

LEMMA NextTypes == TypeInv /\ [Next]_vars => TypeInv'
<1>1. TypeInv /\ UNCHANGED vars => TypeInv'
  BY Zenon DEF TypeInv, ServerTypes, CardTypes, RequestTypes, vars, card
<1>. QED  BY <1>1, NextSteps, ListTypes, SendTypes, UpTypes, ModeTypes, RecTypes

(***************************************************************************)
(* What is known of the feedback.  A feedback that was read is not newer   *)
(* than the row, and it is the row if it is as new; the list only ever     *)
(* shows one feedback of a number.  Once the record is deleted nothing is  *)
(* said of what the card still shows.                                      *)
(***************************************************************************)
Past(x)  == x.rev <= fb.rev /\ (x.rev = fb.rev => x = fb)
Newer(x) == x = list.fb \/ x.rev > list.fb.rev

ReadInv ==
    /\ Past(list.fb)
    /\ fetch.at = "read" => /\ Past(fetch.fb)
                            /\ fetch.fb.rev = list.fb.rev => fetch.fb = list.fb
    /\ mounted => Past(current)
    /\ \A s \in Slots : own = s => /\ mounted /\ ups[s].at # "idle"
                                   /\ ups[s].at = "served" => Past(ups[s].got)

(***************************************************************************)
(* As long as it was not crossed, the card shows the feedback of the list, *)
(* or a newer one of its own, and its selection agrees with the feedback,  *)
(* or with the request that it waits for.                                  *)
(***************************************************************************)
Settled == own = NoSlot => selected = current.rating
Waits(s) ==
    /\ ups[s].base = current.rating
    /\ ups[s].kind = "note" => selected = current.rating
    /\ ups[s].at = "sent" => ups[s].rating = selected
    /\ ups[s].at = "served" => /\ ups[s].got.rating = selected
                               /\ ups[s].got.rev > list.fb.rev

ShowInv ==
    mounted /\ ~crossed =>
        Newer(current) /\ Settled /\ \A s \in Slots : own = s => Waits(s)

(***************************************************************************)
(* A request that was clean carries what the feedback it saw has, if that  *)
(* is still the row.                                                       *)
(***************************************************************************)
Carries(s) ==
    ups[s].at = "sent" /\ ups[s].clean =>
        /\ ups[s].saw <= fb.rev
        /\ ups[s].saw = fb.rev =>
              /\ ups[s].kind = "rating" => ups[s].note = fb.note
              /\ ups[s].kind = "note" => ups[s].rating = fb.rating

KnowInv == rec # 0 => ReadInv /\ ShowInv /\ \A s \in Slots : Carries(s)

LEMMA InitKnows == Init => KnowInv
<1>. SUFFICES ASSUME Init PROVE ReadInv /\ ShowInv /\ \A s \in Slots : Carries(s)
  BY DEF KnowInv
<1>. USE ConstantRecords, CardAssumption
<1>1. /\ list.fb = fb /\ current = fb /\ selected = fb.rating /\ own = NoSlot
      /\ fetch.at = "idle" /\ \A s \in Slots : ups[s].at = "idle" /\ s # own
  BY DEF Init
<1>2. fb.rev <= fb.rev
  <2>1. fb \in Feedbacks
    BY InitTypes DEF TypeInv, ServerTypes
  <2>. QED  BY <2>1 DEF Feedbacks, Revs
<1>. QED  BY <1>1, <1>2 DEF ReadInv, ShowInv, Carries, Past, Newer, Settled

(***************************************************************************)
(* The numbers are numbers.                                                *)
(***************************************************************************)
LEMMA Numbers ==
    ASSUME TypeInv
    PROVE  /\ fb.rev \in Nat /\ list.fb.rev \in Nat /\ fetch.fb.rev \in Nat
           /\ current.rev \in Nat
           /\ \A s \in Slots : ups[s].got.rev \in Nat /\ ups[s].saw \in Nat
<1>1. \A x \in Feedbacks : x.rev \in Nat
  BY CardAssumption DEF Feedbacks, Revs
<1>2. /\ fb \in Feedbacks /\ list.fb \in Feedbacks /\ fetch.fb \in Feedbacks
      /\ current \in Feedbacks
      /\ \A s \in Slots : ups[s].got \in Feedbacks /\ ups[s].saw \in Revs
  BY DEF TypeInv, ServerTypes, CardTypes, RequestTypes, Fetches, Requests
<1>. QED  BY <1>1, <1>2, CardAssumption DEF Revs

\* Steps that change neither the row, nor what was read of it, nor the requests.
LEMMA SameKnow ==
    ASSUME KnowInv, UNCHANGED <<fb, rec, list, mounted, current, selected, own, ups, crossed>>,
           fetch' = fetch \/ fetch'.at # "read"
    PROVE  KnowInv'
BY DEF KnowInv, ReadInv, ShowInv, Carries, Past, Newer, Settled, Waits

\* A card that goes knows nothing; its requests carry what they carried.
LEMMA GoneKnow ==
    ASSUME TypeInv, KnowInv, Leave,
           UNCHANGED <<fb, rec>>, list' = list \/ (fetch.at = "read" /\ list'.fb = fetch.fb),
           (fetch' = fetch /\ list' = list) \/ fetch'.at # "read",
           \A s \in Slots : ups'[s].at = "sent" =>
               /\ ups[s].at = "sent" /\ ups'[s].clean = ups[s].clean
               /\ ups'[s].saw = ups[s].saw /\ ups'[s].kind = ups[s].kind
               /\ ups'[s].rating = ups[s].rating /\ ups'[s].note = ups[s].note
    PROVE  KnowInv'
<1>. SUFFICES ASSUME rec # 0 PROVE (ReadInv /\ ShowInv /\ \A s \in Slots : Carries(s))'
  BY DEF KnowInv
<1>1. mounted' = FALSE /\ \A s \in Slots : own' # s
  BY LeaveTypes, CardAssumption
<1>2. ReadInv'
  BY <1>1 DEF KnowInv, ReadInv, Past
<1>3. ShowInv'
  BY <1>1 DEF ShowInv
<1>4. \A s \in Slots : Carries(s)'
  BY DEF KnowInv, Carries
<1>. QED  BY <1>2, <1>3, <1>4

LEMMA ListKnow == ASSUME TypeInv, KnowInv, ListStep PROVE KnowInv'
<1>. USE ConstantRecords
<1>1. CASE ReadList
  <2>1. /\ UNCHANGED <<fb, rec, list, mounted, current, selected, own, ups, crossed>>
        /\ fetch'.at = "read" /\ fetch'.fb = fb
    BY <1>1 DEF ReadList, card
  <2>. QED  BY <2>1, Numbers DEF KnowInv, ReadInv, ShowInv, Carries, Past, Newer,
                                 Settled, Waits
<1>2. CASE ListArrives
  <2>1. list'.fb = fetch.fb /\ fetch.at = "read" /\ fetch'.at = "idle"
        /\ UNCHANGED <<fb, rec>>
    BY <1>2 DEF ListArrives
  <2>2. CASE ~mounted
    <3>1. UNCHANGED <<mounted, current, selected, own, ups, crossed>>
      BY <1>2, <2>2 DEF ListArrives, card
    <3>. QED  BY <2>1, <2>2, <3>1 DEF KnowInv, ReadInv, ShowInv, Carries, Past
  <2>3. CASE mounted /\ fetch.rec = 0
    <3>1. Leave /\ ups' = Orphans(ups)
      BY <1>2, <2>3 DEF ListArrives
    <3>. QED  BY <2>1, <3>1, GoneKnow, OrphanTypes DEF TypeInv, RequestTypes
  <2>4. CASE mounted /\ fetch.rec # 0
    <3>. SUFFICES ASSUME rec # 0 PROVE (ReadInv /\ ShowInv /\ \A s \in Slots : Carries(s))'
      BY <2>1 DEF KnowInv
    <3>1. Refill(fetch.fb) /\ UNCHANGED <<mounted, own, ups>>
      BY <1>2, <2>4 DEF ListArrives
    <3>2. \A s \in Slots : Carries(s)'
      BY <2>1, <3>1 DEF KnowInv, Carries
    <3>3. CASE fetch.fb.rev = list.fb.rev
      <4>1. list'.fb = list.fb /\ UNCHANGED <<current, selected, crossed>>
        BY <2>1, <3>1, <3>3 DEF Refill, KnowInv, ReadInv
      <4>. QED  BY <2>1, <3>1, <3>2, <4>1 DEF KnowInv, ReadInv, ShowInv, Past, Newer,
                                              Settled, Waits
    <3>4. CASE fetch.fb.rev # list.fb.rev
      <4>1. current' = fetch.fb /\ selected' = fetch.fb.rating
            /\ crossed' = (own # NoSlot)
        BY <3>1, <3>4 DEF Refill, UpPending
      <4>2. ReadInv'
        BY <2>1, <3>1, <4>1 DEF KnowInv, ReadInv, Past
      <4>3. ShowInv'
        <5>1. CASE own = NoSlot
          BY <2>1, <3>1, <4>1, <5>1, CardAssumption DEF ShowInv, Newer, Settled
        <5>2. CASE own # NoSlot
          BY Zenon, <4>1, <5>2 DEF ShowInv
        <5>. QED  BY <5>1, <5>2
      <4>. QED  BY <3>2, <4>2, <4>3
    <3>. QED  BY <3>3, <3>4
  <2>. QED  BY <2>2, <2>3, <2>4
<1>3. CASE ListFails \/ Reconnect
  BY <1>3, SameKnow DEF ListFails, Reconnect, card
<1>4. CASE Mount
  <2>1. /\ mounted' /\ ~mounted /\ ~crossed' /\ current' = list.fb
        /\ selected' = list.fb.rating
        /\ UNCHANGED <<fb, rec, list, own, ups>> /\ (fetch' = fetch \/ fetch'.at # "read")
    BY <1>4 DEF Mount
  <2>2. rec # 0 => \A s \in Slots : own # s
    BY <2>1 DEF KnowInv, ReadInv
  <2>. QED  BY <2>1, <2>2 DEF KnowInv, ReadInv, ShowInv, Carries, Past, Newer, Settled
<1>5. CASE Unmount
  <2>1. Leave /\ ups' = Orphans(ups) /\ UNCHANGED <<fb, rec, list, fetch>>
    BY <1>5 DEF Unmount
  <2>. QED  BY <2>1, GoneKnow, OrphanTypes DEF TypeInv, RequestTypes
<1>. QED  BY <1>1, <1>2, <1>3, <1>4, <1>5 DEF ListStep

LEMMA SendKnow == ASSUME TypeInv, KnowInv, SendStep PROVE KnowInv'
<1>1. PICK s \in Slots, k \in {"rating", "note"}, r \in Marks, n \in Texts :
         /\ own = NoSlot /\ mounted /\ mounted' = mounted /\ ups[s].at = "idle"
         /\ ups' = [ups EXCEPT ![s] = Request(k, r, n)] /\ own' = s
         /\ k = "rating" => selected' = r /\ n = current.note
         /\ k = "note" => selected' = selected /\ r = current.rating
         /\ UNCHANGED <<fb, rec, list, fetch, place, current, mode, form,
                        change, crossed, note>>
  BY SendRecords
<1>. SUFFICES ASSUME rec # 0 PROVE (ReadInv /\ ShowInv /\ \A t \in Slots : Carries(t))'
  BY <1>1 DEF KnowInv
<1>2. /\ ups'[s] = Request(k, r, n)
      /\ \A t \in Slots : t # s => ups'[t] = ups[t]
  BY <1>1 DEF TypeInv, RequestTypes
<1>3. ReadInv'
  BY <1>1, <1>2, RequestMade DEF KnowInv, ReadInv, Past
<1>4. ~crossed => Newer(current) /\ selected = current.rating
  BY <1>1 DEF KnowInv, ShowInv, Settled
<1>5. ShowInv'
  <2>. SUFFICES ASSUME ~crossed PROVE (Newer(current) /\ Settled)' /\ Waits(s)'
    BY <1>1 DEF ShowInv
  <2>1. Newer(current)' /\ Settled'
    BY <1>1, <1>4, CardAssumption DEF Newer, Settled
  <2>2. Waits(s)'
    BY <1>1, <1>2, <1>4, RequestMade DEF Waits
  <2>. QED  BY <2>1, <2>2
<1>6. Carries(s)'
  <2>. SUFFICES ASSUME ups'[s].clean
       PROVE  /\ list.fb.rev <= fb.rev
              /\ list.fb.rev = fb.rev =>
                    (k = "rating" => n = fb.note) /\ (k = "note" => r = fb.rating)
    BY <1>1, <1>2, RequestMade DEF Carries
  <2>1. ~crossed
    <3>1. Request(k, r, n).clean = ~crossed
      BY RequestMade
    <3>. QED  BY Zenon, <1>2, <3>1
  <2>2. Past(list.fb) /\ Past(current) /\ Newer(current)
    BY <1>1, <1>4, <2>1 DEF KnowInv, ReadInv
  <2>3. list.fb.rev = fb.rev => current = fb
    BY <2>2, Numbers DEF Past, Newer
  <2>. QED  BY <1>1, <2>2, <2>3 DEF Past
<1>7. ASSUME NEW t \in Slots, t # s PROVE Carries(t)'
  BY <1>1, <1>2, <1>7 DEF KnowInv, Carries
<1>. QED  BY <1>3, <1>5, <1>6, <1>7

\* A write makes everything that was read past.
LEMMA WriteKnow ==
    ASSUME TypeInv, KnowInv, rec # 0, fb'.rev = fb.rev + 1
    PROVE  /\ \A x \in Feedbacks : Past(x) => Past(x)'
           /\ \A s \in Slots : ups'[s] = ups[s] => Carries(s)'
<1>1. ASSUME NEW x \in Feedbacks, Past(x) PROVE Past(x)'
  <2>1. x.rev \in Nat
    BY CardAssumption DEF Feedbacks, Revs
  <2>. QED  BY <1>1, <2>1, Numbers DEF Past
<1>2. ASSUME NEW s \in Slots, ups'[s] = ups[s] PROVE Carries(s)'
  BY <1>2, Numbers DEF KnowInv, Carries
<1>. QED  BY <1>1, <1>2

LEMMA UpKnow == ASSUME TypeInv, KnowInv, UpStep PROVE KnowInv'
<1>. USE ConstantRecords
<1>1. ASSUME NEW s \in Slots, ServeUp(s) PROVE KnowInv'
  <2>1. /\ fb'.rev = fb.rev + 1 /\ fb'.rating = ups[s].rating /\ rec # 0
        /\ ups[s].at = "sent"
        /\ UNCHANGED <<rec, list, fetch, mounted, current, selected, own, crossed>>
    BY <1>1 DEF ServeUp, card
  <2>2. \A t \in Slots : t # s => ups'[t] = ups[t]
    BY <1>1 DEF ServeUp, TypeInv, RequestTypes
  <2>3. fb' \in Feedbacks /\ ups[s] \in Requests
    BY <1>1, UpTypes DEF UpStep, TypeInv, ServerTypes, RequestTypes
  <2>4. ups'[s].at = "served"
    BY <1>1, <2>3, ServedRequest DEF ServeUp, TypeInv, RequestTypes
  <2>5. own = s => /\ ups'[s].got = fb' /\ ups'[s].kind = ups[s].kind
                   /\ ups'[s].base = ups[s].base
    BY <1>1, <2>3, ServedRequest DEF ServeUp, TypeInv, RequestTypes
  <2>6. /\ list.fb \in Feedbacks /\ fetch.fb \in Feedbacks /\ current \in Feedbacks
    BY DEF TypeInv, ServerTypes, CardTypes, Fetches
  <2>7. own = s => Past(ups[s].got)'
    <3>1. fb'.rev <= fb'.rev
      BY <2>1, Numbers
    <3>. QED  BY <2>5, <3>1 DEF Past
  <2>8. ReadInv'
    <3>. ReadInv
      BY <2>1 DEF KnowInv
    <3>1. Past(list.fb)' /\ (mounted => Past(current))'
      BY <2>1, <2>6, WriteKnow DEF ReadInv
    <3>2. (fetch.at = "read" => /\ Past(fetch.fb)
                                /\ fetch.fb.rev = list.fb.rev => fetch.fb = list.fb)'
      BY <2>1, <2>6, WriteKnow DEF ReadInv
    <3>3. ASSUME NEW t \in Slots, own = t
          PROVE  (mounted /\ ups[t].at # "idle"
                  /\ (ups[t].at = "served" => Past(ups[t].got)))'
      <4>1. mounted' /\ ups'[t].at # "idle"
        BY <2>1, <2>2, <2>4, <3>3 DEF ReadInv
      <4>2. CASE t = s
        BY <2>7, <3>3, <4>1, <4>2
      <4>3. CASE t # s
        <5>1. ups[t].got \in Feedbacks
          BY DEF TypeInv, RequestTypes, Requests
        <5>2. ups[t].at = "served" => Past(ups[t].got)
          BY <3>3 DEF ReadInv
        <5>. QED  BY <2>1, <2>2, <4>1, <4>3, <5>1, <5>2, WriteKnow
      <4>. QED  BY <4>2, <4>3
    <3>. QED  BY <2>1, <3>1, <3>2, <3>3 DEF ReadInv
  <2>9. ShowInv'
    <3>1. list.fb.rev < fb'.rev
      BY <2>1, Numbers DEF KnowInv, ReadInv, Past
    <3>. QED  BY <2>1, <2>2, <2>4, <2>5, <3>1 DEF KnowInv, ShowInv, Newer, Settled, Waits
  <2>10. \A t \in Slots : Carries(t)'
    <3>1. Carries(s)'
      BY <2>4 DEF Carries
    <3>. QED  BY <2>1, <2>2, <3>1, WriteKnow
  <2>. QED  BY <2>8, <2>9, <2>10 DEF KnowInv
<1>2. ASSUME NEW s \in Slots, AnswerUp(s) PROVE KnowInv'
  <2>1. /\ ups[s].at = "served" /\ ups'[s] = Unused
        /\ \A t \in Slots : t # s => ups'[t] = ups[t]
        /\ UNCHANGED <<fb, rec, list>> /\ (fetch' = fetch \/ fetch'.at # "read")
    BY <1>2, InvalidateTypes DEF AnswerUp, TypeInv, RequestTypes
  <2>2. CASE own # s
    <3>1. UNCHANGED <<mounted, current, selected, own, crossed>>
      BY <1>2, <2>2 DEF AnswerUp, card
    <3>. QED  BY <2>1, <2>2, <3>1 DEF KnowInv, ReadInv, ShowInv, Carries, Past, Newer,
                                      Settled, Waits
  <2>3. CASE own = s /\ RecordChangeUnmounts
    <3>1. Leave
      BY <1>2, <2>3 DEF AnswerUp
    <3>. QED  BY <2>1, <3>1, GoneKnow
  <2>4. CASE own = s /\ ~RecordChangeUnmounts
    <3>. SUFFICES ASSUME rec # 0 PROVE (ReadInv /\ ShowInv /\ \A t \in Slots : Carries(t))'
      BY <2>1 DEF KnowInv
    <3>1. /\ own' = NoSlot /\ current' = ups[s].got
          /\ UNCHANGED <<mounted, selected, crossed>>
      BY <1>2, <2>4 DEF AnswerUp
    <3>2. \A t \in Slots : own' # t
      BY <3>1, CardAssumption
    <3>3. ReadInv'
      BY <2>1, <2>4, <3>1, <3>2 DEF KnowInv, ReadInv, Past
    <3>4. mounted /\ ~crossed => Waits(s)
      BY <2>4 DEF KnowInv, ShowInv
    <3>5. ShowInv'
      BY <2>1, <3>1, <3>2, <3>4 DEF ShowInv, Waits, Newer, Settled
    <3>6. \A t \in Slots : Carries(t)'
      BY <2>1 DEF KnowInv, Carries
    <3>. QED  BY <3>3, <3>5, <3>6
  <2>. QED  BY <2>2, <2>3, <2>4
<1>3. ASSUME NEW s \in Slots, UpFails(s) PROVE KnowInv'
  <2>1. /\ ups'[s] = Unused
        /\ \A t \in Slots : t # s => ups'[t] = ups[t]
        /\ UNCHANGED <<fb, rec, list, fetch, mounted, current, crossed>>
    BY <1>3 DEF UpFails, TypeInv, RequestTypes
  <2>2. CASE own # s
    <3>1. UNCHANGED <<own, selected>>
      BY <1>3, <2>2 DEF UpFails
    <3>. QED  BY <2>1, <2>2, <3>1 DEF KnowInv, ReadInv, ShowInv, Carries, Past, Newer,
                                      Settled, Waits
  <2>3. CASE own = s
    <3>. SUFFICES ASSUME rec # 0 PROVE (ReadInv /\ ShowInv /\ \A t \in Slots : Carries(t))'
      BY <2>1 DEF KnowInv
    <3>1. /\ own' = NoSlot
          /\ selected' = IF ups[s].kind = "rating" THEN ups[s].base ELSE selected
      BY <1>3, <2>3 DEF UpFails
    <3>2. \A t \in Slots : own' # t
      BY <3>1, CardAssumption
    <3>3. ReadInv'
      BY <2>1, <3>1, <3>2 DEF KnowInv, ReadInv, Past
    <3>4. mounted /\ ~crossed => Newer(current) /\ Waits(s)
      BY <2>3 DEF KnowInv, ShowInv
    <3>5. ups[s].kind \in {"rating", "note"}
      BY DEF TypeInv, RequestTypes, Requests
    <3>6. ShowInv'
      BY <2>1, <3>1, <3>2, <3>4, <3>5 DEF ShowInv, Waits, Newer, Settled
    <3>7. \A t \in Slots : Carries(t)'
      BY <2>1 DEF KnowInv, Carries
    <3>. QED  BY <3>3, <3>6, <3>7
  <2>. QED  BY <2>2, <2>3
<1>. QED  BY <1>1, <1>2, <1>3 DEF UpStep

LEMMA RecKnow == ASSUME TypeInv, KnowInv, RecStep PROVE KnowInv'
<1>1. ASSUME UNCHANGED fb, rec # 0,
             UNCHANGED <<list, fetch, mounted, current, selected, own, ups, crossed>>
      PROVE  KnowInv'
  BY <1>1 DEF KnowInv, ReadInv, ShowInv, Carries, Past, Newer, Settled, Waits
<1>2. CASE ServeChange
  <2>1. rec # 0 /\ (rec' = 0 \/ UNCHANGED fb)
        /\ UNCHANGED <<list, fetch, mounted, current, selected, own, ups, crossed>>
    BY <1>2 DEF ServeChange, card
  <2>. QED  BY <1>1, <2>1 DEF KnowInv
<1>3. CASE AnswerChange
  <2>1. UNCHANGED <<fb, rec, list>> /\ (fetch' = fetch \/ fetch'.at # "read")
    BY <1>3, InvalidateTypes, ConstantRecords DEF AnswerChange
  <2>2. CASE RecordChangeUnmounts
    <3>1. Leave /\ ups' = Orphans(ups)
      BY <1>3, <2>2 DEF AnswerChange
    <3>. QED  BY <2>1, <3>1, GoneKnow, OrphanTypes DEF TypeInv, RequestTypes
  <2>3. CASE ~RecordChangeUnmounts
    BY <1>3, <2>1, <2>3, SameKnow DEF AnswerChange
  <2>. QED  BY <2>2, <2>3
<1>4. CASE ChangeFails
  BY <1>4, SameKnow DEF ChangeFails, card
<1>5. CASE Elsewhere
  <2>1. rec # 0 /\ UNCHANGED <<list, fetch, mounted, current, selected, own, ups, crossed>>
    BY <1>5 DEF Elsewhere, card
  <2>2. CASE rec' = 0 \/ UNCHANGED fb
    BY <1>1, <2>1, <2>2 DEF KnowInv
  <2>3. CASE fb'.rev = fb.rev + 1
    <3>1. /\ list.fb \in Feedbacks /\ fetch.fb \in Feedbacks /\ current \in Feedbacks
          /\ \A s \in Slots : ups[s].got \in Feedbacks
      BY DEF TypeInv, ServerTypes, CardTypes, RequestTypes, Fetches, Requests
    <3>2. ReadInv'
      BY <2>1, <2>3, <3>1, WriteKnow DEF KnowInv, ReadInv
    <3>3. ShowInv'
      BY <2>1 DEF KnowInv, ShowInv, Newer, Settled, Waits
    <3>4. \A s \in Slots : Carries(s)'
      BY <2>1, <2>3, WriteKnow
    <3>. QED  BY <3>2, <3>3, <3>4 DEF KnowInv
  <2>. QED  BY <1>5, <2>2, <2>3 DEF Elsewhere
<1>. QED  BY <1>2, <1>3, <1>4, <1>5 DEF RecStep

LEMMA NextKnows == TypeInv /\ KnowInv /\ [Next]_vars => KnowInv'
<1>1. KnowInv /\ UNCHANGED vars => KnowInv'
  BY DEF KnowInv, ReadInv, ShowInv, Carries, Past, Newer, Settled, Waits, vars, card
<1>2. ASSUME TypeInv, KnowInv, ModeStep PROVE KnowInv'
  BY <1>2, ModeTypes, SameKnow DEF SameKnowledge
<1>. QED  BY <1>1, <1>2, NextSteps, ListKnow, SendKnow, UpKnow, RecKnow

(***************************************************************************)
(* The edit form.                                                          *)
(***************************************************************************)
LEMMA NextEdits ==
    ASSUME EditsWhatIsShown, [Next]_vars
    PROVE  EditsWhatIsShown'
<1>. USE DEF EditsWhatIsShown
<1>1. ASSUME NEW m \in Modes, Enter(m), list' = list PROVE EditsWhatIsShown'
  BY <1>1 DEF Enter
<1>2. CASE ListStep
  <2>1. CASE ListArrives
    <3>1. CASE mounted /\ fetch.rec # 0
      BY <1>2, <2>1, <3>1 DEF ListArrives, Rekey
    <3>2. CASE ~(mounted /\ fetch.rec # 0)
      BY <2>1, <3>2 DEF ListArrives, Leave, card
    <3>. QED  BY <3>1, <3>2
  <2>2. CASE ReadList \/ ListFails \/ Reconnect
    BY <2>2 DEF ReadList, ListFails, Reconnect, card
  <2>3. CASE Mount \/ Unmount
    BY <2>3 DEF Mount, Unmount, Leave
  <2>. QED  BY <1>2, <2>1, <2>2, <2>3 DEF ListStep
<1>3. CASE SendStep
  BY <1>3 DEF SendStep, ClickRating, SubmitNote
<1>4. ASSUME NEW s \in Slots, AnswerUp(s) PROVE EditsWhatIsShown'
  <2>1. CASE own = s /\ ~RecordChangeUnmounts
    BY <1>1, <1>4, <2>1 DEF AnswerUp, Modes
  <2>2. CASE ~(own = s /\ ~RecordChangeUnmounts)
    BY <1>4, <2>2 DEF AnswerUp, Leave, card
  <2>. QED  BY <2>1, <2>2
<1>5. CASE UpStep
  BY <1>4, <1>5 DEF UpStep, ServeUp, UpFails, card
<1>6. CASE ModeStep
  BY <1>1, <1>6 DEF ModeStep, Toggle, Cancel, TypeNote, Submit, card, Modes
<1>7. CASE RecStep
  BY <1>7 DEF RecStep, ServeChange, AnswerChange, ChangeFails, Elsewhere, Leave, card
<1>8. CASE UNCHANGED vars
  BY <1>8 DEF vars, card
<1>. QED  BY <1>2, <1>3, <1>5, <1>6, <1>7, <1>8, NextSteps

(***************************************************************************)
(* The inductive invariant.                                                *)
(***************************************************************************)
CardInv == TypeInv /\ KnowInv /\ EditsWhatIsShown

LEMMA CardInvariant == Spec => []CardInv
<1>1. Init => CardInv
  BY InitTypes, InitKnows DEF CardInv, EditsWhatIsShown, Init
<1>2. CardInv /\ [Next]_vars => CardInv'
  BY NextTypes, NextKnows, NextEdits DEF CardInv
<1>. QED  BY <1>1, <1>2, PTL DEF Spec

(***************************************************************************)
(* Whatever is written elsewhere, fails or is answered late: once the list *)
(* has the feedback of the server and nothing is pending, the card shows   *)
(* it, and the edit form starts from what is shown (the effect and the key *)
(* of recent-meal-records.tsx).                                            *)
(***************************************************************************)
THEOREM CardIsConsistent == Spec => []CardConsistent
<1>1. ASSUME CardInv PROVE CardKnows
  <2>. SUFFICES ASSUME mounted, ~UpPending, ~crossed, rec # 0, list.fb = fb
       PROVE  current = fb /\ selected = fb.rating
    BY DEF CardKnows
  <2>1. Past(current) /\ Newer(current) /\ selected = current.rating
    BY <1>1 DEF CardInv, KnowInv, ReadInv, ShowInv, Settled, UpPending
  <2>2. current = fb
    BY <1>1, <2>1, Numbers DEF Past, Newer, CardInv
  <2>. QED  BY <2>1, <2>2
<1>2. CardInv => CardConsistent
  BY <1>1, TypesAgree DEF CardInv, CardConsistent
<1>. QED  BY <1>2, CardInvariant, PTL

(***************************************************************************)
(* A rating keeps the note and a note keeps the rating, as long as nothing *)
(* was written since the card was clicked: both are sent together from     *)
(* what the card knows, and that is never older than what its list shows.  *)
(***************************************************************************)
THEOREM RatingsAndNotesSurvive == Spec => RatingAndNoteSurvive
<1>1. ASSUME CardInv, [Next]_vars, NEW s \in Slots,
             ups[s].at = "sent", ups'[s].at = "served", ups[s].clean, ups[s].saw = fb.rev
      PROVE  IF ups[s].kind = "rating" THEN fb'.note = fb.note ELSE fb'.rating = fb.rating
  <2>. USE DEF CardInv, TypeInv, RequestTypes
  <2>1. ServeUp(s)
    <3>1. CASE \E t \in Slots : ServeUp(t)
      BY <1>1, <3>1 DEF ServeUp
    <3>2. ASSUME NEW t \in Slots, AnswerUp(t) \/ UpFails(t) PROVE FALSE
      BY <1>1, <3>2, ConstantRecords DEF AnswerUp, UpFails
    <3>3. CASE SendStep
      <4>1. PICK t \in Slots, k \in {"rating", "note"}, r \in Marks, n \in Texts :
               ups' = [ups EXCEPT ![t] = Request(k, r, n)]
        BY <1>1, <3>3, SendRecords
      <4>. QED  BY <1>1, <4>1, RequestMade
    <3>4. ups' # ups /\ ups' # Orphans(ups)
      BY <1>1, OrphanTypes
    <3>5. CASE ListStep \/ RecStep
      BY <3>4, <3>5 DEF ListStep, ReadList, ListArrives, ListFails, Reconnect, Mount,
                        Unmount, RecStep, ServeChange, AnswerChange, ChangeFails, Elsewhere
    <3>6. CASE ModeStep
      BY <1>1, <3>4, <3>6, ModeTypes DEF SameKnowledge
    <3>7. CASE UNCHANGED vars
      BY <3>4, <3>7 DEF vars
    <3>. QED  BY <1>1, <3>1, <3>2, <3>3, <3>5, <3>6, <3>7, NextSteps DEF UpStep
  <2>2. fb'.rating = ups[s].rating /\ fb'.note = ups[s].note /\ rec # 0
    BY <2>1 DEF ServeUp
  <2>3. Carries(s)
    BY <1>1, <2>2 DEF KnowInv
  <2>4. ups[s].kind \in {"rating", "note"}
    BY <1>1 DEF Requests
  <2>. QED  BY <1>1, <2>2, <2>3, <2>4 DEF Carries
<1>2. CardInv /\ [Next]_vars =>
        [\A s \in Slots :
            ups[s].at = "sent" /\ ups'[s].at = "served"
            /\ ups[s].clean /\ ups[s].saw = fb.rev =>
                IF ups[s].kind = "rating" THEN fb'.note = fb.note
                ELSE fb'.rating = fb.rating]_vars
  BY <1>1
<1>. QED  BY <1>2, CardInvariant, PTL DEF RatingAndNoteSurvive, Spec

(***************************************************************************)
(* Neither a refetch nor the answer to a rating touches the note that is   *)
(* being typed.                                                            *)
(***************************************************************************)
THEOREM DraftsAreKept == Spec => DraftKept
<1>1. ASSUME CardInv, [Next]_vars, mounted, mounted',
             list' # list \/ \E s \in Slots : /\ ups[s].kind = "rating"
                                              /\ ups[s].at = "served"
                                              /\ ups'[s].at = "idle"
      PROVE  note' = note /\ (mode = "note" => mode' = "note")
  <2>. USE DEF CardInv, TypeInv, RequestTypes
  <2>1. UNCHANGED <<note, mode>> => note' = note /\ (mode = "note" => mode' = "note")
    OBVIOUS
  <2>2. UNCHANGED <<list, ups>> => FALSE
    BY <1>1
  <2>3. list' = list /\ ups' = Orphans(ups) => FALSE
    BY <1>1, OrphanTypes
  <2>4. CASE ListArrives
    <3>1. fetch.rec # 0
      BY <1>1, <2>4 DEF ListArrives, Leave
    <3>2. Refill(fetch.fb) /\ mode' = mode
      BY <1>1, <2>4, <3>1 DEF ListArrives
    <3>. QED  BY <3>2 DEF Refill
  <2>5. CASE ListStep /\ ~ListArrives
    BY <2>2, <2>3, <2>5 DEF ListStep, ReadList, ListFails, Reconnect, Mount, Unmount
  <2>6. CASE SendStep
    BY <2>6 DEF SendStep, ClickRating, SubmitNote
  <2>7. ASSUME NEW t \in Slots, AnswerUp(t)
        PROVE  note' = note /\ (mode = "note" => mode' = "note")
    <3>1. list' = list /\ ups' = [ups EXCEPT ![t] = Unused]
      BY <2>7 DEF AnswerUp
    <3>2. ups[t].kind = "rating"
      BY <1>1, <3>1
    <3>3. CASE own # t
      BY <2>7, <3>3 DEF AnswerUp, card
    <3>4. CASE own = t
      BY <1>1, <2>7, <3>2, <3>4 DEF AnswerUp, Leave
    <3>. QED  BY <3>3, <3>4
  <2>8. ASSUME NEW t \in Slots, ServeUp(t) \/ UpFails(t)
        PROVE  UNCHANGED <<note, mode>>
    BY <2>8 DEF ServeUp, UpFails, card
  <2>9. CASE ModeStep
    BY <1>1, <2>2, <2>9, ModeTypes DEF SameKnowledge
  <2>10. CASE RecStep
    BY <2>2, <2>3, <2>10 DEF RecStep, ServeChange, AnswerChange, ChangeFails, Elsewhere
  <2>11. CASE UNCHANGED vars
    BY <2>2, <2>11 DEF vars
  <2>. QED
    BY <1>1, <2>1, <2>4, <2>5, <2>6, <2>7, <2>8, <2>9, <2>10, <2>11, NextSteps DEF UpStep
<1>2. CardInv /\ [Next]_vars =>
        [(list' # list \/ \E s \in Slots : /\ ups[s].kind = "rating"
                                           /\ ups[s].at = "served"
                                           /\ ups'[s].at = "idle")
         /\ mounted /\ mounted' =>
              note' = note /\ (mode = "note" => mode' = "note")]_vars
  BY <1>1
<1>. QED  BY <1>2, CardInvariant, PTL DEF DraftKept, Spec
=============================================================================
