------------------------------ MODULE History ------------------------------
(***************************************************************************)
(* The history panel (components/history-records-panel.tsx), which merges  *)
(* the pages of the record list into a list of its own, against            *)
(* MealRecordsService.list, whose pages are cut by offset from a table     *)
(* that others change meanwhile.                                           *)
(*                                                                         *)
(* A record is its place in the order of the list (newest first, so that a *)
(* lower one is the newer) and the number of the change that wrote it; an  *)
(* answer, which is in that order, is its records and their changes.       *)
(* Every setting of the filters has keys, and a list, of its own, and they *)
(* behave alike: one is followed.  The effect on data runs when the        *)
(* observed answer differs from the one before (structural sharing keeps   *)
(* an equal one) and when another key with data is observed.  The client   *)
(* is TanStack Query by the rules of module Client.                        *)
(***************************************************************************)
EXTENDS HistoryState

panel == <<where, page, records>>
vars  == <<table, now, cache, fetch, panel, write, answered, mixed, joined, kept>>

NoData   == [items |-> [id \in {} |-> 0], total |-> 0, ver |-> None]
NoFetch  == [at |-> "idle", data |-> NoData]
NoWrite  == [at |-> "idle", op |-> "touch", id |-> 0, ver |-> 0, alive |-> FALSE]
Sent     == [NoFetch EXCEPT !.at = "sent"]
Same(d, e) == d.items = e.items /\ d.total = e.total
Shown(rs)  == {rs[i].id : i \in DOMAIN rs}

-----------------------------------------------------------------------------
\* MealRecordsService.list: skip and take.
Answer(p) == [items |-> [id \in FirstPages(p) \ FirstPages(p - 1) |-> table[id]],
              total |-> Cardinality(Matching), ver |-> now]

\* Mutant of Merge: another page replaces the list.
MergeReplace(rs, items) == Listed(items, DOMAIN items)

\* The loop of the effect: in place when the id is there, else at the end.
Merge(rs, items) ==
    [i \in DOMAIN rs |-> IF rs[i].id \in DOMAIN items
                         THEN [rs[i] EXCEPT !.rev = items[rs[i].id]] ELSE rs[i]]
    \o Listed(items, DOMAIN items \ Shown(rs))

\* useEffect on mealRecordsQuery.data.
Fill(p, rs, data) ==
    IF p = 1 THEN Listed(data.items, DOMAIN data.items) ELSE Merge(rs, data.items)

\* The list then mixes what was never in the table together.
OlderThanFirst(data) == data.ver < cache[1].ver

\* A card that leaves the list drops its callback.
Follow(w, rs) ==
    [w EXCEPT !.alive = w.alive /\ (w.op = "add" \/ w.id \in Shown(rs))]

\* The key of page p is observed anew, with the list rs and the fetches fe.
Observe(p, rs, fe) ==
    /\ where' = "here" /\ page' = p
    /\ fetch' = IF fe[p].at = "idle" THEN [fe EXCEPT ![p] = Sent] ELSE fe
    /\ records' = IF HasData(cache, p) THEN Fill(p, rs, cache[p]) ELSE rs
    /\ mixed' = /\ p # 1
                /\ \/ mixed \/ joined \/ kept
                   \/ HasData(cache, p) /\ OlderThanFirst(cache[p])
    /\ joined' = (fe[p].at = "read")
    /\ kept' = FALSE

Init ==
    /\ \E S \in Starts : table = [id \in Ids |-> IF id \in S THEN 0 ELSE None]
    /\ now = 0
    /\ cache = [p \in Pages |-> NoData]
    /\ fetch = [p \in Pages |-> IF p = 1 THEN Sent ELSE NoFetch]
    /\ where = "here" /\ page = 1 /\ records = <<>>
    /\ write = NoWrite /\ answered = [id \in Ids |-> 0]
    /\ mixed = FALSE /\ joined = FALSE /\ kept = FALSE

-----------------------------------------------------------------------------
\* The query.

Read(p) ==
    /\ fetch[p].at = "sent"
    /\ fetch' = [fetch EXCEPT ![p] = [at |-> "read", data |-> Answer(p)]]
    /\ UNCHANGED <<table, now, cache, panel, write, answered, mixed, joined, kept>>

Observed(p) == Here /\ p = page

Arrive(p) ==
    /\ fetch[p].at = "read"
    /\ cache' = [cache EXCEPT ![p] = fetch[p].data]
    /\ fetch' = [fetch EXCEPT ![p] = NoFetch]
    /\ IF Observed(p) /\ ~(HasData(cache, p) /\ Same(cache[p], fetch[p].data))
       THEN /\ records' = Fill(p, records, fetch[p].data)
            /\ mixed' = (page # 1 /\ (mixed \/ OlderThanFirst(fetch[p].data)))
            /\ kept' = FALSE
       ELSE /\ kept' = (kept /\ (~Observed(p) \/ records = <<>>))
            /\ UNCHANGED <<records, mixed>>
    /\ write' = Follow(write, records')
    /\ UNCHANGED <<table, now, where, page, answered, joined>>

Fail(p) ==
    /\ fetch[p].at # "idle"
    /\ fetch' = [fetch EXCEPT ![p] = NoFetch]
    /\ kept' = (kept \/ Observed(p))
    /\ UNCHANGED <<table, now, cache, panel, write, answered, mixed, joined>>

\* refetchOnReconnect, or the button of the error banner.
Refetch ==
    /\ Here /\ fetch[page].at = "idle"
    /\ fetch' = [fetch EXCEPT ![page] = Sent] /\ joined' = FALSE
    /\ UNCHANGED <<table, now, cache, panel, write, answered, mixed, kept>>

-----------------------------------------------------------------------------
\* The panel.

\* setPage(value + 1): the button is there while not all is shown, and disabled
\* while a page is fetched.
LoadMore ==
    /\ Here /\ HasData(cache, page)
    /\ records # <<>> /\ Len(records) < cache[page].total
    /\ fetch[page].at = "idle" /\ page < MaxPage
    /\ Observe(page + 1, records, fetch)
    /\ write' = Follow(write, records')
    /\ UNCHANGED <<table, now, cache, answered>>

\* resetPage, back from elsewhere, or from another page, or staying on page 1,
\* where only new data fills the list again.
ResetPage(fe, nothingNew) ==
    IF Here /\ page = 1
    THEN /\ records' = <<>> /\ fetch' = fe
         /\ mixed' = FALSE /\ joined' = (fe[1].at = "read")
         /\ kept' = (kept \/ nothingNew)
         /\ UNCHANGED <<where, page>>
    ELSE Observe(1, <<>>, fe)

\* Typing that leaves the trimmed q as it is, or the filters set back.
SetFilter ==
    /\ where # "tab"
    /\ ResetPage(fetch, TRUE)
    /\ write' = Follow(write, records')
    /\ UNCHANGED <<table, now, cache, answered>>

\* The filters, or the tab, are changed: the cards of the list are gone.
Leave(w) ==
    /\ Here
    /\ where' = w /\ page' = 1 /\ records' = <<>>
    /\ mixed' = FALSE /\ joined' = FALSE /\ kept' = FALSE
    /\ write' = IF w = "tab" THEN [write EXCEPT !.alive = FALSE]
                ELSE Follow(write, <<>>)
    /\ UNCHANGED <<table, now, cache, fetch, answered>>

\* The tab is opened: the state starts over on the same cache.
Enter ==
    /\ where = "tab"
    /\ Observe(1, <<>>, fetch)
    /\ UNCHANGED <<table, now, cache, write, answered>>

-----------------------------------------------------------------------------
\* Own changes, of one card or of the manual form at a time.

StartWrite(op, id) ==
    /\ write.at = "idle" /\ where # "tab"
    /\ IF op = "add" THEN table[id] = None ELSE id \in Shown(records)
    /\ write' = [at |-> "sent", op |-> op, id |-> id, ver |-> 0, alive |-> TRUE]
    /\ UNCHANGED <<table, now, cache, fetch, panel, answered, mixed, joined, kept>>

Change(op, id) ==
    /\ now < MaxCommits
    /\ IF op = "add" THEN table[id] = None ELSE table[id] # None
    /\ now' = now + 1
    /\ table' = [table EXCEPT ![id] = IF op = "delete" THEN None ELSE now + 1]

ServeWrite ==
    /\ write.at = "sent"
    /\ Change(write.op, write.id)
    /\ write' = [write EXCEPT !.at = "served", !.ver = now + 1]
    /\ UNCHANGED <<cache, fetch, panel, answered, mixed, joined, kept>>

\* Mutant of Invalidated: only the dishes are.
InvalidatedDishes == fetch

\* invalidateMealRecordDependencies: the observed key is fetched anew, unless
\* it is being loaded for the first time.
Invalidated ==
    IF Here /\ (HasData(cache, page) \/ fetch[page].at = "idle")
    THEN [fetch EXCEPT ![page] = Sent] ELSE fetch

\* Mutant of AnswerWrite: the card does not tell the panel.
AnswerWriteSilently ==
    /\ write.at = "served"
    /\ answered' = [answered EXCEPT ![write.id] = write.ver]
    /\ fetch' = Invalidated
    /\ write' = NoWrite
    /\ UNCHANGED <<table, now, cache, panel, mixed, joined, kept>>

\* onSuccess of the hook, then onRecordChange or handleManualRecordSuccess.
AnswerWrite ==
    /\ write.at = "served"
    /\ answered' = [answered EXCEPT ![write.id] = write.ver]
    /\ IF write.alive
       THEN ResetPage(Invalidated, \/ write.op = "add"
                                   \/ /\ HasData(cache, page)
                                      /\ cache[page].ver >= write.ver)
       ELSE /\ fetch' = Invalidated
            /\ mixed' = (page # 1)
            /\ joined' = (Here /\ Invalidated[page].at = "read")
            /\ UNCHANGED <<panel, kept>>
    /\ write' = NoWrite
    /\ UNCHANGED <<table, now, cache>>

\* Refused (404, the record is gone), failed, or the answer is lost.
WriteFails ==
    /\ write.at # "idle"
    /\ write' = NoWrite
    /\ UNCHANGED <<table, now, cache, fetch, panel, answered, mixed, joined, kept>>

\* Other members.
Elsewhere(op, id) ==
    /\ Change(op, id)
    /\ UNCHANGED <<cache, fetch, panel, write, answered, mixed, joined, kept>>

Next ==
    \/ \E p \in Pages : Read(p) \/ Arrive(p) \/ Fail(p)
    \/ Refetch \/ LoadMore \/ SetFilter \/ Enter
    \/ \E w \in {"filtered", "tab"} : Leave(w)
    \/ \E op \in Ops, id \in Ids : StartWrite(op, id) \/ Elsewhere(op, id)
    \/ ServeWrite \/ AnswerWrite \/ WriteFails

Spec == Init /\ [][Next]_vars

=============================================================================
