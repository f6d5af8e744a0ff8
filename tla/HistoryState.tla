---------------------------- MODULE HistoryState ----------------------------
(***************************************************************************)
(* What the history panel, its cache and the table behind it hold, the     *)
(* order of the records, and the invariants that the steps of module       *)
(* History keep.                                                           *)
(***************************************************************************)
EXTENDS Naturals, Sequences, FiniteSets

CONSTANTS
    Ids,       \* the records there may be, numbered in the order of the list
    Starts,    \* the sets of records the table may start with
    PageSize,  \* pageSize
    MaxPage,   \* bound on the pages that are loaded
    MaxCommits \* bound on the changes of the table

ASSUME HistoryAssumption ==
    /\ Ids \subseteq Nat \ {0} /\ IsFiniteSet(Ids)
    /\ Starts \subseteq SUBSET Ids
    /\ PageSize \in Nat \ {0} /\ MaxPage \in Nat \ {0} /\ MaxCommits \in Nat

VARIABLES
    table,    \* per record: the change that wrote it last, None if there is none
    now,      \* the number of the last change
    cache,    \* per page: data of its query
    fetch,    \* per page: the fetch of it that counts
    where,    \* on this list, on one with another filter, or on another tab
    page,     \* page
    records,  \* records
    write,    \* the pending mutation of a card, or of the manual form
    answered, \* ghost: per record, the last own change that was answered
    mixed,    \* ghost: records holds an answer from before the one of page 1,
              \* or from before an own change whose callback was dropped
    joined,   \* ghost: the observed answer is that of an older fetch it joined
    kept      \* ghost: the list was emptied although nothing new was to come

None    == MaxCommits + 1
Changes == 0 .. MaxCommits
Pages   == 1 .. MaxPage
Here    == where = "here"

Ops     == {"add", "touch", "delete"}
HasData(c, k) == c[k].ver # None

-----------------------------------------------------------------------------
\* MealRecordsService.list: where, and what orderBy puts on the first p pages.
Matching == {id \in Ids : table[id] # None}
FirstPages(p) == {id \in Matching :
                    Cardinality({x \in Matching : x < id}) < p * PageSize}

\* The ids of S in their order, and the records of them.
InOrder(S) == [n \in 1 .. Cardinality(S) |->
                 CHOOSE id \in S : Cardinality({x \in S : x < id}) = n - 1]
Listed(revs, S) ==
    [n \in DOMAIN InOrder(S) |-> [id |-> InOrder(S)[n], rev |-> revs[InOrder(S)[n]]]]

-----------------------------------------------------------------------------
Answers == [items : UNION {[S -> Changes] : S \in SUBSET Ids},
            total : Nat, ver : Changes \cup {None}]

\* Every variable holds a value of its type.
HistoryTypeOK ==
    /\ table \in [Ids -> Changes \cup {None}] /\ now \in Changes
    /\ cache \in [Pages -> Answers]
    /\ fetch \in [Pages -> [at : {"idle", "sent", "read"}, data : Answers]]
    /\ where \in {"here", "filtered", "tab"} /\ page \in Pages
    /\ records \in Seq([id : Ids, rev : Changes])
    /\ write \in [at : {"idle", "sent", "served"}, op : Ops, id : Ids \cup {0},
                  ver : Changes, alive : BOOLEAN]
    /\ answered \in [Ids -> Changes]
    /\ mixed \in BOOLEAN /\ joined \in BOOLEAN /\ kept \in BOOLEAN

\* No record is listed twice, however the pages shifted between two fetches.
NoDuplicates ==
    \A i, j \in DOMAIN records : records[i].id = records[j].id => i = j

\* Nothing is on its way and the last fetch has succeeded.
Settled == Here /\ HasData(cache, page) /\ fetch[page].at = "idle"

\* Pages that were all read from the table as it is make up the list as it is,
\* complete and in order, unless an older page from the cache was merged into it
\* (history-records-panel.tsx:69-78 keeps what a page no longer has).
Complete ==
    Settled /\ ~mixed /\ records # <<>>
    /\ (\A p \in 1 .. page : cache[p].ver = now) =>
        records = Listed(table, FirstPages(page))

\* The panel says that nothing was found although the answer has records only
\* after it was emptied without anything new to come (a blank typed into the
\* search, an own change the list had already shown, a new record that is on
\* another page or gone again) or a failed fetch.
BlankOnlyIfKept ==
    Settled /\ records = <<>> /\ DOMAIN cache[page].items # {} => kept

\* What the user has changed or deleted is not shown as it was before, from the
\* moment the list is settled, unless an older page was merged (mixed), the
\* answer is that of a fetch begun before the change (joined), or the list was
\* emptied and not filled again (kept).
OwnChangesShown ==
    Settled /\ ~mixed /\ ~joined /\ ~kept =>
        \A i \in DOMAIN records : records[i].rev >= answered[records[i].id]

\* The invariants of the merged pages together.
PagesConsistent == HistoryTypeOK /\ NoDuplicates /\ Complete

=============================================================================
