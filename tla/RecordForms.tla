---------------------------- MODULE RecordForms ----------------------------
(***************************************************************************)
(* The two forms that record a meal: the one of the history panel          *)
(* (components/manual-meal-record-form.tsx), whose dish is searched, or    *)
(* made, in components/dish-autocomplete.tsx, and the dialog of a dish     *)
(* (components/meal-record-form.tsx).                                      *)
(*                                                                         *)
(* A dish is its name, which is unique in a workspace, and has one variant,*)
(* which is named as it is; a search finds what is named as it.  The time, *)
(* the meal type and the note of a record are left out: nothing else reads *)
(* or changes them.                                                        *)
(***************************************************************************)
EXTENDS Naturals

CONSTANTS
    Names,     \* the names of dishes
    NoName,    \* no dish, no variant, an empty search
    Slots,     \* the records that may be on their way at once
    MaxForms,  \* bound on the forms that are opened
    MaxSends,  \* bound on the records that are sent
    MaxChanges \* bound on what others change

ASSUME FormsAssumption ==
    /\ NoName \notin Names
    /\ MaxForms \in Nat /\ MaxSends \in Nat /\ MaxChanges \in Nat

VARIABLES
    dishes,   \* the dishes in the database
    variants, \* whose variant is active there
    list,     \* data of useDishes({ isActive: true })
    loaded,   \* whether it has data
    fetch,    \* its fetch
    vlist,    \* the dishes with an active variant in the data of useDishVariants
    vfetch,   \* the dishes for which these are being fetched
    host,     \* which form is open
    form,     \* its fields, and what ghosts know of it
    create,   \* the dish that is being made
    subs,     \* per slot: a record on its way
    counts    \* the bounded counters

queries == <<list, loaded, fetch, vlist, vfetch>>
server  == <<dishes, variants>>
vars    == <<server, queries, host, form, create, subs, counts>>

Maybe == Names \cup {NoName}

\* dish: dishId and selectedDishId.  variant: variantId.  text: searchTerm.
\* naming: showCreateForm.  isOpen is left out: a focus sets it at any time.
\* Ghosts: meant, what the user has last picked, or asked to make, and not typed
\* over; astray, that the form holds another dish than this; gone, that the
\* chosen variant has left the list; made, a dish made here that the list has to
\* show; kept, the records stored for the form whose answer was not lost.
Blank == [dish |-> NoName, variant |-> NoName, text |-> NoName,
          naming |-> FALSE, meant |-> NoName, astray |-> FALSE, gone |-> FALSE,
          made |-> NoName, kept |-> 0]

Resting  == [at |-> "idle", names |-> {}]
Sent     == [at |-> "sent", names |-> {}]
NoCreate == [at |-> "idle", name |-> NoName, mine |-> FALSE]
NoSub    == [at |-> "idle", dish |-> NoName, variant |-> NoName, mine |-> FALSE]

Listed     == form.dish \in list
Filtered   == IF form.text = NoName THEN list ELSE list \cap {form.text}
Submitting == \E s \in Slots : subs[s].at # "idle" /\ subs[s].mine

Init ==
    /\ dishes \in [Names -> {"absent", "active"}]
    /\ variants \in SUBSET {n \in Names : dishes[n] = "active"}
    /\ list = {} /\ loaded = FALSE /\ fetch = Resting
    /\ vlist = {} /\ vfetch = {}
    /\ host = "none" /\ form = Blank
    /\ create = NoCreate /\ subs = [s \in Slots |-> NoSub]
    /\ counts = [forms |-> 0, sends |-> 0, changes |-> 0]

-----------------------------------------------------------------------------
\* The queries.

\* The active dishes are asked for: a first fetch that runs is joined.
Joins == fetch.at # "idle" /\ ~loaded
Ask   == IF Joins THEN fetch ELSE Sent

\* A dish whose variants are shown asks for them.
AskVariants(n) == IF n \in Names THEN vfetch \cup {n} ELSE vfetch

ReadList ==
    /\ fetch.at = "sent"
    /\ fetch' = [at |-> "read", names |-> {n \in Names : dishes[n] = "active"}]
    /\ UNCHANGED <<server, list, loaded, vlist, vfetch, host, form, create, subs, counts>>

ListArrives ==
    /\ fetch.at = "read"
    /\ list' = fetch.names /\ loaded' = TRUE /\ fetch' = Resting
    /\ UNCHANGED <<server, vlist, vfetch, host, form, create, subs, counts>>

ListFails ==
    /\ fetch.at # "idle" /\ fetch' = Resting
    /\ form' = [form EXCEPT !.made = NoName]
    /\ UNCHANGED <<server, list, loaded, vlist, vfetch, host, create, subs, counts>>

\* The select may lose its option; the field keeps its value.
VariantsArrive(n) ==
    /\ n \in vfetch
    /\ vlist' = IF n \in variants THEN vlist \cup {n} ELSE vlist \ {n}
    /\ vfetch' = vfetch \ {n}
    /\ form' = [form EXCEPT !.gone = @ \/ (form.variant = n /\ n \notin variants)]
    /\ UNCHANGED <<server, list, loaded, fetch, host, create, subs, counts>>

VariantsFail(n) ==
    /\ n \in vfetch /\ vfetch' = vfetch \ {n}
    /\ UNCHANGED <<server, list, loaded, fetch, vlist, host, form, create, subs, counts>>

-----------------------------------------------------------------------------
\* The fields.

\* onChange of the autocomplete.
Hold(n) == [form EXCEPT !.dish = n, !.variant = NoName, !.gone = FALSE]

\* Mutant of Typed: what was picked stays.
TypedKeeps(n) ==
    [form EXCEPT !.text = n, !.meant = NoName]

\* Typing gives up the dish that is shown; one that the list lacks is not
\* shown, and stays.
Typed(n) ==
    [(IF Listed THEN Hold(NoName) ELSE form)
        EXCEPT !.text = n, !.meant = NoName,
               !.astray = ~Listed /\ form.dish # NoName]

Type(n) ==
    /\ host = "manual" /\ form' = Typed(n)
    /\ UNCHANGED <<server, queries, host, create, subs, counts>>

\* An option is clicked, or focused and entered.
Pick(n) ==
    /\ host = "manual" /\ n \in Filtered
    /\ form' = [Hold(n) EXCEPT !.text = NoName, !.meant = n, !.astray = FALSE]
    /\ vfetch' = IF n = form.dish THEN vfetch ELSE AskVariants(n)
    /\ UNCHANGED <<server, list, loaded, fetch, vlist, host, create, subs, counts>>

\* The offer to make a dish of that name, if there is none.
Offer ==
    /\ host = "manual" /\ form.text # NoName /\ Filtered = {}
    /\ form' = [form EXCEPT !.naming = TRUE]
    /\ UNCHANGED <<server, queries, host, create, subs, counts>>

\* Cancel, Escape, or a click elsewhere, while the dish is being made too.
Shut ==
    /\ host = "manual" /\ form.naming
    /\ form' = [form EXCEPT !.naming = FALSE]
    /\ UNCHANGED <<server, queries, host, create, subs, counts>>

\* The select, which has an option for the variant while it is listed as active.
ChooseVariant(v) ==
    /\ host # "none" /\ form.dish # NoName /\ form.dish \in vlist
    /\ v \in {form.dish, NoName}
    /\ form' = [form EXCEPT !.variant = v, !.gone = FALSE]
    /\ UNCHANGED <<server, queries, host, create, subs, counts>>

-----------------------------------------------------------------------------
\* A new dish.

\* handleCreateDish.
MakeDish ==
    /\ host = "manual" /\ form.naming /\ form.text # NoName
    /\ create.at = "idle"
    /\ create' = [at |-> "sent", name |-> form.text, mine |-> TRUE]
    /\ form' = [form EXCEPT !.meant = form.text]
    /\ UNCHANGED <<server, queries, host, subs, counts>>

\* DishesService.create: names are unique, those of inactive dishes too.
ServeDish ==
    /\ create.at = "sent" /\ dishes[create.name] = "absent"
    /\ dishes' = [dishes EXCEPT ![create.name] = "active"]
    /\ create' = [create EXCEPT !.at = "served"]
    /\ UNCHANGED <<variants, queries, host, form, subs, counts>>

\* Mutant of DishMade: the list is not asked for again.
DishMadeUnlisted ==
    /\ create.at = "served"
    /\ create' = NoCreate
    /\ form' = IF create.mine
               THEN [Hold(create.name) EXCEPT !.text = NoName,
                        !.naming = FALSE, !.astray = form.meant # create.name,
                        !.made = IF dishes[create.name] # "active"
                                 THEN NoName ELSE create.name]
               ELSE form
    /\ vfetch' = IF create.mine THEN AskVariants(create.name) ELSE vfetch
    /\ UNCHANGED <<server, list, loaded, fetch, vlist, host, subs, counts>>

\* onSuccess of the hook, and of the call.
DishMade ==
    /\ create.at = "served"
    /\ create' = NoCreate
    /\ fetch' = IF host = "manual" THEN Ask ELSE fetch
    /\ form' = IF create.mine
               THEN [Hold(create.name) EXCEPT !.text = NoName,
                        !.naming = FALSE, !.astray = form.meant # create.name,
                        !.made = IF Joins \/ dishes[create.name] # "active"
                                 THEN NoName ELSE create.name]
               ELSE form
    /\ vfetch' = IF create.mine THEN AskVariants(create.name) ELSE vfetch
    /\ UNCHANGED <<server, list, loaded, vlist, host, subs, counts>>

\* Refused, failed, or the answer is lost.
DishFails ==
    /\ create.at # "idle" /\ create' = NoCreate
    /\ UNCHANGED <<server, queries, host, form, subs, counts>>

-----------------------------------------------------------------------------
\* The record.

\* Mutant of Chosen: the field is sent as it is.
ChosenField == form.variant

\* The dialog looks its variant up among the active ones; the other form does
\* not.
Chosen ==
    IF host = "panel" /\ form.dish \notin vlist THEN NoName ELSE form.variant

Submit(s) ==
    /\ ~Submitting
    /\ host # "none" /\ form.dish # NoName
    /\ subs[s].at = "idle" /\ counts.sends < MaxSends
    /\ subs' = [subs EXCEPT ![s] = [at |-> "sent", dish |-> form.dish,
                                    variant |-> Chosen, mine |-> TRUE]]
    /\ counts' = [counts EXCEPT !.sends = @ + 1]
    /\ UNCHANGED <<server, queries, host, form, create>>

\* MealRecordsService.create: the variant has to be one of the dish, and active.
ServeRecord(s) ==
    /\ subs[s].at = "sent"
    /\ subs[s].variant = NoName
       \/ (subs[s].variant = subs[s].dish /\ subs[s].variant \in variants)
    /\ subs' = [subs EXCEPT ![s].at = "served"]
    /\ form' = IF subs[s].mine THEN [form EXCEPT !.kept = @ + 1] ELSE form
    /\ UNCHANGED <<server, queries, host, create, counts>>

\* Mutant of Abandon: the requests of the form that was open are followed.
AbandonNone(q) == q

\* The callbacks of an unmounted form are dropped.
Abandon(q) == [s \in Slots |-> [q[s] EXCEPT !.mine = FALSE]]

Gone == host' = "none" /\ form' = Blank /\ create' = [create EXCEPT !.mine = FALSE]

\* onSuccess of the hook, and of the call.
RecordMade(s) ==
    /\ subs[s].at = "served"
    /\ fetch' = IF host = "manual" THEN Ask ELSE fetch
    /\ IF subs[s].mine THEN Gone /\ subs' = Abandon([subs EXCEPT ![s] = NoSub])
       ELSE /\ subs' = [subs EXCEPT ![s] = NoSub]
            /\ UNCHANGED <<host, form, create>>
    /\ UNCHANGED <<server, list, loaded, vlist, vfetch, counts>>

\* Refused, failed, or the answer is lost.
RecordFails(s) ==
    /\ subs[s].at # "idle"
    /\ subs' = [subs EXCEPT ![s] = NoSub]
    /\ form' = IF subs[s].mine /\ subs[s].at = "served"
               THEN [form EXCEPT !.kept = @ - 1] ELSE form
    /\ UNCHANGED <<server, queries, host, create, counts>>

-----------------------------------------------------------------------------
\* The form of the history, or the dialog of a dish on the screen.
Open(h, n) ==
    /\ host = "none" /\ counts.forms < MaxForms
    /\ host' = h
    /\ form' = IF h = "panel" THEN [Blank EXCEPT !.dish = n, !.meant = n] ELSE Blank
    /\ fetch' = IF h = "manual" /\ fetch.at = "idle" THEN Sent ELSE fetch
    /\ vfetch' = IF h = "panel" THEN AskVariants(n) ELSE vfetch
    /\ counts' = [counts EXCEPT !.forms = @ + 1]
    /\ UNCHANGED <<server, list, loaded, vlist, create, subs>>

OpenManual   == Open("manual", NoName)
OpenPanel(n) == dishes[n] # "absent" /\ Open("panel", n)

\* Cancel, another tab, or, while the record is on its way too, Escape.
Close ==
    /\ host # "none" /\ Gone /\ subs' = Abandon(subs)
    /\ UNCHANGED <<server, queries, counts>>

\* Others switch a dish, or its variant, on or off.
Change == counts.changes < MaxChanges /\ counts' = [counts EXCEPT !.changes = @ + 1]

SwitchDish(n) ==
    /\ dishes[n] # "absent" /\ Change
    /\ dishes' = [dishes EXCEPT ![n] = IF @ = "active" THEN "inactive" ELSE "active"]
    /\ form' = [form EXCEPT !.made = IF @ = n THEN NoName ELSE @]
    /\ UNCHANGED <<variants, queries, host, create, subs>>

SwitchVariant(n) ==
    /\ dishes[n] # "absent" /\ Change
    /\ variants' = IF n \in variants THEN variants \ {n} ELSE variants \cup {n}
    /\ UNCHANGED <<dishes, queries, host, form, create, subs>>

Next ==
    \/ ReadList \/ ListArrives \/ ListFails
    \/ \E n \in Names : VariantsArrive(n) \/ VariantsFail(n)
    \/ Offer \/ Shut
    \/ \E n \in Maybe : Type(n) \/ ChooseVariant(n)
    \/ \E n \in Names : Pick(n)
    \/ MakeDish \/ ServeDish \/ DishMade \/ DishFails
    \/ \E s \in Slots : Submit(s) \/ ServeRecord(s) \/ RecordMade(s) \/ RecordFails(s)
    \/ OpenManual \/ Close
    \/ \E n \in Names : OpenPanel(n) \/ SwitchDish(n) \/ SwitchVariant(n)

Spec == Init /\ [][Next]_vars

-----------------------------------------------------------------------------
\* Every variable holds a value of its type; the variant the form holds is one
\* of the dish it holds, whatever is picked, typed or answered in between.
TypeOK ==
    /\ dishes \in [Names -> {"absent", "active", "inactive"}]
    /\ variants \subseteq Names /\ list \subseteq Names /\ loaded \in BOOLEAN
    /\ fetch \in [at : {"idle", "sent", "read"}, names : SUBSET Names]
    /\ vlist \subseteq Names /\ vfetch \subseteq Names
    /\ host \in {"none", "manual", "panel"}
    /\ form \in [dish : Maybe, variant : Maybe, text : Maybe, naming : BOOLEAN,
                 meant : Maybe, astray : BOOLEAN,
                 gone : BOOLEAN, made : Maybe, kept : 0 .. MaxSends]
    /\ create \in [at : {"idle", "sent", "served"}, name : Maybe, mine : BOOLEAN]
    /\ subs \in [Slots -> [at : {"idle", "sent", "served"}, dish : Maybe,
                           variant : Maybe, mine : BOOLEAN]]
    /\ counts \in [forms : 0 .. MaxForms, sends : 0 .. MaxSends,
                   changes : 0 .. MaxChanges]
    /\ form.variant \in {NoName, form.dish}

Sends(s) == subs[s].at = "idle" /\ subs'[s].at = "sent"

\* What is recorded is the dish the user has last picked, or asked to make: not
\* one that was typed over, unless the list lacked it then, and not one that was
\* made while another was picked, unless its answer came after that.
RecordsWhatWasPicked ==
    [][\A s \in Slots : Sends(s) =>
          subs'[s].dish = form.meant \/ form.astray]_vars

\* The variant that is sent is one the form lists as active.  The form of the
\* history also sends one that has left the list since it was chosen.
SendsListedVariant ==
    [][\A s \in Slots : Sends(s) /\ subs'[s].variant # NoName =>
          form.dish \in vlist \/ (host = "manual" /\ form.gone)]_vars

\* A dish that was made in the form is in its list once no fetch runs, unless a
\* first fetch was joined, a fetch failed, or others have switched the dish.
CreatedIsListed ==
    form.made # NoName /\ fetch.at = "idle" => form.made \in list

\* One form makes one record, but for the retries after a lost answer.
OncePerForm == form.kept <= 1

\* A form is only closed by an answer to its own record, not by a late one of
\* the form before.
ClosedByOwnRecord ==
    [][\A s \in Slots :
          subs[s].at = "served" /\ subs'[s].at = "idle" /\ host # "none" /\ host' = "none"
             => form.kept > 0]_vars

\* The invariants of the forms together.
FormConsistent == TypeOK /\ CreatedIsListed /\ OncePerForm

=============================================================================
