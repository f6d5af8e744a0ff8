------------------------------ MODULE Catalog ------------------------------
(***************************************************************************)
(* Dishes, variants, recipes, meal records, feedback and recommendations:  *)
(* the services of src/backend/src over the tables of schema.prisma, for   *)
(* several workspaces at once.                                             *)
(*                                                                         *)
(* A handler is a sequence of statements, and other requests run between   *)
(* them: only a single statement is atomic here.  Dishes, variants and     *)
(* recipes are never deleted.  Of a dish only its workspace is kept and    *)
(* whether a recommendation may consider it (it is active and suits the    *)
(* meal asked for); names, notes and texts are left out, so that a name    *)
(* already taken is a refusal that may always happen.  Listing and reading *)
(* single rows change nothing and are left out, as is the text of a        *)
(* recipe; rows are read together with what is included with them.         *)
(***************************************************************************)
EXTENDS Integers, FiniteSets

CONSTANTS
    Workspaces,
    Users,
    Home,        \* per user: the workspace in its session
    Dishes,
    Variants,
    Records,
    Requests,    \* the requests that can be in flight at once
    Limit,       \* RECOMMENDATION_LIMIT
    RecentDays,  \* RECENT_DAYS
    MaxDay,      \* bound on the days that pass
    None

ASSUME CatalogAssumption ==
    /\ Home \in [Users -> Workspaces]
    /\ IsFiniteSet(Users) /\ IsFiniteSet(Records)
    /\ Limit \in Nat \ {0} /\ RecentDays \in Nat /\ MaxDay \in Nat
    /\ None \notin Workspaces \cup Users \cup Dishes \cup Variants \cup Records

Days    == 0 .. MaxDay
Ratings == {"GOOD", "OK", "BAD"}
Rows    == [ws : Workspaces, record : Records, user : Users, rating : Ratings]

VARIABLES
    dishWs,         \* per dish: its workspace, None if it is not there
    offered,        \* the dishes a recommendation may consider
    variantWs,      \* per variant: its workspace, None if it is not there
    variantDish,    \* per variant: its dish
    active,         \* the variants that are active
    withRecipe,     \* the dishes that have a recipe (of version 1)
    recordWs,       \* per meal record: its workspace, None if it is not there
    recordDish,     \* per meal record: its dish
    recordVariant,  \* per meal record: its variant, or None
    eaten,          \* per meal record: the day of eatenAt
    gone,           \* the meal records that have been deleted
    feedbacks,      \* the rows of feedback
    today,
    pc, user,       \* per request: where it is, and whose it is
    dish, variant, record,  \* per request: the rows it is about
    snap,           \* per request: the dishes a recommendation has read
    offer,          \* per request: the dishes it answers with
    raced,          \* ghost, per request: another request has deleted its
                    \* record or rated it for the same user meanwhile
    switched        \* ghost, per recommendation: the dishes that have come on
                    \* offer or gone off it since it has read the dishes

menu    == <<dishWs, offered, variantWs, variantDish, active, withRecipe>>
meals   == <<recordWs, recordDish, recordVariant, eaten, gone>>
db      == <<menu, meals, feedbacks>>
local   == <<user, dish, variant, record, snap, offer>>
ghosts  == <<raced, switched>>
vars    == <<db, today, pc, local, ghosts>>

PCs == {"idle",
        "dishFound",      \* dish update: the dish is there
        "variantNew",     \* variant create: the dish is there
        "variantFound",   \* variant update: the variant is there
        "recipeNew",      \* recipe create: the dish is there
        "recordNew",      \* record create: the dish is there
        "recordReady",    \* record create: the variant is active
        "recordFound",    \* record update: the record is there
        "recordDoomed",   \* record delete: the record is there
        "rated",          \* feedback: the record is there
        "unratedYet",     \* feedback: Prisma has found no row to update
        "ratedBefore",    \* feedback: Prisma has found one
        "listed",         \* recommendation: the dishes are read
        "answered"}       \* recommendation: the answer is on its way

Init ==
    /\ dishWs = [d \in Dishes |-> None] /\ offered = {}
    /\ variantWs = [v \in Variants |-> None]
    /\ variantDish = [v \in Variants |-> None] /\ active = {}
    /\ withRecipe = {}
    /\ recordWs = [m \in Records |-> None]
    /\ recordDish = [m \in Records |-> None]
    /\ recordVariant = [m \in Records |-> None]
    /\ eaten = [m \in Records |-> 0] /\ gone = {}
    /\ feedbacks = {}
    /\ today = 0
    /\ pc = [r \in Requests |-> "idle"]
    /\ user = [r \in Requests |-> None]
    /\ dish = [r \in Requests |-> None]
    /\ variant = [r \in Requests |-> None]
    /\ record = [r \in Requests |-> None]
    /\ snap = [r \in Requests |-> {}]
    /\ offer = [r \in Requests |-> {}]
    /\ raced = [r \in Requests |-> FALSE]
    /\ switched = [r \in Requests |-> {}]

-----------------------------------------------------------------------------
Goto(r, from, to) ==
    /\ pc[r] = from
    /\ pc' = [pc EXCEPT ![r] = to]

(* A request of u begins with its first statement.                         *)
Start(r, u, to) ==
    /\ Goto(r, "idle", to)
    /\ user' = [user EXCEPT ![r] = u]
    /\ UNCHANGED <<offer, ghosts>>

Forget(r) ==
    /\ user' = [user EXCEPT ![r] = None]
    /\ dish' = [dish EXCEPT ![r] = None]
    /\ variant' = [variant EXCEPT ![r] = None]
    /\ record' = [record EXCEPT ![r] = None]
    /\ snap' = [snap EXCEPT ![r] = {}]
    /\ offer' = [offer EXCEPT ![r] = {}]

(* The request is answered; races are those who worked on the same row.    *)
Answered(r, from, races) ==
    /\ Goto(r, from, "idle")
    /\ Forget(r)
    /\ raced' = [q \in Requests |-> q # r /\ (raced[q] \/ q \in races)]

Finish(r, from, races) ==
    /\ Answered(r, from, races)
    /\ switched' = [switched EXCEPT ![r] = {}]

Of(r) == Home[user[r]]

-----------------------------------------------------------------------------
(* Dishes.                                                                 *)

(* d comes on offer or goes off it.                                        *)
Switch(d) ==
    /\ offered' = IF d \in offered THEN offered \ {d} ELSE offered \cup {d}
    /\ switched' = [q \in Requests |->
          IF pc[q] = "listed" THEN switched[q] \cup {d} ELSE switched[q]]

(* One statement; isActive and mealTypes are as the request says.          *)
CreateDish(r, u) ==
    \E d \in {e \in Dishes : dishWs[e] = None} :
        /\ pc[r] = "idle"
        /\ dishWs' = [dishWs EXCEPT ![d] = Home[u]]
        /\ Switch(d) \/ UNCHANGED <<offered, switched>>
        /\ UNCHANGED <<variantWs, variantDish, active, withRecipe, meals,
                       feedbacks, today, pc, local, raced>>

(* findFirst by id and workspace, the first statement of these handlers.   *)
FindDish(r, u) ==
    \E d \in Dishes, to \in {"dishFound", "variantNew", "recipeNew", "recordNew"} :
        /\ dishWs[d] = Home[u]
        /\ Start(r, u, to)
        /\ dish' = [dish EXCEPT ![r] = d]
        /\ UNCHANGED <<db, today, variant, record, snap>>

UpdateDish(r) ==
    /\ Answered(r, "dishFound", {})
    /\ Switch(dish[r]) \/ UNCHANGED <<offered, switched>>
    /\ UNCHANGED <<dishWs, variantWs, variantDish, active, withRecipe, meals,
                   feedbacks, today>>

(* 409: the name is taken (dishes and variants).                           *)
Conflict(r) ==
    /\ \E from \in {"dishFound", "variantNew", "variantFound"} : Finish(r, from, {})
    /\ UNCHANGED <<db, today>>

-----------------------------------------------------------------------------
(* Variants and recipes.                                                   *)

InsertVariant(r) ==
    \E v \in {w \in Variants : variantWs[w] = None} :
        /\ Finish(r, "variantNew", {})
        /\ variantWs' = [variantWs EXCEPT ![v] = Of(r)]
        /\ variantDish' = [variantDish EXCEPT ![v] = dish[r]]
        /\ active' \in {active, active \cup {v}}
        /\ UNCHANGED <<dishWs, offered, withRecipe, meals, feedbacks, today>>

FindVariant(r, u) ==
    \E v \in Variants :
        /\ variantWs[v] = Home[u]
        /\ Start(r, u, "variantFound")
        /\ variant' = [variant EXCEPT ![r] = v]
        /\ UNCHANGED <<db, today, dish, record, snap>>

UpdateVariant(r) ==
    /\ Finish(r, "variantFound", {})
    /\ active' \in {active \ {variant[r]}, active \cup {variant[r]}}
    /\ UNCHANGED <<dishWs, offered, variantWs, variantDish, withRecipe, meals,
                   feedbacks, today>>

(* The version is the default of the column, and unique per dish.          *)
InsertRecipe(r) ==
    /\ Finish(r, "recipeNew", {})
    /\ dish[r] \notin withRecipe
    /\ withRecipe' = withRecipe \cup {dish[r]}
    /\ UNCHANGED <<dishWs, offered, variantWs, variantDish, active, meals,
                   feedbacks, today>>

(* P2002, which this service does not turn into a 409.                     *)
InsertRecipeFails(r) ==
    /\ Finish(r, "recipeNew", {})
    /\ dish[r] \in withRecipe
    /\ UNCHANGED <<db, today>>

-----------------------------------------------------------------------------
(* Meal records.                                                           *)

(* Mutant: the variant may be that of another dish.                        *)
UsableOfAnyDish(r, v) == variantWs[v] = Of(r) /\ v \in active

(* What assertVariantInWorkspace asks for.                                 *)
Usable(r, v) ==
    variantWs[v] = Of(r) /\ variantDish[v] = dish[r] /\ v \in active

(* A variant need not be given.                                            *)
CheckVariant(r) ==
    /\ Goto(r, "recordNew", "recordReady")
    /\ \E v \in {w \in Variants : Usable(r, w)} \cup {None} :
          variant' = [variant EXCEPT ![r] = v]
    /\ UNCHANGED <<db, today, user, dish, record, snap, offer, ghosts>>

RefuseVariant(r) ==
    /\ Finish(r, "recordNew", {})
    /\ UNCHANGED <<db, today>>

InsertRecord(r) ==
    \E m \in {k \in Records : recordWs[k] = None /\ k \notin gone}, t \in Days :
        /\ Finish(r, "recordReady", {})
        /\ recordWs' = [recordWs EXCEPT ![m] = Of(r)]
        /\ recordDish' = [recordDish EXCEPT ![m] = dish[r]]
        /\ recordVariant' = [recordVariant EXCEPT ![m] = variant[r]]
        /\ eaten' = [eaten EXCEPT ![m] = t]
        /\ UNCHANGED <<menu, gone, feedbacks, today>>

(* Mutant: nobody looks for the record.                                    *)
FindRecordUnseen(r, u) ==
    \E m \in Records, to \in {"recordFound", "recordDoomed", "rated"} :
        /\ recordWs[m] = Home[u] \/ m \in gone
        /\ Start(r, u, to)
        /\ record' = [record EXCEPT ![r] = m]
        /\ UNCHANGED <<db, today, dish, variant, snap>>

(* findFirst by id and workspace.                                          *)
FindRecord(r, u) ==
    \E m \in Records, to \in {"recordFound", "recordDoomed", "rated"} :
        /\ recordWs[m] = Home[u]
        /\ Start(r, u, to)
        /\ record' = [record EXCEPT ![r] = m]
        /\ UNCHANGED <<db, today, dish, variant, snap>>

Present(r) == recordWs[record[r]] # None

(* By id.  The dish of a record and its variant never change.              *)
UpdateRecord(r) ==
    /\ Finish(r, "recordFound", {})
    /\ Present(r)
    /\ \E t \in Days : eaten' = [eaten EXCEPT ![record[r]] = t]
    /\ UNCHANGED <<menu, recordWs, recordDish, recordVariant, gone, feedbacks,
                   today>>

(* Mutant: the foreign key of feedback does not cascade.                   *)
RowsLeft(m) == feedbacks

(* onDelete: Cascade.                                                      *)
RowsWithout(m) == {f \in feedbacks : f.record # m}

(* By id.                                                                  *)
DeleteRecord(r) ==
    LET m == record[r]
    IN  /\ Finish(r, "recordDoomed", {q \in Requests : record[q] = m})
        /\ Present(r)
        /\ recordWs' = [recordWs EXCEPT ![m] = None]
        /\ recordDish' = [recordDish EXCEPT ![m] = None]
        /\ recordVariant' = [recordVariant EXCEPT ![m] = None]
        /\ eaten' = [eaten EXCEPT ![m] = 0]
        /\ gone' = gone \cup {m}
        /\ feedbacks' = RowsWithout(m)
        /\ UNCHANGED <<menu, today>>

-----------------------------------------------------------------------------
(* Feedback: FeedbackService.upsert.                                       *)

Mine(r)  == {f \in feedbacks : f.record = record[r] /\ f.user = user[r]}

(* The row of the request takes the place of the one the user has.         *)
Rate(r, from) ==
    /\ Finish(r, from, {q \in Requests : record[q] = record[r] /\ user[q] = user[r]})
    /\ Present(r)
    /\ \E g \in Ratings :
          feedbacks' = (feedbacks \ Mine(r))
              \cup {[ws |-> Of(r), record |-> record[r], user |-> user[r], rating |-> g]}
    /\ UNCHANGED <<menu, meals, today>>

(* Prisma sends an upsert to the database as one INSERT ... ON CONFLICT,   *)
(* or looks for the row first.                                             *)
Upsert(r) == Rate(r, "rated")

LookForFeedback(r) ==
    /\ Goto(r, "rated", IF Mine(r) = {} THEN "unratedYet" ELSE "ratedBefore")
    /\ UNCHANGED <<db, today, local, ghosts>>

(* Mutant: no unique index on record and user.                             *)
InsertFeedbackAgain(r) ==
    /\ Finish(r, "unratedYet", {})
    /\ Present(r)
    /\ \E g \in Ratings :
          feedbacks' = feedbacks
              \cup {[ws |-> Of(r), record |-> record[r], user |-> user[r], rating |-> g]}
    /\ UNCHANGED <<menu, meals, today>>

InsertFeedback(r) == Mine(r) = {} /\ Rate(r, "unratedYet")

UpdateFeedback(r) == Mine(r) # {} /\ Rate(r, "ratedBefore")

-----------------------------------------------------------------------------
(* A write by id finds that its row is gone (P2025), its record is gone    *)
(* (P2003) or its row is there already (P2002): nothing is written and the *)
(* answer is a 500.                                                        *)
WriteFails(r) ==
    /\ \/ \E from \in {"recordFound", "recordDoomed", "rated"} :
             Finish(r, from, {}) /\ ~Present(r)
       \/ Finish(r, "unratedYet", {}) /\ (~Present(r) \/ Mine(r) # {})
       \/ Finish(r, "ratedBefore", {}) /\ Mine(r) = {}
    /\ UNCHANGED <<db, today>>

-----------------------------------------------------------------------------
(* Recommendations.                                                        *)

OfferedIn(w) == {d \in offered : dishWs[d] = w}

(* The records of S that were eaten within the last days, or will be.      *)
RecentAmong(S) ==
    {d \in S : \E m \in Records :
        /\ recordWs[m] = dishWs[d] /\ recordDish[m] = d
        /\ eaten[m] + RecentDays >= today}

(* Mutant: the limit on recent dishes is relaxed as soon as one is recent. *)
CandidatesRelaxed(S) == S

(* Recent dishes are left out unless that leaves none.                     *)
Candidates(S) ==
    IF RecentAmong(S) = S THEN S ELSE S \ RecentAmong(S)

Rated(d, g) ==
    {f \in feedbacks :
        f.ws = dishWs[d] /\ recordDish[f.record] = d /\ f.rating = g}

(* Mutant: both ratings count against the dish.                            *)
ScoreDown(d) ==
    100 - 20 * Cardinality(Rated(d, "GOOD")) - 15 * Cardinality(Rated(d, "BAD"))

Score(d) ==
    100 + 20 * Cardinality(Rated(d, "GOOD")) - 15 * Cardinality(Rated(d, "BAD"))

(* The answers the order by score allows; names decide between equals.     *)
TopSets(S) ==
    {T \in SUBSET S :
        /\ T = S \/ Cardinality(T) = Limit
        /\ Cardinality(T) <= Limit
        /\ \A d \in T, e \in S \ T : Score(d) >= Score(e)}

ListDishes(r, u) ==
    /\ OfferedIn(Home[u]) # {}
    /\ Start(r, u, "listed")
    /\ snap' = [snap EXCEPT ![r] = OfferedIn(Home[u])]
    /\ UNCHANGED <<db, today, dish, variant, record>>

(* The records are read, and everything else is computed: the best dishes, *)
(* or any candidate, as every weight is positive.                          *)
Answer(r) ==
    /\ Goto(r, "listed", "answered")
    /\ \E T \in TopSets(Candidates(snap[r])) \cup {{d} : d \in Candidates(snap[r])} :
          offer' = [offer EXCEPT ![r] = T]
    /\ switched' = [switched EXCEPT ![r] = {}]
    /\ UNCHANGED <<db, today, user, dish, variant, record, snap, raced>>

Deliver(r) == Finish(r, "answered", {}) /\ UNCHANGED <<db, today>>

-----------------------------------------------------------------------------
(* The server dies or the database is lost: the request ends where it is.  *)
Abort(r) ==
    /\ pc[r] # "idle"
    /\ Finish(r, pc[r], {})
    /\ UNCHANGED <<db, today>>

Tick ==
    /\ today < MaxDay
    /\ today' = today + 1
    /\ UNCHANGED <<db, pc, local, ghosts>>

Begin(r, u) ==
    \/ CreateDish(r, u) \/ FindDish(r, u) \/ FindVariant(r, u)
    \/ FindRecord(r, u) \/ ListDishes(r, u)

Continue(r) ==
    \/ UpdateDish(r) \/ Conflict(r) \/ InsertVariant(r) \/ UpdateVariant(r)
    \/ InsertRecipe(r) \/ InsertRecipeFails(r)
    \/ CheckVariant(r) \/ RefuseVariant(r) \/ InsertRecord(r)
    \/ UpdateRecord(r) \/ DeleteRecord(r)
    \/ Upsert(r) \/ LookForFeedback(r) \/ InsertFeedback(r) \/ UpdateFeedback(r)
    \/ WriteFails(r) \/ Answer(r) \/ Deliver(r)

Next ==
    \/ \E r \in Requests, u \in Users : Begin(r, u)
    \/ \E r \in Requests : Continue(r) \/ Abort(r)
    \/ Tick

Spec == Init /\ [][Next]_vars

-----------------------------------------------------------------------------
(* Properties.                                                             *)

TypeOK ==
    /\ dishWs \in [Dishes -> Workspaces \cup {None}]
    /\ offered \subseteq {d \in Dishes : dishWs[d] # None}
    /\ variantWs \in [Variants -> Workspaces \cup {None}]
    /\ variantDish \in [Variants -> Dishes \cup {None}]
    /\ active \subseteq {v \in Variants : variantWs[v] # None}
    /\ withRecipe \subseteq {d \in Dishes : dishWs[d] # None}
    /\ recordWs \in [Records -> Workspaces \cup {None}]
    /\ recordDish \in [Records -> Dishes \cup {None}]
    /\ recordVariant \in [Records -> Variants \cup {None}]
    /\ eaten \in [Records -> Days]
    /\ gone \subseteq {m \in Records : recordWs[m] = None}
    /\ feedbacks \subseteq Rows
    /\ today \in Days
    /\ pc \in [Requests -> PCs]
    /\ user \in [Requests -> Users \cup {None}]
    /\ dish \in [Requests -> Dishes \cup {None}]
    /\ variant \in [Requests -> Variants \cup {None}]
    /\ record \in [Requests -> Records \cup {None}]
    /\ snap \in [Requests -> SUBSET Dishes]
    /\ offer \in [Requests -> SUBSET Dishes]
    /\ raced \in [Requests -> BOOLEAN]
    /\ switched \in [Requests -> SUBSET Dishes]

(* What belongs together is of one workspace: a variant and its dish, a    *)
(* record, its dish and a variant of that very dish, a feedback, its       *)
(* record and its user; and no feedback is left of a record that is gone.  *)
(* The services check this in statements before the one that writes.       *)
Isolation ==
    /\ \A v \in Variants : variantWs[v] # None =>
          /\ variantDish[v] # None
          /\ dishWs[variantDish[v]] = variantWs[v]
    /\ \A m \in Records : recordWs[m] # None =>
          /\ recordDish[m] # None
          /\ dishWs[recordDish[m]] = recordWs[m]
          /\ recordVariant[m] # None =>
                /\ variantWs[recordVariant[m]] = recordWs[m]
                /\ variantDish[recordVariant[m]] = recordDish[m]
    /\ \A f \in feedbacks : recordWs[f.record] = f.ws /\ Home[f.user] = f.ws

(* However upserts race, a user has at most one feedback on a record.      *)
OneFeedbackEach ==
    \A f, g \in feedbacks : f.record = g.record /\ f.user = g.user => f = g

(* A write that fails with a 500 has been overtaken by another request:    *)
(* its record was deleted, or rated for the same user, after it had looked *)
(* for it.  (The second recipe of a dish is the exception.)                *)
ErrorsOnlyFromRaces == [][\A r \in Requests : WriteFails(r) => raced[r]]_vars

(* A recommendation reads the dishes in one statement and the records in   *)
(* another.  It is right for the tables as they are when it is computed,   *)
(* but for the dishes switched in between: it names only dishes on offer   *)
(* in the workspace of its user, and one eaten lately only if every dish   *)
(* on offer has been eaten lately.                                         *)
NoRecentWhileOthers ==
    [][\A r \in Requests :
          pc[r] = "listed" /\ pc'[r] = "answered" =>
              LET now == OfferedIn(Of(r))
              IN  /\ offer'[r] \ switched[r] \subseteq now
                  /\ RecentAmong(offer'[r]) # {} =>
                        now \ switched[r] \subseteq RecentAmong(now)]_vars

(* One user rates one meal of d as good, whatever the rating was before.   *)
Praised(d) ==
    /\ UNCHANGED <<menu, meals, today>>
    /\ \E f \in feedbacks' :
          /\ f.rating = "GOOD" /\ recordDish[f.record] = d
          /\ feedbacks' \ {f} =
                {g \in feedbacks : ~(g.record = f.record /\ g.user = f.user)}

(* Praise never costs a dish its place: an answer that named it is still   *)
(* one of the answers.                                                     *)
GoodNeverHurts ==
    [][\A d \in Dishes, w \in Workspaces :
          Praised(d) =>
              \A T \in TopSets(Candidates(OfferedIn(w))) :
                  d \in T => T \in TopSets(Candidates(OfferedIn(w)))']_vars

-----------------------------------------------------------------------------
(* The inductive invariants of the proofs.                                 *)

OnDish   == {"dishFound", "variantNew", "recipeNew", "recordNew", "recordReady"}
OnRecord == {"recordFound", "recordDoomed", "rated", "unratedYet", "ratedBefore"}

(* A request holds on to rows of its workspace.                            *)
Held ==
    /\ \A r \in Requests : pc[r] # "idle" => user[r] \in Users
    /\ \A r \in Requests : pc[r] \in OnDish =>
          dish[r] \in Dishes /\ dishWs[dish[r]] = Of(r)
    /\ \A r \in Requests : pc[r] = "variantFound" =>
          variant[r] \in Variants /\ variantWs[variant[r]] # None
    /\ \A r \in Requests : pc[r] = "recordReady" /\ variant[r] # None =>
          variantWs[variant[r]] # None /\ variantDish[variant[r]] = dish[r]
    /\ \A r \in Requests : pc[r] \in OnRecord =>
          /\ record[r] \in Records
          /\ recordWs[record[r]] = Of(r) \/ record[r] \in gone

(* What it has seen of a record is still so, unless another has changed it.*)
Undisturbed ==
    \A r \in Requests : pc[r] \in OnRecord /\ ~raced[r] =>
        /\ Present(r)
        /\ pc[r] = "unratedYet" => Mine(r) = {}
        /\ pc[r] = "ratedBefore" => Mine(r) # {}

(* What a recommendation has read of the dishes is so but for the switched.*)
ListedHolds ==
    \A r \in Requests : pc[r] = "listed" =>
        snap[r] \ switched[r] = OfferedIn(Of(r)) \ switched[r]

Consistent == Held /\ Undisturbed /\ ListedHolds
=============================================================================
