--------------------------- MODULE CatalogProofs ---------------------------
(***************************************************************************)
(* Proofs about Catalog: its type invariant, the separation of workspaces, *)
(* one feedback for each user, where errors come from, and what a good     *)
(* rating does to the recommendations.                                     *)
(***************************************************************************)
EXTENDS Catalog, FiniteSetTheorems, TLAPS

LEMMA NextSplit ==
    [Next]_vars <=> \/ \E r \in Requests, u \in Users : Begin(r, u)
                    \/ \E r \in Requests : Continue(r)
                    \/ \E r \in Requests : Abort(r)
                    \/ Tick
                    \/ UNCHANGED vars
BY DEF Next

LEMMA ToNone ==
    None \notin Workspaces /\ None \notin Users /\ None \notin Dishes
        /\ None \notin Variants /\ None \notin Records
BY CatalogAssumption

LEMMA HomeType == \A u \in Users : Home[u] \in Workspaces
BY CatalogAssumption

LEMMA PCsMember ==
    /\ "idle" \in PCs /\ OnDish \subseteq PCs /\ OnRecord \subseteq PCs
    /\ "variantFound" \in PCs /\ "listed" \in PCs /\ "answered" \in PCs
    /\ "idle" \notin OnDish /\ "idle" \notin OnRecord
BY DEF PCs, OnDish, OnRecord

(***************************************************************************)
(* Type correctness.                                                       *)
(***************************************************************************)
(* What the end of a request does to the locals.                           *)
LEMMA AnsweredType ==
    ASSUME TypeOK, NEW r \in Requests, NEW from, NEW races, Answered(r, from, races)
    PROVE  /\ pc' \in [Requests -> PCs]
           /\ user' \in [Requests -> Users \cup {None}]
           /\ dish' \in [Requests -> Dishes \cup {None}]
           /\ variant' \in [Requests -> Variants \cup {None}]
           /\ record' \in [Requests -> Records \cup {None}]
           /\ snap' \in [Requests -> SUBSET Dishes]
           /\ offer' \in [Requests -> SUBSET Dishes]
           /\ raced' \in [Requests -> BOOLEAN]
<1>1. pc' \in [Requests -> PCs]
  BY PCsMember DEF Answered, Goto, TypeOK
<1>2. raced' \in [Requests -> BOOLEAN]
  BY Zenon DEF Answered
<1>. QED  BY <1>1, <1>2 DEF Answered, Forget, TypeOK

LEMMA FinishType ==
    ASSUME TypeOK, NEW r \in Requests, NEW from, NEW races, Finish(r, from, races)
    PROVE  /\ pc' \in [Requests -> PCs]
           /\ user' \in [Requests -> Users \cup {None}]
           /\ dish' \in [Requests -> Dishes \cup {None}]
           /\ variant' \in [Requests -> Variants \cup {None}]
           /\ record' \in [Requests -> Records \cup {None}]
           /\ snap' \in [Requests -> SUBSET Dishes]
           /\ offer' \in [Requests -> SUBSET Dishes]
           /\ raced' \in [Requests -> BOOLEAN]
           /\ switched' \in [Requests -> SUBSET Dishes]
<1>1. Answered(r, from, races)
  BY DEF Finish
<1>2. switched' \in [Requests -> SUBSET Dishes]
  BY DEF Finish, TypeOK
<1>. QED  BY <1>1, <1>2, AnsweredType

LEMMA SwitchType ==
    ASSUME TypeOK, NEW d \in Dishes, Switch(d) \/ UNCHANGED <<offered, switched>>
    PROVE  /\ switched' \in [Requests -> SUBSET Dishes]
           /\ offered' \subseteq offered \cup {d}
BY DEF Switch, TypeOK

LEMMA StartType ==
    ASSUME TypeOK, NEW r \in Requests, NEW u \in Users, NEW to \in PCs, Start(r, u, to)
    PROVE  /\ pc' \in [Requests -> PCs]
           /\ user' \in [Requests -> Users \cup {None}]
           /\ offer' \in [Requests -> SUBSET Dishes]
           /\ raced' \in [Requests -> BOOLEAN]
           /\ switched' \in [Requests -> SUBSET Dishes]
<1>1. UNCHANGED ghosts
  BY DEF Start
<1>2. raced' \in [Requests -> BOOLEAN]
  BY <1>1 DEF TypeOK, ghosts
<1>. QED  BY <1>1, <1>2 DEF Start, Goto, TypeOK, ghosts

LEMMA BeginType ==
    ASSUME TypeOK, NEW r \in Requests, NEW u \in Users, Begin(r, u)
    PROVE  TypeOK'
<1>. USE DEF db, menu, meals
<1>1. CASE CreateDish(r, u)
  <2>1. UNCHANGED <<pc, local, raced>>
    BY <1>1 DEF CreateDish
  <2>2. raced' \in [Requests -> BOOLEAN]
    BY <2>1 DEF TypeOK
  <2>3. PICK d \in Dishes :
           /\ dishWs[d] = None /\ dishWs' = [dishWs EXCEPT ![d] = Home[u]]
           /\ Switch(d) \/ UNCHANGED <<offered, switched>>
    BY <1>1 DEF CreateDish
  <2>4. /\ switched' \in [Requests -> SUBSET Dishes]
        /\ offered' \subseteq {e \in Dishes : dishWs'[e] # None}
    BY <2>3, SwitchType, HomeType, ToNone DEF TypeOK
  <2>. QED  BY <1>1, <2>1, <2>2, <2>3, <2>4, HomeType, ToNone DEF CreateDish, TypeOK, local
<1>2. CASE FindDish(r, u)
  <2>1. PICK to \in PCs : Start(r, u, to)
    BY <1>2, PCsMember DEF FindDish, OnDish
  <2>. QED  BY <1>2, <2>1, StartType DEF FindDish, TypeOK
<1>3. CASE FindVariant(r, u)
  <2>1. Start(r, u, "variantFound")
    BY <1>3 DEF FindVariant
  <2>. QED  BY <1>3, <2>1, StartType, PCsMember DEF FindVariant, TypeOK
<1>4. CASE FindRecord(r, u)
  <2>1. PICK to \in PCs : Start(r, u, to)
    BY <1>4, PCsMember DEF FindRecord, OnRecord
  <2>. QED  BY <1>4, <2>1, StartType DEF FindRecord, TypeOK
<1>5. CASE ListDishes(r, u)
  <2>1. Start(r, u, "listed")
    BY <1>5 DEF ListDishes
  <2>2. OfferedIn(Home[u]) \subseteq Dishes
    BY DEF OfferedIn, TypeOK
  <2>. QED  BY <1>5, <2>1, <2>2, StartType, PCsMember DEF ListDishes, TypeOK
<1>. QED  BY <1>1, <1>2, <1>3, <1>4, <1>5 DEF Begin

LEMMA RatedRow ==
    ASSUME TypeOK, Held, NEW r \in Requests, pc[r] \in OnRecord, NEW g \in Ratings
    PROVE  /\ record[r] \in Records /\ user[r] \in Users
           /\ [ws |-> Of(r), record |-> record[r], user |-> user[r], rating |-> g] \in Rows
BY HomeType, PCsMember DEF Held, Rows, Of

LEMMA RateType ==
    ASSUME TypeOK, Held, NEW r \in Requests, NEW from \in OnRecord, Rate(r, from)
    PROVE  TypeOK'
<1>. USE DEF db, menu, meals
<1>1. pc[r] \in OnRecord
  BY DEF Rate, Finish, Answered, Goto
<1>2. feedbacks' \subseteq Rows
  BY <1>1, RatedRow DEF Rate, TypeOK
<1>3. PICK races : Finish(r, from, races)
  BY DEF Rate
<1>. QED  BY <1>2, <1>3, FinishType DEF Rate, TypeOK

LEMMA ContinueType ==
    ASSUME TypeOK, Held, NEW r \in Requests, Continue(r)
    PROVE  TypeOK'
<1>. USE DEF db, menu, meals
<1>1. CASE UpdateDish(r)
  <2>1. Answered(r, "dishFound", {})
    BY <1>1 DEF UpdateDish
  <2>2. dish[r] \in Dishes /\ dishWs[dish[r]] # None
    BY <2>1, HomeType, ToNone, PCsMember DEF Held, Answered, Goto, OnDish, Of
  <2>3. switched' \in [Requests -> SUBSET Dishes] /\ offered' \subseteq offered \cup {dish[r]}
    BY <1>1, <2>2, SwitchType DEF UpdateDish
  <2>. QED  BY <1>1, <2>1, <2>2, <2>3, AnsweredType DEF UpdateDish, TypeOK
<1>2. CASE Conflict(r)
  <2>1. PICK from : Finish(r, from, {})
    BY <1>2 DEF Conflict
  <2>. QED  BY <1>2, <2>1, FinishType DEF Conflict, TypeOK
<1>3. CASE InsertVariant(r)
  <2>1. Finish(r, "variantNew", {})
    BY <1>3 DEF InsertVariant
  <2>2. dish[r] \in Dishes /\ Of(r) \in Workspaces
    BY <2>1, HomeType, PCsMember DEF Held, Finish, Answered, Goto, OnDish, Of
  <2>. QED  BY <1>3, <2>1, <2>2, ToNone, FinishType DEF InsertVariant, TypeOK
<1>4. CASE UpdateVariant(r)
  <2>1. Finish(r, "variantFound", {})
    BY <1>4 DEF UpdateVariant
  <2>2. variant[r] \in Variants /\ variantWs[variant[r]] # None
    BY <2>1 DEF Held, Finish, Answered, Goto
  <2>. QED  BY <1>4, <2>1, <2>2, FinishType DEF UpdateVariant, TypeOK
<1>5. CASE InsertRecipe(r)
  <2>1. Finish(r, "recipeNew", {})
    BY <1>5 DEF InsertRecipe
  <2>2. dish[r] \in Dishes /\ dishWs[dish[r]] # None
    BY <2>1, HomeType, ToNone, PCsMember DEF Held, Finish, Answered, Goto, OnDish, Of
  <2>. QED  BY <1>5, <2>1, <2>2, FinishType DEF InsertRecipe, TypeOK
<1>6. CASE InsertRecipeFails(r)
  BY <1>6, FinishType DEF InsertRecipeFails, TypeOK
<1>7. CASE CheckVariant(r)
  <2>1. UNCHANGED <<raced, switched>>
    BY <1>7 DEF CheckVariant, ghosts
  <2>2. raced' \in [Requests -> BOOLEAN]
    BY <2>1 DEF TypeOK
  <2>3. pc' \in [Requests -> PCs]
    BY <1>7, PCsMember DEF CheckVariant, Goto, TypeOK, OnDish
  <2>. QED  BY <1>7, <2>1, <2>2, <2>3 DEF CheckVariant, TypeOK
<1>8. CASE RefuseVariant(r)
  BY <1>8, FinishType DEF RefuseVariant, TypeOK
<1>9. CASE InsertRecord(r)
  <2>1. Finish(r, "recordReady", {})
    BY <1>9 DEF InsertRecord
  <2>2. dish[r] \in Dishes /\ Of(r) \in Workspaces
    BY <2>1, HomeType, PCsMember DEF Held, Finish, Answered, Goto, OnDish, Of
  <2>. QED  BY <1>9, <2>1, <2>2, FinishType DEF InsertRecord, TypeOK
<1>10. CASE UpdateRecord(r)
  <2>1. Finish(r, "recordFound", {})
    BY <1>10 DEF UpdateRecord
  <2>2. eaten' \in [Records -> Days]
    BY <1>10 DEF UpdateRecord, TypeOK
  <2>. QED  BY <1>10, <2>1, <2>2, FinishType DEF UpdateRecord, TypeOK
<1>11. CASE DeleteRecord(r)
  <2>1. PICK races : Finish(r, "recordDoomed", races)
    BY <1>11 DEF DeleteRecord
  <2>2. 0 \in Days
    BY CatalogAssumption DEF Days
  <2>3. feedbacks' \subseteq Rows
    BY <1>11 DEF DeleteRecord, RowsWithout, TypeOK
  <2>4. record[r] \in Records
    BY <2>1, PCsMember DEF Held, Finish, Answered, Goto, OnRecord
  <2>. QED  BY <1>11, <2>1, <2>2, <2>3, <2>4, FinishType DEF DeleteRecord, TypeOK
<1>12. CASE Upsert(r)
  BY <1>12, RateType DEF Upsert, OnRecord
<1>13. CASE LookForFeedback(r)
  <2>1. UNCHANGED <<raced, switched>>
    BY <1>13 DEF LookForFeedback, ghosts
  <2>2. raced' \in [Requests -> BOOLEAN]
    BY <2>1 DEF TypeOK
  <2>3. pc' \in [Requests -> PCs]
    BY <1>13, PCsMember DEF LookForFeedback, Goto, TypeOK, OnRecord
  <2>. QED  BY <1>13, <2>1, <2>2, <2>3 DEF LookForFeedback, TypeOK, local
<1>14. CASE InsertFeedback(r)
  BY <1>14, RateType DEF InsertFeedback, OnRecord
<1>15. CASE UpdateFeedback(r)
  BY <1>15, RateType DEF UpdateFeedback, OnRecord
<1>16. CASE WriteFails(r)
  <2>1. PICK from : Finish(r, from, {})
    BY <1>16 DEF WriteFails
  <2>. QED  BY <1>16, <2>1, FinishType DEF WriteFails, TypeOK
<1>17. CASE Answer(r)
  <2>1. UNCHANGED raced
    BY <1>17 DEF Answer
  <2>2. raced' \in [Requests -> BOOLEAN]
    BY <2>1 DEF TypeOK
  <2>3. pc' \in [Requests -> PCs]
    BY <1>17, PCsMember DEF Answer, Goto, TypeOK
  <2>4. Candidates(snap[r]) \subseteq Dishes
    BY DEF Candidates, TypeOK
  <2>5. \A T \in TopSets(Candidates(snap[r])) \cup {{d} : d \in Candidates(snap[r])} :
           T \in SUBSET Dishes
    BY <2>4 DEF TopSets
  <2>6. PICK T \in SUBSET Dishes : offer' = [offer EXCEPT ![r] = T]
    BY <1>17, <2>5 DEF Answer
  <2>. QED  BY <1>17, <2>2, <2>3, <2>6 DEF Answer, TypeOK
<1>18. CASE Deliver(r)
  BY <1>18, FinishType DEF Deliver, TypeOK
<1>. QED  BY <1>1, <1>2, <1>3, <1>4, <1>5, <1>6, <1>7, <1>8, <1>9, <1>10, <1>11,
            <1>12, <1>13, <1>14, <1>15, <1>16, <1>17, <1>18 DEF Continue

LEMMA NextType == TypeOK /\ Held /\ [Next]_vars => TypeOK'
<1>. SUFFICES ASSUME TypeOK, Held, [Next]_vars PROVE TypeOK'
  OBVIOUS
<1>. USE DEF db, menu, meals
<1>1. ASSUME NEW r \in Requests, Abort(r) PROVE TypeOK'
  BY <1>1, FinishType DEF Abort, TypeOK
<1>2. CASE Tick
  <2>1. UNCHANGED <<pc, local, raced, switched, db>>
    BY <1>2 DEF Tick, ghosts
  <2>2. raced' \in [Requests -> BOOLEAN]
    BY <2>1 DEF TypeOK
  <2>3. today' \in Days
    BY <1>2, CatalogAssumption DEF Tick, TypeOK, Days
  <2>. QED  BY <2>1, <2>2, <2>3 DEF TypeOK, local
<1>3. CASE UNCHANGED vars
  <2>1. UNCHANGED <<pc, local, raced, switched, db, today>>
    BY <1>3 DEF vars, ghosts
  <2>2. raced' \in [Requests -> BOOLEAN]
    BY <2>1 DEF TypeOK
  <2>. QED  BY <2>1, <2>2 DEF TypeOK, local
<1>. QED  BY <1>1, <1>2, <1>3, NextSplit, BeginType, ContinueType

(***************************************************************************)
(* What a request holds on to.                                             *)
(***************************************************************************)
HeldBy(q) ==
    /\ pc[q] # "idle" => user[q] \in Users
    /\ pc[q] \in OnDish => dish[q] \in Dishes /\ dishWs[dish[q]] = Of(q)
    /\ pc[q] = "variantFound" =>
          variant[q] \in Variants /\ variantWs[variant[q]] # None
    /\ pc[q] = "recordReady" /\ variant[q] # None =>
          variantWs[variant[q]] # None /\ variantDish[variant[q]] = dish[q]
    /\ pc[q] \in OnRecord =>
          /\ record[q] \in Records
          /\ recordWs[record[q]] = Of(q) \/ record[q] \in gone

LEMMA HeldByAll ==
    /\ Held => \A q \in Requests : HeldBy(q)
    /\ (\A q \in Requests : HeldBy(q)') => Held'
BY DEF Held, HeldBy

(* Rows stay in their workspace; only records go, and for good.            *)
Kept ==
    /\ \A d \in Dishes : dishWs[d] # None => dishWs'[d] = dishWs[d]
    /\ \A v \in Variants : variantWs[v] # None =>
          variantWs'[v] = variantWs[v] /\ variantDish'[v] = variantDish[v]
    /\ \A m \in Records : recordWs[m] # None =>
          recordWs'[m] = recordWs[m] \/ m \in gone'
    /\ gone \subseteq gone'

(* The requests that do not take the step keep their place and locals.     *)
Stays(q) ==
    /\ pc'[q] = pc[q] /\ user'[q] = user[q] /\ dish'[q] = dish[q]
    /\ variant'[q] = variant[q] /\ record'[q] = record[q]

LEMMA StaysHeld ==
    ASSUME TypeOK, NEW q \in Requests, HeldBy(q), Kept, Stays(q)
    PROVE  HeldBy(q)'
<1>1. pc[q] # "idle" => Of(q)' = Of(q) /\ Of(q) # None
  BY HomeType, ToNone DEF HeldBy, Of, Stays
<1>2. (pc[q] \in OnDish \/ pc[q] \in OnRecord) => pc[q] # "idle"
  BY PCsMember
<1>3. pc[q] = "recordReady" => variant[q] \in Variants \cup {None}
  BY DEF TypeOK
<1>. QED  BY <1>1, <1>2, <1>3 DEF HeldBy, Kept, Stays

LEMMA NextKept == TypeOK /\ Held /\ [Next]_vars => Kept
<1>. SUFFICES ASSUME TypeOK, Held, [Next]_vars PROVE Kept
  OBVIOUS
<1>. USE DEF db, menu, meals, Kept
<1>1. ASSUME NEW r \in Requests, NEW u \in Users, Begin(r, u) PROVE Kept
  BY <1>1 DEF Begin, CreateDish, FindDish, FindVariant, FindRecord, ListDishes, TypeOK
<1>2. ASSUME NEW r \in Requests, Continue(r) PROVE Kept
  <2>1. CASE InsertVariant(r)
    BY <2>1 DEF InsertVariant, TypeOK
  <2>2. CASE InsertRecord(r)
    BY <2>2 DEF InsertRecord, TypeOK
  <2>3. CASE DeleteRecord(r)
    BY <2>3 DEF DeleteRecord, TypeOK
  <2>4. CASE ~InsertVariant(r) /\ ~InsertRecord(r) /\ ~DeleteRecord(r)
    <3>1. UNCHANGED <<dishWs, variantWs, variantDish, recordWs, gone>>
      BY <1>2, <2>4 DEF Continue, UpdateDish, Conflict, UpdateVariant, InsertRecipe,
         InsertRecipeFails, CheckVariant, RefuseVariant, UpdateRecord, Upsert,
         LookForFeedback, InsertFeedback, UpdateFeedback, Rate, WriteFails, Answer,
         Deliver
    <3>. QED  BY <3>1
  <2>. QED  BY <2>1, <2>2, <2>3, <2>4
<1>3. ASSUME NEW r \in Requests, Abort(r) PROVE Kept
  BY <1>3 DEF Abort
<1>4. CASE Tick
  BY <1>4 DEF Tick
<1>5. CASE UNCHANGED vars
  BY <1>5 DEF vars
<1>. QED  BY <1>1, <1>2, <1>3, <1>4, <1>5, NextSplit

LEMMA FinishStays ==
    ASSUME TypeOK, NEW r \in Requests, NEW from, NEW races, Answered(r, from, races),
           NEW q \in Requests \ {r}
    PROVE  Stays(q)
BY DEF Answered, Goto, Forget, Stays, TypeOK

LEMMA FinishHeld ==
    ASSUME TypeOK, NEW r \in Requests, NEW from, NEW races, Answered(r, from, races)
    PROVE  pc'[r] = "idle" /\ HeldBy(r)'
<1>1. pc'[r] = "idle"
  BY DEF Answered, Goto, TypeOK
<1>. QED  BY <1>1, PCsMember DEF HeldBy

LEMMA BeginHeld ==
    ASSUME TypeOK, Held, Kept, NEW r \in Requests, NEW u \in Users, Begin(r, u)
    PROVE  Held'
<1>. USE DEF db, menu, meals
<1>1. CASE CreateDish(r, u)
  <2>1. \A q \in Requests : Stays(q)
    BY <1>1 DEF CreateDish, local, Stays
  <2>. QED  BY <2>1, HeldByAll, StaysHeld
<1>2. ASSUME NEW to, Start(r, u, to)
      PROVE  pc'[r] = to /\ user'[r] = u /\ Of(r)' = Home[u]
  BY <1>2 DEF Start, Goto, Of, TypeOK
<1>3. CASE FindDish(r, u)
  <2>1. \A q \in Requests \ {r} : Stays(q)
    BY <1>3 DEF FindDish, Start, Goto, Stays, TypeOK
  <2>2. PICK d \in Dishes, to \in {"dishFound", "variantNew", "recipeNew", "recordNew"} :
           dishWs[d] = Home[u] /\ Start(r, u, to) /\ dish' = [dish EXCEPT ![r] = d]
    BY <1>3 DEF FindDish
  <2>3. dish'[r] = d /\ dishWs' = dishWs
    BY <1>3, <2>2 DEF FindDish, TypeOK
  <2>4. to \notin OnRecord /\ to \notin {"variantFound", "recordReady"}
    BY DEF OnRecord
  <2>5. HeldBy(r)'
    BY <1>2, <2>2, <2>3, <2>4 DEF HeldBy
  <2>. QED  BY <2>1, <2>5, HeldByAll, StaysHeld
<1>4. CASE FindVariant(r, u)
  <2>1. \A q \in Requests \ {r} : Stays(q)
    BY <1>4 DEF FindVariant, Start, Goto, Stays, TypeOK
  <2>2. PICK v \in Variants :
           variantWs[v] = Home[u] /\ variant' = [variant EXCEPT ![r] = v]
    BY <1>4 DEF FindVariant
  <2>3. Start(r, u, "variantFound") /\ variantWs' = variantWs
    BY <1>4 DEF FindVariant
  <2>4. variant'[r] = v /\ variantWs[v] # None
    BY <2>2, HomeType, ToNone DEF TypeOK
  <2>5. HeldBy(r)'
    BY <1>2, <2>3, <2>4 DEF HeldBy, OnDish, OnRecord
  <2>. QED  BY <2>1, <2>5, HeldByAll, StaysHeld
<1>5. CASE FindRecord(r, u)
  <2>1. \A q \in Requests \ {r} : Stays(q)
    BY <1>5 DEF FindRecord, Start, Goto, Stays, TypeOK
  <2>2. PICK m \in Records, to \in {"recordFound", "recordDoomed", "rated"} :
           recordWs[m] = Home[u] /\ Start(r, u, to) /\ record' = [record EXCEPT ![r] = m]
    BY <1>5 DEF FindRecord
  <2>3. record'[r] = m /\ recordWs' = recordWs
    BY <1>5, <2>2 DEF FindRecord, TypeOK
  <2>4. to \notin OnDish /\ to \notin {"variantFound", "recordReady"}
    BY DEF OnDish
  <2>5. HeldBy(r)'
    BY <1>2, <2>2, <2>3, <2>4 DEF HeldBy
  <2>. QED  BY <2>1, <2>5, HeldByAll, StaysHeld
<1>6. CASE ListDishes(r, u)
  <2>1. \A q \in Requests \ {r} : Stays(q)
    BY <1>6 DEF ListDishes, Start, Goto, Stays, TypeOK
  <2>2. Start(r, u, "listed")
    BY <1>6 DEF ListDishes
  <2>3. HeldBy(r)'
    BY <1>2, <2>2 DEF HeldBy, OnDish, OnRecord
  <2>. QED  BY <2>1, <2>3, HeldByAll, StaysHeld
<1>. QED  BY <1>1, <1>3, <1>4, <1>5, <1>6 DEF Begin

LEMMA Finishes ==
    ASSUME NEW r \in Requests, Continue(r)
    PROVE  \/ \E from, races : Answered(r, from, races)
           \/ CheckVariant(r) \/ LookForFeedback(r) \/ Answer(r)
BY DEF Continue, UpdateDish, Conflict, InsertVariant, UpdateVariant, InsertRecipe,
   InsertRecipeFails, RefuseVariant, InsertRecord, UpdateRecord, DeleteRecord, Upsert,
   InsertFeedback, UpdateFeedback, Rate, WriteFails, Deliver, Finish

LEMMA ContinueHeld ==
    ASSUME TypeOK, Held, Kept, NEW r \in Requests, Continue(r)
    PROVE  Held'
<1>. USE DEF db, menu, meals
<1>1. CASE \E from, races : Answered(r, from, races)
  <2>1. (\A q \in Requests \ {r} : Stays(q)) /\ HeldBy(r)'
    BY <1>1, FinishStays, FinishHeld
  <2>. QED  BY <2>1, HeldByAll, StaysHeld
<1>2. CASE CheckVariant(r)
  <2>1. \A q \in Requests \ {r} : Stays(q)
    BY <1>2 DEF CheckVariant, Goto, Stays, TypeOK
  <2>2. PICK v \in {w \in Variants : Usable(r, w)} \cup {None} :
           variant' = [variant EXCEPT ![r] = v]
    BY <1>2 DEF CheckVariant
  <2>3. /\ pc[r] = "recordNew" /\ pc'[r] = "recordReady" /\ variant'[r] = v
        /\ UNCHANGED <<dishWs, variantWs, variantDish, user, dish>>
    BY <1>2, <2>2 DEF CheckVariant, Goto, TypeOK
  <2>4. user[r] \in Users /\ dish[r] \in Dishes /\ dishWs[dish[r]] = Of(r)
    BY <2>3, PCsMember DEF Held, OnDish
  <2>5. v # None => variantWs[v] # None /\ variantDish[v] = dish[r]
    BY <2>4, HomeType, ToNone DEF Usable, Of
  <2>6. HeldBy(r)'
    BY <2>3, <2>4, <2>5 DEF HeldBy, OnRecord, Of
  <2>. QED  BY <2>1, <2>6, HeldByAll, StaysHeld
<1>3. CASE LookForFeedback(r)
  <2>1. \A q \in Requests \ {r} : Stays(q)
    BY <1>3 DEF LookForFeedback, Goto, Stays, TypeOK, local
  <2>2. /\ pc[r] = "rated" /\ pc'[r] \in {"unratedYet", "ratedBefore"}
        /\ UNCHANGED <<recordWs, gone, user, record>>
    BY <1>3 DEF LookForFeedback, Goto, TypeOK, local
  <2>3. HeldBy(r)'
    BY <2>2, HeldByAll DEF HeldBy, OnDish, OnRecord, Of
  <2>. QED  BY <2>1, <2>3, HeldByAll, StaysHeld
<1>4. CASE Answer(r)
  <2>1. \A q \in Requests \ {r} : Stays(q)
    BY <1>4 DEF Answer, Goto, Stays, TypeOK
  <2>2. pc[r] = "listed" /\ pc'[r] = "answered" /\ UNCHANGED user
    BY <1>4 DEF Answer, Goto, TypeOK
  <2>3. HeldBy(r)'
    BY <2>2 DEF Held, HeldBy, OnDish, OnRecord
  <2>. QED  BY <2>1, <2>3, HeldByAll, StaysHeld
<1>. QED  BY <1>1, <1>2, <1>3, <1>4, Finishes

LEMMA NextHeld == TypeOK /\ Held /\ [Next]_vars => Held'
<1>. SUFFICES ASSUME TypeOK, Held, [Next]_vars PROVE Held'
  OBVIOUS
<1>1. Kept
  BY NextKept
<1>2. ASSUME NEW r \in Requests, Abort(r) PROVE Held'
  <2>1. (\A q \in Requests \ {r} : Stays(q)) /\ HeldBy(r)'
    BY <1>2, FinishStays, FinishHeld DEF Abort, Finish
  <2>. QED  BY <1>1, <2>1, HeldByAll, StaysHeld
<1>3. CASE Tick \/ UNCHANGED vars
  <2>1. \A q \in Requests : Stays(q)
    BY <1>3 DEF Tick, vars, local, Stays
  <2>. QED  BY <1>1, <2>1, HeldByAll, StaysHeld
<1>. QED  BY <1>1, <1>2, <1>3, NextSplit, BeginHeld, ContinueHeld

LEMMA InitHeld == Init => TypeOK /\ Held
<1>. SUFFICES ASSUME Init PROVE TypeOK /\ Held
  OBVIOUS
<1>1. 0 \in Days
  BY CatalogAssumption DEF Days
<1>2. raced \in [Requests -> BOOLEAN]
  BY Zenon DEF Init
<1>3. TypeOK
  BY <1>1, <1>2, PCsMember DEF Init, TypeOK
<1>. QED  BY <1>3, PCsMember DEF Init, Held

(* Types, and that a request holds on to rows of its own workspace.        *)
THEOREM CatalogTypeCorrect == Spec => [](TypeOK /\ Held)
<1>1. Init => TypeOK /\ Held
  BY InitHeld
<1>2. TypeOK /\ Held /\ [Next]_vars => (TypeOK /\ Held)'
  BY NextType, NextHeld
<1>. QED  BY <1>1, <1>2, PTL DEF Spec

(***************************************************************************)
(* Workspaces, and one feedback for each user.                             *)
(***************************************************************************)
(* What Isolation and OneFeedbackEach speak of.                            *)
linked == <<dishWs, variantWs, variantDish, recordWs, recordDish, recordVariant,
            feedbacks>>

LEMMA LinkedSteps ==
    ASSUME [Next]_vars
    PROVE  \/ UNCHANGED linked
           \/ \E r \in Requests, u \in Users : CreateDish(r, u)
           \/ \E r \in Requests : InsertVariant(r) \/ InsertRecord(r) \/ DeleteRecord(r)
           \/ \E r \in Requests, from \in OnRecord : Rate(r, from)
<1>. USE DEF linked, db, menu, meals
<1>1. ASSUME NEW r \in Requests, NEW u \in Users, Begin(r, u), ~CreateDish(r, u)
      PROVE  UNCHANGED linked
  BY <1>1 DEF Begin, FindDish, FindVariant, FindRecord, ListDishes
<1>2. ASSUME NEW r \in Requests, Continue(r), ~InsertVariant(r), ~InsertRecord(r),
             ~DeleteRecord(r), \A from \in OnRecord : ~Rate(r, from)
      PROVE  UNCHANGED linked
  <2>1. ~Upsert(r) /\ ~InsertFeedback(r) /\ ~UpdateFeedback(r)
    BY <1>2 DEF Upsert, InsertFeedback, UpdateFeedback, OnRecord
  <2>. QED  BY <1>2, <2>1 DEF Continue, UpdateDish, Conflict, UpdateVariant,
          InsertRecipe, InsertRecipeFails, CheckVariant, RefuseVariant, UpdateRecord,
          LookForFeedback, WriteFails, Answer, Deliver
<1>3. ASSUME NEW r \in Requests, Abort(r) PROVE UNCHANGED linked
  BY <1>3 DEF Abort
<1>4. CASE Tick \/ UNCHANGED vars
  BY <1>4 DEF Tick, vars
<1>. QED  BY <1>1, <1>2, <1>3, <1>4, NextSplit

LEMMA FeedbackField ==
    ASSUME TypeOK, NEW f \in feedbacks
    PROVE  f \in Rows /\ f.record \in Records /\ f.user \in Users /\ f.ws \in Workspaces
BY DEF TypeOK, Rows

(* The row Rate writes, and the rows it leaves.                            *)
LEMMA RateRows ==
    ASSUME TypeOK, Held, NEW r \in Requests, NEW from \in OnRecord, Rate(r, from)
    PROVE  \E g \in Ratings, f \in Rows :
              /\ f.ws = Of(r) /\ f.record = record[r] /\ f.user = user[r] /\ f.rating = g
              /\ feedbacks' = (feedbacks \ Mine(r)) \cup {f}
              /\ user[r] \in Users /\ record[r] \in Records
              /\ recordWs[record[r]] = Of(r)
<1>1. pc[r] \in OnRecord /\ Present(r)
  BY DEF Rate, Finish, Answered, Goto
<1>2. PICK g \in Ratings : feedbacks' = (feedbacks \ Mine(r))
          \cup {[ws |-> Of(r), record |-> record[r], user |-> user[r], rating |-> g]}
  BY DEF Rate
<1>. DEFINE f == [ws |-> Of(r), record |-> record[r], user |-> user[r], rating |-> g]
<1>3. f \in Rows /\ user[r] \in Users /\ record[r] \in Records
  BY <1>1, RatedRow
<1>4. recordWs[record[r]] = Of(r)
  BY <1>1 DEF Held, Present, TypeOK
<1>5. f.ws = Of(r) /\ f.record = record[r] /\ f.user = user[r] /\ f.rating = g
  OBVIOUS
<1>. HIDE DEF f
<1>6. feedbacks' = (feedbacks \ Mine(r)) \cup {f}
  BY <1>2 DEF f
<1>. QED  BY <1>3, <1>4, <1>5, <1>6

LEMMA NextIsolation == TypeOK /\ Held /\ Isolation /\ [Next]_vars => Isolation'
<1>. SUFFICES ASSUME TypeOK, Held, Isolation, [Next]_vars PROVE Isolation'
  OBVIOUS
<1>. USE DEF db, menu, meals
<1>1. CASE UNCHANGED linked
  BY <1>1 DEF linked, Isolation
<1>2. ASSUME NEW r \in Requests, NEW u \in Users, CreateDish(r, u) PROVE Isolation'
  <2>1. PICK d \in Dishes : dishWs[d] = None /\ dishWs' = [dishWs EXCEPT ![d] = Home[u]]
    BY <1>2 DEF CreateDish
  <2>2. \A e \in Dishes : dishWs[e] # None => dishWs'[e] = dishWs[e]
    BY <2>1 DEF TypeOK
  <2>3. UNCHANGED <<variantWs, variantDish, recordWs, recordDish, recordVariant, feedbacks>>
    BY <1>2 DEF CreateDish
  <2>. QED  BY <2>2, <2>3 DEF Isolation, TypeOK
<1>3. ASSUME NEW r \in Requests, InsertVariant(r) PROVE Isolation'
  <2>1. PICK v \in Variants :
           /\ variantWs[v] = None
           /\ variantWs' = [variantWs EXCEPT ![v] = Of(r)]
           /\ variantDish' = [variantDish EXCEPT ![v] = dish[r]]
    BY <1>3 DEF InsertVariant
  <2>2. dish[r] \in Dishes /\ dishWs[dish[r]] = Of(r) /\ dish[r] # None
    BY <1>3, ToNone DEF InsertVariant, Finish, Answered, Goto, Held, OnDish
  <2>3. UNCHANGED <<dishWs, recordWs, recordDish, recordVariant, feedbacks>>
    BY <1>3 DEF InsertVariant
  <2>4. /\ \A w \in Variants \ {v} :
              variantWs'[w] = variantWs[w] /\ variantDish'[w] = variantDish[w]
        /\ variantWs'[v] = Of(r) /\ variantDish'[v] = dish[r]
    BY <2>1 DEF TypeOK
  <2>5. \A w \in Variants : variantWs'[w] # None =>
           variantDish'[w] # None /\ dishWs[variantDish'[w]] = variantWs'[w]
    BY <2>2, <2>4 DEF Isolation
  <2>6. \A m \in Records : recordWs[m] # None /\ recordVariant[m] # None =>
           recordVariant[m] \in Variants \ {v}
    BY <2>1 DEF Isolation, TypeOK
  <2>. QED  BY <2>3, <2>4, <2>5, <2>6 DEF Isolation
<1>4. ASSUME NEW r \in Requests, InsertRecord(r) PROVE Isolation'
  <2>1. PICK m \in Records :
           /\ recordWs[m] = None
           /\ recordWs' = [recordWs EXCEPT ![m] = Of(r)]
           /\ recordDish' = [recordDish EXCEPT ![m] = dish[r]]
           /\ recordVariant' = [recordVariant EXCEPT ![m] = variant[r]]
    BY <1>4 DEF InsertRecord
  <2>2. pc[r] = "recordReady"
    BY <1>4 DEF InsertRecord, Finish, Answered, Goto
  <2>3. /\ dish[r] \in Dishes /\ dishWs[dish[r]] = Of(r)
        /\ variant[r] # None =>
              variantDish[variant[r]] = dish[r] /\ variantWs[variant[r]] = Of(r)
    BY <2>2 DEF Held, OnDish, Isolation, TypeOK
  <2>4. UNCHANGED <<dishWs, variantWs, variantDish, feedbacks>>
    BY <1>4 DEF InsertRecord
  <2>5. dish[r] # None
    BY <2>3, ToNone
  <2>6. \A f \in feedbacks : f.record # m
    BY <2>1, ToNone, FeedbackField DEF Isolation
  <2>. QED  BY <2>1, <2>3, <2>4, <2>5, <2>6, FeedbackField DEF Isolation, TypeOK
<1>5. ASSUME NEW r \in Requests, DeleteRecord(r) PROVE Isolation'
  <2>1. /\ recordWs' = [recordWs EXCEPT ![record[r]] = None]
        /\ recordDish' = [recordDish EXCEPT ![record[r]] = None]
        /\ recordVariant' = [recordVariant EXCEPT ![record[r]] = None]
        /\ feedbacks' = {f \in feedbacks : f.record # record[r]}
        /\ UNCHANGED <<dishWs, variantWs, variantDish>>
    BY <1>5 DEF DeleteRecord, RowsWithout
  <2>. QED  BY <2>1, FeedbackField DEF Isolation, TypeOK
<1>6. ASSUME NEW r \in Requests, NEW from \in OnRecord, Rate(r, from) PROVE Isolation'
  <2>1. UNCHANGED <<dishWs, variantWs, variantDish, recordWs, recordDish, recordVariant>>
    BY <1>6 DEF Rate
  <2>2. PICK f \in Rows :
           /\ f.ws = Of(r) /\ f.record = record[r] /\ f.user = user[r]
           /\ feedbacks' = (feedbacks \ Mine(r)) \cup {f}
           /\ recordWs[record[r]] = Of(r)
    BY <1>6, RateRows
  <2>. QED  BY <2>1, <2>2 DEF Isolation, Of
<1>. QED  BY <1>1, <1>2, <1>3, <1>4, <1>5, <1>6, LinkedSteps

LEMMA NextOne == TypeOK /\ Held /\ OneFeedbackEach /\ [Next]_vars => OneFeedbackEach'
<1>. SUFFICES ASSUME TypeOK, Held, OneFeedbackEach, [Next]_vars PROVE OneFeedbackEach'
  OBVIOUS
<1>1. CASE feedbacks' \subseteq feedbacks
  BY <1>1 DEF OneFeedbackEach
<1>2. ASSUME NEW r \in Requests, NEW from \in OnRecord, Rate(r, from)
      PROVE  OneFeedbackEach'
  <2>1. PICK f \in Rows :
           /\ f.record = record[r] /\ f.user = user[r]
           /\ feedbacks' = (feedbacks \ Mine(r)) \cup {f}
    BY <1>2, RateRows
  <2>. QED  BY <2>1 DEF OneFeedbackEach, Mine
<1>3. ASSUME NEW r \in Requests, DeleteRecord(r) PROVE feedbacks' \subseteq feedbacks
  BY <1>3 DEF DeleteRecord, RowsWithout
<1>. QED  BY <1>1, <1>2, <1>3, LinkedSteps
     DEF linked, CreateDish, InsertVariant, InsertRecord, meals

LEMMA InitIsolation == Init => Isolation /\ OneFeedbackEach
BY DEF Init, Isolation, OneFeedbackEach

(* However requests of several workspaces interleave between a check and   *)
(* the write that relies on it, no row is linked to one of another         *)
(* workspace, nor a record to a variant of another dish.                   *)
THEOREM WorkspacesStayApart == Spec => []Isolation
<1>1. Init => TypeOK /\ Held /\ Isolation
  BY InitHeld, InitIsolation
<1>2. TypeOK /\ Held /\ Isolation /\ [Next]_vars => (TypeOK /\ Held /\ Isolation)'
  BY NextType, NextHeld, NextIsolation
<1>. QED  BY <1>1, <1>2, PTL DEF Spec

(* However many upserts of a user race, whether Prisma sends them as one   *)
(* statement or as two, the user ends up with one feedback on a record.    *)
THEOREM FeedbackIsUnique == Spec => []OneFeedbackEach
<1>1. Init => TypeOK /\ Held /\ OneFeedbackEach
  BY InitHeld, InitIsolation
<1>2. TypeOK /\ Held /\ OneFeedbackEach /\ [Next]_vars
        => (TypeOK /\ Held /\ OneFeedbackEach)'
  BY NextType, NextHeld, NextOne
<1>. QED  BY <1>1, <1>2, PTL DEF Spec

(***************************************************************************)
(* Where errors come from.                                                 *)
(***************************************************************************)
UndisturbedFor(q) ==
    pc[q] \in OnRecord /\ ~raced[q] =>
        /\ Present(q)
        /\ pc[q] = "unratedYet" => Mine(q) = {}
        /\ pc[q] = "ratedBefore" => Mine(q) # {}

LEMMA UndisturbedForAll ==
    /\ Undisturbed => \A q \in Requests : UndisturbedFor(q)
    /\ (\A q \in Requests : UndisturbedFor(q)') => Undisturbed'
BY DEF Undisturbed, UndisturbedFor

(* A request that waits sees the rows it has seen before, unless it is     *)
(* raced.                                                                  *)
LEMMA StaysUndisturbed ==
    ASSUME NEW q \in Requests, UndisturbedFor(q), Stays(q),
           pc[q] \in OnRecord /\ ~raced'[q] =>
               /\ ~raced[q]
               /\ Present(q) => Present(q)'
               /\ Mine(q)' = Mine(q)
    PROVE  UndisturbedFor(q)'
BY Zenon DEF UndisturbedFor, Stays

LEMMA FinishRaced ==
    ASSUME NEW r \in Requests, NEW from, NEW races, Answered(r, from, races),
           NEW q \in Requests \ {r}, ~raced'[q]
    PROVE  ~raced[q] /\ q \notin races
<1>1. raced'[q] = (q # r /\ (raced[q] \/ q \in races))
  BY Zenon DEF Answered
<1>. QED  BY <1>1, Zenon

LEMMA FinishUndisturbed ==
    ASSUME TypeOK, NEW r \in Requests, NEW from, NEW races, Answered(r, from, races)
    PROVE  UndisturbedFor(r)'
BY FinishHeld, PCsMember DEF UndisturbedFor

(* The steps that leave records and feedback alone.                        *)
LEMMA QuietUndisturbed ==
    ASSUME TypeOK, UNCHANGED <<recordWs, feedbacks>>, NEW q \in Requests,
           UndisturbedFor(q), Stays(q), ~raced'[q] => ~raced[q]
    PROVE  UndisturbedFor(q)'
<1>1. Present(q) => Present(q)'
  BY DEF Present, Stays
<1>2. Mine(q)' = Mine(q)
  BY DEF Mine, Stays
<1>. QED  BY <1>1, <1>2, StaysUndisturbed

LEMMA BeginUndisturbed ==
    ASSUME TypeOK, Held, Undisturbed, NEW r \in Requests, NEW u \in Users, Begin(r, u)
    PROVE  Undisturbed'
<1>. USE DEF db, menu, meals
<1>1. UNCHANGED <<recordWs, feedbacks, raced>>
  BY DEF Begin, CreateDish, FindDish, FindVariant, FindRecord, ListDishes, Start, ghosts
<1>2. CASE CreateDish(r, u)
  <2>1. \A q \in Requests : Stays(q)
    BY <1>2 DEF CreateDish, local, Stays
  <2>. QED  BY <1>1, <2>1, UndisturbedForAll, QuietUndisturbed
<1>3. ASSUME NEW to, Start(r, u, to), UNCHANGED <<dish, variant>>
      PROVE  pc'[r] = to
  BY <1>3 DEF Start, Goto, TypeOK
<1>4. CASE FindRecord(r, u)
  <2>1. PICK m \in Records, to \in {"recordFound", "recordDoomed", "rated"} :
           recordWs[m] = Home[u] /\ Start(r, u, to) /\ record' = [record EXCEPT ![r] = m]
    BY <1>4 DEF FindRecord
  <2>2. \A q \in Requests \ {r} : Stays(q)
    BY <1>4 DEF FindRecord, Start, Goto, Stays, TypeOK
  <2>3. pc'[r] = to /\ record'[r] = m
    BY <2>1 DEF Start, Goto, TypeOK
  <2>4. Present(r)'
    BY <1>1, <2>1, <2>3, HomeType, ToNone DEF Present
  <2>5. UndisturbedFor(r)'
    BY <2>3, <2>4 DEF UndisturbedFor
  <2>. QED  BY <1>1, <2>2, <2>5, UndisturbedForAll, QuietUndisturbed
<1>5. CASE FindDish(r, u) \/ FindVariant(r, u) \/ ListDishes(r, u)
  <2>1. \A q \in Requests \ {r} : Stays(q)
    BY <1>5 DEF FindDish, FindVariant, ListDishes, Start, Goto, Stays, TypeOK
  <2>2. pc'[r] \notin OnRecord
    BY <1>5 DEF FindDish, FindVariant, ListDishes, Start, Goto, TypeOK, OnRecord
  <2>3. UndisturbedFor(r)'
    BY <2>2 DEF UndisturbedFor
  <2>. QED  BY <1>1, <2>1, <2>3, UndisturbedForAll, QuietUndisturbed
<1>. QED  BY <1>2, <1>4, <1>5 DEF Begin

LEMMA ContinueUndisturbed ==
    ASSUME TypeOK, Held, Undisturbed, NEW r \in Requests, Continue(r)
    PROVE  Undisturbed'
<1>. USE DEF db, menu, meals
<1>1. CASE InsertRecord(r)
  <2>1. PICK m \in Records :
           recordWs[m] = None /\ recordWs' = [recordWs EXCEPT ![m] = Of(r)]
    BY <1>1 DEF InsertRecord
  <2>2. Answered(r, "recordReady", {}) /\ UNCHANGED feedbacks
    BY <1>1 DEF InsertRecord, Finish
  <2>3. ASSUME NEW q \in Requests \ {r} PROVE UndisturbedFor(q)'
    <3>1. Stays(q)
      BY <2>2, FinishStays
    <3>2. pc[q] \in OnRecord /\ Present(q) => Present(q)'
      BY <2>1, <3>1 DEF Present, Stays, TypeOK, Held
    <3>3. Mine(q)' = Mine(q)
      BY <2>2, <3>1 DEF Mine, Stays
    <3>. QED  BY <2>2, <3>1, <3>2, <3>3, FinishRaced, StaysUndisturbed, UndisturbedForAll
  <2>. QED  BY <2>2, <2>3, FinishUndisturbed, UndisturbedForAll
<1>2. CASE DeleteRecord(r)
  <2>1. Answered(r, "recordDoomed", {q \in Requests : record[q] = record[r]})
    BY <1>2 DEF DeleteRecord, Finish
  <2>2. /\ recordWs' = [recordWs EXCEPT ![record[r]] = None]
        /\ feedbacks' = {f \in feedbacks : f.record # record[r]}
    BY <1>2 DEF DeleteRecord, RowsWithout
  <2>3. ASSUME NEW q \in Requests \ {r} PROVE UndisturbedFor(q)'
    <3>1. Stays(q)
      BY <2>1, FinishStays
    <3>2. ~raced'[q] => ~raced[q] /\ record[q] # record[r]
      BY <2>1, FinishRaced
    <3>3. record[q] # record[r] => (Present(q) => Present(q)')
      BY <2>2, <3>1 DEF Present, Stays, TypeOK
    <3>4. record[q] # record[r] => Mine(q)' = Mine(q)
      BY <2>2, <3>1 DEF Mine, Stays
    <3>. QED  BY <3>1, <3>2, <3>3, <3>4, StaysUndisturbed, UndisturbedForAll
  <2>. QED  BY <2>1, <2>3, FinishUndisturbed, UndisturbedForAll
<1>3. ASSUME NEW from \in OnRecord, Rate(r, from) PROVE Undisturbed'
  <2>1. Answered(r, from, {q \in Requests : record[q] = record[r] /\ user[q] = user[r]})
    BY <1>3 DEF Rate, Finish
  <2>2. PICK f \in Rows :
           /\ f.record = record[r] /\ f.user = user[r]
           /\ feedbacks' = (feedbacks \ Mine(r)) \cup {f}
    BY <1>3, RateRows
  <2>3. UNCHANGED recordWs
    BY <1>3 DEF Rate
  <2>4. ASSUME NEW q \in Requests \ {r} PROVE UndisturbedFor(q)'
    <3>1. Stays(q)
      BY <2>1, FinishStays
    <3>2. ~raced'[q] => ~raced[q] /\ ~(record[q] = record[r] /\ user[q] = user[r])
      BY <2>1, FinishRaced
    <3>3. Present(q) => Present(q)'
      BY <2>3, <3>1 DEF Present, Stays
    <3>4. ~(record[q] = record[r] /\ user[q] = user[r]) => Mine(q)' = Mine(q)
      BY <2>2, <3>1 DEF Mine, Stays
    <3>. QED  BY <3>1, <3>2, <3>3, <3>4, StaysUndisturbed, UndisturbedForAll
  <2>. QED  BY <2>1, <2>4, FinishUndisturbed, UndisturbedForAll
<1>4. CASE LookForFeedback(r)
  <2>1. \A q \in Requests \ {r} : Stays(q)
    BY <1>4 DEF LookForFeedback, Goto, Stays, TypeOK, local
  <2>2. UNCHANGED <<recordWs, feedbacks, raced, record, user>>
    BY <1>4 DEF LookForFeedback, local, ghosts
  <2>3. /\ pc[r] = "rated"
        /\ pc'[r] = IF Mine(r) = {} THEN "unratedYet" ELSE "ratedBefore"
    BY <1>4 DEF LookForFeedback, Goto, TypeOK
  <2>4. Present(r)' = Present(r) /\ Mine(r)' = Mine(r)
    BY <2>2 DEF Present, Mine
  <2>5. UndisturbedFor(r)'
    <3>1. ~raced'[r] => Present(r)'
      BY <2>2, <2>3, <2>4, UndisturbedForAll DEF UndisturbedFor, OnRecord
    <3>. QED  BY <2>3, <2>4, <3>1 DEF UndisturbedFor
  <2>. QED  BY <2>1, <2>2, <2>5, UndisturbedForAll, QuietUndisturbed
<1>5. CASE CheckVariant(r) \/ Answer(r)
  <2>1. \A q \in Requests \ {r} : Stays(q)
    BY <1>5 DEF CheckVariant, Answer, Goto, Stays, TypeOK
  <2>2. UNCHANGED <<recordWs, feedbacks, raced>>
    BY <1>5 DEF CheckVariant, Answer, ghosts
  <2>3. pc'[r] \notin OnRecord
    BY <1>5 DEF CheckVariant, Answer, Goto, TypeOK, OnRecord
  <2>4. UndisturbedFor(r)'
    BY <2>3 DEF UndisturbedFor
  <2>. QED  BY <2>1, <2>2, <2>4, UndisturbedForAll, QuietUndisturbed
<1>6. ASSUME ~InsertRecord(r), ~DeleteRecord(r), ~CheckVariant(r), ~Answer(r),
             ~LookForFeedback(r), \A from \in OnRecord : ~Rate(r, from)
      PROVE  Undisturbed'
  <2>1. PICK from, races : Answered(r, from, races)
    BY <1>6, Finishes
  <2>2. ~Upsert(r) /\ ~InsertFeedback(r) /\ ~UpdateFeedback(r)
    BY <1>6 DEF Upsert, InsertFeedback, UpdateFeedback, OnRecord
  <2>3. UNCHANGED <<recordWs, feedbacks>>
    BY <1>6, <2>2 DEF Continue, UpdateDish, Conflict, InsertVariant, UpdateVariant,
       InsertRecipe, InsertRecipeFails, RefuseVariant, UpdateRecord, WriteFails, Deliver
  <2>4. \A q \in Requests \ {r} : UndisturbedFor(q)'
    BY <2>1, <2>3, FinishStays, FinishRaced, UndisturbedForAll, QuietUndisturbed
  <2>. QED  BY <2>1, <2>4, FinishUndisturbed, UndisturbedForAll
<1>. QED  BY <1>1, <1>2, <1>3, <1>4, <1>5, <1>6

LEMMA NextUndisturbed == TypeOK /\ Held /\ Undisturbed /\ [Next]_vars => Undisturbed'
<1>. SUFFICES ASSUME TypeOK, Held, Undisturbed, [Next]_vars PROVE Undisturbed'
  OBVIOUS
<1>. USE DEF db, menu, meals
<1>1. ASSUME NEW r \in Requests, Abort(r) PROVE Undisturbed'
  <2>1. Answered(r, pc[r], {}) /\ UNCHANGED <<recordWs, feedbacks>>
    BY <1>1 DEF Abort, Finish
  <2>2. \A q \in Requests \ {r} : UndisturbedFor(q)'
    BY <2>1, FinishStays, FinishRaced, UndisturbedForAll, QuietUndisturbed
  <2>. QED  BY <2>1, <2>2, FinishUndisturbed, UndisturbedForAll
<1>2. CASE Tick \/ UNCHANGED vars
  <2>1. UNCHANGED <<recordWs, feedbacks, raced>> /\ \A q \in Requests : Stays(q)
    BY <1>2 DEF Tick, vars, local, ghosts, Stays
  <2>. QED  BY <2>1, UndisturbedForAll, QuietUndisturbed
<1>. QED  BY <1>1, <1>2, NextSplit, BeginUndisturbed, ContinueUndisturbed

LEMMA InitUndisturbed == Init => Undisturbed
BY PCsMember DEF Init, Undisturbed

LEMMA FailsRaced == Undisturbed => \A r \in Requests : WriteFails(r) => raced[r]
<1>. SUFFICES ASSUME Undisturbed, NEW r \in Requests, WriteFails(r), ~raced[r] PROVE FALSE
  BY Zenon
<1>1. pc[r] \in OnRecord =>
        /\ Present(r)
        /\ pc[r] = "unratedYet" => Mine(r) = {}
        /\ pc[r] = "ratedBefore" => Mine(r) # {}
  BY Zenon DEF Undisturbed
<1>. QED  BY <1>1 DEF WriteFails, Finish, Answered, Goto, OnRecord

(* A write that ends in a 500 has been overtaken: alone, a request finds   *)
(* its record and its feedback as it has seen them.                        *)
THEOREM ErrorsComeFromRaces == Spec => ErrorsOnlyFromRaces
<1>1. Init => TypeOK /\ Held /\ Undisturbed
  BY InitHeld, InitUndisturbed
<1>2. TypeOK /\ Held /\ Undisturbed /\ [Next]_vars => (TypeOK /\ Held /\ Undisturbed)'
  BY NextType, NextHeld, NextUndisturbed
<1>3. Undisturbed /\ [Next]_vars
        => [\A r \in Requests : WriteFails(r) => raced[r]]_vars
  BY FailsRaced
<1>. QED  BY <1>1, <1>2, <1>3, PTL DEF Spec, ErrorsOnlyFromRaces

(***************************************************************************)
(* Recommendations.                                                        *)
(***************************************************************************)
LEMMA OnlyAnswerAnswers ==
    ASSUME TypeOK, [Next]_vars, NEW r \in Requests,
           pc[r] = "listed", pc'[r] = "answered"
    PROVE  Answer(r)
<1>1. ASSUME NEW q \in Requests, NEW u \in Users, Begin(q, u) PROVE FALSE
  <2>1. pc'[r] = pc[r] \/ (pc[q] = "idle" /\ q = r)
    BY <1>1 DEF Begin, CreateDish, FindDish, FindVariant, FindRecord, ListDishes, Start,
       Goto, TypeOK
  <2>. QED  BY <2>1
<1>2. ASSUME NEW q \in Requests, NEW from, NEW races, Answered(q, from, races) PROVE FALSE
  BY <1>2 DEF Answered, Goto, TypeOK
<1>3. ASSUME NEW q \in Requests, CheckVariant(q) \/ LookForFeedback(q) PROVE FALSE
  BY <1>3 DEF CheckVariant, LookForFeedback, Goto, TypeOK
<1>4. ASSUME NEW q \in Requests, Answer(q) PROVE q = r
  BY <1>4 DEF Answer, Goto, TypeOK
<1>5. ASSUME NEW q \in Requests, Continue(q) PROVE Answer(r)
  BY <1>2, <1>3, <1>4, <1>5, Finishes
<1>6. ASSUME NEW q \in Requests, Abort(q) PROVE FALSE
  BY <1>2, <1>6 DEF Abort, Finish
<1>7. CASE Tick \/ UNCHANGED vars
  BY <1>7 DEF Tick, vars
<1>. QED  BY <1>1, <1>5, <1>6, <1>7, NextSplit

LEMMA AnswersAreCandidates ==
    ASSUME TypeOK, NEW r \in Requests, Answer(r)
    PROVE  offer'[r] \subseteq Candidates(snap[r])
<1>1. PICK T \in TopSets(Candidates(snap[r])) \cup {{d} : d \in Candidates(snap[r])} :
         offer' = [offer EXCEPT ![r] = T]
  BY DEF Answer
<1>2. T \subseteq Candidates(snap[r])
  BY DEF TopSets
<1>. QED  BY <1>1, <1>2 DEF TypeOK

LEMMA RecentOfCandidates ==
    ASSUME NEW S, NEW T, T \subseteq Candidates(S), RecentAmong(T) # {}
    PROVE  RecentAmong(S) = S
<1>1. Candidates(S) \subseteq S
  BY DEF Candidates
<1>2. RecentAmong(T) \subseteq T /\ RecentAmong(T) \subseteq RecentAmong(S)
  BY <1>1 DEF RecentAmong
<1>. QED  BY <1>1, <1>2 DEF Candidates

(* Between the two statements only the dishes it notes are switched.       *)
ListedFor(q) ==
    pc[q] = "listed" => snap[q] \ switched[q] = OfferedIn(Of(q)) \ switched[q]

(* What a step does to the dishes on offer, as a waiting request sees it.  *)
Noted(q) ==
    /\ pc'[q] = pc[q] /\ user'[q] = user[q] /\ snap'[q] = snap[q]
    /\ switched[q] \subseteq switched'[q]
    /\ offered' \subseteq Dishes
    /\ \A d \in Dishes \ switched'[q] :
          /\ d \in offered' <=> d \in offered
          /\ d \in offered => dishWs'[d] = dishWs[d]

LEMMA NotedHolds ==
    ASSUME TypeOK, NEW q \in Requests, ListedFor(q), Noted(q)
    PROVE  ListedFor(q)'
<1>. SUFFICES ASSUME pc[q] = "listed"
              PROVE  snap[q]' \ switched[q]' = OfferedIn(Of(q))' \ switched[q]'
  BY DEF ListedFor, Noted
<1>1. snap[q] \ switched[q] = OfferedIn(Of(q)) \ switched[q]
  BY DEF ListedFor
<1>2. OfferedIn(Of(q))' \ switched'[q] = OfferedIn(Of(q)) \ switched'[q]
  <2>1. offered' \ switched'[q] \subseteq Dishes
    BY DEF Noted, TypeOK
  <2>2. Of(q)' = Of(q)
    BY DEF Noted, Of
  <2>. QED  BY <2>1, <2>2 DEF Noted, OfferedIn, TypeOK
<1>. QED  BY <1>1, <1>2 DEF Noted

LEMMA SwitchNoted ==
    ASSUME TypeOK, NEW d \in Dishes, Switch(d) \/ UNCHANGED <<offered, switched>>,
           NEW q \in Requests, pc[q] = "listed"
    PROVE  /\ switched[q] \subseteq switched'[q] /\ offered' \subseteq Dishes
           /\ \A e \in Dishes \ switched'[q] : e \in offered' <=> e \in offered
BY DEF Switch, TypeOK

\* A request that waits keeps what it has read.
LEMMA OthersKeepSnap ==
    ASSUME TypeOK, NEW r \in Requests, NEW from, NEW races, Answered(r, from, races),
           NEW q \in Requests \ {r}
    PROVE  pc'[q] = pc[q] /\ user'[q] = user[q] /\ snap'[q] = snap[q]
BY DEF Answered, Goto, Forget, TypeOK

LEMMA BeginListed ==
    ASSUME TypeOK, Held, Kept, ListedHolds, NEW r \in Requests, NEW u \in Users, Begin(r, u),
           NEW q \in Requests
    PROVE  ListedFor(q)'
<1>. USE DEF db, menu, ghosts
<1>1. ListedFor(q)
  BY DEF ListedHolds, ListedFor
<1>2. CASE CreateDish(r, u)
  <2>1. UNCHANGED <<pc, local>>
    BY <1>2 DEF CreateDish
  <2>2. PICK d \in Dishes :
           dishWs[d] = None /\ (Switch(d) \/ UNCHANGED <<offered, switched>>)
    BY <1>2 DEF CreateDish
  <2>3. \A e \in offered : dishWs'[e] = dishWs[e]
    BY DEF Kept, TypeOK
  <2>4. pc[q] = "listed" => Noted(q)
    BY <2>1, <2>2, <2>3, SwitchNoted DEF Noted, local
  <2>5. pc[q] # "listed" => ListedFor(q)'
    BY <2>1 DEF ListedFor
  <2>. QED  BY <1>1, <2>4, <2>5, NotedHolds
<1>3. CASE ~CreateDish(r, u)
  <2>1. UNCHANGED <<offered, dishWs, switched>>
    BY <1>3 DEF Begin, FindDish, FindVariant, FindRecord, ListDishes, Start
  <2>2. CASE q # r
    <3>1. pc'[q] = pc[q] /\ user'[q] = user[q] /\ snap'[q] = snap[q]
      BY <1>3, <2>2 DEF Begin, FindDish, FindVariant, FindRecord, ListDishes, Start, Goto,
         TypeOK
    <3>. QED  BY <1>1, <2>1, <3>1, NotedHolds DEF Noted, TypeOK
  <2>3. CASE q = r /\ ListDishes(r, u)
    <3>1. snap'[q] = OfferedIn(Home[u]) /\ user'[q] = u
      BY <2>3 DEF ListDishes, Start, TypeOK
    <3>. QED  BY <2>1, <3>1 DEF ListedFor, OfferedIn, Of
  <2>4. CASE q = r /\ ~ListDishes(r, u)
    <3>1. pc'[q] # "listed"
      BY <1>3, <2>4 DEF Begin, FindDish, FindVariant, FindRecord, Start, Goto, TypeOK
    <3>. QED  BY <3>1 DEF ListedFor
  <2>. QED  BY <2>2, <2>3, <2>4
<1>. QED  BY <1>2, <1>3

LEMMA ContinueListed ==
    ASSUME TypeOK, Held, Kept, ListedHolds, NEW r \in Requests,
           Continue(r) \/ Abort(r), NEW q \in Requests
    PROVE  ListedFor(q)'
<1>. USE DEF db, menu, ghosts
<1>1. ListedFor(q)
  BY DEF ListedHolds, ListedFor
<1>2. CASE q = r
  <2>1. pc'[r] # "listed"
    <3>1. (\E from, races : Answered(r, from, races)) => pc'[r] # "listed"
      BY DEF Answered, Goto, TypeOK
    <3>2. CheckVariant(r) \/ LookForFeedback(r) \/ Answer(r) => pc'[r] # "listed"
      BY DEF CheckVariant, LookForFeedback, Answer, Goto, TypeOK
    <3>. QED  BY <3>1, <3>2, Finishes DEF Abort, Finish
  <2>. QED  BY <1>2, <2>1 DEF ListedFor
<1>3. CASE q # r
  <2>1. pc'[q] = pc[q] /\ user'[q] = user[q] /\ snap'[q] = snap[q]
    <3>1. (\E from, races : Answered(r, from, races))
             => pc'[q] = pc[q] /\ user'[q] = user[q] /\ snap'[q] = snap[q]
      BY <1>3, OthersKeepSnap
    <3>2. CheckVariant(r) \/ LookForFeedback(r) \/ Answer(r)
             => pc'[q] = pc[q] /\ user'[q] = user[q] /\ snap'[q] = snap[q]
      BY <1>3 DEF CheckVariant, LookForFeedback, Answer, Goto, TypeOK, local
    <3>. QED  BY <3>1, <3>2, Finishes DEF Abort, Finish
  <2>2. \A e \in offered : dishWs'[e] = dishWs[e]
    BY DEF Kept, TypeOK
  <2>3. CASE UpdateDish(r)
    <3>1. dish[r] \in Dishes
      BY <2>3, PCsMember DEF UpdateDish, Answered, Goto, Held, OnDish
    <3>2. Switch(dish[r]) \/ UNCHANGED <<offered, switched>>
      BY <2>3 DEF UpdateDish
    <3>3. pc[q] = "listed" => Noted(q)
      BY <2>1, <2>2, <3>1, <3>2, SwitchNoted DEF Noted
    <3>4. pc[q] # "listed" => ListedFor(q)'
      BY <2>1 DEF ListedFor
    <3>. QED  BY <1>1, <3>3, <3>4, NotedHolds
  <2>4. CASE ~UpdateDish(r)
    <3>1. UNCHANGED offered
      BY <2>4 DEF Continue, Abort, Conflict, InsertVariant, UpdateVariant, InsertRecipe,
         InsertRecipeFails, CheckVariant, RefuseVariant, InsertRecord, UpdateRecord,
         DeleteRecord, Upsert, LookForFeedback, InsertFeedback, UpdateFeedback, Rate,
         WriteFails, Answer, Deliver
    <3>2. switched'[q] = switched[q]
      <4>1. ASSUME NEW from, NEW races, Finish(r, from, races)
            PROVE  switched'[q] = switched[q]
        BY <1>3, <4>1 DEF Finish, TypeOK
      <4>2. CheckVariant(r) \/ LookForFeedback(r) \/ Answer(r) => switched'[q] = switched[q]
        BY <1>3 DEF CheckVariant, LookForFeedback, Answer, TypeOK
      <4>. QED
        BY <2>4, <4>1, <4>2 DEF Continue, Abort, Conflict, InsertVariant, UpdateVariant,
           InsertRecipe, InsertRecipeFails, RefuseVariant, InsertRecord, UpdateRecord,
           DeleteRecord, Upsert, InsertFeedback, UpdateFeedback, Rate, WriteFails, Deliver
    <3>3. Noted(q)
      BY <2>1, <2>2, <3>1, <3>2 DEF Noted, TypeOK
    <3>. QED  BY <1>1, <3>3, NotedHolds
  <2>. QED  BY <2>3, <2>4
<1>. QED  BY <1>2, <1>3

LEMMA NextListed == TypeOK /\ Held /\ ListedHolds /\ [Next]_vars => ListedHolds'
<1>. SUFFICES ASSUME TypeOK, Held, ListedHolds, [Next]_vars, NEW q \in Requests
              PROVE  ListedFor(q)'
  BY DEF ListedHolds, ListedFor
<1>1. CASE Tick \/ UNCHANGED vars
  <2>1. UNCHANGED <<pc, user, snap, switched, offered, dishWs>>
    BY <1>1 DEF Tick, vars, db, menu, local, ghosts
  <2>. QED  BY <2>1 DEF ListedHolds, ListedFor, OfferedIn, Of
<1>. QED  BY <1>1, NextKept, NextSplit, BeginListed, ContinueListed

(* The answer, in the state in which it is computed.                       *)
LEMMA AnswersHold ==
    ASSUME TypeOK, ListedHolds, NEW r \in Requests, Answer(r)
    PROVE  /\ offer'[r] \ switched[r] \subseteq OfferedIn(Of(r))
           /\ RecentAmong(offer'[r]) # {} =>
                 OfferedIn(Of(r)) \ switched[r] \subseteq RecentAmong(OfferedIn(Of(r)))
<1>1. snap[r] \ switched[r] = OfferedIn(Of(r)) \ switched[r]
  BY DEF ListedHolds, Answer, Goto
<1>2. offer'[r] \subseteq Candidates(snap[r]) /\ Candidates(snap[r]) \subseteq snap[r]
  BY AnswersAreCandidates DEF Candidates
<1>3. offer'[r] \ switched[r] \subseteq OfferedIn(Of(r))
  BY <1>1, <1>2
<1>4. ASSUME RecentAmong(offer'[r]) # {}
      PROVE  OfferedIn(Of(r)) \ switched[r] \subseteq RecentAmong(OfferedIn(Of(r)))
  <2>1. RecentAmong(snap[r]) = snap[r]
    BY <1>2, <1>4, RecentOfCandidates
  <2>. QED  BY <1>1, <2>1 DEF RecentAmong
<1>. QED  BY <1>3, <1>4

(* Whatever dishes are created or switched and whatever is cooked, eaten   *)
(* or deleted while a recommendation is computed, it is right for the      *)
(* tables as they are then, but for the dishes switched meanwhile.         *)
THEOREM RecentDishesAreLastResort == Spec => NoRecentWhileOthers
<1>1. Init => TypeOK /\ Held /\ ListedHolds
  BY InitHeld DEF Init, ListedHolds
<1>2. TypeOK /\ Held /\ ListedHolds /\ [Next]_vars => (TypeOK /\ Held /\ ListedHolds)'
  BY NextType, NextHeld, NextListed
<1>. DEFINE Right == \A r \in Requests :
          pc[r] = "listed" /\ pc'[r] = "answered" =>
              LET now == OfferedIn(Of(r))
              IN  /\ offer'[r] \ switched[r] \subseteq now
                  /\ RecentAmong(offer'[r]) # {} =>
                        now \ switched[r] \subseteq RecentAmong(now)
<1>3. TypeOK /\ ListedHolds /\ [Next]_vars => [Right]_vars
  BY OnlyAnswerAnswers, AnswersHold
<1>. QED  BY <1>1, <1>2, <1>3, PTL DEF Spec, NoRecentWhileOthers

(* The unique index leaves room for one row per record and user.           *)
LEMMA RowsFinite ==
    ASSUME NEW S \in SUBSET Rows, NEW w, NEW g,
           \A x \in S : x.ws = w /\ x.rating = g
    PROVE  IsFiniteSet(S) /\ Cardinality(S) \in Nat
<1>. DEFINE h == [x \in S |-> <<x.record, x.user>>]
<1>1. IsFiniteSet(Records \X Users)
  BY CatalogAssumption, FS_Product
<1>2. h \in [S -> Records \X Users]
  BY DEF Rows
<1>3. \A x, y \in S : x.record = y.record /\ x.user = y.user => x = y
  BY DEF Rows
<1>4. \A x, y \in S : h[x] = h[y] => x = y
  BY <1>3
<1>5. h \in Injection(S, Records \X Users)
  BY <1>2, <1>4 DEF Injection, IsInjective
<1>. HIDE DEF h
<1>. QED  BY <1>1, <1>5, FS_Injection, FS_CardinalityType

LEMMA RatedRows ==
    ASSUME TypeOK, NEW d \in Dishes, NEW g
    PROVE  /\ Rated(d, g) \in SUBSET Rows
           /\ \A x \in Rated(d, g) : x.ws = dishWs[d] /\ x.rating = g
BY DEF Rated, TypeOK

(* What one more good rating does to the ratings.                          *)
LEMMA PraisedRatings ==
    ASSUME TypeOK, TypeOK', Isolation, Isolation', NEW d \in Dishes, Praised(d)
    PROVE  /\ \A e \in Dishes, g \in Ratings : e # d => Rated(e, g)' = Rated(e, g)
           /\ Rated(d, "GOOD") \subseteq Rated(d, "GOOD")'
           /\ Rated(d, "BAD")' \subseteq Rated(d, "BAD")
<1>1. PICK f \in feedbacks' :
         /\ f.rating = "GOOD" /\ recordDish[f.record] = d
         /\ feedbacks' \ {f} =
               {g \in feedbacks : ~(g.record = f.record /\ g.user = f.user)}
  BY DEF Praised
<1>2. UNCHANGED <<dishWs, recordWs, recordDish>>
  BY DEF Praised, menu, meals
<1>3. \A x \in feedbacks : x.record = f.record /\ x.user = f.user /\ x.rating = "GOOD"
         => x = f
  <2>1. \A x \in feedbacks : x \in Rows /\ recordWs[x.record] = x.ws
    BY DEF TypeOK, Isolation
  <2>2. f \in Rows /\ recordWs[f.record] = f.ws
    BY <1>2 DEF TypeOK, Isolation
  <2>. QED  BY <1>1, <2>1, <2>2 DEF Rows
<1>4. ASSUME NEW e \in Dishes, NEW g \in Ratings, e # d
      PROVE  Rated(e, g)' = Rated(e, g)
  BY <1>1, <1>2, <1>4 DEF Rated
<1>5. Rated(d, "GOOD") \subseteq Rated(d, "GOOD")'
  BY <1>1, <1>2, <1>3 DEF Rated
<1>6. Rated(d, "BAD")' \subseteq Rated(d, "BAD")
  BY <1>1, <1>2 DEF Rated
<1>. QED  BY <1>4, <1>5, <1>6

LEMMA PraisedScores ==
    ASSUME TypeOK, TypeOK', Isolation, Isolation', NEW d \in Dishes, Praised(d)
    PROVE  /\ \A e \in Dishes : e # d => Score(e)' = Score(e)
           /\ \A e \in Dishes : Score(e) \in Int /\ Score(e)' \in Int
           /\ Score(d)' >= Score(d)
<1>1. \A e \in Dishes, g \in Ratings :
         IsFiniteSet(Rated(e, g)) /\ Cardinality(Rated(e, g)) \in Nat
  <2>. SUFFICES ASSUME NEW e \in Dishes, NEW g \in Ratings
                PROVE  IsFiniteSet(Rated(e, g)) /\ Cardinality(Rated(e, g)) \in Nat
    OBVIOUS
  <2>1. /\ Rated(e, g) \in SUBSET Rows
        /\ \A x \in Rated(e, g) : x.ws = dishWs[e] /\ x.rating = g
    BY RatedRows
  <2>. QED  BY <2>1, RowsFinite
<1>2. \A e \in Dishes, g \in Ratings :
         IsFiniteSet(Rated(e, g)') /\ Cardinality(Rated(e, g)') \in Nat
  <2>. SUFFICES ASSUME NEW e \in Dishes, NEW g \in Ratings
                PROVE  IsFiniteSet(Rated(e, g)') /\ Cardinality(Rated(e, g)') \in Nat
    OBVIOUS
  <2>1. /\ Rated(e, g)' \in SUBSET Rows
        /\ \A x \in Rated(e, g)' : x.ws = dishWs'[e] /\ x.rating = g
    BY DEF Rated, TypeOK
  <2>. QED  BY <2>1, RowsFinite
<1>3. "GOOD" \in Ratings /\ "BAD" \in Ratings
  BY DEF Ratings
<1>4. Cardinality(Rated(d, "GOOD")) <= Cardinality(Rated(d, "GOOD")')
  BY <1>2, <1>3, PraisedRatings, FS_Subset
<1>5. Cardinality(Rated(d, "BAD")') <= Cardinality(Rated(d, "BAD"))
  BY <1>1, <1>3, PraisedRatings, FS_Subset
<1>6. \A e \in Dishes : e # d => Score(e)' = Score(e)
  BY <1>3, PraisedRatings DEF Score
<1>7. \A e \in Dishes : Score(e) \in Int /\ Score(e)' \in Int
  BY <1>1, <1>2, <1>3 DEF Score
<1>8. Score(d)' >= Score(d)
  BY <1>1, <1>2, <1>3, <1>4, <1>5 DEF Score
<1>. QED  BY <1>6, <1>7, <1>8

LEMMA PraisedTops ==
    ASSUME TypeOK, TypeOK', Isolation, Isolation', NEW d \in Dishes, Praised(d),
           NEW w \in Workspaces, NEW T \in TopSets(Candidates(OfferedIn(w))), d \in T
    PROVE  T \in TopSets(Candidates(OfferedIn(w)))'
<1>. DEFINE S == Candidates(OfferedIn(w))
<1>1. S' = S
  BY DEF Praised, menu, meals, Candidates, RecentAmong, OfferedIn
<1>2. S \subseteq Dishes
  BY DEF Candidates, OfferedIn, TypeOK
<1>. HIDE DEF S
<1>3. /\ T \in SUBSET S
      /\ T = S \/ Cardinality(T) = Limit
      /\ Cardinality(T) <= Limit
      /\ \A a \in T, b \in S \ T : Score(a) >= Score(b)
  BY DEF TopSets, S
<1>4. \A a \in T, b \in S \ T : Score(a)' >= Score(b)'
  <2>. SUFFICES ASSUME NEW a \in T, NEW b \in S \ T PROVE Score(a)' >= Score(b)'
    OBVIOUS
  <2>1. a \in Dishes /\ b \in Dishes /\ b # d
    BY <1>2, <1>3
  <2>2. Score(b)' = Score(b)
    BY <2>1, PraisedScores
  <2>3. Score(a)' >= Score(a)
    BY <2>1, PraisedScores
  <2>4. Score(a) >= Score(b)
    BY <1>3
  <2>5. Score(a) \in Int /\ Score(a)' \in Int /\ Score(b) \in Int
    BY <2>1, PraisedScores
  <2>. QED  BY <2>2, <2>3, <2>4, <2>5
<1>5. T \in TopSets(S)'
  BY <1>1, <1>3, <1>4 DEF TopSets
<1>. QED  BY <1>5 DEF S

(* Praise never takes a dish out of the answers it could be in.            *)
THEOREM PraiseNeverHurts == Spec => GoodNeverHurts
<1>1. Init => TypeOK /\ Held /\ Isolation
  BY InitHeld, InitIsolation
<1>2. TypeOK /\ Held /\ Isolation /\ [Next]_vars => (TypeOK /\ Held /\ Isolation)'
  BY NextType, NextHeld, NextIsolation
<1>3. TypeOK /\ TypeOK' /\ Isolation /\ Isolation' =>
        [\A d \in Dishes, w \in Workspaces :
            Praised(d) =>
                \A T \in TopSets(Candidates(OfferedIn(w))) :
                    d \in T => T \in TopSets(Candidates(OfferedIn(w)))']_vars
  BY PraisedTops
<1>. QED  BY <1>1, <1>2, <1>3, PTL DEF Spec, GoodNeverHurts
=============================================================================
