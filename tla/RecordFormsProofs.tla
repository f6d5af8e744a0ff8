------------------------- MODULE RecordFormsProofs -------------------------
(***************************************************************************)
(* Proofs about RecordForms, for any number of dishes, forms, records on   *)
(* their way and changes by others: what is recorded is what was picked,   *)
(* its variant is listed, and one form makes one record.                   *)
(***************************************************************************)
EXTENDS RecordForms, TLAPS

USE DEF server, queries

Forms   == [dish : Maybe, variant : Maybe, text : Maybe, naming : BOOLEAN,
            meant : Maybe, astray : BOOLEAN, gone : BOOLEAN, made : Maybe, kept : Nat]
Fetches == [at : {"idle", "sent", "read"}, names : SUBSET Names]
Creates == [at : {"idle", "sent", "served"}, name : Maybe, mine : BOOLEAN]
Records == [at : {"idle", "sent", "served"}, dish : Maybe, variant : Maybe, mine : BOOLEAN]
Counts  == [forms : 0 .. MaxForms, sends : 0 .. MaxSends, changes : 0 .. MaxChanges]

(***************************************************************************)
(* The types, but for the bound on the records kept.                       *)
(***************************************************************************)
TypeInv ==
    /\ dishes \in [Names -> {"absent", "active", "inactive"}]
    /\ variants \subseteq Names /\ list \subseteq Names /\ loaded \in BOOLEAN
    /\ fetch \in Fetches
    /\ vlist \subseteq Names /\ vfetch \subseteq Names
    /\ host \in {"none", "manual", "panel"}
    /\ form \in Forms /\ create \in Creates
    /\ subs \in [Slots -> Records] /\ counts \in Counts

(***************************************************************************)
(* The form knows of one request of its own, which is on its way, and has  *)
(* kept a record exactly when the backend has made one that is not yet     *)
(* answered.                                                               *)
(***************************************************************************)
Own(s)    == subs[s].mine
Stored(s) == Own(s) /\ subs[s].at = "served"

SubInv ==
    /\ \A s \in Slots : Own(s) => subs[s].at # "idle" /\ host # "none"
    /\ \A s, t \in Slots : Own(s) /\ Own(t) => s = t
    /\ form.kept \in {0, 1}
    /\ form.kept = 1 <=> \E s \in Slots : Stored(s)
    /\ \A s \in Slots : subs[s].at # "idle" => counts.sends >= 1

(***************************************************************************)
(* The dish of the form is the one that was meant, or it is astray; a      *)
(* search never hides another one.                                         *)
(***************************************************************************)
DishInv ==
    /\ form.dish # NoName => form.dish = form.meant \/ form.astray
    /\ form.text # NoName => form.dish = NoName \/ form.astray

\* The variant of the form is one of its dish, and listed unless it has left.
VariantInv ==
    /\ form.variant \in {NoName, form.dish}
    /\ form.variant # NoName => form.dish \in vlist \/ form.gone

\* What was made is active, and in every answer that was read since.
MadeInv ==
    /\ create.mine => host = "manual"
    /\ form.made # NoName =>
          /\ dishes[form.made] = "active"
          /\ fetch.at = "read" => form.made \in fetch.names
          /\ fetch.at = "idle" => form.made \in list

(***************************************************************************)
(* The records of the initial state.                                       *)
(***************************************************************************)
LEMMA ConstantRecords ==
    /\ Blank \in Forms /\ Resting \in Fetches /\ Sent \in Fetches
    /\ NoCreate \in Creates /\ NoSub \in Records
<1>1. Blank \in Forms
  <2>1. FALSE \in BOOLEAN /\ NoName \in Maybe /\ 0 \in Nat
    BY DEF Maybe
  <2>. QED  BY Zenon, <2>1 DEF Blank, Forms
<1>2. Resting \in Fetches /\ Sent \in Fetches
  BY DEF Resting, Sent, Fetches
<1>3. NoCreate \in Creates
  BY DEF NoCreate, Creates, Maybe
<1>4. NoSub \in Records
  BY DEF NoSub, Records, Maybe
<1>. QED  BY <1>1, <1>2, <1>3, <1>4

LEMMA InitTypes == Init => TypeInv
<1>. SUFFICES ASSUME Init PROVE TypeInv
  OBVIOUS
<1>. USE ConstantRecords
<1>1. form \in Forms /\ fetch \in Fetches /\ create \in Creates
  BY DEF Init
<1>2. subs \in [Slots -> Records]
  BY DEF Init
<1>3. counts \in Counts
  BY FormsAssumption DEF Init, Counts
<1>4. loaded \in BOOLEAN
  BY Zenon DEF Init
<1>5. /\ dishes \in [Names -> {"absent", "active", "inactive"}]
      /\ variants \subseteq Names /\ list \subseteq Names
      /\ vlist \subseteq Names /\ vfetch \subseteq Names
      /\ host \in {"none", "manual", "panel"}
  BY DEF Init
<1>. QED  BY Zenon, <1>1, <1>2, <1>3, <1>4, <1>5 DEF TypeInv

(***************************************************************************)
(* The fields of a form.                                                   *)
(***************************************************************************)
LEMMA FormUpdates ==
    ASSUME NEW f \in Forms, NEW n \in Maybe, NEW b \in BOOLEAN, NEW k \in Nat
    PROVE  /\ [f EXCEPT !.made = NoName] \in Forms
           /\ [f EXCEPT !.gone = b] \in Forms
           /\ [f EXCEPT !.naming = b] \in Forms
           /\ [f EXCEPT !.meant = n] \in Forms
           /\ [f EXCEPT !.kept = k] \in Forms
           /\ [f EXCEPT !.variant = n, !.gone = FALSE] \in Forms
           /\ [f EXCEPT !.text = n, !.meant = NoName, !.astray = b] \in Forms
           /\ [f EXCEPT !.dish = n, !.variant = NoName, !.gone = FALSE] \in Forms
           /\ [f EXCEPT !.text = NoName, !.meant = n, !.astray = FALSE] \in Forms
           /\ [f EXCEPT !.dish = n, !.meant = n] \in Forms
BY DEF Forms, Maybe

LEMMA MadeUpdate ==
    ASSUME NEW f \in Forms, NEW n \in Maybe, NEW b \in BOOLEAN
    PROVE  [f EXCEPT !.text = NoName, !.naming = FALSE, !.astray = b, !.made = n] \in Forms
BY DEF Forms, Maybe

LEMMA AskTypes ==
    ASSUME TypeInv, NEW n
    PROVE  Ask \in Fetches /\ AskVariants(n) \subseteq Names
BY ConstantRecords DEF Ask, AskVariants, TypeInv

LEMMA TypedTypes ==
    ASSUME form \in Forms, NEW n \in Maybe
    PROVE  Typed(n) \in Forms
<1>. DEFINE f == IF Listed THEN Hold(NoName) ELSE form
            b == ~Listed /\ form.dish # NoName
<1>1. f \in Forms
  BY FormUpdates DEF Hold, Maybe
<1>2. b \in BOOLEAN
  BY Zenon
<1>3. Typed(n) = [f EXCEPT !.text = n, !.meant = NoName, !.astray = b]
  BY Zenon DEF Typed
<1>. HIDE DEF f, b
<1>4. [f EXCEPT !.text = n, !.meant = NoName, !.astray = b] \in Forms
  BY <1>1, <1>2, FormUpdates
<1>. QED  BY Zenon, <1>3, <1>4

(***************************************************************************)
(* The steps of the queries and of the fields.                             *)
(***************************************************************************)
QueryStep ==
    \/ ReadList \/ ListArrives \/ ListFails
    \/ \E n \in Names : VariantsArrive(n) \/ VariantsFail(n)

FieldStep ==
    \/ Offer \/ Shut
    \/ \E n \in Maybe : Type(n) \/ ChooseVariant(n)
    \/ \E n \in Names : Pick(n)

LEMMA QueryTypes == ASSUME TypeInv, QueryStep PROVE TypeInv'
<1>. USE ConstantRecords DEF TypeInv
<1>1. CASE ReadList
  <2>1. fetch' \in Fetches
    BY <1>1 DEF ReadList, Fetches
  <2>. QED  BY <1>1, <2>1 DEF ReadList
<1>2. CASE ListArrives
  <2>1. list' \subseteq Names
    BY <1>2 DEF ListArrives, Fetches
  <2>2. loaded' \in BOOLEAN
    BY Zenon, <1>2 DEF ListArrives
  <2>. QED  BY <1>2, <2>1, <2>2 DEF ListArrives
<1>3. CASE ListFails
  <2>1. form' \in Forms
    BY <1>3, FormUpdates DEF ListFails, Maybe
  <2>. QED  BY <1>3, <2>1 DEF ListFails
<1>4. ASSUME NEW n \in Names, VariantsArrive(n) PROVE TypeInv'
  <2>. DEFINE b == form.gone \/ (form.variant = n /\ n \notin variants)
  <2>1. b \in BOOLEAN
    BY Zenon
  <2>2. form' = [form EXCEPT !.gone = b]
    BY <1>4 DEF VariantsArrive
  <2>. HIDE DEF b
  <2>3. form' \in Forms
    BY Zenon, <2>1, <2>2, FormUpdates DEF Maybe
  <2>. QED  BY <1>4, <2>3 DEF VariantsArrive
<1>5. ASSUME NEW n \in Names, VariantsFail(n) PROVE TypeInv'
  BY <1>5 DEF VariantsFail
<1>. QED  BY <1>1, <1>2, <1>3, <1>4, <1>5 DEF QueryStep

LEMMA FieldTypes == ASSUME TypeInv, FieldStep PROVE TypeInv'
<1>. USE DEF TypeInv
<1>1. CASE Offer \/ Shut
  <2>1. form' \in Forms
    BY <1>1, FormUpdates DEF Offer, Shut, Maybe
  <2>. QED  BY <1>1, <2>1 DEF Offer, Shut
<1>2. ASSUME NEW n \in Maybe, Type(n) PROVE TypeInv'
  BY <1>2, TypedTypes DEF Type
<1>3. ASSUME NEW n \in Maybe, ChooseVariant(n) PROVE TypeInv'
  BY <1>3, FormUpdates DEF ChooseVariant
<1>4. ASSUME NEW n \in Names, Pick(n) PROVE TypeInv'
  <2>1. n \in Maybe
    BY DEF Maybe
  <2>2. Hold(n) \in Forms
    BY <2>1, FormUpdates DEF Hold
  <2>3. form' \in Forms
    BY Zenon, <1>4, <2>1, <2>2, FormUpdates DEF Pick
  <2>4. vfetch' \subseteq Names
    BY <1>4, AskTypes DEF Pick
  <2>. QED  BY <1>4, <2>3, <2>4 DEF Pick
<1>. QED  BY <1>1, <1>2, <1>3, <1>4 DEF FieldStep

(***************************************************************************)
(* The steps of a new dish, of a record, of the host and of others.        *)
(***************************************************************************)
DishStep   == MakeDish \/ ServeDish \/ DishMade \/ DishFails
RecordStep == \E s \in Slots : Submit(s) \/ ServeRecord(s) \/ RecordMade(s) \/ RecordFails(s)
HostStep   ==
    \/ OpenManual \/ Close
    \/ \E n \in Names : OpenPanel(n) \/ SwitchDish(n) \/ SwitchVariant(n)

\* What DishMade does to the form.
LEMMA DishMadeForm ==
    ASSUME TypeInv, DishMade, create.mine
    PROVE  /\ form' \in Forms
           /\ form'.dish = create.name /\ form'.variant = NoName
           /\ form'.text = NoName /\ form'.kept = form.kept
           /\ form'.astray = (form.meant # create.name) /\ form'.meant = form.meant
           /\ form'.made # NoName =>
                 /\ form'.made = create.name /\ dishes[create.name] = "active" /\ ~Joins
<1>. USE DEF TypeInv
<1>. DEFINE h == Hold(create.name)
            b == form.meant # create.name
            n == IF Joins \/ dishes[create.name] # "active" THEN NoName ELSE create.name
<1>1. create.name \in Maybe /\ n \in Maybe
  BY DEF Creates, Maybe
<1>2. h \in Forms /\ h.dish = create.name /\ h.variant = NoName
      /\ h.kept = form.kept /\ h.meant = form.meant
  BY <1>1, FormUpdates DEF Hold, Forms
<1>3. b \in BOOLEAN
  BY Zenon
<1>4. form' = [h EXCEPT !.text = NoName, !.naming = FALSE, !.astray = b, !.made = n]
  BY DEF DishMade
<1>5. n # NoName => n = create.name /\ dishes[create.name] = "active" /\ ~Joins
  OBVIOUS
<1>. HIDE DEF h, b, n
<1>6. form' \in Forms
  BY <1>1, <1>2, <1>3, <1>4, MadeUpdate
<1>7. /\ form'.text = NoName /\ form'.astray = b /\ form'.made = n
      /\ form'.dish = h.dish /\ form'.variant = h.variant /\ form'.kept = h.kept
      /\ form'.meant = h.meant
  BY <1>2, <1>4 DEF Forms
<1>. QED  BY Zenon, <1>2, <1>5, <1>6, <1>7 DEF b

LEMMA DishTypes == ASSUME TypeInv, DishStep PROVE TypeInv'
<1>. USE ConstantRecords DEF TypeInv
<1>1. CASE MakeDish
  <2>1. create' \in Creates
    BY <1>1 DEF MakeDish, Creates, Forms
  <2>2. form' \in Forms
    BY <1>1, FormUpdates DEF MakeDish, Forms
  <2>. QED  BY <1>1, <2>1, <2>2 DEF MakeDish
<1>2. CASE ServeDish
  <2>1. create' \in Creates
    BY <1>2 DEF ServeDish, Creates
  <2>. QED  BY <1>2, <2>1 DEF ServeDish
<1>3. CASE DishMade
  <2>1. form' \in Forms
    BY <1>3, DishMadeForm DEF DishMade
  <2>2. fetch' \in Fetches /\ vfetch' \subseteq Names
    BY <1>3, AskTypes DEF DishMade
  <2>3. create' \in Creates
    BY <1>3 DEF DishMade
  <2>. QED  BY <1>3, <2>1, <2>2, <2>3 DEF DishMade
<1>4. CASE DishFails
  BY <1>4 DEF DishFails
<1>. QED  BY <1>1, <1>2, <1>3, <1>4 DEF DishStep

\* A form that goes takes its requests with it.
LEMMA GoneTypes ==
    ASSUME TypeInv, Gone
    PROVE  host' = "none" /\ form' \in Forms /\ create' \in Creates
<1>1. create' \in Creates
  BY DEF Gone, TypeInv, Creates
<1>. QED  BY <1>1, ConstantRecords DEF Gone

LEMMA AbandonTypes ==
    ASSUME NEW q \in [Slots -> Records]
    PROVE  Abandon(q) \in [Slots -> Records]
<1>1. ASSUME NEW r \in Records PROVE [r EXCEPT !.mine = FALSE] \in Records
  BY DEF Records
<1>. QED  BY <1>1 DEF Abandon

LEMMA SentRecord ==
    ASSUME NEW d \in Maybe, NEW v \in Maybe
    PROVE  [at |-> "sent", dish |-> d, variant |-> v, mine |-> TRUE] \in Records
BY DEF Records

LEMMA RecordTypes == ASSUME TypeInv, SubInv, RecordStep PROVE TypeInv'
<1>. USE ConstantRecords, FormsAssumption DEF TypeInv
<1>1. ASSUME NEW s \in Slots, Submit(s) PROVE TypeInv'
  <2>1. form.dish \in Maybe /\ Chosen \in Maybe
    BY DEF Chosen, Forms, Maybe
  <2>2. subs' \in [Slots -> Records]
    BY <1>1, <2>1, SentRecord DEF Submit
  <2>3. counts' \in Counts
    BY <1>1 DEF Submit, Counts
  <2>. QED  BY <1>1, <2>2, <2>3 DEF Submit
<1>2. ASSUME NEW s \in Slots, ServeRecord(s) PROVE TypeInv'
  <2>1. subs' \in [Slots -> Records]
    BY <1>2 DEF ServeRecord, Records
  <2>2. form.kept + 1 \in Nat
    BY DEF Forms
  <2>3. form' \in Forms
    BY <1>2, <2>2, FormUpdates DEF ServeRecord, Maybe
  <2>. QED  BY <1>2, <2>1, <2>3 DEF ServeRecord
<1>3. ASSUME NEW s \in Slots, RecordMade(s) PROVE TypeInv'
  <2>1. fetch' \in Fetches
    BY <1>3, AskTypes DEF RecordMade
  <2>2. [subs EXCEPT ![s] = NoSub] \in [Slots -> Records]
    OBVIOUS
  <2>3. CASE subs[s].mine
    <3>1. Gone /\ subs' = Abandon([subs EXCEPT ![s] = NoSub])
      BY <1>3, <2>3 DEF RecordMade
    <3>2. subs' \in [Slots -> Records]
      BY <2>2, <3>1, AbandonTypes
    <3>. QED  BY <1>3, <2>1, <3>1, <3>2, GoneTypes DEF RecordMade
  <2>4. CASE ~subs[s].mine
    BY <1>3, <2>1, <2>2, <2>4 DEF RecordMade
  <2>. QED  BY <2>3, <2>4
<1>4. ASSUME NEW s \in Slots, RecordFails(s) PROVE TypeInv'
  <2>1. CASE Stored(s)
    <3>1. form.kept - 1 \in Nat
      BY <2>1 DEF SubInv
    <3>2. form' \in Forms
      BY <1>4, <2>1, <3>1, FormUpdates DEF RecordFails, Stored, Own, Maybe
    <3>. QED  BY <1>4, <3>2 DEF RecordFails
  <2>2. CASE ~Stored(s)
    <3>1. form' = form
      BY <1>4, <2>2 DEF RecordFails, Stored, Own
    <3>. QED  BY <1>4, <3>1 DEF RecordFails
  <2>. QED  BY <2>1, <2>2
<1>. QED  BY <1>1, <1>2, <1>3, <1>4 DEF RecordStep

LEMMA ChangeTypes ==
    ASSUME counts \in Counts, Change
    PROVE  counts' \in Counts
BY FormsAssumption DEF Change, Counts

LEMMA OpenTypes ==
    ASSUME TypeInv, NEW h \in {"manual", "panel"}, NEW n \in Maybe, Open(h, n)
    PROVE  TypeInv'
<1>. USE ConstantRecords, FormsAssumption DEF TypeInv
<1>1. form' \in Forms
  <2>1. [Blank EXCEPT !.dish = n, !.meant = n] \in Forms
    BY FormUpdates
  <2>. QED  BY <2>1 DEF Open
<1>2. fetch' \in Fetches /\ vfetch' \subseteq Names
  BY AskTypes DEF Open
<1>3. counts' \in Counts
  BY DEF Open, Counts
<1>. QED  BY <1>1, <1>2, <1>3 DEF Open

LEMMA HostTypes == ASSUME TypeInv, HostStep PROVE TypeInv'
<1>. USE DEF TypeInv
<1>1. CASE OpenManual
  BY <1>1, OpenTypes DEF OpenManual, Maybe
<1>2. CASE Close
  <2>1. subs' \in [Slots -> Records] /\ host' = "none"
        /\ form' \in Forms /\ create' \in Creates
    BY <1>2, GoneTypes, AbandonTypes DEF Close
  <2>. QED  BY <1>2, <2>1 DEF Close
<1>3. ASSUME NEW n \in Names, OpenPanel(n) PROVE TypeInv'
  BY <1>3, OpenTypes DEF OpenPanel, Maybe
<1>4. ASSUME NEW n \in Names, SwitchDish(n) PROVE TypeInv'
  <2>1. dishes' \in [Names -> {"absent", "active", "inactive"}]
    BY <1>4 DEF SwitchDish
  <2>2. form' \in Forms
    <3>1. [form EXCEPT !.made = NoName] \in Forms /\ [form EXCEPT !.made = form.made] \in Forms
      BY DEF Forms, Maybe
    <3>. QED  BY <1>4, <3>1 DEF SwitchDish
  <2>. QED  BY <1>4, <2>1, <2>2, ChangeTypes DEF SwitchDish
<1>5. ASSUME NEW n \in Names, SwitchVariant(n) PROVE TypeInv'
  BY <1>5, ChangeTypes DEF SwitchVariant
<1>. QED  BY <1>1, <1>2, <1>3, <1>4, <1>5 DEF HostStep

LEMMA NextSteps ==
    [Next]_vars => QueryStep \/ FieldStep \/ DishStep \/ RecordStep \/ HostStep
                   \/ UNCHANGED vars
BY DEF Next, QueryStep, FieldStep, DishStep, RecordStep, HostStep

LEMMA NextTypes == TypeInv /\ SubInv /\ [Next]_vars => TypeInv'
<1>1. TypeInv /\ UNCHANGED vars => TypeInv'
  BY DEF TypeInv, vars
<1>. QED
  BY <1>1, NextSteps, QueryTypes, FieldTypes, DishTypes, RecordTypes, HostTypes

(***************************************************************************)
(* The requests of a form.                                                 *)
(***************************************************************************)
LEMMA InitSubs == Init => SubInv
BY DEF Init, SubInv, Own, Stored, NoSub, Blank

\* A form that goes has no request left.
LEMMA GoneSubs ==
    ASSUME NEW q \in [Slots -> Records], Gone, subs' = Abandon(q), counts' = counts,
           \A s \in Slots : q[s].at # "idle" => counts.sends >= 1
    PROVE  SubInv'
<1>1. \A s \in Slots : subs'[s].mine = FALSE /\ subs'[s].at = q[s].at
  BY DEF Abandon, Records
<1>2. form'.kept = 0
  BY DEF Gone, Blank
<1>. QED  BY <1>1, <1>2 DEF SubInv, Own, Stored

\* What the other steps leave alone.
SameSubs ==
    /\ UNCHANGED <<subs, counts>> /\ form'.kept = form.kept
    /\ host' = host

LEMMA SameSubsKeep == SubInv /\ SameSubs => SubInv'
BY DEF SubInv, SameSubs, Own, Stored

LEMMA TypedFields ==
    ASSUME form \in Forms, NEW n \in Maybe
    PROVE  /\ Typed(n).kept = form.kept /\ Typed(n).made = form.made
           /\ Typed(n).text = n /\ Typed(n).meant = NoName
           /\ Typed(n).dish = IF Listed THEN NoName ELSE form.dish
           /\ Typed(n).variant = IF Listed THEN NoName ELSE form.variant
           /\ Typed(n).gone = IF Listed THEN FALSE ELSE form.gone
           /\ ~Listed /\ form.dish # NoName => Typed(n).astray
<1>1. CASE Listed
  BY <1>1 DEF Typed, Hold, Forms
<1>2. CASE ~Listed
  BY <1>2 DEF Typed, Hold, Forms
<1>. QED  BY <1>1, <1>2

LEMMA QuietSubs ==
    ASSUME TypeInv, QueryStep \/ FieldStep \/ DishStep
    PROVE  SameSubs
<1>. USE DEF TypeInv, SameSubs
<1>1. CASE QueryStep
  BY <1>1 DEF QueryStep, ReadList, ListArrives, ListFails, VariantsArrive,
              VariantsFail, Forms
<1>2. CASE FieldStep
  <2>1. ASSUME NEW n \in Maybe, Type(n) PROVE SameSubs
    BY <2>1, TypedFields DEF Type
  <2>2. CASE Offer \/ Shut \/ (\E n \in Maybe : ChooseVariant(n))
             \/ (\E n \in Names : Pick(n))
    BY <2>2 DEF Offer, Shut, ChooseVariant, Pick, Hold, Forms
  <2>. QED  BY <1>2, <2>1, <2>2 DEF FieldStep
<1>3. CASE DishStep
  <2>1. CASE DishMade
    BY <2>1, DishMadeForm DEF DishMade
  <2>2. CASE MakeDish \/ ServeDish \/ DishFails
    BY <2>2 DEF MakeDish, ServeDish, DishFails, Forms
  <2>. QED  BY <1>3, <2>1, <2>2 DEF DishStep
<1>. QED  BY <1>1, <1>2, <1>3

LEMMA RecordSubs == ASSUME TypeInv, SubInv, RecordStep PROVE SubInv'
<1>. USE DEF TypeInv
<1>1. ASSUME NEW s \in Slots, Submit(s) PROVE SubInv'
  <2>1. /\ \A t \in Slots : ~Own(t)
        /\ host # "none" /\ UNCHANGED <<host, form>>
        /\ counts'.sends = counts.sends + 1
    BY <1>1 DEF Submit, Submitting, SubInv, Own, Counts
  <2>2. /\ subs'[s].at = "sent" /\ subs'[s].mine
        /\ \A t \in Slots : t # s => subs'[t] = subs[t]
    BY <1>1 DEF Submit
  <2>3. form.kept = 0
    BY <2>1 DEF SubInv, Stored
  <2>4. counts.sends \in Nat
    BY FormsAssumption DEF Counts
  <2>. QED  BY <2>1, <2>2, <2>3, <2>4 DEF SubInv, Own, Stored
<1>2. ASSUME NEW s \in Slots, ServeRecord(s) PROVE SubInv'
  <2>1. /\ subs'[s].at = "served" /\ subs'[s].mine = subs[s].mine
        /\ \A t \in Slots : t # s => subs'[t] = subs[t]
        /\ UNCHANGED <<host, counts>> /\ subs[s].at = "sent"
    BY <1>2 DEF ServeRecord, Records
  <2>2. CASE Own(s)
    <3>1. form'.kept = form.kept + 1
      BY <1>2, <2>2 DEF ServeRecord, Own, Forms
    <3>2. form.kept = 0
      BY <2>1, <2>2 DEF SubInv, Stored
    <3>3. form'.kept = 1 /\ Stored(s)'
      BY <2>1, <2>2, <3>1, <3>2 DEF Stored, Own
    <3>4. \A t \in Slots : Own(t)' <=> Own(t)
      BY <2>1 DEF Own
    <3>5. \A t \in Slots : subs'[t].at # "idle" => subs[t].at # "idle"
      BY <2>1
    <3>. QED  BY <2>1, <3>3, <3>4, <3>5 DEF SubInv, Own
  <2>3. CASE ~Own(s)
    <3>1. form' = form
      BY <1>2, <2>3 DEF ServeRecord, Own
    <3>. QED  BY <2>1, <2>3, <3>1 DEF SubInv, Own, Stored
  <2>. QED  BY <2>2, <2>3
<1>3. ASSUME NEW s \in Slots, RecordMade(s) PROVE SubInv'
  <2>. DEFINE q == [subs EXCEPT ![s] = NoSub]
  <2>1. CASE subs[s].mine
    <3>1. q \in [Slots -> Records]
      BY ConstantRecords
    <3>2. \A t \in Slots : q[t].at # "idle" => counts.sends >= 1
      BY DEF SubInv, NoSub
    <3>3. Gone /\ subs' = Abandon(q) /\ counts' = counts
      BY <1>3, <2>1 DEF RecordMade
    <3>. QED  BY <3>1, <3>2, <3>3, GoneSubs
  <2>2. CASE ~subs[s].mine
    <3>1. subs' = q /\ UNCHANGED <<host, form, counts>>
      BY <1>3, <2>2 DEF RecordMade
    <3>2. q[s] = NoSub /\ \A t \in Slots : t # s => q[t] = subs[t]
      OBVIOUS
    <3>. QED  BY <2>2, <3>1, <3>2 DEF SubInv, Own, Stored, NoSub
  <2>. QED  BY <2>1, <2>2
<1>4. ASSUME NEW s \in Slots, RecordFails(s) PROVE SubInv'
  <2>1. /\ subs'[s] = NoSub /\ UNCHANGED <<host, counts>>
        /\ \A t \in Slots : t # s => subs'[t] = subs[t]
    BY <1>4 DEF RecordFails
  <2>2. CASE Stored(s)
    <3>1. form'.kept = form.kept - 1
      BY <1>4, <2>2 DEF RecordFails, Stored, Own, Forms
    <3>2. form.kept = 1
      BY <2>2 DEF SubInv
    <3>. QED  BY <2>1, <2>2, <3>1, <3>2 DEF SubInv, Own, Stored, NoSub
  <2>3. CASE ~Stored(s)
    <3>1. form' = form
      BY <1>4, <2>3 DEF RecordFails, Stored, Own
    <3>. QED  BY <2>1, <2>3, <3>1 DEF SubInv, Own, Stored, NoSub
  <2>. QED  BY <2>2, <2>3
<1>. QED  BY <1>1, <1>2, <1>3, <1>4 DEF RecordStep

LEMMA HostSubs == ASSUME TypeInv, SubInv, HostStep PROVE SubInv'
<1>. USE DEF TypeInv
<1>1. ASSUME NEW h \in {"manual", "panel"}, NEW n, Open(h, n) PROVE SubInv'
  <2>1. /\ \A s \in Slots : ~Own(s)
        /\ subs' = subs /\ counts'.sends = counts.sends /\ form'.kept = 0
    BY <1>1 DEF Open, SubInv, Counts, Blank
  <2>. QED  BY <2>1 DEF SubInv, Own, Stored
<1>2. CASE Close
  BY <1>2, GoneSubs DEF Close, SubInv
<1>3. ASSUME NEW n \in Names, SwitchDish(n) \/ SwitchVariant(n) PROVE SubInv'
  <2>1. UNCHANGED <<subs, host>> /\ form'.kept = form.kept
        /\ counts'.sends = counts.sends
    BY <1>3 DEF SwitchDish, SwitchVariant, Change, Forms, Counts
  <2>. QED  BY <2>1 DEF SubInv, Own, Stored
<1>. QED  BY <1>1, <1>2, <1>3 DEF HostStep, OpenManual, OpenPanel

LEMMA NextSubs == TypeInv /\ SubInv /\ [Next]_vars => SubInv'
<1>1. SubInv /\ UNCHANGED vars => SubInv'
  BY DEF SubInv, vars, Own, Stored
<1>. QED  BY <1>1, NextSteps, QuietSubs, SameSubsKeep, RecordSubs, HostSubs

(***************************************************************************)
(* The dish and the variant of the form.                                   *)
(***************************************************************************)
FieldInv == DishInv /\ VariantInv

LEMMA InitFields == Init => FieldInv
BY DEF Init, FieldInv, DishInv, VariantInv, Blank

\* Steps that leave the fields alone.
SameFields ==
    /\ form'.dish = form.dish /\ form'.text = form.text /\ form'.meant = form.meant
    /\ form'.astray = form.astray /\ form'.variant = form.variant
    /\ form'.gone = form.gone /\ vlist' = vlist

LEMMA SameFieldsKeep == FieldInv /\ SameFields => FieldInv'
BY DEF FieldInv, DishInv, VariantInv, SameFields

LEMMA BlankFields == form' = Blank => FieldInv'
BY DEF Blank, FieldInv, DishInv, VariantInv

LEMMA QueryFields == ASSUME TypeInv, FieldInv, QueryStep PROVE FieldInv'
<1>. USE DEF TypeInv
<1>1. CASE ReadList \/ ListArrives \/ ListFails
           \/ (\E n \in Names : VariantsFail(n))
  <2>1. SameFields
    BY <1>1 DEF ReadList, ListArrives, ListFails, VariantsFail, SameFields, Forms
  <2>. QED  BY <2>1, SameFieldsKeep
<1>2. ASSUME NEW n \in Names, VariantsArrive(n) PROVE FieldInv'
  <2>1. DishInv'
    BY <1>2 DEF VariantsArrive, FieldInv, DishInv, Forms
  <2>2. /\ form'.variant = form.variant /\ form'.dish = form.dish
        /\ form'.gone = (form.gone \/ (form.variant = n /\ n \notin variants))
    BY <1>2 DEF VariantsArrive, Forms
  <2>3. form.dish # n => (form.dish \in vlist => form.dish \in vlist')
    BY <1>2 DEF VariantsArrive
  <2>4. n \in variants => n \in vlist'
    BY <1>2 DEF VariantsArrive
  <2>5. VariantInv'
    BY Zenon, <2>2, <2>3, <2>4 DEF FieldInv, VariantInv
  <2>. QED  BY <2>1, <2>5 DEF FieldInv
<1>. QED  BY <1>1, <1>2 DEF QueryStep

LEMMA FieldFields == ASSUME TypeInv, FieldInv, FieldStep PROVE FieldInv'
<1>. USE DEF TypeInv
<1>1. CASE Offer \/ Shut
  <2>1. SameFields
    BY <1>1 DEF Offer, Shut, SameFields, Forms
  <2>. QED  BY <2>1, SameFieldsKeep
<1>2. ASSUME NEW n \in Maybe, Type(n) PROVE FieldInv'
  <2>1. form' = Typed(n) /\ vlist' = vlist
    BY <1>2 DEF Type
  <2>2. CASE Listed
    BY <2>1, <2>2, TypedFields DEF FieldInv, DishInv, VariantInv
  <2>3. CASE ~Listed
    BY <2>1, <2>3, TypedFields DEF FieldInv, DishInv, VariantInv
  <2>. QED  BY <2>2, <2>3
<1>3. ASSUME NEW n \in Maybe, ChooseVariant(n) PROVE FieldInv'
  BY <1>3 DEF ChooseVariant, FieldInv, DishInv, VariantInv, Forms
<1>4. ASSUME NEW n \in Names, Pick(n) PROVE FieldInv'
  <2>1. /\ form'.dish = n /\ form'.meant = n /\ form'.text = NoName
        /\ form'.variant = NoName
    BY <1>4 DEF Pick, Hold, Forms
  <2>. QED  BY <2>1 DEF FieldInv, DishInv, VariantInv
<1>. QED  BY <1>1, <1>2, <1>3, <1>4 DEF FieldStep

LEMMA DishFields == ASSUME TypeInv, FieldInv, DishStep PROVE FieldInv'
<1>. USE DEF TypeInv
<1>1. CASE MakeDish
  BY <1>1 DEF MakeDish, FieldInv, DishInv, VariantInv, Forms
<1>2. CASE ServeDish \/ DishFails \/ (DishMade /\ ~create.mine)
  <2>1. SameFields
    BY <1>2 DEF ServeDish, DishFails, DishMade, SameFields
  <2>. QED  BY <2>1, SameFieldsKeep
<1>3. CASE DishMade /\ create.mine
  <2>1. /\ form'.dish = create.name /\ form'.variant = NoName
        /\ form'.text = NoName /\ form'.meant = form.meant
        /\ form'.astray = (form.meant # create.name)
    BY <1>3, DishMadeForm
  <2>2. form'.dish = form'.meant \/ form'.astray
    BY Zenon, <2>1
  <2>. QED  BY <2>1, <2>2 DEF FieldInv, DishInv, VariantInv
<1>. QED  BY <1>1, <1>2, <1>3 DEF DishStep

LEMMA OtherFields == ASSUME TypeInv, FieldInv, RecordStep \/ HostStep PROVE FieldInv'
<1>. USE DEF TypeInv
<1>1. CASE RecordStep
  <2>1. SameFields \/ form' = Blank
    BY <1>1 DEF RecordStep, Submit, ServeRecord, RecordMade, RecordFails, Gone,
                SameFields, Forms
  <2>. QED  BY <2>1, SameFieldsKeep, BlankFields
<1>2. ASSUME NEW h \in {"manual", "panel"}, NEW n \in Maybe, Open(h, n) PROVE FieldInv'
  BY <1>2, BlankFields DEF Open, Blank, FieldInv, DishInv, VariantInv
<1>3. CASE Close
  BY <1>3, BlankFields DEF Close, Gone
<1>4. ASSUME NEW n \in Names, SwitchDish(n) \/ SwitchVariant(n) PROVE FieldInv'
  <2>1. SameFields
    BY <1>4 DEF SwitchDish, SwitchVariant, SameFields, Forms
  <2>. QED  BY <2>1, SameFieldsKeep
<1>. QED  BY <1>1, <1>2, <1>3, <1>4 DEF HostStep, OpenManual, OpenPanel, Maybe

LEMMA NextFields == TypeInv /\ FieldInv /\ [Next]_vars => FieldInv'
<1>1. FieldInv /\ UNCHANGED vars => FieldInv'
  BY DEF FieldInv, DishInv, VariantInv, vars
<1>. QED  BY <1>1, NextSteps, QueryFields, FieldFields, DishFields, OtherFields

(***************************************************************************)
(* The dish that was made.                                                 *)
(***************************************************************************)
LEMMA InitMade == Init => MadeInv
BY DEF Init, MadeInv, NoCreate, Blank

\* A new fetch is at its start, where the list has nothing to show yet.
LEMMA AskKeeps ==
    ASSUME fetch' = Ask, dishes' = dishes, list' = list, form'.made = form.made, MadeInv
    PROVE  form'.made # NoName =>
              /\ dishes'[form'.made] = "active"
              /\ fetch'.at = "read" => form'.made \in fetch'.names
              /\ fetch'.at = "idle" => form'.made \in list'
BY DEF Ask, Sent, MadeInv

SameMade ==
    /\ UNCHANGED <<dishes, list, fetch, host>> /\ form'.made = form.made
    /\ create'.mine => create.mine

LEMMA SameMadeKeep == MadeInv /\ SameMade => MadeInv'
BY DEF MadeInv, SameMade

LEMMA QueryMade == ASSUME TypeInv, MadeInv, QueryStep PROVE MadeInv'
<1>. USE DEF TypeInv
<1>1. CASE ReadList
  <2>1. form.made # NoName => form.made \in Names
    BY DEF Forms, Maybe
  <2>. QED  BY <1>1, <2>1 DEF ReadList, MadeInv
<1>2. CASE ListArrives
  BY <1>2 DEF ListArrives, MadeInv, Resting
<1>3. CASE ListFails
  BY <1>3 DEF ListFails, MadeInv, Forms
<1>4. ASSUME NEW n \in Names, VariantsArrive(n) \/ VariantsFail(n) PROVE MadeInv'
  <2>1. SameMade
    BY <1>4 DEF VariantsArrive, VariantsFail, SameMade, Forms
  <2>. QED  BY <2>1, SameMadeKeep
<1>. QED  BY <1>1, <1>2, <1>3, <1>4 DEF QueryStep

LEMMA FieldMade == ASSUME TypeInv, MadeInv, FieldStep PROVE MadeInv'
<1>. USE DEF TypeInv
<1>1. ASSUME NEW n \in Maybe, Type(n) PROVE SameMade
  BY <1>1, TypedFields DEF Type, SameMade
<1>2. CASE Offer \/ Shut \/ (\E n \in Maybe : ChooseVariant(n)) \/ (\E n \in Names : Pick(n))
  <2>1. SameMade
    BY <1>2 DEF Offer, Shut, ChooseVariant, Pick, Hold, SameMade, Forms
  <2>. QED  BY <2>1, SameMadeKeep
<1>. QED  BY <1>1, <1>2, SameMadeKeep DEF FieldStep

LEMMA DishStepMade == ASSUME TypeInv, MadeInv, DishStep PROVE MadeInv'
<1>. USE DEF TypeInv
<1>1. CASE MakeDish
  BY <1>1 DEF MakeDish, MadeInv, Forms
<1>2. CASE ServeDish
  <2>1. create'.mine = create.mine
    BY <1>2 DEF ServeDish, Creates
  <2>2. form.made # NoName => dishes'[form.made] = dishes[form.made]
    BY <1>2 DEF ServeDish, MadeInv
  <2>. QED  BY <1>2, <2>1, <2>2 DEF ServeDish, MadeInv
<1>3. CASE DishMade
  <2>1. ~create'.mine /\ UNCHANGED <<dishes, list>>
    BY <1>3 DEF DishMade, NoCreate
  <2>2. CASE create.mine
    <3>1. fetch' = Ask
      BY <1>3, <2>2 DEF DishMade, MadeInv
    <3>2. form'.made # NoName =>
             /\ form'.made = create.name /\ dishes[create.name] = "active" /\ ~Joins
      BY <1>3, <2>2, DishMadeForm
    <3>3. ~Joins => fetch'.at = "sent"
      BY <3>1 DEF Ask, Sent
    <3>. QED  BY <2>1, <3>2, <3>3 DEF MadeInv
  <2>3. CASE ~create.mine
    <3>1. form' = form /\ fetch' \in {fetch, Ask}
      BY <1>3, <2>3 DEF DishMade
    <3>. QED  BY <2>1, <3>1, AskKeeps DEF MadeInv
  <2>. QED  BY <2>2, <2>3
<1>4. CASE DishFails
  BY <1>4 DEF DishFails, MadeInv, NoCreate
<1>. QED  BY <1>1, <1>2, <1>3, <1>4 DEF DishStep

LEMMA GoneMade == Gone /\ TypeInv => form'.made = NoName /\ ~create'.mine
BY DEF Gone, Blank, TypeInv, Creates

LEMMA RecordStepMade == ASSUME TypeInv, MadeInv, RecordStep PROVE MadeInv'
<1>. USE DEF TypeInv
<1>1. ASSUME NEW s \in Slots, Submit(s) \/ ServeRecord(s) \/ RecordFails(s) PROVE MadeInv'
  <2>1. SameMade
    BY <1>1 DEF Submit, ServeRecord, RecordFails, SameMade, Forms
  <2>. QED  BY <2>1, SameMadeKeep
<1>2. ASSUME NEW s \in Slots, RecordMade(s) PROVE MadeInv'
  <2>1. CASE subs[s].mine
    BY <1>2, <2>1, GoneMade DEF RecordMade, MadeInv
  <2>2. CASE ~subs[s].mine
    <3>1. UNCHANGED <<host, form, create, dishes, list>> /\ fetch' \in {fetch, Ask}
      BY <1>2, <2>2 DEF RecordMade
    <3>. QED  BY <3>1, AskKeeps DEF MadeInv
  <2>. QED  BY <2>1, <2>2
<1>. QED  BY <1>1, <1>2 DEF RecordStep

LEMMA HostStepMade == ASSUME TypeInv, MadeInv, HostStep PROVE MadeInv'
<1>. USE DEF TypeInv
<1>1. ASSUME NEW h \in {"manual", "panel"}, NEW n, Open(h, n) PROVE MadeInv'
  BY <1>1 DEF Open, MadeInv, Blank
<1>2. CASE Close
  BY <1>2, GoneMade DEF Close, MadeInv
<1>3. ASSUME NEW n \in Names, SwitchDish(n) PROVE MadeInv'
  <2>1. /\ form'.made = IF form.made = n THEN NoName ELSE form.made
        /\ UNCHANGED <<host, create, list, fetch>>
    BY <1>3 DEF SwitchDish, Forms
  <2>2. form.made # n => dishes'[form.made] = dishes[form.made]
    BY <1>3 DEF SwitchDish
  <2>. QED  BY <2>1, <2>2 DEF MadeInv
<1>4. ASSUME NEW n \in Names, SwitchVariant(n) PROVE MadeInv'
  BY <1>4 DEF SwitchVariant, MadeInv
<1>. QED  BY <1>1, <1>2, <1>3, <1>4 DEF HostStep, OpenManual, OpenPanel

LEMMA NextMade == TypeInv /\ MadeInv /\ [Next]_vars => MadeInv'
<1>1. MadeInv /\ UNCHANGED vars => MadeInv'
  BY DEF MadeInv, vars
<1>. QED
  BY <1>1, NextSteps, QueryMade, FieldMade, DishStepMade, RecordStepMade, HostStepMade

(***************************************************************************)
(* The inductive invariant.                                                *)
(***************************************************************************)
FormInv == TypeInv /\ SubInv /\ FieldInv /\ MadeInv

LEMMA FormInvariant == Spec => []FormInv
<1>1. Init => FormInv
  BY InitTypes, InitSubs, InitFields, InitMade DEF FormInv
<1>2. FormInv /\ [Next]_vars => FormInv'
  BY NextTypes, NextSubs, NextFields, NextMade DEF FormInv
<1>. QED  BY <1>1, <1>2, PTL DEF Spec

LEMMA FormTypes == FormInv => TypeOK
<1>. SUFFICES ASSUME FormInv PROVE TypeOK
  OBVIOUS
<1>. USE DEF FormInv, TypeInv
<1>1. form.kept \in 0 .. MaxSends
  <2>1. form.kept = 0 \/ (form.kept = 1 /\ counts.sends >= 1)
    BY DEF SubInv, Stored
  <2>2. counts.sends \in 0 .. MaxSends
    BY DEF Counts
  <2>. QED  BY <2>1, <2>2, FormsAssumption
<1>2. form \in [dish : Maybe, variant : Maybe, text : Maybe, naming : BOOLEAN,
                meant : Maybe, astray : BOOLEAN,
                gone : BOOLEAN, made : Maybe, kept : 0 .. MaxSends]
  BY <1>1 DEF Forms
<1>3. form.variant \in {NoName, form.dish}
  BY DEF FieldInv, VariantInv
<1>4. loaded \in BOOLEAN
  OBVIOUS
<1>. QED
  BY Zenon, <1>2, <1>3, <1>4 DEF TypeOK, Fetches, Creates, Records, Counts

(***************************************************************************)
(* Whatever is picked, typed, answered late or switched off by others: the *)
(* fields fit each other, a dish made in the form gets into its list       *)
(* (useCreateDish), and one form makes one record.                         *)
(***************************************************************************)
THEOREM FormsAreConsistent == Spec => []FormConsistent
<1>1. FormInv => CreatedIsListed
  BY DEF FormInv, MadeInv, CreatedIsListed
<1>2. FormInv => OncePerForm
  BY DEF FormInv, SubInv, OncePerForm
<1>3. FormInv => FormConsistent
  BY <1>1, <1>2, FormTypes DEF FormConsistent
<1>. QED  BY <1>3, FormInvariant, PTL

(***************************************************************************)
(* The steps that send a record.                                           *)
(***************************************************************************)
LEMMA OnlySubmitSends ==
    ASSUME FormInv, [Next]_vars, NEW s \in Slots, Sends(s)
    PROVE  /\ host # "none" /\ form.dish # NoName
           /\ subs'[s].dish = form.dish /\ subs'[s].variant = Chosen
<1>. USE DEF FormInv, TypeInv, Sends
<1>1. RecordStep
  <2>1. UNCHANGED subs => FALSE
    OBVIOUS
  <2>2. CASE QueryStep \/ FieldStep \/ DishStep
    BY <2>1, <2>2, QuietSubs DEF SameSubs
  <2>3. CASE HostStep
    <3>1. CASE Close
      BY <3>1 DEF Close, Abandon, Records
    <3>2. CASE ~Close
      BY <2>1, <2>3, <3>2 DEF HostStep, OpenManual, OpenPanel, Open, SwitchDish,
                              SwitchVariant
    <3>. QED  BY <3>1, <3>2
  <2>4. CASE UNCHANGED vars
    BY <2>1, <2>4 DEF vars
  <2>. QED  BY <2>2, <2>3, <2>4, NextSteps
<1>2. PICK t \in Slots : Submit(t) \/ ServeRecord(t) \/ RecordMade(t) \/ RecordFails(t)
  BY <1>1 DEF RecordStep
<1>3. CASE Submit(t)
  BY <1>3 DEF Submit
<1>4. CASE ServeRecord(t) \/ RecordFails(t)
  BY <1>4 DEF ServeRecord, RecordFails, NoSub, Records
<1>5. CASE RecordMade(t)
  <2>1. subs' = [subs EXCEPT ![t] = NoSub] \/ subs' = Abandon([subs EXCEPT ![t] = NoSub])
    BY <1>5 DEF RecordMade
  <2>2. [subs EXCEPT ![t] = NoSub] \in [Slots -> Records]
    BY ConstantRecords
  <2>. QED  BY <2>1, <2>2 DEF Abandon, Records, NoSub
<1>. QED  BY <1>2, <1>3, <1>4, <1>5

(***************************************************************************)
(* What is recorded is the dish last picked, or made, and not typed over,  *)
(* but for the two cases the code leaves open (dish-autocomplete.tsx:74    *)
(* and 142).                                                               *)
(***************************************************************************)
THEOREM WhatWasPickedIsRecorded == Spec => RecordsWhatWasPicked
<1>1. ASSUME FormInv, [Next]_vars, NEW s \in Slots, Sends(s)
      PROVE  subs'[s].dish = form.meant \/ form.astray
  <2>1. form.dish # NoName /\ subs'[s].dish = form.dish
    BY <1>1, OnlySubmitSends
  <2>. QED  BY <1>1, <2>1 DEF FormInv, FieldInv, DishInv
<1>2. FormInv /\ [Next]_vars =>
         [\A s \in Slots : Sends(s) =>
             subs'[s].dish = form.meant \/ form.astray]_vars
  BY <1>1
<1>. QED  BY <1>2, FormInvariant, PTL DEF RecordsWhatWasPicked, Spec

(***************************************************************************)
(* The dialog of a dish never sends a variant that is not among the active *)
(* ones it has; the form of the history only one that was there when it    *)
(* was chosen.                                                             *)
(***************************************************************************)
THEOREM VariantsSentAreListed == Spec => SendsListedVariant
<1>1. ASSUME FormInv, [Next]_vars, NEW s \in Slots, Sends(s),
             subs'[s].variant # NoName
      PROVE  form.dish \in vlist \/ (host = "manual" /\ form.gone)
  <2>1. host # "none" /\ Chosen # NoName
    BY <1>1, OnlySubmitSends
  <2>2. CASE form.dish \notin vlist
    <3>1. host = "manual" /\ form.variant # NoName
      BY <1>1, <2>1, <2>2 DEF Chosen, FormInv, TypeInv
    <3>. QED  BY <1>1, <2>2, <3>1 DEF FormInv, FieldInv, VariantInv
  <2>. QED  BY <2>2
<1>2. FormInv /\ [Next]_vars =>
         [\A s \in Slots : Sends(s) /\ subs'[s].variant # NoName =>
             form.dish \in vlist \/ (host = "manual" /\ form.gone)]_vars
  BY <1>1
<1>. QED  BY <1>2, FormInvariant, PTL DEF SendsListedVariant, Spec

(***************************************************************************)
(* An answer closes the form it belongs to and no other: the callbacks of  *)
(* the form before were dropped with it.                                   *)
(***************************************************************************)
THEOREM FormsCloseByTheirOwnRecord == Spec => ClosedByOwnRecord
<1>1. ASSUME FormInv, [Next]_vars, NEW s \in Slots,
             subs[s].at = "served", subs'[s].at = "idle",
             host # "none", host' = "none"
      PROVE  form.kept > 0
  <2>. USE DEF FormInv, TypeInv
  <2>1. CASE QueryStep \/ FieldStep \/ DishStep
    BY <1>1, <2>1, QuietSubs DEF SameSubs
  <2>2. CASE HostStep
    <3>1. CASE Close
      BY <1>1, <3>1 DEF Close, Abandon, Records
    <3>2. CASE ~Close
      BY <1>1, <2>2, <3>2 DEF HostStep, OpenManual, OpenPanel, Open, SwitchDish,
                              SwitchVariant
    <3>. QED  BY <3>1, <3>2
  <2>3. ASSUME NEW t \in Slots, RecordMade(t) PROVE form.kept > 0
    <3>1. Stored(t)
      BY <1>1, <2>3 DEF RecordMade, Stored, Own
    <3>2. form.kept = 1
      BY <1>1, <3>1 DEF SubInv
    <3>. QED  BY <3>2
  <2>4. CASE RecordStep
    BY <1>1, <2>3, <2>4 DEF RecordStep, Submit, ServeRecord, RecordFails
  <2>5. CASE UNCHANGED vars
    BY <1>1, <2>5 DEF vars
  <2>. QED  BY <1>1, <2>1, <2>2, <2>4, <2>5, NextSteps
<1>2. FormInv /\ [Next]_vars =>
         [\A s \in Slots :
             subs[s].at = "served" /\ subs'[s].at = "idle" /\ host # "none" /\ host' = "none"
                => form.kept > 0]_vars
  BY <1>1
<1>. QED  BY <1>2, FormInvariant, PTL DEF ClosedByOwnRecord, Spec
=============================================================================
