----------------------------- MODULE HomeProofs -----------------------------
(***************************************************************************)
(* Proofs about Home: what is recommended knows every change the page was  *)
(* told of, and the dialogs keep the lock of the page, for any number of   *)
(* changes.  Then about two parts of the page, each from its own module:   *)
(* the upload of the images (the steps of Upload, as Photo) and the        *)
(* history panel (those of History, as Past), whose invariants are in      *)
(* UploadState and HistoryState.                                           *)
(***************************************************************************)
EXTENDS Home, UploadState, HistoryState, FiniteSetTheorems, SequenceTheorems, TLAPS

Mutations == [at : {"idle", "sent", "served", "done", "failed"},
              seen : 0 .. MaxChanges, item : BOOLEAN]
ChangesOfUser   == [at : {"idle", "sent", "served"}, from : Sources,
              ver : 0 .. MaxChanges, alive : BOOLEAN]

(***************************************************************************)
(* An answer is fresh from the moment it is computed, and not only when it *)
(* is on the screen; no change is told of before it is committed.          *)
(***************************************************************************)
FreshInv ==
    /\ muts \in [Buttons -> Mutations] /\ change \in ChangesOfUser
    /\ commits \in 0 .. MaxChanges /\ told \in 0 .. commits
    /\ change.ver <= commits
    /\ \A m \in Buttons : muts[m].at \in {"served", "done"} => muts[m].seen >= told

LEMMA ZeroChanges == 0 \in 0 .. MaxChanges
BY HomeAssumption

LEMMA IdleIsFresh == Idle \in Mutations /\ NoChange \in ChangesOfUser
<1>1. Idle \in Mutations
  BY Zenon, ZeroChanges DEF Idle, Mutations
<1>2. NoChange \in ChangesOfUser
  BY Zenon, ZeroChanges DEF NoChange, ChangesOfUser, Sources
<1>. QED  BY <1>1, <1>2

LEMMA InitFresh == Init => FreshInv
<1>. SUFFICES ASSUME Init PROVE FreshInv
  OBVIOUS
<1>1. /\ muts \in [Buttons -> Mutations] /\ change \in ChangesOfUser
      /\ \A m \in Buttons : muts[m] = Idle
  BY IdleIsFresh DEF Init
<1>2. commits = 0 /\ told = 0 /\ change.ver = 0
  BY DEF Init, NoChange
<1>3. Idle.at \notin {"served", "done"}
  BY DEF Idle
<1>4. commits \in 0 .. MaxChanges /\ told \in 0 .. commits /\ change.ver <= commits
  BY <1>2, ZeroChanges
<1>. QED  BY <1>1, <1>3, <1>4 DEF FreshInv

(***************************************************************************)
(* The steps of the recommendations.                                       *)
(***************************************************************************)
\* One mutation becomes a record that is fresh if it is an answer.
LEMMA OneMutation ==
    ASSUME FreshInv, NEW m \in Buttons, NEW r \in Mutations,
           r.at \in {"served", "done"} => r.seen >= told,
           muts' = [muts EXCEPT ![m] = r],
           UNCHANGED <<change, commits, told>>
    PROVE  FreshInv'
BY DEF FreshInv

LEMMA ButtonStep ==
    ASSUME FreshInv, NEW m \in Buttons, Click(m) \/ Serve(m) \/ Answer(m) \/ Fails(m)
    PROVE  FreshInv'
<1>. muts[m] \in Mutations
  BY DEF FreshInv
<1>1. CASE Click(m)
  <2>1. [Idle EXCEPT !.at = "sent"] \in Mutations
    BY IdleIsFresh DEF Idle, Mutations
  <2>. QED  BY <1>1, <2>1, OneMutation DEF Click, Idle
<1>2. CASE Serve(m)
  <2>1. PICK item \in BOOLEAN :
           muts' = [muts EXCEPT ![m] = [at |-> "served", seen |-> commits,
                                        item |-> (item /\ m = "box")]]
    BY <1>2 DEF Serve
  <2>. DEFINE r == [at |-> "served", seen |-> commits, item |-> (item /\ m = "box")]
  <2>2. (item /\ m = "box") \in BOOLEAN
    BY Zenon
  <2>3. commits \in 0 .. MaxChanges /\ commits >= told
    BY DEF FreshInv
  <2>4. r \in Mutations
    BY Zenon, <2>2, <2>3 DEF Mutations
  <2>5. r.at \in {"served", "done"} => r.seen >= told
    BY <2>3
  <2>6. UNCHANGED <<change, commits, told>>
    BY <1>2 DEF Serve
  <2>. HIDE DEF r
  <2>. QED  BY <2>1, <2>4, <2>5, <2>6, OneMutation DEF r
<1>3. CASE Answer(m)
  <2>1. [muts[m] EXCEPT !.at = "done"] \in Mutations
    BY DEF Mutations
  <2>2. muts[m].seen >= told
    BY <1>3 DEF Answer, FreshInv
  <2>3. muts' = [muts EXCEPT ![m] = [muts[m] EXCEPT !.at = "done"]]
    BY <1>3 DEF Answer
  <2>. QED  BY <1>3, <2>1, <2>2, <2>3, OneMutation DEF Answer, Mutations
<1>4. CASE Fails(m)
  <2>1. [Idle EXCEPT !.at = "failed"] \in Mutations
    BY IdleIsFresh DEF Idle, Mutations
  <2>. QED  BY <1>4, <2>1, OneMutation DEF Fails, Idle
<1>. QED  BY <1>1, <1>2, <1>3, <1>4

(***************************************************************************)
(* The steps of the dialogs: they drop answers, and callbacks.             *)
(***************************************************************************)
LEMMA DropKeeps ==
    ASSUME FreshInv, NEW froms, Drop(froms)
    PROVE  change' \in ChangesOfUser /\ change'.ver = change.ver
<1>1. (change.alive /\ change.from \notin froms) \in BOOLEAN
  BY Zenon DEF FreshInv, ChangesOfUser
<1>. DEFINE b == change.alive /\ change.from \notin froms
<1>2. change' = [change EXCEPT !.alive = b]
  BY DEF Drop
<1>. HIDE DEF b
<1>. QED  BY <1>1, <1>2 DEF FreshInv, ChangesOfUser, b

\* Only the box is emptied, and a callback dropped.
DialogStep ==
    /\ muts' \in {muts, [muts EXCEPT !["box"] = Idle]}
    /\ change' \in ChangesOfUser /\ change'.ver = change.ver
    /\ UNCHANGED <<commits, told>>

LEMMA DialogKeeps == FreshInv /\ DialogStep => FreshInv'
<1>. SUFFICES ASSUME FreshInv, DialogStep PROVE FreshInv'
  OBVIOUS
<1>1. muts' \in [Buttons -> Mutations]
  BY IdleIsFresh DEF DialogStep, FreshInv
<1>2. \A m \in Buttons : muts'[m] = muts[m] \/ muts'[m] = Idle
  BY DEF DialogStep, FreshInv, Buttons
<1>. QED  BY <1>1, <1>2 DEF DialogStep, FreshInv, Idle

LEMMA DialogSteps ==
    ASSUME FreshInv,
           \/ \E t \in Tabs : SwitchTab(t)
           \/ \E k \in Panels : OpenPanel(k)
           \/ ClosePanel \/ OpenPrompt \/ OpenPreview
           \/ \E d \in Dialogs : Close(d)
           \/ CloseBox \/ Escape \/ CardGoes
           \/ \E k \in {"record", "recipe"} : FromBox(k)
    PROVE  DialogStep
<1>. change \in ChangesOfUser
  BY DEF FreshInv
<1>1. CASE \E t \in Tabs : SwitchTab(t)
  BY <1>1, DropKeeps DEF SwitchTab, DialogStep
<1>2. CASE \E k \in Panels : OpenPanel(k)
  BY <1>2, DropKeeps DEF OpenPanel, DialogStep
<1>3. CASE ClosePanel
  BY <1>3, DropKeeps DEF ClosePanel, DialogStep
<1>4. CASE OpenPrompt \/ OpenPreview
  BY <1>4 DEF OpenPrompt, OpenPreview, DialogStep
<1>5. CASE \E d \in Dialogs : Close(d)
  BY <1>5 DEF Close, DialogStep
<1>6. CASE CloseBox
  BY <1>6 DEF CloseBox, DialogStep
<1>7. CASE Escape
  <2>1. change' \in ChangesOfUser /\ change'.ver = change.ver
    BY <1>7, DropKeeps DEF Escape
  <2>. QED  BY <1>7, <2>1 DEF Escape, DialogStep
<1>8. CASE CardGoes
  BY <1>8, DropKeeps DEF CardGoes, DialogStep
<1>9. CASE \E k \in {"record", "recipe"} : FromBox(k)
  <2>1. change' \in ChangesOfUser /\ change'.ver = change.ver
    BY <1>9, DropKeeps DEF FromBox
  <2>. QED  BY <1>9, <2>1 DEF FromBox, DialogStep
<1>. QED  BY <1>1, <1>2, <1>3, <1>4, <1>5, <1>6, <1>7, <1>8, <1>9

(***************************************************************************)
(* The steps of a change.                                                  *)
(***************************************************************************)
LEMMA ChangeStep ==
    ASSUME FreshInv,
           \/ \E from \in Sources : StartChange(from)
           \/ ServeChange \/ AnswerChange \/ ChangeFails
    PROVE  FreshInv'
<1>1. CASE \E from \in Sources : StartChange(from)
  <2>1. PICK from \in Sources : StartChange(from)
    BY <1>1
  <2>2. change' = [at |-> "sent", from |-> from, ver |-> 0, alive |-> TRUE]
    BY <2>1 DEF StartChange
  <2>3. change' \in ChangesOfUser
    BY Zenon, <2>2, ZeroChanges DEF ChangesOfUser
  <2>. QED  BY <2>1, <2>2, <2>3 DEF StartChange, FreshInv
<1>2. CASE ServeChange
  <2>. commits \in 0 .. MaxChanges /\ change \in ChangesOfUser
    BY DEF FreshInv
  <2>1. change' = [change EXCEPT !.at = "served", !.ver = commits + 1]
    BY <1>2 DEF ServeChange
  <2>2. commits + 1 \in 0 .. MaxChanges /\ commits' = commits + 1
    BY <1>2, HomeAssumption DEF ServeChange
  <2>3. change' \in ChangesOfUser /\ change'.ver = commits + 1
    <3>. DEFINE v == commits + 1
    <3>1. v \in 0 .. MaxChanges /\ change' = [change EXCEPT !.at = "served", !.ver = v]
      BY <2>1, <2>2
    <3>2. change \in ChangesOfUser => [change EXCEPT !.at = "served", !.ver = v] \in ChangesOfUser
      <4>. HIDE DEF v
      <4>. QED  BY <3>1 DEF ChangesOfUser
    <3>. QED  BY <3>1, <3>2 DEF ChangesOfUser
  <2>. QED  BY <1>2, <2>2, <2>3 DEF ServeChange, FreshInv
<1>3. CASE AnswerChange
  <2>1. CASE change.alive
    <3>1. /\ told' = change.ver /\ muts' = [m \in Buttons |-> Idle]
          /\ change' = NoChange /\ commits' = commits
      BY <1>3, <2>1 DEF AnswerChange, Reset
    <3>2. change.ver \in 0 .. commits
      BY DEF FreshInv, ChangesOfUser
    <3>. QED  BY <3>1, <3>2, IdleIsFresh DEF FreshInv, Idle, NoChange
  <2>2. CASE ~change.alive
    <3>1. UNCHANGED <<told, muts, commits>> /\ change' = NoChange
      BY <1>3, <2>2 DEF AnswerChange
    <3>. QED  BY <3>1, IdleIsFresh DEF FreshInv, NoChange
  <2>. QED  BY <2>1, <2>2
<1>4. CASE ChangeFails
  BY <1>4, IdleIsFresh DEF ChangeFails, FreshInv, NoChange
<1>. QED  BY <1>1, <1>2, <1>3, <1>4

LEMMA NextFresh == FreshInv /\ [Next]_vars => FreshInv'
<1>. SUFFICES ASSUME FreshInv, [Next]_vars PROVE FreshInv'
  OBVIOUS
<1>1. CASE \E m \in Buttons : Click(m) \/ Serve(m) \/ Answer(m) \/ Fails(m)
  BY <1>1, ButtonStep
<1>2. CASE \/ \E t \in Tabs : SwitchTab(t)
           \/ \E k \in Panels : OpenPanel(k)
           \/ ClosePanel \/ OpenPrompt \/ OpenPreview
           \/ \E d \in Dialogs : Close(d)
           \/ CloseBox \/ Escape \/ CardGoes
           \/ \E k \in {"record", "recipe"} : FromBox(k)
  BY <1>2, DialogSteps, DialogKeeps
<1>3. CASE \/ \E from \in Sources : StartChange(from)
           \/ ServeChange \/ AnswerChange \/ ChangeFails
  BY <1>3, ChangeStep
<1>4. CASE UNCHANGED vars
  BY <1>4 DEF vars, FreshInv
<1>. QED  BY <1>1, <1>2, <1>3, <1>4 DEF Next

(***************************************************************************)
(* However many changes are made, and whenever a request is computed and   *)
(* answered, what is recommended and what the blind box holds were         *)
(* computed after the last change the page was told of                     *)
(* (resetRecommendationState).                                             *)
(***************************************************************************)
THEOREM RecommendationsAreFresh == Spec => []FreshRecommendations
<1>1. FreshInv => FreshRecommendations
  BY DEF FreshInv, FreshRecommendations
<1>. QED  BY <1>1, InitFresh, NextFresh, PTL DEF Spec

-----------------------------------------------------------------------------
(***************************************************************************)
(* The lock.  While no dialog has been closed under one that stays, the    *)
(* dialogs that were opened over others have saved the lock, and while no  *)
(* two were closed together, one that lies over none has saved the style   *)
(* of a free page: so the clean-ups of a render restore what its rest      *)
(* needs.                                                                  *)
(***************************************************************************)
Records == [open : BOOLEAN, under : SUBSET Dialogs, saved : Overflow]

LocksInv ==
    /\ stack \in [Dialogs -> Records] /\ overflow \in Overflow
    /\ together \in BOOLEAN /\ bared \in BOOLEAN
    /\ \A d \in Open : stack[d].under \subseteq Open \ {d}
    /\ \A d, e \in Open : d # e => (Below(d, e) <=> ~Below(e, d))
    /\ stack["preview"].under = {}
    /\ ~bared => /\ ~Uncovered => overflow = "hidden"
                 /\ \A d \in Open : stack[d].under # {} => stack[d].saved = "hidden"
    /\ ~together => /\ Uncovered => overflow = Unset
                    /\ \A d \in Open : stack[d].under = {} => stack[d].saved = Unset

(***************************************************************************)
(* The dialogs are those of the state they are rendered from; the prompt   *)
(* of a gallery lies over its panel, and goes with it.                     *)
(***************************************************************************)
ShownInv ==
    /\ tab \in Tabs /\ panel \in Panels \cup {"none"} /\ boxOpen \in BOOLEAN
    /\ "panel" \in Open <=> panel # "none"
    /\ "inner" \in Open => panel = "images" /\ Below("panel", "inner")
    /\ "box" \in Open <=> boxOpen /\ muts["box"].at = "done" /\ muts["box"].item
    /\ muts["recommend"].item = FALSE

\* One of the clean-ups is the last.
LEMMA CleanUpsOfOne ==
    ASSUME LocksInv, NEW C
    PROVE  /\ C \cap Open = {} => CleanUps(C) = overflow
           /\ C \cap Open # {} => \E d \in C \cap Open : CleanUps(C) = stack[d].saved
<1>. DEFINE closed == C \cap Open
<1>1. CASE closed = {}
  BY <1>1 DEF CleanUps
<1>2. CASE closed # {}
  <2>1. closed \subseteq Dialogs
    BY DEF Open
  <2>2. /\ Rank["panel"] = 1 /\ Rank["inner"] = 2 /\ Rank["box"] = 3
        /\ Rank["prompt"] = 4 /\ Rank["preview"] = 4
    BY DEF Rank, Dialogs
  <2>3. \E d \in closed : \A e \in closed : Rank[e] <= Rank[d]
    <3>. HIDE DEF closed
    <3>1. CASE "prompt" \in closed
      BY <2>1, <2>2, <3>1 DEF Dialogs
    <3>2. CASE "preview" \in closed
      BY <2>1, <2>2, <3>2 DEF Dialogs
    <3>3. CASE "prompt" \notin closed /\ "preview" \notin closed /\ "box" \in closed
      BY <2>1, <2>2, <3>3 DEF Dialogs
    <3>4. CASE closed \subseteq {"panel", "inner"} /\ "inner" \in closed
      BY <2>1, <2>2, <3>4
    <3>5. CASE closed = {"panel"}
      BY <2>2, <3>5
    <3>. QED  BY <1>2, <2>1, <3>1, <3>2, <3>3, <3>4, <3>5 DEF Dialogs
  <2>. DEFINE last == CHOOSE d \in closed : \A e \in closed : Rank[e] <= Rank[d]
  <2>4. last \in closed
    BY <2>3
  <2>5. CleanUps(C) = stack[last].saved
    BY <1>2 DEF CleanUps
  <2>. QED  BY <1>2, <2>4, <2>5
<1>. QED  BY <1>1, <1>2

\* What the clean-ups of a render leave, by what stays open.
LEMMA CleanUpsDue ==
    ASSUME LocksInv, NEW C, NEW D, Render(C, D)
    PROVE  /\ CleanUps(C) \in Overflow
           /\ ~bared' /\ Open \ C # {} => CleanUps(C) = "hidden"
           /\ ~together' /\ Open \ C = {} => CleanUps(C) = Unset
<1>. Open \subseteq Dialogs
  BY DEF Open
<1>1. CASE C \cap Open = {}
  <2>1. CleanUps(C) = overflow
    BY <1>1, CleanUpsOfOne
  <2>2. Open \ C = Open
    BY <1>1
  <2>. QED  BY <2>1, <2>2 DEF LocksInv, Render, Uncovered
<1>2. CASE C \cap Open # {}
  <2>1. PICK d \in C \cap Open : CleanUps(C) = stack[d].saved
    BY <1>2, CleanUpsOfOne
  <2>2. CleanUps(C) \in Overflow
    BY <2>1 DEF LocksInv, Records
  <2>3. ASSUME ~bared', Open \ C # {} PROVE CleanUps(C) = "hidden"
    <3>1. ~bared /\ \A e \in Open \ C : ~Below(d, e)
      BY <2>1, <2>3 DEF Render
    <3>2. PICK e \in Open \ C : TRUE
      BY <2>3
    <3>3. Below(e, d)
      BY <3>1, <3>2 DEF LocksInv
    <3>. QED  BY <2>1, <3>1, <3>3 DEF LocksInv, Below
  <2>4. ASSUME ~together', Open \ C = {} PROVE CleanUps(C) = Unset
    <3>1. ~together /\ \A e \in Open : Top(e)
      BY <2>4 DEF Render
    <3>2. stack[d].under = {}
      BY <3>1, <2>1 DEF Top, LocksInv, Below
    <3>. QED  BY <2>1, <3>1, <3>2 DEF LocksInv
  <2>. QED  BY <2>2, <2>3, <2>4
<1>. QED  BY <1>1, <1>2

\* What a render may add: one dialog that is not open, and the preview only over
\* nothing.
Fits(C, D) ==
    /\ D \subseteq Dialogs /\ \A d, e \in D : d = e
    /\ D \cap (Open \ C) = {}
    /\ "preview" \in D => Open \ C = {}

LEMMA LockFields ==
    ASSUME NEW d, NEW under, NEW style
    PROVE  /\ Lock(d, under, style).open
           /\ Lock(d, under, style).under = under
           /\ Lock(d, under, style).saved = IF d = "preview" THEN Unset ELSE style
<1>. DEFINE saved == IF d = "preview" THEN Unset ELSE style
            r     == [open |-> TRUE, under |-> under, saved |-> saved]
<1>1. Lock(d, under, style) = r
  BY DEF Lock
<1>2. r.open /\ r.under = under /\ r.saved = saved
  <2>. HIDE DEF saved
  <2>. QED  OBVIOUS
<1>. HIDE DEF r
<1>. QED  BY <1>1, <1>2

LEMMA LessUnder ==
    ASSUME NEW r \in Records, NEW C
    PROVE  /\ [r EXCEPT !.under = @ \ C] \in Records
           /\ [r EXCEPT !.under = @ \ C].open = r.open
           /\ [r EXCEPT !.under = @ \ C].under = r.under \ C
           /\ [r EXCEPT !.under = @ \ C].saved = r.saved
BY DEF Records

LEMMA RenderShape ==
    ASSUME LocksInv, NEW C, NEW D, Render(C, D), Fits(C, D)
    PROVE  /\ Open' = (Open \ C) \cup D
           /\ \A d \in Open \ C : stack'[d] = [stack[d] EXCEPT !.under = @ \ C]
           /\ \A d \in D : stack'[d] = Lock(d, Open \ C, CleanUps(C))
           /\ \A d \in Dialogs \ Open' : stack'[d] = Closed
<1>1. \A d \in Dialogs : stack'[d] =
          CASE d \in D               -> Lock(d, Open \ C, CleanUps(C))
            [] d \in (Open \ C) \ D -> [stack[d] EXCEPT !.under = @ \ C]
            [] OTHER                -> Closed
  BY DEF Render
<1>2. Open \subseteq Dialogs /\ D \subseteq Dialogs /\ D \cap (Open \ C) = {}
  BY DEF Open, Fits
<1>3. /\ \A d \in D : stack'[d] = Lock(d, Open \ C, CleanUps(C))
      /\ \A d \in Open \ C : stack'[d] = [stack[d] EXCEPT !.under = @ \ C]
      /\ \A d \in Dialogs : d \notin D /\ d \notin Open \ C => stack'[d] = Closed
  BY <1>1, <1>2
<1>4. \A d \in D : stack'[d].open
  <2>. SUFFICES ASSUME NEW d \in D PROVE stack'[d].open
    OBVIOUS
  <2>1. Lock(d, Open \ C, CleanUps(C)).open
    BY LockFields, Zenon
  <2>2. stack'[d] = Lock(d, Open \ C, CleanUps(C))
    BY <1>3
  <2>. QED  BY <2>1, <2>2, Zenon
<1>5. \A d \in Open \ C : stack'[d].open
  <2>. SUFFICES ASSUME NEW d \in Open \ C PROVE stack'[d].open
    OBVIOUS
  <2>1. stack[d] \in Records /\ stack[d].open
    BY DEF Open, LocksInv
  <2>2. [stack[d] EXCEPT !.under = @ \ C].open = stack[d].open
    BY <2>1, LessUnder
  <2>3. stack'[d] = [stack[d] EXCEPT !.under = @ \ C]
    BY <1>3
  <2>. QED  BY <2>1, <2>2, <2>3, Zenon
<1>6. \A d \in Dialogs : d \notin D /\ d \notin Open \ C => ~stack'[d].open
  BY <1>3 DEF Closed
<1>7. Open' = (Open \ C) \cup D
  BY <1>2, <1>4, <1>5, <1>6 DEF Open
<1>. QED  BY <1>3, <1>7

\* The same, field by field.
LEMMA RenderFields ==
    ASSUME LocksInv, NEW C, NEW D, Render(C, D), Fits(C, D)
    PROVE  /\ Open' = (Open \ C) \cup D
           /\ stack' \in [Dialogs -> Records]
           /\ \A d \in Open \ C : /\ stack'[d].under = stack[d].under \ C
                                  /\ stack'[d].saved = stack[d].saved
           /\ \A d \in D : /\ stack'[d].under = Open \ C
                           /\ d # "preview" => stack'[d].saved = CleanUps(C)
                           /\ d = "preview" => stack'[d].saved = Unset
           /\ \A d \in Dialogs \ Open' : stack'[d].under = {}
<1>1. /\ Open' = (Open \ C) \cup D
      /\ \A d \in Open \ C : stack'[d] = [stack[d] EXCEPT !.under = @ \ C]
      /\ \A d \in D : stack'[d] = Lock(d, Open \ C, CleanUps(C))
      /\ \A d \in Dialogs \ Open' : stack'[d] = Closed
  BY RenderShape
<1>2. ASSUME NEW d \in Open \ C
      PROVE  /\ stack'[d] \in Records
             /\ stack'[d].under = stack[d].under \ C
             /\ stack'[d].saved = stack[d].saved
  <2>1. stack[d] \in Records
    BY DEF Open, LocksInv
  <2>2. /\ [stack[d] EXCEPT !.under = @ \ C] \in Records
        /\ [stack[d] EXCEPT !.under = @ \ C].under = stack[d].under \ C
        /\ [stack[d] EXCEPT !.under = @ \ C].saved = stack[d].saved
    BY <2>1, LessUnder
  <2>3. stack'[d] = [stack[d] EXCEPT !.under = @ \ C]
    BY <1>1
  <2>. QED  BY <2>2, <2>3, Zenon
<1>3. ASSUME NEW d \in D
      PROVE  /\ stack'[d] \in Records
             /\ stack'[d].under = Open \ C
             /\ d # "preview" => stack'[d].saved = CleanUps(C)
             /\ d = "preview" => stack'[d].saved = Unset
  <2>. DEFINE r == Lock(d, Open \ C, CleanUps(C))
              s == IF d = "preview" THEN Unset ELSE CleanUps(C)
  <2>1. r.open /\ r.under = Open \ C /\ r.saved = s
    BY LockFields
  <2>2. stack'[d] = r
    BY <1>1
  <2>3. s \in Overflow /\ Open \ C \in SUBSET Dialogs
    BY CleanUpsDue DEF Overflow, Open
  <2>4. r \in Records
    <3>1. r = [open |-> TRUE, under |-> Open \ C, saved |-> s]
      BY Zenon DEF Lock
    <3>. HIDE DEF r, s
    <3>. QED  BY <2>3, <3>1 DEF Records
  <2>5. r.saved = s
    BY <2>1
  <2>. HIDE DEF r
  <2>. QED  BY <2>1, <2>2, <2>4
<1>4. ASSUME NEW d \in Dialogs \ Open'
      PROVE  stack'[d] \in Records /\ stack'[d].under = {}
  <2>1. Closed \in Records /\ Closed.under = {}
    <3>. Unset \in Overflow
      BY DEF Overflow
    <3>. QED  BY DEF Closed, Records
  <2>. QED  BY <1>1, <2>1
<1>5. stack' \in [Dialogs -> Records]
  <2>1. \A d \in Dialogs : stack'[d] \in Records
    BY <1>1, <1>2, <1>3, <1>4
  <2>2. stack' = [d \in Dialogs |-> stack'[d]]
    BY DEF Render
  <2>. QED  BY <2>1, <2>2
<1>. QED  BY <1>1, <1>2, <1>3, <1>4, <1>5

(***************************************************************************)
(* Every render keeps the invariant, whatever goes and whatever comes.     *)
(***************************************************************************)
LEMMA RenderKeeps ==
    ASSUME LocksInv, NEW C, NEW D, Render(C, D), Fits(C, D)
    PROVE  LocksInv'
<1>. DEFINE rest == Open \ C
<1>1. /\ Open' = rest \cup D
      /\ stack' \in [Dialogs -> Records]
      /\ \A d \in rest : /\ stack'[d].under = stack[d].under \ C
                         /\ stack'[d].saved = stack[d].saved
      /\ \A d \in D : /\ stack'[d].under = rest
                      /\ d # "preview" => stack'[d].saved = CleanUps(C)
                      /\ d = "preview" => stack'[d].saved = Unset
      /\ \A d \in Dialogs \ Open' : stack'[d].under = {}
  BY RenderFields
<1>2. /\ CleanUps(C) \in Overflow
      /\ ~bared' /\ rest # {} => CleanUps(C) = "hidden"
      /\ ~together' /\ rest = {} => CleanUps(C) = Unset
  BY CleanUpsDue
<1>3. /\ overflow' = IF D = {} THEN CleanUps(C) ELSE "hidden"
      /\ together' = (together \/ \E d \in C \cap Open : ~Top(d))
      /\ bared' = (bared \/ \E d \in C \cap Open, e \in rest : Below(d, e))
  BY DEF Render
<1>4. /\ D \subseteq Dialogs /\ \A d, e \in D : d = e
      /\ D \cap rest = {} /\ rest \subseteq Open /\ Open \subseteq Dialogs
      /\ "preview" \in D => rest = {}
      /\ \A d \in Open : d \notin C => d \in rest
      /\ \A d \in rest : d \notin C
  BY DEF Fits, Open
<1>. HIDE DEF rest
<1>5. overflow' \in Overflow /\ together' \in BOOLEAN /\ bared' \in BOOLEAN
  BY <1>2, <1>3 DEF LocksInv, Overflow
<1>. stack \in [Dialogs -> Records]
  BY DEF LocksInv
<1>6. \A d \in Open' : stack'[d].under \subseteq Open' \ {d}
  <2>. SUFFICES ASSUME NEW d \in Open', NEW e \in stack'[d].under
                PROVE  e \in Open' /\ e # d
    OBVIOUS
  <2>1. CASE d \in rest
    <3>1. e \in stack[d].under /\ e \notin C
      BY <1>1, <2>1
    <3>2. e \in Open /\ e # d
      BY <1>4, <2>1, <3>1 DEF LocksInv
    <3>. QED  BY <1>1, <1>4, <3>1, <3>2
  <2>2. CASE d \in D
    BY <1>1, <1>4, <2>2
  <2>. QED  BY <1>1, <2>1, <2>2
<1>7. \A d, e \in Open' : d # e => (Below(d, e)' <=> ~Below(e, d)')
  <2>. SUFFICES ASSUME NEW d \in Open', NEW e \in Open', d # e
                PROVE  d \in stack'[e].under <=> ~(e \in stack'[d].under)
    BY DEF Below
  <2>1. CASE d \in rest /\ e \in rest
    BY <1>1, <1>4, <2>1 DEF LocksInv, Below
  <2>2. CASE d \in rest /\ e \in D
    BY <1>1, <1>4, <2>2 DEF LocksInv
  <2>3. CASE d \in D /\ e \in rest
    BY <1>1, <1>4, <2>3 DEF LocksInv
  <2>. QED  BY <1>1, <1>4, <2>1, <2>2, <2>3
<1>8. stack'["preview"].under = {}
  <2>1. "preview" \in rest => stack'["preview"].under = {}
    BY <1>1 DEF LocksInv
  <2>2. "preview" \in D => stack'["preview"].under = {}
    BY <1>1, <1>4
  <2>3. "preview" \in Dialogs
    BY DEF Dialogs
  <2>. QED  BY <1>1, <2>1, <2>2, <2>3
<1>9. ASSUME ~bared'
      PROVE  /\ ~Uncovered' => overflow' = "hidden"
             /\ \A d \in Open' : stack'[d].under # {} => stack'[d].saved = "hidden"
  <2>1. ~bared
    BY <1>3, <1>9
  <2>. QED  BY <1>1, <1>2, <1>3, <1>4, <1>9, <2>1 DEF LocksInv, Uncovered
<1>10. ASSUME ~together'
       PROVE  /\ Uncovered' => overflow' = Unset
              /\ \A d \in Open' : stack'[d].under = {} => stack'[d].saved = Unset
  <2>1. ~together /\ \A d \in C \cap Open : Top(d)
    BY <1>3, <1>10
  <2>2. \A d \in rest : stack'[d].under = {} => stack[d].under = {}
    BY <1>1, <1>4, <2>1 DEF LocksInv, Top, Below
  <2>3. Uncovered' => overflow' = Unset
    BY <1>1, <1>2, <1>3, <1>4, <1>10 DEF Uncovered
  <2>4. \A d \in rest : stack'[d].under = {} => stack'[d].saved = Unset
    BY <1>1, <1>4, <2>1, <2>2 DEF LocksInv
  <2>5. \A d \in D : stack'[d].under = {} => stack'[d].saved = Unset
    BY <1>1, <1>2, <1>10
  <2>. QED  BY <1>1, <2>3, <2>4, <2>5
<1>. QED  BY <1>1, <1>5, <1>6, <1>7, <1>8, <1>9, <1>10 DEF LocksInv

(***************************************************************************)
(* What a render shows: the prompt of a gallery comes only over its panel, *)
(* and does not outlive it.                                                *)
(***************************************************************************)
LEMMA RenderShows ==
    ASSUME LocksInv, ShownInv, NEW C, NEW D, Render(C, D), Fits(C, D),
           "panel" \in C => "inner" \in C, "inner" \in D => "panel" \in Open \ C
    PROVE  /\ LocksInv'
           /\ Open' = (Open \ C) \cup D
           /\ "inner" \in Open' => Below("panel", "inner")'
<1>1. /\ Open' = (Open \ C) \cup D
      /\ \A d \in Open \ C : stack'[d].under = stack[d].under \ C
      /\ \A d \in D : stack'[d].under = Open \ C
  BY RenderFields
<1>2. ASSUME "inner" \in Open' PROVE "panel" \in stack'["inner"].under
  <2>1. CASE "inner" \in Open \ C
    BY <1>1, <2>1 DEF ShownInv, Below
  <2>2. CASE "inner" \in D
    BY <1>1, <2>2
  <2>. QED  BY <1>1, <1>2, <2>1, <2>2
<1>3. LocksInv'
  BY RenderKeeps
<1>. QED  BY <1>1, <1>2, <1>3 DEF Below

(***************************************************************************)
(* The steps that render no dialog.                                        *)
(***************************************************************************)
LEMMA LocksUnchanged ==
    ASSUME LocksInv, UNCHANGED dialogs
    PROVE  LocksInv' /\ Open' = Open /\ \A d, e : Below(d, e)' = Below(d, e)
BY DEF LocksInv, dialogs, Open, Uncovered, Below

LEMMA QuietSteps ==
    ASSUME FreshInv, LocksInv, ShownInv,
           \/ \E m \in Buttons : Click(m) \/ Serve(m) \/ Fails(m)
           \/ \E t \in Tabs : SwitchTab(t)
           \/ \E from \in Sources : StartChange(from)
           \/ ServeChange \/ ChangeFails
    PROVE  LocksInv' /\ ShownInv'
<1>1. UNCHANGED dialogs
  BY DEF Click, Serve, Fails, SwitchTab, StartChange, ServeChange, ChangeFails
<1>2. LocksInv' /\ Open' = Open /\ Below("panel", "inner")' = Below("panel", "inner")
  BY <1>1, LocksUnchanged
<1>3. tab' \in Tabs
  BY DEF Click, Serve, Fails, SwitchTab, StartChange, ServeChange, ChangeFails, ShownInv
<1>4. /\ \/ muts'["box"] = muts["box"]
         \/ "box" \notin Open /\ muts'["box"].at # "done"
      /\ muts'["recommend"].item = FALSE
  <2>. "box" \in Buttons /\ "recommend" \in Buttons /\ muts \in [Buttons -> Mutations]
    BY DEF Buttons, FreshInv
  <2>1. ASSUME NEW m \in Buttons, Click(m) \/ Fails(m)
        PROVE  <1>4!:
    <3>1. PICK a \in {"sent", "failed"} : muts' = [muts EXCEPT ![m] = [Idle EXCEPT !.at = a]]
      BY <2>1 DEF Click, Fails
    <3>2. [Idle EXCEPT !.at = a].at = a /\ [Idle EXCEPT !.at = a].item = FALSE
      BY DEF Idle
    <3>3. m = "box" => "box" \notin Open
      BY <2>1 DEF Click, Fails, Uncovered, Pending, ShownInv
    <3>. QED  BY <3>1, <3>2, <3>3 DEF Buttons, ShownInv
  <2>2. ASSUME NEW m \in Buttons, Serve(m)
        PROVE  <1>4!:
    <3>1. PICK item \in BOOLEAN :
             muts' = [muts EXCEPT ![m] = [at |-> "served", seen |-> commits,
                                          item |-> (item /\ m = "box")]]
      BY <2>2 DEF Serve
    <3>2. m = "box" => "box" \notin Open
      BY <2>2 DEF Serve, ShownInv
    <3>3. CASE m = "box"
      BY <3>1, <3>2, <3>3 DEF ShownInv
    <3>4. CASE m = "recommend"
      <4>. DEFINE none == item /\ m = "box"
      <4>1. none = FALSE
        BY <3>4
      <4>. HIDE DEF none
      <4>2. muts' = [muts EXCEPT !["recommend"] = [at |-> "served", seen |-> commits, item |-> none]]
        BY <3>1, <3>4 DEF none
      <4>. QED  BY <4>1, <4>2
    <3>. QED  BY <3>3, <3>4 DEF Buttons
  <2>3. CASE \/ \E t \in Tabs : SwitchTab(t)
             \/ \E from \in Sources : StartChange(from)
             \/ ServeChange \/ ChangeFails
    BY <2>3 DEF SwitchTab, StartChange, ServeChange, ChangeFails, ShownInv
  <2>. QED  BY <2>1, <2>2, <2>3
<1>. QED  BY <1>1, <1>2, <1>3, <1>4 DEF ShownInv, dialogs

(***************************************************************************)
(* The steps that open a dialog.                                           *)
(***************************************************************************)
LEMMA FitsAbove ==
    ASSUME LocksInv, NEW d \in Dialogs, d \notin Open, d # "preview" \/ Uncovered
    PROVE  Fits({}, {d})
BY DEF Fits, Uncovered

LEMMA AnswerShows ==
    ASSUME FreshInv, LocksInv, ShownInv, NEW m \in Buttons, Answer(m)
    PROVE  LocksInv' /\ ShownInv'
<1>. /\ "box" \in Buttons /\ "recommend" \in Buttons
     /\ muts \in [Buttons -> Mutations] /\ muts[m] \in Mutations
  BY DEF Buttons, FreshInv
<1>1. /\ muts' = [muts EXCEPT ![m].at = "done"] /\ tab' = tab
      /\ muts[m].at = "served"
  BY DEF Answer
<1>2. /\ muts'[m].at = "done" /\ muts'[m].item = muts[m].item
      /\ \A n \in Buttons \ {m} : muts'[n] = muts[n]
  BY <1>1 DEF Mutations
<1>3. muts'["recommend"].item = FALSE
  BY <1>2 DEF ShownInv
<1>4. CASE muts[m].item
  <2>1. m = "box" /\ "box" \notin Open
    BY <1>1, <1>4 DEF ShownInv, Buttons
  <2>2. Render({}, {"box"}) /\ boxOpen' = TRUE /\ panel' = panel
    BY <1>4 DEF Answer
  <2>3. Fits({}, {"box"})
    BY <2>1, FitsAbove DEF Dialogs
  <2>4. /\ LocksInv' /\ Open' = Open \cup {"box"}
        /\ "inner" \in Open' => Below("panel", "inner")'
    BY <2>2, <2>3, RenderShows
  <2>. QED  BY <1>1, <1>2, <1>3, <1>4, <2>1, <2>2, <2>4 DEF ShownInv
<1>5. CASE ~muts[m].item
  <2>1. UNCHANGED dialogs
    BY <1>5 DEF Answer
  <2>2. LocksInv' /\ Open' = Open /\ Below("panel", "inner")' = Below("panel", "inner")
    BY <2>1, LocksUnchanged
  <2>3. /\ muts["box"].at = "done" /\ muts["box"].item
        <=> muts'["box"].at = "done" /\ muts'["box"].item
    BY <1>1, <1>2, <1>5
  <2>. QED  BY <1>1, <1>3, <2>1, <2>2, <2>3 DEF ShownInv, dialogs
<1>. QED  BY <1>4, <1>5

LEMMA OpensShow ==
    ASSUME LocksInv, ShownInv,
           (\E k \in Panels : OpenPanel(k)) \/ OpenPrompt \/ OpenPreview
    PROVE  LocksInv' /\ ShownInv'
<1>1. ASSUME NEW k \in Panels, OpenPanel(k) PROVE LocksInv' /\ ShownInv'
  <2>1. Uncovered /\ Render({}, {"panel"}) /\ panel' = k /\ UNCHANGED <<tab, boxOpen, muts>>
    BY <1>1 DEF OpenPanel
  <2>2. Fits({}, {"panel"})
    BY <2>1, FitsAbove DEF Dialogs, Uncovered
  <2>3. LocksInv' /\ Open' = {"panel"}
    BY <2>1, <2>2, RenderShows DEF Uncovered
  <2>4. panel' \in Panels /\ panel' # "none"
    BY <2>1 DEF Panels
  <2>. QED  BY <2>1, <2>3, <2>4 DEF ShownInv, Uncovered
<1>2. CASE OpenPrompt /\ Top("panel") /\ panel = "images" /\ Render({}, {"inner"})
  <2>1. "panel" \in Open /\ "inner" \notin Open /\ UNCHANGED <<tab, boxOpen, panel, muts>>
    BY <1>2 DEF Top, ShownInv, LocksInv, OpenPrompt
  <2>2. Fits({}, {"inner"})
    BY <2>1, FitsAbove DEF Dialogs
  <2>3. /\ LocksInv' /\ Open' = Open \cup {"inner"}
        /\ Below("panel", "inner")'
    BY <1>2, <2>1, <2>2, RenderShows
  <2>. QED  BY <1>2, <2>1, <2>3 DEF ShownInv
<1>3. CASE \/ OpenPrompt /\ Uncovered /\ Render({}, {"prompt"})
           \/ OpenPreview
  <2>1. PICK d \in {"prompt", "preview"} : Render({}, {d})
    BY <1>3 DEF OpenPreview
  <2>2. Uncovered /\ UNCHANGED <<tab, boxOpen, panel, muts>>
    BY <1>3 DEF OpenPrompt, OpenPreview
  <2>3. Fits({}, {d})
    BY <2>2, FitsAbove DEF Dialogs, Uncovered
  <2>4. LocksInv' /\ Open' = {d}
    BY <2>1, <2>2, <2>3, RenderShows DEF Uncovered
  <2>. QED  BY <2>2, <2>4 DEF ShownInv, Uncovered
<1>. QED  BY <1>1, <1>2, <1>3 DEF OpenPrompt

(***************************************************************************)
(* The steps that close dialogs.                                           *)
(***************************************************************************)
\* Nothing comes; the prompt of a gallery goes with its panel.
LEMMA ClosesShow ==
    ASSUME LocksInv, ShownInv, NEW C, Render(C, {}), "panel" \in C => "inner" \in C
    PROVE  /\ LocksInv' /\ Open' = Open \ C
           /\ "inner" \in Open' => Below("panel", "inner")'
<1>1. Fits(C, {})
  BY DEF Fits
<1>. QED  BY <1>1, RenderShows

LEMMA PanelCloses ==
    ASSUME LocksInv, ShownInv,
           ClosePanel \/ CardGoes \/ \E d \in Dialogs : Close(d)
    PROVE  LocksInv' /\ ShownInv'
<1>1. CASE ClosePanel
  <2>1. Render(PanelDialogs, {}) /\ panel' = "none" /\ UNCHANGED <<tab, boxOpen, muts>>
    BY <1>1 DEF ClosePanel
  <2>2. LocksInv' /\ Open' = Open \ {"panel", "inner"}
    BY <2>1, ClosesShow DEF PanelDialogs
  <2>. QED  BY <2>1, <2>2 DEF ShownInv
<1>2. CASE CardGoes
  <2>1. Render(CardDialogs, {}) /\ UNCHANGED <<tab, panel, boxOpen, muts>>
    BY <1>2 DEF CardGoes
  <2>2. /\ LocksInv' /\ Open' = Open \ {"prompt", "preview"}
        /\ "inner" \in Open' => Below("panel", "inner")'
    BY <2>1, ClosesShow DEF CardDialogs
  <2>. QED  BY <2>1, <2>2 DEF ShownInv
<1>3. ASSUME NEW d \in Dialogs, Close(d) PROVE LocksInv' /\ ShownInv'
  <2>1. /\ d \in {"inner", "prompt", "preview"} /\ Render({d}, {})
        /\ UNCHANGED <<tab, panel, boxOpen, muts>>
    BY <1>3 DEF Close
  <2>2. /\ LocksInv' /\ Open' = Open \ {d}
        /\ "inner" \in Open' => Below("panel", "inner")'
    BY <2>1, ClosesShow
  <2>. QED  BY <2>1, <2>2 DEF ShownInv
<1>. QED  BY <1>1, <1>2, <1>3

LEMMA BoxCloses ==
    ASSUME FreshInv, LocksInv, ShownInv,
           CloseBox \/ Escape \/ \E k \in {"record", "recipe"} : FromBox(k)
    PROVE  LocksInv' /\ ShownInv'
<1>. muts \in [Buttons -> Mutations] /\ "box" \in Buttons /\ "recommend" \in Buttons
  BY DEF FreshInv, Buttons
<1>0. ASSUME muts' = [muts EXCEPT !["box"] = Idle]
      PROVE  muts'["box"].at # "done" /\ muts'["recommend"].item = FALSE
  BY <1>0 DEF Idle, ShownInv
<1>1. CASE CloseBox
  <2>1. /\ Render({"box"}, {}) /\ UNCHANGED <<tab, panel>> /\ boxOpen' = FALSE
        /\ muts' = [muts EXCEPT !["box"] = Idle]
    BY <1>1 DEF CloseBox
  <2>2. /\ LocksInv' /\ Open' = Open \ {"box"}
        /\ "inner" \in Open' => Below("panel", "inner")'
    BY <2>1, ClosesShow
  <2>. QED  BY <1>0, <2>1, <2>2 DEF ShownInv
<1>2. CASE Escape
  <2>1. PICK C : C = Open
    OBVIOUS
  <2>2. /\ Render(C, {}) /\ panel' = "none" /\ tab' = tab
        /\ boxOpen' = (boxOpen /\ "box" \notin Open)
        /\ muts' = IF "box" \in Open THEN [muts EXCEPT !["box"] = Idle] ELSE muts
    BY <1>2, <2>1 DEF Escape
  <2>3. "panel" \in C => "inner" \in C \/ "inner" \notin Open
    BY <2>1
  <2>4. LocksInv' /\ Open' = {}
    <3>1. Fits(C, {})
      BY DEF Fits
    <3>. QED  BY <2>1, <2>2, <3>1, RenderKeeps, RenderFields
  <2>5. /\ muts'["recommend"].item = FALSE
        /\ "box" \in Open => muts'["box"].at # "done"
        /\ "box" \notin Open => muts' = muts
    BY <1>0, <2>2 DEF ShownInv
  <2>. QED  BY <2>2, <2>4, <2>5 DEF ShownInv
<1>3. ASSUME NEW k \in {"record", "recipe"}, FromBox(k) PROVE LocksInv' /\ ShownInv'
  <2>1. /\ tab' = tab /\ boxOpen' = FALSE /\ panel' = k
        /\ muts' = [muts EXCEPT !["box"] = Idle]
    BY <1>3 DEF FromBox
  <2>2. k \in Panels /\ k # "none"
    BY DEF Panels
  <2>3. CASE Render({"box"} \cup PanelDialogs, {"panel"})
    <3>. DEFINE C == {"box", "panel", "inner"}
    <3>1. Render(C, {"panel"})
      <4>1. C = {"box"} \cup PanelDialogs
        BY DEF PanelDialogs
      <4>. QED  BY <2>3, <4>1
    <3>2. Fits(C, {"panel"})
      BY DEF Fits, Dialogs
    <3>3. /\ LocksInv' /\ Open' = (Open \ C) \cup {"panel"}
      BY <3>1, <3>2, RenderShows
    <3>. QED  BY <1>0, <2>1, <2>2, <3>3 DEF ShownInv
  <2>4. CASE panel = k /\ Render({"box"}, {})
    <3>1. LocksInv' /\ Open' = Open \ {"box"}
      BY <2>4, ClosesShow
    <3>. QED  BY <1>0, <2>1, <2>2, <2>4, <3>1 DEF ShownInv
  <2>. QED  BY <1>3, <2>3, <2>4 DEF FromBox
<1>. QED  BY <1>1, <1>2, <1>3

LEMMA ChangeShows ==
    ASSUME LocksInv, ShownInv, AnswerChange
    PROVE  LocksInv' /\ ShownInv'
<1>1. CASE change.alive
  <2>. DEFINE record == change.from = "record"
              cards  == change.from = "rating" /\ tab = "history"
              C == {"box"} \cup (IF record THEN PanelDialogs ELSE {})
                           \cup (IF cards THEN CardDialogs ELSE {})
  <2>1. /\ muts' = Reset /\ UNCHANGED <<tab, boxOpen>> /\ Render(C, {})
        /\ panel' = IF record THEN "none" ELSE panel
    BY <1>1 DEF AnswerChange
  <2>2. /\ "box" \in C
        /\ "panel" \in C <=> record
        /\ "inner" \in C <=> record
    BY DEF PanelDialogs, CardDialogs
  <2>3. muts'["box"].at # "done" /\ muts'["recommend"].item = FALSE
    BY <2>1 DEF Reset, Idle, Buttons
  <2>. HIDE DEF C
  <2>4. /\ LocksInv' /\ Open' = Open \ C
        /\ "inner" \in Open' => Below("panel", "inner")'
    BY <2>1, <2>2, ClosesShow
  <2>. QED  BY <2>1, <2>2, <2>3, <2>4 DEF ShownInv
<1>2. CASE ~change.alive
  <2>1. UNCHANGED <<muts, tab, dialogs>>
    BY <1>2 DEF AnswerChange
  <2>2. LocksInv' /\ Open' = Open /\ Below("panel", "inner")' = Below("panel", "inner")
    BY <2>1, LocksUnchanged
  <2>. QED  BY <2>1, <2>2 DEF ShownInv, dialogs
<1>. QED  BY <1>1, <1>2

(***************************************************************************)
(* The invariant of the locks.                                             *)
(***************************************************************************)
DialogInv == FreshInv /\ LocksInv /\ ShownInv

LEMMA InitDialogs == Init => DialogInv
<1>. SUFFICES ASSUME Init PROVE LocksInv /\ ShownInv
  BY InitFresh DEF DialogInv
<1>1. Closed \in Records /\ Closed.open = FALSE /\ Closed.under = {}
  <2>. Unset \in Overflow
    BY DEF Overflow
  <2>. QED  BY DEF Closed, Records
<1>2. /\ stack = [d \in Dialogs |-> Closed] /\ overflow = Unset
      /\ together = FALSE /\ bared = FALSE
  BY DEF Init
<1>3. Open = {}
  BY <1>1, <1>2 DEF Open
<1>4. stack \in [Dialogs -> Records] /\ stack["preview"].under = {}
  BY <1>1, <1>2 DEF Dialogs
<1>5. LocksInv
  BY <1>2, <1>3, <1>4 DEF LocksInv, Uncovered, Overflow
<1>6. ShownInv
  BY <1>3 DEF Init, ShownInv, Tabs, Idle, Buttons
<1>. QED  BY <1>5, <1>6

LEMMA NextDialogs == DialogInv /\ [Next]_vars => DialogInv'
<1>. SUFFICES ASSUME DialogInv, [Next]_vars PROVE LocksInv' /\ ShownInv'
  BY NextFresh DEF DialogInv
<1>. FreshInv /\ LocksInv /\ ShownInv
  BY DEF DialogInv
<1>1. CASE \E m \in Buttons : Answer(m)
  BY <1>1, AnswerShows
<1>2. CASE \/ \E m \in Buttons : Click(m) \/ Serve(m) \/ Fails(m)
           \/ \E t \in Tabs : SwitchTab(t)
           \/ \E from \in Sources : StartChange(from)
           \/ ServeChange \/ ChangeFails
  BY <1>2, QuietSteps
<1>3. CASE (\E k \in Panels : OpenPanel(k)) \/ OpenPrompt \/ OpenPreview
  BY <1>3, OpensShow
<1>4. CASE ClosePanel \/ CardGoes \/ \E d \in Dialogs : Close(d)
  BY <1>4, PanelCloses
<1>5. CASE CloseBox \/ Escape \/ \E k \in {"record", "recipe"} : FromBox(k)
  BY <1>5, BoxCloses
<1>6. CASE AnswerChange
  BY <1>6, ChangeShows
<1>7. CASE UNCHANGED vars
  <2>1. UNCHANGED <<tab, muts, dialogs>>
    BY <1>7 DEF vars
  <2>2. LocksInv' /\ Open' = Open /\ Below("panel", "inner")' = Below("panel", "inner")
    BY <2>1, LocksUnchanged
  <2>. QED  BY <2>1, <2>2 DEF ShownInv, dialogs
<1>. QED  BY <1>1, <1>2, <1>3, <1>4, <1>5, <1>6, <1>7 DEF Next

LEMMA DialogsAreConsistent == DialogInv => LocksConsistent
<1>. SUFFICES ASSUME DialogInv PROVE LocksConsistent
  OBVIOUS
<1>1. TypeOK
  <2>1. /\ tab \in Tabs /\ panel \in Panels \cup {"none"} /\ boxOpen \in BOOLEAN
        /\ "panel" \in Open <=> panel # "none"
        /\ "inner" \in Open => panel = "images"
        /\ "box" \in Open <=> boxOpen /\ muts["box"].at = "done" /\ muts["box"].item
    BY DEF DialogInv, ShownInv
  <2>2. /\ stack \in [Dialogs -> Records] /\ overflow \in Overflow
        /\ together \in BOOLEAN /\ bared \in BOOLEAN
        /\ \A d \in Dialogs : d \in Open => stack[d].under \subseteq Open \ {d}
        /\ \A d, e \in Open : d # e => (Below(d, e) <=> ~Below(e, d))
    BY DEF DialogInv, LocksInv
  <2>3. /\ muts \in [Buttons -> Mutations] /\ change \in ChangesOfUser
        /\ commits \in 0 .. MaxChanges /\ told \in 0 .. commits
    BY DEF DialogInv, FreshInv
  <2>. QED  BY <2>1, <2>2, <2>3, Zenon DEF TypeOK, Records, Mutations, ChangesOfUser
<1>2. LockedWhileOpen /\ UnlockedInOrder
  BY DEF DialogInv, LocksInv, LockedWhileOpen, UnlockedInOrder
<1>. QED  BY <1>1, <1>2 DEF LocksConsistent

(***************************************************************************)
(* However dialogs are opened over one another and closed, by a button, by *)
(* Escape or by an answer: the page does not scroll behind one as long as  *)
(* none was closed under another, and scrolls again after the last one if  *)
(* they were closed one at a time (useScrollLock, Modal,                   *)
(* ImagePreviewModal); and the dialogs are those of the state.             *)
(***************************************************************************)
THEOREM LocksAreConsistent == Spec => []LocksConsistent
<1>. QED  BY DialogsAreConsistent, InitDialogs, NextDialogs, PTL DEF Spec

-----------------------------------------------------------------------------
(***************************************************************************)
(* The photos of the panels and the cards of the page: module Upload, for  *)
(* any number of compressions and uploads and of files that are handed in. *)
(***************************************************************************)
Photo == INSTANCE Upload

\* What UploadState assumes of its constants.
PhotoConstants ==
    /\ IsFiniteSet(Slots) /\ NoSlot \notin Slots
    /\ MaxHanded \in Nat \ {0} /\ NoFile \notin Photo!Files

Jobs == [at : {"idle", "compressing", "sent", "served"},
         file : Photo!Files \cup {NoFile}, compressed : BOOLEAN, mine : BOOLEAN]

\* A file that runs is one, and is not sent as it is above the limit.
Sound(j) ==
    /\ j \in Jobs
    /\ j.at # "idle" => j.file \in Photo!Files
    /\ j.at \in {"sent", "served"} /\ j.file.size = "large" => j.compressed

PhotoTypes ==
    /\ host \in {"panel", "gallery"} /\ mounted \in BOOLEAN
    /\ input \in Photo!Files \cup {NoFile} /\ prompt \in Photo!Files \cup {NoFile}
    /\ compressing \in BOOLEAN /\ pending \in Slots \cup {NoSlot}
    /\ jobs \in [Slots -> Jobs] /\ \A s \in Slots : Sound(jobs[s])
    /\ stored \in Nat /\ handed \in 0 .. MaxHanded

PhotoShown ==
    /\ \A s, t \in Photo!Mine : s = t
    /\ \A s \in Photo!Mine : IF jobs[s].at = "compressing" THEN compressing ELSE pending = s
    /\ compressing => \E s \in Photo!Mine : jobs[s].at = "compressing"
    /\ pending # NoSlot => pending \in Photo!Mine /\ jobs[pending].at # "compressing"
    /\ Photo!Mine # {} => mounted /\ prompt = NoFile
    /\ prompt # NoFile => mounted

\* The files that may still be stored.
InFlight == {s \in Slots : jobs[s].at \in {"compressing", "sent"}}
Asked    == IF prompt = NoFile THEN 0 ELSE 1

PhotoCount == stored + Cardinality(InFlight) + Asked <= handed

PhotoInv == PhotoTypes /\ PhotoShown /\ PhotoCount

LEMMA IdleIsSound == Sound(Photo!Idle) /\ Photo!Idle.at = "idle" /\ Photo!Idle.mine = FALSE
BY DEF Sound, Photo!Idle, Jobs

LEMMA LeftIsSound ==
    ASSUME NEW r, Sound(r)
    PROVE  /\ Sound([r EXCEPT !.mine = FALSE])
           /\ [r EXCEPT !.mine = FALSE].at = r.at
           /\ [r EXCEPT !.mine = FALSE].mine = FALSE
BY DEF Sound, Jobs

LEMMA FlightsFinite ==
    ASSUME PhotoConstants
    PROVE  IsFiniteSet(InFlight) /\ Cardinality(InFlight) \in Nat
BY FS_Subset, FS_CardinalityType DEF PhotoConstants, InFlight

LEMMA InitPhoto == ASSUME PhotoConstants, Photo!Init PROVE PhotoInv
<1>1. \A s \in Slots : jobs[s] = Photo!Idle
  BY DEF Photo!Init
<1>2. PhotoTypes
  <2>1. jobs \in [Slots -> Jobs] /\ \A s \in Slots : Sound(jobs[s])
    BY <1>1, IdleIsSound DEF Photo!Init, Sound
  <2>2. stored \in Nat /\ handed \in 0 .. MaxHanded
    BY DEF Photo!Init, PhotoConstants
  <2>. QED  BY <2>1, <2>2 DEF Photo!Init, PhotoTypes
<1>3. Photo!Mine = {} /\ InFlight = {}
  BY <1>1, IdleIsSound DEF Photo!Mine, Photo!Running, InFlight
<1>4. PhotoShown
  BY <1>3 DEF Photo!Init, PhotoShown
<1>5. Cardinality(InFlight) = 0
  BY <1>3, FS_EmptySet
<1>. QED  BY <1>2, <1>4, <1>5 DEF Photo!Init, PhotoInv, PhotoCount, Asked

\* One job becomes another one.
LEMMA OneJob ==
    ASSUME PhotoTypes, NEW s \in Slots, NEW r, Sound(r), jobs' = [jobs EXCEPT ![s] = r]
    PROVE  /\ jobs' \in [Slots -> Jobs] /\ \A t \in Slots : Sound(jobs'[t])
           /\ jobs'[s] = r /\ \A t \in Slots \ {s} : jobs'[t] = jobs[t]
           /\ Photo!Mine' = (Photo!Mine \ {s}) \cup (IF r.at # "idle" /\ r.mine THEN {s} ELSE {})
           /\ InFlight' = (InFlight \ {s})
                  \cup (IF r.at \in {"compressing", "sent"} THEN {s} ELSE {})
<1>1. /\ jobs' \in [Slots -> Jobs] /\ jobs'[s] = r
      /\ \A t \in Slots \ {s} : jobs'[t] = jobs[t]
  BY DEF PhotoTypes, Sound
<1>2. \A t \in Slots : Sound(jobs'[t])
  BY <1>1 DEF PhotoTypes
<1>3. Photo!Mine' = (Photo!Mine \ {s}) \cup (IF r.at # "idle" /\ r.mine THEN {s} ELSE {})
  BY <1>1 DEF Photo!Mine, Photo!Running
<1>4. InFlight' = (InFlight \ {s})
          \cup (IF r.at \in {"compressing", "sent"} THEN {s} ELSE {})
  BY <1>1 DEF InFlight
<1>. QED  BY <1>1, <1>2, <1>3, <1>4

\* How the count follows the flights.
LEMMA FlightsCounted ==
    ASSUME PhotoConstants, NEW s \in Slots
    PROVE  /\ InFlight' \subseteq InFlight =>
                  Cardinality(InFlight') <= Cardinality(InFlight)
           /\ InFlight' \subseteq InFlight \cup {s} =>
                  Cardinality(InFlight') <= Cardinality(InFlight) + 1
           /\ s \in InFlight /\ InFlight' \subseteq InFlight \ {s} =>
                  Cardinality(InFlight') <= Cardinality(InFlight) - 1
           /\ Cardinality(InFlight) \in Nat /\ Cardinality(InFlight') \in Nat
<1>1. /\ IsFiniteSet(InFlight) /\ Cardinality(InFlight) \in Nat
      /\ IsFiniteSet(InFlight') /\ Cardinality(InFlight') \in Nat
  BY FS_Subset, FS_CardinalityType DEF PhotoConstants, InFlight
<1>2. InFlight' \subseteq InFlight => Cardinality(InFlight') <= Cardinality(InFlight)
  BY <1>1, FS_Subset
<1>3. ASSUME InFlight' \subseteq InFlight \cup {s}
      PROVE  Cardinality(InFlight') <= Cardinality(InFlight) + 1
  <2>. DEFINE T == InFlight \cup {s}
  <2>0. /\ IsFiniteSet(T)
        /\ Cardinality(T) = IF s \in InFlight THEN Cardinality(InFlight)
                            ELSE Cardinality(InFlight) + 1
    BY <1>1, FS_AddElement, Zenon
  <2>. HIDE DEF T
  <2>1. IsFiniteSet(T) /\ Cardinality(T) <= Cardinality(InFlight) + 1
    BY <1>1, <2>0
  <2>2. InFlight' \in SUBSET T
    BY <1>3 DEF T
  <2>3. Cardinality(InFlight') <= Cardinality(T) /\ Cardinality(T) \in Nat
    BY <2>1, <2>2, FS_Subset, FS_CardinalityType
  <2>. QED  BY <1>1, <2>1, <2>3
<1>4. ASSUME s \in InFlight, InFlight' \subseteq InFlight \ {s}
      PROVE  Cardinality(InFlight') <= Cardinality(InFlight) - 1
  <2>1. /\ IsFiniteSet(InFlight \ {s})
        /\ Cardinality(InFlight \ {s}) = Cardinality(InFlight) - 1
    BY <1>1, <1>4, FS_RemoveElement
  <2>2. Cardinality(InFlight') <= Cardinality(InFlight \ {s})
    BY <1>4, <2>1, FS_Subset
  <2>. QED  BY <2>1, <2>2
<1>. QED  BY <1>1, <1>2, <1>3, <1>4

\* A file that is given up, or an answer that comes.
LEMMA FewerFlights ==
    ASSUME PhotoConstants, PhotoInv, NEW s \in Slots, InFlight' = InFlight \ {s},
           UNCHANGED <<stored, prompt, handed>>
    PROVE  PhotoCount'
<1>1. /\ Cardinality(InFlight') <= Cardinality(InFlight)
      /\ Cardinality(InFlight) \in Nat /\ Cardinality(InFlight') \in Nat
  <2>1. InFlight' \subseteq InFlight
    OBVIOUS
  <2>. QED  BY <2>1, FlightsCounted
<1>. QED  BY <1>1 DEF PhotoInv, PhotoTypes, PhotoCount, Asked

\* A file that goes off as it is, or to be compressed, with nothing of the
\* component running.
LEMMA BeginPhoto ==
    ASSUME PhotoConstants, PhotoInv, NEW s \in Slots, NEW f \in Photo!Files,
           NEW at \in {"compressing", "sent"}, at = "sent" => f.size # "large",
           Photo!Begin(s, at, f), mounted, Photo!Mine = {}
    PROVE  /\ jobs' \in [Slots -> Jobs] /\ \A t \in Slots : Sound(jobs'[t])
           /\ Photo!Mine' = {s} /\ jobs'[s].at = at
           /\ Cardinality(InFlight') <= Cardinality(InFlight) + 1
           /\ Cardinality(InFlight) \in Nat /\ Cardinality(InFlight') \in Nat
<1>. DEFINE r == [at |-> at, file |-> f, compressed |-> FALSE, mine |-> TRUE]
<1>1. jobs' = [jobs EXCEPT ![s] = r]
  BY DEF Photo!Begin
<1>2. Sound(r) /\ r.at = at /\ r.mine = TRUE
  BY DEF Sound, Jobs
<1>. HIDE DEF r
<1>3. /\ jobs' \in [Slots -> Jobs] /\ \A t \in Slots : Sound(jobs'[t])
      /\ jobs'[s] = r /\ Photo!Mine' = {s} /\ InFlight' \subseteq InFlight \cup {s}
  BY <1>1, <1>2, OneJob DEF PhotoInv
<1>. QED  BY <1>2, <1>3, FlightsCounted

\* The steps of the user and of the screen.
LEMMA HandInKeeps ==
    ASSUME PhotoConstants, PhotoInv, NEW f \in Photo!Files, Photo!Free, Photo!HandIn(f),
           input' \in Photo!Files \cup {NoFile}
    PROVE  PhotoInv'
<1>1. mounted /\ prompt = NoFile /\ pending = NoSlot /\ compressing = FALSE
  BY DEF Photo!Free, Photo!Busy, PhotoInv, PhotoTypes
<1>2. Photo!Mine = {}
  BY <1>1 DEF PhotoInv, PhotoShown, PhotoTypes, PhotoConstants, Photo!Mine, Photo!Running
<1>3. /\ UNCHANGED <<host, mounted, compressing, stored>>
      /\ handed' = handed + 1 /\ handed < MaxHanded
  BY DEF Photo!HandIn
<1>4. handed' \in 0 .. MaxHanded /\ stored \in Nat /\ handed \in 0 .. MaxHanded
  BY <1>3 DEF PhotoInv, PhotoTypes, PhotoConstants
<1>5. CASE Photo!Action(f) = "upload" \/ (~f.compressible /\ Photo!Action(f) = "suggest")
  <2>1. PICK s \in Slots : Photo!Begin(s, "sent", f) /\ pending' = s /\ prompt' = prompt
    BY <1>5 DEF Photo!HandIn
  <2>2. f.size # "large"
    BY <1>5 DEF Photo!Action
  <2>3. /\ jobs' \in [Slots -> Jobs] /\ \A t \in Slots : Sound(jobs'[t])
        /\ Photo!Mine' = {s} /\ jobs'[s].at = "sent"
        /\ Cardinality(InFlight') <= Cardinality(InFlight) + 1
        /\ Cardinality(InFlight) \in Nat /\ Cardinality(InFlight') \in Nat
    BY <1>1, <1>2, <2>1, <2>2, BeginPhoto
  <2>4. PhotoTypes'
    BY <1>3, <1>4, <2>1, <2>3 DEF PhotoInv, PhotoTypes
  <2>5. PhotoShown'
    BY <1>1, <1>3, <2>1, <2>3 DEF PhotoShown
  <2>6. PhotoCount'
    BY <1>1, <1>3, <1>4, <2>1, <2>3 DEF PhotoInv, PhotoCount, Asked
  <2>. QED  BY <2>4, <2>5, <2>6 DEF PhotoInv
<1>6. CASE ~(Photo!Action(f) = "upload" \/ (~f.compressible /\ Photo!Action(f) = "suggest"))
  <2>1. prompt' \in Photo!Files \cup {NoFile} /\ UNCHANGED <<jobs, pending>>
    BY <1>1, <1>6 DEF Photo!HandIn
  <2>2. Photo!Mine' = {} /\ InFlight' = InFlight
    BY <1>2, <2>1 DEF Photo!Mine, Photo!Running, InFlight
  <2>3. PhotoTypes'
    BY <1>3, <1>4, <2>1 DEF PhotoInv, PhotoTypes
  <2>4. PhotoShown'
    BY <1>1, <1>3, <2>1, <2>2 DEF PhotoShown
  <2>5. PhotoCount'
    BY <1>1, <1>3, <1>4, <2>2, FlightsFinite DEF PhotoInv, PhotoCount, Asked
  <2>. QED  BY <2>3, <2>4, <2>5 DEF PhotoInv
<1>. QED  BY <1>5, <1>6

LEMMA PromptKeeps ==
    ASSUME PhotoConstants, PhotoInv, NEW s \in Slots, Photo!Confirm(s) \/ Photo!Skip(s)
    PROVE  PhotoInv'
<1>1. /\ mounted /\ prompt # NoFile /\ prompt \in Photo!Files /\ prompt' = NoFile
      /\ UNCHANGED <<host, mounted, input, stored, handed>>
  BY DEF Photo!Confirm, Photo!Skip, PhotoInv, PhotoTypes
<1>2. Photo!Mine = {} /\ pending = NoSlot /\ compressing = FALSE
  BY <1>1 DEF PhotoInv, PhotoShown, PhotoTypes
<1>3. PICK at \in {"compressing", "sent"} :
         /\ Photo!Begin(s, at, prompt) /\ (at = "sent" => prompt.size # "large")
         /\ pending' = IF at = "sent" THEN s ELSE NoSlot
         /\ compressing' = (at = "compressing")
  <2>1. CASE Photo!Confirm(s)
    BY <1>2, <2>1 DEF Photo!Confirm
  <2>2. CASE Photo!Skip(s)
    BY <1>2, <2>2 DEF Photo!Skip, Photo!Action
  <2>. QED  BY <2>1, <2>2
<1>4. /\ jobs' \in [Slots -> Jobs] /\ \A t \in Slots : Sound(jobs'[t])
      /\ Photo!Mine' = {s} /\ jobs'[s].at = at
      /\ Cardinality(InFlight') <= Cardinality(InFlight) + 1
      /\ Cardinality(InFlight) \in Nat /\ Cardinality(InFlight') \in Nat
  <2>1. PICK f \in Photo!Files : f = prompt
    BY <1>1
  <2>2. Photo!Begin(s, at, f) /\ (at = "sent" => f.size # "large")
    BY <1>3, <2>1
  <2>. QED  BY <1>1, <1>2, <2>2, BeginPhoto
<1>5. PhotoTypes'
  BY <1>1, <1>3, <1>4 DEF PhotoInv, PhotoTypes
<1>6. PhotoShown'
  BY <1>1, <1>3, <1>4 DEF PhotoShown, PhotoConstants
<1>7. PhotoCount'
  BY <1>1, <1>4 DEF PhotoInv, PhotoTypes, PhotoCount, Asked
<1>. QED  BY <1>5, <1>6, <1>7 DEF PhotoInv

LEMMA ScreenKeeps ==
    ASSUME PhotoConstants, PhotoInv, Photo!Dismiss \/ Photo!Close \/ Photo!Open
    PROVE  PhotoInv'
<1>. Cardinality(InFlight) \in Nat
  BY FlightsFinite
<1>1. CASE Photo!Dismiss
  <2>1. Photo!Mine' = Photo!Mine /\ InFlight' = InFlight
    BY <1>1 DEF Photo!Dismiss, Photo!Mine, Photo!Running, InFlight
  <2>. QED  BY <1>1, <2>1 DEF Photo!Dismiss, PhotoInv, PhotoTypes, PhotoShown, PhotoCount, Asked
<1>2. CASE Photo!Open
  <2>1. Photo!Mine' = Photo!Mine /\ InFlight' = InFlight
    BY <1>2 DEF Photo!Open, Photo!Mine, Photo!Running, InFlight
  <2>. QED  BY <1>2, <2>1 DEF Photo!Open, PhotoInv, PhotoTypes, PhotoShown, PhotoCount, Asked
<1>3. CASE Photo!Close
  <2>1. ASSUME NEW s \in Slots
        PROVE  /\ Sound(jobs'[s]) /\ jobs'[s].at = jobs[s].at
               /\ jobs'[s].mine = FALSE
    <3>1. jobs'[s] = [jobs[s] EXCEPT !.mine = FALSE] /\ Sound(jobs[s])
      BY <1>3 DEF Photo!Close, PhotoInv, PhotoTypes
    <3>. QED  BY <3>1, LeftIsSound
  <2>2. jobs' \in [Slots -> Jobs]
    BY <1>3, <2>1 DEF Photo!Close, Sound
  <2>3. Photo!Mine' = {} /\ InFlight' = InFlight
    BY <2>1 DEF Photo!Mine, Photo!Running, InFlight
  <2>4. /\ mounted' = FALSE /\ input' = NoFile /\ prompt' = NoFile
        /\ compressing' = FALSE /\ pending' = NoSlot
        /\ UNCHANGED <<host, stored, handed>>
    BY <1>3 DEF Photo!Close
  <2>5. PhotoTypes'
    BY <2>1, <2>2, <2>4 DEF PhotoInv, PhotoTypes
  <2>6. PhotoShown'
    BY <2>3, <2>4 DEF PhotoShown
  <2>7. PhotoCount'
    <3>1. stored \in Nat /\ handed \in Nat /\ stored + Cardinality(InFlight) <= handed
      BY DEF PhotoInv, PhotoTypes, PhotoCount, Asked
    <3>. QED  BY <2>3, <2>4, <3>1 DEF PhotoCount, Asked
  <2>. QED  BY <2>5, <2>6, <2>7 DEF PhotoInv
<1>. QED  BY <1>1, <1>2, <1>3

\* The steps of a job: the one that the screen follows is the one that is its own.
LEMMA FollowsOwn ==
    ASSUME PhotoConstants, PhotoInv, NEW s \in Slots
    PROVE  /\ Sound(jobs[s]) /\ NoSlot # s
           /\ jobs[s].at = "compressing" =>
                 /\ pending # s
                 /\ jobs[s].mine => Photo!Mine = {s} /\ compressing /\ pending = NoSlot
                 /\ compressing /\ ~jobs[s].mine => \E t \in Photo!Mine : t # s
           /\ jobs[s].at \in {"sent", "served"} =>
                 /\ jobs[s].mine <=> pending = s
                 /\ pending = s => Photo!Mine = {s} /\ ~compressing
BY DEF PhotoInv, PhotoTypes, PhotoShown, PhotoConstants, Photo!Mine, Photo!Running

LEMMA CompressionKeeps ==
    ASSUME PhotoConstants, PhotoInv, NEW s \in Slots, Photo!Compressed(s) \/ Photo!CompressionFails(s)
    PROVE  PhotoInv'
<1>. DEFINE r == [jobs[s] EXCEPT !.at = "sent", !.compressed = TRUE]
<1>1. /\ UNCHANGED <<host, mounted, input, prompt, stored, handed>>
      /\ jobs[s].at = "compressing"
  BY DEF Photo!Compressed, Photo!CompressionFails
<1>2. /\ Sound(r) /\ r.at = "sent" /\ r.mine = jobs[s].mine
  BY <1>1, FollowsOwn DEF Sound, Jobs
<1>3. CASE Photo!Compressed(s)
  <2>1. jobs' = [jobs EXCEPT ![s] = r]
    BY <1>3 DEF Photo!Compressed
  <2>. HIDE DEF r
  <2>2. /\ jobs' \in [Slots -> Jobs] /\ \A t \in Slots : Sound(jobs'[t])
        /\ jobs'[s] = r /\ \A t \in Slots \ {s} : jobs'[t] = jobs[t]
        /\ Photo!Mine' = (Photo!Mine \ {s}) \cup (IF r.mine THEN {s} ELSE {})
        /\ InFlight' = (InFlight \ {s}) \cup {s}
    BY <1>2, <2>1, OneJob DEF PhotoInv
  <2>3. InFlight' = InFlight
    BY <1>1, <2>2 DEF InFlight
  <2>4. IF jobs[s].mine THEN compressing' = FALSE /\ pending' = s
        ELSE UNCHANGED <<compressing, pending>>
    BY <1>3 DEF Photo!Compressed
  <2>5. PhotoTypes'
    BY <1>1, <2>2, <2>4 DEF PhotoInv, PhotoTypes
  <2>6. PhotoShown'
    <3>1. CASE jobs[s].mine
      <4>1. Photo!Mine = {s} /\ Photo!Mine' = {s} /\ pending' = s /\ compressing' = FALSE
        BY <1>1, <1>2, <2>2, <2>4, <3>1, FollowsOwn
      <4>. QED  BY <1>1, <1>2, <2>2, <4>1, FollowsOwn DEF PhotoInv, PhotoShown
    <3>2. CASE ~jobs[s].mine
      <4>1. s \notin Photo!Mine /\ Photo!Mine' = Photo!Mine /\ UNCHANGED <<compressing, pending>>
        BY <1>2, <2>2, <2>4, <3>2 DEF Photo!Mine
      <4>2. Photo!Mine \subseteq Slots \ {s} /\ \A t \in Photo!Mine : jobs'[t] = jobs[t]
        BY <2>2, <4>1 DEF Photo!Mine, Photo!Running
      <4>. QED  BY <1>1, <4>1, <4>2 DEF PhotoInv, PhotoShown
    <3>. QED  BY <3>1, <3>2
  <2>7. PhotoCount'
    BY <1>1, <2>3 DEF PhotoInv, PhotoCount, Asked
  <2>. QED  BY <2>5, <2>6, <2>7 DEF PhotoInv
<1>4. CASE Photo!CompressionFails(s)
  <2>1. jobs' = [jobs EXCEPT ![s] = Photo!Idle]
    BY <1>4 DEF Photo!CompressionFails
  <2>2. /\ jobs' \in [Slots -> Jobs] /\ \A t \in Slots : Sound(jobs'[t])
        /\ \A t \in Slots \ {s} : jobs'[t] = jobs[t]
        /\ Photo!Mine' = Photo!Mine \ {s} /\ InFlight' = InFlight \ {s}
    BY <2>1, IdleIsSound, OneJob DEF PhotoInv
  <2>3. compressing' = (compressing /\ ~jobs[s].mine) /\ pending' = pending
    BY <1>4 DEF Photo!CompressionFails
  <2>4. PhotoTypes'
    BY <1>1, <2>2, <2>3 DEF PhotoInv, PhotoTypes
  <2>5. PhotoShown'
    <3>1. CASE jobs[s].mine
      <4>1. Photo!Mine' = {} /\ pending' = NoSlot /\ compressing' = FALSE
        BY <1>1, <2>2, <2>3, <3>1, FollowsOwn
      <4>. QED  BY <1>1, <4>1 DEF PhotoInv, PhotoShown
    <3>2. CASE ~jobs[s].mine
      <4>1. s \notin Photo!Mine /\ Photo!Mine' = Photo!Mine /\ (compressing' <=> compressing)
        BY <2>2, <2>3, <3>2 DEF Photo!Mine
      <4>2. Photo!Mine \subseteq Slots \ {s} /\ \A t \in Photo!Mine : jobs'[t] = jobs[t]
        BY <2>2, <4>1 DEF Photo!Mine, Photo!Running
      <4>. QED  BY <1>1, <2>3, <4>1, <4>2 DEF PhotoInv, PhotoShown
    <3>. QED  BY <3>1, <3>2
  <2>6. PhotoCount'
    BY <1>1, <2>2, FewerFlights
  <2>. QED  BY <2>4, <2>5, <2>6 DEF PhotoInv
<1>. QED  BY <1>3, <1>4

LEMMA StoreKeeps ==
    ASSUME PhotoConstants, PhotoInv, NEW s \in Slots, Photo!Store(s)
    PROVE  PhotoInv'
<1>. DEFINE r == [jobs[s] EXCEPT !.at = "served"]
<1>1. /\ jobs[s].at = "sent" /\ stored' = stored + 1
      /\ jobs' = [jobs EXCEPT ![s] = r] /\ UNCHANGED <<Photo!ui, handed>>
  BY DEF Photo!Store
<1>2. /\ Sound(r) /\ r.at = "served" /\ r.mine = jobs[s].mine
  BY <1>1, FollowsOwn DEF Sound, Jobs
<1>. HIDE DEF r
<1>3. /\ jobs' \in [Slots -> Jobs] /\ \A t \in Slots : Sound(jobs'[t])
      /\ jobs'[s] = r /\ \A t \in Slots \ {s} : jobs'[t] = jobs[t]
      /\ Photo!Mine' = (Photo!Mine \ {s}) \cup (IF r.mine THEN {s} ELSE {})
      /\ InFlight' = InFlight \ {s}
  BY <1>1, <1>2, OneJob DEF PhotoInv
<1>4. Photo!Mine' = Photo!Mine /\ \A t \in Photo!Mine : jobs'[t].at = "compressing" <=> jobs[t].at = "compressing"
  <2>1. s \in Photo!Mine <=> r.mine
    BY <1>1, <1>2 DEF Photo!Mine, Photo!Running
  <2>2. Photo!Mine \subseteq Slots
    BY DEF Photo!Mine, Photo!Running
  <2>. QED  BY <1>1, <1>2, <1>3, <2>1, <2>2
<1>5. PhotoTypes'
  BY <1>1, <1>3 DEF PhotoInv, PhotoTypes, Photo!ui
<1>6. PhotoShown'
  BY <1>1, <1>4 DEF PhotoInv, PhotoShown, Photo!ui
<1>7. PhotoCount'
  <2>1. s \in InFlight
    BY <1>1 DEF InFlight
  <2>2. /\ Cardinality(InFlight') <= Cardinality(InFlight) - 1
        /\ Cardinality(InFlight) \in Nat /\ Cardinality(InFlight') \in Nat
    BY <1>3, <2>1, FlightsCounted
  <2>. QED  BY <1>1, <2>2 DEF PhotoInv, PhotoTypes, PhotoCount, Asked, Photo!ui
<1>. QED  BY <1>5, <1>6, <1>7 DEF PhotoInv

LEMMA AnswerKeeps ==
    ASSUME PhotoConstants, PhotoInv, NEW s \in Slots, Photo!Answer(s) \/ Photo!Fails(s)
    PROVE  PhotoInv'
<1>1. /\ UNCHANGED <<host, mounted, prompt, compressing, stored, handed>>
      /\ jobs[s].at \in {"sent", "served"} /\ jobs' = [jobs EXCEPT ![s] = Photo!Idle]
      /\ input' \in {input, NoFile}
      /\ pending' = IF pending = s THEN NoSlot ELSE pending
  BY DEF Photo!Answer, Photo!Fails
<1>2. /\ jobs' \in [Slots -> Jobs] /\ \A t \in Slots : Sound(jobs'[t])
      /\ \A t \in Slots \ {s} : jobs'[t] = jobs[t]
      /\ Photo!Mine' = Photo!Mine \ {s} /\ InFlight' = InFlight \ {s}
  BY <1>1, IdleIsSound, OneJob DEF PhotoInv
<1>3. PhotoTypes'
  BY <1>1, <1>2 DEF PhotoInv, PhotoTypes
<1>4. PhotoShown'
  <2>1. CASE pending = s
    <3>1. Photo!Mine' = {} /\ pending' = NoSlot /\ compressing' = FALSE
      BY <1>1, <1>2, <2>1, FollowsOwn DEF PhotoInv, PhotoTypes
    <3>. QED  BY <1>1, <3>1 DEF PhotoInv, PhotoShown
  <2>2. CASE pending # s
    <3>1. s \notin Photo!Mine /\ Photo!Mine' = Photo!Mine /\ pending' = pending
      BY <1>1, <1>2, <2>2, FollowsOwn DEF Photo!Mine
    <3>2. Photo!Mine \subseteq Slots \ {s} /\ \A t \in Photo!Mine : jobs'[t] = jobs[t]
      BY <1>2, <3>1 DEF Photo!Mine, Photo!Running
    <3>. QED  BY <1>1, <3>1, <3>2 DEF PhotoInv, PhotoShown
  <2>. QED  BY <2>1, <2>2
<1>5. PhotoCount'
  BY <1>1, <1>2, FewerFlights
<1>. QED  BY <1>3, <1>4, <1>5 DEF PhotoInv

LEMMA NextPhoto == ASSUME PhotoConstants, PhotoInv, [Photo!Next]_(Photo!vars) PROVE PhotoInv'
<1>1. ASSUME NEW f \in Photo!Files, Photo!Choose(f) PROVE PhotoInv'
  BY <1>1, HandInKeeps DEF Photo!Choose
<1>2. CASE Photo!Again
  <2>1. input \in Photo!Files /\ Photo!Free /\ Photo!HandIn(input) /\ input' = input
    BY <1>2 DEF Photo!Again, PhotoInv, PhotoTypes
  <2>2. PICK f \in Photo!Files : f = input
    BY <2>1
  <2>. QED  BY <2>1, <2>2, HandInKeeps
<1>3. CASE Photo!Dismiss \/ Photo!Close \/ Photo!Open
  BY <1>3, ScreenKeeps
<1>4. ASSUME NEW s \in Slots, Photo!Confirm(s) \/ Photo!Skip(s) \/ Photo!Proceeds(s) PROVE PhotoInv'
  BY <1>4, PromptKeeps, CompressionKeeps, StoreKeeps, AnswerKeeps DEF Photo!Proceeds
<1>5. CASE UNCHANGED Photo!vars
  <2>1. Photo!Mine' = Photo!Mine /\ InFlight' = InFlight
    BY <1>5 DEF Photo!vars, Photo!Mine, Photo!Running, InFlight
  <2>. QED  BY <1>5, <2>1 DEF Photo!vars, Photo!ui, PhotoInv, PhotoTypes, PhotoShown, PhotoCount, Asked
<1>. QED  BY <1>1, <1>2, <1>3, <1>4, <1>5 DEF Photo!Next

\* The cardinality that Upload counts with is that of the facts above.
LEMMA SameCardinality ==
    ASSUME NEW S
    PROVE  Photo!Cardinality(S) = Cardinality(S)
BY DEF Photo!Cardinality, Cardinality

LEMMA PhotoIsConsistent == ASSUME PhotoConstants, PhotoInv PROVE Photo!PipelineConsistent
<1>1. Photo!UploadTypeOK
  BY DEF PhotoInv, PhotoTypes, Photo!UploadTypeOK, Jobs
<1>2. Photo!ShowsWhatRuns
  <2>1. IsFiniteSet(Photo!Mine)
    BY FS_Subset DEF Photo!Mine, Photo!Running, PhotoConstants
  <2>2. Cardinality(Photo!Mine) <= 1
    <3>1. CASE Photo!Mine = {}
      BY <3>1, FS_EmptySet
    <3>2. ASSUME NEW s \in Photo!Mine PROVE Cardinality(Photo!Mine) = 1
      <4>1. Photo!Mine = {s}
        BY <3>2 DEF PhotoInv, PhotoShown
      <4>. QED  BY <4>1, FS_Singleton
    <3>. QED  BY <3>1, <3>2
  <2>3. \A s \in Photo!Mine : s \in Slots /\ jobs[s].at \in {"compressing", "sent", "served"}
    BY DEF Photo!Mine, Photo!Running, PhotoInv, PhotoTypes, Jobs
  <2>4. pending \in Slots \cup {NoSlot} /\ NoSlot \notin Slots /\ PhotoShown
    BY DEF PhotoInv, PhotoTypes, PhotoConstants
  <2>. QED  BY <2>2, <2>3, <2>4, SameCardinality DEF Photo!ShowsWhatRuns, PhotoShown
<1>3. Photo!StoredOnce
  <2>1. InFlight = {s \in Photo!Running : jobs[s].at # "served"}
    BY DEF InFlight, Photo!Running, PhotoInv, PhotoTypes, Jobs
  <2>. QED  BY <2>1, SameCardinality DEF PhotoInv, PhotoCount, Asked, Photo!StoredOnce
<1>4. Photo!NothingTooLarge
  BY DEF PhotoInv, PhotoTypes, Sound, Photo!NothingTooLarge
<1>. QED  BY <1>1, <1>2, <1>3, <1>4 DEF Photo!PipelineConsistent

\* The properties of the instance are those of UploadState.
LEMMA SamePhotoProperties == Photo!PipelineConsistent => PipelineConsistent
<1>1. Photo!UploadTypeOK <=> UploadTypeOK
  BY DEF Photo!UploadTypeOK, UploadTypeOK, Photo!Files, Files
<1>2. Photo!Running = Running /\ Photo!Mine = Mine
  BY DEF Photo!Running, Running, Photo!Mine, Mine
<1>3. Photo!ShowsWhatRuns <=> ShowsWhatRuns
  BY <1>2, SameCardinality DEF Photo!ShowsWhatRuns, ShowsWhatRuns
<1>4. Photo!StoredOnce <=> StoredOnce
  BY <1>2, SameCardinality DEF Photo!StoredOnce, StoredOnce
<1>5. Photo!NothingTooLarge <=> NothingTooLarge
  BY DEF Photo!NothingTooLarge, NothingTooLarge
<1>. QED
  BY <1>1, <1>3, <1>4, <1>5 DEF Photo!PipelineConsistent, PipelineConsistent

(***************************************************************************)
(* Whatever is handed in, asked about, compressed, sent and closed         *)
(* meanwhile (useImageUpload): the screen shows the one thing that runs    *)
(* for it, a file is stored at most once, and nothing above the limit is   *)
(* sent as it is.                                                          *)
(***************************************************************************)
THEOREM PhotosStayInOrder == Photo!Spec => []PipelineConsistent
<1>. PhotoConstants
  BY UploadAssumption, NoFileAssumption DEF PhotoConstants, Photo!Files, Files
<1>1. Photo!Init => PhotoInv
  BY InitPhoto
<1>2. PhotoInv /\ [Photo!Next]_(Photo!vars) => PhotoInv'
  BY NextPhoto
<1>3. PhotoInv => PipelineConsistent
  BY PhotoIsConsistent, SamePhotoProperties
<1>. QED  BY <1>1, <1>2, <1>3, PTL DEF Photo!Spec

-----------------------------------------------------------------------------
Past == INSTANCE History

\* What HistoryState assumes of its constants.
PastConstants ==
    /\ Ids \subseteq Nat \ {0} /\ IsFiniteSet(Ids) /\ Starts \subseteq SUBSET Ids
    /\ PageSize \in Nat \ {0} /\ MaxPage \in Nat \ {0} /\ MaxCommits \in Nat

\* The cardinality that History counts with is that of the facts below.
LEMMA SameCount == ASSUME NEW S PROVE Past!Cardinality(S) = Cardinality(S)
BY DEF Past!Cardinality, Cardinality

\* How many come before x.
Before(S, x) == Cardinality({y \in S : y < x})

LEMMA RanksGrow ==
    ASSUME NEW S \in SUBSET Nat, IsFiniteSet(S), NEW x \in S, NEW y \in S, x < y
    PROVE  Before(S, x) < Before(S, y)
<1>. DEFINE X == {z \in S : z < x}
            Y == {z \in S : z < y}
<1>1. X \in SUBSET Y /\ x \in Y /\ x \notin X
  <2>1. \A z \in S : z \in Nat /\ (z < x => z < y) /\ ~(x < x)
    OBVIOUS
  <2>. QED  BY <2>1
<1>2. IsFiniteSet(Y)
  BY FS_Subset
<1>. HIDE DEF X, Y
<1>3. Cardinality(X) <= Cardinality(Y) /\ Cardinality(X) # Cardinality(Y)
  BY <1>1, <1>2, FS_Subset
<1>4. Cardinality(X) \in Nat /\ Cardinality(Y) \in Nat
  BY <1>1, <1>2, FS_Subset, FS_CardinalityType
<1>. QED  BY <1>3, <1>4 DEF Before, X, Y

LEMMA RankIsPlace ==
    ASSUME NEW S \in SUBSET Nat, IsFiniteSet(S), NEW x \in S
    PROVE  Before(S, x) \in 0 .. Cardinality(S) - 1
<1>. DEFINE X == {z \in S : z < x}
<1>1. X \in SUBSET S /\ x \notin X
  OBVIOUS
<1>. HIDE DEF X
<1>2. /\ Cardinality(X) <= Cardinality(S) /\ Cardinality(X) # Cardinality(S)
      /\ Cardinality(X) \in Nat /\ Cardinality(S) \in Nat
  BY <1>1, FS_Subset, FS_CardinalityType
<1>. QED  BY <1>2 DEF Before, X

\* Every place is taken.
LEMMA RanksTaken ==
    ASSUME NEW S \in SUBSET Nat, IsFiniteSet(S), NEW n \in 0 .. Cardinality(S) - 1
    PROVE  \E x \in S : Before(S, x) = n
<1>. DEFINE places == 0 .. Cardinality(S) - 1
            rank   == [x \in S |-> Before(S, x)]
<1>1. Cardinality(S) \in Nat
  BY FS_CardinalityType
<1>2. IsFiniteSet(places) /\ Cardinality(places) = Cardinality(S)
  BY <1>1, FS_Interval
<1>3. rank \in [S -> places]
  BY RankIsPlace
<1>4. \A x, y \in S : rank[x] = rank[y] => x = y
  <2>. SUFFICES ASSUME NEW x \in S, NEW y \in S, x # y PROVE rank[x] # rank[y]
    OBVIOUS
  <2>1. x < y \/ y < x
    OBVIOUS
  <2>2. Before(S, x) < Before(S, y) \/ Before(S, y) < Before(S, x)
    BY <2>1, RanksGrow
  <2>. QED  BY <2>2, RankIsPlace, <1>1
<1>5. rank \in Injection(S, places)
  BY <1>3, <1>4 DEF Injection, IsInjective
<1>6. rank \in Surjection(S, places)
  BY <1>2, <1>5, FS_Injection
<1>. QED  BY <1>6 DEF Surjection

LEMMA InOrderIs ==
    ASSUME NEW S \in SUBSET Nat, IsFiniteSet(S)
    PROVE  /\ Past!InOrder(S) \in [1 .. Cardinality(S) -> S]
           /\ \A n \in 1 .. Cardinality(S) : Before(S, Past!InOrder(S)[n]) = n - 1
           /\ \A x \in S : /\ Before(S, x) + 1 \in 1 .. Cardinality(S)
                           /\ Past!InOrder(S)[Before(S, x) + 1] = x
<1>1. Past!InOrder(S) = [n \in 1 .. Cardinality(S) |->
                      CHOOSE id \in S : Cardinality({x \in S : x < id}) = n - 1]
  BY Zenon DEF Past!InOrder, Past!Cardinality, Cardinality
<1>2. Past!InOrder(S) = [n \in 1 .. Cardinality(S) |-> CHOOSE x \in S : Before(S, x) = n - 1]
  BY <1>1, Zenon DEF Before
<1>3. Cardinality(S) \in Nat
  BY FS_CardinalityType
<1>4. ASSUME NEW n \in 1 .. Cardinality(S)
      PROVE  Past!InOrder(S)[n] \in S /\ Before(S, Past!InOrder(S)[n]) = n - 1
  <2>1. n - 1 \in 0 .. Cardinality(S) - 1
    BY <1>3
  <2>2. \E x \in S : Before(S, x) = n - 1
    BY <2>1, RanksTaken
  <2>. QED  BY <1>2, <2>2
<1>5. ASSUME NEW x \in S
      PROVE  /\ Before(S, x) + 1 \in 1 .. Cardinality(S)
             /\ Past!InOrder(S)[Before(S, x) + 1] = x
  <2>1. Before(S, x) \in 0 .. Cardinality(S) - 1
    BY RankIsPlace
  <2>. DEFINE n == Before(S, x) + 1
              y == Past!InOrder(S)[n]
  <2>2. n \in 1 .. Cardinality(S)
    BY <1>3, <2>1
  <2>3. y \in S /\ Before(S, y) = Before(S, x)
    BY <1>4, <2>1, <2>2
  <2>4. ~(x < y) /\ ~(y < x)
    <3>. HIDE DEF y
    <3>. QED  BY <2>1, <2>3, RanksGrow
  <2>5. x \in Nat /\ y \in Nat
    BY <2>3
  <2>. HIDE DEF y
  <2>6. y = x
    BY <2>4, <2>5
  <2>. QED  BY <2>2, <2>6 DEF y
<1>. QED  BY <1>2, <1>4, <1>5

-----------------------------------------------------------------------------
Entry == [id : Ids, rev : Past!Changes]

Unique(rs) == \A i, j \in DOMAIN rs : rs[i].id = rs[j].id => i = j

LEMMA IdsInOrder ==
    ASSUME PastConstants, NEW S \in SUBSET Ids
    PROVE  S \in SUBSET Nat /\ IsFiniteSet(S) /\ Cardinality(S) \in Nat
BY FS_Subset, FS_CardinalityType DEF PastConstants

\* What a list of records is, element by element.
LEMMA ListedIs ==
    ASSUME PastConstants, NEW S \in SUBSET Ids, NEW revs, \A id \in S : revs[id] \in Past!Changes
    PROVE  /\ Past!Listed(revs, S) \in Seq(Entry)
           /\ Len(Past!Listed(revs, S)) = Cardinality(S)
           /\ DOMAIN Past!Listed(revs, S) = 1 .. Cardinality(S)
           /\ \A n \in 1 .. Cardinality(S) :
                 Past!Listed(revs, S)[n] = [id |-> Past!InOrder(S)[n], rev |-> revs[Past!InOrder(S)[n]]]
<1>1. S \in SUBSET Nat /\ IsFiniteSet(S) /\ Cardinality(S) \in Nat
  BY IdsInOrder
<1>2. Past!InOrder(S) \in [1 .. Cardinality(S) -> S]
  BY <1>1, InOrderIs
<1>. DEFINE c == Cardinality(S)
            l == [n \in 1 .. c |-> [id |-> Past!InOrder(S)[n], rev |-> revs[Past!InOrder(S)[n]]]]
<1>3. Past!Listed(revs, S) = l
  BY <1>2 DEF Past!Listed
<1>4. l \in [1 .. c -> Entry]
  <2>. SUFFICES ASSUME NEW n \in 1 .. c
                PROVE  [id |-> Past!InOrder(S)[n], rev |-> revs[Past!InOrder(S)[n]]] \in Entry
    OBVIOUS
  <2>1. Past!InOrder(S)[n] \in Ids /\ revs[Past!InOrder(S)[n]] \in Past!Changes
    BY <1>2
  <2>. QED  BY <2>1 DEF Entry
<1>5. l \in Seq(Entry) /\ Len(l) = c
  <2>. HIDE DEF l
  <2>. QED  BY <1>1, <1>4
<1>. QED  BY <1>3, <1>5

LEMMA ListedShows ==
    ASSUME PastConstants, NEW S \in SUBSET Ids, NEW revs, \A id \in S : revs[id] \in Past!Changes
    PROVE  /\ Unique(Past!Listed(revs, S)) /\ Past!Shown(Past!Listed(revs, S)) = S
           /\ \A n \in DOMAIN Past!Listed(revs, S) :
                 /\ Past!Listed(revs, S)[n].id \in S
                 /\ Past!Listed(revs, S)[n].rev = revs[Past!Listed(revs, S)[n].id]
           /\ S = {} <=> Past!Listed(revs, S) = <<>>
<1>1. S \in SUBSET Nat /\ IsFiniteSet(S) /\ Cardinality(S) \in Nat
  BY IdsInOrder
<1>2. /\ Past!InOrder(S) \in [1 .. Cardinality(S) -> S]
      /\ \A n \in 1 .. Cardinality(S) : Before(S, Past!InOrder(S)[n]) = n - 1
      /\ \A x \in S : /\ Before(S, x) + 1 \in 1 .. Cardinality(S)
                      /\ Past!InOrder(S)[Before(S, x) + 1] = x
  BY <1>1, InOrderIs
<1>. DEFINE l == Past!Listed(revs, S)
<1>3. /\ l \in Seq(Entry) /\ DOMAIN l = 1 .. Cardinality(S) /\ Len(l) = Cardinality(S)
      /\ \A n \in DOMAIN l : l[n] = [id |-> Past!InOrder(S)[n], rev |-> revs[Past!InOrder(S)[n]]]
  BY ListedIs
<1>. HIDE DEF l
<1>4. \A n \in DOMAIN l : l[n].id = Past!InOrder(S)[n] /\ l[n].id \in S /\ l[n].rev = revs[l[n].id]
  BY <1>2, <1>3
<1>5. Unique(l)
  <2>. SUFFICES ASSUME NEW i \in DOMAIN l, NEW j \in DOMAIN l, l[i].id = l[j].id PROVE i = j
    BY DEF Unique
  <2>1. Past!InOrder(S)[i] = Past!InOrder(S)[j] /\ i \in 1 .. Cardinality(S) /\ j \in 1 .. Cardinality(S)
    BY <1>3, <1>4
  <2>2. i - 1 = j - 1
    BY <1>2, <2>1
  <2>. QED  BY <1>1, <2>1, <2>2
<1>6. Past!Shown(l) = S
  <2>1. \A x \in S : \E n \in DOMAIN l : l[n].id = x
    BY <1>2, <1>3, <1>4
  <2>. QED  BY <1>4, <2>1 DEF Past!Shown
<1>7. S = {} <=> l = <<>>
  <2>1. S = {} <=> Cardinality(S) = 0
    BY <1>1, FS_EmptySet
  <2>2. l = <<>> <=> Len(l) = 0
    BY <1>3, EmptySeq
  <2>. QED  BY <1>3, <2>1, <2>2
<1>. QED  BY <1>4, <1>5, <1>6, <1>7 DEF l

LEMMA ListedSame ==
    ASSUME PastConstants, NEW S \in SUBSET Ids, NEW f, NEW g,
           \A id \in S : f[id] = g[id] /\ f[id] \in Past!Changes
    PROVE  Past!Listed(f, S) = Past!Listed(g, S)
<1>1. Past!InOrder(S) \in [1 .. Cardinality(S) -> S]
  BY IdsInOrder, InOrderIs
<1>. QED  BY <1>1 DEF Past!Listed

\* Two lists of which one comes before the other.
LEMMA RanksJoin ==
    ASSUME PastConstants, NEW A \in SUBSET Ids, NEW B \in SUBSET Ids,
           \A a \in A, b \in B : a < b
    PROVE  /\ Cardinality(A \cup B) = Cardinality(A) + Cardinality(B)
           /\ \A a \in A : Before(A \cup B, a) = Before(A, a)
           /\ \A b \in B : Before(A \cup B, b) = Cardinality(A) + Before(B, b)
<1>1. /\ A \in SUBSET Nat /\ IsFiniteSet(A) /\ Cardinality(A) \in Nat
      /\ B \in SUBSET Nat /\ IsFiniteSet(B) /\ Cardinality(B) \in Nat
  BY IdsInOrder
<1>2. ASSUME NEW C \in SUBSET B
      PROVE  Cardinality(A \cup C) = Cardinality(A) + Cardinality(C)
  <2>1. IsFiniteSet(C) /\ Cardinality(C) \in Nat
    BY <1>1, FS_Subset, FS_CardinalityType
  <2>2. A \cap C = {}
    <3>1. \A a \in A : ~(a < a)
      BY <1>1
    <3>. QED  BY <3>1
  <2>3. Cardinality(A \cap C) = 0
    BY <2>2, FS_EmptySet
  <2>4. Cardinality(A \cup C) = Cardinality(A) + Cardinality(C) - Cardinality(A \cap C)
    BY <1>1, <2>1, FS_Union
  <2>. QED  BY <1>1, <2>1, <2>3, <2>4
<1>3. ASSUME NEW a \in A PROVE Before(A \cup B, a) = Before(A, a)
  <2>1. \A b \in B : ~(b < a)
    BY <1>1
  <2>2. {y \in A \cup B : y < a} = {y \in A : y < a}
    BY <2>1
  <2>. QED  BY <2>2 DEF Before
<1>4. ASSUME NEW b \in B PROVE Before(A \cup B, b) = Cardinality(A) + Before(B, b)
  <2>. DEFINE C == {y \in B : y < b}
  <2>1. {y \in A \cup B : y < b} = A \cup C
    OBVIOUS
  <2>2. C \in SUBSET B
    OBVIOUS
  <2>. HIDE DEF C
  <2>3. Before(A \cup B, b) = Cardinality(A \cup C)
    BY <2>1 DEF Before
  <2>. QED  BY <1>2, <2>2, <2>3 DEF Before, C
<1>. QED  BY <1>2, <1>3, <1>4

LEMMA ListedJoin ==
    ASSUME PastConstants, NEW A \in SUBSET Ids, NEW B \in SUBSET Ids,
           \A a \in A, b \in B : a < b,
           NEW revs, \A id \in A \cup B : revs[id] \in Past!Changes
    PROVE  Past!Listed(revs, A) \o Past!Listed(revs, B) = Past!Listed(revs, A \cup B)
<1>. DEFINE U == A \cup B
            m == Cardinality(A)
            n == Cardinality(B)
<1>1. /\ A \in SUBSET Nat /\ IsFiniteSet(A) /\ m \in Nat
      /\ B \in SUBSET Nat /\ IsFiniteSet(B) /\ n \in Nat
      /\ U \in SUBSET Nat /\ IsFiniteSet(U) /\ U \in SUBSET Ids
  BY IdsInOrder
<1>2. /\ Cardinality(U) = m + n
      /\ \A a \in A : Before(U, a) = Before(A, a)
      /\ \A b \in B : Before(U, b) = m + Before(B, b)
  BY RanksJoin
<1>3. \A i \in 1 .. m : Past!InOrder(A)[i] \in A /\ Before(A, Past!InOrder(A)[i]) = i - 1
  BY <1>1, InOrderIs
<1>4. \A i \in 1 .. n : Past!InOrder(B)[i] \in B /\ Before(B, Past!InOrder(B)[i]) = i - 1
  BY <1>1, InOrderIs
<1>5. \A x \in U : Past!InOrder(U)[Before(U, x) + 1] = x
  BY <1>1, InOrderIs
<1>6. ASSUME NEW i \in 1 .. m PROVE Past!InOrder(U)[i] = Past!InOrder(A)[i]
  <2>1. Before(U, Past!InOrder(A)[i]) + 1 = i /\ Past!InOrder(A)[i] \in U
    <3>. DEFINE a == Past!InOrder(A)[i]
    <3>. HIDE DEF a, m, n, U
    <3>1. a \in A /\ Before(A, a) = i - 1
      BY <1>3 DEF a
    <3>2. a \in U
      BY <3>1 DEF U
    <3>3. Before(U, a) = i - 1
      BY <1>2, <3>1
    <3>. QED  BY <1>1, <3>2, <3>3 DEF a
  <2>. QED  BY <1>5, <2>1
<1>7. ASSUME NEW i \in m + 1 .. m + n PROVE Past!InOrder(U)[i] = Past!InOrder(B)[i - m]
  <2>0. i - m \in 1 .. n
    BY <1>1
  <2>. DEFINE b == Past!InOrder(B)[i - m]
  <2>1. b \in B /\ Before(B, b) = (i - m) - 1
    BY <1>4, <2>0
  <2>2. Before(U, b) + 1 = i /\ b \in U
    <3>. HIDE DEF b, m, n, U
    <3>1. b \in U
      BY <2>1 DEF U
    <3>2. Before(U, b) = m + ((i - m) - 1)
      BY <1>2, <2>1
    <3>. QED  BY <1>1, <3>1, <3>2
  <2>. QED  BY <1>5, <2>2
<1>. DEFINE s == Past!Listed(revs, A)
            t == Past!Listed(revs, B)
            u == Past!Listed(revs, U)
<1>8. /\ s \in Seq(Entry) /\ Len(s) = m
      /\ \A i \in 1 .. m : s[i] = [id |-> Past!InOrder(A)[i], rev |-> revs[Past!InOrder(A)[i]]]
  BY ListedIs
<1>9. /\ t \in Seq(Entry) /\ Len(t) = n
      /\ \A i \in 1 .. n : t[i] = [id |-> Past!InOrder(B)[i], rev |-> revs[Past!InOrder(B)[i]]]
  BY ListedIs
<1>10. /\ u \in Seq(Entry) /\ Len(u) = m + n
       /\ \A i \in 1 .. m + n : u[i] = [id |-> Past!InOrder(U)[i], rev |-> revs[Past!InOrder(U)[i]]]
  <2>1. /\ u \in Seq(Entry) /\ Len(u) = Cardinality(U)
        /\ \A i \in 1 .. Cardinality(U) :
              u[i] = [id |-> Past!InOrder(U)[i], rev |-> revs[Past!InOrder(U)[i]]]
    BY <1>1, ListedIs
  <2>. HIDE DEF u, m, n, U
  <2>. QED  BY <1>2, <2>1
<1>. HIDE DEF s, t, u, m, n, U
<1>11. /\ s \o t \in Seq(Entry) /\ Len(s \o t) = m + n
       /\ \A i \in 1 .. m + n : (s \o t)[i] = IF i <= m THEN s[i] ELSE t[i - m]
  BY <1>8, <1>9, ConcatProperties
<1>12. ASSUME NEW i \in 1 .. m + n PROVE (s \o t)[i] = u[i]
  <2>1. CASE i <= m
    <3>1. i \in 1 .. m
      BY <1>1, <2>1
    <3>. QED  BY <1>6, <1>8, <1>10, <1>11, <2>1, <3>1
  <2>2. CASE ~(i <= m)
    <3>1. i \in m + 1 .. m + n /\ i - m \in 1 .. n
      BY <1>1, <2>2
    <3>. QED  BY <1>7, <1>9, <1>10, <1>11, <2>2, <3>1
  <2>. QED  BY <2>1, <2>2
<1>13. s \o t = u
  BY <1>1, <1>10, <1>11, <1>12, SeqEqual
<1>. QED  BY <1>13 DEF s, t, u, U

\* The items of an answer.
ItemsAre(items) == DOMAIN items \in SUBSET Ids /\ \A id \in DOMAIN items : items[id] \in Past!Changes

\* What the loop of the effect makes of one record of the list.
Updated(r, items) ==
    IF r.id \in DOMAIN items THEN [r EXCEPT !.rev = items[r.id]] ELSE r

LEMMA InPlace ==
    ASSUME NEW items, ItemsAre(items), NEW r \in Entry
    PROVE  /\ Updated(r, items) \in Entry /\ Updated(r, items).id = r.id
           /\ r.id \in DOMAIN items => Updated(r, items).rev = items[r.id]
           /\ r.id \notin DOMAIN items => Updated(r, items) = r
           /\ (r.id \in DOMAIN items => items[r.id] = r.rev) => Updated(r, items) = r
<1>1. r.id \in Ids /\ r.rev \in Past!Changes /\ r = [id |-> r.id, rev |-> r.rev]
  BY DEF Entry
<1>2. CASE r.id \in DOMAIN items
  <2>1. Updated(r, items) = [id |-> r.id, rev |-> items[r.id]]
    BY <1>1, <1>2 DEF Updated
  <2>2. items[r.id] \in Past!Changes
    BY <1>2 DEF ItemsAre
  <2>. QED  BY <1>1, <1>2, <2>1, <2>2 DEF Entry
<1>3. CASE r.id \notin DOMAIN items
  BY <1>3 DEF Updated
<1>. QED  BY <1>2, <1>3

LEMMA ListLength == ASSUME NEW S, NEW s \in Seq(S)
                    PROVE  Len(s) \in Nat /\ DOMAIN s = 1 .. Len(s) /\ \A i \in DOMAIN s : s[i] \in S
  BY LenProperties

LEMMA MergeIs ==
    ASSUME PastConstants, NEW rs \in Seq(Entry), Unique(rs), NEW items, ItemsAre(items)
    PROVE  /\ Past!Merge(rs, items) \in Seq(Entry) /\ Unique(Past!Merge(rs, items))
           /\ Past!Shown(Past!Merge(rs, items)) = Past!Shown(rs) \cup DOMAIN items
           /\ rs # <<>> => Past!Merge(rs, items) # <<>>
           /\ \A n \in DOMAIN Past!Merge(rs, items) :
                 \/ /\ Past!Merge(rs, items)[n].id \in DOMAIN items
                    /\ Past!Merge(rs, items)[n].rev = items[Past!Merge(rs, items)[n].id]
                 \/ \E i \in DOMAIN rs : Past!Merge(rs, items)[n] = rs[i]
<1>. DEFINE new == DOMAIN items \ Past!Shown(rs)
            s   == [i \in DOMAIN rs |-> IF rs[i].id \in DOMAIN items
                                        THEN [rs[i] EXCEPT !.rev = items[rs[i].id]] ELSE rs[i]]
            t   == Past!Listed(items, new)
<1>1. Past!Merge(rs, items) = s \o t
  BY DEF Past!Merge
<1>2. \A i \in DOMAIN rs :
         /\ s[i] \in Entry /\ s[i].id = rs[i].id
         /\ s[i].id \in DOMAIN items => s[i].rev = items[s[i].id]
         /\ s[i].id \notin DOMAIN items => s[i] = rs[i]
  <2>1. \A i \in DOMAIN rs : s[i] = Updated(rs[i], items)
    BY DEF Updated
  <2>2. \A i \in DOMAIN rs : rs[i] \in Entry
    BY ListLength
  <2>. HIDE DEF s
  <2>. QED  BY <2>1, <2>2, InPlace
<1>3. DOMAIN rs = 1 .. Len(rs) /\ Len(rs) \in Nat
  BY LenProperties
<1>4. s \in Seq(Entry) /\ Len(s) = Len(rs)
  <2>1. s \in [1 .. Len(rs) -> Entry]
    BY <1>2, <1>3
  <2>. HIDE DEF s
  <2>. QED  BY <1>3, <2>1
<1>5. new \in SUBSET Ids /\ \A id \in new : items[id] \in Past!Changes
  BY DEF ItemsAre
<1>6. t \in Seq(Entry) /\ Len(t) \in Nat /\ DOMAIN t = 1 .. Len(t)
  BY <1>5, ListedIs, LenProperties
<1>7. /\ Unique(t) /\ Past!Shown(t) = new
      /\ \A n \in DOMAIN t : t[n].id \in new /\ t[n].rev = items[t[n].id]
  BY <1>5, ListedShows
<1>. DEFINE u == s \o t
            m == Len(rs)
            k == Len(t)
<1>. HIDE DEF s, t
<1>8. /\ u \in Seq(Entry) /\ Len(u) = m + k /\ DOMAIN u = 1 .. m + k
      /\ \A i \in 1 .. m + k : u[i] = IF i <= m THEN s[i] ELSE t[i - m]
  <2>1. s \o t \in Seq(Entry)
    BY <1>4, <1>6, ConcatProperties
  <2>2. /\ Len(s \o t) = Len(s) + Len(t)
        /\ \A i \in 1 .. Len(s) + Len(t) :
              (s \o t)[i] = IF i <= Len(s) THEN s[i] ELSE t[i - Len(s)]
    BY <1>4, <1>6, ConcatProperties
  <2>. HIDE DEF u, m, k
  <2>3. u = s \o t /\ m = Len(s) /\ k = Len(t)
    BY <1>4 DEF u, m, k
  <2>4. u \in Seq(Entry) /\ Len(u) = m + k
    BY <2>1, <2>2, <2>3
  <2>5. DOMAIN u = 1 .. m + k
    BY <2>4, ListLength
  <2>. QED  BY <2>2, <2>3, <2>4, <2>5
<1>. HIDE DEF u, m, k, new
<1>9. m \in Nat /\ k \in Nat /\ DOMAIN rs = 1 .. m /\ DOMAIN t = 1 .. k
  BY <1>3, <1>6 DEF m, k
<1>10. ASSUME NEW i \in DOMAIN u
       PROVE  \/ i \in DOMAIN rs /\ u[i] = s[i]
              \/ i \notin DOMAIN rs /\ i - m \in DOMAIN t /\ u[i] = t[i - m]
  <2>1. i \in 1 .. m + k /\ u[i] = IF i <= m THEN s[i] ELSE t[i - m]
    BY <1>8
  <2>. QED  BY <1>9, <2>1
<1>11. ASSUME NEW i \in DOMAIN rs PROVE i \in DOMAIN u /\ u[i] = s[i]
  BY <1>8, <1>9
<1>12. ASSUME NEW i \in DOMAIN t PROVE m + i \in DOMAIN u /\ u[m + i] = t[i]
  <2>1. i \in 1 .. k
    BY <1>9
  <2>2. m + i \in 1 .. m + k /\ ~(m + i <= m) /\ (m + i) - m = i
    BY <1>9, <2>1
  <2>3. u[m + i] = t[(m + i) - m]
    BY <1>8, <2>2
  <2>. QED  BY <1>8, <2>2, <2>3
<1>13. Past!Shown(u) = Past!Shown(rs) \cup DOMAIN items
  <2>1. \A i \in DOMAIN u : u[i].id \in Past!Shown(rs) \cup new
    <3>. SUFFICES ASSUME NEW i \in DOMAIN u PROVE u[i].id \in Past!Shown(rs) \cup new
      OBVIOUS
    <3>1. CASE i \in DOMAIN rs /\ u[i] = s[i]
      BY <1>2, <3>1 DEF Past!Shown
    <3>2. CASE i - m \in DOMAIN t /\ u[i] = t[i - m]
      BY <1>7, <3>2
    <3>. QED  BY <1>10, <3>1, <3>2
  <2>2. \A x \in Past!Shown(rs) : \E i \in DOMAIN u : u[i].id = x
    BY <1>2, <1>11 DEF Past!Shown
  <2>3. \A x \in new : \E i \in DOMAIN u : u[i].id = x
    BY <1>7, <1>12 DEF Past!Shown
  <2>. QED  BY <2>1, <2>2, <2>3 DEF Past!Shown, new
<1>14. Unique(u)
  <2>. SUFFICES ASSUME NEW i \in DOMAIN u, NEW j \in DOMAIN u, u[i].id = u[j].id PROVE i = j
    BY DEF Unique
  <2>1. \A n \in DOMAIN rs : s[n].id \notin new
    BY <1>2 DEF Past!Shown, new
  <2>2. i \in Nat /\ j \in Nat
    BY <1>8, <1>9
  <2>3. CASE i \in DOMAIN rs /\ j \in DOMAIN rs
    BY <1>2, <1>11, <2>3 DEF Unique
  <2>4. CASE i \in DOMAIN rs /\ j \notin DOMAIN rs
    BY <1>7, <1>10, <1>11, <2>1, <2>4
  <2>5. CASE i \notin DOMAIN rs /\ j \in DOMAIN rs
    BY <1>7, <1>10, <1>11, <2>1, <2>5
  <2>6. CASE i \notin DOMAIN rs /\ j \notin DOMAIN rs
    <3>1. i - m = j - m
      BY <1>7, <1>10, <2>6 DEF Unique
    <3>. QED  BY <1>9, <2>2, <3>1
  <2>. QED  BY <2>3, <2>4, <2>5, <2>6
<1>15. rs # <<>> => u # <<>>
  <2>1. rs # <<>> => m # 0
    BY EmptySeq DEF m
  <2>2. u = <<>> => m + k = 0
    BY <1>8
  <2>. QED  BY <1>9, <2>1, <2>2
<1>16. ASSUME NEW n \in DOMAIN u
       PROVE  \/ u[n].id \in DOMAIN items /\ u[n].rev = items[u[n].id]
              \/ \E i \in DOMAIN rs : u[n] = rs[i]
  <2>1. CASE n \in DOMAIN rs /\ u[n] = s[n]
    BY <1>2, <2>1
  <2>2. CASE n - m \in DOMAIN t /\ u[n] = t[n - m]
    BY <1>7, <2>2 DEF new
  <2>. QED  BY <1>10, <2>1, <2>2
<1>. QED
  <2>1. Past!Merge(rs, items) = u
    BY <1>1 DEF u
  <2>. QED  BY <1>8, <1>13, <1>14, <1>15, <1>16, <2>1

\* A page merged into the list of the pages before it.
LEMMA MergeOfListed ==
    ASSUME PastConstants, NEW revs, NEW A \in SUBSET Ids, NEW items,
           DOMAIN items \in SUBSET Ids,
           \A id \in A \cup DOMAIN items : revs[id] \in Past!Changes,
           \A id \in DOMAIN items : items[id] = revs[id],
           \A a \in A, b \in DOMAIN items \ A : a < b
    PROVE  Past!Merge(Past!Listed(revs, A), items) = Past!Listed(revs, A \cup DOMAIN items)
<1>. DEFINE rs == Past!Listed(revs, A)
            s  == [i \in DOMAIN rs |-> IF rs[i].id \in DOMAIN items
                                       THEN [rs[i] EXCEPT !.rev = items[rs[i].id]] ELSE rs[i]]
<1>1. /\ rs \in Seq(Entry) /\ Past!Shown(rs) = A
      /\ \A n \in DOMAIN rs : rs[n].id \in A /\ rs[n].rev = revs[rs[n].id]
  BY ListedIs, ListedShows
<1>2. Past!Merge(rs, items) = s \o Past!Listed(items, DOMAIN items \ A)
  BY <1>1 DEF Past!Merge
<1>3. ItemsAre(items)
  BY DEF ItemsAre
<1>. HIDE DEF rs
<1>4. s = rs
  <2>1. ASSUME NEW i \in DOMAIN rs PROVE s[i] = rs[i]
    <3>1. s[i] = Updated(rs[i], items)
      BY DEF Updated
    <3>2. rs[i] \in Entry /\ (rs[i].id \in DOMAIN items => items[rs[i].id] = rs[i].rev)
      BY <1>1, ListLength
    <3>. HIDE DEF s
    <3>. QED  BY <1>3, <3>1, <3>2, InPlace
  <2>2. rs = [i \in DOMAIN rs |-> rs[i]]
    BY <1>1, LenProperties
  <2>. QED  BY <2>1, <2>2
<1>5. Past!Listed(items, DOMAIN items \ A) = Past!Listed(revs, DOMAIN items \ A)
  <2>. DEFINE B == DOMAIN items \ A
  <2>1. B \in SUBSET Ids /\ \A id \in B : items[id] = revs[id] /\ items[id] \in Past!Changes
    OBVIOUS
  <2>. HIDE DEF B
  <2>2. Past!Listed(items, B) = Past!Listed(revs, B)
    BY <2>1, ListedSame
  <2>. QED  BY <2>2 DEF B
<1>6. rs \o Past!Listed(revs, DOMAIN items \ A) = Past!Listed(revs, A \cup DOMAIN items)
  <2>. DEFINE B == DOMAIN items \ A
  <2>1. B \in SUBSET Ids /\ A \cup B = A \cup DOMAIN items
    OBVIOUS
  <2>2. \A a \in A, b \in B : a < b
    OBVIOUS
  <2>3. \A id \in A \cup B : revs[id] \in Past!Changes
    OBVIOUS
  <2>. HIDE DEF B
  <2>4. Past!Listed(revs, A) \o Past!Listed(revs, B) = Past!Listed(revs, A \cup B)
    BY <2>1, <2>2, <2>3, ListedJoin
  <2>. QED  BY <2>1, <2>4 DEF rs, B
<1>. QED  BY <1>2, <1>4, <1>5, <1>6 DEF rs

-----------------------------------------------------------------------------
\* The pages of the table.

LEMMA FirstPagesAre ==
    ASSUME PastConstants, NEW p \in Nat \ {0}
    PROVE  /\ Past!FirstPages(0) = {}
           /\ Past!FirstPages(p - 1) \in SUBSET Past!FirstPages(p)
           /\ Past!FirstPages(p) \in SUBSET Past!Matching /\ Past!Matching \in SUBSET Ids
           /\ \A a \in Past!FirstPages(p - 1), b \in Past!FirstPages(p) \ Past!FirstPages(p - 1) : a < b
<1>. DEFINE M == Past!Matching
            low == (p - 1) * PageSize
            high == p * PageSize
<1>1. M \in SUBSET Ids
  BY DEF Past!Matching
<1>2. M \in SUBSET Nat /\ IsFiniteSet(M)
  BY <1>1, IdsInOrder
<1>3. \A x \in M : Before(M, x) \in Nat
  <2>1. Cardinality(M) \in Nat
    BY <1>2, FS_CardinalityType
  <2>. QED  BY <1>2, <2>1, RankIsPlace
<1>4. /\ Past!FirstPages(p - 1) = {x \in M : Before(M, x) < low}
      /\ Past!FirstPages(p) = {x \in M : Before(M, x) < high}
      /\ Past!FirstPages(0) = {x \in M : Before(M, x) < 0 * PageSize}
  BY Zenon DEF Past!FirstPages, Before, Past!Cardinality, Cardinality
<1>5. low \in Nat /\ high \in Nat /\ low <= high /\ 0 * PageSize = 0
  <2>1. PageSize \in Nat /\ p - 1 \in Nat /\ p = (p - 1) + 1
    BY DEF PastConstants
  <2>2. high = low + PageSize /\ low \in Nat
    BY <2>1
  <2>. QED  BY <2>1, <2>2
<1>. HIDE DEF M, low, high
<1>6. Past!FirstPages(0) = {}
  BY <1>3, <1>4, <1>5
<1>7. Past!FirstPages(p - 1) \in SUBSET Past!FirstPages(p) /\ Past!FirstPages(p) \in SUBSET M
  BY <1>3, <1>4, <1>5
<1>8. ASSUME NEW a \in Past!FirstPages(p - 1), NEW b \in Past!FirstPages(p) \ Past!FirstPages(p - 1)
      PROVE  a < b
  <2>1. a \in M /\ b \in M /\ Before(M, a) < low /\ ~(Before(M, b) < low)
    BY <1>4
  <2>2. Before(M, a) < Before(M, b)
    BY <1>3, <1>5, <2>1
  <2>3. ~(b < a) /\ a # b
    BY <1>2, <1>3, <2>1, <2>2, RanksGrow
  <2>. QED  BY <1>2, <2>1, <2>3
<1>. QED  BY <1>1, <1>6, <1>7, <1>8 DEF M

TableIs == table \in [Ids -> Past!Changes \cup {Past!None}]

All(d) == Past!Listed(d.items, DOMAIN d.items)

LEMMA ChangesAre == ASSUME PastConstants
                    PROVE  Past!Changes \subseteq Nat /\ Past!None \in Nat /\ \A c \in Past!Changes : c < Past!None
  BY DEF PastConstants, Past!Changes, Past!None

LEMMA AnswerIs ==
    ASSUME PastConstants, TableIs, NEW p \in Past!Pages
    PROVE  /\ Past!Answer(p).items = [id \in Past!FirstPages(p) \ Past!FirstPages(p - 1) |-> table[id]]
           /\ DOMAIN Past!Answer(p).items = Past!FirstPages(p) \ Past!FirstPages(p - 1)
           /\ DOMAIN Past!Answer(p).items \in SUBSET Ids
           /\ \A id \in DOMAIN Past!Answer(p).items :
                 Past!Answer(p).items[id] = table[id] /\ table[id] \in Past!Changes
           /\ Past!Answer(p).total \in Nat /\ Past!Answer(p).ver = now
           /\ \A id \in Past!FirstPages(p) : table[id] \in Past!Changes
<1>1. p \in Nat \ {0}
  BY DEF Past!Pages, PastConstants
<1>2. Past!FirstPages(p) \in SUBSET Past!Matching /\ Past!Matching \in SUBSET Ids
  BY <1>1, FirstPagesAre
<1>3. \A id \in Past!Matching : table[id] \in Past!Changes
  BY DEF Past!Matching, TableIs
<1>4. Past!Cardinality(Past!Matching) \in Nat
  BY <1>2, IdsInOrder, SameCount
<1>. QED  BY <1>2, <1>3, <1>4 DEF Past!Answer

\* The answer of page p, after the pages before it or after them and itself.
LEMMA PagesJoin ==
    ASSUME PastConstants, TableIs, NEW p \in Past!Pages
    PROVE  /\ p = 1 => All(Past!Answer(p)) = Past!Listed(table, Past!FirstPages(p))
           /\ Past!Merge(Past!Listed(table, Past!FirstPages(p - 1)), Past!Answer(p).items)
                 = Past!Listed(table, Past!FirstPages(p))
           /\ Past!Merge(Past!Listed(table, Past!FirstPages(p)), Past!Answer(p).items)
                 = Past!Listed(table, Past!FirstPages(p))
<1>. DEFINE A == Past!FirstPages(p - 1)
            C == Past!FirstPages(p)
            items == Past!Answer(p).items
<1>1. p \in Nat \ {0}
  BY DEF Past!Pages, PastConstants
<1>2. /\ Past!FirstPages(0) = {} /\ A \in SUBSET C /\ C \in SUBSET Ids
      /\ \A a \in A, b \in C \ A : a < b
  BY <1>1, FirstPagesAre
<1>3. /\ DOMAIN items = C \ A
      /\ \A id \in DOMAIN items : items[id] = table[id] /\ table[id] \in Past!Changes
      /\ \A id \in C : table[id] \in Past!Changes
  BY AnswerIs
<1>. HIDE DEF A, C, items
<1>4. Past!Merge(Past!Listed(table, A), items) = Past!Listed(table, A \cup DOMAIN items)
  <2>1. /\ A \in SUBSET Ids /\ DOMAIN items \in SUBSET Ids
        /\ \A id \in A \cup DOMAIN items : table[id] \in Past!Changes
        /\ \A id \in DOMAIN items : items[id] = table[id]
        /\ \A a \in A, b \in DOMAIN items \ A : a < b
    BY <1>2, <1>3
  <2>. QED  BY <2>1, MergeOfListed
<1>5. Past!Merge(Past!Listed(table, C), items) = Past!Listed(table, C \cup DOMAIN items)
  <2>1. /\ C \in SUBSET Ids /\ DOMAIN items \in SUBSET Ids
        /\ \A id \in C \cup DOMAIN items : table[id] \in Past!Changes
        /\ \A id \in DOMAIN items : items[id] = table[id]
        /\ DOMAIN items \ C = {}
    BY <1>2, <1>3
  <2>. QED  BY <2>1, MergeOfListed
<1>6. A \cup DOMAIN items = C /\ C \cup DOMAIN items = C
  BY <1>2, <1>3
<1>7. p = 1 => All(Past!Answer(p)) = Past!Listed(table, C)
  <2>. SUFFICES ASSUME p = 1 PROVE Past!Listed(items, DOMAIN items) = Past!Listed(table, C)
    BY DEF All, items
  <2>1. A = {}
    BY <1>2 DEF A
  <2>2. DOMAIN items = C
    BY <1>3, <2>1
  <2>3. Past!Listed(items, C) = Past!Listed(table, C)
    BY <1>2, <1>3, <2>2, ListedSame
  <2>. QED  BY <2>2, <2>3
<1>. QED  BY <1>4, <1>5, <1>6, <1>7 DEF A, C, items

-----------------------------------------------------------------------------
(***************************************************************************)
(* The invariant.  Every answer, in the cache or on its way, that is as    *)
(* new as an own change of a record has the record as it is since          *)
(* (AnswersInv).  The list is what page 1 says, or what pages read since   *)
(* then were merged into (ListInv, MergedInv); page 1 at rest knows every  *)
(* own change that was told (TimelyInv), and a list that was emptied waits *)
(* for an answer that will fill it again, as it differs in one record      *)
(* (BlankInv).  Only the last two rest on the fetches, as structural       *)
(* sharing hides an answer that is equal to the one before.                *)
(***************************************************************************)

\* What is owed to the user once the answer of the pending change is there.
Due == IF write.at = "served" THEN [answered EXCEPT ![write.id] = write.ver] ELSE answered

TableInv ==
    /\ write.at # "idle" => write.id \in Ids
    /\ write.at = "served" => answered[write.id] <= write.ver /\ write.ver <= now
    /\ \A id \in Ids : /\ table[id] = Past!None \/ table[id] <= now
                       /\ answered[id] <= Due[id] /\ Due[id] <= now /\ Due[id] <= table[id]

\* An answer d at change n, when a is what the page would be answered: as new
\* as the due change of a record, it has the record as it is since, or not.
Accurate(d, n, a, due) ==
    /\ IF d.ver = Past!None THEN DOMAIN d.items = {} ELSE d.ver <= n
    /\ d.ver = n => d = a
    /\ \A id \in DOMAIN d.items :
          /\ d.items[id] <= d.ver
          /\ due[id] <= d.ver => due[id] <= d.items[id]

AnswersInv ==
    \A p \in Past!Pages :
       /\ Accurate(cache[p], now, Past!Answer(p), answered) /\ Accurate(cache[p], now, Past!Answer(p), Due)
       /\ fetch[p].at = "read" => /\ fetch[p].data.ver # Past!None
                                  /\ Accurate(fetch[p].data, now, Past!Answer(p), answered)
                                  /\ Accurate(fetch[p].data, now, Past!Answer(p), Due)

\* The pages before the observed one are there and at rest; page 1 alone is the
\* list; the card of a change is on it.
ListInv ==
    /\ ~Past!Here => page = 1 /\ records = <<>>
    /\ Unique(records)
    /\ page > 1 => records # <<>>
    /\ \A p \in Past!Pages : p < page => fetch[p].at = "idle" /\ Past!HasData(cache, p)
    /\ page = 1 /\ records # <<>> => Past!HasData(cache, 1) /\ records = All(cache[1])
    /\ where = "tab" => ~write.alive
    /\ write.alive /\ write.at # "idle" /\ write.op # "add" => write.id \in Past!Shown(records)

NewAs(ver) == \A id \in Ids : answered[id] <= ver

\* The pages that the list holds.
Held == IF Past!HasData(cache, page) THEN page ELSE page - 1

MergedInv ==
    page > 1 /\ ~mixed =>
       /\ NewAs(cache[1].ver)
       /\ \A i \in DOMAIN records : answered[records[i].id] <= records[i].rev
       /\ cache[1].ver = now => records = Past!Listed(table, Past!FirstPages(Held))

TimelyInv ==
    Past!Here /\ page = 1 /\ ~joined =>
       /\ fetch[1].at = "read" => NewAs(fetch[1].data.ver)
       /\ ~kept /\ fetch[1].at = "idle" /\ Past!HasData(cache, 1) => NewAs(cache[1].ver)

\* A list that was emptied though the cache has records waits for an answer that
\* differs from them.
BlankInv ==
    Past!Here /\ page = 1 /\ records = <<>> /\ DOMAIN cache[1].items # {} /\ ~kept =>
       \E id \in DOMAIN cache[1].items :
          /\ cache[1].items[id] < answered[id]
          /\ fetch[1].at # "idle"
          /\ fetch[1].at = "read" /\ id \in DOMAIN fetch[1].data.items =>
                answered[id] <= fetch[1].data.items[id]

HistoryInv ==
    Past!HistoryTypeOK /\ TableInv /\ AnswersInv /\ ListInv /\ MergedInv /\ TimelyInv /\ BlankInv

LEMMA AnswersAre ==
    ASSUME PastConstants, NEW d \in Past!Answers
    PROVE  /\ ItemsAre(d.items) /\ d.total \in Nat /\ d.ver \in Past!Changes \cup {Past!None}
           /\ \A id \in DOMAIN d.items : id \in Ids /\ d.items[id] \in Past!Changes
           /\ DOMAIN d.items \in SUBSET Ids
<1>1. d.items \in UNION {[S -> Past!Changes] : S \in SUBSET Ids}
  BY DEF Past!Answers
<1>2. PICK S \in SUBSET Ids : d.items \in [S -> Past!Changes]
  BY <1>1
<1>3. d.total \in Nat /\ d.ver \in Past!Changes \cup {Past!None}
  BY DEF Past!Answers
<1>4. DOMAIN d.items = S /\ \A id \in S : d.items[id] \in Past!Changes
  BY <1>2
<1>. QED  BY <1>3, <1>4 DEF ItemsAre

LEMMA AnswerTypes ==
    ASSUME PastConstants
    PROVE  /\ Past!NoData \in Past!Answers /\ Past!NoData.ver = Past!None /\ DOMAIN Past!NoData.items = {}
           /\ TableIs /\ now \in Past!Changes => \A p \in Past!Pages : Past!Answer(p) \in Past!Answers
<1>1. \A f : \A S \in SUBSET Ids : f \in [S -> Past!Changes] =>
         f \in UNION {[T -> Past!Changes] : T \in SUBSET Ids}
  OBVIOUS
<1>2. Past!NoData \in Past!Answers /\ Past!NoData.ver = Past!None /\ DOMAIN Past!NoData.items = {}
  <2>. DEFINE f == [id \in {} |-> 0]
  <2>1. f \in [{} -> Past!Changes] /\ {} \in SUBSET Ids /\ DOMAIN f = {}
    OBVIOUS
  <2>2. f \in UNION {[T -> Past!Changes] : T \in SUBSET Ids}
    BY <1>1, <2>1
  <2>3. Past!NoData = [items |-> f, total |-> 0, ver |-> Past!None]
    BY DEF Past!NoData
  <2>. HIDE DEF f
  <2>. QED  BY <2>1, <2>2, <2>3 DEF Past!Answers
<1>3. ASSUME TableIs, now \in Past!Changes, NEW p \in Past!Pages PROVE Past!Answer(p) \in Past!Answers
  <2>. DEFINE S == Past!FirstPages(p) \ Past!FirstPages(p - 1)
              f == [id \in S |-> table[id]]
  <2>1. /\ Past!Answer(p).items = f /\ S \in SUBSET Ids
        /\ \A id \in S : table[id] \in Past!Changes
        /\ Past!Answer(p).total \in Nat
    BY <1>3, AnswerIs
  <2>2. f \in [S -> Past!Changes]
    BY <2>1
  <2>3. Past!Answer(p) = [items |-> f, total |-> Past!Cardinality(Past!Matching), ver |-> now]
    BY DEF Past!Answer
  <2>. HIDE DEF f, S
  <2>4. f \in UNION {[T -> Past!Changes] : T \in SUBSET Ids}
    BY <1>1, <2>1, <2>2
  <2>. QED  BY <1>3, <2>1, <2>3, <2>4 DEF Past!Answers
<1>. QED  BY <1>2, <1>3

FetchType == [at : {"idle", "sent", "read"}, data : Past!Answers]

LEMMA FetchesAre ==
    ASSUME PastConstants
    PROVE  /\ Past!Sent \in FetchType /\ Past!Sent.at = "sent"
           /\ Past!NoFetch \in FetchType /\ Past!NoFetch.at = "idle"
           /\ \A d \in Past!Answers : [at |-> "read", data |-> d] \in FetchType
<1>1. Past!NoData \in Past!Answers
  BY AnswerTypes
<1>2. Past!Sent = [at |-> "sent", data |-> Past!NoData] /\ Past!NoFetch = [at |-> "idle", data |-> Past!NoData]
  BY DEF Past!Sent, Past!NoFetch
<1>. QED  BY <1>1, <1>2 DEF FetchType

WriteType == [at : {"idle", "sent", "served"}, op : Past!Ops, id : Ids \cup {0},
              ver : Past!Changes, alive : BOOLEAN]

LEMMA WritesAre ==
    ASSUME PastConstants
    PROVE  /\ Past!NoWrite \in WriteType /\ Past!NoWrite.at = "idle" /\ ~Past!NoWrite.alive
           /\ \A rs : \A w \in WriteType :
                 /\ Past!Follow(w, rs) \in WriteType
                 /\ Past!Follow(w, rs).at = w.at /\ Past!Follow(w, rs).op = w.op
                 /\ Past!Follow(w, rs).id = w.id /\ Past!Follow(w, rs).ver = w.ver
                 /\ Past!Follow(w, rs).alive =>
                       w.alive /\ (w.op = "add" \/ w.id \in Past!Shown(rs))
<1>1. 0 \in Past!Changes
  BY DEF Past!Changes, PastConstants
<1>2. Past!NoWrite \in WriteType /\ Past!NoWrite.at = "idle" /\ ~Past!NoWrite.alive
  BY <1>1 DEF Past!NoWrite, WriteType, Past!Ops
<1>3. ASSUME NEW w \in WriteType, NEW rs
      PROVE  /\ Past!Follow(w, rs) \in WriteType
             /\ Past!Follow(w, rs).at = w.at /\ Past!Follow(w, rs).op = w.op
             /\ Past!Follow(w, rs).id = w.id /\ Past!Follow(w, rs).ver = w.ver
             /\ Past!Follow(w, rs).alive => w.alive /\ (w.op = "add" \/ w.id \in Past!Shown(rs))
  <2>. DEFINE b == w.alive /\ (w.op = "add" \/ w.id \in Past!Shown(rs))
  <2>1. Past!Follow(w, rs) = [w EXCEPT !.alive = b]
    BY DEF Past!Follow
  <2>2. b \in BOOLEAN
    OBVIOUS
  <2>3. b => w.alive /\ (w.op = "add" \/ w.id \in Past!Shown(rs))
    OBVIOUS
  <2>. HIDE DEF b
  <2>. QED  BY <2>1, <2>2, <2>3 DEF WriteType
<1>. QED  BY <1>2, <1>3

\* The list that one answer makes alone.
LEMMA AllIs ==
    ASSUME PastConstants, NEW d \in Past!Answers
    PROVE  /\ All(d) \in Seq(Entry) /\ Unique(All(d)) /\ Past!Shown(All(d)) = DOMAIN d.items
           /\ DOMAIN d.items = {} <=> All(d) = <<>>
           /\ \A n \in DOMAIN All(d) : /\ All(d)[n].id \in DOMAIN d.items
                                       /\ All(d)[n].rev = d.items[All(d)[n].id]
<1>1. DOMAIN d.items \in SUBSET Ids /\ \A id \in DOMAIN d.items : d.items[id] \in Past!Changes
  BY AnswersAre
<1>. DEFINE items == d.items
            S == DOMAIN items
<1>2. S \in SUBSET Ids /\ \A id \in S : items[id] \in Past!Changes
  BY <1>1
<1>. HIDE DEF items, S
<1>3. /\ Past!Listed(items, S) \in Seq(Entry) /\ Unique(Past!Listed(items, S))
      /\ Past!Shown(Past!Listed(items, S)) = S
      /\ S = {} <=> Past!Listed(items, S) = <<>>
      /\ \A n \in DOMAIN Past!Listed(items, S) : /\ Past!Listed(items, S)[n].id \in S
                                                 /\ Past!Listed(items, S)[n].rev = items[Past!Listed(items, S)[n].id]
  BY <1>2, ListedIs, ListedShows
<1>. QED  BY <1>3 DEF All, items, S

LEMMA FillIs ==
    ASSUME PastConstants, NEW d \in Past!Answers, NEW p, NEW rs \in Seq(Entry), Unique(rs)
    PROVE  /\ Past!Fill(p, rs, d) \in Seq(Entry) /\ Unique(Past!Fill(p, rs, d))
           /\ p = 1 => Past!Fill(p, rs, d) = All(d)
           /\ p # 1 => Past!Fill(p, rs, d) = Past!Merge(rs, d.items)
           /\ p # 1 /\ rs # <<>> => Past!Fill(p, rs, d) # <<>>
<1>1. CASE p = 1
  BY <1>1, AllIs DEF Past!Fill, All
<1>2. CASE p # 1
  <2>1. ItemsAre(d.items)
    BY AnswersAre
  <2>. QED  BY <1>2, <2>1, MergeIs DEF Past!Fill
<1>. QED  BY <1>1, <1>2

LEMMA TypesAre ==
    ASSUME PastConstants
    PROVE  Past!HistoryTypeOK <=>
           /\ TableIs /\ now \in Past!Changes
           /\ cache \in [Past!Pages -> Past!Answers] /\ fetch \in [Past!Pages -> FetchType]
           /\ where \in {"here", "filtered", "tab"} /\ page \in Past!Pages
           /\ records \in Seq(Entry) /\ write \in WriteType
           /\ answered \in [Ids -> Past!Changes]
           /\ mixed \in BOOLEAN /\ joined \in BOOLEAN /\ kept \in BOOLEAN
BY Zenon DEF Past!HistoryTypeOK, TableIs, FetchType, Entry, WriteType

-----------------------------------------------------------------------------
\* What is due, and that every answer is accurate.

LEMMA DueIs ==
    ASSUME PastConstants, Past!HistoryTypeOK, TableInv
    PROVE  /\ Due \in [Ids -> Past!Changes] /\ answered \in [Ids -> Past!Changes]
           /\ write.at # "served" => Due = answered
           /\ write.at = "served" => Due = [answered EXCEPT ![write.id] = write.ver]
           /\ \A id \in Ids : answered[id] <= Due[id] /\ Due[id] <= now /\ Due[id] <= table[id]
<1>1. answered \in [Ids -> Past!Changes] /\ write \in WriteType
  BY TypesAre
<1>2. write.ver \in Past!Changes
  BY <1>1 DEF WriteType
<1>. QED  BY <1>1, <1>2 DEF Due, TableInv

LEMMA AnswerIsSound ==
    ASSUME PastConstants, Past!HistoryTypeOK, TableInv, NEW p \in Past!Pages
    PROVE  /\ Accurate(Past!Answer(p), now, Past!Answer(p), answered) /\ Accurate(Past!Answer(p), now, Past!Answer(p), Due)
           /\ Past!Answer(p).ver # Past!None
<1>1. TableIs /\ now \in Past!Changes /\ answered \in [Ids -> Past!Changes]
  BY TypesAre
<1>2. /\ DOMAIN Past!Answer(p).items \in SUBSET Ids
      /\ \A id \in DOMAIN Past!Answer(p).items :
            Past!Answer(p).items[id] = table[id] /\ table[id] \in Past!Changes
      /\ Past!Answer(p).ver = now
  BY <1>1, AnswerIs
<1>3. now # Past!None /\ now \in Nat
  BY <1>1, ChangesAre
<1>4. \A id \in Ids : /\ table[id] \in Past!Changes => table[id] <= now
                      /\ answered[id] <= table[id] /\ Due[id] <= table[id]
  <2>. SUFFICES ASSUME NEW id \in Ids
                PROVE  /\ table[id] \in Past!Changes => table[id] <= now
                       /\ answered[id] <= table[id] /\ Due[id] <= table[id]
    OBVIOUS
  <2>1. /\ answered[id] <= Due[id] /\ Due[id] <= table[id] /\ answered[id] \in Past!Changes /\ Due[id] \in Past!Changes
        /\ table[id] = Past!None \/ table[id] <= now
    BY DueIs DEF TableInv
  <2>2. table[id] \in Past!Changes \cup {Past!None}
    BY <1>1 DEF TableIs
  <2>. QED  BY <2>1, <2>2, ChangesAre
<1>. QED  BY <1>2, <1>3, <1>4 DEF Accurate

\* Only the panel and the fetches move.
Quiet ==
    /\ UNCHANGED <<table, now, answered>>
    /\ write'.at = write.at /\ write'.id = write.id /\ write'.ver = write.ver

LEMMA QuietTable ==
    ASSUME Quiet, TableInv
    PROVE  TableInv' /\ Due' = Due /\ \A p : Past!Answer(p)' = Past!Answer(p)
<1>1. Due' = Due
  BY DEF Quiet, Due
<1>2. \A p : Past!Answer(p)' = Past!Answer(p)
  BY Zenon DEF Quiet, Past!Answer, Past!FirstPages, Past!Matching
<1>. QED  BY <1>1, <1>2 DEF Quiet, TableInv

LEMMA QuietAnswers ==
    ASSUME PastConstants, Past!HistoryTypeOK, Quiet, TableInv, AnswersInv,
           \A p \in Past!Pages : \/ cache'[p] = cache[p]
                                 \/ fetch[p].at = "read" /\ cache'[p] = fetch[p].data,
           \A p \in Past!Pages : \/ fetch'[p] = fetch[p]
                                 \/ fetch'[p].at # "read"
                                 \/ fetch'[p].data = Past!Answer(p)
    PROVE  AnswersInv'
<1>1. Due' = Due /\ (\A p : Past!Answer(p)' = Past!Answer(p)) /\ answered' = answered /\ now' = now
  BY QuietTable DEF Quiet
<1>. SUFFICES ASSUME NEW p \in Past!Pages
     PROVE  /\ Accurate(cache'[p], now, Past!Answer(p), answered) /\ Accurate(cache'[p], now, Past!Answer(p), Due)
            /\ fetch'[p].at = "read" => /\ fetch'[p].data.ver # Past!None
                                        /\ Accurate(fetch'[p].data, now, Past!Answer(p), answered)
                                        /\ Accurate(fetch'[p].data, now, Past!Answer(p), Due)
  BY <1>1 DEF AnswersInv, Accurate
<1>2. /\ Accurate(cache[p], now, Past!Answer(p), answered) /\ Accurate(cache[p], now, Past!Answer(p), Due)
      /\ fetch[p].at = "read" => /\ fetch[p].data.ver # Past!None
                                 /\ Accurate(fetch[p].data, now, Past!Answer(p), answered)
                                 /\ Accurate(fetch[p].data, now, Past!Answer(p), Due)
  BY DEF AnswersInv
<1>3. /\ Accurate(Past!Answer(p), now, Past!Answer(p), answered) /\ Accurate(Past!Answer(p), now, Past!Answer(p), Due)
      /\ Past!Answer(p).ver # Past!None
  BY AnswerIsSound
<1>4. Accurate(cache'[p], now, Past!Answer(p), answered) /\ Accurate(cache'[p], now, Past!Answer(p), Due)
  BY <1>2
<1>5. fetch'[p].at = "read" => /\ fetch'[p].data.ver # Past!None
                               /\ Accurate(fetch'[p].data, now, Past!Answer(p), answered)
                               /\ Accurate(fetch'[p].data, now, Past!Answer(p), Due)
  BY <1>2, <1>3
<1>. QED  BY <1>4, <1>5

-----------------------------------------------------------------------------
\* The steps of the query.

LEMMA ReadKeeps ==
    ASSUME PastConstants, HistoryInv, NEW p \in Past!Pages, Past!Read(p)
    PROVE  HistoryInv'
<1>. USE DEF HistoryInv
<1>1. /\ fetch[p].at = "sent" /\ fetch' = [fetch EXCEPT ![p] = [at |-> "read", data |-> Past!Answer(p)]]
      /\ UNCHANGED <<table, now, cache, where, page, records, write, answered, mixed, joined, kept>>
  BY DEF Past!Read, Past!panel
<1>2. /\ TableIs /\ now \in Past!Changes /\ page \in Past!Pages /\ answered \in [Ids -> Past!Changes]
      /\ cache \in [Past!Pages -> Past!Answers] /\ fetch \in [Past!Pages -> FetchType]
  BY TypesAre
<1>3. Past!Answer(p) \in Past!Answers
  BY <1>2, AnswerTypes
<1>4. fetch' \in [Past!Pages -> FetchType]
  <2>1. [at |-> "read", data |-> Past!Answer(p)] \in FetchType
    BY <1>3, FetchesAre
  <2>. QED  BY <1>1, <1>2, <2>1
<1>5. /\ fetch'[p].at = "read" /\ fetch'[p].data = Past!Answer(p)
      /\ \A k \in Past!Pages : k # p => fetch'[k] = fetch[k]
  BY <1>1, <1>2
<1>6. Quiet
  BY <1>1 DEF Quiet
<1>7. Past!HistoryTypeOK'
  BY <1>1, <1>4 DEF Past!HistoryTypeOK, FetchType
<1>8. TableInv'
  BY <1>6, QuietTable
<1>9. AnswersInv'
  BY <1>1, <1>5, <1>6, QuietAnswers
<1>10. ListInv'
  BY <1>1, <1>5 DEF ListInv, Past!Here, Past!HasData, All
<1>11. MergedInv'
  BY <1>1 DEF MergedInv, NewAs, Held, Past!HasData, Past!FirstPages, Past!Matching
<1>12. 1 \in Past!Pages /\ 1 \in Nat
  BY DEF Past!Pages, PastConstants
<1>13. \A id \in Ids : answered[id] <= now
  <2>1. \A id \in Ids : answered[id] \in Past!Changes /\ Due[id] \in Past!Changes /\ answered[id] <= Due[id] /\ Due[id] <= now
    BY DueIs
  <2>. QED  BY <1>2, <2>1, ChangesAre
<1>14. TimelyInv'
  <2>1. CASE p = 1
    <3>1. NewAs(Past!Answer(1).ver)
      BY <1>2, <1>12, <1>13, AnswerIs DEF NewAs
    <3>. QED  BY <1>1, <1>5, <2>1, <3>1 DEF TimelyInv, NewAs
  <2>2. CASE p # 1
    BY <1>1, <1>5, <1>12, <2>2 DEF TimelyInv, Past!Here, Past!HasData, NewAs
  <2>. QED  BY <2>1, <2>2
<1>15. BlankInv'
  <2>1. CASE p = 1
    <3>1. \A id \in DOMAIN Past!Answer(1).items : answered[id] <= Past!Answer(1).items[id]
      <4>1. Accurate(Past!Answer(1), now, Past!Answer(1), answered) /\ Past!Answer(1).ver = now
        BY <1>2, <1>12, AnswerIsSound, AnswerIs
      <4>2. DOMAIN Past!Answer(1).items \in SUBSET Ids
        BY <1>2, <1>12, AnswerIs
      <4>. QED  BY <1>13, <4>1, <4>2 DEF Accurate
    <3>2. \A id \in DOMAIN cache[1].items : id \in DOMAIN fetch'[1].data.items =>
             answered[id] <= fetch'[1].data.items[id]
      BY <1>5, <2>1, <3>1
    <3>. QED  BY <1>1, <1>5, <2>1, <3>2 DEF BlankInv, Past!Here
  <2>2. CASE p # 1
    BY <1>1, <1>5, <1>12, <2>2 DEF BlankInv, Past!Here
  <2>. QED  BY <2>1, <2>2
<1>. QED  BY <1>7, <1>8, <1>9, <1>10, <1>11, <1>14, <1>15

LEMMA FailKeeps ==
    ASSUME PastConstants, HistoryInv, NEW p \in Past!Pages, Past!Fail(p)
    PROVE  HistoryInv'
<1>. USE DEF HistoryInv
<1>1. /\ fetch[p].at # "idle" /\ fetch' = [fetch EXCEPT ![p] = Past!NoFetch]
      /\ kept' = (kept \/ Past!Observed(p))
      /\ UNCHANGED <<table, now, cache, where, page, records, write, answered, mixed, joined>>
  BY DEF Past!Fail, Past!panel
<1>2. /\ fetch \in [Past!Pages -> FetchType] /\ kept \in BOOLEAN /\ page \in Past!Pages
  BY TypesAre
<1>3. fetch' \in [Past!Pages -> FetchType]
  BY <1>1, <1>2, FetchesAre
<1>4. fetch'[p].at = "idle" /\ \A k \in Past!Pages : k # p => fetch'[k] = fetch[k]
  BY <1>1, <1>2, FetchesAre
<1>5. kept' \in BOOLEAN /\ (Past!Observed(p) => kept') /\ (kept => kept')
  BY <1>1, <1>2
<1>6. Quiet
  BY <1>1 DEF Quiet
<1>7. Past!HistoryTypeOK'
  BY <1>1, <1>3, <1>5 DEF Past!HistoryTypeOK, FetchType
<1>8. TableInv'
  BY <1>6, QuietTable
<1>9. AnswersInv'
  BY <1>1, <1>4, <1>6, QuietAnswers
<1>10. ListInv'
  BY <1>1, <1>4 DEF ListInv, Past!Here, Past!HasData, All
<1>11. MergedInv'
  BY <1>1 DEF MergedInv, NewAs, Held, Past!HasData, Past!FirstPages, Past!Matching
<1>12. 1 \in Past!Pages
  BY DEF Past!Pages, PastConstants
<1>13. TimelyInv'
  <2>1. CASE p = 1
    BY <1>1, <1>4, <1>5, <2>1 DEF TimelyInv, Past!Observed, Past!Here
  <2>2. CASE p # 1
    BY <1>1, <1>4, <1>5, <1>12, <2>2 DEF TimelyInv, Past!Here, Past!HasData, NewAs
  <2>. QED  BY <2>1, <2>2
<1>14. BlankInv'
  <2>1. CASE p = 1
    BY <1>1, <1>4, <1>5, <2>1 DEF BlankInv, Past!Observed, Past!Here
  <2>2. CASE p # 1
    BY <1>1, <1>4, <1>5, <1>12, <2>2 DEF BlankInv, Past!Here
  <2>. QED  BY <2>1, <2>2
<1>. QED  BY <1>7, <1>8, <1>9, <1>10, <1>11, <1>13, <1>14

LEMMA RefetchKeeps ==
    ASSUME PastConstants, HistoryInv, Past!Refetch
    PROVE  HistoryInv'
<1>. USE DEF HistoryInv
<1>1. /\ Past!Here /\ fetch[page].at = "idle" /\ fetch' = [fetch EXCEPT ![page] = Past!Sent]
      /\ joined' = FALSE
      /\ UNCHANGED <<table, now, cache, where, page, records, write, answered, mixed, kept>>
  BY DEF Past!Refetch, Past!panel
<1>2. fetch \in [Past!Pages -> FetchType] /\ page \in Past!Pages
  BY TypesAre
<1>3. fetch' \in [Past!Pages -> FetchType]
  BY <1>1, <1>2, FetchesAre
<1>4. fetch'[page].at = "sent" /\ \A k \in Past!Pages : k # page => fetch'[k] = fetch[k]
  BY <1>1, <1>2, FetchesAre
<1>5. Quiet
  BY <1>1 DEF Quiet
<1>6. Past!HistoryTypeOK'
  BY <1>1, <1>3 DEF Past!HistoryTypeOK, FetchType
<1>7. TableInv'
  BY <1>5, QuietTable
<1>8. AnswersInv'
  BY <1>1, <1>4, <1>5, QuietAnswers
<1>9. ListInv'
  <2>1. \A k \in Past!Pages : k < page => k # page
    BY <1>2 DEF Past!Pages
  <2>. QED  BY <1>1, <1>4, <2>1 DEF ListInv, Past!Here, Past!HasData, All
<1>10. MergedInv'
  BY <1>1 DEF MergedInv, NewAs, Held, Past!HasData, Past!FirstPages, Past!Matching
<1>11. TimelyInv'
  BY <1>1, <1>4 DEF TimelyInv, Past!Here
<1>12. BlankInv'
  BY <1>1, <1>4 DEF BlankInv, Past!Here
<1>. QED  BY <1>6, <1>7, <1>8, <1>9, <1>10, <1>11, <1>12

\* The list after one more sound answer: as new as the first page is, it shows
\* every own change, and from the table as it is, it is the pages as they are.
LEMMA MergedStays ==
    ASSUME PastConstants, Past!HistoryTypeOK, NEW p \in Past!Pages, p # 1, NEW d \in Past!Answers,
           NEW rs \in Seq(Entry), Unique(rs), NEW ver \in Past!Changes,
           ver <= d.ver, d.ver # Past!None, Accurate(d, now, Past!Answer(p), answered), NewAs(ver),
           \A i \in DOMAIN rs : answered[rs[i].id] <= rs[i].rev,
           NEW q, q = p \/ q = p - 1,
           ver = now => rs = Past!Listed(table, Past!FirstPages(q))
    PROVE  /\ \A i \in DOMAIN Past!Fill(p, rs, d) :
                 answered[Past!Fill(p, rs, d)[i].id] <= Past!Fill(p, rs, d)[i].rev
           /\ ver = now => Past!Fill(p, rs, d) = Past!Listed(table, Past!FirstPages(p))
<1>1. /\ TableIs /\ now \in Past!Changes /\ answered \in [Ids -> Past!Changes]
  BY TypesAre
<1>2. /\ ItemsAre(d.items) /\ DOMAIN d.items \in SUBSET Ids /\ d.ver \in Past!Changes
      /\ \A id \in DOMAIN d.items : d.items[id] \in Past!Changes
  BY AnswersAre
<1>. DEFINE u == Past!Fill(p, rs, d)
<1>3. u = Past!Merge(rs, d.items)
  BY FillIs
<1>4. \A n \in DOMAIN u : \/ u[n].id \in DOMAIN d.items /\ u[n].rev = d.items[u[n].id]
                          \/ \E i \in DOMAIN rs : u[n] = rs[i]
  BY <1>2, <1>3, MergeIs
<1>5. \A id \in DOMAIN d.items : answered[id] <= d.items[id]
  <2>. SUFFICES ASSUME NEW id \in DOMAIN d.items PROVE answered[id] <= d.items[id]
    OBVIOUS
  <2>1. id \in Ids /\ answered[id] \in Past!Changes /\ answered[id] <= ver
    BY <1>1, <1>2 DEF NewAs
  <2>2. answered[id] <= d.ver
    BY <1>2, <2>1, ChangesAre
  <2>. QED  BY <2>2 DEF Accurate
<1>. HIDE DEF u
<1>6. \A n \in DOMAIN u : answered[u[n].id] <= u[n].rev
  BY <1>4, <1>5
<1>7. ASSUME ver = now PROVE u = Past!Listed(table, Past!FirstPages(p))
  <2>1. d.ver <= now /\ d.ver = now => d = Past!Answer(p)
    BY DEF Accurate
  <2>2. d.ver = now
    <3>1. d.ver <= now
      BY DEF Accurate
    <3>. QED  BY <1>1, <1>2, <1>7, <3>1, ChangesAre
  <2>3. d = Past!Answer(p)
    BY <2>2 DEF Accurate
  <2>4. /\ Past!Merge(Past!Listed(table, Past!FirstPages(p - 1)), Past!Answer(p).items) = Past!Listed(table, Past!FirstPages(p))
        /\ Past!Merge(Past!Listed(table, Past!FirstPages(p)), Past!Answer(p).items) = Past!Listed(table, Past!FirstPages(p))
    BY <1>1, PagesJoin
  <2>. QED  BY <1>3, <1>7, <2>3, <2>4
<1>. QED  BY <1>6, <1>7 DEF u

\* What every arrival does besides.
LEMMA ArriveIs ==
    ASSUME PastConstants, HistoryInv, NEW p \in Past!Pages, Past!Arrive(p)
    PROVE  /\ fetch[p].at = "read" /\ fetch[p].data \in Past!Answers /\ fetch[p].data.ver # Past!None
           /\ cache'[p] = fetch[p].data /\ \A k \in Past!Pages : k # p => cache'[k] = cache[k]
           /\ fetch'[p].at = "idle" /\ \A k \in Past!Pages : k # p => fetch'[k] = fetch[k]
           /\ cache' \in [Past!Pages -> Past!Answers] /\ fetch' \in [Past!Pages -> FetchType]
           /\ Quiet /\ write' = Past!Follow(write, records') /\ write' \in WriteType
           /\ UNCHANGED <<table, now, where, page, answered, joined>>
           /\ TableInv' /\ AnswersInv'
           /\ \A k \in Past!Pages : Past!HasData(cache, k) => Past!HasData(cache, k)'
           /\ page <= p
<1>. USE DEF HistoryInv
<1>1. /\ fetch[p].at = "read" /\ cache' = [cache EXCEPT ![p] = fetch[p].data]
      /\ fetch' = [fetch EXCEPT ![p] = Past!NoFetch]
      /\ write' = Past!Follow(write, records')
      /\ UNCHANGED <<table, now, where, page, answered, joined>>
  BY DEF Past!Arrive
<1>2. /\ cache \in [Past!Pages -> Past!Answers] /\ fetch \in [Past!Pages -> FetchType]
      /\ write \in WriteType /\ page \in Past!Pages
  BY TypesAre
<1>3. fetch[p].data \in Past!Answers /\ fetch[p].data.ver # Past!None
  <2>1. fetch[p] \in FetchType
    BY <1>2
  <2>2. fetch[p].data \in Past!Answers
    BY <2>1 DEF FetchType
  <2>. QED  BY <1>1, <2>2 DEF AnswersInv
<1>4. /\ cache'[p] = fetch[p].data /\ \A k \in Past!Pages : k # p => cache'[k] = cache[k]
      /\ fetch'[p].at = "idle" /\ \A k \in Past!Pages : k # p => fetch'[k] = fetch[k]
      /\ cache' \in [Past!Pages -> Past!Answers] /\ fetch' \in [Past!Pages -> FetchType]
  BY <1>1, <1>2, <1>3, FetchesAre
<1>5. write' \in WriteType /\ Quiet
  BY <1>1, <1>2, WritesAre DEF Quiet
<1>6. TableInv' /\ AnswersInv'
  BY <1>1, <1>4, <1>5, QuietTable, QuietAnswers
<1>7. \A k \in Past!Pages : Past!HasData(cache, k) => Past!HasData(cache, k)'
  BY <1>3, <1>4 DEF Past!HasData, Past!None
<1>8. page <= p
  BY <1>1, <1>2 DEF ListInv, Past!Pages
<1>. QED  BY <1>1, <1>3, <1>4, <1>5, <1>6, <1>7, <1>8

\* The answer of a page that is not shown.
LEMMA ArriveUnseen ==
    ASSUME PastConstants, HistoryInv, NEW p \in Past!Pages, Past!Arrive(p), ~Past!Observed(p)
    PROVE  HistoryInv'
<1>. USE DEF HistoryInv
<1>1. /\ fetch[p].at = "read" /\ fetch[p].data \in Past!Answers /\ fetch[p].data.ver # Past!None
      /\ cache'[p] = fetch[p].data /\ \A k \in Past!Pages : k # p => cache'[k] = cache[k]
      /\ fetch'[p].at = "idle" /\ \A k \in Past!Pages : k # p => fetch'[k] = fetch[k]
      /\ cache' \in [Past!Pages -> Past!Answers] /\ fetch' \in [Past!Pages -> FetchType]
      /\ Quiet /\ write' = Past!Follow(write, records') /\ write' \in WriteType
      /\ UNCHANGED <<table, now, where, page, answered, joined>>
      /\ TableInv' /\ AnswersInv'
      /\ \A k \in Past!Pages : Past!HasData(cache, k) => Past!HasData(cache, k)'
      /\ page <= p
  BY ArriveIs
<1>2. records' = records /\ mixed' = mixed /\ kept' = kept
  <2>1. kept \in BOOLEAN
    BY TypesAre
  <2>. QED  BY <2>1 DEF Past!Arrive
<1>3. Past!HistoryTypeOK'
  BY <1>1, <1>2 DEF Past!HistoryTypeOK, FetchType, WriteType
<1>4. 1 \in Past!Pages /\ page \in Nat /\ p \in Nat /\ 1 <= page /\ page \in Past!Pages
  BY TypesAre DEF Past!Pages, PastConstants
<1>5. Past!Here => page < p
  BY <1>1, <1>4 DEF Past!Observed
<1>6. ListInv'
  <2>1. ~Past!Here' => page' = 1 /\ records' = <<>>
    BY <1>1, <1>2 DEF ListInv, Past!Here
  <2>2. Unique(records') /\ (page' > 1 => records' # <<>>)
    BY <1>1, <1>2 DEF ListInv
  <2>3. \A k \in Past!Pages : k < page' => fetch'[k].at = "idle" /\ Past!HasData(cache, k)'
    <3>. SUFFICES ASSUME NEW k \in Past!Pages, k < page
                  PROVE  fetch'[k].at = "idle" /\ Past!HasData(cache, k)'
      BY <1>1
    <3>1. fetch[k].at = "idle" /\ Past!HasData(cache, k)
      BY DEF ListInv
    <3>. QED  BY <1>1, <3>1
  <2>4. page' = 1 /\ records' # <<>> => Past!HasData(cache, 1)' /\ records' = All(cache'[1])
    <3>. SUFFICES ASSUME page = 1, records # <<>>
                  PROVE  Past!HasData(cache, 1)' /\ records' = All(cache'[1])
      BY <1>1, <1>2
    <3>1. Past!Here /\ 1 # p
      BY <1>5 DEF ListInv
    <3>. QED  BY <1>1, <1>2, <1>4, <3>1 DEF ListInv, Past!HasData
  <2>5. where' = "tab" => ~write'.alive
    BY <1>1, TypesAre, WritesAre DEF ListInv
  <2>6. write'.alive /\ write'.at # "idle" /\ write'.op # "add" => write'.id \in Past!Shown(records')
    BY <1>1, TypesAre, WritesAre
  <2>. QED  BY <2>1, <2>2, <2>3, <2>4, <2>5, <2>6, Zenon DEF ListInv, Past!HasData
<1>7. MergedInv'
  <2>. SUFFICES ASSUME page > 1, ~mixed
                PROVE  /\ NewAs(cache[1].ver)'
                       /\ \A i \in DOMAIN records' : answered'[records'[i].id] <= records'[i].rev
                       /\ cache'[1].ver = now' => records' = Past!Listed(table, Past!FirstPages(Held))'
    BY <1>1, <1>2 DEF MergedInv
  <2>1. page < p
    BY <1>4, <1>5 DEF ListInv
  <2>2. cache'[1] = cache[1] /\ cache'[page] = cache[page]
    BY <1>1, <1>4, <2>1
  <2>. QED  BY <1>1, <1>2, <2>2 DEF MergedInv, NewAs, Held, Past!HasData, Past!FirstPages, Past!Matching
<1>8. TimelyInv'
  BY <1>1, <1>2, <1>4, <1>5 DEF TimelyInv, Past!Here, Past!HasData, NewAs
<1>9. BlankInv'
  BY <1>1, <1>2, <1>4, <1>5 DEF BlankInv, Past!Here
<1>. QED  BY <1>1, <1>3, <1>6, <1>7, <1>8, <1>9

\* The same answer as the one that is shown.
LEMMA ArriveSame ==
    ASSUME PastConstants, HistoryInv, NEW p \in Past!Pages, Past!Arrive(p), Past!Observed(p),
           Past!HasData(cache, p), Past!Same(cache[p], fetch[p].data)
    PROVE  HistoryInv'
<1>. USE DEF HistoryInv
<1>1. /\ fetch[p].at = "read" /\ fetch[p].data \in Past!Answers /\ fetch[p].data.ver # Past!None
      /\ cache'[p] = fetch[p].data /\ \A k \in Past!Pages : k # p => cache'[k] = cache[k]
      /\ fetch'[p].at = "idle" /\ \A k \in Past!Pages : k # p => fetch'[k] = fetch[k]
      /\ cache' \in [Past!Pages -> Past!Answers] /\ fetch' \in [Past!Pages -> FetchType]
      /\ Quiet /\ write' = Past!Follow(write, records') /\ write' \in WriteType
      /\ UNCHANGED <<table, now, where, page, answered, joined>>
      /\ TableInv' /\ AnswersInv'
      /\ \A k \in Past!Pages : Past!HasData(cache, k) => Past!HasData(cache, k)'
  BY ArriveIs
<1>2. /\ records' = records /\ mixed' = mixed
      /\ kept' = (kept /\ records = <<>>)
  BY DEF Past!Arrive
<1>3. Past!HistoryTypeOK'
  <2>1. kept' \in BOOLEAN
    BY <1>2
  <2>. QED  BY <1>1, <1>2, <2>1 DEF Past!HistoryTypeOK, FetchType, WriteType
<1>4. 1 \in Past!Pages /\ page \in Nat /\ p = page /\ 1 <= page /\ Past!Here
  BY TypesAre DEF Past!Pages, PastConstants, Past!Observed
<1>5. cache'[p].items = cache[p].items
  BY <1>1 DEF Past!Same
<1>6. ListInv'
  <2>1. ~Past!Here' => page' = 1 /\ records' = <<>>
    BY <1>1, <1>2 DEF ListInv, Past!Here
  <2>2. Unique(records') /\ (page' > 1 => records' # <<>>)
    BY <1>1, <1>2 DEF ListInv
  <2>3. \A k \in Past!Pages : k < page' => fetch'[k].at = "idle" /\ Past!HasData(cache, k)'
    <3>. SUFFICES ASSUME NEW k \in Past!Pages, k < page
                  PROVE  fetch'[k].at = "idle" /\ Past!HasData(cache, k)'
      BY <1>1
    <3>1. fetch[k].at = "idle" /\ Past!HasData(cache, k)
      BY DEF ListInv
    <3>. QED  BY <1>1, <3>1
  <2>4. page' = 1 /\ records' # <<>> => Past!HasData(cache, 1)' /\ records' = All(cache'[1])
    <3>. SUFFICES ASSUME page = 1, records # <<>>
                  PROVE  Past!HasData(cache, 1)' /\ records' = All(cache'[1])
      BY <1>1, <1>2
    <3>1. All(cache'[1]) = All(cache[1])
      BY <1>4, <1>5 DEF All
    <3>. QED  BY <1>1, <1>2, <1>4, <3>1 DEF ListInv
  <2>5. where' = "tab" => ~write'.alive
    BY <1>1, TypesAre, WritesAre DEF ListInv
  <2>6. write'.alive /\ write'.at # "idle" /\ write'.op # "add" => write'.id \in Past!Shown(records')
    BY <1>1, TypesAre, WritesAre
  <2>. QED  BY <2>1, <2>2, <2>3, <2>4, <2>5, <2>6, Zenon DEF ListInv, Past!HasData
<1>7. MergedInv'
  <2>. SUFFICES ASSUME page > 1, ~mixed
                PROVE  /\ NewAs(cache[1].ver)'
                       /\ \A i \in DOMAIN records' : answered'[records'[i].id] <= records'[i].rev
                       /\ cache'[1].ver = now' => records' = Past!Listed(table, Past!FirstPages(Held))'
    BY <1>1, <1>2 DEF MergedInv
  <2>1. cache'[1] = cache[1]
    BY <1>1, <1>4
  <2>2. Held = page /\ Held' = page
    BY <1>1, <1>4 DEF Held
  <2>3. Past!Listed(table, Past!FirstPages(Held))' = Past!Listed(table, Past!FirstPages(page))
    BY <1>1, <2>2 DEF Past!FirstPages, Past!Matching
  <2>. QED  BY <1>1, <1>2, <2>1, <2>2, <2>3 DEF MergedInv, NewAs
<1>8. TimelyInv'
  BY <1>1, <1>2, <1>4, TypesAre DEF TimelyInv, Past!Here, Past!HasData, NewAs
<1>9. BlankInv'
  <2>. SUFFICES ASSUME page = 1, records = <<>>, DOMAIN cache'[1].items # {}, ~kept'
                PROVE  FALSE
    BY <1>1, <1>2 DEF BlankInv
  <2>1. ~kept
    BY <1>2
  <2>2. DOMAIN cache[1].items # {} /\ fetch[1].data.items = cache[1].items
    BY <1>1, <1>4, <1>5
  <2>3. PICK id \in DOMAIN cache[1].items :
           /\ cache[1].items[id] < answered[id]
           /\ id \in DOMAIN fetch[1].data.items => answered[id] <= fetch[1].data.items[id]
    BY <1>1, <1>4, <2>1, <2>2 DEF BlankInv
  <2>4. cache[1].items[id] \in Nat /\ answered[id] \in Nat
    <3>1. cache[1] \in Past!Answers /\ answered \in [Ids -> Past!Changes]
      BY <1>4, TypesAre
    <3>2. id \in Ids /\ cache[1].items[id] \in Past!Changes
      BY <3>1, AnswersAre
    <3>. QED  BY <3>1, <3>2, ChangesAre
  <2>. QED  BY <2>2, <2>3, <2>4
<1>. QED  BY <1>1, <1>3, <1>6, <1>7, <1>8, <1>9

\* Another answer than the one that is shown.
LEMMA ArriveNew ==
    ASSUME PastConstants, HistoryInv, NEW p \in Past!Pages, Past!Arrive(p), Past!Observed(p),
           ~(Past!HasData(cache, p) /\ Past!Same(cache[p], fetch[p].data))
    PROVE  HistoryInv'
<1>. USE DEF HistoryInv
<1>1. /\ fetch[p].at = "read" /\ fetch[p].data \in Past!Answers /\ fetch[p].data.ver # Past!None
      /\ cache'[p] = fetch[p].data /\ \A k \in Past!Pages : k # p => cache'[k] = cache[k]
      /\ fetch'[p].at = "idle" /\ \A k \in Past!Pages : k # p => fetch'[k] = fetch[k]
      /\ cache' \in [Past!Pages -> Past!Answers] /\ fetch' \in [Past!Pages -> FetchType]
      /\ Quiet /\ write' = Past!Follow(write, records') /\ write' \in WriteType
      /\ UNCHANGED <<table, now, where, page, answered, joined>>
      /\ TableInv' /\ AnswersInv'
      /\ \A k \in Past!Pages : Past!HasData(cache, k) => Past!HasData(cache, k)'
  BY ArriveIs
<1>2. /\ records' = Past!Fill(p, records, fetch[p].data)
      /\ mixed' = (page # 1 /\ (mixed \/ Past!OlderThanFirst(fetch[p].data)))
      /\ kept' = FALSE
  BY DEF Past!Arrive
<1>3. /\ 1 \in Past!Pages /\ page \in Nat /\ p = page /\ 1 <= page /\ Past!Here
      /\ records \in Seq(Entry) /\ Unique(records)
      /\ mixed \in BOOLEAN
  BY TypesAre DEF Past!Pages, PastConstants, Past!Observed, ListInv
<1>4. PICK d \in Past!Answers : d = fetch[p].data
  BY <1>1
<1>5. /\ records' \in Seq(Entry) /\ Unique(records')
      /\ page = 1 => records' = All(d)
      /\ page # 1 /\ records # <<>> => records' # <<>>
  BY <1>2, <1>3, <1>4, FillIs
<1>6. Past!HistoryTypeOK'
  <2>1. mixed' \in BOOLEAN
    BY <1>2
  <2>. QED  BY <1>1, <1>2, <1>5, <2>1 DEF Past!HistoryTypeOK, FetchType, WriteType, Entry
<1>7. ListInv'
  <2>1. ~Past!Here' => page' = 1 /\ records' = <<>>
    BY <1>1, <1>3 DEF Past!Here
  <2>2. Unique(records') /\ (page' > 1 => records' # <<>>)
    BY <1>1, <1>3, <1>5 DEF ListInv
  <2>3. \A k \in Past!Pages : k < page' => fetch'[k].at = "idle" /\ Past!HasData(cache, k)'
    <3>. SUFFICES ASSUME NEW k \in Past!Pages, k < page
                  PROVE  fetch'[k].at = "idle" /\ Past!HasData(cache, k)'
      BY <1>1
    <3>1. fetch[k].at = "idle" /\ Past!HasData(cache, k)
      BY DEF ListInv
    <3>. QED  BY <1>1, <3>1
  <2>4. page' = 1 /\ records' # <<>> => Past!HasData(cache, 1)' /\ records' = All(cache'[1])
    <3>. SUFFICES ASSUME page = 1
                  PROVE  Past!HasData(cache, 1)' /\ records' = All(cache'[1])
      BY <1>1
    <3>1. cache'[1] = d
      BY <1>1, <1>3, <1>4
    <3>. QED  BY <1>1, <1>4, <1>5, <3>1 DEF Past!HasData, Past!None
  <2>5. where' = "tab" => ~write'.alive
    BY <1>1, TypesAre, WritesAre DEF ListInv
  <2>6. write'.alive /\ write'.at # "idle" /\ write'.op # "add" => write'.id \in Past!Shown(records')
    BY <1>1, TypesAre, WritesAre
  <2>. QED  BY <2>1, <2>2, <2>3, <2>4, <2>5, <2>6, Zenon DEF ListInv, Past!HasData
<1>8. MergedInv'
  <2>. SUFFICES ASSUME page > 1, ~mixed, ~Past!OlderThanFirst(d)
                PROVE  /\ NewAs(cache[1].ver)'
                       /\ \A i \in DOMAIN records' : answered'[records'[i].id] <= records'[i].rev
                       /\ cache'[1].ver = now' => records' = Past!Listed(table, Past!FirstPages(Held))'
    <3>1. page > 1 /\ ~mixed' => ~mixed /\ ~Past!OlderThanFirst(d)
      <4>1. page > 1 => page # 1
        BY <1>3
      <4>. QED  BY <1>2, <1>4, <4>1
    <3>. QED  BY <1>1, <3>1 DEF MergedInv
  <2>1. cache'[1] = cache[1] /\ p # 1
    BY <1>1, <1>3
  <2>2. Held' = page
    <3>1. cache'[page'].ver # Past!None /\ page' = page
      BY <1>1, <1>3
    <3>. QED  BY <3>1 DEF Held, Past!HasData, Past!None
  <2>3. Past!Listed(table, Past!FirstPages(Held))' = Past!Listed(table, Past!FirstPages(page))
    BY <1>1, <2>2 DEF Past!FirstPages, Past!Matching
  <2>4. Past!HasData(cache, 1)
    BY <1>3 DEF ListInv
  <2>5. PICK ver \in Past!Changes : ver = cache[1].ver
    BY <1>3, <2>4, TypesAre, AnswersAre DEF Past!HasData
  <2>6. ver <= d.ver /\ d.ver # Past!None
    <3>1. d.ver \in Past!Changes
      BY <1>1, <1>4, AnswersAre
    <3>. QED  BY <1>1, <1>4, <2>5, <3>1, ChangesAre DEF Past!OlderThanFirst
  <2>7. Accurate(d, now, Past!Answer(p), answered)
    BY <1>1, <1>4 DEF AnswersInv
  <2>8. /\ NewAs(ver) /\ \A i \in DOMAIN records : answered[records[i].id] <= records[i].rev
        /\ ver = now => records = Past!Listed(table, Past!FirstPages(Held))
    BY <2>5 DEF MergedInv
  <2>9. PICK q : q = Held
    OBVIOUS
  <2>10. q = p \/ q = p - 1
    BY <1>3, <2>9 DEF Held
  <2>11. /\ \A i \in DOMAIN records' : answered[records'[i].id] <= records'[i].rev
         /\ ver = now => records' = Past!Listed(table, Past!FirstPages(p))
    <3>1. ver = now => records = Past!Listed(table, Past!FirstPages(q))
      BY <2>8, <2>9
    <3>. QED  BY <1>2, <1>3, <1>4, <2>1, <2>6, <2>7, <2>8, <2>10, <3>1, MergedStays
  <2>. QED  BY <1>1, <1>3, <2>1, <2>3, <2>5, <2>8, <2>11 DEF NewAs
<1>9. TimelyInv'
  BY <1>1, <1>3 DEF TimelyInv, Past!Here, Past!HasData, NewAs
<1>10. BlankInv'
  <2>1. page = 1 /\ records' = <<>> => DOMAIN cache'[1].items = {}
    BY <1>1, <1>3, <1>4, <1>5, AllIs
  <2>. QED  BY <1>1, <2>1 DEF BlankInv
<1>. QED  BY <1>1, <1>6, <1>7, <1>8, <1>9, <1>10

LEMMA ArriveKeeps ==
    ASSUME PastConstants, HistoryInv, NEW p \in Past!Pages, Past!Arrive(p)
    PROVE  HistoryInv'
BY ArriveUnseen, ArriveSame, ArriveNew

-----------------------------------------------------------------------------
\* The steps of the panel.

\* Page 1 is observed anew: nothing is owed to a fetch that is yet to be sent,
\* or known to be an older one.
LEMMA ObserveFirst ==
    ASSUME PastConstants, Past!HistoryTypeOK, AnswersInv, Unique(<<>>),
           NEW fe \in [Past!Pages -> FetchType], Past!Observe(1, <<>>, fe),
           cache' = cache
    PROVE  /\ where' = "here" /\ page' = 1 /\ Past!Here'
           /\ fetch' \in [Past!Pages -> FetchType] /\ records' \in Seq(Entry)
           /\ mixed' \in BOOLEAN /\ joined' \in BOOLEAN /\ kept' \in BOOLEAN
           /\ \A k \in Past!Pages : fetch'[k] = fe[k] \/ fetch'[k].at = "sent"
           /\ Unique(records')
           /\ records' # <<>> => Past!HasData(cache, 1) /\ records' = All(cache[1])
           /\ MergedInv' /\ TimelyInv' /\ BlankInv'
<1>1. /\ where' = "here" /\ page' = 1
      /\ fetch' = IF fe[1].at = "idle" THEN [fe EXCEPT ![1] = Past!Sent] ELSE fe
      /\ records' = IF Past!HasData(cache, 1) THEN Past!Fill(1, <<>>, cache[1]) ELSE <<>>
      /\ mixed' = FALSE /\ joined' = (fe[1].at = "read") /\ kept' = FALSE
  BY DEF Past!Observe
<1>2. 1 \in Past!Pages /\ cache \in [Past!Pages -> Past!Answers]
  BY TypesAre DEF Past!Pages, PastConstants
<1>3. /\ fetch' \in [Past!Pages -> FetchType]
      /\ \A k \in Past!Pages : fetch'[k] = fe[k] \/ fetch'[k].at = "sent"
      /\ fetch'[1].at # "idle" /\ (fetch'[1].at = "read" => joined')
  BY <1>1, <1>2, FetchesAre
<1>4. PICK d \in Past!Answers : d = cache[1]
  BY <1>2
<1>5. <<>> \in Seq(Entry)
  OBVIOUS
<1>6. Past!Fill(1, <<>>, d) = All(d) /\ All(d) \in Seq(Entry) /\ Unique(All(d))
      /\ (All(d) = <<>> => DOMAIN d.items = {})
  BY <1>5, FillIs, AllIs
<1>7. /\ records' \in Seq(Entry) /\ Unique(records')
      /\ records' # <<>> => Past!HasData(cache, 1) /\ records' = All(cache[1])
      /\ records' = <<>> => DOMAIN cache[1].items = {}
  <2>1. CASE Past!HasData(cache, 1)
    BY <1>1, <1>4, <1>6, <2>1
  <2>2. CASE ~Past!HasData(cache, 1)
    <3>1. DOMAIN cache[1].items = {}
      BY <1>2, <2>2 DEF Past!HasData, AnswersInv, Accurate
    <3>. QED  BY <1>1, <1>5, <2>2, <3>1
  <2>. QED  BY <2>1, <2>2
<1>8. MergedInv'
  BY <1>1 DEF MergedInv
<1>9. TimelyInv'
  BY <1>1, <1>3 DEF TimelyInv, Past!Here
<1>10. BlankInv'
  BY <1>1, <1>7 DEF BlankInv
<1>. QED  BY <1>1, <1>3, <1>7, <1>8, <1>9, <1>10 DEF Past!Here

\* The list as it is when the next page is asked for.
LEMMA HeldBefore ==
    ASSUME PastConstants, HistoryInv, Past!LoadMore, ~mixed, ~joined, ~kept
    PROVE  /\ Past!HasData(cache, 1) /\ NewAs(cache[1].ver)
           /\ \A i \in DOMAIN records : answered[records[i].id] <= records[i].rev
           /\ cache[1].ver = now => records = Past!Listed(table, Past!FirstPages(page))
<1>. USE DEF HistoryInv
<1>1. Past!Here /\ Past!HasData(cache, page) /\ records # <<>> /\ fetch[page].at = "idle"
  BY DEF Past!LoadMore
<1>2. /\ page \in Past!Pages /\ page \in Nat /\ 1 <= page /\ 1 \in Past!Pages
      /\ cache \in [Past!Pages -> Past!Answers] /\ TableIs /\ now \in Past!Changes
      /\ answered \in [Ids -> Past!Changes]
  BY TypesAre DEF Past!Pages, PastConstants
<1>3. CASE page > 1
  <2>1. Past!HasData(cache, 1)
    BY <1>2, <1>3 DEF ListInv
  <2>2. Held = page
    BY <1>1 DEF Held
  <2>. QED  BY <1>3, <2>1, <2>2 DEF MergedInv
<1>4. CASE page = 1
  <2>1. NewAs(cache[1].ver)
    BY <1>1, <1>4 DEF TimelyInv
  <2>2. records = All(cache[1])
    BY <1>1, <1>4 DEF ListInv
  <2>3. PICK d \in Past!Answers : d = cache[1]
    BY <1>2
  <2>4. Accurate(d, now, Past!Answer(1), answered) /\ NewAs(d.ver)
    BY <1>2, <2>1, <2>3 DEF AnswersInv
  <2>5. \A id \in DOMAIN d.items : answered[id] <= d.items[id]
    BY <2>4, AnswersAre DEF Accurate, NewAs
  <2>6. \A i \in DOMAIN records : records[i].id \in DOMAIN d.items
                                  /\ records[i].rev = d.items[records[i].id]
    BY <2>2, <2>3, AllIs
  <2>7. \A i \in DOMAIN records : answered[records[i].id] <= records[i].rev
    BY <2>5, <2>6
  <2>8. cache[1].ver = now => records = Past!Listed(table, Past!FirstPages(1))
    <3>. SUFFICES ASSUME cache[1].ver = now PROVE records = Past!Listed(table, Past!FirstPages(1))
      OBVIOUS
    <3>1. cache[1] = Past!Answer(1)
      BY <2>3, <2>4 DEF Accurate
    <3>. QED  BY <1>2, <2>2, <3>1, PagesJoin
  <2>. QED  BY <1>1, <1>4, <2>1, <2>7, <2>8
<1>. QED  BY <1>2, <1>3, <1>4

LEMMA LoadMoreKeeps ==
    ASSUME PastConstants, HistoryInv, Past!LoadMore
    PROVE  HistoryInv'
<1>. USE DEF HistoryInv
<1>1. /\ Past!Here /\ Past!HasData(cache, page) /\ records # <<>> /\ fetch[page].at = "idle"
      /\ page < MaxPage /\ Past!Observe(page + 1, records, fetch)
      /\ write' = Past!Follow(write, records')
      /\ UNCHANGED <<table, now, cache, answered>>
  BY DEF Past!LoadMore
<1>2. /\ page \in Past!Pages /\ page \in Nat /\ 1 <= page /\ 1 \in Past!Pages
      /\ page + 1 \in Past!Pages /\ page + 1 # 1 /\ page + 1 > 1 /\ (page + 1) - 1 = page
      /\ cache \in [Past!Pages -> Past!Answers] /\ fetch \in [Past!Pages -> FetchType]
      /\ write \in WriteType /\ records \in Seq(Entry) /\ Unique(records)
  BY <1>1, TypesAre DEF Past!Pages, PastConstants, ListInv
<1>3. PICK p \in Past!Pages : p = page + 1
  BY <1>2
<1>4. /\ where' = "here" /\ page' = p
      /\ fetch' = IF fetch[p].at = "idle" THEN [fetch EXCEPT ![p] = Past!Sent] ELSE fetch
      /\ records' = IF Past!HasData(cache, p) THEN Past!Fill(p, records, cache[p]) ELSE records
      /\ mixed' = /\ p # 1
                  /\ \/ mixed \/ joined \/ kept
                     \/ Past!HasData(cache, p) /\ Past!OlderThanFirst(cache[p])
      /\ joined' = (fetch[p].at = "read") /\ kept' = FALSE
  BY <1>1, <1>3 DEF Past!Observe
<1>5. PICK d \in Past!Answers : d = cache[p]
  BY <1>2
<1>6. p # 1 /\ p - 1 = page
  BY <1>2, <1>3
<1>7. records' \in Seq(Entry) /\ Unique(records') /\ records' # <<>>
  <2>1. Past!Fill(p, records, d) \in Seq(Entry) /\ Unique(Past!Fill(p, records, d)) /\ Past!Fill(p, records, d) # <<>>
    BY <1>1, <1>2, <1>6, FillIs
  <2>. QED  BY <1>1, <1>2, <1>4, <1>5, <2>1
<1>8. /\ fetch' \in [Past!Pages -> FetchType] /\ write' \in WriteType
      /\ \A k \in Past!Pages : k # p => fetch'[k] = fetch[k]
      /\ fetch'[p] = fetch[p] \/ fetch'[p].at = "sent"
  BY <1>1, <1>2, <1>4, FetchesAre, WritesAre
<1>9. Quiet
  BY <1>1, <1>2, WritesAre DEF Quiet
<1>10. Past!HistoryTypeOK'
  <2>1. mixed' \in BOOLEAN /\ joined' \in BOOLEAN /\ kept' \in BOOLEAN
    BY <1>4
  <2>2. now' \in Past!Changes /\ table' \in [Ids -> Past!Changes \cup {Past!None}] /\ answered' \in [Ids -> Past!Changes]
    BY <1>1, TypesAre DEF TableIs
  <2>3. cache' \in [Past!Pages -> Past!Answers]
    BY <1>1, <1>2
  <2>. QED  BY <1>4, <1>7, <1>8, <2>1, <2>2, <2>3 DEF Past!HistoryTypeOK, FetchType, WriteType, Entry
<1>11. TableInv'
  BY <1>9, QuietTable
<1>12. AnswersInv'
  <2>1. \A k \in Past!Pages : fetch'[k] = fetch[k] \/ fetch'[k].at # "read"
    BY <1>8
  <2>. QED  BY <1>1, <1>9, <2>1, QuietAnswers
<1>13. ListInv'
  <2>1. Past!Here'
    BY <1>4 DEF Past!Here
  <2>2. page' > 1 /\ page' # 1
    BY <1>2, <1>3, <1>4
  <2>3. \A k \in Past!Pages : k < page' => fetch'[k].at = "idle" /\ Past!HasData(cache, k)'
    <3>. SUFFICES ASSUME NEW k \in Past!Pages, k < page + 1
                  PROVE  fetch'[k].at = "idle" /\ Past!HasData(cache, k)'
      BY <1>3, <1>4
    <3>1. k < page \/ k = page
      BY <1>2 DEF Past!Pages
    <3>2. fetch[k].at = "idle" /\ Past!HasData(cache, k)
      BY <1>1, <3>1 DEF ListInv
    <3>3. k # p
      BY <1>2, <1>3, <3>1 DEF Past!Pages
    <3>. QED  BY <1>1, <1>8, <3>2, <3>3 DEF Past!HasData
  <2>4. where' # "tab"
    BY <1>4
  <2>5. write'.alive /\ write'.at # "idle" /\ write'.op # "add" => write'.id \in Past!Shown(records')
    BY <1>1, <1>2, WritesAre
  <2>. QED  BY <1>7, <2>1, <2>2, <2>3, <2>4, <2>5, Zenon DEF ListInv, Past!HasData
<1>14. MergedInv'
  <2>. SUFFICES ASSUME ~mixed, ~joined, ~kept, Past!HasData(cache, p) => ~Past!OlderThanFirst(d)
                PROVE  /\ NewAs(cache[1].ver)'
                       /\ \A i \in DOMAIN records' : answered'[records'[i].id] <= records'[i].rev
                       /\ cache'[1].ver = now' => records' = Past!Listed(table, Past!FirstPages(Held))'
    BY <1>4, <1>5, <1>6 DEF MergedInv
  <2>1. /\ Past!HasData(cache, 1) /\ NewAs(cache[1].ver)
        /\ \A i \in DOMAIN records : answered[records[i].id] <= records[i].rev
        /\ cache[1].ver = now => records = Past!Listed(table, Past!FirstPages(page))
    BY HeldBefore
  <2>2. PICK ver \in Past!Changes : ver = cache[1].ver
    BY <1>2, <2>1, AnswersAre DEF Past!HasData
  <2>3. /\ \A i \in DOMAIN records' : answered[records'[i].id] <= records'[i].rev
        /\ ver = now => records' = Past!Listed(table, Past!FirstPages(IF Past!HasData(cache, p) THEN p ELSE p - 1))
    <3>1. CASE Past!HasData(cache, p)
      <4>1. ver <= d.ver /\ d.ver # Past!None
        <5>1. d.ver # Past!None /\ ~(d.ver < ver)
          BY <1>5, <2>2, <3>1 DEF Past!HasData, Past!OlderThanFirst
        <5>2. d.ver \in Past!Changes
          BY <5>1, AnswersAre
        <5>. QED  BY <5>1, <5>2, ChangesAre
      <4>2. Accurate(d, now, Past!Answer(p), answered) /\ NewAs(ver)
        BY <1>5, <2>1, <2>2 DEF AnswersInv
      <4>3. ver = now => records = Past!Listed(table, Past!FirstPages(page))
        BY <2>1, <2>2
      <4>. QED  BY <1>2, <1>4, <1>5, <1>6, <2>1, <3>1, <4>1, <4>2, <4>3, MergedStays
    <3>2. CASE ~Past!HasData(cache, p)
      BY <1>4, <1>6, <2>1, <2>2, <3>2
    <3>. QED  BY <3>1, <3>2
  <2>4. Held' = IF Past!HasData(cache, p) THEN p ELSE p - 1
    BY <1>1, <1>4 DEF Held, Past!HasData, Past!None
  <2>5. Past!Listed(table, Past!FirstPages(Held))' = Past!Listed(table, Past!FirstPages(IF Past!HasData(cache, p) THEN p ELSE p - 1))
    BY <1>1, <2>4 DEF Past!FirstPages, Past!Matching
  <2>. QED  BY <1>1, <2>1, <2>2, <2>3, <2>5 DEF NewAs
<1>15. page' # 1
  BY <1>4, <1>6
<1>16. TimelyInv' /\ BlankInv'
  BY <1>15 DEF TimelyInv, BlankInv
<1>. QED  BY <1>10, <1>11, <1>12, <1>13, <1>14, <1>16

LEMMA LeaveKeeps ==
    ASSUME PastConstants, HistoryInv, NEW w \in {"filtered", "tab"}, Past!Leave(w)
    PROVE  HistoryInv'
<1>. USE DEF HistoryInv
<1>1. /\ where' = w /\ page' = 1 /\ records' = <<>>
      /\ mixed' = FALSE /\ joined' = FALSE /\ kept' = FALSE
      /\ write' = IF w = "tab" THEN [write EXCEPT !.alive = FALSE] ELSE Past!Follow(write, <<>>)
      /\ UNCHANGED <<table, now, cache, fetch, answered>>
  BY DEF Past!Leave
<1>2. 1 \in Past!Pages /\ write \in WriteType
  BY TypesAre DEF Past!Pages, PastConstants
<1>3. /\ write' \in WriteType /\ (w = "tab" => ~write'.alive)
      /\ write'.at = write.at /\ write'.id = write.id /\ write'.ver = write.ver
      /\ write'.alive => write'.op = "add" \/ write'.id \in Past!Shown(<<>>)
  <2>1. CASE w = "tab"
    BY <1>1, <1>2, <2>1 DEF WriteType
  <2>2. CASE w # "tab"
    BY <1>1, <1>2, <2>2, WritesAre
  <2>. QED  BY <2>1, <2>2
<1>4. Quiet
  BY <1>1, <1>3 DEF Quiet
<1>5. Past!HistoryTypeOK'
  <2>1. records' \in Seq([id : Ids, rev : Past!Changes])
    BY <1>1
  <2>. QED  BY <1>1, <1>2, <1>3, <2>1 DEF Past!HistoryTypeOK, WriteType
<1>6. TableInv'
  BY <1>4, QuietTable
<1>7. AnswersInv'
  BY <1>1, <1>4, QuietAnswers
<1>8. ListInv'
  <2>1. \A k \in Past!Pages : ~(k < page')
    BY <1>1 DEF Past!Pages
  <2>2. ~(page' > 1) /\ Unique(records')
    BY <1>1 DEF Unique
  <2>. QED  BY <1>1, <1>3, <2>1, <2>2 DEF ListInv
<1>9. MergedInv' /\ TimelyInv' /\ BlankInv'
  BY <1>1 DEF MergedInv, TimelyInv, BlankInv, Past!Here
<1>. QED  BY <1>5, <1>6, <1>7, <1>8, <1>9

\* What is left to say of the list when it is observed from page 1.
LEMMA FirstListed ==
    ASSUME PastConstants, where' = "here", page' = 1, Unique(records'), cache' = cache,
           records' # <<>> => Past!HasData(cache, 1) /\ records' = All(cache[1]),
           write'.alive => write'.at = "idle" \/ write'.op = "add" \/ write'.id \in Past!Shown(records')
    PROVE  ListInv'
<1>1. \A k \in Past!Pages : ~(k < page')
  BY DEF Past!Pages
<1>2. ~(page' > 1) /\ Past!Here' /\ where' # "tab"
  BY DEF Past!Here
<1>. QED  BY <1>1, <1>2 DEF ListInv, Past!HasData, Past!None

LEMMA NothingUnique == Unique(<<>>) /\ Past!Shown(<<>>) = {}
BY DEF Unique, Past!Shown

LEMMA EnterKeeps ==
    ASSUME PastConstants, HistoryInv, Past!Enter
    PROVE  HistoryInv'
<1>. USE DEF HistoryInv
<1>1. /\ where = "tab" /\ Past!Observe(1, <<>>, fetch)
      /\ UNCHANGED <<table, now, cache, write, answered>>
  BY DEF Past!Enter
<1>2. fetch \in [Past!Pages -> FetchType]
  BY TypesAre
<1>3. /\ where' = "here" /\ page' = 1 /\ Past!Here'
      /\ fetch' \in [Past!Pages -> FetchType] /\ records' \in Seq(Entry)
      /\ mixed' \in BOOLEAN /\ joined' \in BOOLEAN /\ kept' \in BOOLEAN
      /\ \A k \in Past!Pages : fetch'[k] = fetch[k] \/ fetch'[k].at = "sent"
      /\ Unique(records')
      /\ records' # <<>> => Past!HasData(cache, 1) /\ records' = All(cache[1])
      /\ MergedInv' /\ TimelyInv' /\ BlankInv'
  BY <1>1, <1>2, NothingUnique, ObserveFirst
<1>4. ~write'.alive
  BY <1>1 DEF ListInv
<1>5. Quiet
  BY <1>1 DEF Quiet
<1>6. Past!HistoryTypeOK'
  <2>1. page' \in Past!Pages
    BY <1>3 DEF Past!Pages, PastConstants
  <2>. QED  BY <1>1, <1>3, <2>1 DEF Past!HistoryTypeOK, FetchType, Entry
<1>7. TableInv'
  BY <1>5, QuietTable
<1>8. AnswersInv'
  <2>1. \A k \in Past!Pages : fetch'[k] = fetch[k] \/ fetch'[k].at # "read"
    BY <1>3
  <2>. QED  BY <1>1, <1>5, <2>1, QuietAnswers
<1>9. ListInv'
  BY <1>1, <1>3, <1>4, FirstListed
<1>. QED  BY <1>3, <1>6, <1>7, <1>8, <1>9

LEMMA SetFilterKeeps ==
    ASSUME PastConstants, HistoryInv, Past!SetFilter
    PROVE  HistoryInv'
<1>. USE DEF HistoryInv
<1>1. /\ where # "tab" /\ Past!ResetPage(fetch, TRUE) /\ write' = Past!Follow(write, records')
      /\ UNCHANGED <<table, now, cache, answered>>
  BY DEF Past!SetFilter
<1>2. /\ fetch \in [Past!Pages -> FetchType] /\ write \in WriteType /\ 1 \in Past!Pages
      /\ mixed \in BOOLEAN /\ joined \in BOOLEAN /\ kept \in BOOLEAN
      /\ where \in {"here", "filtered", "tab"}
  BY TypesAre DEF Past!Pages, PastConstants
<1>3. /\ where' = "here" /\ page' = 1
      /\ fetch' \in [Past!Pages -> FetchType] /\ records' \in Seq(Entry)
      /\ mixed' \in BOOLEAN /\ joined' \in BOOLEAN /\ kept' \in BOOLEAN
      /\ \A k \in Past!Pages : fetch'[k] = fetch[k] \/ fetch'[k].at = "sent"
      /\ Unique(records')
      /\ records' # <<>> => Past!HasData(cache, 1) /\ records' = All(cache[1])
      /\ MergedInv' /\ TimelyInv' /\ BlankInv'
  <2>1. CASE Past!Here /\ page = 1
    <3>1. /\ records' = <<>> /\ fetch' = fetch /\ mixed' = FALSE
          /\ joined' = (fetch[1].at = "read") /\ kept' = (kept \/ TRUE)
          /\ UNCHANGED <<where, page>>
      BY <1>1, <2>1 DEF Past!ResetPage
    <3>2. kept' /\ records' \in Seq(Entry) /\ Unique(records')
      <4>1. kept'
        BY <3>1
      <4>2. <<>> \in Seq(Entry)
        OBVIOUS
      <4>. QED  BY <3>1, <4>1, <4>2, NothingUnique
    <3>3. MergedInv' /\ BlankInv'
      BY <2>1, <3>1, <3>2 DEF MergedInv, BlankInv
    <3>4. TimelyInv'
      BY <2>1, <3>1, <3>2 DEF TimelyInv
    <3>. QED  BY <1>2, <2>1, <3>1, <3>2, <3>3, <3>4 DEF Past!Here
  <2>2. CASE ~(Past!Here /\ page = 1)
    <3>1. Past!Observe(1, <<>>, fetch)
      BY <1>1, <2>2 DEF Past!ResetPage
    <3>. QED  BY <1>1, <1>2, <3>1, NothingUnique, ObserveFirst
  <2>. QED  BY <2>1, <2>2
<1>4. /\ write' \in WriteType /\ Quiet
      /\ write'.alive => write'.op = "add" \/ write'.id \in Past!Shown(records')
  BY <1>1, <1>2, WritesAre DEF Quiet
<1>5. Past!HistoryTypeOK'
  BY <1>1, <1>2, <1>3, <1>4 DEF Past!HistoryTypeOK, FetchType, Entry, WriteType
<1>6. TableInv'
  BY <1>4, QuietTable
<1>7. AnswersInv'
  <2>1. \A k \in Past!Pages : fetch'[k] = fetch[k] \/ fetch'[k].at # "read"
    BY <1>3
  <2>. QED  BY <1>1, <1>4, <2>1, QuietAnswers
<1>8. ListInv'
  BY <1>1, <1>3, <1>4, FirstListed
<1>. QED  BY <1>3, <1>5, <1>6, <1>7, <1>8

-----------------------------------------------------------------------------
\* The steps of the changes.

LEMMA StartWriteKeeps ==
    ASSUME PastConstants, HistoryInv, NEW op \in Past!Ops, NEW id \in Ids, Past!StartWrite(op, id)
    PROVE  HistoryInv'
<1>. USE DEF HistoryInv
<1>1. /\ write.at = "idle" /\ where # "tab"
      /\ op # "add" => id \in Past!Shown(records)
      /\ write' = [at |-> "sent", op |-> op, id |-> id, ver |-> 0, alive |-> TRUE]
      /\ UNCHANGED <<table, now, cache, fetch, where, page, records, answered, mixed, joined, kept>>
  BY DEF Past!StartWrite, Past!panel
<1>2. write' \in WriteType
  <2>1. 0 \in Past!Changes
    BY DEF Past!Changes, PastConstants
  <2>. QED  BY <1>1, <2>1 DEF WriteType
<1>3. Due = answered /\ Due' = answered
  BY <1>1 DEF Due
<1>4. Past!HistoryTypeOK'
  BY <1>1, <1>2 DEF Past!HistoryTypeOK, WriteType
<1>5. TableInv'
  BY <1>1, <1>3 DEF TableInv
<1>6. \A p : Past!Answer(p)' = Past!Answer(p)
  BY <1>1, Zenon DEF Past!Answer, Past!FirstPages, Past!Matching
<1>7. AnswersInv'
  BY <1>1, <1>3, <1>6 DEF AnswersInv, Accurate
<1>8. ListInv'
  BY <1>1 DEF ListInv, Past!Here, Past!HasData
<1>9. MergedInv' /\ TimelyInv' /\ BlankInv'
  BY <1>1 DEF MergedInv, TimelyInv, BlankInv, NewAs, Held, Past!HasData, Past!Here, Past!FirstPages, Past!Matching
<1>. QED  BY <1>4, <1>5, <1>7, <1>8, <1>9

LEMMA WriteFailsKeeps ==
    ASSUME PastConstants, HistoryInv, Past!WriteFails
    PROVE  HistoryInv'
<1>. USE DEF HistoryInv
<1>1. /\ write' = Past!NoWrite
      /\ UNCHANGED <<table, now, cache, fetch, where, page, records, answered, mixed, joined, kept>>
  BY DEF Past!WriteFails, Past!panel
<1>2. write' \in WriteType /\ write'.at = "idle" /\ ~write'.alive
  BY <1>1, WritesAre
<1>3. Due' = answered
  BY <1>1, <1>2 DEF Due
<1>4. Past!HistoryTypeOK'
  BY <1>1, <1>2 DEF Past!HistoryTypeOK, WriteType
<1>5. TableInv'
  <2>1. /\ answered \in [Ids -> Past!Changes] /\ Due \in [Ids -> Past!Changes] /\ now \in Nat
        /\ \A id \in Ids : /\ answered[id] <= Due[id] /\ Due[id] <= now /\ Due[id] <= table[id]
                           /\ table[id] = Past!None \/ table[id] <= now
                           /\ table[id] \in Nat
    <3>1. now \in Past!Changes /\ table \in [Ids -> Past!Changes \cup {Past!None}]
      BY TypesAre DEF TableIs
    <3>. QED  BY <3>1, DueIs, ChangesAre DEF TableInv
  <2>2. \A id \in Ids : answered[id] <= answered[id] /\ answered[id] <= now /\ answered[id] <= table[id]
    <3>. SUFFICES ASSUME NEW id \in Ids
                  PROVE  answered[id] <= answered[id] /\ answered[id] <= now /\ answered[id] <= table[id]
      OBVIOUS
    <3>1. answered[id] \in Nat /\ Due[id] \in Nat
      BY <2>1, ChangesAre
    <3>. QED  BY <2>1, <3>1
  <2>. QED  BY <1>1, <1>2, <1>3, <2>1, <2>2 DEF TableInv, Past!None
<1>6. \A p : Past!Answer(p)' = Past!Answer(p)
  BY <1>1, Zenon DEF Past!Answer, Past!FirstPages, Past!Matching
<1>7. AnswersInv'
  BY <1>1, <1>3, <1>6 DEF AnswersInv, Accurate
<1>8. ListInv'
  BY <1>1, <1>2 DEF ListInv, Past!Here, Past!HasData
<1>9. MergedInv' /\ TimelyInv' /\ BlankInv'
  BY <1>1 DEF MergedInv, TimelyInv, BlankInv, NewAs, Held, Past!HasData, Past!Here, Past!FirstPages, Past!Matching
<1>. QED  BY <1>4, <1>5, <1>7, <1>8, <1>9

\* An answer that was read before a change knows nothing of it.
LEMMA SoundLater ==
    ASSUME PastConstants, NEW d \in Past!Answers, NEW n \in Past!Changes, n < MaxCommits,
           NEW a, NEW b, NEW due, NEW more, Accurate(d, n, a, due),
           \A id \in Ids : more[id] = due[id] \/ more[id] = n + 1
    PROVE  Accurate(d, n + 1, b, more) /\ (d.ver # Past!None => d.ver <= n)
<1>1. d.ver \in Past!Changes \cup {Past!None} /\ DOMAIN d.items \in SUBSET Ids
  BY AnswersAre
<1>2. n \in Nat /\ n + 1 \in Past!Changes /\ n + 1 # Past!None
  BY ChangesAre DEF Past!Changes, Past!None, PastConstants
<1>3. CASE d.ver = Past!None
  BY <1>2, <1>3 DEF Accurate
<1>4. CASE d.ver # Past!None
  <2>1. d.ver \in Nat /\ d.ver <= n
    BY <1>1, <1>4, ChangesAre DEF Accurate
  <2>2. d.ver <= n + 1 /\ d.ver # n + 1 /\ ~(n + 1 <= d.ver)
    BY <1>2, <2>1
  <2>3. \A id \in DOMAIN d.items : more[id] <= d.ver => more[id] <= d.items[id]
    BY <1>1, <2>2 DEF Accurate
  <2>. QED  BY <1>4, <2>1, <2>2, <2>3 DEF Accurate
<1>. QED  BY <1>3, <1>4

LEMMA ChangeKeeps ==
    ASSUME PastConstants, HistoryInv, NEW op \in Past!Ops, NEW id \in Ids, Past!Change(op, id),
           UNCHANGED <<cache, fetch, where, page, records, answered, mixed, joined, kept>>,
           write' \in WriteType, write'.at # "idle" => write'.id \in Ids,
           write'.at = "served" => answered[write'.id] <= write'.ver /\ write'.ver <= now + 1,
           \A x \in Ids : Due'[x] = Due[x] \/ (x = id /\ Due'[x] = now + 1)
    PROVE  Past!HistoryTypeOK' /\ TableInv' /\ AnswersInv' /\ MergedInv' /\ TimelyInv' /\ BlankInv'
<1>. USE DEF HistoryInv
<1>1. /\ now < MaxCommits /\ now' = now + 1
      /\ table' = [table EXCEPT ![id] = IF op = "delete" THEN Past!None ELSE now + 1]
  BY DEF Past!Change
<1>2. /\ table \in [Ids -> Past!Changes \cup {Past!None}] /\ now \in Past!Changes /\ answered \in [Ids -> Past!Changes]
      /\ cache \in [Past!Pages -> Past!Answers] /\ fetch \in [Past!Pages -> FetchType] /\ page \in Past!Pages
      /\ Due \in [Ids -> Past!Changes]
  BY TypesAre, DueIs DEF TableIs
<1>3. now \in Nat /\ now + 1 \in Past!Changes /\ now + 1 < Past!None /\ Past!None \in Nat
  BY <1>1, <1>2, ChangesAre DEF Past!Changes, Past!None, PastConstants
<1>4. /\ table' \in [Ids -> Past!Changes \cup {Past!None}]
      /\ table'[id] = Past!None \/ table'[id] = now + 1
      /\ \A x \in Ids : x # id => table'[x] = table[x]
  BY <1>1, <1>2, <1>3
<1>5. Past!HistoryTypeOK'
  BY <1>1, <1>3, <1>4 DEF Past!HistoryTypeOK, WriteType, Past!Changes, Past!None
<1>6. TableInv'
  <2>1. ASSUME NEW x \in Ids
        PROVE  /\ table'[x] = Past!None \/ table'[x] <= now + 1
               /\ answered[x] <= Due'[x] /\ Due'[x] <= now + 1 /\ Due'[x] <= table'[x]
    <3>1. /\ answered[x] \in Nat /\ Due[x] \in Nat /\ table[x] \in Nat
          /\ answered[x] <= Due[x] /\ Due[x] <= now /\ Due[x] <= table[x]
          /\ table[x] = Past!None \/ table[x] <= now
      BY <1>2, DueIs, ChangesAre DEF TableInv
    <3>2. CASE x = id
      BY <1>3, <1>4, <3>1, <3>2
    <3>3. CASE x # id
      BY <1>3, <1>4, <3>1, <3>3
    <3>. QED  BY <3>2, <3>3
  <2>. QED  BY <1>1, <2>1 DEF TableInv, Past!None
<1>7. ASSUME NEW p \in Past!Pages, NEW d \in Past!Answers,
             Accurate(d, now, Past!Answer(p), answered), Accurate(d, now, Past!Answer(p), Due)
      PROVE  Accurate(d, now, Past!Answer(p), answered)' /\ Accurate(d, now, Past!Answer(p), Due)'
  <2>1. PICK b : b = Past!Answer(p)'
    OBVIOUS
  <2>2. PICK more : more = Due'
    OBVIOUS
  <2>3. Accurate(d, now + 1, b, answered)
    BY <1>1, <1>2, <1>7, SoundLater
  <2>4. Accurate(d, now + 1, b, more)
    BY <1>1, <1>2, <1>7, <2>2, SoundLater
  <2>. QED  BY <1>1, <2>1, <2>2, <2>3, <2>4 DEF Accurate, Past!None
<1>8. AnswersInv'
  <2>. SUFFICES ASSUME NEW p \in Past!Pages
                PROVE  /\ Accurate(cache[p], now, Past!Answer(p), answered)'
                       /\ Accurate(cache[p], now, Past!Answer(p), Due)'
                       /\ (fetch[p].at = "read")' =>
                             /\ fetch'[p].data.ver # Past!None
                             /\ Accurate(fetch[p].data, now, Past!Answer(p), answered)'
                             /\ Accurate(fetch[p].data, now, Past!Answer(p), Due)'
    BY DEF AnswersInv, Past!Pages, Past!None
  <2>1. PICK c \in Past!Answers : c = cache[p]
    BY <1>2
  <2>2. PICK d \in Past!Answers : d = fetch[p].data
    BY <1>2 DEF FetchType
  <2>3. Accurate(c, now, Past!Answer(p), answered)' /\ Accurate(c, now, Past!Answer(p), Due)'
    BY <1>7, <2>1 DEF AnswersInv
  <2>4. fetch[p].at = "read" => /\ d.ver # Past!None
                                /\ Accurate(d, now, Past!Answer(p), answered)'
                                /\ Accurate(d, now, Past!Answer(p), Due)'
    BY <1>7, <2>2 DEF AnswersInv
  <2>. QED  BY <2>1, <2>2, <2>3, <2>4
<1>9. MergedInv'
  <2>. SUFFICES ASSUME page > 1, ~mixed
                PROVE  /\ NewAs(cache[1].ver)'
                       /\ \A i \in DOMAIN records' : answered'[records'[i].id] <= records'[i].rev
                       /\ cache'[1].ver # now'
    BY DEF MergedInv
  <2>1. 1 \in Past!Pages /\ Past!HasData(cache, 1)
    BY <1>2 DEF ListInv, Past!Pages, PastConstants
  <2>2. cache[1].ver # now + 1
    <3>1. cache[1] \in Past!Answers /\ Accurate(cache[1], now, Past!Answer(1), answered)
      BY <1>2, <2>1 DEF AnswersInv
    <3>2. cache[1].ver <= now /\ cache[1].ver \in Past!Changes
      BY <2>1, <3>1, AnswersAre DEF Accurate, Past!HasData
    <3>. QED  BY <1>3, <3>2
  <2>. QED  BY <1>1, <2>2 DEF MergedInv, NewAs
<1>10. TimelyInv' /\ BlankInv'
  BY DEF TimelyInv, BlankInv, NewAs, Past!HasData, Past!Here, Past!None
<1>. QED  BY <1>5, <1>6, <1>8, <1>9, <1>10

LEMMA ElsewhereKeeps ==
    ASSUME PastConstants, HistoryInv, NEW op \in Past!Ops, NEW id \in Ids, Past!Elsewhere(op, id)
    PROVE  HistoryInv'
<1>. USE DEF HistoryInv
<1>1. /\ Past!Change(op, id)
      /\ UNCHANGED <<cache, fetch, where, page, records, write, answered, mixed, joined, kept>>
  BY DEF Past!Elsewhere, Past!panel
<1>2. Due' = Due
  BY <1>1 DEF Due
<1>3. write \in WriteType /\ now \in Nat
  BY TypesAre, ChangesAre
<1>4. write.at = "served" => answered[write.id] <= write.ver /\ write.ver <= now + 1
  <2>1. write.ver \in Nat
    BY <1>3, ChangesAre DEF WriteType
  <2>. QED  BY <1>3, <2>1 DEF TableInv
<1>5. write.at # "idle" => write.id \in Ids
  BY DEF TableInv
<1>6. Past!HistoryTypeOK' /\ TableInv' /\ AnswersInv' /\ MergedInv' /\ TimelyInv' /\ BlankInv'
  BY <1>1, <1>2, <1>3, <1>4, <1>5, ChangeKeeps
<1>7. ListInv'
  BY <1>1, Zenon DEF ListInv, Past!Here, Past!HasData, Past!None
<1>. QED  BY <1>6, <1>7

LEMMA ServeWriteKeeps ==
    ASSUME PastConstants, HistoryInv, Past!ServeWrite
    PROVE  HistoryInv'
<1>. USE DEF HistoryInv
<1>1. /\ write.at = "sent" /\ Past!Change(write.op, write.id)
      /\ write' = [write EXCEPT !.at = "served", !.ver = now + 1]
      /\ UNCHANGED <<cache, fetch, where, page, records, answered, mixed, joined, kept>>
  BY DEF Past!ServeWrite, Past!panel
<1>2. write \in WriteType /\ write.id \in Ids /\ write.op \in Past!Ops
  BY <1>1, TypesAre DEF TableInv, WriteType
<1>3. now \in Nat /\ now + 1 \in Past!Changes /\ answered \in [Ids -> Past!Changes]
  BY <1>1, TypesAre, ChangesAre DEF Past!Changes, Past!None, PastConstants, Past!Change
<1>4. /\ write' \in WriteType /\ write'.at = "served" /\ write'.ver = now + 1
      /\ write'.id = write.id /\ write'.op = write.op /\ write'.alive = write.alive
  BY <1>1, <1>2, <1>3 DEF WriteType
<1>5. Due = answered /\ Due' = [answered EXCEPT ![write.id] = now + 1]
  BY <1>1, <1>4 DEF Due
<1>6. \A x \in Ids : Due'[x] = Due[x] \/ (x = write.id /\ Due'[x] = now + 1)
  BY <1>3, <1>5
<1>7. answered[write.id] <= now + 1
  <2>1. answered[write.id] <= now /\ answered[write.id] \in Nat
    BY <1>2, <1>3, <1>5, DueIs, ChangesAre
  <2>. QED  BY <1>3, <2>1
<1>8. Past!HistoryTypeOK' /\ TableInv' /\ AnswersInv' /\ MergedInv' /\ TimelyInv' /\ BlankInv'
  <2>1. write'.ver <= now + 1 /\ answered[write'.id] <= write'.ver
    BY <1>3, <1>4, <1>7
  <2>2. PICK id \in Ids, op \in Past!Ops : id = write.id /\ op = write.op
    BY <1>2
  <2>. QED  BY <1>1, <1>2, <1>4, <1>6, <2>1, <2>2, ChangeKeeps
<1>9. ListInv'
  BY <1>1, <1>4 DEF ListInv, Past!Here, Past!HasData, Past!None
<1>. QED  BY <1>8, <1>9

LEMMA InvalidatedIs ==
    ASSUME PastConstants, Past!HistoryTypeOK
    PROVE  /\ Past!Invalidated \in [Past!Pages -> FetchType]
           /\ \A k \in Past!Pages : Past!Invalidated[k] = fetch[k] \/ Past!Invalidated[k].at = "sent"
           /\ \A k \in Past!Pages : k # page => Past!Invalidated[k] = fetch[k]
           /\ Past!Here /\ Past!HasData(cache, page) => Past!Invalidated[page].at = "sent"
<1>1. fetch \in [Past!Pages -> FetchType] /\ page \in Past!Pages
  BY TypesAre
<1>2. CASE Past!Here /\ (Past!HasData(cache, page) \/ fetch[page].at = "idle")
  <2>1. Past!Invalidated = [fetch EXCEPT ![page] = Past!Sent]
    BY <1>2 DEF Past!Invalidated
  <2>. QED  BY <1>1, <2>1, FetchesAre
<1>3. CASE ~(Past!Here /\ (Past!HasData(cache, page) \/ fetch[page].at = "idle"))
  <2>1. Past!Invalidated = fetch
    BY <1>3 DEF Past!Invalidated
  <2>. QED  BY <1>1, <1>3, <2>1
<1>. QED  BY <1>2, <1>3

\* What is due is told then, to the panel or not.
LEMMA AnswerWriteIs ==
    ASSUME PastConstants, HistoryInv, Past!AnswerWrite
    PROVE  /\ write.at = "served" /\ answered' = Due /\ Due' = Due /\ write' = Past!NoWrite
           /\ write' \in WriteType /\ write'.at = "idle" /\ ~write'.alive
           /\ answered' \in [Ids -> Past!Changes]
           /\ answered'[write.id] = write.ver /\ write.id \in Ids
           /\ \A id \in Ids : answered[id] \in Nat /\ answered'[id] \in Nat /\ answered[id] <= answered'[id]
           /\ UNCHANGED <<table, now, cache>>
           /\ TableInv'
           /\ (\A k \in Past!Pages : fetch'[k] = fetch[k] \/ fetch'[k].at # "read") => AnswersInv'
<1>. USE DEF HistoryInv
<1>1. /\ write.at = "served" /\ answered' = [answered EXCEPT ![write.id] = write.ver]
      /\ write' = Past!NoWrite /\ UNCHANGED <<table, now, cache>>
  BY DEF Past!AnswerWrite
<1>2. write' \in WriteType /\ write'.at = "idle" /\ ~write'.alive
  BY <1>1, WritesAre
<1>3. answered' = Due /\ Due' = Due /\ Due \in [Ids -> Past!Changes] /\ answered \in [Ids -> Past!Changes]
  <2>1. Due = [answered EXCEPT ![write.id] = write.ver]
    BY <1>1, DueIs
  <2>2. Due' = answered'
    BY <1>2 DEF Due
  <2>. QED  BY <1>1, <2>1, <2>2, DueIs
<1>4. write.id \in Ids /\ answered'[write.id] = write.ver
  BY <1>1, <1>3 DEF TableInv
<1>5. \A id \in Ids : /\ answered[id] \in Nat /\ Due[id] \in Nat /\ answered[id] <= Due[id]
                      /\ Due[id] <= Due[id] /\ Due[id] <= now /\ Due[id] <= table[id]
  <2>. SUFFICES ASSUME NEW id \in Ids
                PROVE  /\ answered[id] \in Nat /\ Due[id] \in Nat /\ answered[id] <= Due[id]
                       /\ Due[id] <= Due[id] /\ Due[id] <= now /\ Due[id] <= table[id]
    OBVIOUS
  <2>1. answered[id] \in Nat /\ Due[id] \in Nat
    BY <1>3, ChangesAre
  <2>. QED  BY <2>1, DueIs
<1>6. TableInv'
  BY <1>1, <1>2, <1>3, <1>5 DEF TableInv, Past!None
<1>7. ASSUME \A k \in Past!Pages : fetch'[k] = fetch[k] \/ fetch'[k].at # "read"
      PROVE  AnswersInv'
  <2>1. \A p : Past!Answer(p)' = Past!Answer(p)
    BY <1>1, Zenon DEF Past!Answer, Past!FirstPages, Past!Matching
  <2>2. ASSUME NEW p \in Past!Pages
        PROVE  /\ Accurate(cache[p], now, Past!Answer(p), Due)
               /\ fetch'[p].at = "read" => /\ fetch'[p].data.ver # Past!None
                                           /\ Accurate(fetch'[p].data, now, Past!Answer(p), Due)
    BY <1>7 DEF AnswersInv
  <2>. QED  BY <1>1, <1>3, <2>1, <2>2 DEF AnswersInv, Accurate
<1>. QED  BY <1>1, <1>2, <1>3, <1>4, <1>5, <1>6, <1>7

\* The callback of a card, or of the manual form, sets the list back.
LEMMA ToldKeeps ==
    ASSUME PastConstants, HistoryInv, Past!AnswerWrite, write.alive
    PROVE  HistoryInv'
<1>. USE DEF HistoryInv
<1>1. /\ write.at = "served" /\ answered' = Due /\ Due' = Due /\ write' = Past!NoWrite
      /\ write' \in WriteType /\ write'.at = "idle" /\ ~write'.alive
      /\ answered' \in [Ids -> Past!Changes]
      /\ answered'[write.id] = write.ver /\ write.id \in Ids
      /\ \A id \in Ids : answered[id] \in Nat /\ answered'[id] \in Nat /\ answered[id] <= answered'[id]
      /\ UNCHANGED <<table, now, cache>>
      /\ TableInv'
      /\ (\A k \in Past!Pages : fetch'[k] = fetch[k] \/ fetch'[k].at # "read") => AnswersInv'
  BY AnswerWriteIs
<1>2. /\ Past!Invalidated \in [Past!Pages -> FetchType]
      /\ \A k \in Past!Pages : Past!Invalidated[k] = fetch[k] \/ Past!Invalidated[k].at = "sent"
      /\ Past!Here /\ Past!HasData(cache, page) => Past!Invalidated[page].at = "sent"
  BY InvalidatedIs
<1>. DEFINE nothingNew == \/ write.op = "add"
                          \/ Past!HasData(cache, page) /\ cache[page].ver >= write.ver
<1>3. Past!ResetPage(Past!Invalidated, nothingNew)
  BY DEF Past!AnswerWrite
<1>4. nothingNew \in BOOLEAN
  OBVIOUS
<1>. HIDE DEF nothingNew
<1>5. 1 \in Past!Pages /\ cache \in [Past!Pages -> Past!Answers] /\ kept \in BOOLEAN
  BY TypesAre DEF Past!Pages, PastConstants
<1>6. /\ where' = "here" /\ page' = 1
      /\ fetch' \in [Past!Pages -> FetchType] /\ records' \in Seq(Entry)
      /\ mixed' \in BOOLEAN /\ joined' \in BOOLEAN /\ kept' \in BOOLEAN
      /\ \A k \in Past!Pages : fetch'[k] = Past!Invalidated[k] \/ fetch'[k].at = "sent"
      /\ Unique(records')
      /\ records' # <<>> => Past!HasData(cache, 1) /\ records' = All(cache[1])
      /\ MergedInv' /\ TimelyInv' /\ BlankInv'
  <2>1. CASE Past!Here /\ page = 1
    <3>1. /\ records' = <<>> /\ fetch' = Past!Invalidated /\ mixed' = FALSE
          /\ joined' = (Past!Invalidated[1].at = "read") /\ kept' = (kept \/ nothingNew)
          /\ UNCHANGED <<where, page>>
      BY <1>3, <2>1 DEF Past!ResetPage
    <3>2. kept' \in BOOLEAN /\ <<>> \in Seq(Entry)
      BY <1>4, <1>5, <3>1
    <3>3. MergedInv'
      BY <2>1, <3>1 DEF MergedInv
    <3>4. TimelyInv'
      BY <1>1, <1>2, <2>1, <3>1 DEF TimelyInv, Past!HasData, Past!None
    <3>5. BlankInv'
      <4>. SUFFICES ASSUME DOMAIN cache[1].items # {}, ~kept'
                    PROVE  \E id \in DOMAIN cache[1].items :
                              cache[1].items[id] < answered'[id] /\ fetch'[1].at = "sent"
        BY <1>1 DEF BlankInv
      <4>1. ~nothingNew
        BY <3>1
      <4>2. PICK d \in Past!Answers : d = cache[1]
        BY <1>5
      <4>3. Accurate(d, now, Past!Answer(1), answered) /\ d.ver # Past!None
        BY <1>5, <4>2 DEF AnswersInv, Accurate
      <4>4. write.op # "add" /\ ~(d.ver >= write.ver)
        BY <2>1, <4>1, <4>2, <4>3 DEF nothingNew, Past!HasData
      <4>5. write.id \in Past!Shown(records)
        BY <1>1, <4>4 DEF ListInv
      <4>6. records = All(d)
        <5>1. records # <<>>
          BY <4>5, NothingUnique
        <5>. QED  BY <2>1, <4>2, <5>1 DEF ListInv
      <4>7. write.id \in DOMAIN d.items
        BY <4>5, <4>6, AllIs
      <4>8. d.items[write.id] <= d.ver /\ d.items[write.id] \in Nat /\ d.ver \in Nat
        BY <4>3, <4>7, AnswersAre, ChangesAre DEF Accurate
      <4>9. d.items[write.id] < answered'[write.id]
        BY <1>1, <4>4, <4>8
      <4>10. fetch'[1].at = "sent"
        BY <1>2, <2>1, <3>1, <4>2, <4>3 DEF Past!HasData
      <4>. QED  BY <4>2, <4>7, <4>9, <4>10
    <3>. QED  BY <1>2, <2>1, <3>1, <3>2, <3>3, <3>4, <3>5, NothingUnique DEF Past!Here
  <2>2. CASE ~(Past!Here /\ page = 1)
    <3>1. Past!Observe(1, <<>>, Past!Invalidated)
      BY <1>3, <2>2 DEF Past!ResetPage
    <3>. QED  BY <1>1, <1>2, <3>1, NothingUnique, ObserveFirst
  <2>. QED  BY <2>1, <2>2
<1>7. AnswersInv'
  BY <1>1, <1>2, <1>6
<1>8. Past!HistoryTypeOK'
  <2>1. table' \in [Ids -> Past!Changes \cup {Past!None}] /\ now' \in Past!Changes /\ cache' \in [Past!Pages -> Past!Answers]
    BY <1>1, TypesAre DEF TableIs
  <2>. QED  BY <1>1, <1>5, <1>6, <2>1 DEF Past!HistoryTypeOK, FetchType, Entry, WriteType
<1>9. ListInv'
  BY <1>1, <1>6, FirstListed
<1>. QED  BY <1>1, <1>6, <1>7, <1>8, <1>9

\* The callback was dropped with its card.
LEMMA DroppedKeeps ==
    ASSUME PastConstants, HistoryInv, Past!AnswerWrite, ~write.alive
    PROVE  HistoryInv'
<1>. USE DEF HistoryInv
<1>1. /\ write.at = "served" /\ answered' = Due /\ Due' = Due /\ write' = Past!NoWrite
      /\ write' \in WriteType /\ write'.at = "idle" /\ ~write'.alive
      /\ answered' \in [Ids -> Past!Changes]
      /\ \A id \in Ids : answered[id] \in Nat /\ answered'[id] \in Nat /\ answered[id] <= answered'[id]
      /\ UNCHANGED <<table, now, cache>>
      /\ TableInv'
      /\ (\A k \in Past!Pages : fetch'[k] = fetch[k] \/ fetch'[k].at # "read") => AnswersInv'
  BY AnswerWriteIs
<1>2. /\ Past!Invalidated \in [Past!Pages -> FetchType]
      /\ \A k \in Past!Pages : Past!Invalidated[k] = fetch[k] \/ Past!Invalidated[k].at = "sent"
      /\ \A k \in Past!Pages : k # page => Past!Invalidated[k] = fetch[k]
      /\ Past!Here /\ Past!HasData(cache, page) => Past!Invalidated[page].at = "sent"
  BY InvalidatedIs
<1>3. /\ fetch' = Past!Invalidated /\ mixed' = (page # 1)
      /\ joined' = (Past!Here /\ Past!Invalidated[page].at = "read")
      /\ UNCHANGED <<where, page, records, kept>>
  BY DEF Past!AnswerWrite, Past!panel
<1>4. /\ 1 \in Past!Pages /\ page \in Past!Pages /\ page \in Nat /\ cache \in [Past!Pages -> Past!Answers]
  BY TypesAre DEF Past!Pages, PastConstants
<1>5. Past!HistoryTypeOK'
  <2>1. table' \in [Ids -> Past!Changes \cup {Past!None}] /\ now' \in Past!Changes /\ cache' \in [Past!Pages -> Past!Answers]
    BY <1>1, TypesAre DEF TableIs
  <2>2. /\ where' \in {"here", "filtered", "tab"} /\ page' \in Past!Pages
        /\ records' \in Seq(Entry) /\ kept' \in BOOLEAN
        /\ mixed' \in BOOLEAN /\ joined' \in BOOLEAN
    BY <1>3, TypesAre
  <2>. QED  BY <1>1, <1>2, <1>3, <2>1, <2>2 DEF Past!HistoryTypeOK, FetchType, Entry, WriteType
<1>6. AnswersInv'
  BY <1>1, <1>2, <1>3
<1>7. ListInv'
  <2>1. \A k \in Past!Pages : k < page' => fetch'[k].at = "idle" /\ Past!HasData(cache, k)'
    <3>. SUFFICES ASSUME NEW k \in Past!Pages, k < page
                  PROVE  fetch'[k].at = "idle" /\ Past!HasData(cache, k)'
      BY <1>3
    <3>1. fetch[k].at = "idle" /\ Past!HasData(cache, k) /\ k # page
      BY <1>4 DEF ListInv
    <3>. QED  BY <1>1, <1>2, <1>3, <3>1 DEF Past!HasData, Past!None
  <2>2. /\ ~Past!Here' => page' = 1 /\ records' = <<>>
        /\ Unique(records') /\ (page' > 1 => records' # <<>>)
        /\ page' = 1 /\ records' # <<>> => Past!HasData(cache, 1)' /\ records' = All(cache'[1])
    BY <1>1, <1>3 DEF ListInv, Past!Here, Past!HasData, Past!None
  <2>. QED  BY <1>1, <2>1, <2>2 DEF ListInv
<1>8. MergedInv'
  <2>1. page' > 1 => mixed'
    <3>1. page > 1 => page # 1
      BY <1>4
    <3>. QED  BY <1>3, <3>1
  <2>. QED  BY <2>1 DEF MergedInv
<1>9. TimelyInv'
  <2>. SUFFICES ASSUME Past!Here, page = 1, ~joined'
                PROVE  fetch'[1].at # "read" /\ (Past!HasData(cache, 1) => fetch'[1].at # "idle")
    BY <1>1, <1>3 DEF TimelyInv, Past!Here, Past!HasData, Past!None
  <2>. QED  BY <1>2, <1>3
<1>10. BlankInv'
  <2>. SUFFICES ASSUME Past!Here, page = 1, records = <<>>, DOMAIN cache[1].items # {}, ~kept
                PROVE  \E id \in DOMAIN cache[1].items :
                          cache[1].items[id] < answered'[id] /\ fetch'[1].at = "sent"
    BY <1>1, <1>3 DEF BlankInv, Past!Here
  <2>1. Past!HasData(cache, 1)
    BY <1>4 DEF Past!HasData, AnswersInv, Accurate
  <2>2. PICK id \in DOMAIN cache[1].items : cache[1].items[id] < answered[id]
    BY DEF BlankInv
  <2>3. id \in Ids /\ cache[1].items[id] \in Nat
    BY <1>4, <2>2, AnswersAre, ChangesAre
  <2>4. cache[1].items[id] < answered'[id]
    BY <1>1, <2>2, <2>3
  <2>. QED  BY <1>2, <1>3, <2>1, <2>4
<1>. QED  BY <1>1, <1>5, <1>6, <1>7, <1>8, <1>9, <1>10

-----------------------------------------------------------------------------
LEMMA HistoryInit == ASSUME PastConstants, Past!Init PROVE HistoryInv
<1>1. PICK S \in Starts : table = [id \in Ids |-> IF id \in S THEN 0 ELSE Past!None]
  BY DEF Past!Init
<1>2. /\ now = 0 /\ cache = [p \in Past!Pages |-> Past!NoData]
      /\ fetch = [p \in Past!Pages |-> IF p = 1 THEN Past!Sent ELSE Past!NoFetch]
      /\ where = "here" /\ page = 1 /\ records = <<>>
      /\ write = Past!NoWrite /\ answered = [id \in Ids |-> 0]
      /\ mixed = FALSE /\ joined = FALSE /\ kept = FALSE
  BY DEF Past!Init
<1>3. 0 \in Past!Changes /\ Past!None \in Nat /\ 0 # Past!None /\ 0 <= Past!None /\ 1 \in Past!Pages
  BY DEF Past!Changes, Past!None, Past!Pages, PastConstants
<1>4. /\ Past!NoWrite \in WriteType /\ Past!NoWrite.at = "idle" /\ ~Past!NoWrite.alive
      /\ Past!Sent \in FetchType /\ Past!Sent.at = "sent" /\ Past!NoFetch \in FetchType /\ Past!NoFetch.at = "idle"
      /\ Past!NoData \in Past!Answers /\ Past!NoData.ver = Past!None /\ DOMAIN Past!NoData.items = {}
  BY WritesAre, FetchesAre, AnswerTypes
<1>5. Due = answered
  BY <1>2, <1>4 DEF Due
<1>6. Past!HistoryTypeOK
  <2>1. <<>> \in Seq(Entry)
    OBVIOUS
  <2>2. TableIs
    BY <1>1, <1>3 DEF TableIs
  <2>. QED  BY <1>2, <1>3, <1>4, <2>1, <2>2, TypesAre
<1>7. TableInv
  <2>1. \A id \in Ids : table[id] = Past!None \/ table[id] = 0
    BY <1>1
  <2>. QED  BY <1>2, <1>3, <1>4, <1>5, <2>1 DEF TableInv
<1>8. AnswersInv
  <2>1. \A p \in Past!Pages : cache[p] = Past!NoData /\ fetch[p].at # "read"
    BY <1>2, <1>4
  <2>. QED  BY <1>2, <1>3, <1>4, <2>1 DEF AnswersInv, Accurate
<1>9. ListInv
  <2>1. \A p \in Past!Pages : ~(p < page)
    BY <1>2 DEF Past!Pages
  <2>. QED  BY <1>2, <1>4, <2>1, NothingUnique DEF ListInv, Past!Here
<1>10. MergedInv /\ TimelyInv /\ BlankInv
  <2>1. cache[1] = Past!NoData /\ fetch[1].at = "sent"
    BY <1>2, <1>3, <1>4
  <2>2. ~(page > 1)
    BY <1>2
  <2>3. DOMAIN cache[1].items = {}
    BY <1>4, <2>1
  <2>. QED  BY <2>1, <2>2, <2>3 DEF MergedInv, TimelyInv, BlankInv
<1>. QED  BY <1>6, <1>7, <1>8, <1>9, <1>10 DEF HistoryInv

LEMMA HistoryStep == ASSUME PastConstants, HistoryInv, [Past!Next]_(Past!vars) PROVE HistoryInv'
<1>1. CASE UNCHANGED Past!vars
  <2>1. UNCHANGED <<table, now, cache, fetch, where, page, records, write, answered, mixed, joined, kept>>
    BY <1>1 DEF Past!vars, Past!panel
  <2>2. Due' = Due /\ \A p : Past!Answer(p)' = Past!Answer(p)
    BY <2>1, Zenon DEF Due, Past!Answer, Past!FirstPages, Past!Matching
  <2>3. Past!HistoryTypeOK' /\ TableInv' /\ AnswersInv'
    BY <2>1, <2>2 DEF HistoryInv, Past!HistoryTypeOK, TableInv, AnswersInv, Accurate
  <2>4. ListInv' /\ MergedInv' /\ TimelyInv' /\ BlankInv'
    BY <2>1 DEF HistoryInv, ListInv, MergedInv, TimelyInv, BlankInv, NewAs, Held, Past!HasData,
                Past!Here, Past!FirstPages, Past!Matching
  <2>. QED  BY <2>3, <2>4 DEF HistoryInv
<1>2. CASE \E p \in Past!Pages : Past!Read(p) \/ Past!Arrive(p) \/ Past!Fail(p)
  BY <1>2, ReadKeeps, ArriveKeeps, FailKeeps
<1>3. CASE Past!Refetch \/ Past!LoadMore \/ Past!SetFilter \/ Past!Enter
  BY <1>3, RefetchKeeps, LoadMoreKeeps, SetFilterKeeps, EnterKeeps
<1>4. CASE \E w \in {"filtered", "tab"} : Past!Leave(w)
  BY <1>4, LeaveKeeps
<1>5. CASE \E op \in Past!Ops, id \in Ids : Past!StartWrite(op, id) \/ Past!Elsewhere(op, id)
  BY <1>5, StartWriteKeeps, ElsewhereKeeps
<1>6. CASE Past!ServeWrite \/ Past!AnswerWrite \/ Past!WriteFails
  BY <1>6, ServeWriteKeeps, ToldKeeps, DroppedKeeps, WriteFailsKeeps
<1>. QED  BY <1>1, <1>2, <1>3, <1>4, <1>5, <1>6 DEF Past!Next

LEMMA HistoryHolds == PastConstants => (Past!Spec => []HistoryInv)
<1>. SUFFICES ASSUME PastConstants PROVE Past!Spec => []HistoryInv
  OBVIOUS
<1>1. Past!Init => HistoryInv
  BY HistoryInit
<1>2. HistoryInv /\ [Past!Next]_(Past!vars) => HistoryInv'
  BY HistoryStep
<1>. QED  BY <1>1, <1>2, PTL DEF Past!Spec

\* The properties of the instance are those of HistoryState.
LEMMA SameListing ==
    ASSUME NEW revs, NEW S
    PROVE  Past!InOrder(S) = InOrder(S) /\ Past!Listed(revs, S) = Listed(revs, S)
<1>1. Past!InOrder(S) = InOrder(S)
  BY DEF Past!InOrder, InOrder, Past!Cardinality, Cardinality
<1>. QED  BY <1>1 DEF Past!Listed, Listed

LEMMA SamePages == Past!FirstPages(page) = FirstPages(page)
<1>1. Past!Matching = Matching
  BY DEF Past!Matching, Matching, Past!None, None
<1>. QED  BY <1>1, SameCount DEF Past!FirstPages, FirstPages

LEMMA SameSettled == Past!Settled <=> Settled
BY DEF Past!Settled, Settled, Past!Here, Here, Past!HasData, HasData, Past!None, None

LEMMA SamePastProperties ==
    /\ Past!PagesConsistent => PagesConsistent
    /\ Past!BlankOnlyIfKept => BlankOnlyIfKept
    /\ Past!OwnChangesShown => OwnChangesShown
<1>1. Past!HistoryTypeOK <=> HistoryTypeOK
  <2>1. Past!None = None /\ Past!Changes = Changes /\ Past!Pages = Pages /\ Past!Ops = Ops
    BY DEF Past!None, None, Past!Changes, Changes, Past!Pages, Pages, Past!Ops, Ops
  <2>2. Past!Answers = Answers
    BY <2>1 DEF Past!Answers, Answers
  <2>. QED  BY <2>1, <2>2 DEF Past!HistoryTypeOK, HistoryTypeOK
<1>2. Past!NoDuplicates <=> NoDuplicates
  BY DEF Past!NoDuplicates, NoDuplicates
<1>3. Past!Complete <=> Complete
  BY SameSettled, SamePages, SameListing DEF Past!Complete, Complete
<1>4. Past!PagesConsistent => PagesConsistent
  BY <1>1, <1>2, <1>3 DEF Past!PagesConsistent, PagesConsistent
<1>5. Past!BlankOnlyIfKept => BlankOnlyIfKept
  BY SameSettled DEF Past!BlankOnlyIfKept, BlankOnlyIfKept
<1>6. Past!OwnChangesShown => OwnChangesShown
  BY SameSettled DEF Past!OwnChangesShown, OwnChangesShown
<1>. QED  BY <1>4, <1>5, <1>6

(***************************************************************************)
(* However the pages shift between two fetches, no record is listed twice  *)
(* by the loop of the effect (history-records-panel.tsx:69-78); and pages  *)
(* that were all read from the table as it is make up the list as it is.   *)
(***************************************************************************)
THEOREM PagesStayConsistent == Past!Spec => []PagesConsistent
<1>. PastConstants
  BY HistoryAssumption DEF PastConstants
<1>1. ASSUME HistoryInv PROVE Past!PagesConsistent
  <2>. USE DEF HistoryInv
  <2>1. Past!NoDuplicates
    BY <1>1 DEF ListInv, Unique, Past!NoDuplicates
  <2>2. Past!Complete
    <3>. SUFFICES ASSUME Past!Settled, ~mixed, records # <<>>, \A p \in 1 .. page : cache[p].ver = now
                  PROVE  records = Past!Listed(table, Past!FirstPages(page))
      BY DEF Past!Complete
    <3>1. /\ page \in Past!Pages /\ page \in Nat /\ 1 <= page /\ 1 \in 1 .. page /\ 1 \in Past!Pages
          /\ TableIs /\ now \in Past!Changes
      BY <1>1, TypesAre DEF Past!Pages, PastConstants
    <3>2. cache[1].ver = now
      BY <3>1
    <3>3. CASE page = 1
      <4>1. records = All(cache[1])
        BY <1>1, <3>3 DEF ListInv
      <4>2. cache[1] = Past!Answer(1)
        BY <1>1, <3>1, <3>2 DEF AnswersInv, Accurate
      <4>. QED  BY <3>1, <3>3, <4>1, <4>2, PagesJoin
    <3>4. CASE page > 1
      BY <1>1, <3>2, <3>4 DEF MergedInv, Held, Past!Settled
    <3>. QED  BY <3>1, <3>3, <3>4
  <2>. QED  BY <1>1, <2>1, <2>2 DEF Past!PagesConsistent
<1>2. HistoryInv => PagesConsistent
  BY <1>1, SamePastProperties
<1>. QED  BY <1>2, HistoryHolds, PTL

(***************************************************************************)
(* The panel does not say that nothing was found while the answer has      *)
(* records, unless the list was emptied by resetPage without anything new  *)
(* to come, or a fetch failed (the effect on data does not run then).      *)
(***************************************************************************)
THEOREM NothingIsHidden == Past!Spec => []BlankOnlyIfKept
<1>. PastConstants
  BY HistoryAssumption DEF PastConstants
<1>1. ASSUME HistoryInv PROVE Past!BlankOnlyIfKept
  <2>. SUFFICES ASSUME Past!Settled, records = <<>>, DOMAIN cache[page].items # {}, ~kept
                PROVE  FALSE
    BY <1>1, TypesAre DEF Past!BlankOnlyIfKept, HistoryInv
  <2>1. page = 1
    <3>1. ~(page > 1) /\ page \in Past!Pages
      BY <1>1, TypesAre DEF HistoryInv, ListInv
    <3>. QED  BY <3>1 DEF Past!Pages, PastConstants
  <2>. QED  BY <1>1, <2>1 DEF HistoryInv, BlankInv, Past!Settled
<1>2. HistoryInv => BlankOnlyIfKept
  BY <1>1, SamePastProperties
<1>. QED  BY <1>2, HistoryHolds, PTL

(***************************************************************************)
(* A settled list shows no record as it was before the user's own change   *)
(* of it, unless it merged an older page: invalidating the lists and       *)
(* setting the page back (onRecordChange) is enough.                       *)
(***************************************************************************)
THEOREM OwnChangesStay == Past!Spec => []OwnChangesShown
<1>. PastConstants
  BY HistoryAssumption DEF PastConstants
<1>1. ASSUME HistoryInv PROVE Past!OwnChangesShown
  <2>. USE DEF HistoryInv
  <2>. SUFFICES ASSUME Past!Settled, ~mixed, ~joined, ~kept, NEW i \in DOMAIN records
                PROVE  answered[records[i].id] <= records[i].rev
    BY <1>1, TypesAre DEF Past!OwnChangesShown
  <2>1. page \in Past!Pages /\ 1 \in Past!Pages /\ cache \in [Past!Pages -> Past!Answers] /\ answered \in [Ids -> Past!Changes]
    BY <1>1, TypesAre DEF Past!Pages, PastConstants
  <2>2. CASE page > 1
    BY <1>1, <2>2 DEF MergedInv
  <2>3. CASE page = 1
    <3>1. PICK d \in Past!Answers : d = cache[1]
      BY <2>1
    <3>2. records = All(d)
      BY <1>1, <2>3, <3>1, ListLength, EmptySeq, TypesAre DEF ListInv
    <3>3. NewAs(d.ver)
      BY <1>1, <2>3, <3>1 DEF TimelyInv, Past!Settled
    <3>4. Accurate(d, now, Past!Answer(1), answered)
      BY <1>1, <2>1, <3>1 DEF AnswersInv
    <3>5. records[i].id \in DOMAIN d.items /\ records[i].rev = d.items[records[i].id]
      BY <3>2, AllIs
    <3>. QED  BY <3>3, <3>4, <3>5, AnswersAre DEF Accurate, NewAs
  <2>. QED  BY <2>1, <2>2, <2>3 DEF Past!Pages, PastConstants
<1>2. HistoryInv => OwnChangesShown
  BY <1>1, SamePastProperties
<1>. QED  BY <1>2, HistoryHolds, PTL

=============================================================================
