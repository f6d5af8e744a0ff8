-------------------------------- MODULE Home --------------------------------
(***************************************************************************)
(* The home page (pages/home-page.tsx): recommendations and the blind box, *)
(* which a change of the user's own resets, and the dialogs over the page, *)
(* each of which locks the scrolling of the page for itself                *)
(* (hooks/use-scroll-lock.ts, components/modal.tsx,                        *)
(* components/image-preview-modal.tsx).                                    *)
(*                                                                         *)
(* The answer to a recommendation is abstracted to how many changes the    *)
(* backend had committed when it was computed.  A dialog is covered by the *)
(* ones that were opened after it and can then only be closed by Escape,   *)
(* which every open dialog hears, or by an answer.  React runs the clean-  *)
(* ups of what one render removes in the order of the tree, outer before   *)
(* inner, and before the effects of what it adds.                          *)
(***************************************************************************)
EXTENDS Naturals

CONSTANT MaxChanges \* bound on the user's changes

ASSUME HomeAssumption == MaxChanges \in Nat

Tabs    == {"recommend", "dishes", "history"}
Panels  == {"record", "recipe", "images", "variants"}
Sources == {"rating", "toggle", "edit", "record"}
Buttons == {"recommend", "box"}

\* panel: recordDish, recipeDish, imageDish or variantDish; inner: the prompt of
\* its gallery; prompt and preview: of a gallery in a record card.
Dialogs  == {"panel", "inner", "box", "prompt", "preview"}
Unset    == "" \* the page scrolls
Overflow == {Unset, "hidden"}

VARIABLES
    tab,      \* activeTab
    panel,    \* the dish panel that is open
    boxOpen,  \* blindBoxModalOpen
    stack,    \* per dialog: whether it is open, the open ones it was opened
              \* over, and what its lock has saved
    overflow, \* overflow of the style of the body
    muts,     \* recommendMutation and blindBoxMutation
    change,   \* the user's pending change of a dish, a record or a rating
    commits,  \* how many of them the backend has committed
    told,     \* ghost: the last change the page was told of
    together, \* ghost: dialogs were closed that were not opened last
    bared     \* ghost: a dialog was closed under another one that stays

dialogs == <<boxOpen, panel, stack, overflow, together, bared>>
vars    == <<tab, dialogs, muts, change, commits, told>>

\* seen: the changes the answer knows; item: the blind box holds a dish.
Idle     == [at |-> "idle", seen |-> 0, item |-> FALSE]
NoChange == [at |-> "idle", from |-> "rating", ver |-> 0, alive |-> FALSE]

Closed     == [open |-> FALSE, under |-> {}, saved |-> Unset]
Open       == {d \in Dialogs : stack[d].open}
Below(d, e) == d \in stack[e].under
Top(d)     == d \in Open /\ \A e \in Open : ~Below(d, e)
Uncovered  == Open = {}
Pending(m) == muts[m].at \in {"sent", "served"}

Init ==
    /\ tab = "recommend" /\ panel = "none" /\ boxOpen = FALSE
    /\ stack = [d \in Dialogs |-> Closed] /\ overflow = Unset
    /\ muts = [m \in Buttons |-> Idle]
    /\ change = NoChange /\ commits = 0
    /\ told = 0 /\ together = FALSE /\ bared = FALSE

-----------------------------------------------------------------------------
\* The lock.

\* The tree under the page: panels, in one of them its prompt, the blind box,
\* the record cards.
Rank == [d \in Dialogs |-> CASE d = "panel" -> 1 [] d = "inner" -> 2
                             [] d = "box" -> 3 [] OTHER -> 4]

\* Mutant of CleanUps: no dialog restores anything but the empty style.
CleanUpsEmpty(C) == IF C \cap Open = {} THEN overflow ELSE Unset

\* The cleanups of useScrollLock, or of the effect of the preview: the last one
\* decides.
CleanUps(C) ==
    LET closed == C \cap Open
    IN IF closed = {} THEN overflow
       ELSE stack[CHOOSE d \in closed : \A e \in closed : Rank[e] <= Rank[d]].saved

\* The effect of a dialog that opens; the preview saves nothing.
Lock(d, under, style) ==
    [open |-> TRUE, under |-> under, saved |-> IF d = "preview" THEN Unset ELSE style]

\* One render: the dialogs of C go, the one in D, if any, comes.
Render(C, D) ==
    LET rest == Open \ C
    IN /\ stack' = [d \in Dialogs |->
                      CASE d \in D        -> Lock(d, rest, CleanUps(C))
                        [] d \in rest \ D -> [stack[d] EXCEPT !.under = @ \ C]
                        [] OTHER         -> Closed]
       /\ overflow' = IF D = {} THEN CleanUps(C) ELSE "hidden"
       /\ together' = (together \/ \E d \in C \cap Open : ~Top(d))
       /\ bared' = (bared \/ \E d \in C \cap Open, e \in rest : Below(d, e))

\* The prompt in the panel of the images goes with it.
PanelDialogs == {"panel", "inner"}
CardDialogs  == {"prompt", "preview"}

-----------------------------------------------------------------------------
\* Recommendations.

\* Mutant of Reset: only answers that are on the screen are dropped.
ResetAnswers == [m \in Buttons |-> IF Pending(m) THEN muts[m] ELSE Idle]

\* resetRecommendationState: a request that runs is not followed any more.
Reset == [m \in Buttons |-> Idle]

\* handleRecommend, handleBlindBox: the buttons, or the banner of an error.
Click(m) ==
    /\ tab = "recommend" /\ Uncovered
    /\ (\A n \in Buttons : ~Pending(n)) \/ muts[m].at = "failed"
    /\ muts' = [muts EXCEPT ![m] = [Idle EXCEPT !.at = "sent"]]
    /\ UNCHANGED <<tab, dialogs, change, commits, told>>

Serve(m) ==
    /\ muts[m].at = "sent"
    /\ \E item \in BOOLEAN :
          muts' = [muts EXCEPT ![m] = [at |-> "served", seen |-> commits,
                                       item |-> (item /\ m = "box")]]
    /\ UNCHANGED <<tab, dialogs, change, commits, told>>

\* The answer; the effect opens the blind box wherever the user is now.
Answer(m) ==
    /\ muts[m].at = "served"
    /\ muts' = [muts EXCEPT ![m].at = "done"]
    /\ IF muts[m].item
       THEN boxOpen' = TRUE /\ Render({}, {"box"}) /\ UNCHANGED panel
       ELSE UNCHANGED dialogs
    /\ UNCHANGED <<tab, change, commits, told>>

Fails(m) ==
    /\ Pending(m)
    /\ muts' = [muts EXCEPT ![m] = [Idle EXCEPT !.at = "failed"]]
    /\ UNCHANGED <<tab, dialogs, change, commits, told>>

-----------------------------------------------------------------------------
\* Tabs, panels and dialogs.

\* The callback of a change goes with the component that asked for it.
Drop(froms) ==
    change' = [change EXCEPT !.alive = change.alive /\ change.from \notin froms]

SwitchTab(t) ==
    /\ Uncovered /\ t # tab /\ tab' = t
    /\ Drop({"rating", "toggle", "edit"})
    /\ UNCHANGED <<dialogs, muts, commits, told>>

\* handleRecordDish, handleViewRecipe, handleManageImages, handleManageVariants:
\* from a candidate, or from the card of a dish; the others are closed, and the
\* edit form.
OpenPanel(k) ==
    /\ Uncovered
    /\ \/ tab = "dishes"
       \/ /\ tab = "recommend" /\ muts["recommend"].at = "done"
          /\ k \in {"record", "recipe"}
    /\ panel' = k /\ Render({}, {"panel"})
    /\ Drop({"edit"})
    /\ UNCHANGED <<tab, boxOpen, muts, commits, told>>

\* onCancel and onClose of the panels.
ClosePanel ==
    /\ Top("panel")
    /\ panel' = "none" /\ Render(PanelDialogs, {})
    /\ Drop({"record"})
    /\ UNCHANGED <<tab, boxOpen, muts, commits, told>>

\* A file is chosen that asks for compression (module Upload).
OpenPrompt ==
    /\ \/ Top("panel") /\ panel = "images" /\ Render({}, {"inner"})
       \/ Uncovered /\ tab # "dishes" /\ Render({}, {"prompt"})
    /\ UNCHANGED <<tab, boxOpen, panel, muts, change, commits, told>>

OpenPreview ==
    /\ Uncovered /\ tab # "dishes"
    /\ Render({}, {"preview"})
    /\ UNCHANGED <<tab, boxOpen, panel, muts, change, commits, told>>

\* A click beside it, its buttons, or, for the preview, the answer to its
\* deletion or to the new cover.
Close(d) ==
    /\ d \in {"inner", "prompt", "preview"} /\ d \in Open
    /\ d # "preview" => Top(d)
    /\ Render({d}, {})
    /\ UNCHANGED <<tab, boxOpen, panel, muts, change, commits, told>>

\* handleBlindBoxModalClose.
CloseBox ==
    /\ Top("box")
    /\ boxOpen' = FALSE /\ Render({"box"}, {})
    /\ muts' = [muts EXCEPT !["box"] = Idle]
    /\ UNCHANGED <<tab, panel, change, commits, told>>

\* handleRecordDish and handleViewRecipe of the blind box: the panel below it is
\* another one, or stays if it is for the same dish (its key).
FromBox(k) ==
    /\ Top("box")
    /\ boxOpen' = FALSE /\ panel' = k
    /\ \/ Render({"box"} \cup PanelDialogs, {"panel"}) /\ Drop({"record", "edit"})
       \/ panel = k /\ Render({"box"}, {}) /\ Drop({"edit"})
    /\ muts' = [muts EXCEPT !["box"] = Idle]
    /\ UNCHANGED <<tab, commits, told>>

\* Escape: the listeners of all open dialogs.
Escape ==
    /\ ~Uncovered
    /\ panel' = "none" /\ boxOpen' = (boxOpen /\ "box" \notin Open)
    /\ Render(Open, {})
    /\ muts' = IF "box" \in Open THEN [muts EXCEPT !["box"] = Idle] ELSE muts
    /\ Drop(IF "panel" \in Open THEN {"record"} ELSE {})
    /\ UNCHANGED <<tab, commits, told>>

\* A list without the record takes its card away.
CardGoes ==
    /\ tab # "dishes"
    /\ Render(CardDialogs, {})
    /\ Drop({"rating"})
    /\ UNCHANGED <<tab, boxOpen, panel, muts, commits, told>>

-----------------------------------------------------------------------------
\* The user's changes, one at a time.

StartChange(from) ==
    /\ change.at = "idle"
    /\ CASE from = "rating" -> Uncovered /\ tab # "dishes"
         [] from = "record" -> Top("panel") /\ panel = "record"
         [] OTHER           -> Uncovered /\ tab = "dishes"
    /\ change' = [at |-> "sent", from |-> from, ver |-> 0, alive |-> TRUE]
    /\ UNCHANGED <<tab, dialogs, muts, commits, told>>

ServeChange ==
    /\ change.at = "sent" /\ commits < MaxChanges
    /\ commits' = commits + 1
    /\ change' = [change EXCEPT !.at = "served", !.ver = commits + 1]
    /\ UNCHANGED <<tab, dialogs, muts, told>>

\* onRecordChange, onResetRecommendations, handleDishUpdated, handleRecordSuccess:
\* without its answer the blind box is not shown, and the history starts over.
AnswerChange ==
    /\ change.at = "served"
    /\ IF change.alive
       THEN /\ told' = change.ver /\ muts' = Reset
            /\ LET record == change.from = "record"
                   cards  == change.from = "rating" /\ tab = "history"
               IN /\ panel' = IF record THEN "none" ELSE panel
                  /\ Render({"box"} \cup (IF record THEN PanelDialogs ELSE {})
                                    \cup (IF cards THEN CardDialogs ELSE {}), {})
            /\ UNCHANGED boxOpen
       ELSE UNCHANGED <<told, muts, dialogs>>
    /\ change' = NoChange
    /\ UNCHANGED <<tab, commits>>

ChangeFails ==
    /\ change.at # "idle"
    /\ change' = NoChange
    /\ UNCHANGED <<tab, dialogs, muts, commits, told>>

Next ==
    \/ \E m \in Buttons : Click(m) \/ Serve(m) \/ Answer(m) \/ Fails(m)
    \/ \E t \in Tabs : SwitchTab(t)
    \/ \E k \in Panels : OpenPanel(k)
    \/ ClosePanel \/ OpenPrompt \/ OpenPreview
    \/ \E d \in Dialogs : Close(d)
    \/ CloseBox \/ Escape \/ CardGoes
    \/ \E k \in {"record", "recipe"} : FromBox(k)
    \/ \E from \in Sources : StartChange(from)
    \/ ServeChange \/ AnswerChange \/ ChangeFails

Spec == Init /\ [][Next]_vars

-----------------------------------------------------------------------------
\* Every variable holds a value of its type, of two open dialogs one was opened
\* over the other, and they are those of the state they are rendered from.
TypeOK ==
    /\ tab \in Tabs /\ panel \in Panels \cup {"none"} /\ boxOpen \in BOOLEAN
    /\ stack \in [Dialogs -> [open : BOOLEAN, under : SUBSET Dialogs, saved : Overflow]]
    /\ overflow \in Overflow
    /\ \A d \in Dialogs : d \in Open => stack[d].under \subseteq Open \ {d}
    /\ \A d, e \in Open : d # e => (Below(d, e) <=> ~Below(e, d))
    /\ muts \in [Buttons -> [at : {"idle", "sent", "served", "done", "failed"},
                             seen : 0 .. MaxChanges, item : BOOLEAN]]
    /\ change \in [at : {"idle", "sent", "served"}, from : Sources,
                   ver : 0 .. MaxChanges, alive : BOOLEAN]
    /\ commits \in 0 .. MaxChanges /\ told \in 0 .. commits
    /\ together \in BOOLEAN /\ bared \in BOOLEAN
    /\ ("panel" \in Open <=> panel # "none")
    /\ ("inner" \in Open => panel = "images")
    /\ ("box" \in Open <=> boxOpen /\ muts["box"].at = "done" /\ muts["box"].item)

\* The page does not scroll behind an open dialog, unless another one was closed
\* under it: an image preview by the answer to its button, or the dialogs of a
\* card with the card.
LockedWhileOpen == ~Uncovered /\ ~bared => overflow = "hidden"

\* The page scrolls again once no dialog is open, as long as dialogs were only
\* closed one at a time, the last one first: each restores what it has found.
UnlockedInOrder == Uncovered /\ ~together => overflow = Unset

\* "Supports nested modals - only unlocks when all modals are closed"
\* (use-scroll-lock.ts:5).  Violated: Escape, or the answer to a record, closes
\* two at once, and the inner one restores the lock of the outer one.
UnlockedWhenClosed == Uncovered => overflow = Unset

\* What is recommended, and what the blind box holds, was computed after the last
\* change the page was told of: the reset also drops a request that was running.
FreshRecommendations ==
    \A m \in Buttons : muts[m].at = "done" => muts[m].seen >= told

\* The open dialogs, and the lock they keep together.
LocksConsistent == TypeOK /\ LockedWhileOpen /\ UnlockedInOrder

=============================================================================
