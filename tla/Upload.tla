------------------------------- MODULE Upload -------------------------------
(***************************************************************************)
(* The way of a photo from the file input to the backend                   *)
(* (hooks/use-image-upload.ts) in one of its two hosts: the image panel of *)
(* a dish (components/dish-image-panel.tsx), which has a button to try the *)
(* chosen file again, and the gallery of a record card                     *)
(* (components/horizontal-image-gallery.tsx), which has none.              *)
(*                                                                         *)
(* A file is its size (up to 3 MB, up to 10 MB, above) and whether the     *)
(* browser can compress it.  A compression, or an upload, outlives the     *)
(* component that began it, without its callbacks.                         *)
(***************************************************************************)
EXTENDS UploadState

ui   == <<host, mounted, input, prompt, compressing, pending>>
vars == <<ui, jobs, stored, handed>>

\* mine: begun by the component on the screen.
Idle == [at |-> "idle", file |-> NoFile, compressed |-> FALSE, mine |-> FALSE]
Busy == compressing \/ pending # NoSlot

Init ==
    /\ host \in {"panel", "gallery"} /\ mounted = TRUE
    /\ input = NoFile /\ prompt = NoFile
    /\ compressing = FALSE /\ pending = NoSlot
    /\ jobs = [s \in Slots |-> Idle]
    /\ stored = 0 /\ handed = 0

-----------------------------------------------------------------------------
\* Handing a file in.

\* getCompressionAction.
Action(f) ==
    CASE f.size = "small" -> "upload" [] f.size = "middle" -> "suggest"
      [] OTHER            -> "required"

\* Begin a job in a free slot.
Begin(s, at, f) ==
    /\ jobs[s].at = "idle"
    /\ jobs' = [jobs EXCEPT ![s] = [at |-> at, file |-> f,
                                    compressed |-> FALSE, mine |-> TRUE]]

\* handleFile: what is small goes as it is, and what the browser cannot compress
\* if the backend takes it; the rest is asked about, or refused.
HandIn(f) ==
    /\ handed < MaxHanded /\ handed' = handed + 1
    /\ IF Action(f) = "upload" \/ (~f.compressible /\ Action(f) = "suggest")
       THEN \E s \in Slots :
                Begin(s, "sent", f) /\ pending' = s /\ UNCHANGED prompt
       ELSE /\ prompt' = IF f.compressible THEN f ELSE prompt
            /\ UNCHANGED <<jobs, pending>>
    /\ UNCHANGED <<host, mounted, compressing, stored>>

\* The prompt covers its host.
Free == mounted /\ ~Busy /\ prompt = NoFile

\* handleFileChange: the browser tells of a file only if it is another one.
Choose(f) ==
    /\ Free /\ f # input /\ input' = f
    /\ HandIn(f)

\* The button of the panel.
Again ==
    /\ Free /\ host = "panel" /\ input # NoFile
    /\ HandIn(input) /\ UNCHANGED input

\* confirmCompress, compressAndUpload.
Confirm(s) ==
    /\ mounted /\ prompt # NoFile
    /\ Begin(s, "compressing", prompt)
    /\ prompt' = NoFile /\ compressing' = TRUE
    /\ UNCHANGED <<host, mounted, input, pending, stored, handed>>

\* skipCompress, which the dialog offers for a suggestion only.
Skip(s) ==
    /\ mounted /\ prompt # NoFile /\ Action(prompt) = "suggest"
    /\ Begin(s, "sent", prompt)
    /\ prompt' = NoFile /\ pending' = s
    /\ UNCHANGED <<host, mounted, input, compressing, stored, handed>>

\* dismissPrompt.
Dismiss ==
    /\ mounted /\ prompt # NoFile /\ prompt' = NoFile
    /\ UNCHANGED <<host, mounted, input, compressing, pending, jobs, stored, handed>>

-----------------------------------------------------------------------------
\* Compression and upload.

\* onUpload, and finally.
Compressed(s) ==
    /\ jobs[s].at = "compressing"
    /\ jobs' = [jobs EXCEPT ![s].at = "sent", ![s].compressed = TRUE]
    /\ IF jobs[s].mine THEN compressing' = FALSE /\ pending' = s
       ELSE UNCHANGED <<compressing, pending>>
    /\ UNCHANGED <<host, mounted, input, prompt, stored, handed>>

\* Mutant of CompressionFails: setCompressing(false) after onUpload, without
\* finally.
CompressionFailsBusy(s) ==
    /\ jobs[s].at = "compressing"
    /\ jobs' = [jobs EXCEPT ![s] = Idle]
    /\ UNCHANGED <<ui, stored, handed>>

\* catch, and finally.
CompressionFails(s) ==
    /\ jobs[s].at = "compressing"
    /\ jobs' = [jobs EXCEPT ![s] = Idle]
    /\ compressing' = (compressing /\ ~jobs[s].mine)
    /\ UNCHANGED <<host, mounted, input, prompt, pending, stored, handed>>

\* The backend takes up to 10 MB (module DishImages).
Store(s) ==
    /\ jobs[s].at = "sent" /\ (jobs[s].compressed \/ jobs[s].file.size # "large")
    /\ stored' = stored + 1
    /\ jobs' = [jobs EXCEPT ![s].at = "served"]
    /\ UNCHANGED <<ui, handed>>

\* onSuccess of the call clears the input.
Answer(s) ==
    /\ jobs[s].at = "served"
    /\ jobs' = [jobs EXCEPT ![s] = Idle]
    /\ IF pending = s THEN pending' = NoSlot /\ input' = NoFile
       ELSE UNCHANGED <<pending, input>>
    /\ UNCHANGED <<host, mounted, prompt, compressing, stored, handed>>

\* Refused, failed, or the answer is lost.
Fails(s) ==
    /\ jobs[s].at \in {"sent", "served"}
    /\ jobs' = [jobs EXCEPT ![s] = Idle]
    /\ pending' = IF pending = s THEN NoSlot ELSE pending
    /\ UNCHANGED <<host, mounted, input, prompt, compressing, stored, handed>>

-----------------------------------------------------------------------------
\* Mutant of Close: what runs is still followed.
CloseFollowing ==
    /\ mounted
    /\ mounted' = FALSE /\ input' = NoFile /\ prompt' = NoFile
    /\ compressing' = FALSE
    /\ UNCHANGED <<host, pending, jobs, stored, handed>>

\* The panel is closed, or the card is gone.
Close ==
    /\ mounted
    /\ mounted' = FALSE /\ input' = NoFile /\ prompt' = NoFile
    /\ compressing' = FALSE /\ pending' = NoSlot
    /\ jobs' = [s \in Slots |-> [jobs[s] EXCEPT !.mine = FALSE]]
    /\ UNCHANGED <<host, stored, handed>>

Open ==
    /\ ~mounted /\ mounted' = TRUE
    /\ UNCHANGED <<host, input, prompt, compressing, pending, jobs, stored, handed>>

\* What the browser and the backend do.
Proceeds(s) ==
    Compressed(s) \/ CompressionFails(s) \/ Store(s) \/ Answer(s) \/ Fails(s)

Next ==
    \/ \E f \in Files : Choose(f)
    \/ Again \/ Dismiss \/ Close \/ Open
    \/ \E s \in Slots : Confirm(s) \/ Skip(s) \/ Proceeds(s)

Spec == Init /\ [][Next]_vars /\ \A s \in Slots : WF_vars(Proceeds(s))

-----------------------------------------------------------------------------
\* The input can be used again: a compression or an upload, also one that fails,
\* always ends for the screen.
BusyEnds == Busy ~> ~Busy

=============================================================================
