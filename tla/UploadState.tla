---------------------------- MODULE UploadState -----------------------------
(***************************************************************************)
(* What the input of a photo, its prompt and the jobs it has begun hold,   *)
(* and the invariants that the steps of module Upload keep.                *)
(***************************************************************************)
EXTENDS Naturals, FiniteSets

CONSTANTS
    Slots,    \* compressions and uploads that may run at once
    NoSlot,   \* none of them
    NoFile,   \* the input, or the prompt, is empty
    MaxHanded \* bound on the files the user hands in

ASSUME UploadAssumption ==
    /\ IsFiniteSet(Slots) /\ NoSlot \notin Slots
    /\ MaxHanded \in Nat \ {0}

Files == [size : {"small", "middle", "large"}, compressible : BOOLEAN]

ASSUME NoFileAssumption == NoFile \notin Files

VARIABLES
    host,        \* which component it is
    mounted,     \* whether it is on the screen
    input,       \* the file in the input, which keeps it until it is cleared
    prompt,      \* prompt
    compressing, \* compressing
    pending,     \* the upload that uploadImage observes while it is pending
    jobs,        \* per slot: what became of a file
    stored,      \* the images the backend has stored
    handed       \* ghost: the files handed in so far

-----------------------------------------------------------------------------
\* Every variable holds a value of its type.
UploadTypeOK ==
    /\ host \in {"panel", "gallery"} /\ mounted \in BOOLEAN
    /\ input \in Files \cup {NoFile} /\ prompt \in Files \cup {NoFile}
    /\ compressing \in BOOLEAN /\ pending \in Slots \cup {NoSlot}
    /\ jobs \in [Slots -> [at : {"idle", "compressing", "sent", "served"},
                           file : Files \cup {NoFile}, compressed : BOOLEAN,
                           mine : BOOLEAN]]
    /\ stored \in Nat /\ handed \in 0 .. MaxHanded

Running == {s \in Slots : jobs[s].at # "idle"}
Mine    == {s \in Running : jobs[s].mine}

\* What is on the screen is the one thing that runs for it: nothing else can be
\* begun meanwhile, and the end of another one, begun before the panel was
\* closed, is not taken for its end.
ShowsWhatRuns ==
    /\ Cardinality(Mine) <= 1
    /\ pending \in Slots <=> \E s \in Mine : jobs[s].at \in {"sent", "served"}
    /\ pending \in Slots => pending \in Mine
    /\ compressing <=> \E s \in Mine : jobs[s].at = "compressing"

\* A file that was handed in is stored at most once, however often the panel is
\* closed and opened while it is compressed or sent.
StoredOnce ==
    stored + Cardinality({s \in Running : jobs[s].at # "served"})
           + (IF prompt = NoFile THEN 0 ELSE 1) <= handed

\* Nothing above the limit of the backend is sent as it is.
NothingTooLarge ==
    \A s \in Slots : jobs[s].at \in {"sent", "served"} /\ jobs[s].file.size = "large" =>
        jobs[s].compressed

\* The invariants of the way of a photo together.
PipelineConsistent == UploadTypeOK /\ ShowsWhatRuns /\ StoredOnce /\ NothingTooLarge

=============================================================================
