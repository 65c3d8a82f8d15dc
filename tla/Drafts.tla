------------------------------- MODULE Drafts -------------------------------
(* A form that saves what is typed into it (useFormAutosave): the form, the  *)
(* debounced writer behind it, the draft in local storage and the banner     *)
(* that offers it on the next visit.                                         *)
EXTENDS Integers

CONSTANTS Texts,     \* what may be typed; Blank is the form as it first shows
          Blank,
          Budgets    \* how often each event may happen

Nothing == "nothing"

DraftsAssumption ==
    /\ Blank \in Texts /\ Nothing \notin Texts
    /\ Budgets \subseteq [visits : Nat, edits : Nat, clears : Nat, ages : Nat,
                          faults : Nat, stirs : Nat]

VARIABLES open,      \* whether the form is on screen
          text,      \* what it holds
          stored,    \* the draft in local storage
          written,   \* lastWrittenRef
          pending,   \* what the armed timer will write
          banner,    \* hasDraft
          savedAt,   \* whether draftSavedAt is set
          dirty,     \* whether the state changed since the last rendering
          seenDraft, \* the draft the banner announced, until the form is touched
          left,      \* the text the last visit ended with
          excused,   \* why the text may be missing from storage: it came "back" to one already
                     \* written, the draft "aged", its write "failed", it was "cleared"
          budget

vars == <<open, text, stored, written, pending, banner, savedAt, dirty, seenDraft, left,
          excused, budget>>
writerVars == <<stored, written, pending>>

Spend(costs) ==
    /\ \A what \in costs : budget[what] > 0
    /\ budget' = [what \in DOMAIN budget |->
                     IF what \in costs THEN budget[what] - 1 ELSE budget[what]]

TypeOK ==
    /\ open \in BOOLEAN /\ banner \in BOOLEAN /\ savedAt \in BOOLEAN /\ dirty \in BOOLEAN
    /\ text \in Texts
    /\ {stored, written, pending, seenDraft, left} \subseteq Texts \cup {Nothing}
    /\ excused \subseteq {"back", "aged", "failed", "cleared"}

Init ==
    /\ open = FALSE /\ text = Blank
    /\ stored = Nothing /\ written = Nothing /\ pending = Nothing
    /\ banner = FALSE /\ savedAt = FALSE /\ dirty = FALSE /\ seenDraft = Nothing
    /\ left = Nothing /\ excused = {}
    /\ budget \in Budgets

\* What the storage answers, at a cost: a draft older than a day is removed when it is next read,
\* and storage that cannot be read has no draft (useFormAutosave.ts:107-138)
ReadDraft(found, cost) ==
    \/ found = stored /\ cost = {} /\ stored' = stored
    \/ found = Nothing /\ cost = {"ages"} /\ stored # Nothing /\ stored' = Nothing
    \/ found = Nothing /\ cost = {"faults"} /\ stored' = stored

ReadCosts == {{}, {"ages"}, {"faults"}}

\* The form opens: a stored draft is announced, not restored (useFormAutosave.ts:162-174)
Visit ==
    /\ ~open
    /\ \E found \in {stored, Nothing}, cost \in ReadCosts :
          /\ ReadDraft(found, cost)
          /\ Spend({"visits"} \cup cost)
          /\ banner' = (found # Nothing) /\ savedAt' = (found # Nothing) /\ seenDraft' = found
    /\ open' = TRUE /\ text' = Blank
    /\ written' = Nothing /\ pending' = Nothing
    /\ dirty' = TRUE
    /\ left' = Nothing /\ excused' = {}

\* The effect of a rendering arms the timer for text that is not the text last written; for
\* text that is, it returns before it cancels an armed one (useFormAutosave.ts:197-231)
Save ==
    IF text = written THEN UNCHANGED <<pending, excused>>
    ELSE pending' = text /\ excused' = {}

\* The data object is a new one in every rendering, so the effect runs after each
Render ==
    /\ open /\ dirty
    /\ Save
    /\ dirty' = FALSE
    /\ UNCHANGED <<open, text, stored, written, banner, savedAt, seenDraft, left, budget>>

\* The page is rendered for a reason that is not the form's
Stir ==
    /\ open /\ ~dirty
    /\ Spend({"stirs"})
    /\ dirty' = TRUE
    /\ UNCHANGED <<open, text, writerVars, banner, savedAt, seenDraft, left, excused>>

\* The text is again the one last written, while another is armed
CameBack ==
    excused' = IF text' = written /\ pending # Nothing THEN excused \cup {"back"} ELSE excused

Edit ==
    /\ open /\ ~dirty
    /\ Spend({"edits"})
    /\ text' \in Texts \ {text}
    /\ dirty' = TRUE
    /\ seenDraft' = Nothing
    /\ CameBack
    /\ UNCHANGED <<open, writerVars, banner, savedAt, left>>

\* A write sets the time of saving; one that storage refuses changes nothing
\* (useFormAutosave.ts:205-219)
Store ==
    \/ /\ stored' = pending /\ written' = pending
       /\ savedAt' = TRUE /\ dirty' = TRUE
       /\ UNCHANGED <<excused, budget>>
    \/ /\ Spend({"faults"})
       /\ excused' = excused \cup {"failed"}
       /\ UNCHANGED <<stored, written, savedAt, dirty>>

\* A second without another change, or the page is hidden: the text is written, and the timer is
\* no longer armed whether it was or not (useFormAutosave.ts:223-227,235-247)
Write ==
    /\ open /\ ~dirty /\ pending # Nothing
    /\ Store
    /\ pending' = Nothing
    /\ UNCHANGED <<open, text, banner, seenDraft, left>>

\* The banner's Restore (useFormAutosave.ts:254-263)
RestoreDraft ==
    /\ open /\ ~dirty /\ banner
    /\ \E found \in {stored, Nothing}, cost \in ReadCosts :
          /\ ReadDraft(found, cost)
          /\ Spend(cost)
          /\ text' = IF found = Nothing THEN text ELSE found
          /\ savedAt' = (savedAt /\ found # Nothing)
    /\ banner' = FALSE
    /\ dirty' = TRUE
    /\ IF stored' = stored THEN CameBack ELSE excused' = excused \cup {"aged"}
    /\ UNCHANGED <<open, written, pending, seenDraft, left>>

\* The banner's Discard, and the form's own call after a success; only a banner or a time that
\* it takes down is a change to render (useFormAutosave.ts:265-275, TipPage.tsx:143-147)
DiscardDraft ==
    /\ open /\ ~dirty
    /\ \/ Spend({"clears"}) /\ stored' = Nothing
       \/ Spend({"clears", "faults"}) /\ stored' = stored
    /\ written' = Nothing /\ pending' = Nothing
    /\ banner' = FALSE /\ savedAt' = FALSE /\ seenDraft' = Nothing
    /\ dirty' = (banner \/ savedAt)
    /\ excused' = excused \cup {"cleared"}
    /\ UNCHANGED <<open, text, left>>

\* As if an armed write were dropped with the page.
DropPending == UNCHANGED <<stored, written, excused, budget>> /\ pending' = Nothing

\* What is armed is written on the way out (useFormAutosave.ts:233-252)
Flush ==
    /\ \/ pending = Nothing /\ UNCHANGED <<stored, written, excused, budget>>
       \/ /\ pending # Nothing /\ stored' = pending /\ written' = pending
          /\ UNCHANGED <<excused, budget>>
       \/ /\ pending # Nothing /\ Spend({"faults"}) /\ UNCHANGED <<stored, written>>
          /\ excused' = excused \cup {"failed"}
    /\ pending' = Nothing

Leave ==
    /\ open /\ ~dirty
    /\ Flush
    /\ open' = FALSE /\ banner' = FALSE /\ savedAt' = FALSE /\ seenDraft' = Nothing
    /\ left' = text
    /\ UNCHANGED <<text, dirty>>

Quiet == UNCHANGED vars
Next ==
    \/ Visit \/ Render \/ Stir \/ Edit \/ Write \/ RestoreDraft \/ DiscardDraft \/ Leave
    \/ Quiet

Spec == Init /\ [][Next]_vars /\ WF_vars(Render) /\ WF_vars(Write)

-----------------------------------------------------------------------------

\* What a form held when it was left is the draft of the next visit (useFormAutosave.ts:144),
\* unless storage refused its write, its draft aged, it was submitted or discarded and nothing was
\* rendered since, or it had come back to a text already written while another was armed; all
\* of it for the last text the timer was armed with.
NothingTypedIsLost ==
    ~open /\ left # Nothing /\ excused = {} => stored = left

\* In an open form the text is stored in the end (useFormAutosave.ts:206-227), but for what is
\* excused above; a text that came back is written after the one that was armed.
TextIsStored == (open /\ text # Blank) ~> (~open \/ stored = text \/ excused \ {"back"} # {})

\* A draft that was found on opening the form is there to restore until the form is touched
\* (DraftRestoreBanner.tsx:42-47: "We found a saved draft").
FoundDraftStays == banner /\ seenDraft # Nothing => stored = seenDraft
=============================================================================
