----------------------------- MODULE OwnProfile -----------------------------
(* The profile of the wallet selected (useProfile): one store of the tab,     *)
(* filled by every mounted instance of the hook with a fetch of its own, and  *)
(* in each instance whether its wallet is registered.  The page that edits    *)
(* the profile leaves for the registration when it is not.                    *)
EXTENDS Integers, SequencesExt

CONSTANTS Wallets,
          Pages,        \* the pages with the hook; the header has it always
          EditPage,
          Budgets       \* how often each event may happen

None == "none"
Header == "header"
Hooks == {Header} \cup Pages

OwnProfileAssumption ==
    /\ None \notin Wallets
    /\ Header \notin Pages /\ None \notin Pages /\ EditPage \in Pages
    /\ Budgets \subseteq [switches : Nat, visits : Nat, changes : Nat, faults : Nat, pulls : Nat]

VARIABLES selected,     \* publicKey: a wallet, or None
          holders,      \* the wallets with a profile on the contract
          profile,      \* the store: whose profile it holds, or None
          loading,
          trouble,      \* the store's error
          page,         \* the page on screen, or None for one without the hook
          registered,   \* the mounted hooks with isRegistered
          asks,         \* the fetches under way
          causes,       \* why the store may be off: late, failed, changed
          budget

storeVars == <<profile, loading, trouble>>
vars == <<selected, holders, storeVars, page, registered, asks, causes, budget>>

Spend(what) == budget[what] > 0 /\ budget' = [budget EXCEPT ![what] = @ - 1]

Answers == {"unread", "found", "missing"}

TypeOK ==
    /\ selected \in Wallets \cup {None} /\ holders \subseteq Wallets
    /\ profile \in Wallets \cup {None} /\ {loading, trouble} \subseteq BOOLEAN
    /\ page \in Pages \cup {None}
    /\ registered \subseteq {Header, page}
    /\ \A i \in DOMAIN asks :
          /\ asks[i].hook \in {Header, page, None}
          /\ asks[i].for \in Wallets /\ asks[i].answer \in Answers
    /\ causes \subseteq {"late", "failed", "changed"}

Init ==
    /\ selected = None
    /\ holders \in SUBSET Wallets
    /\ profile = None /\ loading = FALSE /\ trouble = FALSE
    /\ page = None /\ registered = {} /\ asks = <<>>
    /\ causes = {}
    /\ budget \in Budgets

\* As if a fetch left the flag alone.
FetchUnseen(hooks, w) ==
    /\ asks' = asks \o SetToSeq({[hook |-> h, for |-> w, answer |-> "unread"] : h \in hooks})
    /\ loading' = loading /\ trouble' = FALSE

\* fetchProfile up to its await, in each of the hooks (useProfile.ts:37-39)
Fetch(hooks, w) ==
    /\ asks' = asks \o SetToSeq({[hook |-> h, for |-> w, answer |-> "unread"] : h \in hooks})
    /\ loading' = TRUE /\ trouble' = FALSE

\* The effect of the edit page after a rendering: it leaves when no profile counts as registered
\* and nothing loads (ProfileEditPage.tsx:29-34)
Turned(p, isLoading, known) == p = EditPage /\ ~isLoading /\ EditPage \notin known

\* The page is gone, and what its hook asked finds nobody to tell but the store
LeftBehind(someAsks) ==
    [i \in DOMAIN someAsks |->
        IF someAsks[i].hook = Header THEN someAsks[i] ELSE [someAsks[i] EXCEPT !.hook = None]]

\* What another selection leaves of the causes: a registration that a fetch under way may have
\* missed
Outlasting == IF asks = <<>> THEN {} ELSE causes \cap {"changed"}

\* Another wallet is selected: every hook asks for it, and the profile of the wallet before
\* stays until an answer (useProfile.ts:57-64)
Select(w) ==
    /\ w # selected
    /\ Spend("switches")
    /\ selected' = w
    /\ Fetch({Header, page} \ {None}, w)
    /\ causes' = IF \E i \in DOMAIN asks : asks[i].for = w THEN causes ELSE Outlasting
    /\ UNCHANGED <<holders, profile, page, registered>>

\* The wallet is disconnected: the store is cleared, and a protected page left
\* (useProfile.ts:60-63, profileStore.ts:26, ProtectedRoute.tsx:61-69)
Disconnect ==
    /\ selected # None
    /\ Spend("switches")
    /\ selected' = None
    /\ profile' = None /\ loading' = FALSE /\ trouble' = FALSE
    /\ registered' = {} /\ page' = None /\ asks' = LeftBehind(asks)
    /\ causes' = Outlasting
    /\ UNCHANGED holders

\* A page is opened: its hook asks, and is not registered in the first rendering, by which the
\* edit page judges before the fetch shows as loading (useProfile.ts:33,57-59,
\* ProfileEditPage.tsx:20-34)
Visit(p) ==
    /\ selected # None /\ page = None
    /\ Spend("visits")
    /\ Fetch({IF Turned(p, loading, {}) THEN None ELSE p}, selected)
    /\ page' = IF Turned(p, loading, {}) THEN None ELSE p
    /\ UNCHANGED <<selected, holders, profile, registered, causes>>

LeavePage ==
    /\ page # None
    /\ page' = None /\ registered' = registered \ {page} /\ asks' = LeftBehind(asks)
    /\ UNCHANGED <<selected, holders, storeVars, causes, budget>>

\* The page's Retry, and the end of a domain verification (useProfile.ts:66-70)
Refetch ==
    /\ page # None
    /\ Spend("pulls")
    /\ Fetch({page}, selected)
    /\ UNCHANGED <<selected, holders, profile, page, registered, causes>>

-----------------------------------------------------------------------------

\* The node answers
Read(i) ==
    /\ asks[i].answer = "unread"
    /\ asks' = [asks EXCEPT ![i].answer = IF asks[i].for \in holders THEN "found" ELSE "missing"]
    /\ UNCHANGED <<selected, holders, storeVars, page, registered, causes, budget>>

\* The hook hears whether the wallet is registered, nothing loads any more, and the edit page
\* judges; a rendering between the store's change and the hook's own may judge by the old
\* (useProfile.ts:43-52, profileStore.ts:24-30)
Settle(i, isRegistered) ==
    LET hook == asks[i].hook
        known == IF isRegistered THEN registered \cup ({hook} \ {None}) ELSE registered \ {hook}
        rest == RemoveAt(asks, i)
    IN /\ loading' = FALSE
       /\ \/ /\ ~Turned(page, FALSE, known)
             /\ page' = page /\ registered' = known /\ asks' = rest
          \/ /\ Turned(page, FALSE, known) \/ Turned(page, FALSE, registered)
             /\ page' = None /\ registered' = known \ {page} /\ asks' = LeftBehind(rest)

\* An answer fills the store, whichever wallet it was asked for (useProfile.ts:41-46)
Arrive(i) ==
    /\ asks[i].answer # "unread"
    /\ profile' = IF asks[i].answer = "found" THEN asks[i].for ELSE None
    /\ trouble' = FALSE
    /\ Settle(i, asks[i].answer = "found")
    /\ causes' = IF asks[i].for # selected THEN causes \cup {"late"} ELSE causes
    /\ UNCHANGED <<selected, holders, budget>>

\* A failure that is not "not found" keeps the profile, and counts as not registered
\* (useProfile.ts:47-50)
Fail(i) ==
    /\ Spend("faults")
    /\ trouble' = TRUE
    /\ Settle(i, FALSE)
    /\ causes' = causes \cup {"failed"}
    /\ UNCHANGED <<selected, holders, profile>>

\* A profile is registered, or deregistered
HolderChanges(w) ==
    /\ Spend("changes")
    /\ holders' = IF w \in holders THEN holders \ {w} ELSE holders \cup {w}
    /\ causes' = causes \cup {"changed"}
    /\ UNCHANGED <<selected, storeVars, page, registered, asks>>

Quiet == UNCHANGED vars

Answered == \E i \in DOMAIN asks : Read(i) \/ Arrive(i)
Next ==
    \/ \E w \in Wallets : Select(w) \/ HolderChanges(w)
    \/ Disconnect \/ LeavePage \/ Refetch
    \/ \E p \in Pages : Visit(p)
    \/ Answered
    \/ \E i \in DOMAIN asks : Fail(i)
    \/ Quiet

Spec == Init /\ [][Next]_vars /\ WF_vars(Answered)

-----------------------------------------------------------------------------

\* The profile of another wallet is in the store only under the loader, or after a fetch failed
\* or the answer to a fetch of an earlier selection came (useProfile.ts:57-64).
ShownIsOwn ==
    profile \notin {None, selected} => loading \/ causes \cap {"late", "failed"} # {}

\* The loader stands for a fetch under way: none outlives them (useProfile.ts:51-52, though
\* the hooks share the flag and the first to end clears it).
LoaderStandsForAFetch == loading => asks # <<>>

\* When all fetches are over and none failed, came late or crossed a registration, the store
\* and every hook agree with the contract about the wallet (useProfile.ts:22-29).
HooksAgree ==
    selected # None /\ asks = <<>> /\ causes = {} =>
        /\ ~loading /\ ~trouble
        /\ profile = IF selected \in holders THEN selected ELSE None
        /\ registered = IF selected \in holders THEN {Header, page} \ {None} ELSE {}

\* An edit page that stays is loading, or its hook counts as registered
\* (ProfileEditPage.tsx:29-34).
EditorIsRegistered == page = EditPage => loading \/ EditPage \in registered
=============================================================================
