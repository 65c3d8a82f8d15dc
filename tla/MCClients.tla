----------------------------- MODULE MCClients ------------------------------
(* The browser tab: the tip page with its guard, the wallets, the drafts of  *)
(* forms, the dashboard, the leaderboard, the profile of the wallet and the  *)
(* check of a username.  A behaviour is a behaviour of one of them, named by *)
(* focus; the wallet that is connected may change at any step of the others. *)
EXTENDS Integers, Sequences, FiniteSets

CONSTANTS SendCount, TipBudgets,
          Apps, Freighter, Keys, Openers, IdleTimeout, Warning, WalletBudgets,
          Texts, BlankText, DraftBudgets,
          Wallets, Ledgers, DashboardBudgets,
          Networks, Boards, BoardBudgets,
          Pages, EditPage, ProfileBudgets,
          Names, Valid, BlankName, Registries, NameBudgets

VARIABLES focus, budget,
          page, guard, active, persisted, flow, tipz, seen, sends, account, history,
          store, stored, hydrated, kit, dialogs, idle, ended, moves,
          open, text, written, pending, banner, savedAt, dirty, seenDraft, left, excused,
          wallet, ledger, shown, flight, polling, failed, before, withdrawals, causes,
          network, chain, cache, reads, dropped, mounted, busy, entries, newest, back, stray,
          picked, holders, profile, loading, trouble, place, registered, asks, doubts,
          typed, armed, debounced, verdict, checking, problem, known, checks, on, taken, excuses

tipVars == <<page, guard, active, persisted, flow, tipz, seen, sends, account, history>>
walletVars == <<store, hydrated, kit, dialogs, idle, ended, moves>>
draftVars ==
    <<open, text, written, pending, banner, savedAt, dirty, seenDraft, left, excused>>
dashVars == <<wallet, ledger, shown, flight, polling, failed, before, withdrawals, causes>>
boardVars ==
    <<network, chain, cache, reads, dropped, mounted, busy, entries, newest, back, stray>>
ownVars == <<picked, holders, profile, loading, trouble, place, registered, asks, doubts>>
nameVars ==
    <<typed, armed, debounced, verdict, checking, problem, known, checks, on, taken, excuses>>
vars ==
    <<focus, budget, stored, tipVars, walletVars, draftVars, dashVars, boardVars, ownVars, nameVars>>

T == INSTANCE TipFlow WITH Budgets <- TipBudgets
W == INSTANCE Wallet WITH Budgets <- WalletBudgets
D == INSTANCE Drafts WITH Blank <- BlankText, Budgets <- DraftBudgets
B == INSTANCE Dashboard WITH Budgets <- DashboardBudgets
L == INSTANCE Board WITH open <- mounted, Budgets <- BoardBudgets
O == INSTANCE OwnProfile WITH
        selected <- picked, page <- place, causes <- doubts, Budgets <- ProfileBudgets
N == INSTANCE NameCheck WITH
        selected <- on, causes <- excuses, Blank <- BlankName, Budgets <- NameBudgets

ASSUME Assumptions ==
    /\ T!TipFlowAssumption /\ W!WalletAssumption /\ D!DraftsAssumption
    /\ B!DashboardAssumption /\ L!BoardAssumption
    /\ O!OwnProfileAssumption /\ N!NameCheckAssumption

NoTips ==
    /\ page = 0 /\ guard = 0 /\ active = 0 /\ persisted = 0 /\ flow = 0
    /\ tipz = 0 /\ seen = 0 /\ sends = 0 /\ account = 0 /\ history = 0
NoWallet ==
    /\ store = 0 /\ hydrated = 0 /\ kit = 0 /\ dialogs = 0
    /\ idle = 0 /\ ended = 0 /\ moves = 0
NoDrafts ==
    /\ open = 0 /\ text = 0 /\ written = 0 /\ pending = 0
    /\ banner = 0 /\ savedAt = 0 /\ dirty = 0 /\ seenDraft = 0 /\ left = 0 /\ excused = 0
NoDashboard ==
    /\ wallet = 0 /\ ledger = 0 /\ shown = 0 /\ flight = 0 /\ polling = 0
    /\ failed = 0 /\ before = 0 /\ withdrawals = 0 /\ causes = 0
NoBoard ==
    /\ network = 0 /\ chain = 0 /\ cache = 0 /\ reads = 0 /\ dropped = 0 /\ mounted = 0
    /\ busy = 0 /\ entries = 0 /\ newest = 0 /\ back = 0 /\ stray = 0

NoProfile ==
    /\ picked = 0 /\ holders = 0 /\ profile = 0 /\ loading = 0 /\ trouble = 0
    /\ place = 0 /\ registered = 0 /\ asks = 0 /\ doubts = 0
NoName ==
    /\ typed = 0 /\ armed = 0 /\ debounced = 0 /\ verdict = 0 /\ checking = 0 /\ problem = 0
    /\ known = 0 /\ checks = 0 /\ on = 0 /\ taken = 0 /\ excuses = 0

Init ==
    \/ /\ focus = "tip" /\ T!Init /\ stored = 0
       /\ NoWallet /\ NoDrafts /\ NoDashboard /\ NoBoard /\ NoProfile /\ NoName
    \/ /\ focus = "wallet" /\ W!Init
       /\ NoTips /\ NoDrafts /\ NoDashboard /\ NoBoard /\ NoProfile /\ NoName
    \/ /\ focus = "draft" /\ D!Init
       /\ NoTips /\ NoWallet /\ NoDashboard /\ NoBoard /\ NoProfile /\ NoName
    \/ /\ focus = "dashboard" /\ B!Init /\ stored = 0
       /\ NoTips /\ NoWallet /\ NoDrafts /\ NoBoard /\ NoProfile /\ NoName
    \/ /\ focus = "board" /\ L!Init /\ stored = 0
       /\ NoTips /\ NoWallet /\ NoDrafts /\ NoDashboard /\ NoProfile /\ NoName
    \/ /\ focus = "profile" /\ O!Init /\ stored = 0
       /\ NoTips /\ NoWallet /\ NoDrafts /\ NoDashboard /\ NoBoard /\ NoName
    \/ /\ focus = "name" /\ N!Init /\ stored = 0
       /\ NoTips /\ NoWallet /\ NoDrafts /\ NoDashboard /\ NoBoard /\ NoProfile

InTip ==
    /\ focus = "tip"
    /\ UNCHANGED <<focus, stored, walletVars, draftVars, dashVars, boardVars, ownVars, nameVars>>
InWallet ==
    /\ focus = "wallet"
    /\ UNCHANGED <<focus, tipVars, draftVars, dashVars, boardVars, ownVars, nameVars>>
InDraft ==
    /\ focus = "draft"
    /\ UNCHANGED <<focus, tipVars, walletVars, dashVars, boardVars, ownVars, nameVars>>
InDashboard ==
    /\ focus = "dashboard"
    /\ UNCHANGED <<focus, stored, tipVars, walletVars, draftVars, boardVars, ownVars, nameVars>>
InBoard ==
    /\ focus = "board"
    /\ UNCHANGED <<focus, stored, tipVars, walletVars, draftVars, dashVars, ownVars, nameVars>>
InProfile ==
    /\ focus = "profile"
    /\ UNCHANGED <<focus, stored, tipVars, walletVars, draftVars, dashVars, boardVars, nameVars>>
InName ==
    /\ focus = "name"
    /\ UNCHANGED <<focus, stored, tipVars, walletVars, draftVars, dashVars, boardVars, ownVars>>

TipNext == InTip /\ T!Next
WalletNext == InWallet /\ W!Next
DraftNext == InDraft /\ D!Next
DashboardNext == InDashboard /\ B!Next
BoardNext == InBoard /\ L!Next
ProfileNext == InProfile /\ O!Next
NameNext == InName /\ N!Next
Next ==
    \/ TipNext \/ WalletNext \/ DraftNext \/ DashboardNext \/ BoardNext
    \/ ProfileNext \/ NameNext

\* Timers fire, React renders and the node answers reads; what the user, the wallet and the
\* transactions do, they may not.
Spec ==
    /\ Init /\ [][Next]_vars
    /\ WF_vars(\/ InTip /\ T!GuardTimesOut
               \/ InWallet /\ W!Timeouts
               \/ InDraft /\ (D!Render \/ D!Write)
               \/ InDashboard /\ B!Refreshes
               \/ InBoard /\ L!Refreshes
               \/ InProfile /\ O!Answered
               \/ InName /\ (N!Debounce \/ N!Answered))

-----------------------------------------------------------------------------
(* What each component promises, under the names its module gives. *)

\* The guard agrees with what it shows and counts, transactions overlap and drafts are paid
\* twice only for the causes named, and the success shown is that of the draft
\* (useTransactionGuard.ts:100-277, TipPage.tsx:149-180,355-366,482).
TipFlowSafe ==
    focus = "tip" => /\ T!TypeOK /\ T!GuardAgrees /\ T!OneAtATime
                     /\ T!PaidTwiceOnlyByBlindRetry /\ T!SuccessIsOfTheDraft

\* The wallet store agrees with itself, the kit signs with the active wallet unless one of the
\* causes named came between, and nobody is signed out unwarned (walletStore.ts:86-158,
\* useWallet.ts:197-283, useSessionTimeout.ts:36-108).
WalletSafe ==
    focus = "wallet" => /\ W!TypeOK /\ W!StoreAgrees /\ W!NothingToReconnect
                        /\ W!KitFollowsActive /\ W!WarnedBeforeSignOut

\* What a form held when it was left is the draft of the next visit but for the causes named
\* (useFormAutosave.ts:197-275);
\* the dashboard shows the wallet selected, and no more than the contract holds for it but for
\* the causes named (useDashboard.ts:53-163); the leaderboard shows the network selected, and
\* goes back only after its entry was dropped, or the page left, under a read
\* (useLeaderboard.ts:72-150, cache.ts:33-155); the hooks that share the profile store agree
\* with each other and with the contract when their fetches are over (useProfile.ts:37-64); the
\* verdict on a username is about the name in the field (useUsernameCheck.ts:20-96).
ScreensSafe ==
    /\ focus = "draft" => D!TypeOK /\ D!NothingTypedIsLost
    /\ focus = "dashboard" => B!TypeOK /\ B!ShownIsSelected /\ B!NeverOverstated
    /\ focus = "board" => /\ L!TypeOK /\ L!OneNetwork
                          /\ L!NeverGoesBack /\ L!OneRead
    /\ focus = "profile" => /\ O!TypeOK /\ O!ShownIsOwn /\ O!LoaderStandsForAFetch
                            /\ O!HooksAgree /\ O!EditorIsRegistered
    /\ focus = "name" => /\ N!TypeOK /\ N!VerdictIsOfTheName
                         /\ N!KnownTakenIsNotSubmitted /\ N!RememberedWasTrue

\* A lock is always freed again, if only by its timeout (useTransactionGuard.ts:152-165); a
\* dialog nobody answers stops connecting, unless its component is gone (useWallet.ts:188-220);
\* what stands in an open form is stored, unless storage refuses it or it was submitted
\* (useFormAutosave.ts:206-227); a dashboard that polls comes to show what the
\* contract holds (useDashboard.ts:185-193), and the leaderboard everyone on the contract's
\* (useLeaderboard.ts:128-140); the profile stops loading (useProfile.ts:51-52), and a valid
\* username is judged unless it was typed back to (useUsernameCheck.ts:20-96).
ClientSettles ==
    /\ []<>(focus = "tip" => ~guard.lock)
    /\ (focus = "wallet" /\ store.connecting) ~>
          (focus = "wallet" =>
              \/ ~store.connecting
              \/ \E d \in DOMAIN dialogs :
                    \/ dialogs[d].pc = "selected"
                    \/ dialogs[d].pc = "open" /\ dialogs[d].hook = W!None)
    /\ (focus = "draft" /\ open /\ text # BlankText) ~>
          (focus = "draft" => ~open \/ stored = text \/ excused \ {"back"} # {})
    /\ <>[](/\ focus = "dashboard" => B!FreshOrStopped
            /\ focus = "board" => L!EveryoneShown
            /\ focus = "profile" => ~loading
            /\ focus = "name" => N!Judged)

-----------------------------------------------------------------------------
(* The instance of MCClients.cfg. *)

Tips(d, r, l, f, w) == [drafts |-> d, retries |-> r, leaves |-> l, faults |-> f, waits |-> w]
Moves(d, m, l, t, u) == [dialogs |-> d, moves |-> m, loads |-> l, ticks |-> t, unmounts |-> u]
Visits(s, w, t, f, p) ==
    [switches |-> s, withdrawals |-> w, tips |-> t, faults |-> f, pulls |-> p]
Looks(c, m, p, f) == [changes |-> c, moves |-> m, pulls |-> p, faults |-> f]
Calls(s, v, c, f, p) ==
    [switches |-> s, visits |-> v, changes |-> c, faults |-> f, pulls |-> p]
Edits(e, m, c, f) == [edits |-> e, moves |-> m, claims |-> c, faults |-> f]

TipEvents ==
    {Tips(2, 0, 1, 1, 0), Tips(2, 0, 0, 1, 1), Tips(2, 1, 0, 0, 1), Tips(1, 1, 1, 1, 0),
     Tips(1, 1, 0, 1, 1), Tips(1, 1, 1, 0, 2)}
WalletEvents ==
    {Moves(2, 2, 0, 0, 0), Moves(1, 1, 1, 4, 0), Moves(2, 0, 1, 0, 1)}
DraftEvents ==
    {[visits |-> 2, edits |-> 3, clears |-> 1, ages |-> 1, faults |-> 1, stirs |-> 1],
     [visits |-> 3, edits |-> 3, clears |-> 1, ages |-> 0, faults |-> 0, stirs |-> 0]}
\* A creator, and a wallet that may be registered or not.
CreatorAndOther == {[w1 |-> 2, w2 |-> x] : x \in {-1, 1}}
DashboardEvents == {Visits(2, 2, 0, 1, 0), Visits(3, 1, 0, 1, 1), Visits(1, 2, 1, 1, 0)}
\* Two boards from each of which somebody falls.
TwoBoards == [main |-> <<{"a", "b"}, {"b", "c"}>>, test |-> <<{"d"}, {"e"}>>]
BoardEvents == {Looks(1, 2, 1, 0), Looks(1, 2, 0, 1)}
ProfileEvents ==
    {Calls(2, 1, 0, 1, 0), Calls(3, 1, 0, 0, 0), Calls(1, 2, 0, 0, 1), Calls(1, 1, 1, 0, 1),
     Calls(1, 1, 0, 1, 1), Calls(3, 0, 1, 0, 0)}
\* One of the names is taken on one of the networks.
OneTaken == {[main |-> {}, test |-> {"a"}], [main |-> {"a"}, test |-> {}]}
NameEvents == {Edits(4, 0, 0, 0), Edits(3, 0, 0, 1), Edits(2, 1, 0, 1), Edits(2, 0, 1, 0)}
=============================================================================
