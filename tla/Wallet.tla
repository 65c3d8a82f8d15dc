------------------------------- MODULE Wallet -------------------------------
(* The wallets of one browser tab: the store of connected wallets and its    *)
(* copy in storage, the kit that signs with one of the wallet applications,  *)
(* the connection dialog and the idle timeout.                               *)
EXTENDS Integers, Sequences, FiniteSets, FiniteSetsExt, SequencesExt

CONSTANTS Apps,      \* wallet applications
          Freighter, \* the one a new kit selects
          Keys,      \* accounts they hold
          Openers,   \* components that use the hook, from which a dialog is opened
          IdleTimeout, Warning, \* ticks without activity that end the session, and those
                                \* before its end at which the user is warned
          Budgets    \* how often each event may happen

None == "none"

WalletAssumption ==
    /\ Freighter \in Apps /\ None \notin Apps \cup Keys \cup Openers
    /\ IdleTimeout \in Nat /\ Warning \in 1 .. IdleTimeout - 1
    /\ Budgets \subseteq [dialogs : Nat, moves : Nat, loads : Nat, ticks : Nat,
                          unmounts : Nat]

VARIABLES store,    \* useWalletStore
          stored,   \* the copy of its persisted fields
          hydrated, \* whether that copy was read since the page loaded
          kit,      \* the application the kit has selected
          dialogs,  \* connect() calls: [pc, app, timer, hook], the hook None once unmounted
          idle,     \* [armed, since, warned, hidden]: the idle timers of the session
          ended,    \* how sessions ended: warned, unwarned, in a hidden tab, without a wallet
          moves,    \* what may have parted the kit from the active wallet
          budget

vars == <<store, stored, hydrated, kit, dialogs, idle, ended, moves, budget>>
storeVars == <<store, stored, hydrated>>
idleVars == <<idle, ended>>

Spend(what) == budget[what] > 0 /\ budget' = [budget EXCEPT ![what] = @ - 1]

\* walletStore.ts:64-78
EmptyStore == [wallets |-> <<>>, activeWalletKey |-> None, publicKey |-> None,
               connected |-> FALSE, walletType |-> None, connecting |-> FALSE,
               error |-> None]

Persistent == {"wallets", "activeWalletKey", "publicKey", "connected", "walletType"}
\* partialize (walletStore.ts:190-199)
Partialized(s) == [f \in Persistent |-> s[f]]

WalletKeys(s) == {s.wallets[i].publicKey : i \in DOMAIN s.wallets}
EntryOf(s, key) == s.wallets[CHOOSE i \in DOMAIN s.wallets : s.wallets[i].publicKey = key]

TypeOK ==
    /\ store.activeWalletKey \in Keys \cup {None} /\ store.publicKey \in Keys \cup {None}
    /\ store.walletType \in Apps \cup {None}
    /\ store.error \in {None, "timed out", "closed", "failed"}
    /\ store.connected \in BOOLEAN /\ store.connecting \in BOOLEAN /\ hydrated \in BOOLEAN
    /\ kit \in Apps
    /\ \A d \in DOMAIN dialogs : dialogs[d].pc \in {"open", "closed", "selected", "done"}
    /\ \A d \in DOMAIN dialogs : dialogs[d].hook \in Openers \cup {None}
    /\ idle \in [armed : BOOLEAN, since : 0 .. IdleTimeout, warned : BOOLEAN, hidden : BOOLEAN]
    /\ ended \subseteq {"warned", "unwarned", "hidden", "disconnected"}

Fresh == [armed |-> TRUE, since |-> 0, warned |-> FALSE, hidden |-> FALSE]
Stopped == [Fresh EXCEPT !.armed = FALSE]

Init ==
    /\ store = EmptyStore /\ stored = Partialized(EmptyStore) /\ hydrated = TRUE
    /\ kit = Freighter
    /\ dialogs = <<>>
    /\ idle = Stopped /\ ended = {} /\ moves = {}
    /\ budget \in Budgets

-----------------------------------------------------------------------------
(* The store (walletStore.ts). *)

\* connect: the wallet joins the list once, and is active (walletStore.ts:86-107)
Connected(s, key, app) ==
    [s EXCEPT
        !.wallets = IF key \in WalletKeys(s) THEN @
                    ELSE Append(@, [publicKey |-> key, walletType |-> app]),
        !.activeWalletKey = key, !.publicKey = key, !.connected = TRUE,
        !.connecting = FALSE, !.error = None, !.walletType = app]

\* disconnect (walletStore.ts:113-126)
Disconnected(s) == [EmptyStore EXCEPT !.connecting = s.connecting]

Without(wallets, key) ==
    FoldLeft(LAMBDA kept, w : IF w.publicKey # key THEN Append(kept, w) ELSE kept, <<>>, wallets)

\* As if the active wallet were removed and none took its place.
RemovedOnly(s, key) ==
    LET remaining == Without(s.wallets, key)
    IN [s EXCEPT !.wallets = remaining, !.connected = remaining # <<>>]

\* removeWallet: the first of the others takes the place of an active one
\* (walletStore.ts:132-147)
Removed(s, key) ==
    LET remaining == Without(s.wallets, key)
        active == IF s.activeWalletKey # key THEN s.activeWalletKey
                  ELSE IF remaining = <<>> THEN None ELSE remaining[1].publicKey
    IN [s EXCEPT !.wallets = remaining, !.activeWalletKey = active, !.publicKey = active,
                 !.connected = remaining # <<>>,
                 !.walletType = IF active = None THEN None
                                ELSE EntryOf([s EXCEPT !.wallets = remaining], active).walletType]

\* setActiveWallet (walletStore.ts:149-158)
Activated(s, key) ==
    [s EXCEPT !.activeWalletKey = key, !.publicKey = key,
              !.walletType = EntryOf(s, key).walletType]

\* setError (walletStore.ts:164)
Failed(s, error) == [s EXCEPT !.error = error, !.connecting = FALSE]

\* As if a disconnection left the timers running.
FollowConnection(s) == idle' = IF s.connected /\ ~store.connected THEN Fresh ELSE idle

\* The session timers follow the connection (useSessionTimeout.ts:72-108): they start when
\* a wallet is connected and stop with the last
Follow(s) == idle' = IF s.connected = store.connected THEN idle
                     ELSE IF s.connected THEN Fresh ELSE Stopped

UserNext ==
    /\ Spend("moves")
    /\ \/ store' = Disconnected(store) /\ UNCHANGED moves
       \/ \E key \in WalletKeys(store) :
             \/ store' = Removed(store, key) /\ moves' = moves \cup {"removed"}
             \/ store' = Activated(store, key) /\ moves' = moves \cup {"switched"}
    /\ Follow(store')
    /\ UNCHANGED <<stored, hydrated, kit, dialogs, ended>>

\* The persist middleware writes the store, some time after it changed
Persist ==
    /\ hydrated /\ stored # Partialized(store)
    /\ stored' = Partialized(store)
    /\ UNCHANGED <<store, hydrated, kit, dialogs, idleVars, moves, budget>>

\* The page loads anew: an empty store, a new kit (useWallet.ts:56-67), no timers
Reload ==
    /\ Spend("loads")
    /\ store' = EmptyStore /\ hydrated' = FALSE /\ kit' = Freighter
    /\ dialogs' = [d \in DOMAIN dialogs |->
                      [pc |-> "done", app |-> None, timer |-> FALSE, hook |-> None]]
    /\ idle' = Stopped
    /\ moves' = moves \cup {"reloaded"}
    /\ UNCHANGED <<stored, ended>>

\* The stored fields replace those of the store (walletStore.ts:174-202)
Hydrate ==
    /\ ~hydrated
    /\ hydrated' = TRUE
    /\ store' = [f \in DOMAIN store |-> IF f \in Persistent THEN stored[f] ELSE store[f]]
    /\ Follow(store')
    /\ UNCHANGED <<stored, kit, dialogs, ended, moves, budget>>

-----------------------------------------------------------------------------
(* The connection dialog (useWallet.ts:197-283). *)

\* A component's connectTimeoutRef is to the timer of its latest dialog, or to none
Latest(d) == \A e \in DOMAIN dialogs : e > d => dialogs[e].hook # dialogs[d].hook

\* clearTimeout_ of a component: it stops the timer its reference holds, of whatever dialog
Cleared(h) ==
    [d \in DOMAIN dialogs |-> IF dialogs[d].hook = h /\ Latest(d)
                             THEN [dialogs[d] EXCEPT !.timer = FALSE] ELSE dialogs[d]]

\* connect up to the dialog (useWallet.ts:199-228)
OpenDialog(h) ==
    /\ Spend("dialogs")
    /\ store' = [store EXCEPT !.connecting = TRUE, !.error = None]
    /\ dialogs' = Append(dialogs, [pc |-> "open", app |-> None, timer |-> TRUE, hook |-> h])
    /\ UNCHANGED <<stored, hydrated, kit, idleVars, moves>>

\* The component leaves the page: its timer stops, and nothing else does (useWallet.ts:188-194)
Unmount(h) ==
    /\ \E d \in DOMAIN dialogs : dialogs[d].hook = h
    /\ Spend("unmounts")
    /\ dialogs' = [d \in DOMAIN dialogs |-> IF dialogs[d].hook = h
                                           THEN [Cleared(h)[d] EXCEPT !.hook = None]
                                           ELSE dialogs[d]]
    /\ UNCHANGED <<storeVars, kit, idleVars, moves>>

\* As if the timeout reported its error and left the store connecting.
TimesOutConnecting(d) ==
    /\ dialogs[d].timer
    /\ dialogs' = [dialogs EXCEPT ![d].timer = FALSE]
    /\ store' = [store EXCEPT !.error = "timed out"]
    /\ UNCHANGED <<stored, hydrated, kit, idleVars, moves, budget>>

\* Sixty seconds without a choice (useWallet.ts:206-220)
DialogTimesOut(d) ==
    /\ dialogs[d].timer
    /\ dialogs' = [dialogs EXCEPT ![d].timer = FALSE]
    /\ store' = IF dialogs[d].pc \in {"selected", "done"} THEN store ELSE Failed(store, "timed out")
    /\ UNCHANGED <<stored, hydrated, kit, idleVars, moves, budget>>

\* openModal returns with nothing chosen yet, closed or only shown (useWallet.ts:264-273)
DialogReturns(d) ==
    /\ dialogs[d].pc = "open"
    /\ dialogs' = [Cleared(dialogs[d].hook) EXCEPT ![d].pc = "closed"]
    /\ store' = Failed(store, "closed")
    /\ UNCHANGED <<stored, hydrated, kit, idleVars, moves, budget>>

\* A wallet is chosen: its timer is cleared and the kit selects it (useWallet.ts:231-236)
SelectWallet(d, app) ==
    /\ dialogs[d].pc \in {"open", "closed"}
    /\ dialogs' = [Cleared(dialogs[d].hook) EXCEPT ![d].pc = "selected", ![d].app = app]
    /\ kit' = app
    /\ moves' = IF \E e \in DOMAIN dialogs : dialogs[e].pc = "selected"
                THEN moves \cup {"crossed"} ELSE moves
    /\ UNCHANGED <<storeVars, idleVars, budget>>

\* It names its account, and perhaps another network, for which the next rendering makes a
\* new kit (useWallet.ts:237-257, 56-67)
AddressArrives(d, key) ==
    /\ dialogs[d].pc = "selected"
    /\ store' = Connected(store, key, dialogs[d].app)
    /\ dialogs' = [dialogs EXCEPT ![d].pc = "done"]
    /\ Follow(store')
    /\ \/ UNCHANGED <<kit, moves, budget>>
       \/ /\ dialogs[d].app = Freighter
          /\ Spend("moves")
          /\ kit' = Freighter
          /\ moves' = moves \cup {"network"}
    /\ UNCHANGED <<stored, hydrated, ended>>

\* Or it refuses (useWallet.ts:258-262)
AddressFails(d) ==
    /\ dialogs[d].pc = "selected"
    /\ store' = Failed(store, "failed")
    /\ dialogs' = [dialogs EXCEPT ![d].pc = "done"]
    /\ moves' = moves \cup {"failed"}
    /\ UNCHANGED <<stored, hydrated, kit, idleVars, budget>>

-----------------------------------------------------------------------------
(* The idle timeout of a connected wallet (useSessionTimeout.ts:36-108, App.tsx:62-76). *)

Activity == /\ idle.armed /\ idle # Fresh
            /\ idle' = Fresh
            /\ UNCHANGED <<storeVars, kit, dialogs, ended, moves, budget>>

\* A hidden tab keeps the expiry and drops the warning
Hide == /\ idle.armed /\ ~idle.hidden
        /\ idle' = [Fresh EXCEPT !.hidden = TRUE]
        /\ UNCHANGED <<storeVars, kit, dialogs, ended, moves, budget>>

\* A tick of the timers: the warning, then the end of the session; the timers stop with it
Tick ==
    /\ idle.armed /\ idle.since < IdleTimeout
    /\ Spend("ticks")
    /\ idle' = [idle EXCEPT !.since = @ + 1,
                            !.warned = @ \/ (idle.since + 1 = IdleTimeout - Warning /\ ~idle.hidden)]
    /\ ended' = IF idle.since + 1 < IdleTimeout THEN ended
                ELSE ended \cup {IF ~store.connected THEN "disconnected"
                                 ELSE IF idle.hidden THEN "hidden"
                                 ELSE IF idle.warned THEN "warned" ELSE "unwarned"}
    /\ UNCHANGED <<storeVars, kit, dialogs, moves>>

DialogNext(d) ==
    \/ DialogTimesOut(d) \/ DialogReturns(d) \/ AddressFails(d)
    \/ \E app \in Apps : SelectWallet(d, app)
    \/ \E key \in Keys : AddressArrives(d, key)

Quiet == UNCHANGED vars
Next ==
    \/ UserNext \/ Persist \/ Reload \/ Hydrate
    \/ Activity \/ Hide \/ Tick \/ Quiet
    \/ \E h \in Openers : OpenDialog(h) \/ Unmount(h)
    \/ \E d \in DOMAIN dialogs : DialogNext(d)

Timeouts == \E d \in DOMAIN dialogs : DialogTimesOut(d)

-----------------------------------------------------------------------------

\* The fields of the store agree: one list without repetitions, and one active key that is in
\* it as long as it is not empty (walletStore.ts:21-30).
StoreAgrees ==
    /\ store.publicKey = store.activeWalletKey
    /\ store.connected = (store.wallets # <<>>)
    /\ IF store.connected THEN store.activeWalletKey \in WalletKeys(store)
                          ELSE store.activeWalletKey = None
    /\ Cardinality(WalletKeys(store)) = Len(store.wallets)

\* No state that is stored and read back has a wallet type without a connection: the
\* automatic reconnection (useWallet.ts:138-184) never finds anything to do.
NothingToReconnect == hydrated => (store.walletType # None => store.connected)

\* The kit signs (useWallet.ts:341-365) with the application of the active wallet, unless the
\* active one was switched or removed, the page or the kit was made anew, a choice failed, or
\* two were under way together.
KitFollowsActive ==
    store.connected /\ moves = {} /\ (\A d \in DOMAIN dialogs : dialogs[d].pc # "selected")
        => kit = store.walletType

\* Nobody at the screen is signed out without a warning before, and nobody whose wallet is
\* gone (App.tsx:62-76, useSessionTimeout.ts:72-108).
WarnedBeforeSignOut == ended \subseteq {"warned", "hidden"}

\* Connecting ends, or is that of a chosen wallet that does not answer, or of a dialog whose
\* component was unmounted, which took its timer along (useWallet.ts:188-220).
ConnectingEnds ==
    store.connecting ~> \/ ~store.connecting
                        \/ \E d \in DOMAIN dialogs : dialogs[d].pc = "selected"
                        \/ \E d \in DOMAIN dialogs : dialogs[d].pc = "open" /\ dialogs[d].hook = None
=============================================================================
