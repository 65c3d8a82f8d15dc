-------------------------------- MODULE Board --------------------------------
(* The leaderboard page (useLeaderboard) over the query cache of the tab     *)
(* (services/cache.ts): an answer is kept for a while, shown stale while it  *)
(* is read anew, and dropped when the user asks again; the page asks one     *)
(* question at a time, and what a poll brings is merged into what it holds.  *)
(* Other keys of the cache, its size and its counts are left out.            *)
EXTENDS Integers, FiniteSets

CONSTANTS Networks,
          Boards,      \* of each network, who is on the contract's board, version by version
          Budgets      \* how often each event may happen

Unread == 0
Idle == [for |-> "nothing", reset |-> FALSE]
NoEntry == [data |-> Unread, fresh |-> FALSE, refreshing |-> FALSE]

BoardAssumption ==
    /\ Idle.for \notin Networks
    /\ \A n \in Networks : 1 \in DOMAIN Boards[n]
    /\ Budgets \subseteq [changes : Nat, moves : Nat, pulls : Nat, faults : Nat]

VARIABLES network,     \* the network selected
          chain,       \* the version of each network's board
          cache,       \* the entry of each network's board
          reads,       \* simulations under way: for the page, for one that was left, to refresh
          open,        \* whether the page is
          busy,        \* isFetchingRef: the page's question that waits for a read, or Idle
          entries,     \* fullBatchRef, on screen: members with the network they are of
          newest,      \* the latest version of each network's board ever on screen
          back,        \* networks whose board went back to an earlier version on screen
          stray,       \* a network's first question was dropped or failed
          dropped,     \* networks whose entry was dropped, or whose page was left, under a read
          budget

pageVars == <<open, busy, entries, newest, back, stray>>
vars == <<network, chain, cache, reads, dropped, pageVars, budget>>

Later(v, w) == IF v < w THEN w ELSE v
Spend(what) == budget[what] > 0 /\ budget' = [budget EXCEPT ![what] = @ - 1]

OnPage(r) == r.kind = "page"

TypeOK ==
    /\ network \in Networks
    /\ \A n \in Networks :
          /\ chain[n] \in DOMAIN Boards[n]
          /\ cache[n].data \in {Unread} \cup 1 .. chain[n]
          /\ cache[n].data = Unread => cache[n] = NoEntry
    /\ \A r \in reads : r.for \in Networks /\ r.data \in {Unread} \cup 1 .. chain[r.for]
    /\ {r.for : r \in {x \in reads : OnPage(x)}} = {busy.for} \ {Idle.for}
    /\ open \in BOOLEAN /\ (~open => busy = Idle /\ entries = {})
    /\ stray \in BOOLEAN /\ back \subseteq Networks /\ dropped \subseteq Networks

-----------------------------------------------------------------------------

Members(n, v) == {n} \X Boards[n][v]

\* An answer reaches the page: a reset replaces what it holds, a poll merges into it and drops
\* nobody (useLeaderboard.ts:102-109, services/soroban.ts:111-142)
Show(n, v, reset) ==
    /\ entries' = (IF reset THEN {} ELSE entries) \cup Members(n, v)
    /\ newest' = [newest EXCEPT ![n] = Later(@, v)]
    /\ back' = IF v < newest[n] THEN back \cup {n} ELSE back
    /\ stray' = (stray /\ ~(reset /\ n = network'))

Begin(n, kind) ==
    reads' = LET id == CHOOSE i \in 1 .. Cardinality(reads) + 1 : \A r \in reads : r.id # i
             IN reads \cup {[id |-> id, for |-> n, kind |-> kind, data |-> Unread]}

\* As if every stale answer began a refresh of its own.
RefreshesAgain(entry) == ~entry.fresh
NeedsRefresh(entry) == ~entry.fresh /\ ~entry.refreshing

\* getOrFetch (services/cache.ts:33-68) on the entries held: fresh or stale, one is the answer,
\* and a stale one is refreshed unless that is under way; a miss waits for a read
Ask(n, reset, held) ==
    IF held[n] = NoEntry
    THEN /\ Begin(n, "page")
         /\ busy' = [for |-> n, reset |-> reset]
         /\ cache' = held
         /\ UNCHANGED <<entries, newest, back, stray>>
    ELSE /\ Show(n, held[n].data, reset)
         /\ UNCHANGED busy
         /\ IF NeedsRefresh(held[n])
            THEN Begin(n, "refresh") /\ cache' = [held EXCEPT ![n].refreshing = TRUE]
            ELSE cache' = held /\ UNCHANGED reads

Init ==
    /\ network \in Networks
    /\ chain = [n \in Networks |-> 1] /\ cache = [n \in Networks |-> NoEntry]
    /\ reads = {} /\ dropped = {}
    /\ open = FALSE /\ busy = Idle /\ entries = {}
    /\ newest = [n \in Networks |-> Unread] /\ back = {}
    /\ stray = FALSE
    /\ budget \in Budgets

\* The page is opened (useLeaderboard.ts:124-126)
Open ==
    /\ ~open
    /\ Spend("moves")
    /\ open' = TRUE
    /\ Ask(network, TRUE, cache)
    /\ UNCHANGED <<network, chain, dropped>>

\* ... and left: the read it waited for goes on to the cache
Leave ==
    /\ open
    /\ open' = FALSE /\ busy' = Idle /\ entries' = {} /\ stray' = FALSE
    /\ reads' = {IF OnPage(r) THEN [r EXCEPT !.kind = "left"] ELSE r : r \in reads}
    /\ dropped' = dropped \cup ({busy.for} \cap Networks)
    /\ UNCHANGED <<network, chain, cache, newest, back, budget>>

\* The page's interval, which is the cache's time to live (useLeaderboard.ts:74-76,128-140)
Poll ==
    /\ open /\ busy = Idle
    /\ Ask(network, FALSE, cache)
    /\ UNCHANGED <<network, chain, dropped, open, budget>>

\* Another network: what is on screen stays until an answer replaces it, and the question is
\* dropped when another one waits (useLeaderboard.ts:74-76,124-126)
SelectNetwork(n) ==
    /\ n # network
    /\ Spend("moves")
    /\ network' = n
    /\ IF open /\ busy = Idle THEN Ask(n, TRUE, cache) /\ UNCHANGED open
       ELSE /\ stray' = open
            /\ UNCHANGED <<cache, reads, open, busy, entries, newest, back>>
    /\ UNCHANGED <<chain, dropped>>

\* The refresh button: the cache is emptied, and the page reset unless a question waits
\* (useLeaderboard.ts:146-150, services/cache.ts:97-100)
Refetch ==
    /\ open
    /\ Spend("pulls")
    /\ LET emptied == [n \in Networks |-> NoEntry]
       IN IF busy = Idle THEN Ask(network, TRUE, emptied) /\ UNCHANGED open
          ELSE cache' = emptied /\ UNCHANGED <<reads, pageVars>>
    /\ dropped' = dropped \cup {r.for : r \in {x \in reads : x.kind = "refresh"}}
    /\ UNCHANGED <<network, chain>>

-----------------------------------------------------------------------------
(* The cache and the network. *)

\* The node answers
Simulate(r) ==
    /\ r.data = Unread
    /\ reads' = (reads \ {r}) \cup {[r EXCEPT !.data = chain[r.for]]}
    /\ UNCHANGED <<network, chain, cache, dropped, pageVars, budget>>

\* The answer replaces the entry, however it came about, and is shown by the page that waits
\* for it (services/cache.ts:59-67,135-155, useLeaderboard.ts:101-119)
Arrive(r) ==
    /\ r.data # Unread
    /\ reads' = reads \ {r}
    /\ cache' = [cache EXCEPT ![r.for] = [data |-> r.data, fresh |-> TRUE, refreshing |-> FALSE]]
    /\ UNCHANGED network
    /\ IF OnPage(r) THEN Show(r.for, r.data, busy.reset) /\ busy' = Idle /\ UNCHANGED open
       ELSE UNCHANGED pageVars
    /\ UNCHANGED <<chain, dropped, budget>>

\* A failure keeps the stale entry, and what the page shows (services/cache.ts:145-154,
\* useLeaderboard.ts:110-119)
Fail(r) ==
    /\ Spend("faults")
    /\ reads' = reads \ {r}
    /\ cache' = IF r.kind = "refresh" THEN [cache EXCEPT ![r.for].refreshing = FALSE] ELSE cache
    /\ IF OnPage(r) THEN busy' = Idle /\ stray' = TRUE ELSE UNCHANGED <<busy, stray>>
    /\ UNCHANGED <<network, chain, dropped, open, entries, newest, back>>

\* Its time to live passes
Expire(n) ==
    /\ cache[n].fresh
    /\ cache' = [cache EXCEPT ![n].fresh = FALSE]
    /\ UNCHANGED <<network, chain, reads, dropped, pageVars, budget>>

\* A tip changes a board
ChainMoves(n) ==
    /\ chain[n] + 1 \in DOMAIN Boards[n]
    /\ Spend("changes")
    /\ chain' = [chain EXCEPT ![n] = @ + 1]
    /\ UNCHANGED <<network, cache, reads, dropped, pageVars>>

Quiet == UNCHANGED vars

\* What intervals and answers do by themselves
Refreshes == Poll \/ (\E r \in reads : Simulate(r) \/ Arrive(r)) \/ (\E n \in Networks : Expire(n))

Next ==
    \/ Refreshes \/ Open \/ Leave \/ Refetch \/ Quiet
    \/ \E n \in Networks : SelectNetwork(n) \/ ChainMoves(n)
    \/ \E r \in reads : Fail(r)

Spec == Init /\ [][Next]_vars /\ WF_vars(Refreshes)

-----------------------------------------------------------------------------

\* The page shows the selected network alone, unless the question that a change of network
\* asks was dropped or failed (useLeaderboard.ts:74-76,103-109).
OneNetwork == busy = Idle /\ ~stray => \A e \in entries : e[1] = network

\* An entry is read by one caller at a time, by the marks of the page and of the entry, unless it
\* was dropped or the page left under a read (services/cache.ts:49-57, useLeaderboard.ts:74-76).
OneRead == \A r, s \in reads : r.for = s.for => r = s \/ r.for \in dropped

\* Only then may a board go back to an earlier version on screen: the cache lets the later answer
\* win, whichever was asked first (services/cache.ts:59-67,135-143).
NeverGoesBack == back \subseteq dropped

EveryoneShown == open => Members(network, chain[network]) \subseteq entries

\* Whoever is on the board comes to be on the page (useLeaderboard.ts:128-140).
BoardSettles == <>[]EveryoneShown
=============================================================================
