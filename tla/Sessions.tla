------------------------------- MODULE Sessions -------------------------------
(***************************************************************************)
(* Sessions: the sign-in challenges and the refresh tokens that rotate on  *)
(* the server (auth.service.ts, jwt.ts), and the token manager of every    *)
(* browser tab (tokenManager.ts, client.ts), which share a local storage.  *)
(*                                                                         *)
(* One wallet on one network.  Server requests interleave at their         *)
(* database calls.  There is no clock: the age of a pair says how far its  *)
(* tokens are from expiry.  The columns familyId and sessionId are taken   *)
(* as the service assumes them.                                            *)
(***************************************************************************)
EXTENDS Integers, Sequences, FiniteSets

CONSTANTS Tabs,          \* browser tabs of one user
          SlotCount,     \* requests the server handles at a time
          Budgets        \* what a behaviour may use up: [tabs, calls, tokens, challenges, faults,
                         \* ages, rotations]

Slots == 1..SlotCount

None == 0

ASSUME SessionsAssumption ==
    /\ SlotCount \in Nat /\ None \notin Tabs
    /\ Budgets \subseteq [tabs : SUBSET Tabs, calls : SUBSET Tabs, tokens : Nat, challenges : Nat,
                          faults : Nat, ages : Nat, rotations : Nat]
    /\ \A m \in Budgets : m.calls \subseteq m.tabs

\* The age of a pair: fresh, near the expiry of its access token, past it, and past the
\* expiry of its refresh token too.
Fresh == 0
Near == 1
AccessExpired == 2
Expired == 3

VARIABLES
    challenge,  \* AuthChallenge rows, [used, expired], deleted ones marked expired
    token,      \* RefreshToken rows, [family, parent, revoked, age, kid] with the kid of the access
                \* token issued with them; a family is named by its challenge
    keys,       \* JWT_SECRETS: the kids that verify, and JWT_CURRENT_KID
    request,    \* the requests under way, one in each slot
    tab,        \* tokenManager of each tab, and one apiFetch call
    stored,     \* localStorage: the pair all tabs load
    history,    \* [raced, reused]: families with overlapping writes, and with a detected reuse
    budget      \* what is left of the bounds

vars == <<challenge, token, keys, request, tab, stored, history, budget>>

Spend(what) == budget[what] > 0 /\ budget' = [budget EXCEPT ![what] = @ - 1]

NoRequest == [kind |-> "none", from |-> None, arg |-> None, pc |-> "idle", seen |-> FALSE]
NewTab == [pair |-> None, status |-> "unauthenticated", inflight |-> FALSE, timer |-> FALSE,
           call |-> "idle", sent |-> None]

Live(i) == ~token[i].revoked
FamilyOf(f) == {i \in DOMAIN token : token[i].family = f}

-----------------------------------------------------------------------------
(* Access tokens and their keys (jwt.ts). *)

\* As if only the current key verified.
VerifiesWithCurrent(i) == token[i].kid = keys.current /\ token[i].age < AccessExpired

\* verifyAccessToken: the kid names a key of the set, and the token has not expired; the
\* session it belongs to is not looked up.
Verifies(i) == token[i].kid \in keys.set /\ token[i].age < AccessExpired

\* As if the new key signed before it was added.
AddKeyLate ==
    /\ keys = [set |-> {1}, current |-> 1]
    /\ Spend("rotations")
    /\ keys' = [set |-> {1}, current |-> 2]
    /\ UNCHANGED <<challenge, token, request, tab, stored, history>>

\* The documented rotation: add a key and sign with it; remove the old one when the
\* tokens it signed have expired.
AddKey ==
    /\ keys = [set |-> {1}, current |-> 1]
    /\ Spend("rotations")
    /\ keys' = [set |-> {1, 2}, current |-> 2]
    /\ UNCHANGED <<challenge, token, request, tab, stored, history>>

RemoveKey ==
    /\ keys = [set |-> {1, 2}, current |-> 2]
    /\ \A i \in DOMAIN token : token[i].kid = 1 => token[i].age >= AccessExpired
    /\ keys' = [set |-> {2}, current |-> 2]
    /\ UNCHANGED <<challenge, token, request, tab, stored, history, budget>>

-----------------------------------------------------------------------------
(* The token manager of a tab (tokenManager.ts), and how a call of the API waits for it. *)

SetStatus(t, s) == [t EXCEPT !.status = s]

\* setTokens schedules the next refresh; clearTokens cancels it.
SetTokens(t, i) == [t EXCEPT !.pair = i, !.status = "authenticated", !.timer = TRUE]
ClearTokens(t) == [t EXCEPT !.pair = None, !.status = "unauthenticated", !.timer = FALSE]

\* A call that waited goes on: with the new token if there is one, else it is sent without
\* any the first time, and ends in AuthError the second.
Resume(t, i) ==
    CASE t.call = "waits first" -> [t EXCEPT !.call = "sent", !.sent = i]
      [] t.call = "waits again" /\ i # None -> [t EXCEPT !.call = "sent again", !.sent = i]
      [] t.call = "waits again" /\ i = None -> [t EXCEPT !.call = "idle", !.sent = None]
      [] OTHER -> t

\* As if a failed refresh left the status as it was.
AnsweredSilently(t, i) ==
    LET done == [t EXCEPT !.inflight = FALSE] IN Resume(IF i # None THEN SetTokens(done, i) ELSE done, i)

\* As if the callers that waited were not told.
AnsweredUnheard(t, i) ==
    LET done == [t EXCEPT !.inflight = FALSE] IN
    IF i # None THEN SetTokens(done, i) ELSE SetStatus(done, "reauth-required")

\* The answer of a refresh; i is None when it failed, and the tokens are kept then.
Answered(t, i) ==
    LET done == [t EXCEPT !.inflight = FALSE] IN
    Resume(IF i # None THEN SetTokens(done, i) ELSE SetStatus(done, "reauth-required"), i)

FreeSlots == {s \in Slots : request[s].pc = "idle"}
Send(kind, b, arg) ==
    \E s \in FreeSlots :
        /\ \A r \in FreeSlots : s <= r
        /\ request' = [request EXCEPT ![s] = [NoRequest EXCEPT !.kind = kind, !.from = b, !.arg = arg,
                                                            !.pc = "lookup"]]

\* As if a caller did not look for a refresh in flight.
InFlightIgnored(t) == FALSE

InFlight(t) == t.inflight

\* refreshTokens: concurrent callers share the refresh in flight; without a token the user
\* is asked to sign in; the request may not reach the server.
RefreshTokens(b, t) ==
    \/ InFlight(t) /\ tab' = [tab EXCEPT ![b] = t] /\ UNCHANGED request
    \/ /\ ~InFlight(t) /\ t.pair # None
       /\ Send("refresh", b, t.pair)
       /\ tab' = [tab EXCEPT ![b] = [SetStatus(t, "refreshing") EXCEPT !.inflight = TRUE]]
    \/ /\ ~InFlight(t)
       /\ tab' = [tab EXCEPT ![b] = Answered(t, None)]
       /\ UNCHANGED request

\* The timer fires.
ProactiveRefresh(b) ==
    /\ tab[b].timer /\ tab[b].pair # None /\ token[tab[b].pair].age >= Near
    /\ RefreshTokens(b, [tab[b] EXCEPT !.timer = FALSE])
    /\ UNCHANGED <<challenge, token, keys, stored, history, budget>>

\* The prompt's "Try again" (ReauthPrompt.tsx).
TryAgain(b) ==
    /\ tab[b].status = "reauth-required"
    /\ RefreshTokens(b, tab[b])
    /\ UNCHANGED <<challenge, token, keys, stored, history, budget>>

\* forceLogout: the session ends here first; the server is told if it can be reached.
ForceLogout(b) ==
    /\ tab[b].pair # None \/ tab[b].status # "reauth-required"
    /\ tab' = [tab EXCEPT ![b] = SetStatus(ClearTokens(@), "reauth-required")]
    /\ stored' = None
    /\ \/ tab[b].pair # None /\ Send("logout", b, tab[b].pair)
       \/ UNCHANGED request
    /\ UNCHANGED <<challenge, token, keys, history, budget>>

\* The user closes the prompt.
DismissReauth(b) ==
    /\ tab[b].status = "reauth-required"
    /\ tab' = [tab EXCEPT ![b] = SetStatus(@, IF @.pair # None THEN "authenticated"
                                              ELSE "unauthenticated")]
    /\ UNCHANGED <<challenge, token, keys, request, stored, history, budget>>

\* The page is loaded again: what the module held is gone, the storage is read.
Reload(b) ==
    /\ Spend("faults")
    /\ tab' = [tab EXCEPT ![b] = IF stored = None THEN NewTab
                                     ELSE [SetTokens(NewTab, stored) EXCEPT !.timer = FALSE]]
    /\ request' = [s \in Slots |-> IF request[s].from = b THEN [request[s] EXCEPT !.from = None]
                                   ELSE request[s]]
    /\ UNCHANGED <<challenge, token, keys, stored, history>>

\* Time passes for a pair somebody holds.
Age(i) ==
    /\ Spend("ages")
    /\ token[i].age < Expired
    /\ token' = [token EXCEPT ![i].age = @ + 1]
    /\ UNCHANGED <<challenge, keys, request, tab, stored, history>>

-----------------------------------------------------------------------------
(* An authenticated call (client.ts): apiFetch and getValidAccessToken. *)

\* A token near its expiry is refreshed first.
StartCall(b) ==
    /\ b \in budget.calls
    /\ tab[b].call = "idle" /\ tab[b].pair # None
    /\ IF token[tab[b].pair].age < Near
       THEN /\ tab' = [tab EXCEPT ![b].call = "sent", ![b].sent = tab[b].pair]
            /\ UNCHANGED request
       ELSE RefreshTokens(b, [tab[b] EXCEPT !.call = "waits first"])
    /\ UNCHANGED <<challenge, token, keys, stored, history, budget>>

\* The first refusal of a call is retried, after a refresh.
Retries(b) == tab[b].call = "sent" /\ (tab[b].sent = None \/ ~Verifies(tab[b].sent))

\* The answer of the API.
Reply(b) ==
    /\ tab[b].call \in {"sent", "sent again"}
    /\ IF Retries(b) THEN RefreshTokens(b, [tab[b] EXCEPT !.call = "waits again"])
       ELSE /\ tab' = [tab EXCEPT ![b].call = "idle", ![b].sent = None]
            /\ UNCHANGED request
    /\ UNCHANGED <<challenge, token, keys, stored, history, budget>>

-----------------------------------------------------------------------------
(* The server's requests (auth.service.ts).  A transaction that meets a bound fails. *)

Goto(s, pc) == request' = [request EXCEPT ![s].pc = pc]
AtStep(s, kind, pc) == request[s].kind = kind /\ request[s].pc = pc

\* The answer reaches the tab, unless it was reloaded; i is the token issued, if any.
Respond(s, i) ==
    /\ request' = [request EXCEPT ![s] = NoRequest]
    /\ LET b == request[s].from IN
       IF b = None THEN UNCHANGED <<tab, stored>>
       ELSE CASE request[s].kind = "refresh" ->
                     /\ tab' = [tab EXCEPT ![b] = Answered(@, i)]
                     /\ stored' = IF i # None THEN i ELSE stored
              [] request[s].kind = "verify" /\ i # None ->
                     tab' = [tab EXCEPT ![b] = SetTokens(@, i)] /\ stored' = i
              [] OTHER -> UNCHANGED <<tab, stored>>

\* generateRefreshToken: a new row of a family, with the access token signed after it.
NewToken(f, p) ==
    [family |-> f, parent |-> p, revoked |-> FALSE, age |-> Fresh, kid |-> keys.current]

\* A wallet asks for a challenge (external: the sign-in page).
RequestChallenge(b) ==
    /\ tab[b].pair = None
    /\ Len(challenge) < budget.challenges
    /\ \A s \in Slots : request[s].kind # "challenge" \/ request[s].from # b
    /\ Send("challenge", b, None)
    /\ UNCHANGED <<challenge, token, keys, tab, stored, history, budget>>

Usable(c) == ~challenge[c].used /\ ~challenge[c].expired
UsableChallenges == {c \in DOMAIN challenge : Usable(c)}

\* createChallenge: an unused one is returned, else one is created; under ReadCommitted
\* two requests may each create theirs.
FindChallenge(s) ==
    /\ \E pc \in {"lookup", "txn"} :
           /\ AtStep(s, "challenge", pc)
           /\ IF UsableChallenges # {} THEN Respond(s, None)
              ELSE Goto(s, IF pc = "lookup" THEN "txn" ELSE "commit") /\ UNCHANGED <<tab, stored>>
    /\ UNCHANGED <<challenge, token, keys, history, budget>>

CreateChallenge(s) ==
    /\ AtStep(s, "challenge", "commit")
    /\ challenge' = IF Len(challenge) = budget.challenges THEN challenge
                    ELSE Append(challenge, [used |-> FALSE, expired |-> FALSE])
    /\ Respond(s, None)
    /\ UNCHANGED <<token, keys, history, budget>>

\* A challenge expires; pruneExpiredChallenges deletes it.
PruneChallenge(c) ==
    /\ c \in UsableChallenges
    /\ challenge' = [challenge EXCEPT ![c].expired = TRUE]
    /\ UNCHANGED <<token, keys, request, tab, stored, history, budget>>

\* The wallet signs a challenge and sends it (external: the sign-in page).
SubmitSignature(b, c) ==
    /\ tab[b].pair = None
    /\ \A s \in Slots : request[s].kind # "verify" \/ request[s].from # b
    /\ Send("verify", b, c)
    /\ UNCHANGED <<challenge, token, keys, tab, stored, history, budget>>

\* verifyChallenge: the lookup, then the snapshot of the transaction.
LookUpChallenge(s) ==
    /\ \E pc \in {"lookup", "txn"} :
           /\ AtStep(s, "verify", pc)
           /\ IF ~Usable(request[s].arg) THEN Respond(s, None)
              ELSE Goto(s, IF pc = "lookup" THEN "txn" ELSE "commit") /\ UNCHANGED <<tab, stored>>
    /\ UNCHANGED <<challenge, token, keys, history, budget>>

\* As if the transaction were not isolated.
NeverConflicts(s) == FALSE

\* RepeatableRead: a row that changed since the snapshot aborts the transaction.
Conflicts(s) == ~Usable(request[s].arg)

UseChallenge(s) ==
    /\ AtStep(s, "verify", "commit")
    /\ IF Conflicts(s) \/ Len(token) = budget.tokens THEN Respond(s, None) /\ UNCHANGED <<challenge, token>>
       ELSE /\ challenge' = [challenge EXCEPT ![request[s].arg].used = TRUE]
            /\ token' = Append(token, NewToken(request[s].arg, None))
            /\ Respond(s, Len(token) + 1)
    /\ UNCHANGED <<keys, history, budget>>

\* refreshToken: the lookup, which detects that a revoked token is used again.
LookUpToken(s) ==
    /\ AtStep(s, "refresh", "lookup")
    /\ LET r == token[request[s].arg] IN
       IF r.age = Expired THEN Respond(s, None)
       ELSE Goto(s, IF r.revoked THEN "reuse" ELSE "txn") /\ UNCHANGED <<tab, stored>>
    /\ UNCHANGED <<challenge, token, keys, history, budget>>

\* As if only the presented token were revoked again.
RevokePresented(f, i) == [token EXCEPT ![i].revoked = TRUE]

RevokeFamily(f, i) ==
    [j \in DOMAIN token |-> IF token[j].family = f THEN [token[j] EXCEPT !.revoked = TRUE] ELSE token[j]]

DetectReuse(s) ==
    /\ AtStep(s, "refresh", "reuse")
    /\ LET f == token[request[s].arg].family IN
       /\ token' = RevokeFamily(f, request[s].arg)
       /\ history' = [history EXCEPT !.reused = @ \cup {f}]
    /\ Respond(s, None)
    /\ UNCHANGED <<challenge, keys, budget>>

\* The re-validation inside the transaction.
StillValid(i) == Live(i) /\ token[i].age < Expired

RevalidateToken(s) ==
    /\ AtStep(s, "refresh", "txn")
    /\ IF ~StillValid(request[s].arg) THEN Respond(s, None)
       ELSE /\ request' = [request EXCEPT ![s].pc = "commit", ![s].seen = ~Live(request[s].arg)]
            /\ UNCHANGED <<tab, stored>>
    /\ UNCHANGED <<challenge, token, keys, history, budget>>

\* Its writes: under ReadCommitted they succeed even when the row was revoked since.
RotateToken(s) ==
    /\ AtStep(s, "refresh", "commit")
    /\ LET i == request[s].arg IN
       IF Len(token) = budget.tokens THEN Respond(s, None) /\ UNCHANGED <<token, history>>
       ELSE /\ token' = Append([token EXCEPT ![i].revoked = TRUE], NewToken(token[i].family, i))
            /\ history' = IF token[i].revoked /\ ~request[s].seen
                          THEN [history EXCEPT !.raced = @ \cup {token[i].family}] ELSE history
            /\ Respond(s, Len(token) + 1)
    /\ UNCHANGED <<challenge, keys, budget>>

\* revokeRefreshToken: a token revoked already is left alone, its successors with it.
RevokeRefreshToken(s) ==
    /\ request[s].kind = "logout"
    /\ IF request[s].pc = "lookup" /\ Live(request[s].arg)
       THEN Goto(s, "commit") /\ UNCHANGED <<token, tab, stored>>
       ELSE /\ token' = IF request[s].pc = "commit" THEN [token EXCEPT ![request[s].arg].revoked = TRUE]
                        ELSE token
            /\ Respond(s, None)
    /\ UNCHANGED <<challenge, keys, history, budget>>

\* The connection is lost before the answer arrives.
LoseAnswer(s) ==
    /\ request[s].kind = "refresh" /\ request[s].from # None
    /\ Spend("faults")
    /\ tab' = [tab EXCEPT ![request[s].from] = Answered(@, None)]
    /\ request' = [request EXCEPT ![s].from = None]
    /\ UNCHANGED <<challenge, token, keys, stored, history>>

-----------------------------------------------------------------------------
Init ==
    /\ challenge = <<>> /\ token = <<>>
    /\ keys = [set |-> {1}, current |-> 1]
    /\ request = [s \in Slots |-> NoRequest]
    /\ tab = [b \in Tabs |-> NewTab]
    /\ stored = None
    /\ history = [raced |-> {}, reused |-> {}]
    /\ budget \in Budgets

Serve(s) ==
    \/ FindChallenge(s) \/ CreateChallenge(s) \/ LookUpChallenge(s) \/ UseChallenge(s)
    \/ LookUpToken(s) \/ DetectReuse(s) \/ RevalidateToken(s) \/ RotateToken(s)
    \/ RevokeRefreshToken(s)

\* Nothing is asked for.
Quiet == UNCHANGED vars

Next ==
    \/ \E s \in Slots : Serve(s) \/ LoseAnswer(s)
    \/ \E b \in budget.tabs : \/ RequestChallenge(b) \/ ProactiveRefresh(b) \/ TryAgain(b) \/ ForceLogout(b)
                       \/ DismissReauth(b) \/ Reload(b) \/ StartCall(b) \/ Reply(b)
                       \/ \E c \in UsableChallenges : SubmitSignature(b, c)
    \/ \E c \in DOMAIN challenge : PruneChallenge(c)
    \/ \E i \in DOMAIN token : Age(i)
    \/ AddKey \/ RemoveKey \/ Quiet

\* A request that reached the server is answered, and a call goes on when it can.
Spec == Init /\ [][Next]_vars
             /\ \A s \in Slots : WF_vars(Serve(s))
             /\ \A b \in Tabs : WF_vars(Reply(b))

-----------------------------------------------------------------------------
(* Properties. *)

Rows(max) == None..max
Waiting(t) == t.call \in {"waits first", "waits again"}

TypeOK ==
    /\ Len(challenge) <= budget.challenges /\ Len(token) <= budget.tokens
    /\ \A i \in DOMAIN token : /\ token[i].family \in DOMAIN challenge
                               /\ token[i].age \in Fresh..Expired /\ token[i].kid \in {1, 2}
    /\ keys.current \in keys.set
    /\ \A s \in Slots : /\ request[s].kind \in {"none", "challenge", "verify", "refresh", "logout"}
                        /\ request[s].from \in Tabs \cup {None}
                        /\ request[s].pc \in {"idle", "lookup", "reuse", "txn", "commit"}
    /\ \A b \in Tabs : /\ tab[b].pair \in Rows(Len(token)) /\ tab[b].sent \in Rows(Len(token))
                       /\ tab[b].status \in {"unauthenticated", "authenticated", "refreshing",
                                             "reauth-required"}
    /\ stored \in Rows(Len(token))

\* A signed challenge opens one session, however many requests present it at a time
\* (verifyChallenge: "closing the TOCTOU window").
ChallengeOpensOneSession ==
    \A c \in DOMAIN challenge :
        /\ FamilyOf(c) # {} => challenge[c].used
        /\ Cardinality({i \in FamilyOf(c) : token[i].parent = None}) <= 1

\* Unless two writes overlapped, a family has one live token at most, and none after a
\* reuse was detected: rotation, logout, reloads, lost answers and a second tab with a
\* stale token never leave two.
OneLiveTokenUnlessRaced ==
    \A f \in DOMAIN challenge \ history.raced :
        LET live == {i \in FamilyOf(f) : Live(i)}
        IN  /\ Cardinality(live) <= 1
            /\ f \in history.reused => live = {}

\* The status a tab shows is what it holds, and a call never waits for a refresh
\* that nobody runs.
StatusIsTrue ==
    \A b \in Tabs : LET t == tab[b] IN
        /\ t.status = "authenticated" => t.pair # None
        /\ t.status = "unauthenticated" => t.pair = None
        /\ t.status = "refreshing" \/ Waiting(t) => t.inflight

\* A tab has one refresh under way at most, however many callers asked for it.
SingleFlight ==
    \A b \in Tabs : Cardinality({s \in Slots : request[s].kind = "refresh" /\ request[s].from = b}) <= 1

\* What holds of challenges, tabs and requests at every step.
Safe == TypeOK /\ ChallengeOpensOneSession /\ StatusIsTrue /\ SingleFlight

\* "No sessions are invalidated at any step" of a key rotation (jwt.ts:29): every access
\* token that has not expired verifies.
RotationKeepsSessions ==
    \A i \in DOMAIN token : token[i].age < AccessExpired => Verifies(i)

\* Every call of the API ends, with an answer or an error.
CallsEnd == \A b \in Tabs : tab[b].call # "idle" ~> tab[b].call = "idle"

=============================================================================
