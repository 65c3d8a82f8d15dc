------------------------------ MODULE Accounts -------------------------------
(* User rows and the cache of their public profiles: reads by address, the   *)
(* updates of a creator, deactivation and return, the deletion of an account *)
(* and the names the indexer projects.                                       *)
EXTENDS Integers, FiniteSets

CONSTANTS Users, Requests, Names,
          Ttl,        \* ticks an entry of the cache lives: profile entries take 300 s
          Budgets     \* how often each event may happen

AccountsAssumption ==
    /\ Users # {} /\ Ttl \in Nat \ {0}
    /\ Budgets \subseteq [changes : Nat, reads : Nat, losses : Nat]

Nothing == [name |-> "none", image |-> -1, age |-> 0]   \* no entry

VARIABLES user,     \* each User row: [name, image, active]; image counts what else changes
          entry,    \* the cached profile of each: [name, image, age]
          request,  \* each request: [pc, of, name, seen]
          lagging,  \* users whose entry may lag behind the row: a write that did not clear it,
                    \* or a reader that fills it with what it read before the write
          budget

vars == <<user, entry, request, lagging, budget>>

Spend(what) == budget[what] > 0 /\ budget' = [budget EXCEPT ![what] = @ - 1]

Idle == [pc |-> "idle", of |-> CHOOSE u \in Users : TRUE, name |-> "none", seen |-> Nothing]
View(u) == [name |-> user[u].name, image |-> user[u].image, age |-> 0]
Filling(u) == \E r \in Requests : request[r].pc = "fill" /\ request[r].of = u
Clearing(u) == \E r \in Requests : request[r].pc = "clear" /\ request[r].of = u

TypeOK ==
    /\ user \in [Users -> [name : Names \cup {"none"}, image : Nat, active : BOOLEAN]]
    /\ entry \in [Users -> [name : Names \cup {"none"}, image : Nat \cup {-1}, age : 0 .. Ttl]]
    /\ \A r \in Requests : /\ request[r].pc \in {"idle", "read", "fill", "update", "image",
                                                 "deactivate", "reactivate", "delete", "clear"}
                           /\ request[r].of \in Users
    /\ lagging \subseteq Users

Init ==
    /\ user = [u \in Users |-> [name |-> "none", image |-> 0, active |-> TRUE]]
    /\ entry = [u \in Users |-> Nothing]
    /\ request = [r \in Requests |-> Idle]
    /\ lagging = {}
    /\ budget \in Budgets

Begin(r, u, pc, name) ==
    /\ request[r] = Idle
    /\ request' = [request EXCEPT ![r] = [Idle EXCEPT !.pc = pc, !.of = u, !.name = name]]
    /\ UNCHANGED <<user, entry, lagging>>

End(r) == request' = [request EXCEPT ![r] = Idle]
Go(r, pc) == request' = [request EXCEPT ![r].pc = pc]

-----------------------------------------------------------------------------
(* Reads.  getProfileByAddress answers from the cache (profiles.service.ts:121-124); *)
(* an entry that is there changes nothing.                                           *)

GetProfile(r, u) == entry[u] = Nothing /\ Spend("reads") /\ Begin(r, u, "read", "none")

\* A row that is gone is an error and not cached (126-149)
ReadRow(r) ==
    /\ request[r].pc = "read"
    /\ IF user[request[r].of].active
       THEN request' = [request EXCEPT ![r].pc = "fill", ![r].seen = View(request[r].of)]
       ELSE End(r)
    /\ UNCHANGED <<user, entry, lagging, budget>>

\* setex (153-155)
Fill(r) ==
    /\ request[r].pc = "fill"
    /\ entry' = [entry EXCEPT ![request[r].of] = request[r].seen]
    /\ End(r)
    /\ UNCHANGED <<user, lagging, budget>>

-----------------------------------------------------------------------------
(* Writes: each reads first, then writes, and some clear the cache after it. *)

Taken(u, name) == name # "none" /\ \E v \in Users \ {u} : user[v].name = name
ActiveTaken(u, name) == \E v \in Users \ {u} : user[v].active /\ user[v].name = name

\* updateProfile looks for an active owner of the name (166-182); the picture, and whatever else
\* the request sets, need no look.
BeginUpdate(r, u) ==
    /\ user[u].active /\ Spend("changes")
    /\ \E name \in Names \cup {"none"} :
          /\ name = "none" \/ ~ActiveTaken(u, name)
          /\ Begin(r, u, "update", name)
BeginImage(r, u) == user[u].active /\ Spend("changes") /\ Begin(r, u, "image", "none")
BeginDeactivate(r, u) == user[u].active /\ Spend("changes") /\ Begin(r, u, "deactivate", "none")
BeginReactivate(r, u) == ~user[u].active /\ Spend("changes") /\ Begin(r, u, "reactivate", "none")
BeginDelete(r, u) == user[u].active /\ Spend("changes") /\ Begin(r, u, "delete", "none")

\* Prisma's update is by id and looks at nothing else, an inactive row included
Write(u, row) == user' = [user EXCEPT ![u] = row] /\ UNCHANGED entry

\* A name is unique among all rows, deleted ones too: the update of a name that was taken
\* meanwhile, or by a deleted account, fails (185-216)
UpdateRow(r) ==
    LET u == request[r].of  name == request[r].name IN
    /\ request[r].pc = "update"
    /\ IF Taken(u, name)
       THEN End(r) /\ UNCHANGED <<user, entry>>
       ELSE /\ Write(u, IF name = "none" THEN [user[u] EXCEPT !.image = @ + 1]
                        ELSE [user[u] EXCEPT !.name = name])
            /\ Go(r, "clear")
    /\ UNCHANGED <<lagging, budget>>

ReactivateRow(r) ==
    /\ request[r].pc = "reactivate"
    /\ Write(request[r].of, [user[request[r].of] EXCEPT !.active = TRUE])
    /\ Go(r, "clear")
    /\ UNCHANGED <<lagging, budget>>

\* The transaction of deleteAccount; what it revokes besides is of Sessions and Secrets
DeleteRow(r) ==
    /\ request[r].pc = "delete"
    /\ Write(request[r].of, [user[request[r].of] EXCEPT !.active = FALSE])
    /\ Go(r, "clear")
    /\ UNCHANGED <<lagging, budget>>

\* These leave the entry where it is
Lag(u) == lagging' = IF entry[u] # Nothing \/ Filling(u) THEN lagging \cup {u} ELSE lagging

ImageRow(r) ==
    /\ request[r].pc = "image"
    /\ Write(request[r].of, [user[request[r].of] EXCEPT !.image = @ + 1])
    /\ Lag(request[r].of)
    /\ End(r)
    /\ UNCHANGED budget

DeactivateRow(r) ==
    /\ request[r].pc = "deactivate"
    /\ Write(request[r].of, [user[request[r].of] EXCEPT !.active = FALSE])
    /\ Lag(request[r].of)
    /\ End(r)
    /\ UNCHANGED budget

\* The indexer projects a registration, and tries again when the name is taken
ProjectRegistered(u, name) ==
    /\ ~Taken(u, name) /\ Spend("changes")
    /\ Write(u, [user[u] EXCEPT !.name = name])
    /\ Lag(u)
    /\ UNCHANGED request

\* As if the entry stayed.
ForgetNothing(u) == entry

Forgotten(u) == [entry EXCEPT ![u] = Nothing]

\* redis.del after the write (profiles.service.ts:206, 334, privacy.service.ts:141): the reader
\* that read before it may fill after it.  When redis fails the request does, and the entry stays.
ClearEntry(r) ==
    LET u == request[r].of IN
    /\ request[r].pc = "clear"
    /\ \/ /\ entry' = Forgotten(u)
          /\ lagging' = IF Filling(u) THEN lagging \cup {u} ELSE lagging \ {u}
          /\ UNCHANGED budget
       \/ /\ Spend("losses")
          /\ Lag(u)
          /\ UNCHANGED entry
    /\ End(r)
    /\ UNCHANGED user

-----------------------------------------------------------------------------

\* As if the entries of the cache had no time to live.
Kept(u) == entry[u]

Aged(u) == IF entry[u] = Nothing \/ entry[u].age + 1 >= Ttl THEN Nothing
           ELSE [entry[u] EXCEPT !.age = @ + 1]

\* Time passes while an entry is there; an entry that expires takes its lag with it
Tick ==
    /\ \E u \in Users : entry[u] # Nothing
    /\ entry' = [u \in Users |-> Aged(u)]
    /\ lagging' = {u \in lagging : entry'[u] # Nothing \/ Filling(u)}
    /\ UNCHANGED <<user, request, budget>>

Step(r) ==
    \/ ReadRow(r) \/ Fill(r) \/ UpdateRow(r) \/ ImageRow(r) \/ DeactivateRow(r)
    \/ ReactivateRow(r) \/ DeleteRow(r) \/ ClearEntry(r)
Start(r, u) ==
    \/ GetProfile(r, u) \/ BeginUpdate(r, u) \/ BeginImage(r, u)
    \/ BeginDeactivate(r, u) \/ BeginReactivate(r, u) \/ BeginDelete(r, u)
Serve == \/ \E r \in Requests : Step(r)
         \/ Tick
Quiet == UNCHANGED vars

Next ==
    \/ Serve \/ Quiet
    \/ \E r \in Requests, u \in Users : Start(r, u)
    \/ \E u \in Users, name \in Names : ProjectRegistered(u, name)

Spec == Init /\ [][Next]_vars

-----------------------------------------------------------------------------

Agrees(u) ==
    \/ entry[u] = Nothing
    \/ user[u].active /\ [entry[u] EXCEPT !.age = 0] = View(u)

\* A profile that is served from the cache is that of an active row as it is now, unless its write
\* has yet to clear it, did not (an image, a deactivation, a projected name, a redis that failed), or a
\* reader was crossed by one (profiles.service.ts:118-217, 265-357, privacy.service.ts:141).
ServedIsCurrent == \A u \in Users : u \in lagging \/ Clearing(u) \/ Agrees(u)

\* However the requests crossed, when the changes end the cache becomes right: what no write
\* clears expires (profiles.service.ts:106, 155).
CacheHeals == \A u \in Users : Agrees(u)
=============================================================================
