---------------------------- MODULE BackendProofs ----------------------------
(***************************************************************************)
(* Proofs about the backend around one creator, for every value of the     *)
(* constants of MCBackend: each component has its inductive invariant, and *)
(* the last section puts them together.                                    *)
(***************************************************************************)
EXTENDS MCBackend, SumsProofs, SequenceTheorems

-----------------------------------------------------------------------------
(* The accounts: the cache of public profiles against the rows. *)

Pcs == {"idle", "read", "fill", "update", "image", "deactivate", "reactivate", "delete", "clear"}
Entries == [name : Names \cup {"none"}, image : Nat \cup {-1}, age : 0 .. Ttl]
Rows == [name : Names \cup {"none"}, image : Nat, active : BOOLEAN]
Asked == [pc : Pcs, of : Users \cup {A!Idle.of}, name : Names \cup {"none"}, seen : Entries]

AccountTypes ==
    /\ user \in [Users -> Rows]
    /\ entry \in [Users -> Entries]
    /\ request \in [Requests -> Asked]
    /\ \A r \in Requests : request[r].pc # "idle" => request[r].of \in Users

\* What a reader is about to store is the row as it is now.
ReadersAgree(u) ==
    \A r \in Requests : request[r].pc = "fill" /\ request[r].of = u
                           => user[u].active /\ request[r].seen = A!View(u)

Current(u) == u \in lagging \/ A!Clearing(u) \/ (A!Agrees(u) /\ ReadersAgree(u))

AccountInv == AccountTypes /\ \A u \in Users : Current(u)

-----------------------------------------------------------------------------

LEMMA UsersAndTtl == Users # {} /\ Ttl \in Nat \ {0}
BY Assumptions DEF A!AccountsAssumption

LEMMA NothingIsEntry == A!Nothing \in Entries
<1>1. 0 \in 0 .. Ttl
  BY UsersAndTtl
<1> QED BY <1>1 DEF A!Nothing, Entries

LEMMA IdleAsked == A!Idle \in Asked /\ A!Idle.pc = "idle"
BY NothingIsEntry DEF A!Idle, Asked, Pcs

LEMMA ViewIsEntry == ASSUME AccountTypes, NEW u \in Users PROVE A!View(u) \in Entries /\ A!View(u).age = 0
<1>1. user[u].name \in Names \cup {"none"} /\ user[u].image \in Nat
  BY DEF AccountTypes, Rows
<1>2. 0 \in 0 .. Ttl
  BY UsersAndTtl
<1> QED BY <1>1, <1>2 DEF A!View, Entries

\* A request goes on with the same user, or ends.
LEMMA GoesOn ==
    ASSUME AccountTypes, NEW r \in Requests, NEW pc \in Pcs, request[r].pc # "idle", A!Go(r, pc)
    PROVE  /\ request' \in [Requests -> Asked]
           /\ \A s \in Requests \ {r} : request'[s] = request[s]
           /\ request'[r].pc = pc /\ request'[r].of = request[r].of
<1>1. request \in [Requests -> Asked] /\ request[r] \in Asked
  BY DEF AccountTypes
<1> DEFINE q == [request[r] EXCEPT !.pc = pc]
<1>2. request' = [request EXCEPT ![r] = q]
  BY DEF A!Go
<1>3. q \in Asked /\ q.pc = pc /\ q.of = request[r].of
  BY <1>1 DEF Asked
<1> HIDE DEF q
<1> QED BY <1>1, <1>2, <1>3

LEMMA Ends ==
    ASSUME AccountTypes, NEW r \in Requests, A!End(r)
    PROVE  /\ request' \in [Requests -> Asked]
           /\ \A s \in Requests \ {r} : request'[s] = request[s]
           /\ request'[r].pc = "idle"
BY IdleAsked DEF A!End, AccountTypes

\* A step that concerns one user keeps the others current.
LEMMA Elsewhere ==
    ASSUME NEW u, NEW v \in Users, v # u, Current(v),
           user'[v] = user[v], entry'[v] = entry[v], v \in lagging => v \in lagging',
           \A s \in Requests : \/ request'[s] = request[s]
                               \/ /\ request[s].of = u \/ request[s].pc = "idle"
                                  /\ request'[s].of = u \/ request'[s].pc = "idle"
    PROVE  Current(v)'
<1>1. CASE v \in lagging
  BY <1>1 DEF Current
<1>2. CASE A!Clearing(v)
  <2>1. A!Clearing(v)'
    BY <1>2 DEF A!Clearing
  <2> QED BY <2>1 DEF Current
<1>3. CASE A!Agrees(v) /\ ReadersAgree(v)
  <2>1. A!View(v)' = A!View(v)
    BY DEF A!View
  <2>2. A!Agrees(v)'
    BY <1>3, <2>1 DEF A!Agrees
  <2>3. ReadersAgree(v)'
    BY <1>3, <2>1 DEF ReadersAgree
  <2> QED BY <2>2, <2>3 DEF Current
<1> QED BY <1>1, <1>2, <1>3 DEF Current

\* A write that does not clear the entry leaves it lagging, unless there is none to lag.
LEMMA LagIsNoted ==
    ASSUME NEW u \in Users, A!Lag(u), UNCHANGED entry,
           \A s \in Requests : request'[s].pc = "fill" => request'[s] = request[s]
    PROVE  Current(u)'
<1>1. CASE entry[u] # A!Nothing \/ A!Filling(u)
  BY <1>1 DEF A!Lag, Current
<1>2. CASE entry[u] = A!Nothing /\ ~A!Filling(u)
  <2>1. A!Agrees(u)'
    BY <1>2 DEF A!Agrees
  <2>2. ReadersAgree(u)'
    BY <1>2 DEF A!Filling, ReadersAgree
  <2> QED BY <2>1, <2>2 DEF Current
<1> QED BY <1>1, <1>2

LEMMA LagIsElsewhere ==
    ASSUME NEW u \in Users, A!Lag(u) PROVE \A v \in Users \ {u} : v \in lagging => v \in lagging'
BY DEF A!Lag

\* A row that is written keeps its type.
LEMMA Written ==
    ASSUME AccountTypes, NEW u \in Users, NEW new \in Rows, A!Write(u, new)
    PROVE  /\ user' \in [Users -> Rows] /\ entry' = entry
           /\ \A v \in Users \ {u} : user'[v] = user[v]
BY DEF A!Write, AccountTypes

LEMMA AccountInitInv == A!Init => AccountInv
<1> SUFFICES ASSUME A!Init PROVE AccountInv
  OBVIOUS
<1>1. A!Nothing \in Entries /\ \A u \in Users : user[u] \in Rows
  BY NothingIsEntry DEF A!Init, Rows
<1>2. AccountTypes
  BY <1>1, IdleAsked DEF A!Init, AccountTypes
<1>3. ASSUME NEW u \in Users PROVE Current(u)
  <2>1. A!Agrees(u)
    BY DEF A!Init, A!Agrees
  <2>2. ReadersAgree(u)
    BY IdleAsked DEF A!Init, ReadersAgree
  <2> QED BY <2>1, <2>2 DEF Current
<1> QED BY <1>2, <1>3 DEF AccountInv

-----------------------------------------------------------------------------

\* A step of one request on the row or the entry of its user.
LEMMA StepKeeps ==
    ASSUME AccountInv, NEW r \in Requests, NEW u \in Users, request[r].pc = "idle" \/ request[r].of = u,
           user' \in [Users -> Rows], entry' \in [Users -> Entries], request' \in [Requests -> Asked],
           \A v \in Users \ {u} : user'[v] = user[v] /\ entry'[v] = entry[v]
                                 /\ (v \in lagging => v \in lagging'),
           \A s \in Requests \ {r} : request'[s] = request[s],
           request'[r].pc = "idle" \/ request'[r].of = u,
           Current(u)'
    PROVE  AccountInv'
<1>1. AccountTypes'
  BY DEF AccountInv, AccountTypes
<1>2. ASSUME NEW v \in Users \ {u} PROVE Current(v)'
  <2>1. Current(v)
    BY DEF AccountInv
  <2> QED BY <2>1, Elsewhere
<1> QED BY <1>1, <1>2 DEF AccountInv

\* Requests begin without a change of anything they read or write.
LEMMA BeginKeeps ==
    ASSUME AccountInv, NEW r \in Requests, NEW u \in Users, NEW name \in Names \cup {"none"},
           NEW pc \in Pcs \ {"fill", "clear"}, A!Begin(r, u, pc, name)
    PROVE  AccountInv'
<1> DEFINE q == [A!Idle EXCEPT !.pc = pc, !.of = u, !.name = name]
<1>1. request[r] = A!Idle /\ request' = [request EXCEPT ![r] = q] /\ UNCHANGED <<user, entry, lagging>>
  BY DEF A!Begin
<1>2. q \in Asked /\ q.pc = pc /\ q.of = u
  BY IdleAsked DEF A!Idle, Asked
<1> HIDE DEF q
<1>t. AccountTypes /\ Current(u)
  BY DEF AccountInv
<1>3. /\ request' \in [Requests -> Asked] /\ request'[r] = q
      /\ \A s \in Requests \ {r} : request'[s] = request[s]
  BY <1>1, <1>2, <1>t DEF AccountTypes
<1>4. Current(u)'
  <2>1. A!Clearing(u) => A!Clearing(u)'
    BY <1>1, <1>3, IdleAsked DEF A!Clearing
  <2>2. A!Agrees(u) /\ ReadersAgree(u) => A!Agrees(u)' /\ ReadersAgree(u)'
    BY <1>1, <1>2, <1>3 DEF A!Agrees, ReadersAgree, A!View
  <2> QED BY <1>1, <1>t, <2>1, <2>2 DEF Current
<1>5. request[r].pc = "idle" /\ request'[r].of = u
  BY <1>1, <1>2, <1>3, IdleAsked
<1>6. user' \in [Users -> Rows] /\ entry' \in [Users -> Entries]
  BY <1>1, <1>t DEF AccountTypes
<1> QED BY <1>1, <1>3, <1>4, <1>5, <1>6, StepKeeps

\* What is under way on a user: of its row ...
LEMMA RowWritten ==
    ASSUME AccountInv, NEW r \in Requests, request[r].pc # "idle", NEW new \in Rows,
           A!Write(request[r].of, new), UNCHANGED lagging, A!Go(r, "clear")
    PROVE  AccountInv'
<1>1. AccountTypes /\ request[r].of \in Users
  BY DEF AccountInv, AccountTypes
<1>2. PICK u \in Users : u = request[r].of
  BY <1>1
<1>3. /\ request' \in [Requests -> Asked]
      /\ \A s \in Requests \ {r} : request'[s] = request[s]
      /\ request'[r].pc = "clear" /\ request'[r].of = u
  BY <1>1, <1>2, GoesOn DEF Pcs
<1>4. /\ user' \in [Users -> Rows] /\ entry' = entry
      /\ \A v \in Users \ {u} : user'[v] = user[v]
  BY <1>2, <1>1, Written
<1>5. A!Clearing(u)'
  BY <1>3 DEF A!Clearing
<1>6. Current(u)'
  BY <1>5 DEF Current
<1>7. entry' \in [Users -> Entries]
  BY <1>1, <1>4 DEF AccountTypes
<1>8. \A v \in Users \ {u} : /\ user'[v] = user[v] /\ entry'[v] = entry[v]
                             /\ v \in lagging => v \in lagging'
  BY <1>4
<1>9. request'[r].pc = "idle" \/ request'[r].of = u
  BY <1>3
<1> QED BY <1>1, <1>3, <1>4, <1>6, <1>7, <1>2, <1>8, <1>9, StepKeeps

\* ... or of its row alone, with a note that the entry lags.
LEMMA RowLags ==
    ASSUME AccountInv, NEW r \in Requests, request[r].pc # "idle", NEW new \in Rows,
           A!Write(request[r].of, new), A!Lag(request[r].of), A!End(r)
    PROVE  AccountInv'
<1>1. AccountTypes /\ request[r].of \in Users
  BY DEF AccountInv, AccountTypes
<1>2. PICK u \in Users : u = request[r].of
  BY <1>1
<1>3. /\ request' \in [Requests -> Asked]
      /\ \A s \in Requests \ {r} : request'[s] = request[s]
      /\ request'[r].pc = "idle"
  BY <1>1, Ends
<1>4. /\ user' \in [Users -> Rows] /\ entry' = entry
      /\ \A v \in Users \ {u} : user'[v] = user[v]
  BY <1>2, <1>1, Written
<1>5. entry' \in [Users -> Entries]
  BY <1>1, <1>4 DEF AccountTypes
<1>6. \A s \in Requests : request'[s].pc = "fill" => request'[s] = request[s]
  BY <1>3
<1>7. A!Lag(u)
  BY <1>2
<1>8. Current(u)'
  BY <1>1, <1>4, <1>6, <1>7, LagIsNoted
<1>9. \A v \in Users \ {u} : /\ user'[v] = user[v] /\ entry'[v] = entry[v]
                             /\ v \in lagging => v \in lagging'
  BY <1>1, <1>4, <1>7, LagIsElsewhere
<1> QED BY <1>1, <1>3, <1>4, <1>5, <1>2, <1>8, <1>9, StepKeeps

\* A step of one user's request that leaves the rows and the notes of lag alone.
LEMMA EntryFilled ==
    ASSUME AccountInv, NEW r \in Requests, A!Fill(r) PROVE AccountInv'
<1>1. AccountTypes /\ request[r].of \in Users /\ request[r].pc = "fill" /\ A!End(r)
  BY DEF AccountInv, AccountTypes, A!Fill
<1>2. PICK u \in Users : u = request[r].of
  BY <1>1
<1>3. /\ request' \in [Requests -> Asked]
      /\ \A s \in Requests \ {r} : request'[s] = request[s]
      /\ request'[r].pc = "idle"
  BY <1>1, Ends
<1>4. /\ entry' = [entry EXCEPT ![u] = request[r].seen]
      /\ UNCHANGED <<user, lagging>>
  BY <1>2 DEF A!Fill
<1>5. request[r].seen \in Entries
  BY <1>1 DEF AccountTypes, Asked
<1>6. entry' \in [Users -> Entries] /\ user' \in [Users -> Rows]
  BY <1>1, <1>4, <1>5 DEF AccountTypes
<1>7. \A v \in Users \ {u} : /\ user'[v] = user[v] /\ entry'[v] = entry[v]
                             /\ v \in lagging => v \in lagging'
  BY <1>1, <1>4 DEF AccountTypes
<1>8. Current(u)'
  <2>1. CASE u \in lagging
    BY <1>4, <2>1 DEF Current
  <2>2. CASE A!Clearing(u)
    <3>1. A!Clearing(u)'
      BY <1>1, <1>3, <2>2 DEF A!Clearing
    <3> QED BY <3>1 DEF Current
  <2>3. CASE A!Agrees(u) /\ ReadersAgree(u)
    <3>1. user[u].active /\ request[r].seen = A!View(u) /\ A!View(u)' = A!View(u)
      BY <1>1, <1>2, <1>4, <2>3 DEF ReadersAgree, A!View
    <3>2. entry'[u] = A!View(u)
      BY <1>1, <1>4, <3>1 DEF AccountTypes
    <3>3. [A!View(u) EXCEPT !.age = 0] = A!View(u)
      BY DEF A!View
    <3>4. A!Agrees(u)'
      BY <1>4, <3>1, <3>2, <3>3 DEF A!Agrees
    <3>5. ReadersAgree(u)'
      BY <1>3, <1>4, <2>3, <3>1 DEF ReadersAgree
    <3> QED BY <3>4, <3>5 DEF Current
  <2>4. Current(u)
    BY DEF AccountInv
  <2> QED BY <2>1, <2>2, <2>3, <2>4 DEF Current
<1> QED BY <1>1, <1>2, <1>3, <1>6, <1>7, <1>8, StepKeeps

\* A reader takes what the row is now.
LEMMA RowRead ==
    ASSUME AccountInv, NEW r \in Requests, A!ReadRow(r) PROVE AccountInv'
<1>1. AccountTypes /\ request[r].of \in Users /\ request[r].pc = "read"
  BY DEF AccountInv, AccountTypes, A!ReadRow
<1>2. PICK u \in Users : u = request[r].of
  BY <1>1
<1>3. UNCHANGED <<user, entry, lagging>> /\ Current(u)
  BY DEF A!ReadRow, AccountInv
<1>4. entry' \in [Users -> Entries] /\ user' \in [Users -> Rows]
  BY <1>1, <1>3 DEF AccountTypes
<1>5. \A v \in Users \ {u} : /\ user'[v] = user[v] /\ entry'[v] = entry[v]
                             /\ v \in lagging => v \in lagging'
  BY <1>3
<1>6. A!View(u)' = A!View(u) /\ (A!Agrees(u) => A!Agrees(u)')
  BY <1>3 DEF A!View, A!Agrees
<1>7. CASE user[u].active
  <2> DEFINE q == [request[r] EXCEPT !.pc = "fill", !.seen = A!View(u)]
  <2>1. request' = [request EXCEPT ![r] = q]
    BY <1>1, <1>2, <1>7 DEF A!ReadRow, AccountTypes
  <2>2. A!View(u) \in Entries /\ request[r] \in Asked
    BY <1>1, ViewIsEntry DEF AccountTypes
  <2>3. q \in Asked /\ q.pc = "fill" /\ q.of = u /\ q.seen = A!View(u)
    BY <1>2, <2>2 DEF Asked, Pcs
  <2> HIDE DEF q
  <2>4. /\ request' \in [Requests -> Asked] /\ request'[r] = q
        /\ \A s \in Requests \ {r} : request'[s] = request[s]
    BY <1>1, <2>1, <2>3 DEF AccountTypes
  <2>5. A!Clearing(u) => A!Clearing(u)'
    BY <1>1, <2>4 DEF A!Clearing
  <2>6. ReadersAgree(u) => ReadersAgree(u)'
    BY <1>3, <1>6, <1>7, <2>3, <2>4 DEF ReadersAgree
  <2>7. Current(u)'
    BY <1>3, <1>6, <2>5, <2>6 DEF Current
  <2> QED BY <1>1, <1>2, <1>4, <1>5, <2>3, <2>4, <2>7, StepKeeps
<1>8. CASE ~user[u].active
  <2>1. /\ request' \in [Requests -> Asked]
        /\ \A s \in Requests \ {r} : request'[s] = request[s]
        /\ request'[r].pc = "idle"
    BY <1>1, <1>2, <1>8, Ends DEF A!ReadRow
  <2>2. A!Clearing(u) => A!Clearing(u)'
    BY <1>1, <2>1 DEF A!Clearing
  <2>3. ReadersAgree(u) => ReadersAgree(u)'
    BY <1>3, <1>6, <2>1 DEF ReadersAgree
  <2>4. Current(u)'
    BY <1>3, <1>6, <2>2, <2>3 DEF Current
  <2> QED BY <1>1, <1>2, <1>4, <1>5, <2>1, <2>4, StepKeeps
<1> QED BY <1>7, <1>8

\* The entry of a user is cleared, or redis fails and it lags.
LEMMA EntryCleared ==
    ASSUME AccountInv, NEW r \in Requests, A!ClearEntry(r) PROVE AccountInv'
<1>1. AccountTypes /\ request[r].of \in Users /\ request[r].pc = "clear" /\ A!End(r) /\ UNCHANGED user
  BY DEF AccountInv, AccountTypes, A!ClearEntry
<1>2. PICK u \in Users : u = request[r].of
  BY <1>1
<1>3. /\ request' \in [Requests -> Asked]
      /\ \A s \in Requests \ {r} : request'[s] = request[s]
      /\ request'[r].pc = "idle"
  BY <1>1, Ends
<1>4. user' \in [Users -> Rows] /\ \A v \in Users \ {u} : user'[v] = user[v]
  BY <1>1 DEF AccountTypes
<1>5. CASE entry' = A!Forgotten(u) /\ lagging' = IF A!Filling(u) THEN lagging \cup {u} ELSE lagging \ {u}
  <2>1. /\ entry' \in [Users -> Entries] /\ entry'[u] = A!Nothing
        /\ \A v \in Users \ {u} : entry'[v] = entry[v]
    BY <1>1, <1>5, NothingIsEntry DEF A!Forgotten, AccountTypes
  <2>2. \A v \in Users \ {u} : v \in lagging => v \in lagging'
    BY <1>5
  <2>3. A!Agrees(u)'
    BY <2>1 DEF A!Agrees
  <2>4. ~A!Filling(u) => ReadersAgree(u)'
    BY <1>3 DEF A!Filling, ReadersAgree
  <2>5. Current(u)'
    BY <1>5, <2>3, <2>4 DEF Current
  <2>6. \A v \in Users \ {u} : /\ user'[v] = user[v] /\ entry'[v] = entry[v]
                               /\ v \in lagging => v \in lagging'
    BY <1>4, <2>1, <2>2
  <2> QED BY <1>1, <1>2, <1>3, <1>4, <2>1, <2>5, <2>6, StepKeeps
<1>6. CASE A!Lag(u) /\ UNCHANGED entry
  <2>1. entry' \in [Users -> Entries]
    BY <1>1, <1>6 DEF AccountTypes
  <2>2. \A s \in Requests : request'[s].pc = "fill" => request'[s] = request[s]
    BY <1>3
  <2>3. Current(u)'
    BY <1>6, <2>2, LagIsNoted
  <2>4. \A v \in Users \ {u} : /\ user'[v] = user[v] /\ entry'[v] = entry[v]
                               /\ v \in lagging => v \in lagging'
    BY <1>4, <1>6, LagIsElsewhere
  <2> QED BY <1>1, <1>2, <1>3, <1>4, <2>1, <2>3, <2>4, StepKeeps
<1> QED BY <1>2, <1>5, <1>6 DEF A!ClearEntry

\* The update writes the row, or finds its name taken and ends.
LEMMA RowUpdated ==
    ASSUME AccountInv, NEW r \in Requests, A!UpdateRow(r) PROVE AccountInv'
<1>1. AccountTypes /\ request[r].of \in Users /\ request[r].pc = "update" /\ UNCHANGED lagging
  BY DEF AccountInv, AccountTypes, A!UpdateRow
<1>2. PICK u \in Users : u = request[r].of
  BY <1>1
<1>3. user[u] \in Rows /\ request[r].name \in Names \cup {"none"}
  BY <1>1 DEF AccountTypes, Asked
<1> DEFINE new == IF request[r].name = "none" THEN [user[u] EXCEPT !.image = @ + 1]
                  ELSE [user[u] EXCEPT !.name = request[r].name]
<1>4. new \in Rows
  <2>1. [user[u] EXCEPT !.image = @ + 1] \in Rows
    BY <1>3 DEF Rows
  <2>2. [user[u] EXCEPT !.name = request[r].name] \in Rows
    BY <1>3 DEF Rows
  <2> QED BY <2>1, <2>2
<1>5. CASE A!Taken(u, request[r].name)
  <2>1. A!End(r) /\ UNCHANGED <<user, entry>>
    BY <1>2, <1>5 DEF A!UpdateRow
  <2>2. /\ request' \in [Requests -> Asked]
        /\ \A s \in Requests \ {r} : request'[s] = request[s]
        /\ request'[r].pc = "idle"
    BY <1>1, <2>1, Ends
  <2>3. Current(u)'
    <3>1. Current(u) /\ A!View(u)' = A!View(u) /\ (A!Agrees(u) => A!Agrees(u)')
      BY <2>1 DEF AccountInv, A!View, A!Agrees
    <3>2. A!Clearing(u) => A!Clearing(u)'
      BY <1>1, <2>2 DEF A!Clearing
    <3>3. ReadersAgree(u) => ReadersAgree(u)'
      BY <2>1, <2>2, <3>1 DEF ReadersAgree
    <3> QED BY <1>1, <3>1, <3>2, <3>3 DEF Current
  <2>4. user' \in [Users -> Rows] /\ entry' \in [Users -> Entries]
    BY <1>1, <2>1 DEF AccountTypes
  <2>5. \A v \in Users \ {u} : /\ user'[v] = user[v] /\ entry'[v] = entry[v]
                               /\ v \in lagging => v \in lagging'
    BY <1>1, <2>1
  <2> QED BY <1>1, <1>2, <2>2, <2>3, <2>4, <2>5, StepKeeps
<1>6. CASE ~A!Taken(u, request[r].name)
  <2>1. A!Write(request[r].of, new) /\ A!Go(r, "clear")
    BY <1>2, <1>6 DEF A!UpdateRow
  <2> HIDE DEF new
  <2> QED BY <1>1, <1>4, <2>1, RowWritten
<1> QED BY <1>5, <1>6

\* Time takes entries away and their lag with them; what readers hold stays.
LEMMA TimePasses ==
    ASSUME AccountInv, A!Tick PROVE AccountInv'
<1>1. AccountTypes /\ UNCHANGED <<user, request>>
  BY DEF AccountInv, A!Tick
<1>2. ASSUME NEW u \in Users
      PROVE  /\ entry'[u] \in Entries
             /\ entry'[u] # A!Nothing
                    => /\ entry[u] # A!Nothing
                       /\ [entry'[u] EXCEPT !.age = 0] = [entry[u] EXCEPT !.age = 0]
  <2>1. entry'[u] = A!Aged(u) /\ entry[u] \in Entries
    BY <1>1 DEF A!Tick, AccountTypes
  <2> DEFINE older == [entry[u] EXCEPT !.age = @ + 1]
  <2>2. /\ entry[u].age + 1 < Ttl => older \in Entries
        /\ [older EXCEPT !.age = 0] = [entry[u] EXCEPT !.age = 0]
    <3> DEFINE e == entry[u]
    <3>1. e \in Entries
      BY <2>1
    <3> HIDE DEF e
    <3>2. e.age + 1 < Ttl => [e EXCEPT !.age = @ + 1] \in Entries
      <4>1. e.age + 1 < Ttl => e.age + 1 \in 0 .. Ttl
        BY <3>1, UsersAndTtl DEF Entries
      <4> QED BY <3>1, <4>1 DEF Entries
    <3>3. [[e EXCEPT !.age = @ + 1] EXCEPT !.age = 0] = [e EXCEPT !.age = 0]
      BY <3>1 DEF Entries
    <3> QED BY <3>2, <3>3 DEF e
  <2>3. A!Nothing \in Entries /\ entry[u].age \in Int /\ Ttl \in Int
    BY <2>1, NothingIsEntry, UsersAndTtl DEF Entries
  <2>4. \/ A!Aged(u) = A!Nothing
        \/ entry[u] # A!Nothing /\ A!Aged(u) = older /\ entry[u].age + 1 < Ttl
    BY <2>3 DEF A!Aged
  <2> HIDE DEF older
  <2> QED BY <2>1, <2>2, <2>3, <2>4
<1>3. entry' = [u \in Users |-> entry'[u]]
  BY DEF A!Tick
<1>4. AccountTypes'
  <2>1. entry' \in [Users -> Entries]
    BY <1>2, <1>3
  <2> QED BY <1>1, <2>1 DEF AccountTypes
<1>5. ASSUME NEW u \in Users PROVE Current(u)'
  <2>1. Current(u) /\ A!View(u)' = A!View(u)
    BY <1>1 DEF AccountInv, A!View
  <2>2. CASE u \in lagging /\ (entry'[u] # A!Nothing \/ A!Filling(u))
    BY <2>2 DEF A!Tick, Current
  <2>3. CASE entry'[u] = A!Nothing /\ ~A!Filling(u)
    <3>1. A!Agrees(u)'
      BY <2>3 DEF A!Agrees
    <3>2. ReadersAgree(u)'
      BY <1>1, <2>3 DEF A!Filling, ReadersAgree
    <3> QED BY <3>1, <3>2 DEF Current
  <2>4. CASE A!Clearing(u)
    <3>1. A!Clearing(u)'
      BY <1>1, <2>4 DEF A!Clearing
    <3> QED BY <3>1 DEF Current
  <2>5. CASE A!Agrees(u) /\ ReadersAgree(u)
    <3>1. A!Agrees(u)'
      BY <1>1, <1>2, <2>1, <2>5 DEF A!Agrees
    <3>2. ReadersAgree(u)'
      BY <1>1, <2>1, <2>5 DEF ReadersAgree
    <3> QED BY <3>1, <3>2 DEF Current
  <2> QED BY <2>1, <2>2, <2>3, <2>4, <2>5 DEF Current
<1> QED BY <1>4, <1>5 DEF AccountInv

\* The indexer writes a name and clears nothing.
LEMMA NameProjected ==
    ASSUME AccountInv, NEW u \in Users, NEW name \in Names, A!ProjectRegistered(u, name) PROVE AccountInv'
<1>1. AccountTypes /\ A!Lag(u) /\ UNCHANGED <<entry, request>>
  BY DEF AccountInv, A!ProjectRegistered, A!Write
<1> DEFINE new == [user[u] EXCEPT !.name = name]
<1>2. new \in Rows
  BY <1>1 DEF AccountTypes, Rows
<1>3. A!Write(u, new)
  BY DEF A!ProjectRegistered
<1> HIDE DEF new
<1>4. /\ user' \in [Users -> Rows]
      /\ \A v \in Users \ {u} : user'[v] = user[v]
  BY <1>1, <1>2, <1>3, Written
<1>5. AccountTypes'
  BY <1>1, <1>4 DEF AccountTypes
<1>6. Current(u)'
  BY <1>1, LagIsNoted
<1>7. ASSUME NEW v \in Users \ {u} PROVE Current(v)'
  <2>1. Current(v)
    BY DEF AccountInv
  <2> QED BY <1>1, <1>4, <2>1, LagIsElsewhere, Elsewhere
<1> QED BY <1>5, <1>6, <1>7 DEF AccountInv

-----------------------------------------------------------------------------

LEMMA AccountStartInv ==
    ASSUME AccountInv, NEW r \in Requests, NEW u \in Users, A!Start(r, u) PROVE AccountInv'
<1>1. CASE A!GetProfile(r, u)
  BY <1>1, BeginKeeps DEF A!GetProfile, Pcs
<1>2. CASE A!BeginUpdate(r, u)
  BY <1>2, BeginKeeps DEF A!BeginUpdate, Pcs
<1>3. CASE A!BeginImage(r, u)
  BY <1>3, BeginKeeps DEF A!BeginImage, Pcs
<1>4. CASE A!BeginDeactivate(r, u)
  BY <1>4, BeginKeeps DEF A!BeginDeactivate, Pcs
<1>5. CASE A!BeginReactivate(r, u)
  BY <1>5, BeginKeeps DEF A!BeginReactivate, Pcs
<1>6. CASE A!BeginDelete(r, u)
  BY <1>6, BeginKeeps DEF A!BeginDelete, Pcs
<1> QED BY <1>1, <1>2, <1>3, <1>4, <1>5, <1>6 DEF A!Start

LEMMA AccountStepInv ==
    ASSUME AccountInv, NEW r \in Requests, A!Step(r) PROVE AccountInv'
<1>1. ASSUME request[r].pc # "idle"
      PROVE  /\ [user[request[r].of] EXCEPT !.active = TRUE] \in Rows
             /\ [user[request[r].of] EXCEPT !.active = FALSE] \in Rows
             /\ [user[request[r].of] EXCEPT !.image = @ + 1] \in Rows
  <2> DEFINE new == user[request[r].of]
  <2>1. new \in Rows
    BY <1>1 DEF AccountInv, AccountTypes
  <2> HIDE DEF new
  <2>2. [new EXCEPT !.active = TRUE] \in Rows /\ [new EXCEPT !.active = FALSE] \in Rows
    BY <2>1 DEF Rows
  <2>3. [new EXCEPT !.image = @ + 1] \in Rows
    BY <2>1 DEF Rows
  <2> QED BY <2>2, <2>3 DEF new
<1>2. CASE A!ReadRow(r)
  BY <1>2, RowRead
<1>3. CASE A!Fill(r)
  BY <1>3, EntryFilled
<1>4. CASE A!UpdateRow(r)
  BY <1>4, RowUpdated
<1>5. CASE A!ImageRow(r)
  BY <1>1, <1>5, RowLags DEF A!ImageRow
<1>6. CASE A!DeactivateRow(r)
  BY <1>1, <1>6, RowLags DEF A!DeactivateRow
<1>7. CASE A!ReactivateRow(r)
  BY <1>1, <1>7, RowWritten DEF A!ReactivateRow
<1>8. CASE A!DeleteRow(r)
  BY <1>1, <1>8, RowWritten DEF A!DeleteRow
<1>9. CASE A!ClearEntry(r)
  BY <1>9, EntryCleared
<1> QED BY <1>2, <1>3, <1>4, <1>5, <1>6, <1>7, <1>8, <1>9 DEF A!Step

LEMMA AccountNextInv == AccountInv /\ [A!Next]_(A!vars) => AccountInv'
<1> SUFFICES ASSUME AccountInv, [A!Next]_(A!vars) PROVE AccountInv'
  OBVIOUS
<1>1. CASE UNCHANGED A!vars
  <2>1. AccountTypes'
    BY <1>1 DEF A!vars, AccountInv, AccountTypes
  <2>2. ASSUME NEW u \in Users PROVE Current(u)'
    BY <1>1 DEF A!vars, AccountInv, Current, A!Clearing, A!Agrees, ReadersAgree, A!View
  <2> QED BY <2>1, <2>2 DEF AccountInv
<1>2. ASSUME NEW r \in Requests, A!Step(r) PROVE AccountInv'
  BY <1>2, AccountStepInv
<1>3. CASE A!Tick
  BY <1>3, TimePasses
<1>4. ASSUME NEW r \in Requests, NEW u \in Users, A!Start(r, u) PROVE AccountInv'
  BY <1>4, AccountStartInv
<1>5. ASSUME NEW u \in Users, NEW name \in Names, A!ProjectRegistered(u, name) PROVE AccountInv'
  BY <1>5, NameProjected
<1> QED BY <1>1, <1>2, <1>3, <1>4, <1>5 DEF A!Next, A!Serve, A!Quiet

\* Only users lag.
LEMMA LaggingAreUsers ==
    ASSUME AccountInv, lagging \subseteq Users, [A!Next]_(A!vars)
    PROVE  lagging' \subseteq Users
<1>1. \A r \in Requests : request[r].pc # "idle" => request[r].of \in Users
  BY DEF AccountInv, AccountTypes
<1>2. ASSUME NEW r \in Requests, A!Step(r) PROVE lagging' \subseteq Users
  BY <1>1, <1>2 DEF A!Step, A!ReadRow, A!Fill, A!UpdateRow, A!ImageRow, A!DeactivateRow,
     A!ReactivateRow, A!DeleteRow, A!ClearEntry, A!Lag
<1>3. ASSUME NEW r \in Requests, NEW u \in Users, A!Start(r, u) PROVE lagging' \subseteq Users
  BY <1>3 DEF A!Start, A!GetProfile, A!BeginUpdate, A!BeginImage, A!BeginDeactivate,
     A!BeginReactivate, A!BeginDelete, A!Begin
<1>4. ASSUME NEW u \in Users, NEW name \in Names, A!ProjectRegistered(u, name)
      PROVE  lagging' \subseteq Users
  BY <1>4 DEF A!ProjectRegistered, A!Lag
<1>5. CASE A!Tick \/ A!Quiet \/ UNCHANGED A!vars
  BY <1>5 DEF A!Tick, A!Quiet, A!vars
<1> QED BY <1>2, <1>3, <1>4, <1>5 DEF A!Next, A!Serve

LEMMA AccountsHold ==
    ASSUME AccountInv, lagging \subseteq Users PROVE A!TypeOK /\ A!ServedIsCurrent
<1>1. A!ServedIsCurrent
  BY DEF AccountInv, Current, A!ServedIsCurrent
<1>2. \A r \in Requests : request[r].of \in Users
  <2>1. (CHOOSE u \in Users : TRUE) \in Users
    BY UsersAndTtl
  <2> QED BY <2>1 DEF AccountInv, AccountTypes, Asked, A!Idle
<1>3. /\ user \in [Users -> Rows] /\ entry \in [Users -> Entries]
      /\ \A r \in Requests : request[r].pc \in Pcs
  BY DEF AccountInv, AccountTypes, Asked
<1> QED BY <1>1, <1>2, <1>3 DEF A!TypeOK, Rows, Entries, Pcs

-----------------------------------------------------------------------------
(* The metrics fetched upstream, through their circuit breaker. *)

\* What the breaker counts is what happened; since it opened, the last failure is no older than the
\* opening, so a breaker that was let rest has rested since it opened, unless a call that was under
\* way succeeded meanwhile.
Rested ==
    /\ breaker.failures = record.inARow
    /\ X!OpenForCause
    /\ breaker.state # "CLOSED" /\ ~record.settled => breaker.since <= record.opened
    /\ breaker.state = "HALF_OPEN" /\ ~record.settled => record.opened = Reset

UpstreamTypes ==
    /\ breaker \in [state : {"CLOSED", "OPEN", "HALF_OPEN"}, failures : 0 .. Threshold,
                    since : 0 .. Reset]
    /\ record \in [inARow : 0 .. Threshold, opened : 0 .. Reset, settled : BOOLEAN]
    /\ fetch \in [Requests -> [pc : {"idle", "fetching", "storing"}, attempt : Int, found : BOOLEAN,
                            answer : Int]]
    /\ api \in [up : BOOLEAN, metrics : Int]

UpstreamInv == UpstreamTypes /\ Rested

-----------------------------------------------------------------------------
(* What the breaker's own steps keep. *)

LEMMA SuccessKeeps ==
    ASSUME X!XMetricsAssumption, UpstreamInv, X!Succeed
    PROVE  /\ breaker' \in [state : {"CLOSED", "OPEN", "HALF_OPEN"}, failures : 0 .. Threshold,
                            since : 0 .. Reset]
           /\ record' \in [inARow : 0 .. Threshold, opened : 0 .. Reset, settled : BOOLEAN]
           /\ Rested'
<1>1. /\ breaker' = [state |-> IF breaker.state = "HALF_OPEN" THEN "CLOSED" ELSE breaker.state,
                     failures |-> 0, since |-> Reset]
      /\ record' = [record EXCEPT !.inARow = 0, !.settled = TRUE]
  BY DEF X!Succeed, X!AfterSuccess
<1> DEFINE closed == IF breaker.state = "HALF_OPEN" THEN "CLOSED" ELSE breaker.state
<1>a. closed \in {"CLOSED", "OPEN", "HALF_OPEN"} /\ 0 \in 0 .. Threshold /\ Reset \in 0 .. Reset
  BY DEF X!XMetricsAssumption, UpstreamInv, UpstreamTypes
<1>b. record' = [inARow |-> 0, opened |-> record.opened, settled |-> TRUE]
  BY <1>1 DEF UpstreamInv, UpstreamTypes
<1>c. record.opened \in 0 .. Reset
  BY DEF UpstreamInv, UpstreamTypes
<1>2. /\ breaker' \in [state : {"CLOSED", "OPEN", "HALF_OPEN"}, failures : 0 .. Threshold,
                       since : 0 .. Reset]
      /\ record' \in [inARow : 0 .. Threshold, opened : 0 .. Reset, settled : BOOLEAN]
  <2> HIDE DEF closed
  <2>1. breaker' = [state |-> closed, failures |-> 0, since |-> Reset]
    BY <1>1 DEF closed
  <2> QED BY <1>a, <1>b, <1>c, <2>1
<1>3. breaker'.failures = 0 /\ record'.inARow = 0 /\ record'.settled = TRUE
  BY <1>1 DEF UpstreamInv, UpstreamTypes
<1> QED BY <1>2, <1>3 DEF Rested, X!OpenForCause

LEMMA FailureKeeps ==
    ASSUME X!XMetricsAssumption, UpstreamInv, X!Fail
    PROVE  /\ breaker' \in [state : {"CLOSED", "OPEN", "HALF_OPEN"}, failures : 0 .. Threshold,
                            since : 0 .. Reset]
           /\ record' \in [inARow : 0 .. Threshold, opened : 0 .. Reset, settled : BOOLEAN]
           /\ Rested'
<1> DEFINE n == X!UpTo(Threshold, breaker.failures + 1)
<1>1. /\ n \in 0 .. Threshold /\ n = X!UpTo(Threshold, record.inARow + 1)
      /\ record.inARow = Threshold => n = Threshold
  BY DEF X!XMetricsAssumption, UpstreamInv, UpstreamTypes, Rested, X!UpTo
<1>2. breaker' = [state |-> IF n = Threshold THEN "OPEN" ELSE breaker.state,
                  failures |-> n, since |-> 0]
  BY DEF X!Fail, X!AfterFailure
<1>3. record' = [inARow  |-> n,
                 opened  |-> IF breaker.state # "OPEN" /\ breaker'.state = "OPEN" THEN 0
                             ELSE record.opened,
                 settled |-> IF breaker.state # "OPEN" /\ breaker'.state = "OPEN" THEN FALSE
                             ELSE record.settled]
  BY <1>1 DEF X!Fail
<1> HIDE DEF n
<1>4. /\ breaker'.state = (IF n = Threshold THEN "OPEN" ELSE breaker.state)
      /\ breaker'.failures = n /\ breaker'.since = 0
  BY <1>2
<1>5. /\ record'.inARow = n
      /\ breaker.state # "OPEN" /\ breaker'.state = "OPEN"
            => record'.opened = 0 /\ record'.settled = FALSE
      /\ ~(breaker.state # "OPEN" /\ breaker'.state = "OPEN")
            => record'.opened = record.opened /\ record'.settled = record.settled
  BY <1>3
<1>6. /\ breaker' \in [state : {"CLOSED", "OPEN", "HALF_OPEN"}, failures : 0 .. Threshold,
                       since : 0 .. Reset]
      /\ record' \in [inARow : 0 .. Threshold, opened : 0 .. Reset, settled : BOOLEAN]
  <2> DEFINE opens == breaker.state # "OPEN" /\ breaker'.state = "OPEN"
             at == IF opens THEN 0 ELSE record.opened
             late == IF opens THEN FALSE ELSE record.settled
             state == IF n = Threshold THEN "OPEN" ELSE breaker.state
  <2>1. /\ breaker.state \in {"CLOSED", "OPEN", "HALF_OPEN"} /\ record.settled \in BOOLEAN
        /\ record.opened \in 0 .. Reset /\ Reset \in Nat
    BY DEF X!XMetricsAssumption, UpstreamInv, UpstreamTypes
  <2>2. /\ breaker' = [state |-> state, failures |-> n, since |-> 0]
        /\ record' = [inARow |-> n, opened |-> at, settled |-> late]
    BY <1>2, <1>3
  <2>3. at \in 0 .. Reset /\ 0 \in 0 .. Reset
    BY <2>1
  <2>4. late \in BOOLEAN
    BY <2>1
  <2>5. state \in {"CLOSED", "OPEN", "HALF_OPEN"}
    BY <2>1
  <2> HIDE DEF opens, at, late, state
  <2> QED BY <1>1, <2>2, <2>3, <2>4, <2>5
<1>7. /\ breaker.failures = record.inARow /\ Reset \in Nat
      /\ record.opened \in 0 .. Reset
      /\ breaker.state = "OPEN" => record.inARow = Threshold \/ record.settled
      /\ breaker.state = "HALF_OPEN" /\ ~record.settled => record.opened = Reset
  BY DEF X!XMetricsAssumption, UpstreamInv, UpstreamTypes, Rested, X!OpenForCause
<1>8. breaker'.state = "OPEN" => record'.inARow = Threshold \/ record'.settled
  BY <1>1, <1>4, <1>5, <1>7
<1>9. breaker'.state # "CLOSED" /\ ~record'.settled => breaker'.since <= record'.opened
  BY <1>4, <1>5, <1>7
<1>10. breaker'.state = "HALF_OPEN" /\ ~record'.settled => record'.opened = Reset
  BY <1>4, <1>5, <1>7
<1> QED BY <1>4, <1>5, <1>6, <1>8, <1>9, <1>10 DEF Rested, X!OpenForCause

LEMMA EnterKeeps ==
    ASSUME X!XMetricsAssumption, UpstreamInv, X!MayCall, X!Enter, UNCHANGED record
    PROVE  /\ breaker' \in [state : {"CLOSED", "OPEN", "HALF_OPEN"}, failures : 0 .. Threshold,
                            since : 0 .. Reset]
           /\ Rested'
BY DEF X!XMetricsAssumption, UpstreamInv, UpstreamTypes, X!MayCall, X!Enter, Rested, X!OpenForCause

LEMMA RestGoesOn ==
    ASSUME X!XMetricsAssumption, UpstreamInv, X!Tick
    PROVE  UpstreamInv'
BY DEF X!XMetricsAssumption, UpstreamInv, UpstreamTypes, X!Tick, X!UpTo, Rested, X!OpenForCause

-----------------------------------------------------------------------------

LEMMA UpstreamInitInv == ASSUME X!XMetricsAssumption PROVE X!Init => UpstreamInv
BY DEF X!XMetricsAssumption, X!Init, X!Idle, UpstreamInv, UpstreamTypes, Rested, X!OpenForCause

LEMMA UpstreamNextInv == ASSUME X!XMetricsAssumption PROVE UpstreamInv /\ [X!Next]_(X!vars) => UpstreamInv'
<1> SUFFICES ASSUME UpstreamInv, [X!Next]_(X!vars) PROVE UpstreamInv'
  OBVIOUS
<1>1. ASSUME NEW c \in Requests, NEW found \in BOOLEAN, X!BeginCall(c, found) PROVE UpstreamInv'
  <2>1. fetch' \in [Requests -> [pc : {"idle", "fetching", "storing"}, attempt : Int,
                              found : BOOLEAN, answer : Int]]
    BY <1>1 DEF X!BeginCall, X!Idle, UpstreamInv, UpstreamTypes
  <2> QED BY <1>1, <2>1, EnterKeeps DEF X!BeginCall, UpstreamInv, UpstreamTypes
<1>2. ASSUME NEW c \in Requests, X!TakeAnswer(c) PROVE UpstreamInv'
  <2>1. fetch' \in [Requests -> [pc : {"idle", "fetching", "storing"}, attempt : Int,
                              found : BOOLEAN, answer : Int]]
    BY <1>2 DEF X!TakeAnswer, UpstreamInv, UpstreamTypes
  <2> QED BY <1>2, <2>1, SuccessKeeps DEF X!TakeAnswer, UpstreamInv, UpstreamTypes
<1>3. ASSUME NEW c \in Requests, X!Retry(c) PROVE UpstreamInv'
  BY <1>3 DEF X!Retry, UpstreamInv, UpstreamTypes, Rested, X!OpenForCause
<1>4. ASSUME NEW c \in Requests, X!GiveUp(c) PROVE UpstreamInv'
  <2>1. fetch' \in [Requests -> [pc : {"idle", "fetching", "storing"}, attempt : Int,
                              found : BOOLEAN, answer : Int]]
    BY <1>4 DEF X!GiveUp, X!Idle, UpstreamInv, UpstreamTypes
  <2> QED BY <1>4, <2>1, FailureKeeps DEF X!GiveUp, UpstreamInv, UpstreamTypes
<1>5. ASSUME NEW c \in Requests, X!Store(c) PROVE UpstreamInv'
  BY <1>5 DEF X!Store, X!Idle, UpstreamInv, UpstreamTypes, Rested, X!OpenForCause
<1>6. CASE X!Tick
  BY <1>6, RestGoesOn
<1>7. CASE X!Outage \/ X!Change \/ X!Clear
  <2>1. api' \in [up : BOOLEAN, metrics : Int]
    <3>1. CASE X!Outage
      BY <3>1, Zenon DEF X!Outage, UpstreamInv, UpstreamTypes
    <3>2. CASE X!Change
      BY <3>2 DEF X!Change, UpstreamInv, UpstreamTypes
    <3>3. CASE X!Clear
      BY <3>3 DEF X!Clear, UpstreamInv, UpstreamTypes
    <3> QED BY <1>7, <3>1, <3>2, <3>3
  <2>2. UNCHANGED <<breaker, fetch, record>>
    BY <1>7 DEF X!Outage, X!Change, X!Clear
  <2> QED BY <2>1, <2>2 DEF UpstreamInv, UpstreamTypes, Rested, X!OpenForCause
<1>8. CASE X!Quiet \/ UNCHANGED X!vars
  BY <1>8 DEF X!Quiet, X!vars, UpstreamInv, UpstreamTypes, Rested, X!OpenForCause
<1>9. CASE \E c \in Requests : X!Refresh(c) \/ X!Ask(c) \/ X!FetchInVain(c)
  BY <1>9, <1>1 DEF X!Refresh, X!Ask, X!FetchInVain
<1> QED BY <1>2, <1>3, <1>4, <1>5, <1>6, <1>7, <1>8, <1>9 DEF X!Next, X!Work

-----------------------------------------------------------------------------

\* No call goes out before the breaker has rested, unless one that was under way succeeded.
LEMMA CallsRest ==
    ASSUME UpstreamInv, [X!Next]_(X!vars), NEW c \in Requests PROVE X!RestsWhenOpen(c)
<1> SUFFICES ASSUME fetch[c].pc = "idle", fetch'[c].pc = "fetching", breaker.state # "CLOSED"
             PROVE  record.opened = Reset \/ record.settled
  BY DEF X!RestsWhenOpen
<1>1. ASSUME NEW d \in Requests, NEW found \in BOOLEAN, X!BeginCall(d, found)
      PROVE  record.opened = Reset \/ record.settled
  BY <1>1 DEF X!BeginCall, X!MayCall, UpstreamInv, UpstreamTypes, Rested
<1>2. ASSUME NEW d \in Requests, X!TakeAnswer(d) \/ X!Retry(d) \/ X!GiveUp(d) \/ X!Store(d)
      PROVE  FALSE
  BY <1>2 DEF X!TakeAnswer, X!Retry, X!GiveUp, X!Store, X!Idle, UpstreamInv, UpstreamTypes
<1>3. fetch' # fetch
  OBVIOUS
<1>4. ~(X!Tick \/ X!Outage \/ X!Change \/ X!Clear \/ X!Quiet \/ UNCHANGED X!vars)
  BY <1>3 DEF X!Tick, X!Outage, X!Change, X!Clear, X!Quiet, X!vars
<1> QED BY <1>1, <1>2, <1>4 DEF X!Next, X!Work, X!Refresh, X!Ask, X!FetchInVain

\* What a call holds, or the row, is something the service said.
Answers ==
    /\ api \in [up : BOOLEAN, metrics : Nat]
    /\ fetch \in [Requests -> [pc : {"idle", "fetching", "storing"}, attempt : 0 .. Retries,
                               found : BOOLEAN, answer : Nat]]
    /\ \A c \in Requests : fetch[c].answer <= api.metrics
    /\ account \in Nat /\ account <= api.metrics

LEMMA AnswersInit == X!Init => Answers
<1>1. 0 \in 0 .. Retries
  BY Assumptions DEF X!XMetricsAssumption
<1> QED BY <1>1 DEF X!Init, X!Idle, Answers

LEMMA AnswersNext == ASSUME Answers, [X!Next]_(X!vars) PROVE Answers'
<1> USE DEF Answers
<1>0. Retries \in Nat /\ 0 \in 0 .. Retries
  BY Assumptions DEF X!XMetricsAssumption
<1>1. ASSUME NEW c \in Requests, NEW found \in BOOLEAN, X!BeginCall(c, found) PROVE Answers'
  BY <1>0, <1>1 DEF X!BeginCall, X!Idle
<1>2. ASSUME NEW c \in Requests, X!TakeAnswer(c) PROVE Answers'
  <2> DEFINE q == [fetch[c] EXCEPT !.pc = "storing", !.answer = api.metrics]
  <2>1. fetch' = [fetch EXCEPT ![c] = q] /\ UNCHANGED <<api, account>>
    BY <1>2 DEF X!TakeAnswer
  <2>2. /\ q \in [pc : {"idle", "fetching", "storing"}, attempt : 0 .. Retries,
                  found : BOOLEAN, answer : Nat]
        /\ q.answer = api.metrics
    OBVIOUS
  <2> HIDE DEF q
  <2> QED BY <2>1, <2>2
<1>3. ASSUME NEW c \in Requests, X!Retry(c) PROVE Answers'
  <2> DEFINE q == [fetch[c] EXCEPT !.attempt = @ + 1]
  <2>1. fetch' = [fetch EXCEPT ![c] = q] /\ UNCHANGED <<api, account>> /\ fetch[c].attempt < Retries
    BY <1>3 DEF X!Retry
  <2>2. fetch[c].attempt + 1 \in 0 .. Retries
    BY <1>0, <2>1
  <2>3. /\ q \in [pc : {"idle", "fetching", "storing"}, attempt : 0 .. Retries,
                  found : BOOLEAN, answer : Nat]
        /\ q.answer = fetch[c].answer
    BY <2>2
  <2> HIDE DEF q
  <2> QED BY <2>1, <2>3
<1>4. ASSUME NEW c \in Requests, X!GiveUp(c) PROVE Answers'
  BY <1>0, <1>4 DEF X!GiveUp, X!Idle
<1>5. ASSUME NEW c \in Requests, X!Store(c) PROVE Answers'
  BY <1>0, <1>5 DEF X!Store, X!Idle
<1>6. CASE X!Outage
  <2>1. api' \in [up : BOOLEAN, metrics : Nat]
    BY <1>6, Zenon DEF X!Outage
  <2>2. api'.metrics = api.metrics /\ UNCHANGED <<fetch, account>>
    BY <1>6 DEF X!Outage
  <2> QED BY <2>1, <2>2
<1>7. CASE X!Change
  BY <1>7 DEF X!Change
<1>8. CASE X!Clear
  BY <1>8 DEF X!Clear
<1>9. CASE X!Tick \/ X!Quiet \/ UNCHANGED X!vars
  BY <1>9 DEF X!Tick, X!Quiet, X!vars
<1> QED
  BY <1>1, <1>2, <1>3, <1>4, <1>5, <1>6, <1>7, <1>8, <1>9
     DEF X!Next, X!Work, X!Refresh, X!Ask, X!FetchInVain

-----------------------------------------------------------------------------
(* The refund decisions: requests, submissions and projections that race. *)

Decisions == {"approved", "rejected"}
RowStates == {"none", "pending", "completed"} \cup Decisions

\* A submission carries the row it was checked against, which is still there, and is written
\* after the network has taken it.
DeskInv ==
    /\ desk \in [Requests -> [pc : {"idle", "create", "send", "write"},
                            status : {"none", "pending"} \cup Decisions, seen : RowStates]]
    /\ \A c \in Requests :
          /\ desk[c].pc \in {"send", "write"} =>
                desk[c].status \in Decisions /\ desk[c].seen = "pending" /\ row # "none"
          /\ desk[c].pc = "write" => desk[c].status \in sent

\* A row is created once, because a row that is there never goes away.
RefundRowInv ==
    /\ tip \in {"PENDING", "CONFIRMED", "REFUNDED"}
    /\ row \in RowStates /\ chain \in {"open"} \cup Decisions /\ told \in BOOLEAN
    /\ sent \subseteq Decisions /\ (told => chain = "approved") /\ (row = "completed" => told)
    /\ rows = IF row = "none" THEN 0 ELSE 1
    /\ history \in [crossed : BOOLEAN]

DeskSafe == DeskInv /\ RefundRowInv /\ D!RowFollowsDecisions

LEMMA DeskInitInv == D!Init => DeskSafe
  <1> SUFFICES ASSUME D!Init PROVE DeskSafe
    OBVIOUS
  <1>1. DeskInv
    BY DEF D!Init, DeskInv, RowStates, Decisions, D!Idle
  <1>2. history \in [crossed : BOOLEAN]
    BY Zenon DEF D!Init
  <1>3. RefundRowInv /\ D!RowFollowsDecisions
    BY <1>2 DEF D!Init, RefundRowInv, D!RowFollowsDecisions, RowStates, Decisions
  <1> QED BY <1>1, <1>3 DEF DeskSafe

LEMMA DeskNextInv == DeskSafe /\ [D!Next]_(D!vars) => DeskSafe'
  <1> SUFFICES ASSUME DeskSafe, [D!Next]_(D!vars) PROVE DeskSafe'
    OBVIOUS
  <1> USE DEF DeskSafe, DeskInv, RefundRowInv, D!RowFollowsDecisions, RowStates, Decisions
  <1>1. ASSUME NEW c \in Requests, D!Ask(c) PROVE DeskSafe'
    <2>1. DeskInv'
      BY <1>1 DEF D!Ask
    <2>2. RefundRowInv' /\ D!RowFollowsDecisions'
      BY <1>1 DEF D!Ask
    <2> QED BY <2>1, <2>2
  <1>2. ASSUME NEW c \in Requests, D!Create(c) PROVE DeskSafe'
    <2>1. DeskInv'
      BY <1>2 DEF D!Create, D!End, D!Idle
    <2>2. RefundRowInv' /\ D!RowFollowsDecisions'
      BY <1>2 DEF D!Create, D!Taken
    <2> QED BY <2>1, <2>2
  <1>3. ASSUME NEW c \in Requests, NEW s \in Decisions, D!Resolve(c, s) PROVE DeskSafe'
    <2>1. DeskInv'
      BY <1>3 DEF D!Resolve, D!Resolvable
    <2>2. RefundRowInv' /\ D!RowFollowsDecisions'
      BY <1>3 DEF D!Resolve
    <2> QED BY <2>1, <2>2
  <1>4. ASSUME NEW c \in Requests, D!Send(c) PROVE DeskSafe'
    <2>1. /\ desk' = [desk EXCEPT ![c].pc = "write"] /\ sent' = sent \cup {desk[c].status}
          /\ desk[c].status \in Decisions /\ UNCHANGED <<tip, row, rows, chain, told, history>>
      BY <1>4 DEF D!Send
    <2>2. sent' \subseteq Decisions /\ sent \subseteq sent' /\ desk[c].status \in sent'
      BY <2>1
    <2>3. DeskInv'
      BY <1>4, <2>1, <2>2 DEF D!Send
    <2>4. RefundRowInv' /\ D!RowFollowsDecisions'
      BY <2>1, <2>2
    <2> QED BY <2>3, <2>4
  <1>5. ASSUME NEW c \in Requests, D!Write(c) PROVE DeskSafe'
    \* A row still pending is written by a decision that was submitted; any other is crossed.
    <2>1. /\ desk[c].status \in Decisions /\ desk[c].seen = "pending" /\ desk[c].status \in sent
          /\ row' = desk[c].status /\ UNCHANGED <<tip, rows, sent, chain, told>> /\ row # "none"
          /\ history'.crossed = (history.crossed \/ row # desk[c].seen)
          /\ history' \in [crossed : BOOLEAN]
      BY <1>5 DEF D!Write
    <2>2. DeskInv'
      BY <1>5, <2>1 DEF D!Write, D!End, D!Idle
    <2>3. RefundRowInv'
      BY <2>1
    <2>4. D!RowFollowsDecisions'
      <3>1. SUFFICES ASSUME ~history'.crossed PROVE ~told
        BY <2>1
      <3>2. ~history.crossed /\ row = "pending"
        BY <2>1, <3>1
      <3> QED BY <3>2
    <2> QED BY <2>2, <2>3, <2>4
  <1>6. ASSUME NEW c \in Requests, D!Fail(c) PROVE DeskSafe'
    <2>1. DeskInv'
      BY <1>6 DEF D!Fail, D!End, D!Idle
    <2>2. RefundRowInv' /\ D!RowFollowsDecisions'
      BY <1>6 DEF D!Fail
    <2> QED BY <2>1, <2>2
  <1>7. ASSUME D!AutoApprove \/ \E s \in Decisions : D!Execute(s) PROVE DeskSafe'
    <2>1. /\ chain = "open" /\ chain' \in Decisions
          /\ UNCHANGED <<tip, row, rows, sent, told, desk, history>>
      BY <1>7 DEF D!AutoApprove, D!Execute
    <2>2. DeskInv'
      BY <2>1
    <2>3. RefundRowInv' /\ D!RowFollowsDecisions'
      BY <2>1
    <2> QED BY <2>2, <2>3
  <1>8. CASE D!ProjectRefund
    BY <1>8 DEF D!ProjectRefund
  <1>9. CASE D!ConfirmTip \/ D!Quiet \/ UNCHANGED D!vars
    <2>1. /\ tip' \in {"PENDING", "CONFIRMED", "REFUNDED"}
          /\ UNCHANGED <<row, rows, sent, chain, told, desk, history>>
      BY <1>9 DEF D!ConfirmTip, D!Quiet, D!vars
    <2>2. DeskInv'
      BY <2>1
    <2>3. RefundRowInv' /\ D!RowFollowsDecisions'
      BY <2>1
    <2> QED BY <2>2, <2>3
  <1> QED
    BY <1>1, <1>2, <1>3, <1>4, <1>5, <1>6, <1>7, <1>8, <1>9 DEF D!Next

\* Whatever requests, decisions and projections race, a tip has one refund, and its row
\* says what was submitted or paid.
LEMMA DeskHolds ==
    ASSUME DeskSafe PROVE D!TypeOK /\ D!OneRequest /\ D!RowFollowsDecisions
BY DEF DeskSafe, DeskInv, RefundRowInv, RowStates, Decisions, D!TypeOK, D!OneRequest

-----------------------------------------------------------------------------
(* The API keys. *)

Keys == [current : Nat, previous : Nat, graceUntil : Nat, deleted : BOOLEAN]
Replacements == [overlap : BOOLEAN, answered : Nat, replaced : Nat, until : Nat]

\* Whatever rotations cross, the row is what the last of them wrote: its secret is the one that
\* was answered, and the one it keeps is the one that was read.
SecretInv ==
    /\ clock \in Nat /\ issued \in Nat \ {0}
    /\ key \in Keys /\ history \in Replacements
    /\ rotation \in [Requests -> [pc : {"idle", "write"}, seen : Nat]]
    /\ \A r \in Requests : rotation[r].seen <= issued
    /\ key.current = issued /\ key.previous <= issued
    /\ history.answered = key.current /\ history.replaced = key.previous
    /\ history.until = key.graceUntil

LEMMA SecretInitInv == S!Init => SecretInv
<1> SUFFICES ASSUME S!Init PROVE SecretInv
  OBVIOUS
<1>1. key \in Keys
  BY DEF S!Init, Keys
<1>2. history \in Replacements
  BY DEF S!Init, Replacements
<1>3. rotation \in [Requests -> [pc : {"idle", "write"}, seen : Nat]]
  BY DEF S!Init, S!Idle
<1> QED BY <1>1, <1>2, <1>3 DEF S!Init, S!Idle, SecretInv

LEMMA SecretNextInv == ASSUME SecretInv, [S!Next]_(S!vars) PROVE SecretInv'
<1> DEFINE InFlight == [pc : {"idle", "write"}, seen : Nat]
<1> USE DEF SecretInv
<1>1. ASSUME NEW r \in Requests, S!ReadKey(r) PROVE SecretInv'
  <2>1. /\ rotation' \in [Requests -> InFlight]
        /\ \A o \in Requests : rotation'[o].seen <= issued
    <3> DEFINE q == [pc |-> "write", seen |-> key.current]
    <3>1. q \in InFlight /\ q.seen <= issued
      BY DEF Keys
    <3>2. rotation' = [rotation EXCEPT ![r] = q]
      BY <1>1 DEF S!ReadKey
    <3> HIDE DEF q
    <3> QED BY <3>1, <3>2
  <2>2. /\ history' \in Replacements /\ history'.answered = history.answered
        /\ history'.replaced = history.replaced /\ history'.until = history.until
    <3> DEFINE crossed == history.overlap \/ \E o \in Requests : rotation[o].pc = "write"
    <3>1. history' = [history EXCEPT !.overlap = crossed]
      BY <1>1 DEF S!ReadKey
    <3>2. crossed \in BOOLEAN
      OBVIOUS
    <3> HIDE DEF crossed
    <3> QED BY <3>1, <3>2 DEF Replacements
  <2> QED BY <1>1, <2>1, <2>2 DEF S!ReadKey
<1>2. ASSUME NEW r \in Requests, S!WriteKey(r) PROVE SecretInv'
  <2> DEFINE next == issued + 1
             old == rotation[r].seen
             end == clock + Grace
  <2>1. /\ rotation' = [rotation EXCEPT ![r] = S!Idle]
        /\ issued' = next /\ UNCHANGED <<clock>>
        /\ key' = [key EXCEPT !.current = next, !.previous = old, !.graceUntil = end]
        /\ history' = [history EXCEPT !.answered = next, !.replaced = old, !.until = end]
    BY <1>2 DEF S!WriteKey, S!Rotated
  <2>2. Grace \in Nat
    BY Assumptions DEF S!SecretsAssumption
  <2>3. /\ rotation' \in [Requests -> InFlight]
        /\ \A o \in Requests : rotation'[o].seen <= issued'
    BY <2>1 DEF S!Idle
  <2>4. old \in Nat /\ old <= next /\ end \in Nat /\ next \in Nat \ {0}
    BY <2>2
  <2> HIDE DEF next, old, end
  <2>5. key' \in Keys /\ key'.current = next /\ key'.previous = old /\ key'.graceUntil = end
    BY <2>1, <2>4 DEF Keys
  <2>6. /\ history' \in Replacements /\ history'.answered = next
        /\ history'.replaced = old /\ history'.until = end
    BY <2>1, <2>4 DEF Replacements
  <2> QED BY <2>1, <2>3, <2>4, <2>5, <2>6
<1>3. CASE S!Delete
  BY <1>3 DEF S!Delete, Keys
<1>4. CASE S!Tick
  BY <1>4 DEF S!Tick
<1>5. CASE S!Quiet \/ UNCHANGED S!vars
  BY <1>5 DEF S!Quiet, S!vars
<1> QED BY <1>1, <1>2, <1>3, <1>4, <1>5 DEF S!Next

LEMMA SecretCardinality == ASSUME NEW s PROVE S!Cardinality(s) = Cardinality(s)
BY Zenon DEF S!Cardinality, Cardinality

\* A rotation answers with a secret that works, and at most the one it replaced works beside it.
LEMMA SecretsHold == ASSUME SecretInv PROVE S!TypeOK /\ S!RotationIsGraceful /\ S!OldSecretsDie
<1> USE DEF SecretInv
<1>1. S!TypeOK
  BY DEF S!TypeOK, Keys
<1>2. S!RotationIsGraceful
  BY DEF S!RotationIsGraceful, S!Verifies
<1>3. S!OldSecretsDie
  <2> DEFINE valid == {s \in 1 .. issued : S!Verifies(s)}
  <2>1. valid \subseteq {key.current} \cup (IF clock < key.graceUntil THEN {key.previous} ELSE {})
    BY DEF S!Verifies, Keys
  <2>2. IsFiniteSet({key.current}) /\ Cardinality({key.current}) = 1
    BY FS_Singleton
  <2>3. IsFiniteSet({key.current} \cup {key.previous})
    BY <2>2, FS_AddElement
  <2>4. Cardinality({key.current} \cup {key.previous}) <= 2
    <3>1. Cardinality({key.current} \cup {key.previous})
            = IF key.previous \in {key.current} THEN 1 ELSE 1 + 1
      BY <2>2, FS_AddElement
    <3> QED BY <3>1
  <2>5. key.deleted => valid = {}
    BY DEF S!Verifies
  <2> HIDE DEF valid
  <2>6. CASE clock < key.graceUntil
    <3>1. valid \subseteq {key.current} \cup {key.previous}
      BY <2>1, <2>6
    <3>2. /\ Cardinality(valid) <= Cardinality({key.current} \cup {key.previous})
          /\ Cardinality(valid) \in Nat /\ Cardinality({key.current} \cup {key.previous}) \in Nat
      BY <2>3, <3>1, FS_Subset, FS_CardinalityType
    <3>3. Cardinality(valid) <= 2
      BY <2>4, <3>2
    <3> QED BY <2>5, <2>6, <3>3, SecretCardinality DEF S!OldSecretsDie, valid
  <2>7. CASE ~(clock < key.graceUntil)
    <3>1. valid \subseteq {key.current}
      BY <2>1, <2>7
    <3>2. Cardinality(valid) <= 1
      BY <2>2, <3>1, FS_Subset
    <3> QED BY <2>5, <2>7, <3>2, SecretCardinality DEF S!OldSecretsDie, valid
  <2> QED BY <2>6, <2>7
<1> QED BY <1>1, <1>2, <1>3

-----------------------------------------------------------------------------
(* The tip records: tips, counters, the goal and the streak. *)

Stages == {"idle", "look", "commit", "goal", "read", "write"}
Statuses == {"none", "PENDING", "CONFIRMED", "REFUNDED"}
Streaks == [current : Nat, longest : Nat, last : Nat \cup {-1}, version : Nat]
Posts == [pc : Stages, tx : Tips \cup {"none"}, today : Nat, tries : Nat, seen : Streaks]
Journals == [owed : SUBSET Tips, daily : SUBSET Tips, goalBase : Nat, dayBase : Nat,
             noteBase : Nat, lost : BOOLEAN, late : BOOLEAN, days : SUBSET Nat]

RecordTypes ==
    /\ clock \in Nat /\ raised \in Nat
    /\ tip \in [Tips -> Statuses]
    /\ counted \in [tips : Nat, notes : Nat]
    /\ streak \in Streaks
    /\ call \in [Requests -> Posts]
    /\ history \in Journals
    /\ \A c \in Requests :
          /\ call[c].pc # "idle" => call[c].tx \in Tips
          /\ call[c].tries <= MaxRetries
          /\ call[c].pc # "write" => call[c].tries < MaxRetries

Present == {t \in Tips : tip[t] # "none"}
Due == {t \in Tips : \E c \in Requests : call[c].pc = "goal" /\ call[c].tx = t}

\* What calls recorded since the day's row was replaced is there, however many have the same tip.
Counts ==
    /\ IsFiniteSet(Present) /\ history.daily \subseteq Present
    /\ counted.notes = history.noteBase + Cardinality(Present)
    /\ counted.tips = history.dayBase + Cardinality(history.daily)

\* A tip is due for the goal to the call that recorded it, and to no other.
Raises ==
    /\ IsFiniteSet(history.owed) /\ Due \subseteq history.owed
    /\ ~history.lost =>
          /\ history.owed \subseteq Present
          /\ \A c, d \in Requests :
                call[c].pc = "goal" /\ call[d].pc = "goal" /\ call[c].tx = call[d].tx => c = d
          /\ raised + SetSum(Amount, Due) = history.goalBase + SetSum(Amount, history.owed)

\* n is the length of the longest run of days that ends with d.
IsRun(n, d, days) == n \in 1 .. d + 1 /\ (\A k \in 0 .. n - 1 : d - k \in days) /\ d - n \notin days

\* A version stands for one content of the row, and a call that is about to write has read another
\* day than today; with no late write no day is after the last one.
Versions ==
    /\ streak.last = -1 => streak = T!NoStreak /\ history.days = {}
    /\ streak.last # -1 => streak.version > 0
    /\ \A c \in Requests :
          call[c].pc = "write" =>
             LET seen == call[c].seen IN
             /\ seen.last # call[c].today
             /\ seen.last = -1 => seen = T!NoStreak
             /\ seen.version <= streak.version
             /\ seen.version = streak.version => seen = streak
Runs ==
    ~history.late /\ streak.last # -1 =>
        /\ \A d \in history.days : d <= streak.last
        /\ IsRun(streak.current, streak.last, history.days)

RecordInv == RecordTypes /\ Counts /\ Raises /\ Versions /\ Runs

LEMMA AmountsArePositive == Amount \in [Tips -> Nat \ {0}] /\ MaxRetries \in Nat \ {0}
BY Assumptions DEF T!TipRecordsAssumption

LEMMA ReportsAreNat == GoalReports \subseteq Nat
BY Assumptions DEF T!TipRecordsAssumption

LEMMA PresentAndDue == T!Present = Present /\ T!Due = Due
BY DEF T!Present, Present, T!Due, Due, T!At

LEMMA RecordCardinality == ASSUME NEW s PROVE T!Cardinality(s) = Cardinality(s)
BY Zenon DEF T!Cardinality, Cardinality

LEMMA RecordSums == ASSUME NEW s PROVE T!Sum(s) = SetSum(Amount, s)
BY Zenon DEF T!Sum, T!MapThenSumSet, T!MapThenFoldSet, SetSum, MapThenSumSet, MapThenFoldSet

LEMMA SumsOfTips ==
    ASSUME NEW s \in SUBSET Tips, IsFiniteSet(s)
    PROVE  /\ \A t \in s : Amount[t] \in Nat /\ Amount[t] \in Int
           /\ SetSum(Amount, s) \in Nat
<1>1. \A t \in s : Amount[t] \in Nat
  BY AmountsArePositive
<1> QED BY <1>1, SetSumNat

LEMMA MaxOfTwo == ASSUME NEW a \in Nat, NEW b \in Nat PROVE T!Max({a, b}) \in Nat
<1>1. \E x \in {a, b} : \A y \in {a, b} : x >= y
  OBVIOUS
<1> QED BY <1>1 DEF T!Max

LEMMA RecordInitInv == T!Init => RecordInv
<1> SUFFICES ASSUME T!Init PROVE RecordInv
  OBVIOUS
<1>1. T!NoStreak \in Streaks /\ T!Idle \in Posts /\ T!Idle.pc = "idle" /\ T!Idle.tries = 0
  BY DEF T!NoStreak, Streaks, T!Idle, Posts, Stages
<1>2. history \in Journals /\ counted \in [tips : Nat, notes : Nat]
  BY DEF T!Init, Journals
<1>3. RecordTypes
  BY <1>1, <1>2, AmountsArePositive DEF T!Init, RecordTypes, Statuses
<1>4. Present = {} /\ history.owed = {} /\ history.daily = {} /\ Due = {}
  BY <1>1 DEF T!Init, Present, Due
<1>5. Counts
  BY <1>4, FS_EmptySet DEF T!Init, Counts
<1>6. SetSum(Amount, {}) = 0
  BY FS_EmptySet, SetSumSteps
<1>7. Raises
  BY <1>1, <1>4, <1>6, FS_EmptySet DEF T!Init, Raises
<1>8. Versions
  BY <1>1 DEF T!Init, Versions, T!NoStreak
<1>9. Runs
  BY DEF T!Init, Runs, T!NoStreak
<1> QED BY <1>3, <1>5, <1>7, <1>8, <1>9 DEF RecordInv

-----------------------------------------------------------------------------
(* What a step of one call does to the calls. *)

\* It becomes q, which is not about to raise the goal unless it was.
Becomes(c, q) ==
    /\ call' = [call EXCEPT ![c] = q] /\ q \in Posts
    /\ q.pc # "idle" => q.tx \in Tips
    /\ q.tries <= MaxRetries /\ (q.pc # "write" => q.tries < MaxRetries)

LEMMA OneCall ==
    ASSUME RecordTypes, NEW c \in Requests, NEW q, Becomes(c, q)
    PROVE  /\ call' \in [Requests -> Posts] /\ call'[c] = q
           /\ \A d \in Requests \ {c} : call'[d] = call[d]
           /\ \A d \in Requests : /\ call'[d].pc # "idle" => call'[d].tx \in Tips
                                  /\ call'[d].tries <= MaxRetries
                                  /\ call'[d].pc # "write" => call'[d].tries < MaxRetries
BY DEF RecordTypes, Becomes

LEMMA EndBecomes == ASSUME NEW c \in Requests, T!End(c) PROVE Becomes(c, T!Idle)
<1>1. T!Idle \in Posts /\ T!Idle.pc = "idle" /\ T!Idle.tries = 0
  BY DEF T!NoStreak, Streaks, T!Idle, Posts, Stages
<1> QED BY <1>1, AmountsArePositive DEF T!End, Becomes

LEMMA StepBecomes ==
    ASSUME RecordTypes, NEW c \in Requests, NEW pc \in Stages, T!Step(c, pc),
           call[c].pc # "idle", pc = "write" \/ call[c].tries < MaxRetries
    PROVE  LET q == [call[c] EXCEPT !.pc = pc] IN
           Becomes(c, q) /\ q.pc = pc /\ q.tx = call[c].tx /\ q.seen = call[c].seen
           /\ q.today = call[c].today
<1> DEFINE q == [call[c] EXCEPT !.pc = pc]
<1>1. call[c] \in Posts /\ call' = [call EXCEPT ![c] = q]
  BY DEF RecordTypes, T!Step
<1>2. /\ q \in Posts /\ q.pc = pc /\ q.tx = call[c].tx /\ q.seen = call[c].seen
      /\ q.tries = call[c].tries /\ q.today = call[c].today
  BY <1>1 DEF Posts
<1> HIDE DEF q
<1>3. Becomes(c, q)
  BY <1>1, <1>2 DEF Becomes, RecordTypes
<1> QED BY <1>2, <1>3 DEF q

\* A step of a call that is not due before or after leaves what is due.
LEMMA NothingDue ==
    ASSUME RecordTypes, NEW c \in Requests, NEW q, Becomes(c, q), call[c].pc # "goal", q.pc # "goal"
    PROVE  /\ Due' = Due
           /\ \A d \in Requests : call'[d].pc = "goal" => call'[d] = call[d]
BY OneCall DEF Due

\* A step of a call that is not about to write after it leaves the versions.
LEMMA NothingSeen ==
    ASSUME RecordTypes, Versions, NEW c \in Requests, NEW q, Becomes(c, q), q.pc # "write",
           streak' = streak, history'.days = history.days
    PROVE  Versions'
BY OneCall DEF Versions

LEMMA RunsStay ==
    ASSUME Runs, streak' = streak, history'.days = history.days, history'.late = history.late
    PROVE  Runs'
BY DEF Runs

LEMMA VersionsStay ==
    ASSUME Versions, streak' = streak, history'.days = history.days, call' = call
    PROVE  Versions'
BY DEF Versions

LEMMA RaisesStay ==
    ASSUME Raises, Due' = Due, raised' = raised, history'.owed = history.owed,
           history'.goalBase = history.goalBase, ~history'.lost => ~history.lost,
           Present \subseteq Present',
           \A d \in Requests : call'[d].pc = "goal" => call'[d] = call[d]
    PROVE  Raises'
<1>1. IsFiniteSet(history'.owed) /\ Due' \subseteq history'.owed
  BY DEF Raises
<1>2. ASSUME ~history'.lost
      PROVE  /\ history'.owed \subseteq Present'
             /\ \A c, d \in Requests :
                   call'[c].pc = "goal" /\ call'[d].pc = "goal" /\ call'[c].tx = call'[d].tx => c = d
             /\ raised' + SetSum(Amount, Due') = history'.goalBase + SetSum(Amount, history'.owed)
  BY <1>2 DEF Raises
<1> QED BY <1>1, <1>2 DEF Raises

\* A tip more, in the rows or among those that calls recorded.
LEMMA OneMore ==
    ASSUME RecordTypes, Counts, NEW t \in Tips, tip[t] = "none", NEW st \in Statuses \ {"none"},
           tip' = [tip EXCEPT ![t] = st]
    PROVE  /\ tip' \in [Tips -> Statuses] /\ Present' = Present \cup {t} /\ t \notin Present
           /\ IsFiniteSet(Present') /\ Cardinality(Present') = Cardinality(Present) + 1
           /\ Cardinality(Present) \in Nat
           /\ IsFiniteSet(history.daily \cup {t}) /\ Cardinality(history.daily) \in Nat
           /\ Cardinality(history.daily \cup {t}) = Cardinality(history.daily) + 1
<1>1. tip' \in [Tips -> Statuses] /\ Present' = Present \cup {t} /\ t \notin Present
  BY DEF RecordTypes, Present
<1>2. /\ IsFiniteSet(Present') /\ Cardinality(Present') = Cardinality(Present) + 1
      /\ Cardinality(Present) \in Nat
  BY <1>1, FS_AddElement, FS_CardinalityType DEF Counts
<1>3. IsFiniteSet(history.daily) /\ t \notin history.daily
  BY <1>1, FS_Subset DEF Counts
<1>4. /\ IsFiniteSet(history.daily \cup {t}) /\ Cardinality(history.daily) \in Nat
      /\ Cardinality(history.daily \cup {t}) = Cardinality(history.daily) + 1
  BY <1>3, FS_AddElement, FS_CardinalityType
<1> QED BY <1>1, <1>2, <1>4

LEMMA CountsStay ==
    ASSUME Counts, Present' = Present, counted' = counted, history'.daily = history.daily,
           history'.dayBase = history.dayBase, history'.noteBase = history.noteBase
    PROVE  Counts'
<1>1. IsFiniteSet(Present') /\ history'.daily \subseteq Present'
  BY DEF Counts
<1>2. /\ counted'.notes = history'.noteBase + Cardinality(Present')
      /\ counted'.tips = history'.dayBase + Cardinality(history'.daily)
  BY DEF Counts
<1> QED BY <1>1, <1>2 DEF Counts

\* The fields of the journal that only the rows change.
SameBooks ==
    /\ history'.owed = history.owed /\ history'.daily = history.daily
    /\ history'.goalBase = history.goalBase /\ history'.dayBase = history.dayBase
    /\ history'.noteBase = history.noteBase

\* A step of a call that moves it on and changes no row, or loses the increment of the goal.
LEMMA CallMoves ==
    ASSUME RecordInv, NEW c \in Requests, NEW q, Becomes(c, q), q.pc \notin {"goal", "write"},
           UNCHANGED <<clock, tip, counted, raised, streak>>, history' \in Journals,
           SameBooks, history'.days = history.days,
           history'.late = history.late, history.lost => history'.lost,
           call[c].pc = "goal" => history'.lost
    PROVE  RecordInv'
<1> USE DEF RecordInv
<1>1. RecordTypes'
  BY OneCall DEF RecordTypes
<1>2. Counts' /\ Present' = Present
  BY CountsStay DEF Present, SameBooks
<1>3. Raises'
  <2>1. CASE call[c].pc = "goal"
    <3>1. IsFiniteSet(history'.owed) /\ Due' \subseteq history'.owed
      BY OneCall DEF Due, Raises, SameBooks
    <3> QED BY <2>1, <3>1 DEF Raises
  <2>2. CASE call[c].pc # "goal"
    BY <1>2, <2>2, NothingDue, RaisesStay DEF SameBooks
  <2> QED BY <2>1, <2>2
<1>4. Versions'
  BY NothingSeen
<1>5. Runs'
  BY RunsStay
<1> QED BY <1>1, <1>2, <1>3, <1>4, <1>5

LEMMA Posted == ASSUME RecordInv, NEW c \in Requests, NEW t \in Tips, T!Post(c, t) PROVE RecordInv'
<1> DEFINE q == [call[c] EXCEPT !.pc = "look", !.tx = t]
<1>1. /\ call[c] \in Posts /\ call[c].pc = "idle" /\ call' = [call EXCEPT ![c] = q]
      /\ UNCHANGED <<clock, tip, counted, raised, streak, history>> /\ history \in Journals
  BY DEF T!Post, T!At, RecordInv, RecordTypes
<1>2. q \in Posts /\ q.pc = "look" /\ q.tx = t /\ q.tries = call[c].tries
  BY <1>1 DEF Posts, Stages
<1> HIDE DEF q
<1>3. Becomes(c, q)
  BY <1>1, <1>2 DEF Becomes, RecordInv, RecordTypes
<1> QED BY <1>1, <1>2, <1>3, CallMoves DEF SameBooks

LEMMA LookedUp == ASSUME RecordInv, NEW c \in Requests, T!LookUp(c) PROVE RecordInv'
<1>1. /\ call[c].pc = "look" /\ call[c].tries < MaxRetries
      /\ UNCHANGED <<clock, tip, counted, raised, streak, history>> /\ history \in Journals
      /\ T!Step(c, "commit") \/ T!End(c)
  BY DEF T!LookUp, T!At, RecordInv, RecordTypes
<1>2. CASE T!Step(c, "commit")
  <2>1. PICK q : Becomes(c, q) /\ q.pc = "commit"
    BY <1>1, <1>2, StepBecomes DEF Stages, RecordInv
  <2> QED BY <1>1, <2>1, CallMoves DEF SameBooks
<1>3. CASE T!End(c)
  <2>1. Becomes(c, T!Idle) /\ T!Idle.pc = "idle"
    BY <1>3, EndBecomes DEF T!Idle
  <2> QED BY <1>1, <2>1, CallMoves DEF SameBooks
<1> QED BY <1>1, <1>2, <1>3

LEMMA Stopped == ASSUME RecordInv, NEW c \in Requests, T!Crash(c) PROVE RecordInv'
<1> DEFINE gone == history.lost \/ call[c].pc = "goal"
<1>1. /\ history' = [history EXCEPT !.lost = gone]
      /\ UNCHANGED <<clock, tip, counted, raised, streak>> /\ history \in Journals
  BY DEF T!Crash, T!At, RecordInv, RecordTypes
<1>2. gone \in BOOLEAN
  OBVIOUS
<1> HIDE DEF gone
<1>3. /\ history' \in Journals /\ history'.lost = gone
      /\ SameBooks /\ history'.days = history.days
      /\ history'.late = history.late
  BY <1>1, <1>2 DEF Journals, SameBooks
<1>4. Becomes(c, T!Idle) /\ T!Idle.pc = "idle"
  BY EndBecomes DEF T!Idle, T!Crash
<1> QED BY <1>1, <1>3, <1>4, CallMoves DEF gone

\* The transaction inserts a tip that is then due for the goal to this call alone, or finds it there.
LEMMA Committed == ASSUME RecordInv, NEW c \in Requests, T!Commit(c) PROVE RecordInv'
<1>1. /\ call[c].pc = "commit" /\ call[c].tries < MaxRetries /\ call[c].tx \in Tips
      /\ UNCHANGED <<clock, raised, streak>> /\ history \in Journals
  BY DEF T!Commit, T!At, RecordInv, RecordTypes
<1>2. CASE T!End(c) /\ UNCHANGED <<tip, counted, history>>
  <2>1. Becomes(c, T!Idle) /\ T!Idle.pc = "idle"
    BY <1>2, EndBecomes DEF T!Idle
  <2> QED BY <1>1, <1>2, <2>1, CallMoves DEF SameBooks
<1>3. CASE tip[call[c].tx] = "none" /\ T!Insert(call[c].tx) /\ T!Step(c, "goal")
  <2>1. PICK t \in Tips : t = call[c].tx
    BY <1>1
  <2>2. PICK q : Becomes(c, q) /\ q.pc = "goal" /\ q.tx = t
    BY <1>1, <1>3, <2>1, StepBecomes DEF Stages, RecordInv
  <2>3. /\ tip[t] = "none" /\ tip' = [tip EXCEPT ![t] = "PENDING"]
        /\ counted' = [counted EXCEPT !.tips = @ + 1, !.notes = @ + 1]
        /\ history' = [history EXCEPT !.owed = @ \cup {t}, !.daily = @ \cup {t}]
    BY <1>3, <2>1 DEF T!Insert
  <2>4. /\ tip' \in [Tips -> Statuses] /\ Present' = Present \cup {t} /\ t \notin Present
        /\ IsFiniteSet(Present') /\ Cardinality(Present') = Cardinality(Present) + 1
        /\ Cardinality(Present) \in Nat
        /\ IsFiniteSet(history.daily \cup {t}) /\ Cardinality(history.daily) \in Nat
        /\ Cardinality(history.daily \cup {t}) = Cardinality(history.daily) + 1
    BY <2>3, OneMore DEF Statuses, RecordInv
  <2>5. /\ counted' \in [tips : Nat, notes : Nat]
        /\ counted'.tips = counted.tips + 1 /\ counted'.notes = counted.notes + 1
    <3>1. counted \in [tips : Nat, notes : Nat]
      BY DEF RecordInv, RecordTypes
    <3>2. counted' = [tips |-> counted.tips + 1, notes |-> counted.notes + 1]
      BY <2>3, <3>1
    <3>3. counted.tips + 1 \in Nat /\ counted.notes + 1 \in Nat
      BY <3>1
    <3> QED BY <3>2, <3>3
  <2>6. /\ history' \in Journals /\ history'.owed = history.owed \cup {t}
        /\ history'.daily = history.daily \cup {t} /\ history'.goalBase = history.goalBase
        /\ history'.dayBase = history.dayBase /\ history'.noteBase = history.noteBase
        /\ history'.lost = history.lost /\ history'.late = history.late
        /\ history'.days = history.days
    BY <1>1, <2>3 DEF Journals
  <2>7. RecordTypes'
    BY <1>1, <2>2, <2>4, <2>5, <2>6, OneCall DEF RecordInv, RecordTypes
  <2>8. Counts'
    <3>1. IsFiniteSet(Present') /\ history'.daily \subseteq Present'
      BY <2>4, <2>6 DEF RecordInv, Counts
    <3>2. history.noteBase \in Nat /\ history.dayBase \in Nat
      BY <1>1 DEF Journals
    <3>3. /\ counted'.notes = history'.noteBase + Cardinality(Present')
          /\ counted'.tips = history'.dayBase + Cardinality(history'.daily)
      BY <2>4, <2>5, <2>6, <3>2 DEF RecordInv, Counts
    <3> QED BY <3>1, <3>3 DEF Counts
  <2>9. Due' = Due \cup {t}
    BY <1>1, <2>2, OneCall DEF Due, RecordInv
  <2>10. Raises'
    <3>1. IsFiniteSet(history'.owed) /\ Due' \subseteq history'.owed
      BY <2>6, <2>9, FS_AddElement DEF RecordInv, Raises
    <3>2. ASSUME ~history'.lost
          PROVE  /\ history'.owed \subseteq Present'
                 /\ \A d, e \in Requests : call'[d].pc = "goal" /\ call'[e].pc = "goal"
                                               /\ call'[d].tx = call'[e].tx => d = e
                 /\ raised' + SetSum(Amount, Due') = history'.goalBase + SetSum(Amount, history'.owed)
      <4>1. /\ IsFiniteSet(history.owed) /\ Due \subseteq history.owed
            /\ history.owed \subseteq Present
            /\ raised + SetSum(Amount, Due) = history.goalBase + SetSum(Amount, history.owed)
            /\ \A d, e \in Requests : call[d].pc = "goal" /\ call[e].pc = "goal"
                                          /\ call[d].tx = call[e].tx => d = e
        BY <2>6, <3>2 DEF RecordInv, Raises
      <4>2. t \notin history.owed /\ t \notin Due
        BY <2>4, <4>1
      <4>3. \A d \in Requests \ {c} : call'[d] = call[d] /\ (call[d].pc = "goal" => call[d].tx # t)
        BY <2>2, <4>2, OneCall DEF Due, RecordInv
      <4>4. \A d, e \in Requests : call'[d].pc = "goal" /\ call'[e].pc = "goal"
                                      /\ call'[d].tx = call'[e].tx => d = e
        BY <2>2, <4>1, <4>3, OneCall DEF RecordInv
      <4>5. IsFiniteSet(Due) /\ Due \subseteq Tips /\ history.owed \subseteq Tips
        BY <1>1, <4>1, FS_Subset DEF Journals
      <4>6. /\ \A y \in Due \cup {t} : Amount[y] \in Int
            /\ \A y \in history.owed \cup {t} : Amount[y] \in Int
        BY <4>5, AmountsArePositive
      <4>7. SetSum(Amount, Due') = Amount[t] + SetSum(Amount, Due)
        BY <2>9, <4>2, <4>5, <4>6, SetSumAdds
      <4>8. SetSum(Amount, history'.owed) = Amount[t] + SetSum(Amount, history.owed)
        BY <2>6, <4>1, <4>2, <4>6, SetSumAdds
      <4>9. /\ SetSum(Amount, Due) \in Nat /\ SetSum(Amount, history.owed) \in Nat
            /\ Amount[t] \in Nat /\ raised \in Nat /\ raised' = raised /\ history.goalBase \in Nat
        BY <1>1, <4>1, <4>5, SumsOfTips, AmountsArePositive DEF RecordInv, RecordTypes, Journals
      <4>10. raised' + SetSum(Amount, Due') = history'.goalBase + SetSum(Amount, history'.owed)
        BY <2>6, <4>1, <4>7, <4>8, <4>9
      <4> QED BY <2>4, <2>6, <4>1, <4>4, <4>10
    <3> QED BY <3>1, <3>2 DEF Raises
  <2>11. Versions'
    BY <1>1, <2>2, <2>6, NothingSeen DEF RecordInv
  <2>12. Runs'
    BY <1>1, <2>6, RunsStay DEF RecordInv
  <2> QED BY <2>7, <2>8, <2>10, <2>11, <2>12 DEF RecordInv
<1>4. CASE tip[call[c].tx] # "none" /\ T!Insert(call[c].tx) /\ T!End(c)
  BY <1>2, <1>4 DEF T!Insert
<1> QED BY <1>2, <1>3, <1>4 DEF T!Commit

\* What was due is in the goal, or is lost.
LEMMA GoalRaised == ASSUME RecordInv, NEW c \in Requests, T!RaiseGoal(c) PROVE RecordInv'
<1> DEFINE q == [call[c] EXCEPT !.pc = "read", !.today = clock]
<1>1. /\ call[c].pc = "goal" /\ call[c].tx \in Tips /\ call[c] \in Posts /\ clock \in Nat
      /\ call[c].tries < MaxRetries /\ history \in Journals
      /\ call' = [call EXCEPT ![c] = q] /\ UNCHANGED <<clock, tip, counted, streak>>
  BY DEF T!RaiseGoal, T!At, RecordInv, RecordTypes
<1>2. q \in Posts /\ q.pc = "read" /\ q.tx = call[c].tx /\ q.tries = call[c].tries
  BY <1>1 DEF Posts, Stages
<1> HIDE DEF q
<1>3. Becomes(c, q)
  <2>1. q.tries \in Nat /\ q.tries < MaxRetries /\ q.tries <= MaxRetries
    BY <1>1, <1>2, AmountsArePositive DEF Posts
  <2> QED BY <1>1, <1>2, <2>1 DEF Becomes
<1>4. CASE history' = [history EXCEPT !.lost = TRUE] /\ UNCHANGED raised
  <2>1. /\ history' \in Journals /\ SameBooks /\ history'.days = history.days
        /\ history'.late = history.late /\ history'.lost
    BY <1>1, <1>4 DEF Journals, SameBooks
  <2> QED BY <1>1, <1>2, <1>3, <1>4, <2>1, CallMoves
<1>5. CASE raised' = raised + Amount[call[c].tx] /\ UNCHANGED history
  <2>1. PICK t \in Tips : t = call[c].tx
    BY <1>1
  <2>2. Amount[t] \in Nat /\ raised \in Nat /\ raised' = raised + Amount[t] /\ raised' \in Nat
    BY <1>5, <2>1, AmountsArePositive DEF RecordInv, RecordTypes
  <2>3. Due' \subseteq Due /\ t \in Due /\ (~history.lost => Due' = Due \ {t})
    <3>1. \A d \in Requests \ {c} : call'[d] = call[d]
      BY <1>3, OneCall DEF RecordInv
    <3>2. call'[c].pc # "goal"
      BY <1>2, <1>3, OneCall DEF RecordInv
    <3>3. t \in Due /\ Due' \subseteq Due
      BY <1>1, <2>1, <3>1, <3>2 DEF Due
    <3>4. ASSUME ~history.lost PROVE Due' = Due \ {t}
      <4>1. \A d \in Requests : call[d].pc = "goal" /\ call[d].tx = t => d = c
        BY <1>1, <2>1, <3>4 DEF RecordInv, Raises
      <4>2. \A x \in Tips : x \in Due' <=> x \in Due \ {t}
        BY <1>1, <2>1, <3>1, <3>2, <4>1 DEF Due
      <4> QED BY <4>2 DEF Due
    <3> QED BY <3>3, <3>4
  <2>4. RecordTypes'
    BY <1>1, <1>3, <1>5, <2>2, OneCall DEF RecordInv, RecordTypes
  <2>5. Counts'
    BY <1>1, <1>5, CountsStay DEF RecordInv, Present
  <2>6. Raises'
    <3>1. IsFiniteSet(history'.owed) /\ Due' \subseteq history'.owed
      BY <1>5, <2>3 DEF RecordInv, Raises
    <3>2. ASSUME ~history'.lost
          PROVE  /\ history'.owed \subseteq Present'
                 /\ \A d, e \in Requests : call'[d].pc = "goal" /\ call'[e].pc = "goal"
                                               /\ call'[d].tx = call'[e].tx => d = e
                 /\ raised' + SetSum(Amount, Due') = history'.goalBase + SetSum(Amount, history'.owed)
      <4>1. /\ ~history.lost /\ history.owed \subseteq Present /\ Present' = Present
            /\ raised + SetSum(Amount, Due) = history.goalBase + SetSum(Amount, history.owed)
            /\ \A d, e \in Requests : call[d].pc = "goal" /\ call[e].pc = "goal"
                                          /\ call[d].tx = call[e].tx => d = e
        BY <1>1, <1>5, <3>2 DEF RecordInv, Raises, Present
      <4>2. \A d, e \in Requests : call'[d].pc = "goal" /\ call'[e].pc = "goal"
                                      /\ call'[d].tx = call'[e].tx => d = e
        BY <1>2, <1>3, <4>1, OneCall DEF RecordInv
      <4>3. /\ IsFiniteSet(Due) /\ \A y \in Due : Amount[y] \in Int
            /\ SetSum(Amount, history.owed) \in Nat /\ history.goalBase \in Nat
        <5>1. IsFiniteSet(history.owed) /\ history.owed \subseteq Tips /\ history.goalBase \in Nat
          BY <1>1 DEF RecordInv, Raises, Journals
        <5>2. IsFiniteSet(Due) /\ Due \subseteq Tips
          BY <5>1, FS_Subset DEF RecordInv, Raises, Due
        <5> QED BY <5>1, <5>2, SumsOfTips, AmountsArePositive
      <4>4. SetSum(Amount, Due) = Amount[t] + SetSum(Amount, Due')
        BY <2>3, <4>1, <4>3, SetSumTakes
      <4>5. SetSum(Amount, Due') \in Int
        <5>1. IsFiniteSet(Due') /\ \A y \in Due' : Amount[y] \in Int
          BY <2>3, <4>3, FS_Subset
        <5> QED BY <5>1, SetSumSteps
      <4>6. raised' + SetSum(Amount, Due') = history'.goalBase + SetSum(Amount, history'.owed)
        BY <1>5, <2>2, <4>1, <4>3, <4>4, <4>5
      <4> QED BY <1>5, <4>1, <4>2, <4>6
    <3> QED BY <3>1, <3>2 DEF Raises
  <2>7. Versions' /\ Runs'
    BY <1>1, <1>2, <1>3, <1>5, NothingSeen, RunsStay DEF RecordInv
  <2> QED BY <2>4, <2>5, <2>6, <2>7 DEF RecordInv
<1> QED BY <1>4, <1>5 DEF T!RaiseGoal, T!Increment

\* A call that finds the day counted ends; another takes the row as it is.
LEMMA StreakRead == ASSUME RecordInv, NEW c \in Requests, T!ReadStreak(c) PROVE RecordInv'
<1>1. /\ call[c].pc = "read" /\ call[c].tx \in Tips /\ call[c] \in Posts /\ streak \in Streaks
      /\ call[c].tries < MaxRetries /\ call[c].tries \in Nat /\ history \in Journals
      /\ UNCHANGED <<clock, tip, counted, raised, streak, history>>
  BY DEF T!ReadStreak, T!At, RecordInv, RecordTypes, Posts
<1>2. CASE T!End(c)
  <2>1. Becomes(c, T!Idle) /\ T!Idle.pc = "idle"
    BY <1>2, EndBecomes DEF T!Idle
  <2> QED BY <1>1, <2>1, CallMoves DEF SameBooks
<1>3. CASE ~T!End(c)
  <2> DEFINE q == [call[c] EXCEPT !.pc = "write", !.seen = streak, !.tries = @ + 1]
  <2>1. streak.last # call[c].today /\ call' = [call EXCEPT ![c] = q]
    BY <1>1, <1>3 DEF T!ReadStreak
  <2>2. call[c].tries + 1 \in Nat /\ call[c].tries + 1 <= MaxRetries
    BY <1>1, AmountsArePositive
  <2>3. /\ q \in Posts /\ q.pc = "write" /\ q.tx = call[c].tx /\ q.seen = streak
        /\ q.today = call[c].today /\ q.tries <= MaxRetries
    BY <1>1, <2>2 DEF Posts, Stages
  <2> HIDE DEF q
  <2>4. Becomes(c, q)
    BY <1>1, <2>1, <2>3 DEF Becomes
  <2>5. RecordTypes'
    BY <1>1, <2>4, OneCall DEF RecordInv, RecordTypes
  <2>6. Counts'
    BY <1>1, CountsStay DEF RecordInv, Present
  <2>7. Raises'
    BY <1>1, <2>3, <2>4, NothingDue, RaisesStay DEF RecordInv, Present
  <2>8. Versions'
    <3>1. /\ streak' = streak /\ history' = history /\ call'[c] = q
          /\ \A d \in Requests \ {c} : call'[d] = call[d]
      BY <1>1, <2>4, OneCall DEF RecordInv
    <3>2. streak.version \in Nat /\ streak.version <= streak.version
      BY <1>1 DEF Streaks
    <3>3. /\ q.seen.last # q.today /\ (q.seen.last = -1 => q.seen = T!NoStreak)
          /\ q.seen.version <= streak.version
          /\ (q.seen.version = streak.version => q.seen = streak)
      BY <2>1, <2>3, <3>2 DEF RecordInv, Versions
    <3> QED BY <3>1, <3>3 DEF RecordInv, Versions
  <2>9. Runs'
    BY <1>1, RunsStay DEF RecordInv
  <2> QED BY <2>5, <2>6, <2>7, <2>8, <2>9 DEF RecordInv
<1> QED BY <1>2, <1>3

\* The next day goes on with the run; a later one begins another.
LEMMA RunGoesOn ==
    ASSUME NEW n \in Nat, NEW d \in Nat, NEW days \in SUBSET Nat, IsRun(n, d, days)
    PROVE  IsRun(n + 1, d + 1, days \cup {d + 1})
<1>1. n + 1 \in 1 .. (d + 1) + 1
  BY DEF IsRun
<1>2. ASSUME NEW k \in 0 .. (n + 1) - 1 PROVE (d + 1) - k \in days \cup {d + 1}
  <2>1. CASE k = 0
    BY <2>1
  <2>2. CASE k # 0
    <3>1. k - 1 \in 0 .. n - 1 /\ (d + 1) - k = d - (k - 1)
      BY <2>2
    <3> QED BY <3>1 DEF IsRun
  <2> QED BY <2>1, <2>2
<1>3. (d + 1) - (n + 1) \notin days \cup {d + 1}
  BY DEF IsRun
<1> QED BY <1>1, <1>2, <1>3 DEF IsRun

LEMMA RunBegins ==
    ASSUME NEW d \in Nat, NEW days \in SUBSET Nat, d - 1 \notin days
    PROVE  IsRun(1, d, days \cup {d})
BY DEF IsRun

\* The longest run is what the property takes for it.
LEMMA RunIsMax ==
    ASSUME NEW n, NEW d \in Nat, history.days \in SUBSET Nat, IsRun(n, d, history.days)
    PROVE  T!RunLength(d) = n
<1> DEFINE lengths == {m \in 1 .. (d + 1) : \A k \in 0 .. (m - 1) : (d - k) \in history.days}
<1>1. n \in lengths
  BY DEF IsRun
<1>2. ASSUME NEW m \in lengths PROVE n >= m
  <2>1. SUFFICES ASSUME n < m PROVE FALSE
    BY DEF IsRun
  <2>2. n \in 0 .. (m - 1)
    BY <2>1 DEF IsRun
  <2> QED BY <2>2 DEF IsRun
<1>3. \A m \in lengths : m \in Int
  OBVIOUS
<1> HIDE DEF lengths
<1>4. T!Max(lengths) = n
  BY <1>1, <1>2, <1>3 DEF T!Max
<1> QED BY <1>4 DEF T!RunLength, lengths

\* A write that goes through writes over the row it has read.
LEMMA StreakWritten ==
    ASSUME RecordInv, NEW c \in Requests, T!WriteStreak(c) PROVE RecordInv'
<1>1. /\ call[c].pc = "write" /\ call[c].tx \in Tips /\ call[c] \in Posts /\ streak \in Streaks
      /\ call[c].tries <= MaxRetries /\ history \in Journals
      /\ UNCHANGED <<clock, tip, counted, raised>>
  BY DEF T!WriteStreak, T!At, RecordInv, RecordTypes
<1>2. CASE T!End(c) /\ UNCHANGED <<streak, history>>
  <2>1. Becomes(c, T!Idle) /\ T!Idle.pc = "idle"
    BY <1>2, EndBecomes DEF T!Idle
  <2> QED BY <1>1, <1>2, <2>1, CallMoves DEF SameBooks
<1>3. CASE T!Step(c, "read") /\ call[c].tries < MaxRetries /\ UNCHANGED <<streak, history>>
  <2>1. PICK q : Becomes(c, q) /\ q.pc = "read"
    BY <1>1, <1>3, StepBecomes DEF Stages, RecordInv
  <2> QED BY <1>1, <1>3, <2>1, CallMoves DEF SameBooks
<1>4. CASE T!SameVersion(call[c].seen) /\ T!End(c)
  <2>1. PICK day \in Nat : day = call[c].today
    BY <1>1 DEF Posts
  <2>2. /\ call[c].seen.last # day
        /\ call[c].seen.last = -1 => call[c].seen = T!NoStreak
        /\ call[c].seen.version <= streak.version
        /\ call[c].seen.version = streak.version => call[c].seen = streak
        /\ streak.last = -1 => streak = T!NoStreak /\ history.days = {}
    BY <1>1, <2>1 DEF RecordInv, Versions
  <2>3. call[c].seen = streak
    <3>1. call[c].seen \in Streaks
      BY <1>1 DEF Posts
    <3>2. CASE call[c].seen.last < 0
      <4>1. streak.last < 0
        BY <1>4, <3>2 DEF T!SameVersion
      <4>2. streak.last = -1 /\ call[c].seen.last = -1
        BY <1>1, <3>1, <3>2, <4>1 DEF Streaks
      <4> QED BY <2>2, <4>2
    <3>3. CASE ~(call[c].seen.last < 0)
      BY <1>4, <2>2, <3>3 DEF T!SameVersion
    <3> QED BY <3>2, <3>3
  <2> DEFINE goes == streak.last >= 0 /\ streak.last = day - 1
             n == IF goes THEN streak.current + 1 ELSE 1
             best == T!Max({streak.longest, n})
             late == history.late \/ day < streak.last
  <2>4. /\ streak' = [current |-> n, longest |-> best, last |-> day,
                      version |-> streak.version + 1]
        /\ history' = [history EXCEPT !.days = @ \cup {day}, !.late = late]
    BY <1>4, <1>1, <2>1, <2>3 DEF T!WriteStreak, T!NextStreak
  <2>5. n \in Nat /\ best \in Nat /\ late \in BOOLEAN /\ streak.last \in Nat \cup {-1}
    <3>1. n \in Nat /\ streak.longest \in Nat /\ streak.last \in Nat \cup {-1}
      BY <1>1 DEF Streaks
    <3> HIDE DEF n
    <3>2. history.late \in BOOLEAN
      BY <1>1 DEF Journals
    <3> QED BY <3>1, <3>2, MaxOfTwo
  <2>6. ~late /\ streak.last # -1 => streak.last <= day /\ streak.last # day
    BY <2>1, <2>2, <2>3, <2>5
  <2>7. goes => streak.last # -1 /\ day = streak.last + 1 /\ n = streak.current + 1
    BY <2>5
  <2>8. ~goes => n = 1 /\ (streak.last # -1 => streak.last # day - 1)
    BY <2>5
  <2>9. ~late => ~history.late
    OBVIOUS
  <2> HIDE DEF n, best, late, goes
  <2>10. /\ streak' \in Streaks /\ streak'.last = day /\ streak'.current = n
         /\ streak'.version = streak.version + 1 /\ streak.version \in Nat
    BY <1>1, <2>4, <2>5 DEF Streaks
  <2>11. /\ history' \in Journals /\ history'.days = history.days \cup {day}
         /\ history'.late = late /\ SameBooks
         /\ history'.lost = history.lost /\ history.days \in SUBSET Nat
    BY <1>1, <2>4, <2>5 DEF Journals, SameBooks
  <2>12. Becomes(c, T!Idle) /\ T!Idle.pc = "idle"
    BY <1>4, EndBecomes DEF T!Idle
  <2>13. RecordTypes'
    BY <1>1, <2>10, <2>11, <2>12, OneCall DEF RecordInv, RecordTypes
  <2>14. Counts'
    BY <1>1, <2>11, CountsStay DEF RecordInv, Present, SameBooks
  <2>15. Raises'
    BY <1>1, <2>11, <2>12, NothingDue, RaisesStay DEF RecordInv, SameBooks, Present
  <2>16. Versions'
    <3>1. streak'.last # -1 /\ streak'.version > 0
      BY <2>10
    <3>2. ASSUME NEW d \in Requests, call'[d].pc = "write"
          PROVE  LET seen == call'[d].seen IN
                 /\ seen.last # call'[d].today
                 /\ seen.last = -1 => seen = T!NoStreak
                 /\ seen.version <= streak'.version
                 /\ seen.version = streak'.version => seen = streak'
      <4>1. d # c /\ call'[d] = call[d]
        BY <2>12, <3>2, OneCall DEF RecordInv
      <4>2. /\ call[d].seen.last # call[d].today
            /\ call[d].seen.last = -1 => call[d].seen = T!NoStreak
            /\ call[d].seen.version <= streak.version
        BY <3>2, <4>1 DEF RecordInv, Versions
      <4>3. call[d].seen.version \in Nat
        BY DEF RecordInv, RecordTypes, Posts, Streaks
      <4>4. call[d].seen.version <= streak'.version /\ call[d].seen.version # streak'.version
        BY <2>10, <4>2, <4>3
      <4> QED BY <4>1, <4>2, <4>4
    <3> QED BY <3>1, <3>2 DEF Versions
  <2>17. Runs'
    <3>1. SUFFICES ASSUME ~late
                   PROVE  /\ \A d \in history.days \cup {day} : d <= day
                          /\ IsRun(n, day, history.days \cup {day})
      BY <2>10, <2>11 DEF Runs
    <3>2. CASE streak.last = -1
      <4>1. history.days = {} /\ n = 1
        BY <2>2, <2>7, <2>8, <3>2
      <4>2. IsRun(1, day, {} \cup {day})
        BY RunBegins
      <4> QED BY <4>1, <4>2
    <3>3. CASE streak.last # -1
      <4>1. /\ \A d \in history.days : d <= streak.last
            /\ IsRun(streak.current, streak.last, history.days)
        BY <2>9, <3>1, <3>3 DEF RecordInv, Runs
      <4>2. \A d \in history.days \cup {day} : d <= day
        BY <2>5, <2>6, <2>11, <3>1, <3>3, <4>1
      <4>3. CASE goes
        <5>1. streak.current \in Nat /\ streak.last \in Nat
          BY <1>1, <3>3 DEF Streaks
        <5> QED BY <2>7, <2>11, <4>1, <4>2, <4>3, <5>1, RunGoesOn
      <4>4. CASE ~goes
        <5>1. day - 1 \notin history.days
          BY <2>5, <2>6, <2>8, <2>11, <3>1, <3>3, <4>1, <4>4
        <5> QED BY <2>8, <2>11, <4>2, <4>4, <5>1, RunBegins
      <4> QED BY <4>3, <4>4
    <3> QED BY <3>2, <3>3
  <2> QED BY <2>13, <2>14, <2>15, <2>16, <2>17 DEF RecordInv
<1> QED BY <1>2, <1>3, <1>4 DEF T!WriteStreak

\* The indexer and the status change rows, and the calls go on.
LEMMA RowsChange ==
    ASSUME RecordInv, tip' \in [Tips -> Statuses], counted' \in [tips : Nat, notes : Nat],
           UNCHANGED <<clock, raised, streak, call, history>>, Counts', Present \subseteq Present'
    PROVE  RecordInv'
<1>1. RecordTypes'
  BY DEF RecordInv, RecordTypes
<1>2. Due' = Due
  BY DEF Due
<1>3. Raises' /\ Versions' /\ Runs'
  BY <1>2, RaisesStay, VersionsStay, RunsStay DEF RecordInv
<1> QED BY <1>1, <1>3 DEF RecordInv

LEMMA Projected == ASSUME RecordInv, NEW t \in Tips, T!Project(t) PROVE RecordInv'
<1>1. /\ tip[t] = "none" /\ tip' = [tip EXCEPT ![t] = "CONFIRMED"]
      /\ UNCHANGED <<clock, raised, streak, call, history>> /\ history \in Journals
      /\ counted' = [counted EXCEPT !.notes = @ + 1] /\ counted \in [tips : Nat, notes : Nat]
  BY DEF T!Project, RecordInv, RecordTypes
<1>2. /\ tip' \in [Tips -> Statuses] /\ Present' = Present \cup {t}
      /\ IsFiniteSet(Present') /\ Cardinality(Present') = Cardinality(Present) + 1
      /\ Cardinality(Present) \in Nat
  BY <1>1, OneMore DEF Statuses, RecordInv
<1>3. /\ counted' \in [tips : Nat, notes : Nat] /\ counted'.tips = counted.tips
      /\ counted'.notes = counted.notes + 1
  BY <1>1
<1>4. Counts'
  <2>1. IsFiniteSet(Present') /\ history'.daily \subseteq Present' /\ history.noteBase \in Nat
    BY <1>1, <1>2 DEF RecordInv, Counts, Journals
  <2>2. /\ counted'.notes = history'.noteBase + Cardinality(Present')
        /\ counted'.tips = history'.dayBase + Cardinality(history'.daily)
    BY <1>1, <1>2, <1>3, <2>1 DEF RecordInv, Counts
  <2> QED BY <2>1, <2>2 DEF Counts
<1> QED BY <1>1, <1>2, <1>3, <1>4, RowsChange

LEMMA StatusChanged ==
    ASSUME RecordInv, NEW t \in Tips, T!ProjectRefund(t) \/ T!ConfirmTip(t) PROVE RecordInv'
<1>1. /\ tip[t] # "none" /\ tip \in [Tips -> Statuses]
      /\ tip' = [tip EXCEPT ![t] = "REFUNDED"] \/ tip' = [tip EXCEPT ![t] = "CONFIRMED"]
      /\ UNCHANGED <<clock, counted, raised, streak, call, history>>
      /\ counted \in [tips : Nat, notes : Nat]
  BY DEF T!ProjectRefund, T!ConfirmTip, RecordInv, RecordTypes
<1>2. tip' \in [Tips -> Statuses] /\ Present' = Present
  BY <1>1 DEF Present, Statuses
<1>3. Counts'
  BY <1>1, <1>2, CountsStay DEF RecordInv
<1> QED BY <1>1, <1>2, <1>3, RowsChange

\* What a rolled back tip leaves in the goal, the counter and the notifications goes to their bases.
LEMMA RolledBack == ASSUME RecordInv, NEW t \in Tips, T!RollBack(t) PROVE RecordInv'
<1>1. /\ tip[t] # "none" /\ tip' = [tip EXCEPT ![t] = "none"] /\ tip \in [Tips -> Statuses]
      /\ UNCHANGED <<clock, counted, raised, streak, call>> /\ history \in Journals
      /\ counted \in [tips : Nat, notes : Nat]
  BY DEF T!RollBack, RecordInv, RecordTypes
<1>2. PICK noted \in Nat : noted = history.noteBase + 1
  BY <1>1 DEF Journals
<1>3. PICK day \in Nat : day = IF t \in history.daily THEN history.dayBase + 1 ELSE history.dayBase
  BY <1>1 DEF Journals
<1>4. PICK goal \in Nat : goal = IF t \in history.owed \ Due THEN history.goalBase + Amount[t]
                                ELSE history.goalBase
  <2>1. history.goalBase \in Nat /\ Amount[t] \in Nat
    BY <1>1, AmountsArePositive DEF Journals
  <2>2. history.goalBase + Amount[t] \in Nat
    BY <2>1
  <2> QED BY <2>1, <2>2
<1>5. PICK owed \in SUBSET Tips : owed = IF t \in Due THEN history.owed ELSE history.owed \ {t}
  BY <1>1 DEF Journals
<1>6. PICK lost \in BOOLEAN : lost <=> (history.lost \/ t \in Due)
  BY Zenon
<1>7. lost = (history.lost \/ t \in Due)
  <2>1. (history.lost \/ t \in Due) \in BOOLEAN
    BY Zenon
  <2> QED BY Zenon, <1>6, <2>1
<1>8. history' = [history EXCEPT !.noteBase = noted, !.dayBase = day, !.daily = history.daily \ {t},
                                 !.goalBase = goal, !.owed = owed, !.lost = lost]
  BY <1>2, <1>3, <1>4, <1>5, <1>7, PresentAndDue DEF T!RollBack
<1>9. /\ history' \in Journals /\ history'.noteBase = noted /\ history'.dayBase = day
      /\ history'.daily = history.daily \ {t} /\ history'.goalBase = goal
      /\ history'.owed = owed /\ history'.lost = lost /\ history'.late = history.late
      /\ history'.days = history.days
  BY <1>1, <1>8 DEF Journals
<1>10. /\ tip' \in [Tips -> Statuses] /\ Present' = Present \ {t} /\ t \in Present /\ Due' = Due
  BY <1>1 DEF Present, Due, Statuses
<1>11. RecordTypes'
  BY <1>1, <1>9, <1>10 DEF RecordInv, RecordTypes
<1>12. Counts'
  <2>1. /\ IsFiniteSet(Present') /\ Cardinality(Present') = Cardinality(Present) - 1
        /\ Cardinality(Present) \in Nat
    BY <1>10, FS_RemoveElement, FS_CardinalityType DEF RecordInv, Counts
  <2>2. IsFiniteSet(history.daily) /\ Cardinality(history.daily) \in Nat
    BY FS_Subset, FS_CardinalityType DEF RecordInv, Counts
  <2>3. day + Cardinality(history.daily \ {t}) = history.dayBase + Cardinality(history.daily)
    <3>1. CASE t \in history.daily
      <4>1. Cardinality(history.daily \ {t}) = Cardinality(history.daily) - 1
        BY <2>2, <3>1, FS_RemoveElement
      <4> QED BY <1>1, <1>3, <2>2, <3>1, <4>1 DEF Journals
    <3>2. CASE t \notin history.daily
      <4>1. history.daily \ {t} = history.daily
        BY <3>2
      <4> QED BY <1>3, <3>2, <4>1
    <3> QED BY <3>1, <3>2
  <2>4. noted + Cardinality(Present') = history.noteBase + Cardinality(Present)
    BY <1>1, <1>2, <2>1 DEF Journals
  <2>5. history'.daily \subseteq Present'
    BY <1>9, <1>10 DEF RecordInv, Counts
  <2> QED BY <1>1, <1>9, <2>1, <2>3, <2>4, <2>5 DEF RecordInv, Counts
<1>13. Raises'
  <2>1. IsFiniteSet(history.owed) /\ Due \subseteq history.owed
    BY DEF RecordInv, Raises
  <2>2. IsFiniteSet(owed) /\ Due \subseteq owed
    BY <1>5, <2>1, FS_RemoveElement
  <2>3. ASSUME ~lost
        PROVE  /\ owed \subseteq Present'
               /\ \A c, d \in Requests :
                     call[c].pc = "goal" /\ call[d].pc = "goal" /\ call[c].tx = call[d].tx => c = d
               /\ raised + SetSum(Amount, Due) = goal + SetSum(Amount, owed)
    <3>1. /\ ~history.lost /\ t \notin Due /\ owed = history.owed \ {t}
      BY <1>5, <1>6, <2>3
    <3>2. /\ history.owed \subseteq Present
          /\ \A c, d \in Requests :
                call[c].pc = "goal" /\ call[d].pc = "goal" /\ call[c].tx = call[d].tx => c = d
          /\ raised + SetSum(Amount, Due) = history.goalBase + SetSum(Amount, history.owed)
      BY <3>1 DEF RecordInv, Raises
    <3>3. goal + SetSum(Amount, owed) = history.goalBase + SetSum(Amount, history.owed)
      <4>1. CASE t \in history.owed
        <5>1. /\ \A y \in history.owed : Amount[y] \in Int
              /\ SetSum(Amount, owed) \in Nat /\ Amount[t] \in Nat /\ history.goalBase \in Nat
          <6>1. history.owed \in SUBSET Tips /\ history.goalBase \in Nat
            BY <1>1 DEF Journals
          <6>2. \A y \in history.owed : Amount[y] \in Int
            BY <6>1, <2>1, SumsOfTips
          <6>3. SetSum(Amount, owed) \in Nat
            BY <1>5, <2>2, SumsOfTips
          <6>4. Amount[t] \in Nat
            BY AmountsArePositive
          <6> QED BY <6>1, <6>2, <6>3, <6>4
        <5>2. SetSum(Amount, history.owed) = Amount[t] + SetSum(Amount, owed)
          BY <2>1, <3>1, <4>1, <5>1, SetSumTakes
        <5>3. goal = history.goalBase + Amount[t]
          BY <1>4, <3>1, <4>1
        <5> QED BY <5>1, <5>2, <5>3
      <4>2. CASE t \notin history.owed
        <5>1. owed = history.owed /\ goal = history.goalBase
          BY <1>4, <3>1, <4>2
        <5> QED BY <5>1
      <4> QED BY <4>1, <4>2
    <3> QED BY <1>10, <3>1, <3>2, <3>3
  <2> QED BY <1>1, <1>9, <1>10, <2>2, <2>3 DEF Raises
<1>14. Versions' /\ Runs'
  BY <1>1, <1>9, VersionsStay, RunsStay DEF RecordInv
<1> QED BY <1>11, <1>12, <1>13, <1>14 DEF RecordInv

\* After a report the goal is the report and what was due.
LEMMA GoalReported == ASSUME RecordInv, NEW n \in GoalReports, T!ReportGoal(n) PROVE RecordInv'
<1>1. /\ raised' = n /\ n \in Nat /\ history' = [history EXCEPT !.goalBase = n, !.owed = Due]
      /\ UNCHANGED <<clock, tip, counted, streak, call>> /\ history \in Journals
  BY ReportsAreNat, PresentAndDue DEF T!ReportGoal, RecordInv, RecordTypes
<1>2. Due \in SUBSET Tips
  BY DEF Due
<1>3. /\ history' \in Journals /\ history'.goalBase = n /\ history'.owed = Due
      /\ history'.lost = history.lost /\ history'.late = history.late
      /\ history'.days = history.days /\ history'.daily = history.daily
      /\ history'.dayBase = history.dayBase /\ history'.noteBase = history.noteBase
  BY <1>1, <1>2 DEF Journals
<1>4. Due' = Due /\ Present' = Present
  BY <1>1 DEF Due, Present
<1>5. RecordTypes'
  BY <1>1, <1>3 DEF RecordInv, RecordTypes
<1>6. Counts' /\ Versions' /\ Runs'
  BY <1>1, <1>3, <1>4, CountsStay, VersionsStay, RunsStay DEF RecordInv
<1>7. Raises'
  <2>1. IsFiniteSet(Due)
    BY FS_Subset DEF RecordInv, Raises
  <2>2. ~history.lost => Due \subseteq Present
    BY DEF RecordInv, Raises
  <2> QED BY <1>1, <1>3, <1>4, <2>1, <2>2 DEF RecordInv, Raises
<1> QED BY <1>5, <1>6, <1>7 DEF RecordInv

\* A day's row that is replaced, or that of the next day, has no tips of calls besides.
LEMMA RowReplaced ==
    ASSUME RecordInv, NEW n \in Nat, counted' = [counted EXCEPT !.tips = n], clock' \in Nat,
           history' = [history EXCEPT !.dayBase = n, !.daily = {}],
           UNCHANGED <<tip, raised, streak, call>>
    PROVE  RecordInv'
<1>1. history \in Journals /\ counted \in [tips : Nat, notes : Nat]
  BY DEF RecordInv, RecordTypes
<1>2. /\ history' \in Journals /\ history'.dayBase = n /\ history'.daily = {}
      /\ history'.goalBase = history.goalBase /\ history'.owed = history.owed
      /\ history'.noteBase = history.noteBase /\ history'.lost = history.lost
      /\ history'.late = history.late /\ history'.days = history.days
  BY <1>1 DEF Journals
<1>3. /\ counted' \in [tips : Nat, notes : Nat] /\ counted'.tips = n
      /\ counted'.notes = counted.notes
  BY <1>1
<1>4. Due' = Due /\ Present' = Present
  BY DEF Due, Present
<1>5. RecordTypes'
  BY <1>2, <1>3 DEF RecordInv, RecordTypes
<1>6. Counts'
  BY <1>2, <1>3, <1>4, FS_EmptySet DEF RecordInv, Counts
<1>7. Raises' /\ Versions' /\ Runs'
  BY <1>2, <1>4, RaisesStay, VersionsStay, RunsStay DEF RecordInv
<1> QED BY <1>5, <1>6, <1>7 DEF RecordInv

LEMMA RecordNextInv == ASSUME RecordInv, [T!Next]_(T!vars) PROVE RecordInv'
<1>1. CASE T!Quiet \/ UNCHANGED T!vars
  <2>1. UNCHANGED <<clock, tip, counted, raised, streak, call, history>>
    BY <1>1 DEF T!Quiet, T!vars
  <2>2. RecordTypes'
    BY <2>1 DEF RecordInv, RecordTypes
  <2>3. Due' = Due /\ Present' = Present
    BY <2>1 DEF Due, Present
  <2>4. Counts' /\ Raises' /\ Versions' /\ Runs'
    BY <2>1, <2>3, CountsStay, RaisesStay, VersionsStay, RunsStay DEF RecordInv
  <2> QED BY <2>2, <2>4 DEF RecordInv
<1>2. CASE T!Tick
  <2>1. clock' \in Nat
    BY <1>2 DEF T!Tick, RecordInv, RecordTypes
  <2> QED BY <1>2, <2>1, RowReplaced DEF T!Tick
<1>3. ASSUME NEW t \in Tips, T!Project(t) \/ T!ProjectRefund(t) \/ T!ConfirmTip(t) \/ T!RollBack(t)
      PROVE  RecordInv'
  BY <1>3, Projected, StatusChanged, RolledBack
<1>4. ASSUME NEW c \in Requests, NEW t \in Tips, T!Post(c, t) PROVE RecordInv'
  BY <1>4, Posted
<1>5. ASSUME NEW c \in Requests,
             \/ T!LookUp(c) \/ T!Commit(c) \/ T!RaiseGoal(c) \/ T!ReadStreak(c)
             \/ T!WriteStreak(c) \/ T!Crash(c)
      PROVE  RecordInv'
  BY <1>5, LookedUp, Committed, GoalRaised, StreakRead, StreakWritten, Stopped
<1>6. ASSUME NEW n \in GoalReports, T!ReportGoal(n) PROVE RecordInv'
  BY <1>6, GoalReported
<1>7. ASSUME NEW n \in 0 .. T!Cardinality(T!Present), T!RollUp(n) PROVE RecordInv'
  <2>1. clock' \in Nat
    BY <1>7 DEF T!RollUp, RecordInv, RecordTypes
  <2>2. n \in Nat
    <3>1. Cardinality(Present) \in Nat
      BY FS_CardinalityType DEF RecordInv, Counts
    <3>2. n \in 0 .. Cardinality(Present)
      BY <1>7, RecordCardinality, PresentAndDue
    <3> QED BY <3>1, <3>2
  <2> QED BY <1>7, <2>1, <2>2, RowReplaced DEF T!RollUp
<1> QED BY <1>1, <1>2, <1>3, <1>4, <1>5, <1>6, <1>7 DEF T!Next

LEMMA RecordsHold ==
    ASSUME RecordInv PROVE T!TypeOK /\ T!CountedOnce /\ T!GoalIsSum /\ T!StreakCountsDays
<1> USE DEF RecordInv
<1>1. T!TypeOK
  <2>1. /\ streak.current \in Nat /\ streak.longest \in Nat /\ streak.version \in Nat
        /\ counted.tips \in Nat /\ counted.notes \in Nat
    BY DEF RecordTypes, Streaks
  <2>2. ASSUME NEW c \in Requests
        PROVE  /\ call[c].pc \in Stages /\ call[c].tx \in Tips \cup {"none"}
               /\ call[c].tries \in 0 .. MaxRetries
    <3>1. call[c] \in Posts /\ call[c].tries <= MaxRetries
      BY DEF RecordTypes
    <3> QED BY <3>1, AmountsArePositive DEF Posts
  <2> QED BY <2>1, <2>2 DEF T!TypeOK, RecordTypes, Stages, Statuses
<1>2. T!CountedOnce
  BY RecordCardinality, PresentAndDue DEF T!CountedOnce, Counts
<1>3. T!GoalIsSum
  BY RecordSums, PresentAndDue DEF T!GoalIsSum, Raises
<1>4. T!StreakCountsDays
  <2> SUFFICES ASSUME ~history.late, streak.last >= 0
               PROVE  streak.current = T!RunLength(streak.last)
    BY DEF T!StreakCountsDays
  <2>1. streak.last \in Nat /\ streak.last # -1 /\ history.days \in SUBSET Nat
    BY DEF RecordTypes, Streaks, Journals
  <2> QED BY <2>1, RunIsMax DEF Runs
<1> QED BY <1>1, <1>2, <1>3, <1>4

-----------------------------------------------------------------------------
(* What is derived from the tips: the snapshot, the days and the score. *)

Tasks == {"none", "board", "day", "score", "read"}
Phases == {"idle", "rank", "delete", "insert", "sum", "write", "store", "cache", "fillById",
           "fillByName"}
Ranks(e) == e.creator \in U!Creators /\ e.total \in Nat \ {0}
ListsOnce(s) == \A e, f \in s : e.creator = f.creator => e = f

\* A run holds a ranking, which lists a creator once, or one number.
RunFits(q) ==
    /\ q \in [task : Tasks, pc : Phases, seen : {q.seen}, rows : {q.rows}, day : 0 .. Days]
    /\ q.pc = "idle" => q = U!Idle
    /\ q.pc \in {"delete", "insert"} => ListsOnce(q.seen) /\ \A e \in q.seen : Ranks(e)
    /\ q.pc \in {"write", "store", "cache", "fillById", "fillByName"} =>
          \E v \in Nat : q.seen = {v}
    /\ q.pc \in {"store", "cache", "fillById", "fillByName"} => q.task # "day"

RunTypes == run = [r \in Requests |-> run[r]] /\ \A r \in Requests : RunFits(run[r])

Recorded == {t \in RolledTips : tips[t].status # "none"}
TipTypes ==
    /\ today \in 0 .. Days
    /\ tips \in [RolledTips -> [status : Statuses, day : 0 .. Days]]
    /\ daily \in [0 .. Days -> Nat \cup {-1}]
    /\ IsFiniteSet(Recorded)
    /\ history \in [version : Nat, crossed : BOOLEAN, lost : BOOLEAN, rolled : SUBSET (0 .. Days)]

ResultTypes ==
    /\ topic \in {"board", "day", "score"}
    /\ \A e \in board : Ranks(e)
    /\ score \in [stored : Nat, byId : Nat \cup {-1}, byName : Nat \cup {-1}]

\* Without an overlap one run at most is under way.
Alone == \A r, s \in Requests : run[r] # U!Idle /\ run[s] # U!Idle => r = s

\* The rows a transaction deletes are those of the snapshot.
BoardHolds ==
    /\ ListsOnce(board)
    /\ \A r \in Requests : run[r].pc = "insert" => run[r].rows = board

\* The cache lags only between the write of a score and that of the cache.
CacheHolds ==
    /\ \A r \in Requests : run[r].pc \in {"cache", "fillById", "fillByName"}
                              => run[r].seen = {score.stored}
    /\ (\A r \in Requests : run[r].pc # "cache")
          => score.byId \in {-1, score.stored} /\ score.byName \in {-1, score.stored}

\* A day that was summed after its last change has its volume, or a run is about to write it.
Volume(d) == U!VolumeOf(U!ConfirmedOn(d))
Writes(r, d) == run[r].pc = "write" /\ run[r].day = d
DaysHold ==
    \A d \in history.rolled :
       /\ \A r \in Requests : Writes(r, d) => run[r].seen = {Volume(d)}
       /\ (\A r \in Requests : ~Writes(r, d)) => daily[d] = Volume(d)

RollupInv ==
    /\ RunTypes /\ TipTypes /\ ResultTypes
    /\ ~history.crossed => /\ Alone /\ BoardHolds /\ DaysHold
                           /\ ~history.lost => CacheHolds

LEMMA RolledAmounts == RolledAmount \in [RolledTips -> Nat \ {0}] /\ Days \in Nat
BY Assumptions DEF U!RollupsAssumption

LEMMA RollupSums == ASSUME NEW s PROVE U!VolumeOf(s) = SetSum(RolledAmount, s)
BY Zenon DEF U!VolumeOf, U!MapThenSumSet, U!MapThenFoldSet, SetSum, MapThenSumSet, MapThenFoldSet

\* A volume is a natural number, and positive when there is a tip in it.
LEMMA VolumesAreNat ==
    ASSUME TipTypes, NEW s \in SUBSET Recorded
    PROVE  U!VolumeOf(s) \in Nat /\ (s # {} => U!VolumeOf(s) \in Nat \ {0})
<1>1. IsFiniteSet(s) /\ \A t \in s : RolledAmount[t] \in Nat /\ RolledAmount[t] > 0
  BY FS_Subset, RolledAmounts DEF TipTypes, Recorded
<1>2. SetSum(RolledAmount, s) \in Nat /\ (s # {} => SetSum(RolledAmount, s) > 0)
  BY <1>1, SetSumNat
<1> QED BY <1>2, RollupSums

LEMMA ConfirmedAreRecorded ==
    /\ \A d : U!ConfirmedOn(d) \subseteq Recorded
    /\ \A c : U!ConfirmedFor(c) \subseteq Recorded
BY DEF U!ConfirmedOn, U!ConfirmedFor, Recorded

LEMMA RankingFits ==
    ASSUME TipTypes PROVE ListsOnce(U!Ranking) /\ \A e \in U!Ranking : Ranks(e)
<1>1. ListsOnce(U!Ranking)
  BY DEF ListsOnce, U!Ranking
<1>2. ASSUME NEW e \in U!Ranking PROVE Ranks(e)
  <2>1. PICK c \in U!Creators : /\ U!ConfirmedFor(c) # {}
                                /\ e = [creator |-> c, total |-> U!VolumeOf(U!ConfirmedFor(c))]
    BY DEF U!Ranking
  <2>2. U!VolumeOf(U!ConfirmedFor(c)) \in Nat \ {0}
    BY <2>1, ConfirmedAreRecorded, VolumesAreNat
  <2> QED BY <2>1, <2>2 DEF Ranks
<1> QED BY <1>1, <1>2

LEMMA IdleFits == RunFits(U!Idle) /\ U!Idle.pc = "idle"
<1>1. 0 \in 0 .. Days
  BY RolledAmounts
<1> QED BY <1>1 DEF RunFits, U!Idle, Tasks, Phases

LEMMA RollupInitInv == U!Init => RollupInv
<1> SUFFICES ASSUME U!Init PROVE RollupInv
  OBVIOUS
<1>0. 0 \in 0 .. Days
  BY RolledAmounts
<1>1. RunTypes /\ (\A r \in Requests : run[r] = U!Idle /\ run[r].pc = "idle")
  BY IdleFits DEF U!Init, RunTypes
<1>2. Recorded = {}
  BY DEF U!Init, Recorded
<1>3. history \in [version : Nat, crossed : BOOLEAN, lost : BOOLEAN, rolled : SUBSET (0 .. Days)]
  BY DEF U!Init
<1>4. /\ today \in 0 .. Days /\ tips \in [RolledTips -> [status : Statuses, day : 0 .. Days]]
      /\ daily \in [0 .. Days -> Nat \cup {-1}]
  BY <1>0 DEF U!Init, Statuses, U!None
<1>5. TipTypes
  BY <1>2, <1>3, <1>4, FS_EmptySet DEF TipTypes
<1>6. ResultTypes /\ CacheHolds
  BY <1>1 DEF U!Init, ResultTypes, CacheHolds, U!None
<1>7. Alone /\ BoardHolds /\ DaysHold
  BY <1>1 DEF U!Init, Alone, BoardHolds, ListsOnce, DaysHold
<1> QED BY <1>1, <1>5, <1>6, <1>7 DEF RollupInv

-----------------------------------------------------------------------------
(* Steps of one run. *)

Takes(r, q) == run' = [run EXCEPT ![r] = q] /\ RunFits(q)

LEMMA OneRun ==
    ASSUME RunTypes, NEW r \in Requests, NEW q, Takes(r, q)
    PROVE  /\ RunTypes' /\ run'[r] = q
           /\ \A s \in Requests \ {r} : run'[s] = run[s]
BY DEF RunTypes, Takes

\* A run that was under way, or begins when none is, stays alone.
LEMMA StaysAlone ==
    ASSUME RunTypes, NEW r \in Requests, NEW q, Takes(r, q), Alone,
           run[r] # U!Idle \/ U!Resting
    PROVE  Alone' /\ \A s \in Requests \ {r} : run'[s] = U!Idle /\ run[s] = U!Idle
BY OneRun DEF Alone, U!Resting

LEMMA TipTypesStay ==
    ASSUME TipTypes, UNCHANGED <<today, tips, daily>>,
           history' \in [version : Nat, crossed : BOOLEAN, lost : BOOLEAN,
                         rolled : SUBSET (0 .. Days)]
    PROVE  TipTypes' /\ \A d : Volume(d)' = Volume(d)
<1>1. Recorded' = Recorded /\ \A d : U!ConfirmedOn(d)' = U!ConfirmedOn(d)
  BY DEF Recorded, U!ConfirmedOn
<1>2. TipTypes'
  BY <1>1 DEF TipTypes
<1>3. \A d : Volume(d)' = Volume(d)
  BY DEF Volume, U!ConfirmedOn
<1> QED BY <1>2, <1>3

LEMMA DaysStay ==
    ASSUME RunTypes, DaysHold, NEW r \in Requests, NEW q, Takes(r, q), run[r].pc # "write",
           q.pc # "write", UNCHANGED <<tips, daily>>, history'.rolled = history.rolled
    PROVE  DaysHold'
<1>1. \A d : Volume(d)' = Volume(d)
  BY DEF Volume, U!ConfirmedOn
<1>2. \A s \in Requests : run'[s].pc # "write" \/ run'[s] = run[s]
  BY OneRun
<1>3. \A s \in Requests : run[s].pc # "write" \/ run'[s] = run[s]
  BY OneRun
<1> QED BY <1>1, <1>2, <1>3 DEF DaysHold, Writes

LEMMA BoardStays ==
    ASSUME RunTypes, BoardHolds, NEW r \in Requests, NEW q, Takes(r, q), q.pc # "insert",
           UNCHANGED board
    PROVE  BoardHolds'
BY OneRun DEF BoardHolds

LEMMA CacheStays ==
    ASSUME RunTypes, CacheHolds, NEW r \in Requests, NEW q, Takes(r, q), run[r].pc # "cache",
           q.pc \notin {"cache", "fillById", "fillByName"}, UNCHANGED score
    PROVE  CacheHolds'
<1>1. \A s \in Requests : run'[s].pc \in {"cache", "fillById", "fillByName"} => run'[s] = run[s]
  BY OneRun
<1>2. \A s \in Requests : run[s].pc = "cache" => run'[s] = run[s]
  BY OneRun
<1> QED BY <1>1, <1>2 DEF CacheHolds

\* A run that begins or goes on, and changes no result.
LEMMA RunMoves ==
    ASSUME RollupInv, NEW r \in Requests, NEW q, Takes(r, q),
           q.pc \in {"rank", "delete", "sum", "store"}, run[r].pc \in {"idle", "rank", "sum"},
           UNCHANGED <<topic, today, tips, daily, board, score>>,
           history' \in [version : Nat, crossed : BOOLEAN, lost : BOOLEAN,
                         rolled : SUBSET (0 .. Days)],
           history'.rolled = history.rolled, history'.lost = history.lost,
           ~history'.crossed => ~history.crossed /\ (run[r] # U!Idle \/ U!Resting)
    PROVE  RollupInv'
<1> USE DEF RollupInv
<1>1. RunTypes' /\ TipTypes' /\ ResultTypes'
  BY OneRun, TipTypesStay DEF ResultTypes
<1>2. ASSUME ~history'.crossed PROVE Alone' /\ BoardHolds' /\ DaysHold'
  BY <1>2, StaysAlone, BoardStays, DaysStay
<1>3. ASSUME ~history'.crossed, ~history'.lost PROVE CacheHolds'
  BY <1>3, CacheStays
<1> QED BY <1>1, <1>2, <1>3

LEMMA Began ==
    ASSUME RollupInv, NEW r \in Requests, NEW task \in Tasks, NEW pc \in {"rank", "sum"},
           NEW day \in 0 .. Days, U!Begin(r, task, pc, day)
    PROVE  RollupInv'
<1> DEFINE q == [U!Idle EXCEPT !.task = task, !.pc = pc, !.day = day]
<1>1. /\ run[r] = U!Idle /\ run' = [run EXCEPT ![r] = q]
      /\ UNCHANGED <<topic, today, tips, daily, board, score>>
      /\ IF U!Resting THEN history' = history ELSE history' = [history EXCEPT !.crossed = TRUE]
  BY DEF U!Begin, U!Continue
<1>2. RunFits(q) /\ q.pc \in {"rank", "sum"}
  BY DEF RunFits, U!Idle, Tasks, Phases
<1>3. /\ history' \in [version : Nat, crossed : BOOLEAN, lost : BOOLEAN, rolled : SUBSET (0 .. Days)]
      /\ history'.rolled = history.rolled /\ history'.lost = history.lost
      /\ ~history'.crossed => ~history.crossed /\ U!Resting
  BY <1>1 DEF RollupInv, TipTypes
<1> HIDE DEF q
<1> QED BY <1>1, <1>2, <1>3, RunMoves, IdleFits DEF Takes

\* q is run[r] at another phase, with other values.
Reaches(q, r, pc, seen, lines) == q = [run[r] EXCEPT !.pc = pc, !.seen = seen, !.rows = lines]

LEMMA NextPhase ==
    ASSUME RunTypes, NEW r \in Requests, NEW pc \in Phases \ {"idle"}, NEW seen, NEW lines, NEW q,
           Reaches(q, r, pc, seen, lines)
    PROVE  /\ q \in [task : Tasks, pc : Phases, seen : {q.seen}, rows : {q.rows}, day : 0 .. Days]
           /\ q.pc = pc /\ q.seen = seen /\ q.rows = lines /\ q.day = run[r].day
           /\ q.task = run[r].task
<1>1. run[r] \in [task : Tasks, pc : Phases, seen : {run[r].seen}, rows : {run[r].rows},
                  day : 0 .. Days]
  BY DEF RunTypes, RunFits
<1> QED BY <1>1 DEF Reaches

LEMMA Ranked == ASSUME RollupInv, NEW r \in Requests, U!RankTips(r) PROVE RollupInv'
<1> DEFINE q == [run[r] EXCEPT !.pc = "delete", !.seen = U!Ranking]
<1>1. /\ run[r].pc = "rank" /\ run' = [run EXCEPT ![r] = q] /\ run[r] # U!Idle
      /\ UNCHANGED <<topic, today, tips, daily, board, score, history>>
  BY IdleFits DEF U!RankTips, U!Continue
<1>2. Reaches(q, r, "delete", U!Ranking, run[r].rows)
  BY DEF RollupInv, RunTypes, RunFits, Reaches
<1> HIDE DEF q
<1>3. RunFits(q) /\ q.pc = "delete"
  <2>1. /\ q \in [task : Tasks, pc : Phases, seen : {q.seen}, rows : {q.rows}, day : 0 .. Days]
        /\ q.pc = "delete" /\ q.seen = U!Ranking
    BY <1>2, NextPhase DEF RollupInv, Phases
  <2>2. ListsOnce(q.seen) /\ \A e \in q.seen : Ranks(e)
    BY <2>1, RankingFits DEF RollupInv
  <2> QED BY <2>1, <2>2 DEF RunFits
<1> QED BY <1>1, <1>3, RunMoves DEF Takes, RollupInv, TipTypes

\* The transaction of a snapshot that is alone replaces all its rows.
LEMMA RowsDeleted == ASSUME RollupInv, NEW r \in Requests, U!DeleteRows(r) PROVE RollupInv'
<1> DEFINE q == [run[r] EXCEPT !.pc = "insert", !.rows = board]
<1>1. /\ run[r].pc = "delete" /\ run' = [run EXCEPT ![r] = q] /\ run[r] # U!Idle
      /\ UNCHANGED <<topic, today, tips, daily, board, score, history>>
  BY IdleFits DEF U!DeleteRows, U!Continue
<1>2. Reaches(q, r, "insert", run[r].seen, board)
  BY DEF RollupInv, RunTypes, RunFits, Reaches
<1> HIDE DEF q
<1>3. RunFits(q) /\ q.pc = "insert" /\ q.rows = board
  <2>1. /\ q \in [task : Tasks, pc : Phases, seen : {q.seen}, rows : {q.rows}, day : 0 .. Days]
        /\ q.pc = "insert" /\ q.seen = run[r].seen /\ q.rows = board
    BY <1>2, NextPhase DEF RollupInv, Phases
  <2>2. ListsOnce(q.seen) /\ \A e \in q.seen : Ranks(e)
    BY <1>1, <2>1 DEF RollupInv, RunTypes, RunFits
  <2> QED BY <2>1, <2>2 DEF RunFits
<1>4. RunTypes' /\ TipTypes' /\ ResultTypes'
  BY <1>1, <1>3, OneRun, TipTypesStay DEF Takes, RollupInv, ResultTypes, TipTypes
<1>5. ASSUME ~history'.crossed
      PROVE  Alone' /\ BoardHolds' /\ DaysHold' /\ (~history'.lost => CacheHolds')
  <2>1. Alone' /\ DaysHold' /\ (~history'.lost => CacheHolds')
    BY <1>1, <1>3, <1>5, StaysAlone, DaysStay, CacheStays DEF Takes, RollupInv
  <2>2. BoardHolds'
    BY <1>1, <1>3, <1>5, OneRun DEF Takes, RollupInv, BoardHolds
  <2> QED BY <2>1, <2>2
<1> QED BY <1>4, <1>5 DEF RollupInv

LEMMA RowsInserted == ASSUME RollupInv, NEW r \in Requests, U!InsertRows(r) PROVE RollupInv'
<1>1. /\ run[r].pc = "insert" /\ run' = [run EXCEPT ![r] = U!Idle] /\ run[r] # U!Idle
      /\ UNCHANGED <<topic, today, tips, daily, score, history>>
      /\ board' = (board \ run[r].rows) \cup U!Inserted(r)
      /\ Takes(r, U!Idle)
  BY IdleFits DEF U!InsertRows, U!ReplaceSnapshot, U!Continue, Takes
<1>2. ListsOnce(run[r].seen) /\ \A e \in run[r].seen : Ranks(e)
  BY <1>1 DEF RollupInv, RunTypes, RunFits
<1>3. ListsOnce(U!Inserted(r)) /\ \A e \in U!Inserted(r) : Ranks(e)
  <2> DEFINE fresh(e) == [id |-> U!FreshId, creator |-> e.creator, total |-> e.total]
  <2>1. \A e \in U!Inserted(r) : \E f \in run[r].seen : e = fresh(f)
    BY DEF U!Inserted
  <2>2. \A f \in run[r].seen : fresh(f).creator = f.creator /\ fresh(f).total = f.total
    OBVIOUS
  <2> HIDE DEF fresh
  <2> QED BY <1>2, <2>1, <2>2 DEF ListsOnce, Ranks
<1>4. RunTypes' /\ TipTypes' /\ ResultTypes'
  <2>1. \A e \in board' : Ranks(e)
    BY <1>1, <1>3 DEF RollupInv, ResultTypes
  <2> QED BY <1>1, <2>1, OneRun, TipTypesStay DEF RollupInv, ResultTypes, TipTypes
<1>5. ASSUME ~history'.crossed
      PROVE  Alone' /\ BoardHolds' /\ DaysHold' /\ (~history'.lost => CacheHolds')
  <2>1. Alone' /\ DaysHold' /\ (~history'.lost => CacheHolds')
    BY <1>1, <1>5, StaysAlone, DaysStay, CacheStays, IdleFits DEF RollupInv
  <2>2. BoardHolds'
    <3>1. board' = U!Inserted(r)
      BY <1>1, <1>5 DEF RollupInv, BoardHolds
    <3>2. \A s \in Requests : run'[s].pc # "insert"
      BY <1>1, <1>5, StaysAlone, OneRun, IdleFits DEF RollupInv
    <3> QED BY <1>3, <3>1, <3>2 DEF BoardHolds
  <2> QED BY <2>1, <2>2
<1> QED BY <1>4, <1>5 DEF RollupInv

\* A day is summed, and what its run is about to write stays its volume until a tip of it changes.
LEMMA DaySummed == ASSUME RollupInv, NEW r \in Requests, U!SumDay(r) PROVE RollupInv'
<1> DEFINE q == [run[r] EXCEPT !.pc = "write", !.seen = {Volume(run[r].day)}]
<1>1. /\ run[r].task = "day" /\ run[r].pc = "sum" /\ run' = [run EXCEPT ![r] = q]
      /\ run[r] # U!Idle /\ UNCHANGED <<topic, today, tips, daily, board, score>>
      /\ history' = [history EXCEPT !.rolled = @ \cup {run[r].day}]
  BY IdleFits DEF U!SumDay, U!Continue, Volume
<1>2. Reaches(q, r, "write", {Volume(run[r].day)}, run[r].rows)
  BY DEF RollupInv, RunTypes, RunFits, Reaches
<1>3. PICK d \in 0 .. Days : d = run[r].day
  BY DEF RollupInv, RunTypes, RunFits
<1>4. PICK v \in Nat : v = Volume(d)
  BY VolumesAreNat, ConfirmedAreRecorded DEF Volume, RollupInv
<1> HIDE DEF q
<1>5. /\ RunFits(q) /\ q.pc = "write" /\ q.seen = {v} /\ q.day = d
  <2>1. /\ q \in [task : Tasks, pc : Phases, seen : {q.seen}, rows : {q.rows}, day : 0 .. Days]
        /\ q.pc = "write" /\ q.seen = {Volume(run[r].day)} /\ q.day = run[r].day
    BY <1>2, NextPhase DEF RollupInv, Phases
  <2>2. q.seen = {v} /\ q.day = d
    BY <1>3, <1>4, <2>1
  <2> QED BY <2>1, <2>2 DEF RunFits
<1>6. Takes(r, q)
  BY <1>1, <1>5 DEF Takes
<1>7. /\ history' \in [version : Nat, crossed : BOOLEAN, lost : BOOLEAN, rolled : SUBSET (0 .. Days)]
      /\ history'.rolled = history.rolled \cup {d} /\ history'.crossed = history.crossed
      /\ history'.lost = history.lost
  BY <1>1, <1>3 DEF RollupInv, TipTypes
<1>8. RunTypes' /\ TipTypes' /\ ResultTypes' /\ \A e : Volume(e)' = Volume(e)
  BY <1>1, <1>6, <1>7, OneRun, TipTypesStay DEF RollupInv, ResultTypes
<1>9. ASSUME ~history'.crossed
      PROVE  Alone' /\ BoardHolds' /\ DaysHold' /\ (~history'.lost => CacheHolds')
  <2>1. Alone' /\ BoardHolds' /\ (~history'.lost => CacheHolds')
    BY <1>1, <1>5, <1>6, <1>7, <1>9, StaysAlone, BoardStays, CacheStays DEF RollupInv
  <2>2. /\ \A s \in Requests \ {r} : run'[s].pc = "idle" /\ run[s].pc = "idle"
        /\ run'[r] = q
    BY <1>1, <1>6, <1>7, <1>9, StaysAlone, OneRun, IdleFits DEF RollupInv
  <2>3. ASSUME NEW e \in history.rolled \cup {d}
        PROVE  /\ \A s \in Requests : Writes(s, e)' => run'[s].seen = {Volume(e)'}
               /\ (\A s \in Requests : ~Writes(s, e)') => daily'[e] = Volume(e)'
    <3>1. CASE e = d
      BY <1>4, <1>5, <1>8, <2>2, <3>1 DEF Writes
    <3>2. CASE e # d
      <4>1. (\A s \in Requests : ~Writes(s, e)) /\ (\A s \in Requests : ~Writes(s, e)')
        BY <1>1, <1>5, <2>2, <3>2 DEF Writes
      <4> QED BY <1>1, <1>7, <1>8, <1>9, <3>2, <4>1 DEF RollupInv, DaysHold
    <3> QED BY <3>1, <3>2
  <2>4. DaysHold'
    BY <1>7, <2>3 DEF DaysHold
  <2> QED BY <2>1, <2>4
<1> QED BY <1>8, <1>9 DEF RollupInv

LEMMA DayWritten == ASSUME RollupInv, NEW r \in Requests, U!WriteDay(r) PROVE RollupInv'
<1>1. /\ run[r].task = "day" /\ run[r].pc = "write" /\ run[r] # U!Idle /\ Takes(r, U!Idle)
      /\ UNCHANGED <<topic, today, tips, board, score, history>>
  BY IdleFits DEF U!WriteDay, U!Continue, Takes
<1>2. PICK v \in Nat : run[r].seen = {v}
  BY <1>1 DEF RollupInv, RunTypes, RunFits
<1>3. PICK d \in 0 .. Days : d = run[r].day
  BY DEF RollupInv, RunTypes, RunFits
<1>4. daily' = [daily EXCEPT ![d] = v]
  BY <1>2, <1>3 DEF U!WriteDay
<1>5. /\ daily' \in [0 .. Days -> Nat \cup {-1}] /\ daily'[d] = v
      /\ \A e \in (0 .. Days) \ {d} : daily'[e] = daily[e]
  BY <1>4 DEF RollupInv, TipTypes
<1>6. RunTypes' /\ TipTypes' /\ ResultTypes'
  <2>1. Recorded' = Recorded
    BY <1>1 DEF Recorded
  <2> QED BY <1>1, <1>5, <2>1, OneRun DEF RollupInv, ResultTypes, TipTypes
<1>7. ASSUME ~history'.crossed
      PROVE  Alone' /\ BoardHolds' /\ DaysHold' /\ (~history'.lost => CacheHolds')
  <2>1. Alone' /\ BoardHolds' /\ (~history'.lost => CacheHolds')
    BY <1>1, <1>7, StaysAlone, BoardStays, CacheStays, IdleFits DEF RollupInv
  <2>2. \A s \in Requests : run'[s].pc = "idle" /\ (s # r => run[s].pc = "idle")
    BY <1>1, <1>7, StaysAlone, OneRun, IdleFits DEF RollupInv
  <2>3. \A e : Volume(e)' = Volume(e)
    BY <1>1 DEF Volume, U!ConfirmedOn
  <2>4. ASSUME NEW e \in history.rolled PROVE daily'[e] = Volume(e)
    <3>1. CASE e = d
      BY <1>1, <1>2, <1>3, <1>5, <1>7, <3>1 DEF RollupInv, DaysHold, Writes
    <3>2. CASE e # d
      <4>1. \A s \in Requests : ~Writes(s, e)
        BY <1>3, <2>2, <3>2 DEF Writes
      <4>2. e \in 0 .. Days
        BY DEF RollupInv, TipTypes
      <4> QED BY <1>1, <1>5, <1>7, <3>2, <4>1, <4>2 DEF RollupInv, DaysHold
    <3> QED BY <3>1, <3>2
  <2>5. DaysHold'
    BY <1>1, <2>2, <2>3, <2>4 DEF DaysHold, Writes
  <2> QED BY <2>1, <2>5
<1> QED BY <1>6, <1>7 DEF RollupInv


-----------------------------------------------------------------------------
(* The score and its cache. *)

LEMMA TipsSummed == ASSUME RollupInv, NEW r \in Requests, U!SumTips(r) PROVE RollupInv'
<1> DEFINE q == [run[r] EXCEPT !.pc = "store", !.seen = {history.version}]
<1>1. /\ run[r].task = "score" /\ run[r].pc = "sum" /\ run' = [run EXCEPT ![r] = q]
      /\ run[r] # U!Idle /\ UNCHANGED <<topic, today, tips, daily, board, score, history>>
  BY IdleFits DEF U!SumTips, U!Continue
<1>2. Reaches(q, r, "store", {history.version}, run[r].rows)
  BY DEF RollupInv, RunTypes, RunFits, Reaches
<1> HIDE DEF q
<1>3. RunFits(q) /\ q.pc = "store"
  <2>1. /\ q \in [task : Tasks, pc : Phases, seen : {q.seen}, rows : {q.rows}, day : 0 .. Days]
        /\ q.pc = "store" /\ q.seen = {history.version} /\ q.task = run[r].task
    BY <1>2, NextPhase DEF RollupInv, Phases
  <2>2. history.version \in Nat
    BY DEF RollupInv, TipTypes
  <2> QED BY <1>1, <2>1, <2>2 DEF RunFits
<1> QED BY <1>1, <1>3, RunMoves DEF Takes, RollupInv, TipTypes

\* A step of r beside which no run is under way, and after which no cache write was lost.
Undisturbed(r) ==
    /\ ~history'.crossed /\ ~history'.lost
    /\ \A s \in Requests \ {r} : run'[s] = U!Idle /\ run[s] = U!Idle

\* A run of the score goes on, and changes nothing but the score, its cache and what it lost.
LEMMA ScoreMoves ==
    ASSUME RollupInv, NEW r \in Requests, NEW q, Takes(r, q),
           q.pc \in {"idle", "cache", "fillById", "fillByName"},
           run[r].pc \in {"idle", "store", "cache", "fillById", "fillByName"},
           UNCHANGED <<topic, today, tips, daily, board>>, ResultTypes',
           history' \in [version : Nat, crossed : BOOLEAN, lost : BOOLEAN,
                         rolled : SUBSET (0 .. Days)],
           history'.rolled = history.rolled,
           ~history'.crossed => ~history.crossed /\ (run[r] # U!Idle \/ U!Resting),
           Undisturbed(r) => CacheHolds'
    PROVE  RollupInv'
<1> USE DEF RollupInv
<1>1. RunTypes' /\ TipTypes' /\ ResultTypes'
  BY OneRun, TipTypesStay
<1>2. ASSUME ~history'.crossed PROVE Alone' /\ BoardHolds' /\ DaysHold'
  BY <1>2, StaysAlone, BoardStays, DaysStay
<1>3. ASSUME ~history'.crossed, ~history'.lost PROVE CacheHolds'
  BY <1>3, StaysAlone DEF Undisturbed
<1> QED BY <1>1, <1>2, <1>3

\* With the other runs idle, the cache holds when this one has the stored score, or has written it.
LEMMA OneFill ==
    ASSUME RunTypes', NEW r \in Requests,
           \A s \in Requests \ {r} : run'[s] = U!Idle,
           run'[r].pc \in {"cache", "fillById", "fillByName"} => run'[r].seen = {score'.stored},
           run'[r].pc # "cache" => /\ score'.byId \in {-1, score'.stored}
                                   /\ score'.byName \in {-1, score'.stored}
    PROVE  CacheHolds'
BY IdleFits DEF CacheHolds

LEMMA ScoreStored == ASSUME RollupInv, NEW r \in Requests, U!StoreScore(r) PROVE RollupInv'
<1> DEFINE q == [run[r] EXCEPT !.pc = "cache"]
<1>1. /\ run[r].pc = "store" /\ run' = [run EXCEPT ![r] = q] /\ run[r] # U!Idle
      /\ UNCHANGED <<topic, today, tips, daily, board, history>>
  BY IdleFits DEF U!StoreScore, U!Continue
<1>2. Reaches(q, r, "cache", run[r].seen, run[r].rows)
  BY DEF RollupInv, RunTypes, RunFits, Reaches
<1> HIDE DEF q
<1>3. PICK v \in Nat : run[r].seen = {v}
  BY <1>1 DEF RollupInv, RunTypes, RunFits
<1>4. RunFits(q) /\ q.pc = "cache" /\ q.seen = {v}
  <2>1. /\ q \in [task : Tasks, pc : Phases, seen : {q.seen}, rows : {q.rows}, day : 0 .. Days]
        /\ q.pc = "cache" /\ q.seen = run[r].seen /\ q.task = run[r].task
    BY <1>2, NextPhase DEF RollupInv, Phases
  <2>2. run[r].task # "day"
    BY <1>1 DEF RollupInv, RunTypes, RunFits
  <2> QED BY <1>3, <2>1, <2>2 DEF RunFits
<1>5. score' = [score EXCEPT !.stored = v]
  BY <1>3 DEF U!StoreScore
<1>6. ResultTypes' /\ score'.stored = v
  BY <1>1, <1>5 DEF RollupInv, ResultTypes
<1>7. Takes(r, q)
  BY <1>1, <1>4 DEF Takes
<1>8. Undisturbed(r) => CacheHolds'
  BY <1>4, <1>6, <1>7, OneRun, OneFill DEF RollupInv, Undisturbed
<1> QED BY <1>1, <1>4, <1>6, <1>7, <1>8, ScoreMoves DEF RollupInv, TipTypes

LEMMA ScoreRead == ASSUME RollupInv, NEW r \in Requests, U!ReadScore(r) PROVE RollupInv'
<1>1. PICK pc \in {"fillById", "fillByName"} :
         run' = [run EXCEPT ![r] = [U!Idle EXCEPT !.task = "read", !.pc = pc,
                                                  !.seen = {score.stored}]]
  BY DEF U!ReadScore
<1>2. /\ run[r] = U!Idle /\ UNCHANGED <<topic, today, tips, daily, board, score>>
      /\ history' = [history EXCEPT !.crossed = @ \/ ~U!Resting]
  BY DEF U!ReadScore
<1> DEFINE q == [U!Idle EXCEPT !.task = "read", !.pc = pc, !.seen = {score.stored}]
<1>3. 0 \in 0 .. Days /\ score.stored \in Nat
  BY RolledAmounts DEF RollupInv, ResultTypes
<1>4. RunFits(q) /\ q.pc = pc /\ q.seen = {score.stored}
  BY <1>3 DEF RunFits, U!Idle, Tasks, Phases
<1> HIDE DEF q
<1>5. Takes(r, q)
  BY <1>1, <1>4 DEF Takes, q
<1>6. /\ history' \in [version : Nat, crossed : BOOLEAN, lost : BOOLEAN, rolled : SUBSET (0 .. Days)]
      /\ history'.rolled = history.rolled /\ history'.lost = history.lost
      /\ ~history'.crossed => ~history.crossed /\ U!Resting
  <2> HIDE DEF U!Resting
  <2>1. PICK b \in BOOLEAN : b = (history.crossed \/ ~U!Resting)
    BY Zenon
  <2>2. history' = [history EXCEPT !.crossed = b]
    BY <1>2, <2>1
  <2>3. /\ history' \in [version : Nat, crossed : BOOLEAN, lost : BOOLEAN, rolled : SUBSET (0 .. Days)]
        /\ history'.rolled = history.rolled /\ history'.lost = history.lost
        /\ history'.crossed = b
    BY <2>2 DEF RollupInv, TipTypes
  <2> QED BY <2>1, <2>3
<1>7. ASSUME Undisturbed(r) PROVE CacheHolds'
  <2>1. /\ score'.byId \in {-1, score'.stored} /\ score'.byName \in {-1, score'.stored}
    BY <1>2, <1>6, <1>7, IdleFits DEF RollupInv, CacheHolds, U!Resting, Undisturbed
  <2> QED BY <1>2, <1>4, <1>5, <1>7, <2>1, OneRun, OneFill DEF RollupInv, Undisturbed
<1>8. ResultTypes'
  BY <1>2 DEF RollupInv, ResultTypes
<1> QED BY <1>2, <1>4, <1>5, <1>6, <1>7, <1>8, IdleFits, ScoreMoves

\* A cache write stores the score it read under the keys given, or is lost.
LEMMA CacheWritten ==
    ASSUME RollupInv, NEW r \in Requests, NEW keys, U!WriteCache(r, keys),
           \/ run[r].pc = "cache" /\ keys = {"byId", "byName"}
           \/ run[r].pc \in {"fillById", "fillByName"}
    PROVE  RollupInv'
<1>1. /\ run[r] # U!Idle /\ Takes(r, U!Idle) /\ UNCHANGED <<topic, today, tips, daily, board>>
  BY IdleFits DEF U!WriteCache, U!Continue, Takes
<1>2. PICK v \in Nat : run[r].seen = {v}
  BY DEF RollupInv, RunTypes, RunFits
<1>3. CASE score' = U!Cached(v, keys) /\ history' = history
  <2>1. /\ score' \in [stored : Nat, byId : Nat \cup {-1}, byName : Nat \cup {-1}]
        /\ score'.stored = score.stored
        /\ score'.byId = IF "byId" \in keys THEN v ELSE score.byId
        /\ score'.byName = IF "byName" \in keys THEN v ELSE score.byName
    BY <1>3 DEF U!Cached, RollupInv, ResultTypes
  <2>2. ResultTypes'
    BY <1>1, <2>1 DEF RollupInv, ResultTypes
  <2>3. ASSUME Undisturbed(r) PROVE CacheHolds'
    <3>1. v = score.stored
      BY <1>2, <1>3, <2>3 DEF RollupInv, CacheHolds, Undisturbed
    <3>2. run[r].pc # "cache" => /\ score.byId \in {-1, score.stored}
                                 /\ score.byName \in {-1, score.stored}
      BY <1>3, <2>3, IdleFits DEF RollupInv, CacheHolds, Undisturbed
    <3>3. score'.byId \in {-1, score'.stored} /\ score'.byName \in {-1, score'.stored}
      BY <2>1, <3>1, <3>2
    <3> QED BY <1>1, <2>3, <3>3, OneRun, OneFill, IdleFits DEF RollupInv, Undisturbed
  <2> QED BY <1>1, <1>3, <2>2, <2>3, ScoreMoves, IdleFits DEF RollupInv, TipTypes
<1>4. CASE history' = [history EXCEPT !.lost = TRUE] /\ score' = score
  <2>1. /\ history' \in [version : Nat, crossed : BOOLEAN, lost : BOOLEAN, rolled : SUBSET (0 .. Days)]
        /\ history'.rolled = history.rolled /\ history'.lost /\ history'.crossed = history.crossed
    BY <1>4 DEF RollupInv, TipTypes
  <2>2. ResultTypes'
    BY <1>1, <1>4 DEF RollupInv, ResultTypes
  <2>3. ~Undisturbed(r)
    BY <2>1 DEF Undisturbed
  <2> QED BY <1>1, <2>1, <2>2, <2>3, ScoreMoves, IdleFits
<1>5. /\ \/ score' = U!Cached(v, keys) /\ history' = history
         \/ history' = [history EXCEPT !.lost = TRUE] /\ score' = score
  BY <1>2 DEF U!WriteCache
<1> QED BY <1>3, <1>4, <1>5

LEMMA EntryExpired == ASSUME RollupInv, U!Expire PROVE RollupInv'
<1>1. /\ UNCHANGED <<topic, today, tips, daily, board, run, history>>
      /\ \E which \in {"byId", "byName"} : score' = [score EXCEPT ![which] = -1]
  BY DEF U!Expire, U!None
<1>2. /\ score' \in [stored : Nat, byId : Nat \cup {-1}, byName : Nat \cup {-1}]
      /\ score'.stored = score.stored /\ score'.byId \in {-1, score.byId}
      /\ score'.byName \in {-1, score.byName}
  BY <1>1 DEF RollupInv, ResultTypes
<1>3. /\ RunTypes' /\ TipTypes' /\ ResultTypes' /\ (Alone => Alone')
      /\ (BoardHolds => BoardHolds')
  <2>1. Recorded' = Recorded
    BY <1>1 DEF Recorded
  <2> QED BY <1>1, <1>2, <2>1 DEF RollupInv, RunTypes, TipTypes, ResultTypes, Alone, BoardHolds
<1>4. DaysHold => DaysHold'
  <2>1. \A d : Volume(d)' = Volume(d)
    BY <1>1 DEF Volume, U!ConfirmedOn
  <2> QED BY <1>1, <2>1 DEF DaysHold, Writes
<1>5. CacheHolds => CacheHolds'
  BY <1>1, <1>2 DEF CacheHolds
<1> QED BY <1>1, <1>3, <1>4, <1>5 DEF RollupInv

-----------------------------------------------------------------------------
(* The tips change. *)

\* A day whose tips change is no longer one whose rollup is exact.
LEMMA TipChanged ==
    ASSUME RollupInv, NEW t \in RolledTips, NEW new \in [status : Statuses, day : 0 .. Days],
           U!Changed(t, new), tips[t].status = "none" \/ new.day = tips[t].day,
           new.status # "none", daily' \in [0 .. Days -> Nat \cup {-1}],
           \A d \in (0 .. Days) \ {new.day} : daily'[d] = daily[d]
    PROVE  RollupInv'
<1>1. /\ tips' = [tips EXCEPT ![t] = new] /\ UNCHANGED <<topic, today, board, score, run>>
      /\ history' = [history EXCEPT !.version = @ + 1, !.rolled = @ \ {new.day}]
  BY DEF U!Changed
<1>2. /\ history' \in [version : Nat, crossed : BOOLEAN, lost : BOOLEAN, rolled : SUBSET (0 .. Days)]
      /\ history'.rolled = history.rolled \ {new.day}
      /\ history'.crossed = history.crossed /\ history'.lost = history.lost
  <2>1. PICK version \in Nat : version = history.version + 1
    BY DEF RollupInv, TipTypes
  <2>2. PICK rolled \in SUBSET (0 .. Days) : rolled = history.rolled \ {new.day}
    BY DEF RollupInv, TipTypes
  <2>3. history' = [history EXCEPT !.version = version, !.rolled = rolled]
    BY <1>1, <2>1, <2>2
  <2> QED BY <2>2, <2>3 DEF RollupInv, TipTypes
<1>3. TipTypes'
  <2>1. Recorded' = Recorded \cup {t}
    BY <1>1 DEF Recorded, RollupInv, TipTypes
  <2>2. IsFiniteSet(Recorded')
    BY <2>1, FS_AddElement DEF RollupInv, TipTypes
  <2>3. tips' \in [RolledTips -> [status : Statuses, day : 0 .. Days]]
    BY <1>1 DEF RollupInv, TipTypes
  <2> QED BY <1>1, <1>2, <2>2, <2>3 DEF RollupInv, TipTypes
<1>4. /\ RunTypes' /\ ResultTypes' /\ (Alone => Alone') /\ (BoardHolds => BoardHolds')
      /\ (CacheHolds => CacheHolds')
  BY <1>1 DEF RollupInv, RunTypes, ResultTypes, Alone, BoardHolds, CacheHolds
<1>5. DaysHold => DaysHold'
  <2>1. ASSUME NEW d \in (0 .. Days) \ {new.day} PROVE Volume(d)' = Volume(d)
    <3>1. ASSUME NEW s \in RolledTips
          PROVE  (tips'[s].status = "CONFIRMED" /\ tips'[s].day = d)
                 <=> (tips[s].status = "CONFIRMED" /\ tips[s].day = d)
      BY <1>1, <2>1 DEF RollupInv, TipTypes
    <3>2. U!ConfirmedOn(d)' = U!ConfirmedOn(d)
      BY <3>1 DEF U!ConfirmedOn
    <3> QED BY <3>2 DEF Volume
  <2>2. \A d \in history'.rolled : d \in (0 .. Days) \ {new.day} /\ d \in history.rolled
    BY <1>2 DEF RollupInv, TipTypes
  <2> QED BY <1>1, <2>1, <2>2 DEF DaysHold, Writes
<1> QED BY <1>2, <1>3, <1>4, <1>5 DEF RollupInv

LEMMA TipRecorded == ASSUME RollupInv, NEW t \in RolledTips, U!RecordTip(t) PROVE RollupInv'
<1> DEFINE new == [status |-> "PENDING", day |-> today]
<1>1. /\ tips[t].status = "none" /\ U!Changed(t, new)
      /\ daily' = [daily EXCEPT ![today] = (IF @ = -1 THEN 0 ELSE @) + RolledAmount[t]]
  BY DEF U!RecordTip, U!None
<1>2. new \in [status : Statuses, day : 0 .. Days] /\ new.status # "none" /\ new.day = today
  BY DEF RollupInv, TipTypes, Statuses
<1>3. /\ daily' \in [0 .. Days -> Nat \cup {-1}]
      /\ \A d \in (0 .. Days) \ {today} : daily'[d] = daily[d]
  BY <1>1, RolledAmounts DEF RollupInv, TipTypes
<1> HIDE DEF new
<1> QED BY <1>1, <1>2, <1>3, TipChanged

LEMMA TipSettled == ASSUME RollupInv, NEW t \in RolledTips, U!SettleTip(t) PROVE RollupInv'
<1>1. PICK status \in {"CONFIRMED", "REFUNDED"} : U!Changed(t, [tips[t] EXCEPT !.status = status])
  BY DEF U!SettleTip
<1> DEFINE new == [tips[t] EXCEPT !.status = status]
<1>2. new \in [status : Statuses, day : 0 .. Days] /\ new.status # "none" /\ new.day = tips[t].day
  BY DEF RollupInv, TipTypes, Statuses
<1>3. daily' = daily
  BY DEF U!SettleTip
<1> HIDE DEF new
<1>4. U!Changed(t, new)
  BY <1>1 DEF new
<1> QED BY <1>2, <1>3, <1>4, TipChanged DEF RollupInv, TipTypes

LEMMA MidnightPassed == ASSUME RollupInv, U!Midnight PROVE RollupInv'
<1>1. UNCHANGED <<topic, tips, daily, board, score, run, history>> /\ today' \in 0 .. Days
  BY RolledAmounts DEF U!Midnight, RollupInv, TipTypes
<1>2. Recorded' = Recorded /\ \A d : Volume(d)' = Volume(d)
  BY <1>1 DEF Recorded, Volume, U!ConfirmedOn
<1> QED BY <1>1, <1>2 DEF RollupInv, RunTypes, TipTypes, ResultTypes, Alone, BoardHolds,
           CacheHolds, DaysHold, Writes

LEMMA RollupStutters == ASSUME RollupInv, UNCHANGED U!vars PROVE RollupInv'
<1>1. UNCHANGED <<topic, today, tips, daily, board, score, run, history>>
  BY DEF U!vars
<1>2. Recorded' = Recorded /\ \A d : Volume(d)' = Volume(d)
  BY <1>1 DEF Recorded, Volume, U!ConfirmedOn
<1> QED BY <1>1, <1>2 DEF RollupInv, RunTypes, TipTypes, ResultTypes, Alone, BoardHolds,
           CacheHolds, DaysHold, Writes

LEMMA RunBegan ==
    ASSUME RollupInv, NEW r \in Requests, U!BeginBoard(r) \/ U!BeginDay(r) \/ U!BeginScore(r)
    PROVE  RollupInv'
<1>0. 0 \in 0 .. Days
  BY RolledAmounts
<1>1. CASE U!BeginBoard(r)
  BY <1>0, <1>1, Began DEF U!BeginBoard, Tasks
<1>2. CASE U!BeginDay(r)
  <2>1. PICK d \in {today - 1, today} \cap Nat : U!Begin(r, "day", "sum", d)
    BY <1>2 DEF U!BeginDay
  <2>2. d \in 0 .. Days
    BY RolledAmounts DEF RollupInv, TipTypes
  <2> QED BY <2>1, <2>2, Began DEF Tasks
<1>3. CASE U!BeginScore(r)
  BY <1>0, <1>3, Began DEF U!BeginScore, Tasks
<1> QED BY <1>1, <1>2, <1>3

LEMMA RollupNextInv == RollupInv /\ [U!Next]_(U!vars) => RollupInv'
<1> SUFFICES ASSUME RollupInv, [U!Next]_(U!vars) PROVE RollupInv'
  OBVIOUS
<1>1. ASSUME NEW t \in RolledTips, U!RecordTip(t) \/ U!SettleTip(t) PROVE RollupInv'
  BY <1>1, TipRecorded, TipSettled
<1>2. ASSUME U!Midnight \/ U!Expire \/ U!Quiet PROVE RollupInv'
  BY <1>2, MidnightPassed, EntryExpired, RollupStutters DEF U!Quiet
<1>3. ASSUME NEW r \in Requests, U!BeginBoard(r) \/ U!BeginDay(r) \/ U!BeginScore(r) \/ U!ReadScore(r)
      PROVE  RollupInv'
  BY <1>3, RunBegan, ScoreRead
<1>4. ASSUME NEW r \in Requests, U!Step(r) PROVE RollupInv'
  <2>1. CASE U!CacheScore(r) \/ U!FillCache(r)
    BY <2>1, CacheWritten DEF U!CacheScore, U!FillCache
  <2> QED BY <1>4, <2>1, Ranked, RowsDeleted, RowsInserted, DaySummed, DayWritten, TipsSummed,
             ScoreStored DEF U!Step
<1> QED BY <1>1, <1>2, <1>3, <1>4, RollupStutters DEF U!Next, U!Run

LEMMA RollupsHold ==
    RollupInv => /\ U!TypeOK /\ U!BoardListsOnce /\ U!CacheAgrees /\ U!RolledDaysAreExact
<1> SUFFICES ASSUME RollupInv
             PROVE  U!TypeOK /\ U!BoardListsOnce /\ U!CacheAgrees /\ U!RolledDaysAreExact
  OBVIOUS
<1>1. U!TypeOK
  BY DEF RollupInv, RunTypes, RunFits, TipTypes, ResultTypes, Ranks, Statuses, Tasks, U!TypeOK,
         U!None
<1>2. U!BoardListsOnce
  BY DEF RollupInv, BoardHolds, ListsOnce, U!BoardListsOnce
<1>3. U!CacheAgrees
  BY IdleFits DEF RollupInv, CacheHolds, U!CacheAgrees, U!Resting, U!None
<1>4. U!RolledDaysAreExact
  BY IdleFits DEF RollupInv, DaysHold, Writes, Volume, U!RolledDaysAreExact, U!Resting
<1> QED BY <1>1, <1>2, <1>3, <1>4

-----------------------------------------------------------------------------
(* The payouts: the withdrawals of a creator and the schedule. *)

PayoutTypes ==
    /\ clock \in Nat
    /\ creator \in [received : 0 .. MaxReceived, active : BOOLEAN]
    /\ withdrawal \subseteq Transactions /\ IsFiniteSet(withdrawal)
    /\ submit \in [Requests -> [pc : {"idle", "check", "broadcast", "record"},
                                tx : Transactions \cup {"none"}]]
    /\ \A r \in Requests : submit[r].pc # "idle" => submit[r].tx \in Transactions
    /\ history \in [overlap : BOOLEAN, edited : BOOLEAN, failures : Nat,
                lost : Nat]

\* Without an overlap the requests past the check send one transaction, and it is covered.
Inside(r) == submit[r].pc \in {"broadcast", "record"}
Covered ==
    /\ SetSum(SentAmount, withdrawal) <= creator.received + history.lost
    /\ \A r \in Requests : Inside(r) =>
          SetSum(SentAmount, withdrawal \cup {submit[r].tx}) <= creator.received + history.lost
    /\ \A r, q \in Requests : Inside(r) /\ Inside(q) => submit[r].tx = submit[q].tx

\* A schedule is paused when its failures are exhausted.
Sound(s) ==
    /\ s \in [enabled : BOOLEAN, threshold : Nat, cadence : DOMAIN Cadences, paused : BOOLEAN,
              failures : 0 .. Attempts, nextRunAt : {s.nextRunAt}]
    /\ s.paused <=> s.failures = Attempts

\* The sweep holds a schedule that was not paused, and nobody else pauses it.
SweepTypes ==
    /\ Sound(sweep.seen)
    /\ sweep \in [pc : {"asleep", "balance", "submit", "write"}, seen : {sweep.seen}, at : {sweep.at},
                  outcome : {"none", "SKIPPED", "SUCCESS", "FAILED"}]
    /\ sweep.pc = "write" => sweep.outcome # "none"
SweepHolds ==
    sweep.pc # "asleep" => /\ ~sweep.seen.paused /\ ~schedule.paused
                           /\ ~history.edited => sweep.seen.failures = schedule.failures
CountHolds == ~history.edited => schedule.failures = history.failures

PayoutInv ==
    /\ PayoutTypes /\ Sound(schedule) /\ SweepTypes /\ SweepHolds /\ CountHolds
    /\ ~history.overlap => Covered

LEMMA PayoutConstants ==
    /\ SentAmount \in [Transactions -> Nat \ {0}]
    /\ Attempts \in Nat \ {0} /\ MaxReceived \in Nat /\ "MANUAL" \in DOMAIN Cadences
BY Assumptions DEF P!PayoutsAssumption

LEMMA TakenIsSum == P!Taken = SetSum(SentAmount, withdrawal)
BY Zenon DEF P!Taken, P!MapThenSumSet, P!MapThenFoldSet, SetSum, MapThenSumSet, MapThenFoldSet

LEMMA NoScheduleIsSound == Sound(P!NoSchedule) /\ ~P!NoSchedule.paused
<1>1. 0 \in 0 .. Attempts /\ 0 # Attempts /\ 0 \in Nat
  BY PayoutConstants
<1> QED BY <1>1, PayoutConstants DEF Sound, P!NoSchedule

LEMMA AsleepIsSound ==
    /\ Sound(P!Asleep.seen) /\ P!Asleep.pc = "asleep"
    /\ P!Asleep \in [pc : {"asleep", "balance", "submit", "write"}, seen : {P!Asleep.seen}, at : {P!Asleep.at},
                     outcome : {"none", "SKIPPED", "SUCCESS", "FAILED"}]
<1>1. P!Asleep.seen = P!NoSchedule
  BY DEF P!Asleep
<1> QED BY <1>1, NoScheduleIsSound DEF P!Asleep

LEMMA PayoutInitInv == P!Init => PayoutInv
<1> SUFFICES ASSUME P!Init PROVE PayoutInv
  OBVIOUS
<1>1. IsFiniteSet(withdrawal) /\ SetSum(SentAmount, withdrawal) = 0
  <2>1. withdrawal = {} /\ \A t \in {} : SentAmount[t] \in Int
    BY DEF P!Init
  <2> QED BY <2>1, FS_EmptySet, SetSumSteps
<1>2. PayoutTypes
  BY <1>1, PayoutConstants DEF PayoutTypes, P!Init, P!Idle
<1>3. Covered
  BY <1>1 DEF Covered, Inside, P!Init, P!Idle
<1>4. Sound(schedule) /\ SweepTypes /\ SweepHolds
  BY NoScheduleIsSound, AsleepIsSound DEF SweepTypes, SweepHolds, P!Init
<1>5. CountHolds
  BY DEF CountHolds, P!Init, P!NoSchedule
<1> QED BY <1>2, <1>3, <1>4, <1>5 DEF PayoutInv

\* What a step of the sweep or of the schedule leaves alone.
LEMMA RequestsStay ==
    ASSUME PayoutInv, UNCHANGED <<clock, creator, withdrawal, submit>>,
           history' \in [overlap : BOOLEAN, edited : BOOLEAN, failures : Nat,
                lost : Nat],
           history'.overlap = history.overlap, history'.lost = history.lost
    PROVE  PayoutTypes' /\ (~history'.overlap => Covered')
BY DEF PayoutInv, PayoutTypes, Covered, Inside

\* What a step of a request leaves alone.
LEMMA ScheduleStays ==
    ASSUME PayoutInv, UNCHANGED <<schedule, sweep>>, history'.edited = history.edited,
           history'.failures = history.failures
    PROVE  Sound(schedule)' /\ SweepTypes' /\ SweepHolds' /\ CountHolds'
BY DEF PayoutInv, Sound, SweepTypes, SweepHolds, CountHolds

-----------------------------------------------------------------------------
(* The requests. *)

LEMMA BalanceChecked == ASSUME PayoutInv, NEW r \in Requests, P!CheckBalance(r) PROVE PayoutInv'
<1>1. PICK t \in Transactions : t = submit[r].tx /\ submit[r].pc = "check"
  BY DEF P!CheckBalance, PayoutInv, PayoutTypes
<1>2. UNCHANGED <<clock, creator, withdrawal, schedule, sweep>>
  BY DEF P!CheckBalance
<1>3. CASE P!Affordable(t)
  <2>1. submit' = [submit EXCEPT ![r].pc = "broadcast"]
    BY <1>1, <1>3 DEF P!CheckBalance
  <2>2. PICK b \in BOOLEAN : /\ b = (history.overlap \/ P!Admitted(t) # {})
    BY Zenon
  <2>3. history' = [history EXCEPT !.overlap = b, !.lost = 0]
    BY <1>1, <1>3, <2>2 DEF P!CheckBalance
  <2>4. /\ history' \in [overlap : BOOLEAN, edited : BOOLEAN, failures : Nat,
                lost : Nat]
        /\ history'.overlap = b /\ history'.edited = history.edited
        /\ history'.failures = history.failures /\ history'.lost = 0
    BY <2>3 DEF PayoutInv, PayoutTypes
  <2>5. /\ submit' \in [Requests -> [pc : {"idle", "check", "broadcast", "record"},
                                     tx : Transactions \cup {"none"}]]
        /\ submit'[r].tx = t /\ \A q \in Requests : submit'[q].tx = submit[q].tx
        /\ \A q \in Requests \ {r} : submit'[q] = submit[q]
    BY <1>1, <2>1 DEF PayoutInv, PayoutTypes
  <2>6. PayoutTypes'
    BY <1>1, <1>2, <2>4, <2>5 DEF PayoutInv, PayoutTypes
  <2>7. ASSUME ~history'.overlap PROVE Covered'
    <3>1. Covered /\ P!Admitted(t) = {}
      BY <2>2, <2>4, <2>7 DEF PayoutInv
    <3>2. \A q \in Requests \ {r} : Inside(q)' => Inside(q) /\ submit[q].tx = t
      BY <2>5, <3>1 DEF Inside, P!Admitted
    <3>3. SetSum(SentAmount, withdrawal \cup {t}) <= creator.received
      <4>1. /\ IsFiniteSet(withdrawal) /\ \A x \in withdrawal \cup {t} : SentAmount[x] \in Int
            /\ \A x \in withdrawal : SentAmount[x] \in Nat
        BY PayoutConstants DEF PayoutInv, PayoutTypes
      <4>2. SetSum(SentAmount, withdrawal) \in Nat
        BY <4>1, SetSumNat
      <4>3. /\ SentAmount[t] \in Nat \ {0} /\ creator.received \in Nat
            /\ SentAmount[t] <= P!Balance
        BY <1>3, PayoutConstants DEF P!Affordable, PayoutInv, PayoutTypes
      <4>4. P!Balance = IF creator.received > SetSum(SentAmount, withdrawal)
                        THEN creator.received - SetSum(SentAmount, withdrawal) ELSE 0
        BY TakenIsSum DEF P!Balance
      <4>5. SetSum(SentAmount, withdrawal) + SentAmount[t] <= creator.received
        BY <4>2, <4>3, <4>4
      <4>6. \/ withdrawal \cup {t} = withdrawal
            \/ SetSum(SentAmount, withdrawal \cup {t}) = SentAmount[t] + SetSum(SentAmount, withdrawal)
        BY <4>1, SetSumAdds
      <4> QED BY <4>2, <4>3, <4>5, <4>6
    <3>4. SetSum(SentAmount, withdrawal) <= creator.received
      <4>1. /\ IsFiniteSet(withdrawal) /\ \A x \in withdrawal : SentAmount[x] \in Nat
            /\ SentAmount[t] \in Nat \ {0} /\ creator.received \in Nat /\ SentAmount[t] <= P!Balance
        BY <1>3, PayoutConstants DEF P!Affordable, PayoutInv, PayoutTypes
      <4>2. SetSum(SentAmount, withdrawal) \in Nat
        BY <4>1, SetSumNat
      <4>3. P!Balance = IF creator.received > SetSum(SentAmount, withdrawal)
                        THEN creator.received - SetSum(SentAmount, withdrawal) ELSE 0
        BY TakenIsSum DEF P!Balance
      <4> QED BY <4>1, <4>2, <4>3
    <3>5. creator.received + 0 = creator.received
      BY DEF PayoutInv, PayoutTypes
    <3> QED BY <1>2, <2>4, <2>5, <3>1, <3>2, <3>3, <3>4, <3>5 DEF Covered
  <2> QED BY <1>2, <2>4, <2>6, <2>7, ScheduleStays DEF PayoutInv
<1>4. CASE ~P!Affordable(t)
  <2>1. submit' = [submit EXCEPT ![r] = P!Idle] /\ history' = history
    BY <1>1, <1>4 DEF P!CheckBalance
  <2>2. PayoutTypes' /\ (~history'.overlap => Covered')
    BY <1>2, <2>1 DEF PayoutInv, PayoutTypes, Covered, Inside, P!Idle
  <2> QED BY <1>2, <2>1, <2>2, ScheduleStays DEF PayoutInv
<1> QED BY <1>3, <1>4

LEMMA RequestSent ==
    ASSUME PayoutInv, NEW r \in Requests, NEW t \in Transactions, P!Send(r, t) PROVE PayoutInv'
<1>1. /\ submit' = [submit EXCEPT ![r] = [pc |-> "check", tx |-> t]]
      /\ UNCHANGED <<clock, creator, withdrawal, schedule, sweep, history>>
  BY DEF P!Send
<1>2. PayoutTypes'
  BY <1>1 DEF PayoutInv, PayoutTypes
<1>3. Covered => Covered'
  BY <1>1 DEF PayoutInv, PayoutTypes, Covered, Inside
<1> QED BY <1>1, <1>2, <1>3, ScheduleStays DEF PayoutInv

LEMMA RequestBroadcast == ASSUME PayoutInv, NEW r \in Requests, P!Broadcast(r) PROVE PayoutInv'
<1>1. /\ submit[r].pc = "broadcast"
      /\ UNCHANGED <<clock, creator, withdrawal, schedule, sweep, history>>
      /\ \/ submit' = [submit EXCEPT ![r].pc = "record"]
         \/ submit' = [submit EXCEPT ![r] = P!Idle]
  BY DEF P!Broadcast
<1>2. /\ submit' \in [Requests -> [pc : {"idle", "check", "broadcast", "record"},
                                   tx : Transactions \cup {"none"}]]
      /\ submit'[r].pc = "idle" \/ submit'[r].tx = submit[r].tx
      /\ \A q \in Requests \ {r} : submit'[q] = submit[q]
  BY <1>1 DEF PayoutInv, PayoutTypes, P!Idle
<1>3. PayoutTypes'
  BY <1>1, <1>2 DEF PayoutInv, PayoutTypes
<1>4. Covered => Covered'
  BY <1>1, <1>2 DEF Covered, Inside
<1> QED BY <1>1, <1>3, <1>4, ScheduleStays DEF PayoutInv

LEMMA RequestRecorded == ASSUME PayoutInv, NEW r \in Requests, P!Record(r) PROVE PayoutInv'
<1>1. PICK t \in Transactions : t = submit[r].tx /\ submit[r].pc = "record"
  BY DEF P!Record, PayoutInv, PayoutTypes
<1>2. /\ UNCHANGED <<clock, creator, schedule, sweep, history>>
      /\ withdrawal' = withdrawal \cup {t} /\ submit' = [submit EXCEPT ![r] = P!Idle]
  BY <1>1 DEF P!Record
<1>3. IsFiniteSet(withdrawal')
  BY <1>2, FS_AddElement DEF PayoutInv, PayoutTypes
<1>4. PayoutTypes'
  BY <1>2, <1>3 DEF PayoutInv, PayoutTypes, P!Idle
<1>5. ASSUME Covered PROVE Covered'
  <2>1. \A q \in Requests : Inside(q)' => Inside(q) /\ submit'[q] = submit[q] /\ submit[q].tx = t
    BY <1>1, <1>2, <1>5 DEF Covered, Inside, PayoutInv, PayoutTypes, P!Idle
  <2>2. SetSum(SentAmount, withdrawal') <= creator.received + history.lost /\ withdrawal' \cup {t} = withdrawal'
    BY <1>1, <1>2, <1>5 DEF Covered, Inside
  <2> QED BY <1>2, <2>1, <2>2 DEF Covered
<1> QED BY <1>2, <1>4, <1>5, ScheduleStays DEF PayoutInv

LEMMA CreatorChanged ==
    ASSUME PayoutInv, P!TipConfirmed \/ P!TipUnconfirmed \/ P!AccountToggled \/ P!Tick
    PROVE  PayoutInv'
<1>1. /\ UNCHANGED <<withdrawal, schedule, submit, sweep>> /\ clock' \in Nat
      /\ creator' \in [received : 0 .. MaxReceived, active : BOOLEAN]
      /\ history' \in [overlap : BOOLEAN, edited : BOOLEAN, failures : Nat, lost : Nat]
      /\ history'.overlap = history.overlap /\ history'.edited = history.edited
      /\ history'.failures = history.failures
      /\ creator'.received + history'.lost >= creator.received + history.lost
  <2>1. CASE P!TipConfirmed
    BY <2>1, PayoutConstants DEF P!TipConfirmed, PayoutInv, PayoutTypes
  <2>2. CASE P!AccountToggled
    <3>1. PICK b \in BOOLEAN : b = ~creator.active
      OBVIOUS
    <3>2. UNCHANGED <<clock, withdrawal, schedule, submit, sweep, history>>
      BY <2>2 DEF P!AccountToggled
    <3>3. creator' = [creator EXCEPT !.active = b]
      BY <2>2, <3>1 DEF P!AccountToggled
    <3>4. /\ creator' \in [received : 0 .. MaxReceived, active : BOOLEAN]
          /\ creator'.received = creator.received
      BY <3>3 DEF PayoutInv, PayoutTypes
    <3> QED BY <3>2, <3>4, PayoutConstants DEF PayoutInv, PayoutTypes
  <2>3. CASE P!Tick
    BY <2>3 DEF P!Tick, PayoutInv, PayoutTypes
  <2>4. CASE P!TipUnconfirmed
    <3>1. PICK n \in 0 .. MaxReceived, k \in Nat :
             n + 1 = creator.received /\ k = history.lost + 1
      <4>1. /\ creator.received \in 0 .. MaxReceived /\ history.lost \in Nat /\ MaxReceived \in Nat
            /\ creator.received > 0
        BY <2>4, PayoutConstants DEF P!TipUnconfirmed, PayoutInv, PayoutTypes
      <4>2. creator.received - 1 \in 0 .. MaxReceived /\ history.lost + 1 \in Nat
        BY <4>1
      <4>3. (creator.received - 1) + 1 = creator.received
        BY <4>1
      <4> QED BY <4>2, <4>3
    <3>2. /\ creator' = [creator EXCEPT !.received = n] /\ history' = [history EXCEPT !.lost = k]
          /\ UNCHANGED <<clock, withdrawal, schedule, submit, sweep>>
      <4>1. creator.received - 1 = n
        BY <3>1, PayoutConstants
      <4> QED BY <2>4, <3>1, <4>1 DEF P!TipUnconfirmed
    <3> QED BY <3>1, <3>2, PayoutConstants DEF PayoutInv, PayoutTypes
  <2> QED BY <2>1, <2>2, <2>3, <2>4
<1>2. PayoutTypes'
  BY <1>1 DEF PayoutInv, PayoutTypes
<1>3. ASSUME Covered PROVE Covered'
  <2>1. /\ creator.received + history.lost \in Nat /\ creator'.received + history'.lost \in Nat
        /\ \A s \in SUBSET Transactions : IsFiniteSet(s) => SetSum(SentAmount, s) \in Nat
    <3>1. ASSUME NEW s \in SUBSET Transactions, IsFiniteSet(s) PROVE SetSum(SentAmount, s) \in Nat
      BY <3>1, SetSumNat, PayoutConstants
    <3> QED BY <1>1, <3>1 DEF PayoutInv, PayoutTypes
  <2>2. \A r \in Requests : Inside(r) => IsFiniteSet(withdrawal \cup {submit[r].tx})
                                          /\ submit[r].tx \in Transactions
    BY FS_AddElement DEF PayoutInv, PayoutTypes, Inside
  <2>3. withdrawal \in SUBSET Transactions /\ IsFiniteSet(withdrawal)
    BY DEF PayoutInv, PayoutTypes
  <2>4. SetSum(SentAmount, withdrawal) <= creator'.received + history'.lost
    BY <1>1, <1>3, <2>1, <2>3 DEF Covered
  <2>5. ASSUME NEW r \in Requests, Inside(r)
        PROVE  SetSum(SentAmount, withdrawal \cup {submit[r].tx}) <= creator'.received + history'.lost
    <3>1. withdrawal \cup {submit[r].tx} \in SUBSET Transactions
      BY <2>2, <2>3, <2>5
    <3>2. SetSum(SentAmount, withdrawal \cup {submit[r].tx}) \in Nat
      BY <2>1, <2>2, <2>5, <3>1
    <3> QED BY <1>1, <1>3, <2>1, <2>5, <3>2 DEF Covered
  <2> QED BY <1>1, <1>3, <2>4, <2>5 DEF Covered, Inside
<1> QED BY <1>1, <1>2, <1>3, ScheduleStays DEF PayoutInv

-----------------------------------------------------------------------------
(* The schedule and its sweep. *)

LEMMA ScheduleEdited ==
    ASSUME PayoutInv, P!Edited, UNCHANGED <<clock, creator, withdrawal, submit, sweep>>,
           Sound(schedule'), ~schedule'.paused \/ schedule'.paused = schedule.paused,
           schedule'.failures = IF schedule'.enabled THEN 0 ELSE schedule.failures
    PROVE  PayoutInv'
<1>1. PICK edited \in BOOLEAN : edited = (history.edited \/ sweep.pc # "asleep")
  BY Zenon
<1>2. PICK failures \in Nat : failures = IF schedule'.enabled THEN 0 ELSE history.failures
  BY DEF PayoutInv, PayoutTypes
<1>3. history' = [history EXCEPT !.edited = edited, !.failures = failures]
  BY <1>1, <1>2 DEF P!Edited
<1>4. /\ history' \in [overlap : BOOLEAN, edited : BOOLEAN, failures : Nat,
                lost : Nat]
      /\ history'.overlap = history.overlap /\ history'.edited = edited
      /\ history'.failures = failures /\ history'.lost = history.lost
  BY <1>3 DEF PayoutInv, PayoutTypes
<1>5. PayoutTypes' /\ (~history'.overlap => Covered')
  BY <1>4, RequestsStay
<1>6. SweepTypes' /\ SweepHolds'
  BY <1>1, <1>4 DEF PayoutInv, SweepTypes, SweepHolds, Sound
<1>7. CountHolds'
  BY <1>1, <1>2, <1>4 DEF PayoutInv, CountHolds
<1> QED BY <1>5, <1>6, <1>7 DEF PayoutInv, Sound

LEMMA OptedIn ==
    ASSUME PayoutInv, NEW c \in DOMAIN Cadences, NEW m \in {0, MaxReceived}, P!OptIn(c, m)
    PROVE  PayoutInv'
<1> DEFINE q == [enabled |-> TRUE, threshold |-> m, cadence |-> c, paused |-> FALSE,
                 failures |-> 0, nextRunAt |-> clock]
<1>1. schedule' = q /\ P!Edited /\ UNCHANGED <<clock, creator, withdrawal, submit, sweep>>
  BY DEF P!OptIn
<1>2. 0 \in 0 .. Attempts /\ 0 # Attempts /\ m \in Nat
  BY PayoutConstants
<1>3. Sound(q) /\ q.enabled = TRUE /\ q.paused = FALSE /\ q.failures = 0
  BY <1>2 DEF Sound
<1> HIDE DEF q
<1> QED BY <1>1, <1>3, ScheduleEdited

LEMMA OptedOut == ASSUME PayoutInv, P!OptOut PROVE PayoutInv'
<1> DEFINE q == [schedule EXCEPT !.enabled = FALSE]
<1>1. schedule' = q /\ P!Edited /\ UNCHANGED <<clock, creator, withdrawal, submit, sweep>>
  BY DEF P!OptOut
<1>2. /\ Sound(q) /\ q.enabled = FALSE /\ q.paused = schedule.paused
      /\ q.failures = schedule.failures
  BY DEF PayoutInv, Sound
<1> HIDE DEF q
<1> QED BY <1>1, <1>2, ScheduleEdited

LEMMA SweepGoesOn ==
    ASSUME PayoutInv, P!ListEligible \/ P!ReadBalance \/ P!SubmitScheduled \/ P!Crash
    PROVE  PayoutInv'
<1>1. UNCHANGED <<clock, creator, withdrawal, schedule, submit, history>>
  BY DEF P!ListEligible, P!ReadBalance, P!SubmitScheduled, P!Crash
<1>2. SweepTypes' /\ SweepHolds'
  <2>1. CASE P!ListEligible
    <3>1. /\ sweep' = [P!Asleep EXCEPT !.pc = "balance", !.seen = schedule, !.at = clock]
          /\ ~schedule.paused
      BY <2>1 DEF P!ListEligible, P!Eligible
    <3>2. PICK a : a = P!Asleep
      OBVIOUS
    <3>3. /\ sweep' \in [pc : {"asleep", "balance", "submit", "write"}, seen : {sweep'.seen}, at : {sweep'.at},
                         outcome : {"none", "SKIPPED", "SUCCESS", "FAILED"}]
          /\ sweep'.seen = schedule /\ sweep'.pc = "balance"
      BY <3>1, <3>2, AsleepIsSound
    <3> QED BY <1>1, <3>1, <3>3 DEF PayoutInv, SweepTypes, SweepHolds
  <2>2. CASE P!Crash
    BY <2>2, AsleepIsSound DEF P!Crash, SweepTypes, SweepHolds
  <2>3. CASE P!ReadBalance \/ P!SubmitScheduled
    <3>1. PICK pc \in {"submit", "write"}, out \in {"none", "SKIPPED", "SUCCESS", "FAILED"} :
             /\ pc = "write" => out # "none"
             /\ sweep' = [sweep EXCEPT !.pc = pc, !.outcome = out]
      <4> DEFINE Moves(pc, out) == sweep' = [sweep EXCEPT !.pc = pc, !.outcome = out]
      <4>1. CASE P!SubmitScheduled
        BY <4>1 DEF P!SubmitScheduled
      <4>2. CASE P!ReadBalance
        <5>1. \/ Moves("write", "SKIPPED")
              \/ sweep' = [sweep EXCEPT !.pc = "submit"]
          BY <4>2 DEF P!ReadBalance
        <5>2. [sweep EXCEPT !.pc = "submit"]
                 = [sweep EXCEPT !.pc = "submit", !.outcome = sweep.outcome]
          BY DEF PayoutInv, SweepTypes
        <5>3. sweep.outcome \in {"none", "SKIPPED", "SUCCESS", "FAILED"}
          BY DEF PayoutInv, SweepTypes
        <5> QED BY <5>1, <5>2, <5>3
      <4> QED BY <2>3, <4>1, <4>2
    <3>2. /\ sweep' \in [pc : {"asleep", "balance", "submit", "write"}, seen : {sweep.seen}, at : {sweep.at},
                         outcome : {"none", "SKIPPED", "SUCCESS", "FAILED"}]
          /\ sweep'.seen = sweep.seen /\ sweep'.pc = pc /\ sweep'.outcome = out
      BY <3>1 DEF PayoutInv, SweepTypes
    <3>3. sweep.pc # "asleep"
      BY <2>3 DEF P!ReadBalance, P!SubmitScheduled
    <3> QED BY <1>1, <3>1, <3>2, <3>3 DEF PayoutInv, SweepTypes, SweepHolds, Sound
  <2> QED BY <2>1, <2>2, <2>3
<1>3. history' \in [overlap : BOOLEAN, edited : BOOLEAN, failures : Nat,
                lost : Nat]
  BY <1>1 DEF PayoutInv, PayoutTypes
<1> QED BY <1>1, <1>2, <1>3, RequestsStay DEF PayoutInv, Sound, CountHolds

\* What the end of an attempt makes of a schedule that is not paused.
LEMMA AttemptEnds ==
    ASSUME Sound(schedule), ~schedule.paused, NEW seen, Sound(seen), ~seen.paused,
           NEW now, NEW outcome \in {"SKIPPED", "SUCCESS", "FAILED"}
    PROVE  LET q == P!After(schedule, seen, now, outcome) IN
           /\ Sound(q)
           /\ outcome = "SKIPPED" => q.failures = schedule.failures
           /\ outcome = "SUCCESS" => q.failures = 0
           /\ outcome = "FAILED" => q.failures = seen.failures + 1
<1> DEFINE q == P!After(schedule, seen, now, outcome)
<1>0. 0 \in 0 .. Attempts /\ 0 # Attempts
  BY PayoutConstants
<1>1. CASE outcome = "SKIPPED"
  <2>1. PICK at : at = now + Cadences[seen.cadence]
    OBVIOUS
  <2>2. q = [schedule EXCEPT !.nextRunAt = at]
    BY <1>1, <2>1 DEF P!After
  <2> HIDE DEF q
  <2>3. Sound(q) /\ q.failures = schedule.failures
    BY <2>2 DEF Sound
  <2> QED BY <1>1, <2>3 DEF q
<1>2. CASE outcome = "SUCCESS"
  <2>1. PICK at : at = now + Cadences[seen.cadence]
    OBVIOUS
  <2>2. q = [schedule EXCEPT !.nextRunAt = at, !.failures = 0]
    BY <1>2, <2>1 DEF P!After
  <2> HIDE DEF q
  <2>3. Sound(q) /\ q.failures = 0
    BY <1>0, <2>2 DEF Sound
  <2> QED BY <1>2, <2>3 DEF q
<1>3. CASE outcome = "FAILED"
  <2>1. PICK n \in 0 .. Attempts : n = seen.failures + 1
    BY PayoutConstants DEF Sound
  <2>2. PICK stops \in BOOLEAN : stops = (n = Attempts)
    BY Zenon
  <2>3. PICK at : at = IF stops THEN P!WhenPaused(now) ELSE now + P!Backoff(n)
    OBVIOUS
  <2>4. (P!Exhausted(n) <=> stops) /\ (stops <=> n = Attempts)
    <3>1. P!Exhausted(n) <=> n = Attempts
      BY <2>1, PayoutConstants DEF P!Exhausted
    <3>2. stops <=> n = Attempts
      BY Zenon, <2>2
    <3> QED BY Zenon, <3>1, <3>2
  <2>5. q = [schedule EXCEPT !.failures = n, !.paused = stops, !.nextRunAt = at]
    <3>1. q = [schedule EXCEPT !.failures = n, !.paused = P!Exhausted(n),
                               !.nextRunAt = IF P!Exhausted(n) THEN P!WhenPaused(now)
                                             ELSE now + P!Backoff(n)]
      BY <1>3, <2>1 DEF P!After
    <3>2. P!Exhausted(n) \in BOOLEAN
      BY DEF P!Exhausted
    <3>3. P!Exhausted(n) = stops
      BY Zenon, <2>4, <3>2
    <3> QED BY Zenon, <2>3, <3>1, <3>3
  <2> HIDE DEF q
  <2>6. Sound(q) /\ q.failures = n
    BY <2>4, <2>5 DEF Sound
  <2> QED BY <1>3, <2>1, <2>6 DEF q
<1> QED BY <1>1, <1>2, <1>3

LEMMA OutcomeWritten == ASSUME PayoutInv, P!WriteOutcome PROVE PayoutInv'
<1>1. /\ UNCHANGED <<clock, creator, withdrawal, submit>> /\ sweep.pc = "write"
      /\ sweep' = P!Asleep /\ schedule' = P!After(schedule, sweep.seen, sweep.at, sweep.outcome)
  BY DEF P!WriteOutcome
<1>2. PICK out \in {"SKIPPED", "SUCCESS", "FAILED"} : out = sweep.outcome
  BY <1>1 DEF PayoutInv, SweepTypes
<1>3. PICK seen : seen = sweep.seen
  OBVIOUS
<1>4. /\ Sound(schedule) /\ ~schedule.paused /\ Sound(seen) /\ ~seen.paused
      /\ ~history.edited => seen.failures = schedule.failures
  BY <1>1, <1>3 DEF PayoutInv, SweepTypes, SweepHolds
<1>5. /\ Sound(schedule')
      /\ out = "SKIPPED" => schedule'.failures = schedule.failures
      /\ out = "SUCCESS" => schedule'.failures = 0
      /\ out = "FAILED" => schedule'.failures = seen.failures + 1
  BY <1>1, <1>2, <1>3, <1>4, AttemptEnds
<1>6. PICK n \in Nat : n = CASE out = "SUCCESS" -> 0 [] out = "FAILED" -> history.failures + 1
                             [] OTHER -> history.failures
  BY DEF PayoutInv, PayoutTypes
<1>7. history' = [history EXCEPT !.failures = n]
  BY <1>2, <1>6 DEF P!WriteOutcome
<1>8. /\ history' \in [overlap : BOOLEAN, edited : BOOLEAN, failures : Nat,
                lost : Nat]
      /\ history'.overlap = history.overlap /\ history'.edited = history.edited
      /\ history'.failures = n /\ history'.lost = history.lost
  BY <1>7 DEF PayoutInv, PayoutTypes
<1>9. CountHolds'
  BY <1>4, <1>5, <1>6, <1>8 DEF PayoutInv, CountHolds
<1>10. SweepTypes' /\ SweepHolds'
  BY <1>1, AsleepIsSound DEF SweepTypes, SweepHolds
<1> QED BY <1>1, <1>5, <1>8, <1>9, <1>10, RequestsStay DEF PayoutInv, Sound

LEMMA PayoutNextInv == PayoutInv /\ [P!Next]_(P!vars) => PayoutInv'
<1> SUFFICES ASSUME PayoutInv, [P!Next]_(P!vars) PROVE PayoutInv'
  OBVIOUS
<1>1. CASE P!Quiet \/ UNCHANGED P!vars
  <2>1. UNCHANGED <<clock, creator, withdrawal, schedule, submit, sweep, history>>
    BY <1>1 DEF P!Quiet, P!vars
  <2>2. history' \in [overlap : BOOLEAN, edited : BOOLEAN, failures : Nat,
                lost : Nat]
    BY <2>1 DEF PayoutInv, PayoutTypes
  <2> QED BY <2>1, <2>2, RequestsStay, ScheduleStays DEF PayoutInv
<1>2. CASE P!TipConfirmed \/ P!TipUnconfirmed \/ P!AccountToggled \/ P!Tick
  BY <1>2, CreatorChanged
<1>3. CASE P!Sweep \/ P!Crash
  BY <1>3, SweepGoesOn, OutcomeWritten DEF P!Sweep
<1>4. ASSUME NEW c \in DOMAIN Cadences, NEW m \in {0, MaxReceived}, P!OptIn(c, m) PROVE PayoutInv'
  BY <1>4, OptedIn
<1>5. ASSUME NEW r \in Requests, P!CheckBalance(r) \/ P!Broadcast(r) \/ P!Record(r) PROVE PayoutInv'
  BY <1>5, BalanceChecked, RequestBroadcast, RequestRecorded
<1>6. ASSUME NEW r \in Requests, NEW t \in Transactions, P!Send(r, t) PROVE PayoutInv'
  BY <1>6, RequestSent
<1> QED BY <1>1, <1>2, <1>3, <1>4, <1>5, <1>6, OptedOut DEF P!Next

LEMMA PayoutsHold ==
    PayoutInv => P!TypeOK /\ P!OverdrawnForCause /\ P!PausedAfterFailuresInARow
<1> SUFFICES ASSUME PayoutInv
             PROVE  P!TypeOK /\ P!OverdrawnForCause /\ P!PausedAfterFailuresInARow
  OBVIOUS
<1>1. P!TypeOK
  BY DEF PayoutInv, PayoutTypes, Sound, SweepTypes, P!TypeOK
<1>2. P!OverdrawnForCause
  <2>1. SetSum(SentAmount, withdrawal) \in Nat /\ creator.received + history.lost \in Nat
    BY SetSumNat, PayoutConstants DEF PayoutInv, PayoutTypes
  <2> QED BY <2>1, TakenIsSum DEF PayoutInv, Covered, P!OverdrawnForCause
<1>3. P!PausedAfterFailuresInARow
  BY PayoutConstants DEF PayoutInv, Sound, CountHolds, P!PausedAfterFailuresInARow
<1> QED BY <1>1, <1>2, <1>3

-----------------------------------------------------------------------------
(* The webhooks: deliveries, their jobs and the subscriptions they disable. *)

DeliveryRows == [status : {"none", "PENDING", "SUCCESS", "FAILED"}, attempts : 0 .. MaxAttempts]
Jobs == [state : {"none", "new", "dropped", "waiting", "active", "completed", "failed"},
         made : 0 .. MaxAttempts, stalls : Nat]
Tries == [pc : {"idle", "post", "persist", "disable", "settle"},
          response : {"none", "success", "permanent", "retryable"}]

DeliveryTypes ==
    /\ row \in [Requests -> DeliveryRows] /\ job \in [Requests -> Jobs]
    /\ attempt \in [Requests -> Tries] /\ posts \in [Requests -> Nat]
    /\ deadLetters \subseteq Requests
    /\ history \in [crashed : SUBSET Requests, lost : SUBSET Requests]

\* The status that the attempt a of the job j leaves.
Left(a, j) ==
    CASE a.response = "success" -> "SUCCESS"
      [] a.response # "success" /\ (a.response = "permanent" \/ j.made + 1 >= MaxAttempts) -> "FAILED"
      [] OTHER -> "PENDING"

Persisted(j, a) == j.state = "active" /\ a.pc \in {"disable", "settle"}
WasPosted(j, a) == j.state = "active" /\ a.pc # "post"
Over(j) == j.state \in {"completed", "failed"}

\* A delivery d with the row r, the job j, the attempt a and n posts.
DeliveryFits(d, r, j, a, n, crashed, kept) ==
    /\ r.status = "none" => j.state = "none"
    /\ j.state = "active" => a.pc # "idle"
    /\ WasPosted(j, a) => a.response # "none"
    /\ Persisted(j, a) => r.status = Left(a, j)
    /\ j.state = "active" /\ a.pc = "disable" => r.status = "FAILED"
    /\ r.status = "SUCCESS" /\ d \notin crashed =>
          j.state = "completed" \/ (j.state = "active" /\ a.pc = "settle")
    /\ r.status = "FAILED" /\ d \notin crashed => j.state = "failed" \/ Persisted(j, a)
    /\ j.state = "completed" => r.status = "SUCCESS"
    /\ j.state = "failed" => r.status = "FAILED" \/ d \in kept \/ j.stalls > 1
    /\ j.state = "failed" /\ j.made = MaxAttempts => d \in kept
    /\ ~Over(j) => j.made < MaxAttempts
    /\ ~Over(j) /\ ~WasPosted(j, a) => n <= j.made + j.stalls
    /\ WasPosted(j, a) => n <= j.made + j.stalls + 1
    /\ n <= MaxAttempts + j.stalls

Kept == deadLetters \cup history.lost
DeliveryHolds(d) == DeliveryFits(d, row[d], job[d], attempt[d], posts[d], history.crashed, Kept)

SubscriptionTypes ==
    /\ subscription \in [Subscriptions -> {"ACTIVE", "DISABLED", "DELETED"}]
    /\ notices \in [Subscriptions -> Nat]
NoticesHold ==
    \A s \in Subscriptions : /\ notices[s] <= 1
                             /\ subscription[s] = "ACTIVE" => notices[s] = 0
                             /\ subscription[s] = "DISABLED" => notices[s] = 1

WebhookInv ==
    /\ DeliveryTypes /\ SubscriptionTypes /\ NoticesHold /\ W!DisabledForCause
    /\ \A d \in Requests : DeliveryHolds(d)

LEMMA WebhookConstants == MaxAttempts \in Nat \ {0} /\ Target \in [Requests -> Subscriptions]
BY Assumptions DEF W!WebhooksAssumption

LEMMA StatusLeft == ASSUME NEW d \in Requests PROVE W!StatusAfter(d) = Left(attempt[d], job[d])
BY DEF W!StatusAfter, W!Terminal, W!LastAttempt, W!AttemptNumber, Left

LEMMA WebhookInitInv == W!Init => WebhookInv
<1> SUFFICES ASSUME W!Init PROVE WebhookInv
  OBVIOUS
<1>0. 0 \in 0 .. MaxAttempts /\ 0 < MaxAttempts
  BY WebhookConstants
<1>1. DeliveryTypes /\ SubscriptionTypes
  BY <1>0 DEF W!Init, W!Idle, DeliveryTypes, DeliveryRows, Jobs, Tries, SubscriptionTypes
<1>2. NoticesHold /\ W!DisabledForCause
  BY DEF W!Init, NoticesHold, W!DisabledForCause
<1>3. \A d \in Requests : DeliveryHolds(d)
  BY <1>0, WebhookConstants
     DEF W!Init, W!Idle, DeliveryHolds, DeliveryFits, WasPosted, Persisted, Over
<1> QED BY <1>1, <1>2, <1>3 DEF WebhookInv

Turns(d, r, j, a, n) ==
    /\ row' = [row EXCEPT ![d] = r] /\ job' = [job EXCEPT ![d] = j]
    /\ attempt' = [attempt EXCEPT ![d] = a] /\ posts' = [posts EXCEPT ![d] = n]
Keeps(crashed, lost, letters) ==
    history' = [crashed |-> crashed, lost |-> lost] /\ deadLetters' = letters

\* A step of the delivery d gives it a row, a job, an attempt and its posts.
LEMMA OneDelivery ==
    ASSUME WebhookInv, NEW d \in Requests, NEW r \in DeliveryRows, NEW j \in Jobs, NEW a \in Tries,
           NEW n \in Nat, Turns(d, r, j, a, n),
           NEW crashed \in SUBSET Requests, NEW lost \in SUBSET Requests,
           NEW letters \in SUBSET Requests, Keeps(crashed, lost, letters),
           history.crashed \subseteq crashed, crashed \subseteq history.crashed \cup {d},
           Kept \subseteq letters \cup lost,
           DeliveryFits(d, r, j, a, n, crashed, letters \cup lost)
    PROVE  DeliveryTypes' /\ \A e \in Requests : DeliveryHolds(e)'
<1>1. DeliveryTypes'
  BY DEF WebhookInv, DeliveryTypes, Turns, Keeps
<1>2. Kept' = letters \cup lost /\ history'.crashed = crashed
  BY DEF Kept, Keeps
<1>3. DeliveryHolds(d)'
  BY <1>2 DEF DeliveryHolds, WebhookInv, DeliveryTypes, Turns
<1>4. ASSUME NEW e \in Requests \ {d} PROVE DeliveryHolds(e)'
  <2>1. /\ row'[e] = row[e] /\ job'[e] = job[e] /\ attempt'[e] = attempt[e]
        /\ posts'[e] = posts[e]
    BY DEF WebhookInv, DeliveryTypes, Turns
  <2>2. /\ e \in Kept => e \in Kept'
        /\ e \in history'.crashed <=> e \in history.crashed
    BY <1>2
  <2>3. DeliveryHolds(e)
    BY DEF WebhookInv
  <2> QED BY <2>1, <2>2, <2>3 DEF DeliveryHolds, DeliveryFits
<1> QED BY <1>1, <1>3, <1>4

\* A row that failed stays so, unless its worker died, and so does the cause it is.
LEMMA CauseStays ==
    ASSUME WebhookInv, UNCHANGED <<subscription, notices>>,
           history.crashed \subseteq history'.crashed,
           \A d \in Requests : row[d].status = "FAILED" =>
              row'[d].status = "FAILED" \/ d \in history.crashed
    PROVE  SubscriptionTypes' /\ NoticesHold' /\ W!DisabledForCause'
<1>1. SubscriptionTypes' /\ NoticesHold'
  BY DEF WebhookInv, SubscriptionTypes, NoticesHold
<1>2. W!DisabledForCause'
  BY DEF WebhookInv, W!DisabledForCause
<1> QED BY <1>1, <1>2

\* The values of a delivery before a step of it.
LEMMA Values ==
    ASSUME WebhookInv, NEW d \in Requests
    PROVE  /\ row[d] \in DeliveryRows /\ job[d] \in Jobs /\ attempt[d] \in Tries /\ posts[d] \in Nat
           /\ DeliveryFits(d, row[d], job[d], attempt[d], posts[d], history.crashed, Kept)
           /\ row = [row EXCEPT ![d] = row[d]] /\ job = [job EXCEPT ![d] = job[d]]
           /\ attempt = [attempt EXCEPT ![d] = attempt[d]]
           /\ posts = [posts EXCEPT ![d] = posts[d]]
           /\ history.crashed \in SUBSET Requests /\ history.lost \in SUBSET Requests
           /\ history = [crashed |-> history.crashed, lost |-> history.lost]
           /\ deadLetters \in SUBSET Requests
BY DEF WebhookInv, DeliveryTypes, DeliveryHolds

\* A step of d that leaves the row, or writes it for the first time, and no letter.
LEMMA DeliveryMoves ==
    ASSUME WebhookInv, NEW d \in Requests, NEW r \in DeliveryRows, NEW j \in Jobs, NEW a \in Tries,
           NEW n \in Nat, Turns(d, r, j, a, n),
           UNCHANGED <<subscription, notices, deadLetters, history>>,
           row[d].status = "FAILED" => r.status = "FAILED" \/ d \in history.crashed,
           DeliveryFits(d, r, j, a, n, history.crashed, Kept)
    PROVE  WebhookInv'
<1>1. DeliveryTypes' /\ \A e \in Requests : DeliveryHolds(e)'
  <2>1. Keeps(history.crashed, history.lost, deadLetters)
    BY Values DEF Keeps
  <2> QED BY <2>1, Values, OneDelivery DEF Kept
<1>2. SubscriptionTypes' /\ NoticesHold' /\ W!DisabledForCause'
  BY CauseStays DEF WebhookInv, DeliveryTypes, Turns
<1> QED BY <1>1, <1>2 DEF WebhookInv

-----------------------------------------------------------------------------
(* The steps of a delivery. *)

LEMMA Dispatched == ASSUME WebhookInv, NEW d \in Requests, W!Dispatch(d) PROVE WebhookInv'
<1> DEFINE r == [row[d] EXCEPT !.status = "PENDING"]
           j == [job[d] EXCEPT !.state = "new"]
<1>1. /\ row[d].status = "none" /\ row' = [row EXCEPT ![d] = r] /\ job' = [job EXCEPT ![d] = j]
      /\ UNCHANGED <<subscription, notices, attempt, posts, deadLetters, history>>
  BY DEF W!Dispatch
<1>2. r \in DeliveryRows /\ r.status = "PENDING"
  BY Values DEF DeliveryRows
<1>3. /\ j \in Jobs /\ j.state = "new" /\ j.made = job[d].made /\ j.stalls = job[d].stalls
  BY Values DEF Jobs
<1> HIDE DEF r, j
<1>4. DeliveryFits(d, r, j, attempt[d], posts[d], history.crashed, Kept)
  BY <1>1, <1>2, <1>3, Values, WebhookConstants DEF DeliveryFits, WasPosted, Persisted, Over
<1>5. Turns(d, r, j, attempt[d], posts[d])
  BY <1>1, Values DEF Turns
<1> QED BY <1>1, <1>2, <1>3, <1>4, <1>5, Values, DeliveryMoves

LEMMA Enqueued == ASSUME WebhookInv, NEW d \in Requests, W!Enqueue(d) PROVE WebhookInv'
<1>1. PICK state \in {"waiting", "dropped"} : job' = [job EXCEPT ![d].state = state]
  BY DEF W!Enqueue
<1> DEFINE j == [job[d] EXCEPT !.state = state]
<1>2. /\ job[d].state = "new" /\ job' = [job EXCEPT ![d] = j]
      /\ UNCHANGED <<subscription, notices, row, attempt, posts, deadLetters, history>>
  BY <1>1 DEF W!Enqueue
<1>3. /\ j \in Jobs /\ j.state = state /\ j.made = job[d].made /\ j.stalls = job[d].stalls
  BY Values DEF Jobs
<1> HIDE DEF j
<1>4. DeliveryFits(d, row[d], j, attempt[d], posts[d], history.crashed, Kept)
  <2>1. DeliveryFits(d, row[d], job[d], attempt[d], posts[d], history.crashed, Kept)
    BY Values
  <2>2. state \notin {"none", "new", "active", "completed", "failed"}
    OBVIOUS
  <2> QED BY <1>2, <1>3, <2>1, <2>2 DEF DeliveryFits, WasPosted, Persisted, Over
<1>5. Turns(d, row[d], j, attempt[d], posts[d])
  BY <1>2, Values DEF Turns
<1> QED BY <1>2, <1>3, <1>4, <1>5, Values, DeliveryMoves

LEMMA Started == ASSUME WebhookInv, NEW d \in Requests, W!Start(d) PROVE WebhookInv'
<1> DEFINE j == [job[d] EXCEPT !.state = "active"]
           a == [pc |-> "post", response |-> "none"]
<1>1. /\ job[d].state = "waiting" /\ job' = [job EXCEPT ![d] = j]
      /\ attempt' = [attempt EXCEPT ![d] = a]
      /\ UNCHANGED <<subscription, notices, row, posts, deadLetters, history>>
  BY DEF W!Start
<1>2. /\ j \in Jobs /\ j.state = "active" /\ j.made = job[d].made /\ j.stalls = job[d].stalls
  BY Values DEF Jobs
<1>3. a \in Tries /\ a.pc = "post"
  BY DEF Tries
<1> HIDE DEF j, a
<1>4. DeliveryFits(d, row[d], j, a, posts[d], history.crashed, Kept)
  BY <1>1, <1>2, <1>3, Values DEF DeliveryFits, WasPosted, Persisted, Over
<1>5. Turns(d, row[d], j, a, posts[d])
  BY <1>1, Values DEF Turns
<1> QED BY <1>1, <1>2, <1>3, <1>4, <1>5, Values, DeliveryMoves

LEMMA PostMade == ASSUME WebhookInv, NEW d \in Requests, W!Post(d) PROVE WebhookInv'
<1>1. PICK response \in {"success", "permanent", "retryable"} :
         attempt' = [attempt EXCEPT ![d] = [pc |-> "persist", response |-> response]]
  BY DEF W!Post
<1> DEFINE a == [pc |-> "persist", response |-> response]
           n == posts[d] + 1
<1>2. /\ job[d].state = "active" /\ attempt[d].pc = "post" /\ attempt' = [attempt EXCEPT ![d] = a]
      /\ posts' = [posts EXCEPT ![d] = n]
      /\ UNCHANGED <<subscription, notices, row, job, deadLetters, history>>
  BY <1>1 DEF W!Post, W!At
<1>3. a \in Tries /\ a.pc = "persist" /\ a.response # "none"
  BY DEF Tries
<1>4. n \in Nat /\ n = posts[d] + 1
  BY Values
<1> HIDE DEF a, n
<1>5. DeliveryFits(d, row[d], job[d], a, n, history.crashed, Kept)
  <2>1. DeliveryFits(d, row[d], job[d], attempt[d], posts[d], history.crashed, Kept)
    BY Values
  <2>2. /\ job[d].made \in Nat /\ job[d].stalls \in Nat /\ posts[d] \in Nat
        /\ job[d].made < MaxAttempts /\ posts[d] <= job[d].made + job[d].stalls
    BY <1>2, <2>1, Values DEF DeliveryFits, WasPosted, Over, Jobs
  <2>3. n <= MaxAttempts + job[d].stalls /\ n <= job[d].made + job[d].stalls + 1
    BY <1>4, <2>2, WebhookConstants
  <2> QED BY <1>2, <1>3, <2>1, <2>3 DEF DeliveryFits, WasPosted, Persisted, Over
<1>6. Turns(d, row[d], job[d], a, n)
  BY <1>2, Values DEF Turns
<1> QED BY <1>2, <1>3, <1>4, <1>5, <1>6, Values, DeliveryMoves

LEMMA AttemptPersisted == ASSUME WebhookInv, NEW d \in Requests, W!Persist(d) PROVE WebhookInv'
<1> DEFINE r == [status |-> Left(attempt[d], job[d]), attempts |-> job[d].made + 1]
           pc == IF Left(attempt[d], job[d]) = "FAILED" THEN "disable" ELSE "settle"
           a == [attempt[d] EXCEPT !.pc = pc]
<1>1. /\ job[d].state = "active" /\ attempt[d].pc = "persist" /\ row' = [row EXCEPT ![d] = r]
      /\ attempt' = [attempt EXCEPT ![d] = a]
      /\ UNCHANGED <<subscription, notices, job, posts, deadLetters, history>>
  BY StatusLeft DEF W!Persist, W!At, W!Goto, W!AttemptNumber
<1>2. r.status = Left(attempt[d], job[d]) /\ Left(attempt[d], job[d]) \in {"PENDING", "SUCCESS", "FAILED"}
  BY DEF Left
<1>3. job[d].made + 1 \in 0 .. MaxAttempts
  BY <1>1, Values, WebhookConstants DEF DeliveryFits, Over, Jobs
<1>4. r \in DeliveryRows
  BY <1>2, <1>3 DEF DeliveryRows
<1>5. a \in Tries /\ a.pc = pc /\ a.response = attempt[d].response
  BY Values DEF Tries
<1>6. Left(a, job[d]) = Left(attempt[d], job[d])
  BY <1>5 DEF Left
<1>7. pc \in {"disable", "settle"} /\ (pc = "disable" <=> r.status = "FAILED")
  BY <1>2
<1> HIDE DEF r, a, pc
<1>8. DeliveryFits(d, r, job[d], a, posts[d], history.crashed, Kept)
  BY <1>1, <1>2, <1>5, <1>6, <1>7, Values DEF DeliveryFits, WasPosted, Persisted, Over
<1>9. row[d].status = "FAILED" => d \in history.crashed
  <2>1. DeliveryFits(d, row[d], job[d], attempt[d], posts[d], history.crashed, Kept)
    BY Values
  <2> QED BY <1>1, <2>1 DEF DeliveryFits, Persisted
<1>10. Turns(d, r, job[d], a, posts[d])
  BY <1>1, Values DEF Turns
<1> QED BY <1>1, <1>4, <1>5, <1>8, <1>9, <1>10, Values, DeliveryMoves

LEMMA SubscriptionDisabled == ASSUME WebhookInv, NEW d \in Requests, W!Disable(d) PROVE WebhookInv'
<1> DEFINE a == [attempt[d] EXCEPT !.pc = "settle"]
<1>1. /\ job[d].state = "active" /\ attempt[d].pc = "disable"
      /\ attempt' = [attempt EXCEPT ![d] = a] /\ W!DisableAndNotify(Target[d])
      /\ UNCHANGED <<row, job, posts, deadLetters, history>>
  BY DEF W!Disable, W!At, W!Goto
<1>2. a \in Tries /\ a.pc = "settle" /\ a.response = attempt[d].response
  BY Values DEF Tries
<1> HIDE DEF a
<1>3. Left(a, job[d]) = Left(attempt[d], job[d]) /\ row[d].status = "FAILED"
  BY <1>1, <1>2, Values DEF Left, DeliveryFits
<1>4. DeliveryFits(d, row[d], job[d], a, posts[d], history.crashed, Kept)
  BY <1>1, <1>2, <1>3, Values DEF DeliveryFits, WasPosted, Persisted, Over
<1>5. DeliveryTypes' /\ \A e \in Requests : DeliveryHolds(e)'
  <2>1. Turns(d, row[d], job[d], a, posts[d]) /\ Keeps(history.crashed, history.lost, deadLetters)
    BY <1>1, Values DEF Turns, Keeps
  <2> QED BY <1>2, <1>4, <2>1, Values, OneDelivery DEF Kept
<1>6. CASE subscription[Target[d]] = "ACTIVE"
  <2>1. PICK s \in Subscriptions : s = Target[d]
    BY WebhookConstants
  <2>2. /\ subscription' = [subscription EXCEPT ![s] = "DISABLED"]
        /\ notices' = [notices EXCEPT ![s] = notices[s] + 1]
    BY <1>1, <1>6, <2>1 DEF W!DisableAndNotify
  <2>3. notices[s] = 0
    BY <1>6, <2>1 DEF WebhookInv, NoticesHold
  <2>4. /\ SubscriptionTypes' /\ notices'[s] = 1 /\ subscription'[s] = "DISABLED"
        /\ \A b \in Subscriptions \ {s} : notices'[b] = notices[b] /\ subscription'[b] = subscription[b]
    BY <2>2, <2>3 DEF WebhookInv, SubscriptionTypes
  <2>5. NoticesHold'
    BY <2>4 DEF WebhookInv, NoticesHold
  <2>6. W!DisabledForCause'
    BY <1>1, <1>3, <2>1, <2>4 DEF WebhookInv, W!DisabledForCause
  <2> QED BY <1>5, <2>4, <2>5, <2>6 DEF WebhookInv
<1>7. CASE subscription[Target[d]] # "ACTIVE"
  <2>1. UNCHANGED <<subscription, notices>>
    BY <1>1, <1>7 DEF W!DisableAndNotify
  <2>2. SubscriptionTypes' /\ NoticesHold' /\ W!DisabledForCause'
    BY <1>1, <2>1, CauseStays
  <2> QED BY <1>5, <2>2 DEF WebhookInv
<1> QED BY <1>6, <1>7

\* A letter is written, or is lost.
LEMMA LetterKept ==
    ASSUME WebhookInv, NEW d \in Requests, NEW j \in Jobs, job' = [job EXCEPT ![d] = j],
           attempt' = [attempt EXCEPT ![d] = W!Idle], UNCHANGED <<subscription, notices, row, posts>>,
           \/ deadLetters' = deadLetters \cup {d} /\ UNCHANGED history
           \/ history' = [history EXCEPT !.lost = @ \cup {d}] /\ UNCHANGED deadLetters,
           DeliveryFits(d, row[d], j, W!Idle, posts[d], history.crashed, Kept \cup {d})
    PROVE  WebhookInv'
<1>1. PICK letters \in SUBSET Requests, lost \in SUBSET Requests :
         letters \cup lost = Kept \cup {d} /\ Keeps(history.crashed, lost, letters)
  <2>1. CASE deadLetters' = deadLetters \cup {d} /\ UNCHANGED history
    BY <2>1, Values DEF Kept, Keeps
  <2>2. CASE history' = [history EXCEPT !.lost = @ \cup {d}] /\ UNCHANGED deadLetters
    <3>1. PICK lost \in SUBSET Requests : lost = history.lost \cup {d}
      BY Values
    <3>2. history' = [crashed |-> history.crashed, lost |-> lost]
      <4>1. history' = [history EXCEPT !.lost = lost]
        BY <2>2, <3>1
      <4> QED BY <4>1, Values
    <3>3. Keeps(history.crashed, lost, deadLetters)
      BY <2>2, <3>2 DEF Keeps
    <3>4. deadLetters \cup lost = Kept \cup {d} /\ deadLetters \in SUBSET Requests
      BY <3>1, Values DEF Kept
    <3> QED BY <3>3, <3>4
  <2> QED BY <2>1, <2>2
<1>2. W!Idle \in Tries
  BY DEF W!Idle, Tries
<1>3. DeliveryTypes' /\ \A e \in Requests : DeliveryHolds(e)'
  <2>1. Turns(d, row[d], j, W!Idle, posts[d])
    BY Values DEF Turns
  <2> QED BY <1>1, <1>2, <2>1, Values, OneDelivery
<1>4. SubscriptionTypes' /\ NoticesHold' /\ W!DisabledForCause'
  BY <1>1, CauseStays DEF Keeps
<1> QED BY <1>3, <1>4 DEF WebhookInv

\* The job fails, and is tried again or given up.
LEMMA JobRetried ==
    ASSUME WebhookInv, NEW d \in Requests, job[d].state = "active", W!Retried(d)
    PROVE  \E j \in Jobs : /\ job' = [job EXCEPT ![d] = j]
                           /\ j.made = job[d].made + 1 /\ j.stalls = job[d].stalls
                           /\ j.state = IF W!LastAttempt(d) THEN "failed" ELSE "waiting"
                           /\ W!LastAttempt(d) <=> j.made = MaxAttempts
<1>1. PICK made \in 0 .. MaxAttempts : made = job[d].made + 1
  BY Values, WebhookConstants DEF DeliveryFits, Over, Jobs
<1>2. PICK state \in {"failed", "waiting"} : state = IF W!LastAttempt(d) THEN "failed" ELSE "waiting"
  OBVIOUS
<1> DEFINE j == [job[d] EXCEPT !.made = made, !.state = state]
<1>3. job' = [job EXCEPT ![d] = j]
  BY <1>1, <1>2 DEF W!Retried
<1>4. j \in Jobs /\ j.made = made /\ j.stalls = job[d].stalls /\ j.state = state
  BY Values DEF Jobs
<1>5. W!LastAttempt(d) <=> made = MaxAttempts
  BY <1>1, Values, WebhookConstants DEF W!LastAttempt, W!AttemptNumber, Jobs
<1> HIDE DEF j
<1> QED BY <1>1, <1>2, <1>3, <1>4, <1>5

LEMMA AttemptSettled == ASSUME WebhookInv, NEW d \in Requests, W!Settle(d) PROVE WebhookInv'
<1>1. /\ job[d].state = "active" /\ attempt[d].pc = "settle" /\ W!Settled(d)
      /\ attempt' = [attempt EXCEPT ![d] = W!Idle]
      /\ UNCHANGED <<subscription, notices, row, posts>>
  BY DEF W!Settle, W!At
<1>2. W!Idle \in Tries
  BY DEF W!Idle, Tries
<1>3. /\ row[d].status = Left(attempt[d], job[d]) /\ row[d].status # "none"
      /\ attempt[d].response # "none"
      /\ posts[d] <= job[d].made + job[d].stalls + 1 /\ job[d].made < MaxAttempts
      /\ posts[d] <= MaxAttempts + job[d].stalls
      /\ job[d].made \in Nat /\ job[d].stalls \in Nat /\ posts[d] \in Nat
  BY <1>1, Values DEF DeliveryFits, Persisted, WasPosted, Over, Left, Jobs
<1>4. CASE attempt[d].response \in {"success", "permanent"}
  <2> DEFINE state == IF attempt[d].response = "success" THEN "completed" ELSE "failed"
             j == [job[d] EXCEPT !.state = state]
  <2>1. job' = [job EXCEPT ![d] = j] /\ UNCHANGED <<deadLetters, history>>
    BY <1>1, <1>4 DEF W!Settled, W!Abandoned
  <2>2. j \in Jobs /\ j.state = state /\ j.made = job[d].made /\ j.stalls = job[d].stalls
    BY Values DEF Jobs
  <2>3. row[d].status = IF state = "completed" THEN "SUCCESS" ELSE "FAILED"
    BY <1>3, <1>4 DEF Left
  <2>4. state \in {"completed", "failed"}
    OBVIOUS
  <2> HIDE DEF j, state
  <2>5. DeliveryFits(d, row[d], j, W!Idle, posts[d], history.crashed, Kept)
    BY <1>3, <2>2, <2>3, <2>4 DEF DeliveryFits, WasPosted, Persisted, Over
  <2>6. Turns(d, row[d], j, W!Idle, posts[d])
    BY <1>1, <2>1, Values DEF Turns
  <2> QED BY <1>1, <1>2, <2>1, <2>2, <2>5, <2>6, Values, DeliveryMoves
<1>5. CASE attempt[d].response \notin {"success", "permanent"}
  <2>1. /\ W!Retried(d)
        /\ IF W!LastAttempt(d) THEN W!DeadLetter(d) ELSE UNCHANGED <<deadLetters, history>>
    BY <1>1, <1>5 DEF W!Settled
  <2>2. PICK j \in Jobs : /\ job' = [job EXCEPT ![d] = j]
                          /\ j.made = job[d].made + 1 /\ j.stalls = job[d].stalls
                          /\ j.state = IF W!LastAttempt(d) THEN "failed" ELSE "waiting"
                          /\ W!LastAttempt(d) <=> j.made = MaxAttempts
    BY <1>1, <2>1, JobRetried
  <2>3. row[d].status = IF W!LastAttempt(d) THEN "FAILED" ELSE "PENDING"
    BY <1>3, <1>5, StatusLeft DEF W!StatusAfter, W!Terminal
  <2>4. CASE W!LastAttempt(d)
    <3>1. DeliveryFits(d, row[d], j, W!Idle, posts[d], history.crashed, Kept \cup {d})
      BY <1>3, <2>2, <2>3, <2>4 DEF DeliveryFits, WasPosted, Persisted, Over, W!Idle
    <3> QED BY <1>1, <2>1, <2>2, <2>4, <3>1, LetterKept DEF W!DeadLetter
  <2>5. CASE ~W!LastAttempt(d)
    <3>1. j.made < MaxAttempts
      BY <1>3, <2>2, <2>5, WebhookConstants
    <3>2. DeliveryFits(d, row[d], j, W!Idle, posts[d], history.crashed, Kept)
      BY <1>3, <2>2, <2>3, <2>5, <3>1 DEF DeliveryFits, WasPosted, Persisted, Over, W!Idle
    <3>3. Turns(d, row[d], j, W!Idle, posts[d])
      BY <1>1, <2>2, Values DEF Turns
    <3> QED BY <1>1, <1>2, <2>1, <2>2, <2>5, <3>2, <3>3, Values, DeliveryMoves
  <2> QED BY <2>4, <2>5
<1> QED BY <1>4, <1>5

LEMMA DatabaseFailed == ASSUME WebhookInv, NEW d \in Requests, W!DatabaseFails(d) PROVE WebhookInv'
<1>1. /\ job[d].state = "active" /\ attempt[d].pc \in {"persist", "disable"}
      /\ attempt' = [attempt EXCEPT ![d] = W!Idle]
      /\ UNCHANGED <<subscription, notices, row, posts>>
      /\ IF attempt[d].response = "permanent" THEN W!Abandoned(d) ELSE W!Retried(d)
      /\ IF attempt[d].response = "permanent" \/ W!LastAttempt(d)
         THEN \/ deadLetters' = deadLetters \cup {d} /\ UNCHANGED history
              \/ history' = [history EXCEPT !.lost = @ \cup {d}] /\ UNCHANGED deadLetters
         ELSE UNCHANGED <<deadLetters, history>>
  BY DEF W!DatabaseFails, W!At
<1>2. W!Idle \in Tries
  BY DEF W!Idle, Tries
<1>3. /\ row[d].status # "none" /\ posts[d] <= job[d].made + job[d].stalls + 1
      /\ job[d].made < MaxAttempts /\ posts[d] <= MaxAttempts + job[d].stalls
      /\ job[d].made \in Nat /\ job[d].stalls \in Nat /\ posts[d] \in Nat
      /\ row[d].status = "SUCCESS" => d \in history.crashed
  BY <1>1, Values DEF DeliveryFits, WasPosted, Over, Jobs
<1>4. CASE attempt[d].response = "permanent"
  <2> DEFINE j == [job[d] EXCEPT !.state = "failed"]
  <2>1. job' = [job EXCEPT ![d] = j]
    BY <1>1, <1>4 DEF W!Abandoned
  <2>2. j \in Jobs /\ j.state = "failed" /\ j.made = job[d].made /\ j.stalls = job[d].stalls
    BY Values DEF Jobs
  <2> HIDE DEF j
  <2>3. DeliveryFits(d, row[d], j, W!Idle, posts[d], history.crashed, Kept \cup {d})
    BY <1>3, <2>2 DEF DeliveryFits, WasPosted, Persisted, Over
  <2> QED BY <1>1, <1>4, <2>1, <2>2, <2>3, LetterKept
<1>5. CASE attempt[d].response # "permanent"
  <2>1. W!Retried(d)
    BY <1>1, <1>5
  <2>2. PICK j \in Jobs : /\ job' = [job EXCEPT ![d] = j]
                          /\ j.made = job[d].made + 1 /\ j.stalls = job[d].stalls
                          /\ j.state = IF W!LastAttempt(d) THEN "failed" ELSE "waiting"
                          /\ W!LastAttempt(d) <=> j.made = MaxAttempts
    BY <1>1, <2>1, JobRetried
  <2>3. CASE W!LastAttempt(d)
    <3>1. DeliveryFits(d, row[d], j, W!Idle, posts[d], history.crashed, Kept \cup {d})
      BY <1>3, <2>2, <2>3 DEF DeliveryFits, WasPosted, Persisted, Over, W!Idle
    <3> QED BY <1>1, <2>2, <2>3, <3>1, LetterKept
  <2>4. CASE ~W!LastAttempt(d)
    <3>1. j.made < MaxAttempts
      BY <1>3, <2>2, <2>4, WebhookConstants
    <3>2. row[d].status = "FAILED" => d \in history.crashed
      <4>1. attempt[d].pc = "disable" => Left(attempt[d], job[d]) = "FAILED"
        BY <1>1, Values DEF DeliveryFits, Persisted
      <4>2. W!StatusAfter(d) # "FAILED"
        BY <1>5, <2>4 DEF W!StatusAfter, W!Terminal
      <4> QED BY <1>1, <4>1, <4>2, StatusLeft, Values DEF DeliveryFits, Persisted
    <3>3. DeliveryFits(d, row[d], j, W!Idle, posts[d], history.crashed, Kept)
      BY <1>3, <2>2, <2>4, <3>1, <3>2 DEF DeliveryFits, WasPosted, Persisted, Over, W!Idle
    <3>4. Turns(d, row[d], j, W!Idle, posts[d])
      BY <1>1, <2>2, Values DEF Turns
    <3> QED BY <1>1, <1>2, <1>5, <2>2, <2>4, <3>3, <3>4, Values, DeliveryMoves
  <2> QED BY <2>3, <2>4
<1> QED BY <1>4, <1>5

LEMMA WorkerDied == ASSUME WebhookInv, NEW d \in Requests, W!Crash(d) PROVE WebhookInv'
<1> DEFINE state == IF job[d].stalls >= 1 THEN "failed" ELSE "waiting"
           stalls == job[d].stalls + 1
           j == [job[d] EXCEPT !.stalls = stalls, !.state = state]
           crashed == history.crashed \cup {d}
<1>1. /\ job[d].state = "active" /\ attempt' = [attempt EXCEPT ![d] = W!Idle]
      /\ UNCHANGED <<subscription, notices, row, posts, deadLetters>>
  BY DEF W!Crash
<1>2. job' = [job EXCEPT ![d] = j]
  <2>1. job' = [job EXCEPT ![d].stalls = @ + 1,
                           ![d].state = IF @ = "active" /\ job[d].stalls >= 1 THEN "failed" ELSE "waiting"]
    BY DEF W!Crash
  <2>2. job[d] \in Jobs /\ job = [job EXCEPT ![d] = job[d]]
    BY Values
  <2> QED BY <1>1, <2>1, <2>2 DEF Jobs
<1>3. history' = [crashed |-> crashed, lost |-> history.lost]
  <2>1. history' = [history EXCEPT !.crashed = crashed]
    BY DEF W!Crash
  <2> HIDE DEF crashed
  <2> QED BY <2>1, Values
<1>4. stalls \in Nat /\ stalls = job[d].stalls + 1 /\ state \in {"failed", "waiting"}
  BY Values DEF Jobs
<1>5. state = "failed" => stalls > 1
  BY <1>4, Values DEF Jobs
<1>6. /\ crashed \in SUBSET Requests /\ d \in crashed /\ history.crashed \subseteq crashed
      /\ crashed \subseteq history.crashed \cup {d}
  BY Values
<1> HIDE DEF state, stalls, crashed
<1>7. j \in Jobs /\ j.state = state /\ j.made = job[d].made /\ j.stalls = stalls
  BY <1>4, Values DEF Jobs
<1> HIDE DEF j
<1>8. W!Idle \in Tries
  BY DEF W!Idle, Tries
<1>9. DeliveryFits(d, row[d], j, W!Idle, posts[d], crashed, Kept)
  <2>1. /\ row[d].status # "none" /\ job[d].made < MaxAttempts
        /\ posts[d] <= job[d].made + job[d].stalls + 1 /\ posts[d] <= MaxAttempts + job[d].stalls
        /\ job[d].made \in Nat /\ job[d].stalls \in Nat /\ posts[d] \in Nat
    BY <1>1, Values DEF DeliveryFits, WasPosted, Over, Jobs
  <2> QED BY <1>4, <1>5, <1>6, <1>7, <2>1, WebhookConstants
          DEF DeliveryFits, WasPosted, Persisted, Over, W!Idle
<1>10. DeliveryTypes' /\ \A e \in Requests : DeliveryHolds(e)'
  <2>1. Turns(d, row[d], j, W!Idle, posts[d]) /\ Keeps(crashed, history.lost, deadLetters)
    BY <1>1, <1>2, <1>3, Values DEF Turns, Keeps
  <2> QED BY <1>6, <1>7, <1>8, <1>9, <2>1, Values, OneDelivery DEF Kept
<1>11. SubscriptionTypes' /\ NoticesHold' /\ W!DisabledForCause'
  BY <1>1, <1>3, <1>6, CauseStays
<1> QED BY <1>10, <1>11 DEF WebhookInv

LEMMA SubscriptionDeleted ==
    ASSUME WebhookInv, NEW s \in Subscriptions, W!DeleteSubscription(s) PROVE WebhookInv'
<1>1. /\ subscription' = [subscription EXCEPT ![s] = "DELETED"]
      /\ UNCHANGED <<notices, row, job, attempt, posts, deadLetters, history>>
  BY DEF W!DeleteSubscription
<1>2. SubscriptionTypes' /\ NoticesHold'
  BY <1>1 DEF WebhookInv, SubscriptionTypes, NoticesHold
<1> QED BY <1>1, <1>2 DEF WebhookInv, DeliveryTypes, DeliveryHolds, Kept, W!DisabledForCause

LEMMA WebhookNextInv == WebhookInv /\ [W!Next]_(W!vars) => WebhookInv'
<1> SUFFICES ASSUME WebhookInv, [W!Next]_(W!vars) PROVE WebhookInv'
  OBVIOUS
<1>1. CASE W!Quiet \/ UNCHANGED W!vars
  <2>1. UNCHANGED <<subscription, notices, row, job, attempt, posts, deadLetters, history>>
    BY <1>1 DEF W!Quiet, W!vars
  <2> QED BY <2>1 DEF WebhookInv, DeliveryTypes, DeliveryHolds, Kept, W!DisabledForCause,
             SubscriptionTypes, NoticesHold
<1>2. ASSUME NEW s \in Subscriptions, W!DeleteSubscription(s) PROVE WebhookInv'
  BY <1>2, SubscriptionDeleted
<1>3. ASSUME NEW d \in Requests, W!Dispatch(d) \/ W!Enqueue(d) \/ W!Work(d) \/ W!DatabaseFails(d)
                                 \/ W!Crash(d)
      PROVE  WebhookInv'
  BY <1>3, Dispatched, Enqueued, Started, PostMade, AttemptPersisted, SubscriptionDisabled,
     AttemptSettled, DatabaseFailed, WorkerDied DEF W!Work
<1> QED BY <1>1, <1>2, <1>3 DEF W!Next

LEMMA WebhooksHold ==
    WebhookInv => /\ W!TypeOK /\ W!OneDisableNotice /\ W!DisabledForCause
                  /\ W!NothingForgotten /\ W!ExhaustedAreKept /\ W!PostsAreBounded
<1> SUFFICES ASSUME WebhookInv
             PROVE  /\ W!TypeOK /\ W!OneDisableNotice /\ W!DisabledForCause
                    /\ W!NothingForgotten /\ W!ExhaustedAreKept /\ W!PostsAreBounded
  OBVIOUS
<1>1. W!TypeOK
  BY DEF WebhookInv, DeliveryTypes, DeliveryRows, Jobs, Tries, SubscriptionTypes, W!TypeOK
<1>2. W!OneDisableNotice /\ W!DisabledForCause
  BY DEF WebhookInv, NoticesHold, W!OneDisableNotice
<1>3. W!NothingForgotten /\ W!ExhaustedAreKept /\ W!PostsAreBounded
  BY DEF WebhookInv, DeliveryHolds, DeliveryFits, Kept, W!NothingForgotten, W!ExhaustedAreKept,
         W!PostsAreBounded
<1> QED BY <1>1, <1>2, <1>3

\* Only the worker writes a row, and it does not take up a job whose event was delivered.
LEMMA SuccessStays ==
    ASSUME WebhookInv, [W!Next]_(W!vars), NEW d \in Requests, row[d].status = "SUCCESS",
           d \notin history.crashed
    PROVE  row'[d].status = "SUCCESS"
<1>1. ASSUME NEW e \in Requests, W!Dispatch(e) PROVE row'[d].status = "SUCCESS"
  BY <1>1 DEF W!Dispatch, WebhookInv, DeliveryTypes
<1>2. ASSUME NEW e \in Requests, W!Persist(e) PROVE row'[d].status = "SUCCESS"
  <2>1. e # d
    BY <1>2, Values DEF W!Persist, W!At, DeliveryFits
  <2> QED BY <1>2, <2>1 DEF W!Persist, WebhookInv, DeliveryTypes
<1>3. ASSUME row' = row PROVE row'[d].status = "SUCCESS"
  BY <1>3
<1>4. ASSUME NEW e \in Requests, W!Enqueue(e) \/ W!Start(e) \/ W!Post(e) \/ W!Disable(e) \/ W!Settle(e)
                                 \/ W!DatabaseFails(e) \/ W!Crash(e)
      PROVE  row' = row
  BY <1>4 DEF W!Enqueue, W!Start, W!Post, W!Disable, W!Settle, W!DatabaseFails, W!Crash
<1>5. ASSUME NEW s \in Subscriptions, W!DeleteSubscription(s) PROVE row' = row
  BY <1>5 DEF W!DeleteSubscription
<1>6. CASE W!Quiet \/ UNCHANGED W!vars
  BY <1>3, <1>6 DEF W!Quiet, W!vars
<1> QED BY <1>1, <1>2, <1>3, <1>4, <1>5, <1>6 DEF W!Next, W!Work

-----------------------------------------------------------------------------
(* The notifications: digests, and the channel with its receipts. *)

Messaged == {"none", "queued", "sent", "delivered", "failed", "bounced"}

DigestTypes ==
    /\ preference \in [tips : BOOLEAN, batching : BOOLEAN]
    /\ batch \in [1 .. 3 -> Nat] /\ digests \in Nat /\ window \in 1 .. 3
    /\ tally \in [single : Nat, muted : Nat, batched : Nat]
    /\ flush \in [Requests -> [pc : {"asleep", "flush"}, listed : SUBSET (1 .. 2), count : Nat]]
    /\ \A f \in Requests : flush[f].pc = "flush" => flush[f].listed # {}

ChannelTypes ==
    /\ message \in [Messages -> Messaged]
    /\ channel \in [failures : Nat, disabled : BOOLEAN, notices : Nat]

\* A receipt that is being handled would move its delivery forward.
ReceiptsFit ==
    \A h \in Requests :
       /\ receipt[h] \in [pc : {"idle", "apply"}, of : Messages \cup {"none"}, seen : Messaged,
                          status : {"none", "delivered", "failed", "bounced"}]
       /\ receipt[h].pc = "apply" => /\ receipt[h].of \in Messages
                                     /\ receipt[h].status \in N!Transitions(receipt[h].seen)
                                     /\ receipt[h].status # "none"
ReceiptTypes == receipt = [h \in Requests |-> receipt[h]] /\ ReceiptsFit

DigestInv == DigestTypes /\ N!DigestsConserve
ChannelInv == ChannelTypes /\ ReceiptTypes /\ N!SuppressedOnce
NoticeInv == DigestInv /\ ChannelInv

LEMMA NoticeConstants == DigestSize \in Nat \ {0}
BY Assumptions DEF N!NoticesAssumption

LEMMA FirstIsListed == ASSUME NEW s \in SUBSET (1 .. 2), s # {} PROVE N!Min(s) \in s
<1>1. PICK y : y \in s
  OBVIOUS
<1>2. \A z \in s : z = 1 \/ z = 2
  OBVIOUS
<1>3. \E x \in s : \A z \in s : x <= z
  <2>1. CASE 1 \in s
    BY <1>2, <2>1
  <2>2. CASE 1 \notin s
    BY <1>1, <1>2, <2>2
  <2> QED BY <2>1, <2>2
<1> QED BY <1>3 DEF N!Min

LEMMA NoticeInitInv == N!Init => NoticeInv
<1> SUFFICES ASSUME N!Init PROVE NoticeInv
  OBVIOUS
<1>1. DigestTypes
  <2>1. preference \in [tips : BOOLEAN, batching : BOOLEAN]
    BY Zenon DEF N!Init
  <2> QED BY <2>1 DEF N!Init, N!AsleepFlush, DigestTypes
<1>2. N!DigestsConserve
  BY DEF N!Init, N!DigestsConserve
<1>3. ChannelTypes /\ ReceiptTypes
  BY DEF N!Init, N!NoReceipt, ChannelTypes, ReceiptTypes, ReceiptsFit, Messaged
<1>4. N!SuppressedOnce
  BY NoticeConstants DEF N!Init, N!SuppressedOnce
<1> QED BY <1>1, <1>2, <1>3, <1>4 DEF NoticeInv, DigestInv, ChannelInv

LEMMA DigestsStay == ASSUME DigestInv, UNCHANGED N!digestVars PROVE DigestInv'
BY DEF N!digestVars, DigestInv, DigestTypes, N!DigestsConserve

LEMMA ChannelStays == ASSUME ChannelInv, UNCHANGED N!channelVars PROVE ChannelInv'
BY DEF N!channelVars, ChannelInv, ChannelTypes, ReceiptTypes, ReceiptsFit, N!SuppressedOnce

-----------------------------------------------------------------------------
(* The digests. *)

LEMMA PreferenceSet ==
    ASSUME DigestInv, NEW p \in [tips : BOOLEAN, batching : BOOLEAN], N!SetPreference(p)
    PROVE  DigestInv'
<1>1. preference' = p /\ UNCHANGED <<batch, digests, window, flush, tally>>
  BY DEF N!SetPreference
<1> QED BY <1>1 DEF DigestInv, DigestTypes, N!DigestsConserve

LEMMA TipNotified == ASSUME DigestInv, NEW w \in 1 .. 2, N!Notify(w) PROVE DigestInv'
<1>1. UNCHANGED <<preference, digests, window, flush>>
  BY DEF N!Notify
<1>2. \/ tally' = [tally EXCEPT !.muted = @ + 1] /\ batch' = batch
      \/ tally' = [tally EXCEPT !.single = @ + 1] /\ batch' = batch
      \/ tally' = [tally EXCEPT !.batched = @ + 1] /\ batch' = [batch EXCEPT ![w] = @ + 1]
  BY DEF N!Notify
<1>3. DigestTypes'
  BY <1>1, <1>2 DEF DigestInv, DigestTypes
<1>4. N!DigestsConserve'
  BY <1>1, <1>2 DEF DigestInv, DigestTypes, N!DigestsConserve
<1> QED BY <1>3, <1>4 DEF DigestInv

LEMMA WindowClosed == ASSUME DigestInv, N!WindowCloses PROVE DigestInv'
BY DEF N!WindowCloses, DigestInv, DigestTypes, N!DigestsConserve

\* A sweep lists batches, or stops: it changes none.
LEMMA FlushMoves ==
    ASSUME DigestInv, NEW f \in Requests, NEW q, flush' = [flush EXCEPT ![f] = q],
           q \in [pc : {"asleep", "flush"}, listed : SUBSET (1 .. 2), count : Nat],
           q.pc = "flush" => q.listed # {}
    PROVE  /\ flush' \in [Requests -> [pc : {"asleep", "flush"}, listed : SUBSET (1 .. 2), count : Nat]]
           /\ \A g \in Requests : flush'[g].pc = "flush" => flush'[g].listed # {}
BY DEF DigestInv, DigestTypes

LEMMA AsleepFits ==
    /\ N!AsleepFlush \in [pc : {"asleep", "flush"}, listed : SUBSET (1 .. 2), count : Nat]
    /\ N!AsleepFlush.pc = "asleep"
BY DEF N!AsleepFlush

LEMMA BatchesListed ==
    ASSUME DigestInv, NEW f \in Requests, N!ListBatches(f) \/ N!FlushCrash(f) PROVE DigestInv'
<1>1. UNCHANGED <<preference, batch, digests, window, tally>>
  BY DEF N!ListBatches, N!FlushCrash
<1>2. \E q \in [pc : {"asleep", "flush"}, listed : SUBSET (1 .. 2), count : Nat] :
         flush' = [flush EXCEPT ![f] = q] /\ (q.pc = "flush" => q.listed # {})
  <2>1. CASE N!ListBatches(f)
    <3> DEFINE due == {w \in 1 .. 2 : w < window /\ batch[w] > 0}
               q == [pc |-> "flush", listed |-> due, count |-> batch[N!Min(due)]]
    <3>1. due # {} /\ flush' = [flush EXCEPT ![f] = q]
      BY <2>1 DEF N!ListBatches, N!Windows
    <3>2. due \in SUBSET (1 .. 2)
      OBVIOUS
    <3>3. PICK n \in Nat : n = batch[N!Min(due)]
      <4> HIDE DEF due
      <4>1. N!Min(due) \in 1 .. 2
        BY <3>1, <3>2, FirstIsListed
      <4> QED BY <4>1 DEF DigestInv, DigestTypes
    <3>4. q = [pc |-> "flush", listed |-> due, count |-> n]
      BY <3>3
    <3> HIDE DEF due
    <3>5. /\ q \in [pc : {"asleep", "flush"}, listed : SUBSET (1 .. 2), count : Nat]
          /\ q.pc = "flush" => q.listed # {}
      BY <3>1, <3>2, <3>3, <3>4
    <3> HIDE DEF q
    <3> QED BY <3>1, <3>5
  <2>2. CASE N!FlushCrash(f)
    BY <2>2, AsleepFits DEF N!FlushCrash
  <2> QED BY <2>1, <2>2
<1> QED BY <1>1, <1>2, FlushMoves DEF DigestInv, DigestTypes, N!DigestsConserve

\* What is taken out of a batch is in a digest, or was dropped.
LEMMA BatchFlushed == ASSUME DigestInv, NEW f \in Requests, N!FlushBatch(f) PROVE DigestInv'
<1> DEFINE listed == flush[f].listed
<1>0. listed \in SUBSET (1 .. 2) /\ listed # {}
  BY DEF N!FlushBatch, DigestInv, DigestTypes
<1>1. PICK w \in 1 .. 2 : w = N!Min(listed)
  <2> HIDE DEF listed
  <2> QED BY <1>0, FirstIsListed
<1>2. PICK n \in Nat : n = batch[w]
  BY DEF DigestInv, DigestTypes
<1>3. /\ UNCHANGED <<preference, window>> /\ batch' = [batch EXCEPT ![w] = 0]
      /\ \/ n = 0 /\ UNCHANGED <<digests, tally>>
         \/ tally' = [tally EXCEPT !.muted = @ + n, !.batched = @ - n] /\ UNCHANGED digests
         \/ digests' = digests + n /\ UNCHANGED tally
  BY <1>1, <1>2 DEF N!FlushBatch, N!Claimed
<1>4. /\ flush' \in [Requests -> [pc : {"asleep", "flush"}, listed : SUBSET (1 .. 2), count : Nat]]
      /\ \A g \in Requests : flush'[g].pc = "flush" => flush'[g].listed # {}
  <2>1. PICK rest \in SUBSET (1 .. 2) : rest = listed \ {w}
    BY <1>0
  <2>2. CASE rest = {}
    BY <1>1, <2>1, <2>2, AsleepFits, FlushMoves DEF N!FlushBatch
  <2>3. CASE rest # {}
    <3>1. PICK m \in Nat : m = batch[N!Min(rest)]
      <4>1. N!Min(rest) \in 1 .. 2
        BY <2>3, FirstIsListed
      <4> QED BY <4>1 DEF DigestInv, DigestTypes
    <3> DEFINE q == [flush[f] EXCEPT !.listed = rest, !.count = m]
    <3>2. flush' = [flush EXCEPT ![f] = q]
      BY <1>1, <2>1, <2>3, <3>1 DEF N!FlushBatch
    <3>3. /\ q \in [pc : {"asleep", "flush"}, listed : SUBSET (1 .. 2), count : Nat]
          /\ q.listed = rest
      BY DEF DigestInv, DigestTypes
    <3> HIDE DEF q
    <3> QED BY <2>3, <3>2, <3>3, FlushMoves
  <2> QED BY <2>2, <2>3
<1>5. /\ batch' \in [1 .. 3 -> Nat] /\ batch'[w] = 0
      /\ \A v \in (1 .. 3) \ {w} : batch'[v] = batch[v]
  BY <1>3 DEF DigestInv, DigestTypes
<1>6. /\ tally.batched = digests + batch[1] + batch[2] /\ batch[1] \in Nat /\ batch[2] \in Nat
      /\ digests \in Nat /\ tally.batched \in Nat /\ tally.muted \in Nat
  BY DEF DigestInv, DigestTypes, N!DigestsConserve
<1>7. batch'[1] + batch'[2] = batch[1] + batch[2] - n
  <2>1. CASE w = 1
    BY <1>2, <1>5, <1>6, <2>1
  <2>2. CASE w = 2
    BY <1>2, <1>5, <1>6, <2>2
  <2> QED BY <2>1, <2>2
<1>8. CASE n = 0 /\ UNCHANGED <<digests, tally>>
  BY <1>3, <1>4, <1>5, <1>6, <1>7, <1>8 DEF DigestInv, DigestTypes, N!DigestsConserve
<1>9. CASE tally' = [tally EXCEPT !.muted = @ + n, !.batched = @ - n] /\ UNCHANGED digests
  <2>1. PICK muted \in Nat, batched \in Nat : muted = tally.muted + n /\ batched = tally.batched - n
    BY <1>2, <1>6
  <2>2. tally' = [tally EXCEPT !.muted = muted, !.batched = batched]
    BY <1>9, <2>1
  <2>3. tally' \in [single : Nat, muted : Nat, batched : Nat] /\ tally'.batched = batched
    BY <2>2 DEF DigestInv, DigestTypes
  <2>4. N!DigestsConserve'
    BY <1>5, <1>6, <1>7, <1>9, <2>1, <2>3 DEF N!DigestsConserve
  <2> QED BY <1>3, <1>4, <1>5, <1>9, <2>3, <2>4 DEF DigestInv, DigestTypes
<1>10. CASE digests' = digests + n /\ UNCHANGED tally
  BY <1>3, <1>4, <1>5, <1>6, <1>7, <1>10 DEF DigestInv, DigestTypes, N!DigestsConserve
<1> QED BY <1>3, <1>8, <1>9, <1>10

-----------------------------------------------------------------------------
(* The channel. *)

\* A status that a step of the provider or of the transport writes is a later one.
Forward(m) == message'[m] = message[m] \/ N!Rank(message'[m]) > N!Rank(message[m])

LEMMA MessageQueued ==
    ASSUME ChannelInv, NEW m \in Messages, N!QueueDelivery(m)
    PROVE  ChannelInv' /\ \A k \in Messages : Forward(k)
<1>1. /\ message[m] = "none" /\ message' = [message EXCEPT ![m] = "queued"]
      /\ UNCHANGED <<channel, receipt>>
  BY DEF N!QueueDelivery
<1> QED BY <1>1 DEF ChannelInv, ChannelTypes, ReceiptTypes, ReceiptsFit, N!SuppressedOnce, Messaged,
           Forward, N!Rank

LEMMA SendAcknowledged ==
    ASSUME ChannelInv, NEW m \in Messages, N!AcknowledgeSent(m)
    PROVE  ChannelInv' /\ \A k \in Messages : Forward(k)
<1>1. /\ message' = [message EXCEPT ![m] = IF @ = "queued" THEN "sent" ELSE @]
      /\ UNCHANGED <<channel, receipt>>
  BY DEF N!AcknowledgeSent, N!Sent
<1> QED BY <1>1 DEF ChannelInv, ChannelTypes, ReceiptTypes, ReceiptsFit, N!SuppressedOnce, Messaged,
           Forward, N!Rank

LEMMA ReceiptCame ==
    ASSUME ChannelInv, NEW h \in Requests, NEW m \in Messages,
           NEW status \in {"delivered", "failed", "bounced"}, N!Receive(h, m, status)
    PROVE  ChannelInv' /\ \A k \in Messages : Forward(k)
<1>1. /\ receipt' = [receipt EXCEPT ![h] =
            [pc |-> "apply", of |-> m, seen |-> message[m], status |-> status]]
      /\ status \in N!Transitions(message[m]) /\ UNCHANGED <<message, channel>>
  BY DEF N!Receive
<1> QED BY <1>1 DEF ChannelInv, ChannelTypes, ReceiptTypes, ReceiptsFit, N!SuppressedOnce, Forward

LEMMA ReceiptApplied ==
    ASSUME ChannelInv, NEW h \in Requests, N!ApplyReceipt(h)
    PROVE  ChannelInv' /\ \A k \in Messages : Forward(k)
<1>1. /\ receipt[h].pc = "apply" /\ receipt' = [receipt EXCEPT ![h] = N!NoReceipt]
  BY DEF N!ApplyReceipt
<1>2. ReceiptTypes'
  BY <1>1 DEF ChannelInv, ReceiptTypes, ReceiptsFit, N!NoReceipt, Messaged
<1>3. PICK m \in Messages, s \in {"delivered", "failed", "bounced"} :
         /\ m = receipt[h].of /\ s = receipt[h].status /\ s \in N!Transitions(receipt[h].seen)
  BY <1>1 DEF ChannelInv, ReceiptTypes, ReceiptsFit
<1>4. CASE N!StillSeen(h)
  <2>1. /\ message' = [message EXCEPT ![m] = s] /\ message[m] = receipt[h].seen
        /\ channel' = [failures |-> N!Counted(s),
                       disabled |-> channel.disabled \/ N!Disables(s),
                       notices |-> IF N!Disables(s) THEN channel.notices + 1 ELSE channel.notices]
    BY <1>3, <1>4 DEF N!ApplyReceipt, N!StillSeen
  <2>2. PICK failures \in Nat : /\ failures = N!Counted(s)
                                /\ failures = IF s = "delivered" THEN 0 ELSE channel.failures + 1
    BY DEF N!Counted, ChannelInv, ChannelTypes
  <2>3. PICK disabled \in BOOLEAN : disabled = (channel.disabled \/ N!Disables(s))
    BY Zenon
  <2>4. N!Disables(s) <=> ~channel.disabled /\ (s = "bounced" \/ failures >= DigestSize)
    BY <2>2, NoticeConstants DEF N!Disables
  <2>5. PICK notes \in Nat : notes = IF N!Disables(s) THEN channel.notices + 1 ELSE channel.notices
    BY DEF ChannelInv, ChannelTypes
  <2>6. channel' = [failures |-> failures, disabled |-> disabled, notices |-> notes]
    BY <2>1, <2>2, <2>3, <2>5
  <2>7. ChannelTypes'
    BY <2>1, <2>6 DEF ChannelInv, ChannelTypes, Messaged
  <2>8. disabled <=> channel.disabled \/ s = "bounced" \/ failures >= DigestSize
    <3>1. disabled <=> channel.disabled \/ N!Disables(s)
      BY Zenon, <2>3
    <3> QED BY Zenon, <2>4, <3>1
  <2>9. notes = IF disabled THEN 1 ELSE 0
    BY <2>4, <2>5, <2>8 DEF ChannelInv, ChannelTypes, N!SuppressedOnce
  <2>10. (\E k \in Messages : message'[k] = "bounced") => disabled
    BY <2>1, <2>8 DEF ChannelInv, ChannelTypes, N!SuppressedOnce
  <2>11. channel'.notices = notes /\ channel'.failures = failures /\ channel'.disabled = disabled
    BY <2>6
  <2>12. N!SuppressedOnce'
    <3>1. channel'.disabled <=> disabled
      BY Zenon, <2>11
    <3> QED BY <2>8, <2>9, <2>10, <2>11, <3>1 DEF N!SuppressedOnce
  <2>13. N!Rank(s) > N!Rank(message[m])
    BY <1>3, <2>1 DEF N!Transitions, N!Rank
  <2>14. \A k \in Messages : Forward(k)
    BY <2>1, <2>13 DEF Forward, ChannelInv, ChannelTypes
  <2> QED BY <1>2, <2>7, <2>12, <2>14 DEF ChannelInv
<1>5. CASE ~N!StillSeen(h)
  <2>1. UNCHANGED <<message, channel>>
    BY <1>5 DEF N!ApplyReceipt
  <2> QED BY <1>2, <2>1 DEF ChannelInv, ChannelTypes, N!SuppressedOnce, Forward
<1> QED BY <1>4, <1>5

-----------------------------------------------------------------------------

LEMMA NoticeNextInv ==
    ASSUME NoticeInv, [N!Next]_(N!vars) PROVE NoticeInv' /\ \A k \in Messages : Forward(k)
<1> USE DEF NoticeInv
<1>0. ASSUME UNCHANGED message PROVE \A k \in Messages : Forward(k)
  BY <1>0 DEF Forward
<1>1. CASE N!Quiet \/ UNCHANGED N!vars
  <2>1. UNCHANGED N!digestVars /\ UNCHANGED N!channelVars /\ UNCHANGED message
    BY <1>1 DEF N!Quiet, N!vars, N!digestVars, N!channelVars
  <2> QED BY <1>0, <2>1, DigestsStay, ChannelStays
<1>2. ASSUME DigestInv', UNCHANGED N!channelVars
      PROVE  NoticeInv' /\ \A k \in Messages : Forward(k)
  BY <1>0, <1>2, ChannelStays DEF N!channelVars
<1>3. CASE N!WindowCloses
  BY <1>2, <1>3, WindowClosed DEF N!WindowCloses
<1>4. ASSUME NEW p \in [tips : BOOLEAN, batching : BOOLEAN], N!SetPreference(p)
      PROVE  NoticeInv' /\ \A k \in Messages : Forward(k)
  BY <1>2, <1>4, PreferenceSet DEF N!SetPreference
<1>5. ASSUME NEW w \in 1 .. 2, N!Notify(w) PROVE NoticeInv' /\ \A k \in Messages : Forward(k)
  BY <1>2, <1>5, TipNotified DEF N!Notify
<1>6. ASSUME NEW f \in Requests, N!ListBatches(f) \/ N!FlushBatch(f) \/ N!FlushCrash(f)
      PROVE  NoticeInv' /\ \A k \in Messages : Forward(k)
  <2>1. UNCHANGED N!channelVars
    BY <1>6 DEF N!ListBatches, N!FlushBatch, N!FlushCrash
  <2> QED BY <1>2, <1>6, <2>1, BatchesListed, BatchFlushed
<1>7. ASSUME NEW m \in Messages, N!QueueDelivery(m) \/ N!AcknowledgeSent(m)
      PROVE  NoticeInv' /\ \A k \in Messages : Forward(k)
  <2>1. UNCHANGED N!digestVars
    BY <1>7 DEF N!QueueDelivery, N!AcknowledgeSent
  <2> QED BY <1>7, <2>1, DigestsStay, MessageQueued, SendAcknowledged
<1>8. ASSUME NEW m \in Messages, NEW h \in Requests, NEW s \in {"delivered", "failed", "bounced"},
             N!Receive(h, m, s)
      PROVE  NoticeInv' /\ \A k \in Messages : Forward(k)
  BY <1>8, DigestsStay, ReceiptCame DEF N!Receive
<1>9. ASSUME NEW h \in Requests, N!ApplyReceipt(h)
      PROVE  NoticeInv' /\ \A k \in Messages : Forward(k)
  BY <1>9, DigestsStay, ReceiptApplied DEF N!ApplyReceipt
<1> QED BY <1>1, <1>3, <1>4, <1>5, <1>6, <1>7, <1>8, <1>9 DEF N!Next, N!Windows

LEMMA NoticesHoldTogether == NoticeInv => N!TypeOK /\ N!DigestsConserve /\ N!SuppressedOnce
<1> SUFFICES ASSUME NoticeInv PROVE N!TypeOK /\ N!DigestsConserve /\ N!SuppressedOnce
  OBVIOUS
<1>1. N!TypeOK
  BY DEF NoticeInv, DigestInv, ChannelInv, DigestTypes, ChannelTypes, ReceiptTypes, ReceiptsFit,
         Messaged, N!TypeOK
<1> QED BY <1>1 DEF NoticeInv, DigestInv, ChannelInv

-----------------------------------------------------------------------------
(* The room: what a client does not know below an event it knows was missed, and whatever else was *)
(* heard while it was in the room is on its way in order, before or after the answer.              *)

RoomClients == [mode : {"off", "replay", "live"}, last : Nat, known : SUBSET Nat, held : SUBSET Nat]
RoomMessages == [type : {"live", "answer"}, id : Nat, events : SUBSET Nat, refresh : BOOLEAN]
Sockets == [connected : BOOLEAN, joined : BOOLEAN, refused : BOOLEAN]

Subscribing == [type |-> "subscribe", last |-> 0]
Asking(last) == [type |-> "catchup", last |-> last]

RoomTypes ==
    /\ published \in 0 .. MaxEvents /\ heard \in 0 .. published
    /\ stream \in SUBSET (1 .. published) /\ missed \in SUBSET (1 .. published)
    /\ socket \in Sockets
    /\ client \in RoomClients /\ toClient \in Seq(RoomMessages)
    /\ client.known \subseteq 1 .. published /\ client.held \subseteq 1 .. heard
    /\ client.last \in client.known \cup {0}

\* The stream has lost its oldest events only.
Recent ==
    \A s \in stream : \A d \in 1 .. published : s < d => d \in stream \cup missed

IsLive(i) == toClient[i].type = "live"
OnItsWay(e) == \E i \in 1 .. Len(toClient) : IsLive(i) /\ toClient[i].id = e

\* Live events come in order, and after those that are held back.
Ordered ==
    \A i \in 1 .. Len(toClient) : IsLive(i) =>
        /\ toClient[i].id \in 1 .. heard
        /\ \A h \in client.held : h < toClient[i].id
        /\ \A j \in 1 .. Len(toClient) : i < j /\ IsLive(j) => toClient[i].id < toClient[j].id

Gapless(s) == \A e \in s : \A d \in 1 .. e : d \in s \cup missed
Complete(s) == \A d \in 1 .. heard : d \in s \cup missed \/ OnItsWay(d)

\* The answer, if it is on its way, fills the gaps of the client.
Fills(i) ==
    /\ client.mode = "replay" /\ toServer = <<>>
    /\ \A j \in 1 .. Len(toClient) : ~IsLive(j) => j = i
    /\ toClient[i].refresh => toClient[i].events = {}
    /\ ~toClient[i].refresh =>
          /\ socket.joined /\ toClient[i].events \subseteq 1 .. published
          /\ Gapless(client.known \cup toClient[i].events)
          /\ Complete(client.known \cup toClient[i].events \cup client.held)
Answered == \A i \in 1 .. Len(toClient) : ~IsLive(i) => Fills(i)

Following ==
    client.mode = "live" =>
        toServer = <<>> /\ client.held = {} /\ (socket.joined => Complete(client.known))

\* What a client that has not joined has been sent.
Outside == ~socket.joined => client.held = {} /\ \A i \in 1 .. Len(toClient) : ~IsLive(i)

StillAsked ==
    \/ toServer = <<>>
    \/ toServer = <<Asking(client.last)>> /\ client.mode = "replay"
    \/ toServer = <<Subscribing, Asking(client.last)>> /\ client.mode = "replay" /\ ~socket.joined

Away ==
    /\ client.mode = "off" => ~socket.connected
    /\ ~socket.connected => toServer = <<>> /\ toClient = <<>> /\ client.held = {} /\ ~socket.joined

RoomInv ==
    /\ RoomTypes /\ Recent /\ Gapless(client.known) /\ Ordered
    /\ Answered /\ Following /\ Outside /\ StillAsked /\ Away

-----------------------------------------------------------------------------

LEMMA RoomConstants == Limit \in Nat \ {0} /\ MaxEvents \in Nat
BY Assumptions DEF R!RealtimeAssumption

LEMMA RoomInitInv == R!Init => RoomInv
<1> SUFFICES ASSUME R!Init PROVE RoomInv
  OBVIOUS
<1>1. /\ published = 0 /\ heard = 0 /\ stream = {} /\ missed = {} /\ toClient = <<>> /\ toServer = <<>>
      /\ client = [mode |-> "off", last |-> 0, known |-> {}, held |-> {}]
      /\ socket = [connected |-> FALSE, joined |-> FALSE, refused |-> FALSE]
  BY DEF R!Init, R!Off
<1>2. toClient \in Seq(RoomMessages) /\ Len(toClient) = 0
  BY <1>1
<1>3. RoomTypes
  BY <1>1, <1>2, RoomConstants DEF RoomTypes, RoomClients, Sockets
<1>4. Recent /\ Gapless(client.known) /\ Ordered /\ Answered /\ Following /\ Outside /\ StillAsked /\ Away
  BY <1>1, <1>2 DEF Recent, Gapless, Ordered, Answered, Following, Outside, StillAsked, Away
<1> QED BY <1>3, <1>4 DEF RoomInv

\* A set of numbers that has a bound has a largest one.
LEMMA LargestIs ==
    ASSUME NEW n \in Nat, NEW s \in SUBSET (0 .. n), s # {} PROVE R!Max(s) \in s
<1> DEFINE below == {d \in 0 .. n : n - d \in s}
<1>1. below \in SUBSET Nat /\ below # {}
  <2>1. PICK x \in s : TRUE
    OBVIOUS
  <2>2. n - x \in 0 .. n /\ n - (n - x) = x
    BY <2>1
  <2> QED BY <2>1, <2>2
<1>2. PICK d \in below : \A e \in below : d <= e
  <2> HIDE DEF below
  <2> QED BY <1>1, Least
<1>3. n - d \in s /\ d \in 0 .. n
  BY <1>2
<1>5. \A y \in s : n - d >= y
  <2> SUFFICES ASSUME NEW y \in s PROVE n - d >= y
    OBVIOUS
  <2>1. y \in 0 .. n /\ n - y \in 0 .. n /\ n - (n - y) = y
    OBVIOUS
  <2>2. n - y \in below
    BY <2>1
  <2>3. d <= n - y
    BY <1>2, <2>2
  <2> QED BY <1>3, <2>1, <2>3
<1>6. \E x \in s : \A y \in s : x >= y
  BY <1>3, <1>5
<1> QED BY <1>6 DEF R!Max

\* What a client learns from the events es.
LEMMA Applied ==
    ASSUME NEW p \in Nat, NEW c \in RoomClients, NEW es \in SUBSET (1 .. p), c.known \subseteq 1 .. p,
           c.last \in 0 .. p
    PROVE  /\ R!Apply(c, es) \in RoomClients
           /\ R!Apply(c, es).mode = c.mode /\ R!Apply(c, es).held = c.held
           /\ R!Apply(c, es).known = c.known \cup es
           /\ R!Apply(c, es).last \in {c.last} \cup es
<1>0. 1 .. p \subseteq 0 .. p /\ 0 .. p \subseteq Nat
  OBVIOUS
<1>1. PICK known \in SUBSET Nat : known = c.known \cup es
  <2>1. c.known \cup es \in SUBSET Nat
    BY <1>0
  <2> QED BY <2>1
<1>2. PICK last \in Nat : last = R!Max({c.last} \cup es) /\ last \in {c.last} \cup es
  <2>1. {c.last} \cup es \in SUBSET (0 .. p) /\ {c.last} \cup es # {}
    BY <1>0
  <2>2. R!Max({c.last} \cup es) \in {c.last} \cup es
    BY <2>1, LargestIs
  <2> QED BY <1>0, <2>1, <2>2
<1>3. R!Apply(c, es) = [c EXCEPT !.known = known, !.last = last]
  BY <1>1, <1>2 DEF R!Apply
<1> QED BY <1>1, <1>2, <1>3 DEF RoomClients

-----------------------------------------------------------------------------
(* The events. *)

\* More events, and more that were missed, change nothing of what is on its way.
LEMMA EventsAdded ==
    ASSUME RoomInv, published' \in 0 .. MaxEvents, published <= published',
           missed \subseteq missed', missed' \in SUBSET (1 .. published'),
           stream' \in SUBSET (1 .. published'), Recent',
           UNCHANGED <<heard, socket, toServer, toClient, client>>
    PROVE  RoomInv'
<1>1. published \in Nat /\ heard \in 0 .. published /\ published' \in Nat
  BY RoomConstants DEF RoomInv, RoomTypes
<1>2. heard' \in 0 .. published' /\ 1 .. published \subseteq 1 .. published'
  BY <1>1
<1>3. RoomTypes'
  BY <1>2 DEF RoomInv, RoomTypes
<1>4. \A s : /\ Gapless(s) => Gapless(s)'
             /\ Complete(s) => Complete(s)'
  BY DEF Gapless, Complete, OnItsWay, IsLive
<1>5. Gapless(client.known)' /\ Ordered' /\ Outside' /\ StillAsked' /\ Away'
  BY <1>4 DEF RoomInv, Ordered, IsLive, Outside, StillAsked, Away
<1>6. Following'
  BY <1>4 DEF RoomInv, Following
<1>7. Answered'
  <2> SUFFICES ASSUME NEW i \in 1 .. Len(toClient), ~IsLive(i) PROVE Fills(i)'
    BY DEF Answered, IsLive
  <2>1. Fills(i)
    BY DEF RoomInv, Answered
  <2> QED BY <1>2, <1>4, <2>1 DEF Fills, IsLive
<1> QED BY <1>3, <1>5, <1>6, <1>7 DEF RoomInv

LEMMA EventPublished == ASSUME RoomInv, R!PublishRoomEvent PROVE RoomInv'
<1>1. /\ published \in 0 .. MaxEvents /\ published < MaxEvents /\ published' = published + 1
      /\ stream \in SUBSET (1 .. published) /\ missed \in SUBSET (1 .. published)
      /\ published' \in stream'
      /\ stream' \subseteq {published'} \cup stream
      /\ \A d, e \in stream : d < e => e \in stream'
      /\ UNCHANGED <<heard, missed, socket, toServer, toClient, client>>
  BY DEF R!PublishRoomEvent, RoomInv, RoomTypes
<1>2. published \in Nat /\ published' \in 0 .. MaxEvents
  BY <1>1, RoomConstants
<1>3. 1 .. published \subseteq 1 .. published' /\ published' \in 1 .. published'
  BY <1>1, <1>2
<1>4. Recent'
  <2> SUFFICES ASSUME NEW s \in stream', NEW d \in 1 .. published', s < d
               PROVE  d \in stream' \cup missed'
    BY DEF Recent
  <2>1. CASE d = published'
    BY <1>1, <2>1
  <2>2. CASE d # published'
    <3>1. d \in 1 .. published /\ s \in stream
      BY <1>1, <1>2, <2>2
    <3>2. d \in stream \cup missed
      BY <3>1 DEF RoomInv, Recent
    <3> QED BY <1>1, <3>1, <3>2
  <2> QED BY <2>1, <2>2
<1> QED BY <1>1, <1>2, <1>3, <1>4, EventsAdded

LEMMA EventNotAppended == ASSUME RoomInv, R!AppendFails PROVE RoomInv'
<1>1. /\ published \in 0 .. MaxEvents /\ published < MaxEvents /\ published' = published + 1
      /\ stream \in SUBSET (1 .. published) /\ missed \in SUBSET (1 .. published)
      /\ missed' = missed \cup {published'}
      /\ UNCHANGED <<stream, heard, socket, toServer, toClient, client>>
  BY DEF R!AppendFails, RoomInv, RoomTypes
<1>2. published \in Nat /\ published' \in 0 .. MaxEvents
  BY <1>1, RoomConstants
<1>3. 1 .. published \subseteq 1 .. published' /\ published' \in 1 .. published'
      /\ 1 .. published' = 1 .. published \cup {published'}
  BY <1>1, <1>2
<1>4. Recent'
  BY <1>1, <1>3 DEF RoomInv, Recent
<1> QED BY <1>1, <1>2, <1>3, <1>4, EventsAdded

LEMMA EventsExpire == ASSUME RoomInv, R!StreamExpires PROVE RoomInv'
<1>1. /\ published \in 0 .. MaxEvents /\ missed \in SUBSET (1 .. published) /\ stream' = {}
      /\ UNCHANGED <<published, heard, missed, socket, toServer, toClient, client>>
  BY DEF R!StreamExpires, RoomInv, RoomTypes
<1>2. Recent' /\ published <= published'
  BY <1>1, RoomConstants DEF Recent
<1> QED BY <1>1, <1>2, EventsAdded

\* The gateway comes one event further, and nobody is sent it.
LEMMA NothingSent ==
    ASSUME RoomInv, heard < published, heard' = heard + 1, missed' \in SUBSET (1 .. published),
           missed \subseteq missed', socket.joined => heard' \in missed',
           UNCHANGED <<published, stream, socket, toServer, toClient, client>>
    PROVE  RoomInv'
<1>1. /\ published \in Nat /\ heard \in 0 .. published /\ heard' \in 0 .. published
      /\ 1 .. heard \subseteq 1 .. heard' /\ 1 .. heard' = 1 .. heard \cup {heard'}
  BY RoomConstants DEF RoomInv, RoomTypes
<1>2. RoomTypes'
  BY <1>1 DEF RoomInv, RoomTypes
<1>3. Recent'
  BY DEF RoomInv, Recent
<1>4. \A s : /\ Gapless(s) => Gapless(s)'
             /\ socket.joined /\ Complete(s) => Complete(s)'
  BY <1>1 DEF Gapless, Complete, OnItsWay, IsLive
<1>5. Gapless(client.known)' /\ Outside' /\ StillAsked' /\ Away'
  BY <1>4 DEF RoomInv, IsLive, Outside, StillAsked, Away
<1>6. Ordered'
  BY <1>1 DEF RoomInv, Ordered, IsLive
<1>7. Following'
  BY <1>4 DEF RoomInv, Following
<1>8. Answered'
  <2> SUFFICES ASSUME NEW i \in 1 .. Len(toClient), ~IsLive(i) PROVE Fills(i)'
    BY DEF Answered, IsLive
  <2>1. Fills(i)
    BY DEF RoomInv, Answered
  <2> QED BY <1>4, <2>1 DEF Fills, IsLive
<1> QED BY <1>2, <1>3, <1>5, <1>6, <1>7, <1>8 DEF RoomInv

LEMMA EventMissed == ASSUME RoomInv, R!Miss PROVE RoomInv'
<1>1. /\ heard < published /\ heard' = heard + 1 /\ missed' = missed \cup {heard'}
      /\ UNCHANGED <<published, stream, socket, toServer, toClient, client>>
      /\ published \in Nat /\ heard \in Nat /\ missed \in SUBSET (1 .. published)
  BY RoomConstants DEF R!Miss, RoomInv, RoomTypes
<1>2. heard' \in 1 .. published
  BY <1>1
<1> QED BY <1>1, <1>2, NothingSent

\* Something more is on its way to the client.
LEMMA OneMoreSent ==
    ASSUME RoomTypes, NEW m \in RoomMessages, toClient' = Append(toClient, m)
    PROVE  /\ toClient' \in Seq(RoomMessages) /\ Len(toClient) \in Nat
           /\ Len(toClient') = Len(toClient) + 1
           /\ 1 .. Len(toClient') = 1 .. Len(toClient) \cup {Len(toClient) + 1}
           /\ \A i \in 1 .. Len(toClient) : toClient'[i] = toClient[i] /\ i < Len(toClient) + 1
           /\ toClient'[Len(toClient) + 1] = m
<1>1. toClient \in Seq(RoomMessages) /\ Len(toClient) \in Nat
  BY LenProperties DEF RoomTypes
<1>2. /\ toClient' \in Seq(RoomMessages) /\ Len(toClient') = Len(toClient) + 1
      /\ \A i \in 1 .. Len(toClient) : toClient'[i] = toClient[i]
      /\ toClient'[Len(toClient) + 1] = m
  BY <1>1, AppendProperties
<1> QED BY <1>1, <1>2

LEMMA EventRelayed == ASSUME RoomInv, R!Relay PROVE RoomInv'
<1>1. /\ published \in Nat /\ heard \in 0 .. published /\ heard < published /\ heard' = heard + 1
      /\ UNCHANGED <<published, stream, missed, socket, toServer, client>>
      /\ missed \in SUBSET (1 .. published)
  BY RoomConstants DEF R!Relay, RoomInv, RoomTypes
<1>2. CASE ~(socket.joined /\ heard' \notin missed)
  <2>1. toClient' = toClient
    BY <1>2 DEF R!Relay
  <2> QED BY <1>1, <1>2, <2>1, NothingSent
<1>3. CASE socket.joined /\ heard' \notin missed
  <2>n. PICK n \in Nat : n = Len(toClient)
    BY LenProperties DEF RoomInv, RoomTypes
  <2>k. PICK k \in Nat : k = heard'
    BY <1>1
  <2>1. PICK m \in RoomMessages : m = R!Live(k) /\ m.type = "live" /\ m.id = k
    <3>1. R!Live(k) \in RoomMessages /\ R!Live(k).type = "live" /\ R!Live(k).id = k
      BY DEF R!Live, RoomMessages
    <3> QED BY <3>1
  <2>2. toClient' = Append(toClient, m)
    BY <1>3, <2>k, <2>1 DEF R!Relay
  <2>3. /\ toClient' \in Seq(RoomMessages) /\ n \in Nat /\ Len(toClient') = n + 1
        /\ 1 .. Len(toClient') = 1 .. n \cup {n + 1}
        /\ \A i \in 1 .. n : toClient'[i] = toClient[i] /\ i < n + 1
        /\ toClient'[n + 1] = m
    BY <2>n, <2>2, OneMoreSent DEF RoomInv
  <2>4. /\ k \in 0 .. published /\ 1 .. heard \subseteq 1 .. k /\ k \in 1 .. k
        /\ 1 .. k = 1 .. heard \cup {k} /\ \A d \in 1 .. heard : d < k
    BY <1>1, <2>k
  <2>5. RoomTypes'
    BY <1>1, <2>k, <2>3, <2>4 DEF RoomInv, RoomTypes
  <2>6. Recent' /\ Gapless(client.known)' /\ StillAsked'
    BY <1>1 DEF RoomInv, Recent, Gapless, StillAsked
  <2>7. (\A i \in 1 .. n : IsLive(i)' <=> IsLive(i)) /\ IsLive(n + 1)'
    BY <2>1, <2>3 DEF IsLive
  <2>8. Ordered'
    <3> SUFFICES ASSUME NEW i \in 1 .. Len(toClient'), IsLive(i)'
                 PROVE  /\ toClient'[i].id \in 1 .. k
                        /\ \A h \in client.held : h < toClient'[i].id
                        /\ \A j \in 1 .. Len(toClient') :
                              i < j /\ IsLive(j)' => toClient'[i].id < toClient'[j].id
      BY <1>1, <2>k DEF Ordered
    <3>1. CASE i \in 1 .. n
      <4>1. /\ toClient[i].id \in 1 .. heard
            /\ \A h \in client.held : h < toClient[i].id
            /\ \A j \in 1 .. n : i < j /\ IsLive(j) => toClient[i].id < toClient[j].id
        BY <2>n, <2>7, <3>1 DEF RoomInv, Ordered
      <4> QED BY <2>1, <2>3, <2>4, <2>7, <3>1, <4>1
    <3>2. CASE i = n + 1
      <4>1. \A j \in 1 .. Len(toClient') : ~(i < j)
        BY <2>3, <3>2
      <4>2. client.held \subseteq 1 .. heard
        BY DEF RoomInv, RoomTypes
      <4> QED BY <2>1, <2>3, <2>4, <3>2, <4>1, <4>2
    <3> QED BY <2>3, <3>1, <3>2
  <2>9. \A s : Complete(s) => Complete(s)'
    <3>1. \A d : OnItsWay(d) => OnItsWay(d)'
      BY <2>n, <2>3, <2>7 DEF OnItsWay
    <3>2. OnItsWay(k)'
      BY <2>1, <2>3, <2>7 DEF OnItsWay
    <3> QED BY <1>1, <2>k, <2>4, <3>1, <3>2 DEF Complete
  <2>10. Following'
    BY <1>1, <2>9 DEF RoomInv, Following
  <2>11. Outside' /\ Away'
    BY <1>1, <1>3 DEF RoomInv, Outside, Away
  <2>12. Answered'
    <3> SUFFICES ASSUME NEW i \in 1 .. Len(toClient'), ~IsLive(i)' PROVE Fills(i)'
      BY DEF Answered
    <3>1. i \in 1 .. n /\ ~IsLive(i)
      BY <2>3, <2>7
    <3>2. Fills(i) /\ toClient'[i] = toClient[i]
      BY <2>n, <2>3, <3>1 DEF RoomInv, Answered
    <3>3. \A j \in 1 .. Len(toClient') : ~IsLive(j)' => j = i
      BY <2>n, <2>3, <2>7, <3>2 DEF Fills
    <3>4. \A s : Gapless(s) => Gapless(s)'
      BY <1>1 DEF Gapless
    <3> QED BY <1>1, <2>9, <3>2, <3>3, <3>4 DEF Fills
  <2> QED BY <2>5, <2>6, <2>8, <2>10, <2>11, <2>12 DEF RoomInv
<1> QED BY <1>2, <1>3

-----------------------------------------------------------------------------
(* The requests. *)

LEMMA Tails == ASSUME NEW a, NEW b PROVE Tail(<<a, b>>) = <<b>> /\ Tail(<<b>>) = <<>>
OBVIOUS

\* As long as a request is under way there is no answer.
LEMMA NoAnswerYet ==
    ASSUME RoomInv, toServer # <<>>
    PROVE  /\ \A i \in 1 .. Len(toClient) : IsLive(i)
           /\ client.mode = "replay" /\ toServer \notin {<<>>}
           /\ ~socket.joined => Len(toClient) = 0
<1>1. \A i \in 1 .. Len(toClient) : IsLive(i)
  BY DEF RoomInv, Answered, Fills
<1>2. ASSUME ~socket.joined PROVE Len(toClient) = 0
  <2>1. Len(toClient) \in Nat
    BY LenProperties DEF RoomInv, RoomTypes
  <2>2. \A i \in 1 .. Len(toClient) : FALSE
    BY <1>1, <1>2 DEF RoomInv, Outside
  <2> QED BY <2>1, <2>2
<1> QED BY <1>1, <1>2 DEF RoomInv, StillAsked

\* The first request is dropped, with or without joining the room.
LEMMA RequestTaken ==
    ASSUME RoomInv, toServer # <<>>, toServer' = Tail(toServer), socket' \in Sockets,
           socket'.connected = socket.connected, socket.connected,
           \/ socket'.joined = socket.joined
           \/ socket'.joined /\ toServer' = <<Asking(client.last)>>,
           UNCHANGED <<published, stream, heard, missed, toClient, client>>
    PROVE  RoomInv'
<1>1. /\ \A i \in 1 .. Len(toClient) : IsLive(i)
      /\ client.mode = "replay" /\ (~socket.joined => Len(toClient) = 0)
  BY NoAnswerYet
<1>2. RoomTypes' /\ Recent' /\ Gapless(client.known)' /\ Ordered'
  BY DEF RoomInv, RoomTypes, Recent, Gapless, Ordered, IsLive
<1>3. Answered' /\ Following' /\ Away'
  BY <1>1 DEF Answered, IsLive, Following, Away
<1>4. Outside'
  BY DEF RoomInv, Outside, IsLive
<1>5. StillAsked'
  BY <1>1, Tails DEF RoomInv, StillAsked
<1> QED BY <1>2, <1>3, <1>4, <1>5 DEF RoomInv

\* Nothing is asked on a connection that is not there.
LEMMA RequestsAreConnected == ASSUME RoomInv, toServer # <<>> PROVE socket.connected
BY DEF RoomInv, Away

LEMMA ClientJoins == ASSUME RoomInv, R!Join PROVE RoomInv'
<1>1. /\ toServer # <<>> /\ toServer[1].type = "subscribe" /\ toServer' = Tail(toServer)
      /\ socket' = [socket EXCEPT !.joined = TRUE] /\ socket \in Sockets
      /\ UNCHANGED <<published, stream, heard, missed, toClient, client>>
  BY DEF R!Join, R!FirstIs, RoomInv, RoomTypes
<1>2. /\ socket' \in Sockets /\ socket'.joined /\ socket'.connected = socket.connected
      /\ socket.connected
  BY <1>1, RequestsAreConnected DEF Sockets
<1>3. toServer = <<Subscribing, Asking(client.last)>>
  BY <1>1 DEF RoomInv, StillAsked, Asking
<1>4. toServer' = <<Asking(client.last)>>
  BY <1>1, <1>3, Tails
<1> QED BY <1>1, <1>2, <1>4, RequestTaken

LEMMA RequestRefused == ASSUME RoomInv, R!Refuse PROVE RoomInv'
<1>1. /\ toServer # <<>> /\ toServer' = Tail(toServer)
      /\ socket' = [socket EXCEPT !.refused = TRUE] /\ socket \in Sockets
      /\ UNCHANGED <<published, stream, heard, missed, toClient, client>>
  BY DEF R!Refuse, RoomInv, RoomTypes
<1>2. /\ socket' \in Sockets /\ socket'.joined = socket.joined
      /\ socket'.connected = socket.connected /\ socket.connected
  BY <1>1, RequestsAreConnected DEF Sockets
<1> QED BY <1>1, <1>2, RequestTaken

LEMMA AnswerFits ==
    ASSUME NEW es \in SUBSET Nat, NEW ask \in BOOLEAN
    PROVE  /\ R!Answer(es, ask) \in RoomMessages /\ R!Answer(es, ask).type = "answer"
           /\ R!Answer(es, ask).refresh = ask /\ R!Answer(es, ask).events = es
BY DEF R!Answer, RoomMessages

\* The answer m fits what the client knows and what is before it.
LEMMA AnswerSent ==
    ASSUME RoomInv, NEW m \in RoomMessages, m.type = "answer", toClient' = Append(toClient, m),
           toServer = <<Asking(client.last)>>, toServer' = <<>>,
           m.refresh => m.events = {},
           ~m.refresh => /\ socket.joined /\ m.events \subseteq 1 .. published
                         /\ Gapless(client.known \cup m.events)
                         /\ \A d \in 1 .. heard : d \in client.known \cup m.events \cup missed,
           UNCHANGED <<published, stream, heard, missed, socket, client>>
    PROVE  RoomInv'
<1>n. PICK n \in Nat : n = Len(toClient)
  BY LenProperties DEF RoomInv, RoomTypes
<1>0. toServer # <<>>
  OBVIOUS
<1>1. /\ \A i \in 1 .. n : IsLive(i)
      /\ client.mode = "replay" /\ (~socket.joined => n = 0)
  BY <1>n, <1>0, NoAnswerYet
<1>2. /\ toClient' \in Seq(RoomMessages) /\ n \in Nat /\ Len(toClient') = n + 1
      /\ 1 .. Len(toClient') = 1 .. n \cup {n + 1}
      /\ \A i \in 1 .. n : toClient'[i] = toClient[i] /\ i < n + 1
      /\ toClient'[n + 1] = m
  BY <1>n, OneMoreSent DEF RoomInv
<1>3. (\A i \in 1 .. n : IsLive(i)') /\ ~IsLive(n + 1)'
  BY <1>1, <1>2 DEF IsLive
<1>4. RoomTypes' /\ Recent' /\ Gapless(client.known)'
  BY <1>2 DEF RoomInv, RoomTypes, Recent, Gapless
<1>5. Ordered'
  <2> SUFFICES ASSUME NEW i \in 1 .. Len(toClient'), IsLive(i)'
               PROVE  /\ toClient'[i].id \in 1 .. heard
                      /\ \A h \in client.held : h < toClient'[i].id
                      /\ \A j \in 1 .. Len(toClient') :
                            i < j /\ IsLive(j)' => toClient'[i].id < toClient'[j].id
    BY DEF Ordered
  <2>1. i \in 1 .. n /\ \A j \in 1 .. Len(toClient') : IsLive(j)' => j \in 1 .. n
    BY <1>2, <1>3
  <2>2. /\ toClient[i].id \in 1 .. heard
        /\ \A h \in client.held : h < toClient[i].id
        /\ \A j \in 1 .. n : i < j => toClient[i].id < toClient[j].id
    BY <1>n, <1>1, <2>1 DEF RoomInv, Ordered
  <2> QED BY <1>2, <2>1, <2>2
<1>6. Answered'
  <2> SUFFICES ASSUME NEW i \in 1 .. Len(toClient'), ~IsLive(i)' PROVE Fills(i)'
    BY DEF Answered
  <2>1. i = n + 1 /\ \A j \in 1 .. Len(toClient') : ~IsLive(j)' => j = i
    BY <1>2, <1>3
  <2>2. toClient'[i] = m
    BY <1>2, <2>1
  <2>3. \A s : Gapless(s) => Gapless(s)'
    BY DEF Gapless
  <2>4. ~m.refresh => Complete(client.known \cup m.events \cup client.held)'
    BY DEF Complete
  <2> QED BY <1>1, <2>1, <2>2, <2>3, <2>4 DEF Fills
<1>7. Following' /\ StillAsked'
  BY <1>1 DEF Following, StillAsked
<1>8. Outside'
  BY <1>n, <1>1, <1>2, <1>3 DEF RoomInv, Outside
<1>9. Away'
  BY <1>0, <1>1, RequestsAreConnected DEF Away
<1> QED BY <1>4, <1>5, <1>6, <1>7, <1>8, <1>9 DEF RoomInv

LEMMA CatchupHandled == ASSUME RoomInv, R!HandleCatchup PROVE RoomInv'
<1>1. /\ toServer # <<>> /\ toServer[1].type = "catchup" /\ toServer' = Tail(toServer)
      /\ UNCHANGED <<published, stream, heard, missed, socket, client>>
      /\ published \in Nat /\ heard \in 0 .. published /\ stream \in SUBSET (1 .. published)
      /\ client \in RoomClients /\ client.known \subseteq 1 .. published
      /\ client.last \in client.known \cup {0}
  BY RoomConstants DEF R!HandleCatchup, R!FirstIs, RoomInv, RoomTypes
<1>2. toServer = <<Asking(client.last)>>
  BY <1>1 DEF RoomInv, StillAsked, Subscribing
<1>3. toServer' = <<>> /\ toServer[1].last = client.last
  BY <1>1, <1>2, Tails DEF Asking
<1>4. CASE toClient' = Append(toClient, R!Answer({}, TRUE))
  <2>1. PICK m \in RoomMessages : /\ m = R!Answer({}, TRUE) /\ m.type = "answer"
                                  /\ m.refresh = TRUE /\ m.events = {}
    BY AnswerFits
  <2> QED BY <1>1, <1>2, <1>3, <1>4, <2>1, AnswerSent
<1>5. CASE /\ socket.joined /\ client.last \in stream
           /\ toClient' = Append(toClient, R!Answer({e \in stream : e > client.last}, FALSE))
  <2>1. PICK after \in SUBSET Nat : after = {e \in stream : e > client.last}
    <3>1. 1 .. published \subseteq Nat
      BY <1>1
    <3> QED BY <1>1, <3>1
  <2>2. PICK m \in RoomMessages : /\ m = R!Answer(after, FALSE) /\ m.type = "answer"
                                  /\ m.refresh = FALSE /\ m.events = after
    BY AnswerFits
  <2>3. after \subseteq 1 .. published /\ client.last \in client.known /\ client.last \in Nat
    BY <1>1, <1>5, <2>1
  <2>4. \A d \in 1 .. published : d \in client.known \cup after \cup missed
    <3> SUFFICES ASSUME NEW d \in 1 .. published PROVE d \in client.known \cup after \cup missed
      OBVIOUS
    <3>1. CASE d <= client.last
      BY <2>3, <3>1 DEF RoomInv, Gapless
    <3>2. CASE d > client.last
      <4>1. d \in stream \cup missed
        BY <1>5, <2>3, <3>2 DEF RoomInv, Recent
      <4> QED BY <2>1, <3>2, <4>1
    <3> QED BY <2>3, <3>1, <3>2
  <2>5. Gapless(client.known \cup after)
    <3>1. \A e \in 1 .. published : 1 .. e \subseteq 1 .. published
      BY <1>1
    <3>2. client.known \cup after \subseteq 1 .. published
      BY <1>1, <2>3
    <3> QED BY <2>4, <3>1, <3>2 DEF Gapless
  <2>6. 1 .. heard \subseteq 1 .. published
    BY <1>1
  <2> QED BY <1>1, <1>2, <1>3, <1>5, <2>1, <2>2, <2>3, <2>4, <2>5, <2>6, AnswerSent
<1> QED BY <1>3, <1>4, <1>5 DEF R!HandleCatchup, R!CatchUp

-----------------------------------------------------------------------------
(* The client. *)

LEMMA ConnectionLost == ASSUME RoomInv, R!Disconnect PROVE RoomInv'
<1>1. /\ socket' = [connected |-> FALSE, joined |-> FALSE, refused |-> FALSE]
      /\ toServer' = <<>> /\ toClient' = <<>>
      /\ client' = [client EXCEPT !.mode = "off", !.held = {}] /\ client \in RoomClients
      /\ UNCHANGED <<published, stream, heard, missed>>
  BY DEF R!Disconnect, R!Off, RoomInv, RoomTypes
<1>2. /\ client' \in RoomClients /\ client'.mode = "off" /\ client'.held = {}
      /\ client'.known = client.known /\ client'.last = client.last
  BY <1>1 DEF RoomClients
<1>3. toClient' \in Seq(RoomMessages) /\ Len(toClient') = 0
  BY <1>1
<1>4. RoomTypes'
  BY <1>1, <1>2, <1>3 DEF RoomInv, RoomTypes, Sockets
<1>5. Recent' /\ Gapless(client.known)'
  BY <1>1, <1>2 DEF RoomInv, Recent, Gapless
<1>6. Ordered' /\ Answered' /\ Following' /\ Outside' /\ StillAsked' /\ Away'
  BY <1>1, <1>2, <1>3 DEF Ordered, Answered, Following, Outside, StillAsked, Away
<1> QED BY <1>4, <1>5, <1>6 DEF RoomInv

LEMMA ClientConnects == ASSUME RoomInv, R!Connect PROVE RoomInv'
<1>1. /\ ~socket.connected
      /\ socket' = [connected |-> TRUE, joined |-> FALSE, refused |-> FALSE]
      /\ toServer' = <<Subscribing, Asking(client.last)>>
      /\ client' = [client EXCEPT !.mode = "replay"] /\ client \in RoomClients
      /\ UNCHANGED <<published, stream, heard, missed, toClient>>
  BY DEF R!Connect, R!Off, Subscribing, Asking, RoomInv, RoomTypes
<1>2. toClient = <<>> /\ client.held = {}
  BY <1>1 DEF RoomInv, Away
<1>3. /\ client' \in RoomClients /\ client'.mode = "replay" /\ client'.held = {}
      /\ client'.known = client.known /\ client'.last = client.last
  BY <1>1, <1>2 DEF RoomClients
<1>4. toClient' \in Seq(RoomMessages) /\ Len(toClient') = 0
  BY <1>1, <1>2
<1>5. RoomTypes'
  BY <1>1, <1>3, <1>4 DEF RoomInv, RoomTypes, Sockets
<1>6. Recent' /\ Gapless(client.known)'
  BY <1>1, <1>3 DEF RoomInv, Recent, Gapless
<1>7. Ordered' /\ Answered' /\ Following' /\ Outside' /\ Away'
  BY <1>1, <1>3, <1>4 DEF Ordered, Answered, Following, Outside, Away
<1>8. StillAsked'
  <2>1. toServer' = <<Subscribing, Asking(client'.last)>>
    BY <1>1, <1>3
  <2> QED BY <1>1, <1>3, <2>1 DEF StillAsked
<1> QED BY <1>5, <1>6, <1>7, <1>8 DEF RoomInv

\* The first of what is on its way is taken.
LEMMA FirstTaken ==
    ASSUME RoomTypes, toClient # <<>>, toClient' = Tail(toClient)
    PROVE  /\ toClient[1] \in RoomMessages /\ 1 \in 1 .. Len(toClient)
           /\ toClient' \in Seq(RoomMessages) /\ Len(toClient') \in Nat
           /\ \A i \in 1 .. Len(toClient') :
                 i + 1 \in 1 .. Len(toClient) /\ 1 < i + 1 /\ toClient'[i] = toClient[i + 1]
           /\ \A j \in 1 .. Len(toClient) :
                 j # 1 => j - 1 \in 1 .. Len(toClient') /\ toClient'[j - 1] = toClient[j]
<1>1. toClient \in Seq(RoomMessages) /\ Len(toClient) \in Nat /\ Len(toClient) # 0
  BY LenProperties, EmptySeq DEF RoomTypes
<1>2. /\ toClient' \in Seq(RoomMessages) /\ Len(toClient') = Len(toClient) - 1
      /\ \A i \in 1 .. Len(toClient') : toClient'[i] = toClient[i + 1]
  BY <1>1, HeadTailProperties
<1>3. toClient[1] \in RoomMessages /\ 1 \in 1 .. Len(toClient)
  BY <1>1, ElementOfSeq
<1>4. \A j \in 1 .. Len(toClient) : j # 1 => j - 1 \in 1 .. Len(toClient') /\ j = (j - 1) + 1
  BY <1>1, <1>2
<1> QED BY <1>1, <1>2, <1>3, <1>4

LEMMA AnswerTaken == ASSUME RoomInv, R!TakeAnswer PROVE RoomInv'
<1>1. /\ toClient # <<>> /\ toClient[1].type = "answer" /\ toClient' = Tail(toClient)
      /\ UNCHANGED <<published, stream, heard, missed, socket, toServer>>
      /\ RoomTypes /\ published \in Nat /\ heard \in 0 .. published
      /\ client \in RoomClients /\ client.known \subseteq 1 .. published
      /\ client.held \subseteq 1 .. published /\ client.last \in client.known \cup {0}
  <2>1. RoomTypes /\ published \in Nat /\ heard \in 0 .. published
    BY RoomConstants DEF RoomInv, RoomTypes
  <2>2. 1 .. heard \subseteq 1 .. published
    BY <2>1
  <2> QED BY <2>1, <2>2 DEF R!TakeAnswer, R!FirstIs, RoomTypes
<1>2. /\ toClient[1] \in RoomMessages /\ 1 \in 1 .. Len(toClient)
      /\ toClient' \in Seq(RoomMessages) /\ Len(toClient') \in Nat
      /\ \A i \in 1 .. Len(toClient') :
            i + 1 \in 1 .. Len(toClient) /\ 1 < i + 1 /\ toClient'[i] = toClient[i + 1]
      /\ \A j \in 1 .. Len(toClient) :
            j # 1 => j - 1 \in 1 .. Len(toClient') /\ toClient'[j - 1] = toClient[j]
  BY <1>1, FirstTaken
<1>3. Fills(1) /\ ~IsLive(1)
  BY <1>1, <1>2 DEF RoomInv, Answered, IsLive
<1>4. PICK m \in RoomMessages : m = toClient[1]
  BY <1>2
<1>5. m.events \subseteq 1 .. published /\ (m.refresh => m.events = {})
  BY <1>3, <1>4 DEF Fills
<1>6. PICK base \in RoomClients :
         /\ base = IF m.refresh THEN [client EXCEPT !.known = 1 .. published] ELSE client
         /\ base.last = client.last
         /\ base.known = IF m.refresh THEN 1 .. published ELSE client.known
  <2>1. PICK every \in SUBSET Nat : every = 1 .. published
    BY <1>1
  <2>2. /\ [client EXCEPT !.known = every] \in RoomClients
        /\ [client EXCEPT !.known = every].last = client.last
        /\ [client EXCEPT !.known = every].known = every
    BY <1>1 DEF RoomClients
  <2> QED BY <1>1, <2>1, <2>2
<1>7. PICK all \in SUBSET (1 .. published) : all = m.events \cup client.held
  BY <1>1, <1>5
<1>8. /\ R!Apply(base, all) \in RoomClients
      /\ R!Apply(base, all).known = base.known \cup all
      /\ R!Apply(base, all).last \in {client.last} \cup all
  <2>1. base.known \subseteq 1 .. published
    BY <1>1, <1>6
  <2>2. base.last \in 0 .. published
    <3>1. 1 .. published \subseteq 0 .. published /\ 0 \in 0 .. published
      BY <1>1
    <3>2. client.last \in 0 .. published
      BY <1>1, <3>1
    <3>3. base.last = client.last
      BY <1>6
    <3> QED BY <3>2, <3>3
  <2>3. base \in RoomClients /\ base.last = client.last
    BY <1>6
  <2>4. /\ R!Apply(base, all) \in RoomClients
        /\ R!Apply(base, all).known = base.known \cup all
        /\ R!Apply(base, all).last \in {base.last} \cup all
    BY <1>1, <2>1, <2>2, <2>3, Applied
  <2> QED BY <2>3, <2>4
<1>9. client' = [R!Apply(base, all) EXCEPT !.mode = "live", !.held = {}]
  BY <1>4, <1>6, <1>7 DEF R!TakeAnswer
<1>10. /\ client' \in RoomClients /\ client'.mode = "live" /\ client'.held = {}
       /\ client'.known = base.known \cup all /\ client'.last \in {client.last} \cup all
  BY <1>8, <1>9 DEF RoomClients
<1>11. client'.known \subseteq 1 .. published /\ client.known \subseteq client'.known
       /\ client'.last \in client'.known \cup {0}
  BY <1>1, <1>6, <1>7, <1>10
<1>12. RoomTypes'
  BY <1>1, <1>2, <1>10, <1>11 DEF RoomTypes
<1>13. \A i \in 1 .. Len(toClient') : IsLive(i)' /\ IsLive(i + 1)
  BY <1>2, <1>3 DEF Fills, IsLive
<1>14. Ordered'
  <2> SUFFICES ASSUME NEW i \in 1 .. Len(toClient')
               PROVE  /\ toClient'[i].id \in 1 .. heard
                      /\ \A j \in 1 .. Len(toClient') :
                            i < j => toClient'[i].id < toClient'[j].id
    BY <1>1, <1>10 DEF Ordered
  <2>1. /\ toClient[i + 1].id \in 1 .. heard
        /\ \A j \in 1 .. Len(toClient) : i + 1 < j /\ IsLive(j) => toClient[i + 1].id < toClient[j].id
    BY <1>2, <1>13 DEF RoomInv, Ordered
  <2>2. \A j \in 1 .. Len(toClient') : i < j => i + 1 < j + 1
    OBVIOUS
  <2> QED BY <1>2, <1>13, <2>1, <2>2
<1>15. \A d : OnItsWay(d) => OnItsWay(d)'
  BY <1>2, <1>3 DEF OnItsWay, IsLive
<1>16. Gapless(client.known)' /\ (socket.joined => Complete(client.known)')
  <2>1. CASE m.refresh
    <3>1. client'.known = 1 .. published
      BY <1>6, <1>7, <1>10, <1>11, <2>1
    <3>2. 1 .. heard \subseteq 1 .. published /\ \A e \in 1 .. published : 1 .. e \subseteq 1 .. published
      BY <1>1
    <3> QED BY <1>1, <3>1, <3>2 DEF Gapless, Complete
  <2>2. CASE ~m.refresh
    <3>1. /\ Gapless(client.known \cup m.events)
          /\ Complete(client.known \cup m.events \cup client.held)
      BY <1>3, <1>4, <2>2 DEF Fills
    <3>2. client'.known = client.known \cup m.events \cup client.held
      BY <1>6, <1>7, <1>10, <2>2
    <3>3. Complete(client.known)'
      BY <1>1, <1>15, <3>1, <3>2 DEF Complete
    <3>4. ASSUME NEW e \in client'.known, NEW d \in 1 .. e PROVE d \in client'.known \cup missed
      <4>1. CASE e \in client.known \cup m.events
        BY <3>1, <3>2, <4>1 DEF Gapless
      <4>2. CASE e \in client.held
        <5>1. e \in 1 .. heard
          BY <1>1, <4>2 DEF RoomTypes
        <5>2. d \in 1 .. heard /\ d <= e
          BY <1>1, <5>1
        <5>3. ~OnItsWay(d)
          <6>1. \A i \in 1 .. Len(toClient) : IsLive(i) => e < toClient[i].id /\ toClient[i].id \in 1 .. heard
            BY <4>2 DEF RoomInv, Ordered
          <6> QED BY <5>1, <5>2, <6>1 DEF OnItsWay
        <5> QED BY <3>1, <3>2, <5>2, <5>3 DEF Complete
      <4> QED BY <3>2, <4>1, <4>2
    <3> QED BY <1>1, <3>3, <3>4 DEF Gapless
  <2> QED BY <2>1, <2>2
<1>17. toServer' = <<>>
  BY <1>1, <1>3 DEF Fills
<1>18. Recent' /\ Answered' /\ Following' /\ StillAsked' /\ Away'
  <2>1. Recent'
    BY <1>1 DEF RoomInv, Recent
  <2>2. socket.connected
    BY <1>1 DEF RoomInv, Away
  <2> QED BY <1>1, <1>10, <1>13, <1>16, <1>17, <2>1, <2>2 DEF Answered, Following, StillAsked, Away
<1>19. Outside'
  BY <1>1, <1>2, <1>10, <1>13 DEF RoomInv, Outside
<1> QED BY <1>12, <1>14, <1>16, <1>18, <1>19 DEF RoomInv

LEMMA LiveTaken == ASSUME RoomInv, R!TakeLive PROVE RoomInv'
<1>1. /\ toClient # <<>> /\ toClient[1].type = "live" /\ toClient' = Tail(toClient)
      /\ UNCHANGED <<published, stream, heard, missed, socket, toServer>>
      /\ RoomTypes /\ published \in Nat /\ heard \in 0 .. published
      /\ client \in RoomClients /\ client.known \subseteq 1 .. published
      /\ client.held \subseteq 1 .. heard /\ client.last \in client.known \cup {0}
  BY RoomConstants DEF R!TakeLive, R!FirstIs, RoomInv, RoomTypes
<1>2. /\ toClient[1] \in RoomMessages /\ 1 \in 1 .. Len(toClient)
      /\ toClient' \in Seq(RoomMessages) /\ Len(toClient') \in Nat
      /\ \A i \in 1 .. Len(toClient') :
            i + 1 \in 1 .. Len(toClient) /\ 1 < i + 1 /\ toClient'[i] = toClient[i + 1]
      /\ \A j \in 1 .. Len(toClient) :
            j # 1 => j - 1 \in 1 .. Len(toClient') /\ toClient'[j - 1] = toClient[j]
  BY <1>1, FirstTaken
<1>3. PICK e \in 1 .. heard :
         /\ e = toClient[1].id
         /\ \A h \in client.held : h < e
         /\ \A j \in 1 .. Len(toClient) : 1 < j /\ IsLive(j) => e < toClient[j].id
  BY <1>1, <1>2 DEF RoomInv, Ordered, IsLive
<1>4. /\ socket.joined /\ socket.connected /\ client.mode \in {"replay", "live"}
  <2>1. socket.joined
    BY <1>1, <1>2 DEF RoomInv, Outside, IsLive
  <2>2. socket.connected
    BY <1>1 DEF RoomInv, Away
  <2> QED BY <1>1, <2>1, <2>2 DEF RoomInv, RoomClients, Away
<1>5. \A i \in 1 .. Len(toClient') : IsLive(i)' <=> IsLive(i + 1)
  BY <1>2 DEF IsLive
<1>6. \A d : OnItsWay(d) => OnItsWay(d)' \/ d = e
  <2> SUFFICES ASSUME NEW d, NEW j \in 1 .. Len(toClient), IsLive(j), toClient[j].id = d, d # e
               PROVE  OnItsWay(d)'
    BY DEF OnItsWay
  <2>1. j # 1
    BY <1>3
  <2>2. PICK i \in 1 .. Len(toClient') : i = j - 1 /\ toClient'[i] = toClient[j]
    BY <1>2, <2>1
  <2> QED BY <2>2 DEF OnItsWay, IsLive
<1>7. \A i \in 1 .. Len(toClient') : IsLive(i)' =>
         /\ toClient'[i].id \in 1 .. heard /\ e < toClient'[i].id
         /\ \A h \in client.held : h < toClient'[i].id
         /\ \A j \in 1 .. Len(toClient') : i < j /\ IsLive(j)' => toClient'[i].id < toClient'[j].id
  <2> SUFFICES ASSUME NEW i \in 1 .. Len(toClient'), IsLive(i)'
               PROVE  /\ toClient'[i].id \in 1 .. heard /\ e < toClient'[i].id
                      /\ \A h \in client.held : h < toClient'[i].id
                      /\ \A j \in 1 .. Len(toClient') :
                            i < j /\ IsLive(j)' => toClient'[i].id < toClient'[j].id
    OBVIOUS
  <2>1. /\ i + 1 \in 1 .. Len(toClient) /\ 1 < i + 1 /\ IsLive(i + 1)
        /\ toClient'[i] = toClient[i + 1]
    BY <1>2, <1>5
  <2>2. /\ toClient[i + 1].id \in 1 .. heard /\ \A h \in client.held : h < toClient[i + 1].id
        /\ \A j \in 1 .. Len(toClient) : i + 1 < j /\ IsLive(j) => toClient[i + 1].id < toClient[j].id
    BY <2>1 DEF RoomInv, Ordered
  <2>3. e < toClient[i + 1].id
    BY <1>3, <2>1
  <2>4. \A j \in 1 .. Len(toClient') : i < j => i + 1 < j + 1
    OBVIOUS
  <2> QED BY <1>2, <1>5, <2>1, <2>2, <2>3, <2>4
<1>8. Recent' /\ (client'.mode # "off" => Away')
  BY <1>1, <1>4 DEF RoomInv, Recent, Away
<1>9. CASE client.mode = "replay"
  <2>1. PICK held \in SUBSET Nat : held = client.held \cup {e}
    <3>1. 1 .. heard \subseteq Nat
      BY <1>1
    <3> QED BY <1>1, <1>3, <3>1
  <2>2. client' = [client EXCEPT !.held = held]
    BY <1>3, <1>9, <2>1 DEF R!TakeLive
  <2>3. /\ client' \in RoomClients /\ client'.mode = "replay" /\ client'.held = held
        /\ client'.known = client.known /\ client'.last = client.last
    BY <1>1, <1>9, <2>2 DEF RoomClients
  <2>4. RoomTypes'
    BY <1>1, <1>2, <2>1, <2>3 DEF RoomTypes
  <2>5. Gapless(client.known)' /\ Following' /\ Outside' /\ StillAsked'
    BY <1>1, <1>4, <2>3 DEF RoomInv, Gapless, Following, Outside, StillAsked
  <2>6. Ordered'
    BY <1>1, <1>7, <2>1, <2>3 DEF Ordered
  <2>7. Answered'
    <3> SUFFICES ASSUME NEW i \in 1 .. Len(toClient'), ~IsLive(i)' PROVE Fills(i)'
      BY DEF Answered
    <3>1. i + 1 \in 1 .. Len(toClient) /\ ~IsLive(i + 1) /\ toClient'[i] = toClient[i + 1]
      BY <1>2, <1>5
    <3>2. Fills(i + 1)
      BY <3>1 DEF RoomInv, Answered
    <3>3. \A j \in 1 .. Len(toClient') : ~IsLive(j)' => j = i
      <4> SUFFICES ASSUME NEW j \in 1 .. Len(toClient'), ~IsLive(j)' PROVE j = i
        OBVIOUS
      <4>1. j + 1 = i + 1
        BY <1>2, <1>5, <3>2 DEF Fills
      <4> QED BY <4>1
    <3>4. \A s : Gapless(s) => Gapless(s)'
      BY <1>1 DEF Gapless
    <3>5. ASSUME ~toClient[i + 1].refresh
          PROVE  Complete(client.known \cup toClient[i].events \cup client.held)'
      <4>1. Complete(client.known \cup toClient[i + 1].events \cup client.held)
        BY <3>2, <3>5 DEF Fills
      <4> QED BY <1>1, <1>6, <2>1, <2>3, <3>1, <4>1 DEF Complete
    <3> QED BY <1>1, <2>3, <3>1, <3>2, <3>3, <3>4, <3>5 DEF Fills
  <2> QED BY <1>8, <2>3, <2>4, <2>5, <2>6, <2>7 DEF RoomInv
<1>10. CASE client.mode = "live"
  <2>1. toServer = <<>> /\ client.held = {} /\ Complete(client.known)
    BY <1>4, <1>10 DEF RoomInv, Following
  <2>2. {e} \in SUBSET (1 .. published) /\ client.last \in 0 .. published
    BY <1>1
  <2>3. client' = R!Apply(client, {e})
    BY <1>3, <1>10 DEF R!TakeLive
  <2>4. /\ client' \in RoomClients /\ client'.mode = "live" /\ client'.held = {}
        /\ client'.known = client.known \cup {e} /\ client'.last \in {client.last} \cup {e}
    BY <1>1, <1>10, <2>1, <2>2, <2>3, Applied
  <2>5. RoomTypes'
    BY <1>1, <1>2, <2>2, <2>4 DEF RoomTypes
  <2>6. \A d \in 1 .. heard : d \in client'.known \cup missed \/ OnItsWay(d)'
    BY <1>6, <2>1, <2>4 DEF Complete
  <2>7. Gapless(client.known)'
    <3>1. \A d \in 1 .. e : d \in 1 .. heard /\ ~OnItsWay(d)'
      <4> SUFFICES ASSUME NEW d \in 1 .. e PROVE d \in 1 .. heard /\ ~OnItsWay(d)'
        OBVIOUS
      <4>1. d \in 1 .. heard /\ d <= e
        BY <1>1, <1>3
      <4>2. ASSUME NEW i \in 1 .. Len(toClient'), IsLive(i)', toClient'[i].id = d PROVE FALSE
        BY <1>1, <1>7, <4>1, <4>2
      <4> QED BY <4>1, <4>2 DEF OnItsWay
    <3>2. \A d \in 1 .. e : d \in client'.known \cup missed
      BY <2>6, <3>1
    <3> QED BY <1>1, <2>4, <3>2 DEF RoomInv, Gapless
  <2>8. Following' /\ Outside' /\ StillAsked'
    BY <1>1, <1>4, <2>1, <2>4, <2>6 DEF Following, Complete, Outside, StillAsked
  <2>9. Ordered'
    BY <1>1, <1>7, <2>4 DEF Ordered
  <2>10. Answered'
    <3>1. \A i \in 1 .. Len(toClient) : IsLive(i)
      BY <1>10 DEF RoomInv, Answered, Fills
    <3> QED BY <1>2, <1>5, <3>1 DEF Answered
  <2> QED BY <1>8, <2>4, <2>5, <2>7, <2>8, <2>9, <2>10 DEF RoomInv
<1> QED BY <1>4, <1>9, <1>10

LEMMA RoomNextInv == RoomInv /\ [R!Next]_(R!vars) => RoomInv'
<1> SUFFICES ASSUME RoomInv, [R!Next]_(R!vars) PROVE RoomInv'
  OBVIOUS
<1>1. CASE R!Quiet \/ UNCHANGED R!vars
  <2>1. UNCHANGED <<published, stream, heard, missed, socket, toServer, toClient, client>>
    BY <1>1 DEF R!Quiet, R!vars
  <2>2. /\ published \in 0 .. MaxEvents /\ stream \in SUBSET (1 .. published)
        /\ missed \in SUBSET (1 .. published) /\ published <= published
    BY RoomConstants DEF RoomInv, RoomTypes
  <2>3. Recent'
    BY <2>1 DEF RoomInv, Recent
  <2> QED BY <2>1, <2>2, <2>3, EventsAdded
<1>2. CASE R!PublishRoomEvent \/ R!AppendFails \/ R!StreamExpires \/ R!Relay \/ R!Miss
  BY <1>2, EventPublished, EventNotAppended, EventsExpire, EventRelayed, EventMissed
<1>3. CASE R!Join \/ R!Refuse \/ R!HandleCatchup
  BY <1>3, ClientJoins, RequestRefused, CatchupHandled
<1>4. CASE R!Disconnect \/ R!Connect \/ R!TakeAnswer \/ R!TakeLive
  BY <1>4, ConnectionLost, ClientConnects, AnswerTaken, LiveTaken
<1> QED BY <1>1, <1>2, <1>3, <1>4 DEF R!Next

LEMMA RoomHolds == RoomInv => R!TypeOK /\ R!GapsForCause
<1> SUFFICES ASSUME RoomInv PROVE R!TypeOK /\ R!GapsForCause
  OBVIOUS
<1>1. /\ published \in 0 .. MaxEvents /\ heard \in 0 .. published
      /\ stream \in SUBSET (1 .. published) /\ missed \in SUBSET (1 .. published)
      /\ socket \in Sockets /\ client \in RoomClients /\ client.known \subseteq 1 .. published
      /\ client.held \subseteq 1 .. heard /\ client.last \in client.known \cup {0}
  BY DEF RoomInv, RoomTypes
<1>2. R!TypeOK
  <2>1. /\ heard \in 0 .. MaxEvents /\ 1 .. heard \subseteq 1 .. MaxEvents
        /\ 1 .. published \subseteq 1 .. MaxEvents /\ client.last \in 0 .. MaxEvents
    BY <1>1, RoomConstants
  <2> QED BY <1>1, <2>1 DEF R!TypeOK, Sockets, RoomClients
<1>3. R!GapsForCause
  BY DEF RoomInv, Gapless, R!GapsForCause
<1> QED BY <1>2, <1>3

-----------------------------------------------------------------------------
(* The components together: a behaviour about one of them is a behaviour of that one. *)

LEMMA OneGoesOn ==
    ASSUME [Next]_vars
    PROVE  /\ focus' = focus
           /\ focus = "payouts" => [P!Next]_(P!vars)
           /\ focus = "records" => [T!Next]_(T!vars)
           /\ focus = "desk" => [D!Next]_(D!vars)
           /\ focus = "secrets" => [S!Next]_(S!vars)
           /\ focus = "webhooks" => [W!Next]_(W!vars)
           /\ focus = "notices" => [N!Next]_(N!vars)
           /\ focus = "room" => [R!Next]_(R!vars)
           /\ focus = "rollups" => [U!Next]_(U!vars)
           /\ focus = "accounts" => [A!Next]_(A!vars)
           /\ focus = "upstream" => [X!Next]_(X!vars)
<1> USE DEF InPayouts, InRecords, InDesk, InSecrets, InWebhooks, InNotices, InRoom, InRollups,
            InAccounts, InUpstream, earlyVars, lateVars, payoutVars, recordVars, deskVars, secretVars,
            webhookVars, noticeVars, roomVars, rollupVars, accountVars, upstreamVars
<1>1. CASE PayoutsNext
  BY <1>1 DEF PayoutsNext
<1>2. CASE RecordsNext
  BY <1>2 DEF RecordsNext
<1>3. CASE DeskNext
  BY <1>3 DEF DeskNext
<1>4. CASE SecretsNext
  BY <1>4 DEF SecretsNext
<1>5. CASE RollupsNext
  BY <1>5 DEF RollupsNext
<1>6. CASE AccountsNext
  BY <1>6 DEF AccountsNext
<1>7. CASE UpstreamNext
  BY <1>7 DEF UpstreamNext
<1>8. CASE WebhooksNext
  BY <1>8 DEF WebhooksNext
<1>9. CASE NoticesNext
  BY <1>9 DEF NoticesNext
<1>10. CASE RoomNext
  BY <1>10 DEF RoomNext
<1>11. CASE UNCHANGED vars
  BY <1>11 DEF vars, P!vars, T!vars, D!vars, S!vars, W!vars, N!vars, R!vars, U!vars, A!vars, X!vars
<1> QED BY <1>1, <1>2, <1>3, <1>4, <1>5, <1>6, <1>7, <1>8, <1>9, <1>10, <1>11 DEF Next

LEMMA Begins ==
    ASSUME Init
    PROVE  /\ focus = "payouts" => P!Init
           /\ focus = "records" => T!Init
           /\ focus = "desk" => D!Init
           /\ focus = "secrets" => S!Init
           /\ focus = "webhooks" => W!Init
           /\ focus = "notices" => N!Init
           /\ focus = "room" => R!Init
           /\ focus = "rollups" => U!Init
           /\ focus = "accounts" => A!Init
           /\ focus = "upstream" => X!Init
BY Zenon DEF Init, EarlyInit, LateInit

\* For any number of rotations and users and whatever crosses: the secret last answered works and
\* the one it replaced for its grace, and no other (apiKeys.service.ts:110-213); a profile served
\* from the cache is that of an active row as it is now, but for the exceptions ServedIsCurrent
\* names (profiles.service.ts:118-217, privacy.service.ts:141).
THEOREM IdentityIsSafe == Spec => []IdentitySafe
<1> DEFINE I == /\ focus = "secrets" => SecretInv
                /\ focus = "accounts" => AccountInv /\ lagging \subseteq Users
<1>1. Init => I
  <2> SUFFICES ASSUME Init PROVE I
    OBVIOUS
  <2>1. focus = "accounts" => lagging \subseteq Users
    BY Begins DEF A!Init
  <2> QED BY <2>1, Begins, SecretInitInv, AccountInitInv
<1>2. I /\ [Next]_vars => I'
  <2> SUFFICES ASSUME I, [Next]_vars PROVE I'
    OBVIOUS
  <2>1. CASE focus = "secrets"
    BY <2>1, OneGoesOn, SecretNextInv
  <2>2. CASE focus = "accounts"
    BY <2>2, OneGoesOn, AccountNextInv, LaggingAreUsers
  <2> QED BY <2>1, <2>2, OneGoesOn
<1>3. I => IdentitySafe
  BY SecretsHold, AccountsHold DEF IdentitySafe
<1> HIDE DEF I
<1> QED BY <1>1, <1>2, <1>3, PTL DEF Spec

\* For any number of calls, tips and days: a tip is notified and counted once, the goal is what was
\* reported of it last and the tips that calls recorded since, and the streak is the run of days,
\* whatever calls, the indexer, its roll-backs, goal events and the daily rollup cross
\* (tips.service.ts:219-309, concurrency.ts:90-158, projections.ts:372-425); a tip has one refund
\* row, which follows what was submitted, whatever becomes of it on chain
\* (refunds.service.ts:150-186).
THEOREM RecordsAreSafe == Spec => []RecordsSafe
<1> DEFINE I == /\ focus = "records" => RecordInv
                /\ focus = "desk" => DeskSafe
<1>1. Init => I
  BY Begins, RecordInitInv, DeskInitInv
<1>2. I /\ [Next]_vars => I'
  <2> SUFFICES ASSUME I, [Next]_vars PROVE I'
    OBVIOUS
  <2>1. CASE focus = "records"
    BY <2>1, OneGoesOn, RecordNextInv
  <2>2. CASE focus = "desk"
    BY <2>2, OneGoesOn, DeskNextInv
  <2> QED BY <2>1, <2>2, OneGoesOn
<1>3. I => RecordsSafe
  BY RecordsHold, DeskHolds DEF RecordsSafe
<1> HIDE DEF I
<1> QED BY <1>1, <1>2, <1>3, PTL DEF Spec

\* For any number of runs, tips, days, calls, and any threshold: a snapshot lists a creator once,
\* the cache of a score agrees with it, and a day that was rolled up has its confirmed volume,
\* unless runs of the same job crossed (leaderboard.service.ts:134-163, credit.service.ts:118-253,
\* analytics.service.ts:275-347); the breaker before the upstream metrics is open for failures in
\* a row and for nothing else (circuitBreaker.ts:90-131).
THEOREM FiguresAreSafe == Spec => []FiguresSafe
<1> DEFINE I == /\ focus = "rollups" => RollupInv
                /\ focus = "upstream" => UpstreamInv /\ Answers
<1>0. X!XMetricsAssumption
  BY Assumptions
<1>1. Init => I
  BY <1>0, Begins, RollupInitInv, UpstreamInitInv, AnswersInit
<1>2. I /\ [Next]_vars => I'
  <2> SUFFICES ASSUME I, [Next]_vars PROVE I'
    OBVIOUS
  <2>1. CASE focus = "rollups"
    BY <2>1, OneGoesOn, RollupNextInv
  <2>2. CASE focus = "upstream"
    BY <1>0, <2>2, OneGoesOn, UpstreamNextInv, AnswersNext
  <2> QED BY <2>1, <2>2, OneGoesOn
<1>3. I => FiguresSafe
  <2>1. UpstreamInv /\ Answers => X!TypeOK /\ X!OpenForCause
    BY DEF UpstreamInv, UpstreamTypes, Answers, Rested, X!TypeOK
  <2> QED BY <2>1, RollupsHold DEF FiguresSafe
<1> HIDE DEF I
<1> QED BY <1>1, <1>2, <1>3, PTL DEF Spec

\* For any number of submissions, schedules, days and retries: withdrawals are more than what was
\* received only when submissions overlapped, or by the tips that were refunded since, and a
\* schedule is paused for failures in a row
\* (withdrawals.service.ts:188-230, payouts.service.ts:182-255).
THEOREM PayoutsAreSafe == Spec => []PayoutsSafe
<1> DEFINE I == focus = "payouts" => PayoutInv
<1>1. Init => I
  BY Begins, PayoutInitInv
<1>2. I /\ [Next]_vars => I'
  BY OneGoesOn, PayoutNextInv
<1>3. I => PayoutsSafe
  BY PayoutsHold DEF PayoutsSafe
<1> HIDE DEF I
<1> QED BY <1>1, <1>2, <1>3, PTL DEF Spec

\* For any number of deliveries, subscriptions and attempts, with processes that stop between any
\* two steps: a subscription is disabled for an exhausted delivery and tells its creator once, what
\* is exhausted is kept, and posts are bounded by attempts and crashes
\* (webhookDelivery.ts:150-380, deadLetter.ts:22-66).
THEOREM WebhooksAreSafe == Spec => []WebhooksSafe
<1> DEFINE I == focus = "webhooks" => WebhookInv
<1>1. Init => I
  BY Begins, WebhookInitInv
<1>2. I /\ [Next]_vars => I'
  BY OneGoesOn, WebhookNextInv
<1>3. I => WebhooksSafe
  BY WebhooksHold DEF WebhooksSafe
<1> HIDE DEF I
<1> QED BY <1>1, <1>2, <1>3, PTL DEF Spec

\* For any number of sweeps, receipts, events and connections and any length of the stream: a
\* batched tip is in one digest or was dropped, a channel is suppressed once and for a cause
\* (batching.ts:40-90, delivery.ts:44-110), and below the last event it knows a client lacks only
\* those that were missed live or never appended (catchup.ts:53-73, gateway.ts:120-164).
THEOREM MessagesAreSafe == Spec => []MessagesSafe
<1> DEFINE I == /\ focus = "notices" => NoticeInv
                /\ focus = "room" => RoomInv
<1>1. Init => I
  BY Begins, NoticeInitInv, RoomInitInv
<1>2. I /\ [Next]_vars => I'
  <2> SUFFICES ASSUME I, [Next]_vars PROVE I'
    OBVIOUS
  <2>1. CASE focus = "notices"
    BY <2>1, OneGoesOn, NoticeNextInv
  <2>2. CASE focus = "room"
    BY <2>2, OneGoesOn, RoomNextInv
  <2> QED BY <2>1, <2>2, OneGoesOn
<1>3. I => MessagesSafe
  BY NoticesHoldTogether, RoomHolds DEF MessagesSafe
<1> HIDE DEF I
<1> QED BY <1>1, <1>2, <1>3, PTL DEF Spec

\* No step takes a delivered webhook back, unless its worker died, nor moves the status of a
\* notification backward (webhookDelivery.ts:315-335, delivery.ts:101-104), nor lets a call out
\* while the breaker rests, but for the success of one that was under way
\* (circuitBreaker.ts:71-89).
THEOREM NothingTurnsBack == Spec => NothingGoesBack
<1> DEFINE I == /\ focus = "webhooks" => WebhookInv
                /\ focus = "notices" => NoticeInv
                /\ focus = "upstream" => UpstreamInv
<1>0. X!XMetricsAssumption
  BY Assumptions
<1>1. Init => I
  BY <1>0, Begins, WebhookInitInv, NoticeInitInv, UpstreamInitInv
<1>2. I /\ [Next]_vars => I'
  <2> SUFFICES ASSUME I, [Next]_vars PROVE I'
    OBVIOUS
  <2>1. CASE focus = "webhooks"
    BY <2>1, OneGoesOn, WebhookNextInv
  <2>2. CASE focus = "notices"
    BY <2>2, OneGoesOn, NoticeNextInv
  <2>3. CASE focus = "upstream"
    BY <1>0, <2>3, OneGoesOn, UpstreamNextInv
  <2> QED BY <2>1, <2>2, <2>3, OneGoesOn
<1>3. I /\ [Next]_vars =>
       [/\ focus = "webhooks" => \A d \in Requests : row[d].status = "SUCCESS" /\ d \notin history.crashed
                                                            => row'[d].status = "SUCCESS"
        /\ focus = "notices" => \A m \in Messages : \/ message'[m] = message[m]
                                                    \/ N!Rank(message'[m]) > N!Rank(message[m])
        /\ focus = "upstream" => \A c \in Requests : X!RestsWhenOpen(c)]_vars
  <2> SUFFICES ASSUME I, [Next]_vars
               PROVE  /\ focus = "webhooks" => \A d \in Requests : row[d].status = "SUCCESS" /\ d \notin history.crashed
                                                                          => row'[d].status = "SUCCESS"
                      /\ focus = "notices" => \A m \in Messages : \/ message'[m] = message[m]
                                                                  \/ N!Rank(message'[m]) > N!Rank(message[m])
                      /\ focus = "upstream" => \A c \in Requests : X!RestsWhenOpen(c)
    OBVIOUS
  <2>1. ASSUME focus = "webhooks", NEW d \in Requests, row[d].status = "SUCCESS", d \notin history.crashed
        PROVE  row'[d].status = "SUCCESS"
    BY <2>1, OneGoesOn, SuccessStays
  <2>2. ASSUME focus = "notices", NEW m \in Messages
        PROVE  message'[m] = message[m] \/ N!Rank(message'[m]) > N!Rank(message[m])
    BY <2>2, OneGoesOn, NoticeNextInv DEF Forward
  <2>3. ASSUME focus = "upstream", NEW c \in Requests PROVE X!RestsWhenOpen(c)
    BY <2>3, OneGoesOn, CallsRest
  <2> QED BY <2>1, <2>2, <2>3
<1> HIDE DEF I
<1> QED BY <1>1, <1>2, <1>3, PTL DEF Spec, NothingGoesBack
=============================================================================
