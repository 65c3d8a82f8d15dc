--------------------------- MODULE SessionsProofs ----------------------------
(* Challenges, refresh tokens, signing keys and the token managers of the    *)
(* tabs, for any number of tabs, of requests at a time, and of tokens.       *)
EXTENDS Sessions, FiniteSetTheorems, SequenceTheorems, TLAPS

ChallengeType == [used : BOOLEAN, expired : BOOLEAN]
TokenType == [family : Nat, parent : Nat, revoked : BOOLEAN, age : Fresh..Expired, kid : {1, 2}]
KeysType == [set : SUBSET {1, 2}, current : {1, 2}]
Kinds == {"none", "challenge", "verify", "refresh", "logout"}
Pcs == {"idle", "lookup", "reuse", "txn", "commit"}
RequestType == [kind : Kinds, from : Tabs \cup {None}, arg : Nat, pc : Pcs, seen : BOOLEAN]
Statuses == {"unauthenticated", "authenticated", "refreshing", "reauth-required"}
CallSteps == {"idle", "waits first", "waits again", "sent", "sent again"}
TabType == [pair : Nat, status : Statuses, inflight : BOOLEAN, timer : BOOLEAN,
            call : CallSteps, sent : Nat]
BudgetType == [tabs : SUBSET Tabs, calls : SUBSET Tabs, tokens : Nat, challenges : Nat,
               faults : Nat, ages : Nat, rotations : Nat]

-----------------------------------------------------------------------------
(* The rows of the server. *)

RowTypes ==
    /\ challenge \in Seq(ChallengeType) /\ token \in Seq(TokenType)
    /\ keys \in KeysType /\ keys.current \in keys.set
    /\ history \in [raced : SUBSET Nat, reused : SUBSET Nat]
    /\ budget \in BudgetType
    /\ Len(challenge) <= budget.challenges /\ Len(token) <= budget.tokens

\* A family begins with a challenge that was used, and with one token.
FamiliesBegin ==
    \A i \in DOMAIN token :
        /\ token[i].family \in DOMAIN challenge /\ challenge[token[i].family].used
        /\ \A j \in DOMAIN token :
               token[i].parent = None /\ token[j].parent = None /\ token[i].family = token[j].family
                  => i = j

\* Only a race leaves two live tokens in a family, or one after a detected reuse.
FamiliesLive ==
    /\ \A i \in DOMAIN token : token[i].family \notin history.raced /\ Live(i) =>
           /\ token[i].family \notin history.reused
           /\ \A j \in DOMAIN token : token[j].family = token[i].family /\ Live(j) => i = j
    /\ \A f \in history.reused : FamilyOf(f) # {}

RowInv == RowTypes /\ FamiliesBegin /\ FamiliesLive /\ RotationKeepsSessions

-----------------------------------------------------------------------------
(* The tabs and the requests. *)

\* A tab holds tokens among the first n, and shows what it holds.
TabHolds(t, n) ==
    /\ t \in TabType /\ t.pair \in 0..n /\ t.sent \in 0..n
    /\ t.status = "authenticated" => t.pair # None
    /\ t.status = "unauthenticated" => t.pair = None
    /\ t.status = "refreshing" => t.inflight

\* And a call of it waits only for a refresh under way.
TabFits(t, n) == TabHolds(t, n) /\ (Waiting(t) => t.inflight)

\* A request is about one of the first n tokens, or of the first m challenges; what it
\* has read inside its transaction is a live token.
RequestFits(q, n, m) ==
    /\ q \in RequestType /\ ~q.seen
    /\ q.kind \in {"refresh", "logout"} => q.arg \in 1..n
    /\ q.kind = "verify" => q.arg \in 1..m

TabsFit == tab \in [Tabs -> TabType] /\ \A b \in Tabs : TabFits(tab[b], Len(token))
RequestsFit ==
    /\ request \in [Slots -> RequestType]
    /\ \A s \in Slots : RequestFits(request[s], Len(token), Len(challenge))

\* The refresh a tab has under way, if it is on its way.
Refreshes(s, b) == request[s].kind = "refresh" /\ request[s].from = b
OneFlight ==
    \A b \in Tabs : \A s \in Slots : Refreshes(s, b) =>
        tab[b].inflight /\ \A r \in Slots : Refreshes(r, b) => r = s

TabInv == TabsFit /\ RequestsFit /\ OneFlight /\ stored \in 0..Len(token)

IInv == RowInv /\ TabInv

-----------------------------------------------------------------------------
(* What the budget, the keys and a row of tokens are after one change. *)

LEMMA Constants ==
    /\ SlotCount \in Nat /\ None \notin Tabs /\ Budgets \subseteq BudgetType
BY SessionsAssumption DEF BudgetType

LEMMA Spent ==
    ASSUME budget \in BudgetType, Spend("faults") \/ Spend("ages") \/ Spend("rotations")
    PROVE  /\ budget' \in BudgetType
           /\ budget'.tokens = budget.tokens /\ budget'.challenges = budget.challenges
BY DEF Spend, BudgetType

LEMMA Sizes ==
    ASSUME RowTypes
    PROVE  /\ Len(token) \in Nat /\ DOMAIN token = 1..Len(token)
           /\ Len(challenge) \in Nat /\ DOMAIN challenge = 1..Len(challenge)
           /\ \A i \in DOMAIN token : token[i] \in TokenType
           /\ \A c \in DOMAIN challenge : challenge[c] \in ChallengeType
           /\ budget.tokens \in Nat /\ budget.challenges \in Nat
<1>1. token \in Seq(TokenType) /\ challenge \in Seq(ChallengeType) /\ budget \in BudgetType
  BY DEF RowTypes
<1>2. /\ Len(token) \in Nat /\ DOMAIN token = 1..Len(token)
      /\ Len(challenge) \in Nat /\ DOMAIN challenge = 1..Len(challenge)
  BY <1>1, LenProperties
<1>3. /\ \A i \in DOMAIN token : token[i] \in TokenType
      /\ \A c \in DOMAIN challenge : challenge[c] \in ChallengeType
  BY <1>1, <1>2, ElementOfSeq
<1> QED BY <1>1, <1>2, <1>3 DEF BudgetType

\* A step that leaves the rows alone keeps what is known of them.
LEMMA RowsRest ==
    ASSUME RowInv, UNCHANGED <<challenge, token, keys, history>>, budget' \in BudgetType,
           budget'.tokens = budget.tokens, budget'.challenges = budget.challenges
    PROVE  RowInv'
BY DEF RowInv, RowTypes, FamiliesBegin, FamiliesLive, FamilyOf, Live, RotationKeepsSessions, Verifies

\* One row of a sequence is changed.
LEMMA RowChanged ==
    ASSUME NEW T, NEW s \in Seq(T), NEW i \in DOMAIN s, NEW e \in T
    PROVE  LET t == [s EXCEPT ![i] = e] IN
           /\ t \in Seq(T) /\ Len(t) = Len(s) /\ DOMAIN t = DOMAIN s
           /\ t[i] = e /\ \A j \in DOMAIN s : j # i => t[j] = s[j]
<1>1. DOMAIN s = 1..Len(s) /\ Len(s) \in Nat
  BY LenProperties
<1>2. /\ [s EXCEPT ![i] = e] \in Seq(T) /\ Len([s EXCEPT ![i] = e]) = Len(s)
      /\ \A j \in 1..Len(s) : [s EXCEPT ![i] = e][j] = IF j = i THEN e ELSE s[j]
  BY <1>1, ExceptSeq
<1>3. DOMAIN [s EXCEPT ![i] = e] = 1..Len(s)
  BY <1>2, LenProperties
<1> QED BY <1>1, <1>2, <1>3

LEMMA RowAdded ==
    ASSUME NEW T, NEW s \in Seq(T), NEW e \in T
    PROVE  LET t == Append(s, e) IN
           /\ t \in Seq(T) /\ Len(t) = Len(s) + 1 /\ Len(s) \in Nat
           /\ DOMAIN t = DOMAIN s \cup {Len(s) + 1} /\ Len(s) + 1 \notin DOMAIN s
           /\ t[Len(s) + 1] = e /\ \A j \in DOMAIN s : t[j] = s[j]
<1>1. Len(s) \in Nat /\ DOMAIN s = 1..Len(s)
  BY LenProperties
<1>2. /\ Append(s, e) \in Seq(T) /\ Len(Append(s, e)) = Len(s) + 1
      /\ \A j \in 1..Len(s) : Append(s, e)[j] = s[j]
      /\ Append(s, e)[Len(s) + 1] = e
  BY AppendProperties
<1>3. DOMAIN Append(s, e) = 1..(Len(s) + 1)
  BY <1>2, LenProperties
<1> QED BY <1>1, <1>2, <1>3

\* Keys come before they sign, and go after what they signed.
LEMMA KeysKeepRows ==
    ASSUME RowInv, AddKey \/ RemoveKey
    PROVE  RowInv'
<1>1. RowTypes /\ FamiliesBegin /\ FamiliesLive /\ RotationKeepsSessions /\ budget \in BudgetType
  BY DEF RowInv, RowTypes
<1>2. UNCHANGED <<challenge, token, history>>
  BY DEF AddKey, RemoveKey
<1>3. keys' \in KeysType /\ keys'.current \in keys'.set
  BY DEF AddKey, RemoveKey, KeysType
<1>4. /\ budget' \in BudgetType
      /\ budget'.tokens = budget.tokens /\ budget'.challenges = budget.challenges
  BY <1>1, Spent DEF AddKey, RemoveKey
<1>5. RowTypes'
  BY <1>1, <1>2, <1>3, <1>4 DEF RowTypes
<1>6. FamiliesBegin' /\ FamiliesLive'
  BY <1>1, <1>2 DEF FamiliesBegin, FamiliesLive, FamilyOf, Live
<1>7. RotationKeepsSessions'
  <2> SUFFICES ASSUME NEW i \in DOMAIN token, token[i].age < AccessExpired
               PROVE  token[i].kid \in keys'.set
    BY <1>2 DEF RotationKeepsSessions, Verifies
  <2>1. token[i].kid \in keys.set /\ token[i].kid \in {1, 2} /\ token[i].age \in Nat
    BY <1>1, Sizes DEF RotationKeepsSessions, Verifies, TokenType, Fresh, Expired
  <2>2. CASE AddKey
    BY <2>1, <2>2 DEF AddKey
  <2>3. CASE RemoveKey
    BY <2>1, <2>3 DEF RemoveKey, AccessExpired
  <2> QED BY <2>2, <2>3
<1> QED BY <1>5, <1>6, <1>7 DEF RowInv

\* Tokens grow older, or are revoked; nothing else of them changes.
LEMMA OldTokens ==
    ASSUME RowInv, UNCHANGED <<challenge, keys>>,
           budget' \in BudgetType, budget'.tokens = budget.tokens,
           budget'.challenges = budget.challenges,
           token' \in Seq(TokenType), Len(token') = Len(token), DOMAIN token' = DOMAIN token,
           \A i \in DOMAIN token :
               /\ token'[i].family = token[i].family /\ token'[i].parent = token[i].parent
               /\ token'[i].kid = token[i].kid /\ token'[i].age >= token[i].age
               /\ token[i].revoked => token'[i].revoked,
           history'.raced = history.raced,
           \/ history' = history
           \/ \E g \in DOMAIN token : /\ history' = [history EXCEPT !.reused = @ \cup {token[g].family}]
                                      /\ \A i \in FamilyOf(token[g].family) : token'[i].revoked
    PROVE  RowInv'
<1>1. /\ RowTypes /\ FamiliesBegin /\ FamiliesLive /\ RotationKeepsSessions
      /\ history \in [raced : SUBSET Nat, reused : SUBSET Nat]
  BY DEF RowInv, RowTypes
<1>2. \A i \in DOMAIN token : Live(i)' => Live(i)
  BY DEF Live
<1>3. \A f : FamilyOf(f)' = FamilyOf(f)
  BY DEF FamilyOf
<1>4. /\ history' \in [raced : SUBSET Nat, reused : SUBSET Nat]
      /\ \A f \in history'.reused :
             \/ f \in history.reused
             \/ FamilyOf(f) # {} /\ \A i \in FamilyOf(f) : ~Live(i)'
  <2>1. CASE history' = history
    BY <1>1, <2>1
  <2>2. ASSUME NEW g \in DOMAIN token,
               history' = [history EXCEPT !.reused = @ \cup {token[g].family}],
               \A i \in FamilyOf(token[g].family) : token'[i].revoked
        PROVE  /\ history' \in [raced : SUBSET Nat, reused : SUBSET Nat]
               /\ \A f \in history'.reused :
                      \/ f \in history.reused
                      \/ FamilyOf(f) # {} /\ \A i \in FamilyOf(f) : ~Live(i)'
    <3>1. token[g].family \in Nat /\ g \in FamilyOf(token[g].family)
      BY <1>1, Sizes DEF TokenType, FamilyOf
    <3>2. history'.reused = history.reused \cup {token[g].family}
      BY <1>1, <2>2
    <3>3. history' \in [raced : SUBSET Nat, reused : SUBSET Nat]
      BY <1>1, <2>2, <3>1
    <3> QED BY <2>2, <3>1, <3>2, <3>3 DEF Live
  <2> QED BY <2>1, <2>2
<1>5. RowTypes'
  BY <1>1, <1>4 DEF RowTypes
<1>6. FamiliesBegin'
  BY <1>1 DEF FamiliesBegin
<1>7. FamiliesLive'
  <2>1. \A f \in history'.reused : FamilyOf(f)' # {}
    BY <1>1, <1>3, <1>4 DEF FamiliesLive
  <2>2. ASSUME NEW i \in DOMAIN token, token[i].family \notin history.raced, Live(i)'
        PROVE  /\ token[i].family \notin history'.reused
               /\ \A j \in DOMAIN token : token[j].family = token[i].family /\ Live(j)' => i = j
    <3>1. i \in FamilyOf(token[i].family)
      BY DEF FamilyOf
    <3> QED BY <1>1, <1>2, <1>4, <2>2, <3>1 DEF FamiliesLive
  <2> QED BY <2>1, <2>2 DEF FamiliesLive
<1>8. RotationKeepsSessions'
  <2> SUFFICES ASSUME NEW i \in DOMAIN token, token'[i].age < AccessExpired
               PROVE  token[i].kid \in keys.set
    BY DEF RotationKeepsSessions, Verifies
  <2>1. token'[i] \in TokenType /\ token[i] \in TokenType
    BY <1>1, <1>5, Sizes, Sizes, ElementOfSeq, LenProperties
  <2>2. token[i].age < AccessExpired
    BY <2>1 DEF TokenType, Fresh, Expired, AccessExpired
  <2> QED BY <1>1, <2>2 DEF RotationKeepsSessions, Verifies
<1> QED BY <1>5, <1>6, <1>7, <1>8 DEF RowInv

\* A request under way is about a row that exists.
LEMMA Asked ==
    ASSUME IInv, NEW s \in Slots
    PROVE  /\ request[s] \in RequestType /\ ~request[s].seen
           /\ request[s].kind \in {"refresh", "logout"} => request[s].arg \in DOMAIN token
           /\ request[s].kind = "verify" => request[s].arg \in DOMAIN challenge
BY Sizes DEF IInv, RowInv, TabInv, RequestsFit, RequestFits

LEMMA AgeKeepsRows == ASSUME IInv, NEW i \in DOMAIN token, Age(i) PROVE RowInv' /\ Len(token') = Len(token)
<1>1. /\ RowInv /\ RowTypes /\ token \in Seq(TokenType) /\ token[i] \in TokenType
      /\ budget \in BudgetType
  BY Sizes DEF IInv, RowInv, RowTypes
<1> DEFINE e == [token[i] EXCEPT !.age = @ + 1]
<1>2. /\ token' = [token EXCEPT ![i] = e] /\ token[i].age < Expired
      /\ UNCHANGED <<challenge, keys, history>>
  BY DEF Age
<1>3. /\ e \in TokenType /\ e.family = token[i].family /\ e.parent = token[i].parent
      /\ e.kid = token[i].kid /\ (token[i].revoked => e.revoked) /\ e.age >= token[i].age
  <2>1. token[i].age \in 0..3 /\ token[i].age < 3
    BY <1>1, <1>2 DEF TokenType, Fresh, Expired
  <2>2. token[i].age + 1 \in 0..3 /\ token[i].age + 1 >= token[i].age
    BY <2>1
  <2>3. e = [token[i] EXCEPT !.age = token[i].age + 1]
    OBVIOUS
  <2>4. e.age = token[i].age + 1 /\ e.family = token[i].family /\ e.parent = token[i].parent
        /\ e.kid = token[i].kid /\ e.revoked = token[i].revoked
    BY <1>1 DEF TokenType
  <2>5. e \in TokenType
    BY <1>1, <2>2, <2>3 DEF TokenType, Fresh, Expired
  <2> HIDE DEF e
  <2> QED BY <2>2, <2>4, <2>5
<1> HIDE DEF e
<1>4. /\ token' \in Seq(TokenType) /\ Len(token') = Len(token) /\ DOMAIN token' = DOMAIN token
      /\ token'[i] = e /\ \A j \in DOMAIN token : j # i => token'[j] = token[j]
  BY <1>1, <1>2, <1>3, RowChanged
<1>5. /\ budget' \in BudgetType
      /\ budget'.tokens = budget.tokens /\ budget'.challenges = budget.challenges
  BY <1>1, Spent DEF Age
<1>6. \A j \in DOMAIN token :
          /\ token'[j].family = token[j].family /\ token'[j].parent = token[j].parent
          /\ token'[j].kid = token[j].kid /\ token'[j].age >= token[j].age
          /\ token[j].revoked => token'[j].revoked
  <2>1. \A j \in DOMAIN token : token[j].age \in Int
    BY <1>1, Sizes DEF TokenType, Fresh, Expired
  <2> QED BY <1>3, <1>4, <2>1
<1> QED BY <1>1, <1>2, <1>4, <1>5, <1>6, OldTokens

LEMMA RevokeKeepsRows ==
    ASSUME IInv, NEW s \in Slots, RevokeRefreshToken(s)
    PROVE  RowInv' /\ Len(token') = Len(token)
<1>1. /\ RowInv /\ RowTypes /\ token \in Seq(TokenType) /\ budget \in BudgetType
      /\ UNCHANGED <<challenge, keys, history, budget>>
  BY DEF IInv, RowInv, RowTypes, RevokeRefreshToken
<1> DEFINE i == request[s].arg
           e == [token[i] EXCEPT !.revoked = TRUE]
<1>2. CASE token' = token
  BY <1>1, <1>2, RowsRest
<1>3. CASE token' # token
  <2>1. i \in DOMAIN token /\ token' = [token EXCEPT ![i] = e]
    BY <1>3, Asked DEF RevokeRefreshToken
  <2>2. token[i] \in TokenType
    BY <1>1, <2>1, Sizes
  <2>3. /\ e \in TokenType /\ e.family = token[i].family /\ e.parent = token[i].parent
        /\ e.kid = token[i].kid /\ e.revoked /\ e.age = token[i].age
    BY <2>2 DEF TokenType
  <2> HIDE DEF e, i
  <2>4. /\ token' \in Seq(TokenType) /\ Len(token') = Len(token) /\ DOMAIN token' = DOMAIN token
        /\ token'[i] = e /\ \A j \in DOMAIN token : j # i => token'[j] = token[j]
    BY <1>1, <2>1, <2>3, RowChanged
  <2>5. \A j \in DOMAIN token :
            /\ token'[j].family = token[j].family /\ token'[j].parent = token[j].parent
            /\ token'[j].kid = token[j].kid /\ token'[j].age >= token[j].age
            /\ token[j].revoked => token'[j].revoked
    <3>1. \A j \in DOMAIN token : token[j].age \in Int
      BY <1>1, Sizes DEF TokenType, Fresh, Expired
    <3> QED BY <2>3, <2>4, <3>1
  <2> QED BY <1>1, <2>4, <2>5, OldTokens
<1> QED BY <1>2, <1>3

LEMMA ReuseKeepsRows ==
    ASSUME IInv, NEW s \in Slots, DetectReuse(s)
    PROVE  RowInv' /\ Len(token') = Len(token)
<1>1. /\ RowInv /\ RowTypes /\ token \in Seq(TokenType) /\ budget \in BudgetType
      /\ history \in [raced : SUBSET Nat, reused : SUBSET Nat]
      /\ UNCHANGED <<challenge, keys, budget>>
  BY DEF IInv, RowInv, RowTypes, DetectReuse
<1>2. PICK g \in DOMAIN token :
          /\ token' = RevokeFamily(token[g].family, g)
          /\ history' = [history EXCEPT !.reused = @ \cup {token[g].family}]
  <2>1. request[s].arg \in DOMAIN token
    BY Asked DEF DetectReuse, AtStep
  <2> QED BY <2>1 DEF DetectReuse
<1>3. /\ DOMAIN token' = DOMAIN token
      /\ \A j \in DOMAIN token : token'[j] = IF token[j].family = token[g].family
                                             THEN [token[j] EXCEPT !.revoked = TRUE] ELSE token[j]
  BY <1>2 DEF RevokeFamily
<1>4. \A j \in DOMAIN token :
          /\ token'[j] \in TokenType
          /\ token'[j].family = token[j].family /\ token'[j].parent = token[j].parent
          /\ token'[j].kid = token[j].kid /\ token'[j].age >= token[j].age
          /\ token[j].revoked => token'[j].revoked
          /\ token[j].family = token[g].family => token'[j].revoked
  <2> SUFFICES ASSUME NEW j \in DOMAIN token
               PROVE  /\ token'[j] \in TokenType
                      /\ token'[j].family = token[j].family /\ token'[j].parent = token[j].parent
                      /\ token'[j].kid = token[j].kid /\ token'[j].age >= token[j].age
                      /\ token[j].revoked => token'[j].revoked
                      /\ token[j].family = token[g].family => token'[j].revoked
    OBVIOUS
  <2>1. token[j] \in TokenType
    BY <1>1, Sizes
  <2>2. token'[j] = token[j] \/ token'[j] = [token[j] EXCEPT !.revoked = TRUE]
    BY <1>3
  <2>3. /\ token'[j] \in TokenType
        /\ token'[j].family = token[j].family /\ token'[j].parent = token[j].parent
        /\ token'[j].kid = token[j].kid /\ token'[j].age = token[j].age
        /\ (token[j].revoked => token'[j].revoked)
    <3>1. CASE token'[j] = token[j]
      BY <2>1, <3>1
    <3>2. CASE token'[j] = [token[j] EXCEPT !.revoked = TRUE]
      BY <2>1, <3>2 DEF TokenType
    <3> QED BY <2>2, <3>1, <3>2
  <2>5. token[j].age \in Int
    BY <2>1 DEF TokenType, Fresh, Expired
  <2>4. token[j].family = token[g].family => token'[j].revoked
    BY <1>3, <2>1 DEF TokenType
  <2> QED BY <2>3, <2>4, <2>5
<1>5. token' \in Seq(TokenType) /\ Len(token') = Len(token)
  <2>1. DOMAIN token = 1..Len(token) /\ Len(token) \in Nat
    BY <1>1, Sizes
  <2>2. token' = [j \in 1..Len(token) |-> token'[j]]
    BY <1>2, <1>3, <2>1 DEF RevokeFamily
  <2>3. token' \in [1..Len(token) -> TokenType]
    BY <1>4, <2>1, <2>2
  <2>4. token' \in Seq(TokenType)
    BY <2>1, <2>3, SeqDef
  <2>5. DOMAIN token' = 1..Len(token') /\ Len(token') \in Nat
    BY <2>4, LenProperties
  <2> QED BY <1>3, <2>1, <2>4, <2>5
<1>6. history'.raced = history.raced
  BY <1>1, <1>2
<1>7. \A i \in FamilyOf(token[g].family) : token'[i].revoked
  BY <1>4 DEF FamilyOf
<1> QED BY <1>1, <1>2, <1>3, <1>4, <1>5, <1>6, <1>7, OldTokens

\* Challenges come, are used, and expire.
LEMMA ChallengesKeepRows ==
    ASSUME IInv, UNCHANGED <<token, keys, history, budget>>,
           challenge' \in Seq(ChallengeType), Len(challenge') <= budget.challenges,
           \A c \in DOMAIN challenge : c \in DOMAIN challenge' /\ (challenge[c].used => challenge'[c].used)
    PROVE  RowInv'
<1>1. RowTypes /\ FamiliesBegin /\ FamiliesLive /\ RotationKeepsSessions
  BY DEF IInv, RowInv
<1>2. RowTypes'
  BY <1>1 DEF RowTypes
<1> QED BY <1>1, <1>2 DEF RowInv, FamiliesBegin, FamiliesLive, FamilyOf, Live,
                          RotationKeepsSessions, Verifies

LEMMA CreateKeepsRows ==
    ASSUME IInv, NEW s \in Slots, CreateChallenge(s)
    PROVE  RowInv' /\ Len(challenge') >= Len(challenge)
<1> DEFINE e == [used |-> FALSE, expired |-> FALSE]
<1>1. /\ RowInv /\ RowTypes /\ challenge \in Seq(ChallengeType) /\ Len(challenge) \in Nat
      /\ budget.challenges \in Nat /\ Len(challenge) <= budget.challenges /\ budget \in BudgetType
      /\ UNCHANGED <<token, keys, history, budget>>
  BY Sizes DEF IInv, RowInv, RowTypes, CreateChallenge
<1>2. CASE Len(challenge) = budget.challenges
  BY <1>1, <1>2, RowsRest DEF CreateChallenge
<1>3. CASE Len(challenge) # budget.challenges
  <2>1. challenge' = Append(challenge, e) /\ e \in ChallengeType
    BY <1>3 DEF CreateChallenge, ChallengeType
  <2> HIDE DEF e
  <2>2. /\ challenge' \in Seq(ChallengeType) /\ Len(challenge') = Len(challenge) + 1
        /\ \A c \in DOMAIN challenge : c \in DOMAIN challenge' /\ challenge'[c] = challenge[c]
    BY <1>1, <2>1, RowAdded
  <2> QED BY <1>1, <1>3, <2>2, ChallengesKeepRows
<1> QED BY <1>2, <1>3

LEMMA PruneKeepsRows ==
    ASSUME IInv, NEW c \in DOMAIN challenge, PruneChallenge(c)
    PROVE  RowInv' /\ Len(challenge') = Len(challenge)
<1> DEFINE e == [challenge[c] EXCEPT !.expired = TRUE]
<1>1. /\ RowTypes /\ challenge \in Seq(ChallengeType) /\ challenge[c] \in ChallengeType
      /\ Len(challenge) <= budget.challenges
      /\ UNCHANGED <<token, keys, history, budget>>
  BY Sizes DEF IInv, RowInv, RowTypes, PruneChallenge
<1>2. challenge' = [challenge EXCEPT ![c] = e] /\ e \in ChallengeType /\ e.used = challenge[c].used
  BY <1>1 DEF PruneChallenge, ChallengeType
<1> HIDE DEF e
<1>3. /\ challenge' \in Seq(ChallengeType) /\ Len(challenge') = Len(challenge)
      /\ DOMAIN challenge' = DOMAIN challenge /\ challenge'[c] = e
      /\ \A d \in DOMAIN challenge : d # c => challenge'[d] = challenge[d]
  BY <1>1, <1>2, RowChanged
<1> QED BY <1>1, <1>2, <1>3, ChallengesKeepRows

LEMMA NewTokenIs ==
    ASSUME RowTypes, NEW f \in Nat, NEW p \in Nat
    PROVE  LET t == NewToken(f, p) IN
           /\ t \in TokenType /\ t.family = f /\ t.parent = p /\ ~t.revoked
           /\ t.age = Fresh /\ t.kid \in keys.set
<1>1. keys.current \in keys.set /\ keys.current \in {1, 2}
  BY DEF RowTypes, KeysType
<1>2. Fresh \in Fresh..Expired
  BY DEF Fresh, Expired
<1> QED BY <1>1, <1>2 DEF NewToken, TokenType

\* A challenge that was not used opens a family of one token.
LEMMA UseKeepsRows ==
    ASSUME IInv, NEW s \in Slots, UseChallenge(s)
    PROVE  RowInv' /\ Len(challenge') >= Len(challenge) /\ Len(token') >= Len(token)
<1>1. /\ RowInv /\ RowTypes /\ FamiliesBegin /\ FamiliesLive /\ RotationKeepsSessions
      /\ challenge \in Seq(ChallengeType) /\ token \in Seq(TokenType)
      /\ Len(token) \in Nat /\ Len(challenge) \in Nat
      /\ budget \in BudgetType /\ budget.tokens \in Nat
      /\ Len(token) <= budget.tokens /\ Len(challenge) <= budget.challenges
      /\ UNCHANGED <<keys, history, budget>>
  BY Sizes DEF IInv, RowInv, RowTypes, UseChallenge
<1>2. CASE UNCHANGED <<challenge, token>>
  BY <1>1, <1>2, RowsRest
<1>3. CASE ~UNCHANGED <<challenge, token>>
  <2>1. PICK c \in DOMAIN challenge :
            /\ Usable(c) /\ Len(token) # budget.tokens
            /\ challenge' = [challenge EXCEPT ![c].used = TRUE]
            /\ token' = Append(token, NewToken(c, None))
    BY <1>3, Asked DEF UseChallenge, Conflicts, AtStep
  <2>2. PICK u : u = [challenge[c] EXCEPT !.used = TRUE]
    OBVIOUS
  <2>3. challenge[c] \in ChallengeType /\ c \in Nat /\ None \in Nat
    BY <1>1, Sizes DEF None
  <2>4. u \in ChallengeType /\ u.used /\ challenge' = [challenge EXCEPT ![c] = u]
    BY <2>1, <2>2, <2>3 DEF ChallengeType
  <2>5. /\ challenge' \in Seq(ChallengeType) /\ Len(challenge') = Len(challenge)
        /\ DOMAIN challenge' = DOMAIN challenge /\ challenge'[c].used
        /\ \A d \in DOMAIN challenge : d # c => challenge'[d] = challenge[d]
    BY <1>1, <2>4, RowChanged
  <2>6. PICK e : e = NewToken(c, None)
    OBVIOUS
  <2>7. /\ e \in TokenType /\ e.family = c /\ e.parent = None /\ ~e.revoked
        /\ e.kid \in keys.set /\ token' = Append(token, e)
    BY <1>1, <2>1, <2>3, <2>6, NewTokenIs
  <2>8. PICK n : n = Len(token) + 1
    OBVIOUS
  <2>9. /\ token' \in Seq(TokenType) /\ Len(token') = n
        /\ DOMAIN token' = DOMAIN token \cup {n} /\ n \notin DOMAIN token
        /\ token'[n] = e /\ \A j \in DOMAIN token : token'[j] = token[j]
    BY <1>1, <2>7, <2>8, RowAdded
  <2>10. \A i \in DOMAIN token : token[i].family # c
    BY <1>1, <2>1 DEF FamiliesBegin, Usable
  <2>11. RowTypes'
    <3>1. Len(token') <= budget.tokens /\ Len(challenge') <= budget.challenges
      BY <1>1, <2>1, <2>5, <2>8, <2>9
    <3>2. /\ keys \in KeysType /\ keys.current \in keys.set
          /\ history \in [raced : SUBSET Nat, reused : SUBSET Nat]
      BY <1>1 DEF RowTypes
    <3> QED BY <1>1, <2>5, <2>9, <3>1, <3>2 DEF RowTypes
  <2>12. FamiliesBegin'
    <3>1. ASSUME NEW i \in DOMAIN token'
          PROVE  /\ token'[i].family \in DOMAIN challenge'
                 /\ challenge'[token'[i].family].used
                 /\ \A j \in DOMAIN token' :
                        token'[i].parent = None /\ token'[j].parent = None
                        /\ token'[i].family = token'[j].family => i = j
      <4>1. CASE i = n
        BY <2>5, <2>7, <2>9, <2>10, <4>1
      <4>2. CASE i \in DOMAIN token
        <5>1. token[i].family \in DOMAIN challenge /\ challenge[token[i].family].used
          BY <1>1, <4>2 DEF FamiliesBegin
        <5> QED BY <1>1, <2>5, <2>7, <2>9, <2>10, <4>2, <5>1 DEF FamiliesBegin
      <4> QED BY <2>9, <4>1, <4>2
    <3> QED BY <3>1 DEF FamiliesBegin
  <2>13. FamiliesLive'
    <3>1. \A f \in history.reused : FamilyOf(f) # {} /\ f # c
      BY <1>1, <2>10 DEF FamiliesLive, FamilyOf
    <3>2. \A f : FamilyOf(f) \subseteq FamilyOf(f)'
      BY <2>9 DEF FamilyOf
    <3>3. \A i \in DOMAIN token : Live(i)' = Live(i)
      BY <2>9 DEF Live
    <3>4. ASSUME NEW i \in DOMAIN token', token'[i].family \notin history.raced, Live(i)'
          PROVE  /\ token'[i].family \notin history.reused
                 /\ \A j \in DOMAIN token' : token'[j].family = token'[i].family /\ Live(j)' => i = j
      <4>1. CASE i = n
        BY <2>7, <2>9, <2>10, <3>1, <4>1
      <4>2. CASE i \in DOMAIN token
        BY <1>1, <2>7, <2>9, <2>10, <3>3, <3>4, <4>2 DEF FamiliesLive
      <4> QED BY <2>9, <4>1, <4>2
    <3> QED BY <1>1, <3>1, <3>2, <3>4 DEF FamiliesLive
  <2>14. RotationKeepsSessions'
    BY <1>1, <2>7, <2>9 DEF RotationKeepsSessions, Verifies
  <2> QED BY <1>1, <2>5, <2>8, <2>9, <2>11, <2>12, <2>13, <2>14 DEF RowInv
<1> QED BY <1>1, <1>2, <1>3

\* A rotation passes the life of a token on to its successor, unless another write took it
\* in between: then the family has raced.
LEMMA RotateKeepsRows ==
    ASSUME IInv, NEW s \in Slots, RotateToken(s)
    PROVE  RowInv' /\ Len(token') >= Len(token)
<1>1. /\ RowInv /\ RowTypes /\ FamiliesBegin /\ FamiliesLive /\ RotationKeepsSessions
      /\ token \in Seq(TokenType) /\ Len(token) \in Nat
      /\ budget \in BudgetType /\ budget.tokens \in Nat /\ Len(token) <= budget.tokens
      /\ history \in [raced : SUBSET Nat, reused : SUBSET Nat]
      /\ UNCHANGED <<challenge, keys, budget>>
  BY Sizes DEF IInv, RowInv, RowTypes, RotateToken
<1>2. CASE UNCHANGED <<token, history>>
  BY <1>1, <1>2, RowsRest
<1>3. CASE ~UNCHANGED <<token, history>>
  <2>1. PICK i \in DOMAIN token :
            /\ Len(token) # budget.tokens
            /\ token' = Append([token EXCEPT ![i].revoked = TRUE], NewToken(token[i].family, i))
            /\ history' = IF token[i].revoked
                          THEN [history EXCEPT !.raced = @ \cup {token[i].family}] ELSE history
    BY <1>3, Asked DEF RotateToken, AtStep
  <2>2. PICK f : f = token[i].family
    OBVIOUS
  <2>3. token[i] \in TokenType /\ i \in Nat /\ f \in Nat
    BY <1>1, <2>2, Sizes DEF TokenType
  <2>4. PICK u : u = [token[i] EXCEPT !.revoked = TRUE]
    OBVIOUS
  <2>5. /\ u \in TokenType /\ u.family = f /\ u.parent = token[i].parent
        /\ u.kid = token[i].kid /\ u.age = token[i].age /\ u.revoked
    BY <2>2, <2>3, <2>4 DEF TokenType
  <2>6. PICK t : t = [token EXCEPT ![i] = u]
    OBVIOUS
  <2>7. PICK e : e = NewToken(f, i)
    OBVIOUS
  <2>8. /\ e \in TokenType /\ e.family = f /\ e.parent = i /\ ~e.revoked /\ e.kid \in keys.set
    BY <1>1, <2>3, <2>7, NewTokenIs
  <2>9. token' = Append(t, e)
    BY <2>1, <2>2, <2>4, <2>6, <2>7
  <2>10. /\ t \in Seq(TokenType) /\ Len(t) = Len(token) /\ DOMAIN t = DOMAIN token
         /\ t[i] = u /\ \A j \in DOMAIN token : j # i => t[j] = token[j]
    BY <1>1, <2>5, <2>6, RowChanged
  <2>11. PICK n : n = Len(token) + 1
    OBVIOUS
  <2>12. /\ token' \in Seq(TokenType) /\ Len(token') = n
         /\ DOMAIN token' = DOMAIN token \cup {n} /\ n \notin DOMAIN token /\ n # i
         /\ token'[n] = e /\ token'[i] = u
         /\ \A j \in DOMAIN token : j # i => token'[j] = token[j]
    BY <2>8, <2>9, <2>10, <2>11, RowAdded
  <2>13. /\ ~Live(i)' /\ \A j \in DOMAIN token : Live(j)' => Live(j) /\ j # i
         /\ \A j \in DOMAIN token : /\ token'[j].family = token[j].family
                                    /\ token'[j].parent = token[j].parent
                                    /\ token'[j].kid = token[j].kid
                                    /\ token'[j].age = token[j].age
    BY <2>2, <2>5, <2>12 DEF Live
  <2>14. /\ history' \in [raced : SUBSET Nat, reused : SUBSET Nat]
         /\ history'.reused = history.reused /\ history.raced \subseteq history'.raced
         /\ (f \notin history'.raced => Live(i) /\ history' = history)
    <3>1. CASE ~token[i].revoked
      BY <1>1, <2>1, <3>1 DEF Live
    <3>2. CASE token[i].revoked
      <4>1. history' = [history EXCEPT !.raced = @ \cup {f}]
        BY <2>1, <2>2, <3>2
      <4> QED BY <1>1, <2>3, <4>1
    <3> QED BY <3>1, <3>2
  <2>15. RowTypes'
    <3>1. Len(token') <= budget.tokens
      BY <1>1, <2>1, <2>11, <2>12
    <3>2. /\ keys \in KeysType /\ keys.current \in keys.set
          /\ challenge \in Seq(ChallengeType) /\ Len(challenge) <= budget.challenges
      BY <1>1 DEF RowTypes
    <3> QED BY <1>1, <2>12, <2>14, <3>1, <3>2 DEF RowTypes
  <2>16. FamiliesBegin'
    <3>1. i # None
      BY <1>1, Sizes DEF None
    <3>2. ASSUME NEW k \in DOMAIN token'
          PROVE  /\ token'[k].family \in DOMAIN challenge /\ challenge[token'[k].family].used
                 /\ \A j \in DOMAIN token' :
                        token'[k].parent = None /\ token'[j].parent = None
                        /\ token'[k].family = token'[j].family => k = j
      <4>1. CASE k = n
        <5>1. token'[k].parent # None /\ token'[k].family = token[i].family
          BY <2>2, <2>8, <2>12, <3>1, <4>1
        <5> QED BY <1>1, <5>1 DEF FamiliesBegin
      <4>2. CASE k \in DOMAIN token
        BY <1>1, <2>8, <2>12, <2>13, <3>1, <4>2 DEF FamiliesBegin
      <4> QED BY <2>12, <4>1, <4>2
    <3> QED BY <1>1, <3>2 DEF FamiliesBegin
  <2>17. FamiliesLive'
    <3>1. \A g : FamilyOf(g) \subseteq FamilyOf(g)'
      BY <2>12, <2>13 DEF FamilyOf
    <3>2. ASSUME NEW k \in DOMAIN token', token'[k].family \notin history'.raced, Live(k)'
          PROVE  /\ token'[k].family \notin history'.reused
                 /\ \A j \in DOMAIN token' : token'[j].family = token'[k].family /\ Live(j)' => k = j
      <4>1. CASE k = n
        <5>1. f \notin history.raced /\ Live(i) /\ token'[k].family = f
          BY <2>8, <2>12, <2>14, <3>2, <4>1
        <5>2. f \notin history.reused /\ \A j \in DOMAIN token : token[j].family = f /\ Live(j) => i = j
          BY <1>1, <2>2, <5>1 DEF FamiliesLive
        <5> QED BY <2>12, <2>13, <2>14, <4>1, <5>1, <5>2
      <4>2. CASE k \in DOMAIN token
        <5>1. k # i /\ Live(k) /\ token'[k].family = token[k].family
              /\ token[k].family \notin history.raced
          BY <2>13, <2>14, <3>2, <4>2
        <5>2. /\ token[k].family \notin history.reused
              /\ \A j \in DOMAIN token : token[j].family = token[k].family /\ Live(j) => k = j
          BY <1>1, <4>2, <5>1 DEF FamiliesLive
        <5>3. token[k].family # f
          BY <2>2, <2>14, <3>2, <5>1, <5>2
        <5> QED BY <2>8, <2>12, <2>13, <2>14, <5>1, <5>2, <5>3
      <4> QED BY <2>12, <4>1, <4>2
    <3> QED BY <1>1, <2>14, <3>1, <3>2 DEF FamiliesLive
  <2>18. RotationKeepsSessions'
    BY <1>1, <2>8, <2>12, <2>13 DEF RotationKeepsSessions, Verifies
  <2> QED BY <1>1, <2>11, <2>12, <2>15, <2>16, <2>17, <2>18 DEF RowInv
<1> QED BY <1>1, <1>2, <1>3

-----------------------------------------------------------------------------
(* What the steps of a tab make of it. *)

LEMMA FitsLonger ==
    ASSUME NEW t, NEW n \in Nat, NEW k \in Nat, n <= k
    PROVE  (TabHolds(t, n) => TabHolds(t, k)) /\ (TabFits(t, n) => TabFits(t, k))
BY DEF TabHolds, TabFits

LEMMA NewTabFits == ASSUME NEW n \in Nat PROVE TabFits(NewTab, n) /\ ~NewTab.inflight
BY DEF TabFits, TabHolds, NewTab, TabType, None, Statuses, CallSteps, Waiting

LEMMA ResumeFits ==
    ASSUME NEW n \in Nat, NEW t, TabHolds(t, n), NEW i \in 0..n, ~t.inflight
    PROVE  TabFits(Resume(t, i), n) /\ ~Resume(t, i).inflight
<1>1. /\ t \in TabType /\ t.status # "refreshing" /\ t.pair \in 0..n /\ t.sent \in 0..n /\ i \in Nat
      /\ t.status = "authenticated" => t.pair # None
      /\ t.status = "unauthenticated" => t.pair = None
  BY DEF TabHolds
<1>2. CASE t.call = "waits first"
  <2>1. PICK u : u = [t EXCEPT !.call = "sent", !.sent = i]
    OBVIOUS
  <2>2. /\ u \in TabType /\ u.pair = t.pair /\ u.sent = i /\ u.status = t.status
        /\ u.inflight = t.inflight /\ u.call = "sent"
    BY <1>1, <2>1 DEF TabType, CallSteps
  <2>3. Resume(t, i) = u
    BY <1>2, <2>1 DEF Resume
  <2> QED BY <1>1, <2>2, <2>3 DEF TabFits, TabHolds, Waiting
<1>3. CASE t.call = "waits again" /\ i # None
  <2>1. PICK u : u = [t EXCEPT !.call = "sent again", !.sent = i]
    OBVIOUS
  <2>2. /\ u \in TabType /\ u.pair = t.pair /\ u.sent = i /\ u.status = t.status
        /\ u.inflight = t.inflight /\ u.call = "sent again"
    BY <1>1, <2>1 DEF TabType, CallSteps
  <2>3. Resume(t, i) = u
    BY <1>3, <2>1 DEF Resume
  <2> QED BY <1>1, <2>2, <2>3 DEF TabFits, TabHolds, Waiting
<1>4. CASE t.call = "waits again" /\ i = None
  <2>1. PICK u : u = [t EXCEPT !.call = "idle", !.sent = None]
    OBVIOUS
  <2>2. /\ u \in TabType /\ u.pair = t.pair /\ u.sent = None /\ u.status = t.status
        /\ u.inflight = t.inflight /\ u.call = "idle"
    BY <1>1, <2>1 DEF TabType, CallSteps, None
  <2>3. Resume(t, i) = u
    BY <1>4, <2>1 DEF Resume
  <2>4. None \in 0..n
    BY DEF None
  <2> QED BY <1>1, <2>2, <2>3, <2>4 DEF TabFits, TabHolds, Waiting
<1>5. CASE ~Waiting(t)
  <2>1. Resume(t, i) = t
    BY <1>5 DEF Resume, Waiting
  <2> QED BY <1>5, <2>1 DEF TabFits
<1> QED BY <1>2, <1>3, <1>4, <1>5 DEF Waiting

LEMMA SetTokensHolds ==
    ASSUME NEW n \in Nat, NEW t, t \in TabType, t.sent \in 0..n, NEW i \in 1..n
    PROVE  LET u == SetTokens(t, i) IN
           /\ TabHolds(u, n) /\ u.inflight = t.inflight /\ u.call = t.call
<1>1. PICK u : u = SetTokens(t, i)
  OBVIOUS
<1>2. /\ u \in TabType /\ u.pair = i /\ u.sent = t.sent /\ u.status = "authenticated"
      /\ u.inflight = t.inflight /\ u.call = t.call
  <2>1. u = [t EXCEPT !.pair = i, !.status = "authenticated", !.timer = TRUE]
    BY <1>1 DEF SetTokens
  <2>2. /\ u.pair = i /\ u.sent = t.sent /\ u.status = "authenticated"
        /\ u.inflight = t.inflight /\ u.call = t.call
    BY <2>1 DEF TabType
  <2>3. i \in Nat
    OBVIOUS
  <2>4. u \in TabType
    BY <2>1, <2>3 DEF TabType, Statuses
  <2> QED BY <2>2, <2>4
<1>3. i \in 0..n /\ i # None
  BY DEF None
<1> QED BY <1>1, <1>2, <1>3 DEF TabHolds

\* The answer of a refresh leaves nobody waiting.
LEMMA AnsweredFits ==
    ASSUME NEW n \in Nat, NEW t, t \in TabType, t.pair \in 0..n, t.sent \in 0..n, NEW i \in 0..n
    PROVE  TabFits(Answered(t, i), n) /\ ~Answered(t, i).inflight
<1>1. PICK d : d = [t EXCEPT !.inflight = FALSE]
  OBVIOUS
<1>2. /\ d \in TabType /\ d.pair = t.pair /\ d.sent = t.sent /\ ~d.inflight
  BY <1>1 DEF TabType
<1>3. CASE i # None
  <2>1. TabHolds(SetTokens(d, i), n) /\ ~SetTokens(d, i).inflight
    BY <1>2, <1>3, SetTokensHolds DEF None
  <2>2. Answered(t, i) = Resume(SetTokens(d, i), i)
    BY <1>1, <1>3 DEF Answered
  <2> QED BY <2>1, <2>2, ResumeFits
<1>4. CASE i = None
  <2>1. PICK u : u = SetStatus(d, "reauth-required")
    OBVIOUS
  <2>2. /\ u \in TabType /\ u.pair = t.pair /\ u.sent = t.sent /\ ~u.inflight
        /\ u.status = "reauth-required"
    BY <1>2, <2>1 DEF SetStatus, TabType, Statuses
  <2>3. TabHolds(u, n)
    BY <2>2 DEF TabHolds
  <2>4. Answered(t, i) = Resume(u, i)
    BY <1>1, <1>4, <2>1 DEF Answered
  <2> QED BY <2>2, <2>3, <2>4, ResumeFits
<1> QED BY <1>3, <1>4

-----------------------------------------------------------------------------
(* What a step makes of the tabs and the requests together. *)

\* A request is sent from a free slot.
LEMMA SendIs ==
    ASSUME request \in [Slots -> RequestType], NEW kind \in Kinds, NEW b \in Tabs, NEW arg \in Nat,
           Send(kind, b, arg)
    PROVE  \E s \in Slots, q \in RequestType :
               /\ q.kind = kind /\ q.from = b /\ q.arg = arg /\ ~q.seen
               /\ request' = [request EXCEPT ![s] = q]
<1>1. PICK q : q = [NoRequest EXCEPT !.kind = kind, !.from = b, !.arg = arg, !.pc = "lookup"]
  OBVIOUS
<1>2. /\ q.kind = kind /\ q.from = b /\ q.arg = arg /\ ~q.seen /\ q \in RequestType
  BY <1>1 DEF NoRequest, RequestType, Pcs
<1>3. PICK s \in Slots : request' = [request EXCEPT ![s] = q]
  BY <1>1 DEF Send, FreeSlots
<1> QED BY <1>2, <1>3

\* The parts of the invariant of tabs and requests, from what changed.
LEMMA TabsKept ==
    ASSUME IInv, RowTypes', Len(token') >= Len(token), Len(challenge') >= Len(challenge),
           tab' \in [Tabs -> TabType], request' \in [Slots -> RequestType],
           \A b \in Tabs : tab'[b] = tab[b] \/ TabFits(tab'[b], Len(token')),
           \A s \in Slots : \/ request'[s] = request[s]
                            \/ RequestFits(request'[s], Len(token'), Len(challenge')),
           stored' = stored \/ stored' \in 0..Len(token'),
           OneFlight'
    PROVE  TabInv'
<1>1. /\ RowTypes /\ TabsFit /\ RequestsFit /\ stored \in 0..Len(token)
  BY DEF IInv, RowInv, TabInv
<1>2. PICK n : n = Len(token')
  OBVIOUS
<1>3. PICK m : m = Len(challenge')
  OBVIOUS
<1>4. /\ Len(token) \in Nat /\ Len(challenge) \in Nat /\ n \in Nat /\ m \in Nat
      /\ Len(token) <= n /\ Len(challenge) <= m
  <2>1. token' \in Seq(TokenType) /\ challenge' \in Seq(ChallengeType)
    BY DEF RowTypes
  <2>2. Len(token') \in Nat /\ Len(challenge') \in Nat
    BY <2>1, LenProperties
  <2> QED BY <1>1, <1>2, <1>3, <2>2, Sizes
<1>5. \A b \in Tabs : TabFits(tab'[b], n)
  BY <1>1, <1>2, <1>4, FitsLonger DEF TabsFit
<1>6. \A s \in Slots : RequestFits(request'[s], n, m)
  <2> SUFFICES ASSUME NEW s \in Slots, RequestFits(request[s], Len(token), Len(challenge))
               PROVE  RequestFits(request[s], n, m)
    BY <1>1, <1>2, <1>3 DEF RequestsFit
  <2> QED BY <1>4 DEF RequestFits
<1>7. stored' \in 0..n
  BY <1>1, <1>2, <1>4
<1> QED BY <1>2, <1>3, <1>5, <1>6, <1>7 DEF TabInv, TabsFit, RequestsFit

\* A step that begins no refresh, and leaves the tabs of those on their way waiting.
LEMMA SameFlights ==
    ASSUME OneFlight,
           \A b \in Tabs : \A s \in Slots :
               Refreshes(s, b)' => Refreshes(s, b) /\ (tab[b].inflight => tab'[b].inflight)
    PROVE  OneFlight'
BY DEF OneFlight

LEMMA TabChanges ==
    ASSUME IInv, RowTypes', UNCHANGED <<challenge, token, request>>, NEW b \in Tabs, NEW u,
           tab' = [tab EXCEPT ![b] = u], TabFits(u, Len(token)), tab[b].inflight => u.inflight,
           stored' \in 0..Len(token)
    PROVE  TabInv'
<1>1. /\ RowTypes /\ tab \in [Tabs -> TabType] /\ request \in [Slots -> RequestType] /\ OneFlight
      /\ Len(token) \in Nat /\ Len(challenge) \in Nat
  BY Sizes DEF IInv, RowInv, TabInv, TabsFit, RequestsFit
<1>2. /\ tab' \in [Tabs -> TabType] /\ tab'[b] = u
      /\ \A d \in Tabs : d # b => tab'[d] = tab[d]
  BY <1>1 DEF TabFits, TabHolds
<1>3. OneFlight'
  <2>1. \A d \in Tabs : \A s \in Slots :
            Refreshes(s, d)' => Refreshes(s, d) /\ (tab[d].inflight => tab'[d].inflight)
    BY <1>2 DEF Refreshes
  <2> QED BY <1>1, <2>1, SameFlights
<1> QED BY <1>1, <1>2, <1>3, TabsKept

LEMMA SendKeepsTabs ==
    ASSUME IInv, RowTypes', UNCHANGED <<challenge, token>>,
           NEW kind \in Kinds, NEW b \in Tabs, NEW arg \in Nat, Send(kind, b, arg),
           kind \in {"refresh", "logout"} => arg \in 1..Len(token),
           kind = "verify" => arg \in 1..Len(challenge),
           kind = "refresh" => ~tab[b].inflight /\ tab'[b].inflight,
           NEW u, tab' = [tab EXCEPT ![b] = u], TabFits(u, Len(token)),
           tab[b].inflight => u.inflight, stored' \in 0..Len(token)
    PROVE  TabInv'
<1>1. /\ RowTypes /\ tab \in [Tabs -> TabType] /\ request \in [Slots -> RequestType] /\ OneFlight
      /\ Len(token) \in Nat /\ Len(challenge) \in Nat
  BY Sizes DEF IInv, RowInv, TabInv, TabsFit, RequestsFit
<1>2. /\ tab' \in [Tabs -> TabType] /\ tab'[b] = u
      /\ \A d \in Tabs : d # b => tab'[d] = tab[d]
  BY <1>1 DEF TabFits, TabHolds
<1>3. PICK s \in Slots, q \in RequestType :
          /\ q.kind = kind /\ q.from = b /\ q.arg = arg /\ ~q.seen
          /\ request' = [request EXCEPT ![s] = q]
  BY <1>1, SendIs
<1>4. /\ request' \in [Slots -> RequestType] /\ request'[s] = q
      /\ \A r \in Slots : r # s => request'[r] = request[r]
  BY <1>1, <1>3
<1>5. RequestFits(q, Len(token), Len(challenge))
  BY <1>3 DEF RequestFits
<1>6. OneFlight'
  <2>1. CASE kind # "refresh"
    <3>1. \A d \in Tabs : \A r \in Slots :
              Refreshes(r, d)' => Refreshes(r, d) /\ (tab[d].inflight => tab'[d].inflight)
      BY <1>2, <1>3, <1>4, <2>1 DEF Refreshes
    <3> QED BY <1>1, <3>1, SameFlights
  <2>2. CASE kind = "refresh"
    <3>1. \A r \in Slots : ~Refreshes(r, b)
      BY <1>1, <2>2 DEF OneFlight
    <3>2. ASSUME NEW d \in Tabs, NEW r \in Slots, Refreshes(r, d)'
          PROVE  tab'[d].inflight /\ \A x \in Slots : Refreshes(x, d)' => x = r
      <4>1. CASE d = b
        <5>1. \A x \in Slots : Refreshes(x, d)' => x = s
          BY <1>3, <1>4, <3>1, <4>1 DEF Refreshes
        <5> QED BY <2>2, <3>2, <4>1, <5>1
      <4>2. CASE d # b
        <5>1. \A x \in Slots : Refreshes(x, d)' => Refreshes(x, d)
          BY <1>3, <1>4, <4>2 DEF Refreshes
        <5> QED BY <1>1, <1>2, <3>2, <4>2, <5>1 DEF OneFlight
      <4> QED BY <4>1, <4>2
    <3> QED BY <3>2 DEF OneFlight
  <2> QED BY <2>1, <2>2
<1> QED BY <1>1, <1>2, <1>4, <1>5, <1>6, TabsKept

\* refreshTokens, for callers that changed something else of the tab.
LEMMA RefreshKeepsTabs ==
    ASSUME IInv, RowTypes', UNCHANGED <<challenge, token, stored>>,
           NEW b \in Tabs, NEW t, TabHolds(t, Len(token)), t.inflight = tab[b].inflight,
           RefreshTokens(b, t)
    PROVE  TabInv'
<1>1. /\ RowTypes /\ tab \in [Tabs -> TabType] /\ request \in [Slots -> RequestType]
      /\ Len(token) \in Nat /\ stored \in 0..Len(token)
  BY Sizes DEF IInv, RowInv, TabInv, TabsFit, RequestsFit
<1>2. t \in TabType /\ t.pair \in 0..Len(token) /\ t.sent \in 0..Len(token)
  BY DEF TabHolds
<1>3. CASE t.inflight /\ tab' = [tab EXCEPT ![b] = t] /\ UNCHANGED request
  BY <1>1, <1>3, TabChanges DEF TabFits
<1>4. CASE /\ ~t.inflight /\ t.pair # None /\ Send("refresh", b, t.pair)
           /\ tab' = [tab EXCEPT ![b] = [SetStatus(t, "refreshing") EXCEPT !.inflight = TRUE]]
  <2>1. PICK u : u = [SetStatus(t, "refreshing") EXCEPT !.inflight = TRUE]
    OBVIOUS
  <2>2. /\ u \in TabType /\ u.pair = t.pair /\ u.sent = t.sent /\ u.inflight
        /\ u.status = "refreshing"
    BY <1>2, <2>1 DEF SetStatus, TabType, Statuses
  <2>3. TabFits(u, Len(token))
    BY <1>2, <2>2 DEF TabFits, TabHolds
  <2>4. t.pair \in Nat /\ t.pair \in 1..Len(token)
    BY <1>1, <1>2, <1>4 DEF None
  <2>5. tab' = [tab EXCEPT ![b] = u] /\ tab'[b].inflight
    BY <1>1, <1>4, <2>1, <2>2
  <2>6. "refresh" \in Kinds /\ ~tab[b].inflight
    BY <1>4 DEF Kinds
  <2> QED BY <1>1, <1>4, <2>2, <2>3, <2>4, <2>5, <2>6, SendKeepsTabs
<1>5. CASE ~t.inflight /\ tab' = [tab EXCEPT ![b] = Answered(t, None)] /\ UNCHANGED request
  <2>1. None \in 0..Len(token)
    BY <1>1 DEF None
  <2>2. TabFits(Answered(t, None), Len(token))
    BY <1>1, <1>2, <2>1, AnsweredFits
  <2> QED BY <1>1, <1>5, <2>2, TabChanges
<1> QED BY <1>3, <1>4, <1>5 DEF RefreshTokens, InFlight

-----------------------------------------------------------------------------
(* One lemma for each action of a tab. *)

\* A step of a tab changes no row.
LEMMA TabsKeepRows ==
    ASSUME IInv, UNCHANGED <<challenge, token, keys, history>>,
           budget' = budget \/ Spend("faults")
    PROVE  RowInv' /\ RowTypes'
<1>1. RowInv /\ budget \in BudgetType
  BY DEF IInv, RowInv, RowTypes
<1>2. /\ budget' \in BudgetType
      /\ budget'.tokens = budget.tokens /\ budget'.challenges = budget.challenges
  BY <1>1, Spent
<1> QED BY <1>1, <1>2, RowsRest DEF RowInv

LEMMA TabIs ==
    ASSUME IInv, NEW b \in Tabs
    PROVE  /\ TabFits(tab[b], Len(token)) /\ TabHolds(tab[b], Len(token))
           /\ tab[b] \in TabType /\ tab \in [Tabs -> TabType]
           /\ request \in [Slots -> RequestType] /\ stored \in 0..Len(token) /\ Len(token) \in Nat
           /\ None \in 0..Len(token) /\ tab[b].pair \in Nat
BY Sizes DEF IInv, RowInv, TabInv, TabsFit, RequestsFit, TabFits, TabHolds, None, TabType

LEMMA ProactiveKeeps == ASSUME IInv, NEW b \in Tabs, ProactiveRefresh(b) PROVE IInv'
<1>1. UNCHANGED <<challenge, token, keys, stored, history, budget>>
  BY DEF ProactiveRefresh
<1>2. RowInv' /\ RowTypes'
  BY <1>1, TabsKeepRows
<1>3. PICK t : t = [tab[b] EXCEPT !.timer = FALSE]
  OBVIOUS
<1>4. /\ t \in TabType /\ t.pair = tab[b].pair /\ t.sent = tab[b].sent
      /\ t.status = tab[b].status /\ t.inflight = tab[b].inflight
  BY <1>3, TabIs DEF TabType
<1>5. TabHolds(t, Len(token))
  BY <1>4, TabIs DEF TabHolds
<1>6. RefreshTokens(b, t)
  BY <1>3 DEF ProactiveRefresh
<1> QED BY <1>1, <1>2, <1>4, <1>5, <1>6, RefreshKeepsTabs DEF IInv

LEMMA TryAgainKeeps == ASSUME IInv, NEW b \in Tabs, TryAgain(b) PROVE IInv'
<1>1. UNCHANGED <<challenge, token, keys, stored, history, budget>> /\ RefreshTokens(b, tab[b])
  BY DEF TryAgain
<1>2. RowInv' /\ RowTypes'
  BY <1>1, TabsKeepRows
<1> QED BY <1>1, <1>2, TabIs, RefreshKeepsTabs DEF IInv

LEMMA ForceLogoutKeeps == ASSUME IInv, NEW b \in Tabs, ForceLogout(b) PROVE IInv'
<1>1. UNCHANGED <<challenge, token, keys, history, budget>> /\ stored' = None
  BY DEF ForceLogout
<1>2. RowInv' /\ RowTypes'
  BY <1>1, TabsKeepRows
<1>3. PICK u : u = SetStatus(ClearTokens(tab[b]), "reauth-required")
  OBVIOUS
<1>4. /\ u \in TabType /\ u.pair = None /\ u.sent = tab[b].sent /\ u.status = "reauth-required"
      /\ u.inflight = tab[b].inflight /\ u.call = tab[b].call
  <2>1. PICK v : v = [tab[b] EXCEPT !.pair = None, !.status = "unauthenticated", !.timer = FALSE]
    OBVIOUS
  <2>2. /\ v \in TabType /\ v.pair = None /\ v.sent = tab[b].sent
        /\ v.inflight = tab[b].inflight /\ v.call = tab[b].call
    BY <2>1, TabIs DEF TabType, Statuses, None
  <2>3. u = [v EXCEPT !.status = "reauth-required"]
    BY <1>3, <2>1 DEF SetStatus, ClearTokens
  <2> QED BY <2>2, <2>3 DEF TabType, Statuses
<1>5. TabFits(u, Len(token))
  BY <1>4, TabIs DEF TabFits, TabHolds, Waiting
<1>6. tab' = [tab EXCEPT ![b] = u] /\ stored' \in 0..Len(token)
  BY <1>1, <1>3, TabIs DEF ForceLogout
<1>7. CASE tab[b].pair # None /\ Send("logout", b, tab[b].pair)
  <2>1. "logout" \in Kinds /\ tab[b].pair \in Nat /\ tab[b].pair \in 1..Len(token)
    BY <1>7, TabIs DEF Kinds, TabHolds, None
  <2> QED BY <1>1, <1>2, <1>4, <1>5, <1>6, <1>7, <2>1, SendKeepsTabs DEF IInv
<1>8. CASE UNCHANGED request
  BY <1>1, <1>2, <1>4, <1>5, <1>6, <1>8, TabChanges DEF IInv
<1> QED BY <1>7, <1>8 DEF ForceLogout

LEMMA DismissKeeps == ASSUME IInv, NEW b \in Tabs, DismissReauth(b) PROVE IInv'
<1>1. UNCHANGED <<challenge, token, keys, request, stored, history, budget>>
  BY DEF DismissReauth
<1>2. RowInv' /\ RowTypes'
  BY <1>1, TabsKeepRows
<1>3. PICK w : w = IF tab[b].pair # None THEN "authenticated" ELSE "unauthenticated"
  OBVIOUS
<1>4. PICK u : u = [tab[b] EXCEPT !.status = w]
  OBVIOUS
<1>5. /\ u \in TabType /\ u.pair = tab[b].pair /\ u.sent = tab[b].sent /\ u.status = w
      /\ u.inflight = tab[b].inflight /\ u.call = tab[b].call
  BY <1>3, <1>4, TabIs DEF TabType, Statuses
<1>6. TabFits(u, Len(token))
  BY <1>3, <1>5, TabIs DEF TabFits, TabHolds, Waiting
<1>7. tab' = [tab EXCEPT ![b] = u]
  BY <1>3, <1>4 DEF DismissReauth, SetStatus
<1> QED BY <1>1, <1>2, <1>5, <1>6, <1>7, TabIs, TabChanges DEF IInv

LEMMA ReloadKeeps == ASSUME IInv, NEW b \in Tabs, Reload(b) PROVE IInv'
<1>1. UNCHANGED <<challenge, token, keys, stored, history>> /\ Spend("faults")
  BY DEF Reload
<1>2. RowInv' /\ RowTypes'
  BY <1>1, TabsKeepRows
<1>3. PICK u : u = IF stored = None THEN NewTab ELSE [SetTokens(NewTab, stored) EXCEPT !.timer = FALSE]
  OBVIOUS
<1>4. TabFits(u, Len(token)) /\ u \in TabType
  <2>1. CASE stored = None
    BY <1>3, <2>1, TabIs, NewTabFits DEF TabFits, TabHolds
  <2>2. CASE stored # None
    <3>1. stored \in 1..Len(token) /\ Len(token) \in Nat
      BY <2>2, TabIs DEF None
    <3>2. TabFits(NewTab, Len(token)) /\ NewTab \in TabType /\ NewTab.sent \in 0..Len(token)
      BY <3>1, NewTabFits DEF TabFits, TabHolds
    <3>3. PICK v : v = SetTokens(NewTab, stored)
      OBVIOUS
    <3>4. TabHolds(v, Len(token)) /\ v.call = "idle" /\ v \in TabType
      BY <3>1, <3>2, <3>3, SetTokensHolds DEF NewTab, TabHolds
    <3>5. u = [v EXCEPT !.timer = FALSE]
      BY <1>3, <2>2, <3>3
    <3>6. /\ u \in TabType /\ u.pair = v.pair /\ u.sent = v.sent /\ u.status = v.status
          /\ u.inflight = v.inflight /\ u.call = v.call
      BY <3>4, <3>5 DEF TabType
    <3> QED BY <3>4, <3>6 DEF TabFits, TabHolds, Waiting
  <2> QED BY <2>1, <2>2
<1>5. tab' = [tab EXCEPT ![b] = u]
  BY <1>3 DEF Reload
<1>6. /\ tab' \in [Tabs -> TabType] /\ tab'[b] = u
      /\ \A d \in Tabs : d # b => tab'[d] = tab[d]
  BY <1>4, <1>5, TabIs
<1>7. ASSUME NEW s \in Slots
      PROVE  /\ request'[s] \in RequestType
             /\ request'[s] = request[s] \/ RequestFits(request'[s], Len(token'), Len(challenge'))
             /\ \A d \in Tabs : Refreshes(s, d)' => d # b /\ Refreshes(s, d)
  <2>1. RequestFits(request[s], Len(token), Len(challenge)) /\ request[s] \in RequestType
    BY DEF IInv, TabInv, RequestsFit
  <2>2. CASE request[s].from = b
    <3>1. request'[s] = [request[s] EXCEPT !.from = None]
      BY <2>2 DEF Reload
    <3>2. /\ request'[s] \in RequestType /\ request'[s].from = None
          /\ request'[s].kind = request[s].kind /\ request'[s].arg = request[s].arg
          /\ request'[s].seen = request[s].seen
      BY <2>1, <3>1 DEF RequestType
    <3> QED BY <1>1, <2>1, <3>2, Constants DEF RequestFits, Refreshes
  <2>3. CASE request[s].from # b
    <3>1. request'[s] = request[s]
      BY <2>3 DEF Reload
    <3> QED BY <2>1, <2>3, <3>1 DEF Refreshes
  <2> QED BY <2>2, <2>3
<1>8. request' \in [Slots -> RequestType]
  BY <1>7 DEF Reload
<1>9. OneFlight /\ \A d \in Tabs : \A s \in Slots :
          Refreshes(s, d)' => Refreshes(s, d) /\ (tab[d].inflight => tab'[d].inflight)
  BY <1>6, <1>7 DEF IInv, TabInv
<1>10. OneFlight'
  BY <1>9, SameFlights
<1>11. Len(token') >= Len(token) /\ Len(challenge') >= Len(challenge)
  BY <1>1, Sizes DEF IInv, RowInv
<1>12. \A d \in Tabs : tab'[d] = tab[d] \/ TabFits(tab'[d], Len(token'))
  BY <1>1, <1>4, <1>6
<1> QED BY <1>1, <1>2, <1>6, <1>7, <1>8, <1>10, <1>11, <1>12, TabsKept DEF IInv

LEMMA CallKeeps == ASSUME IInv, NEW b \in Tabs, StartCall(b) \/ Reply(b) PROVE IInv'
<1>1. UNCHANGED <<challenge, token, keys, stored, history, budget>>
  BY DEF StartCall, Reply
<1>2. RowInv' /\ RowTypes'
  BY <1>1, TabsKeepRows
<1>3. ASSUME NEW w \in {"waits first", "waits again"}, RefreshTokens(b, [tab[b] EXCEPT !.call = w])
      PROVE  IInv'
  <2>1. PICK t : t = [tab[b] EXCEPT !.call = w]
    OBVIOUS
  <2>2. /\ t \in TabType /\ t.pair = tab[b].pair /\ t.sent = tab[b].sent
        /\ t.status = tab[b].status /\ t.inflight = tab[b].inflight
    BY <2>1, TabIs DEF TabType, CallSteps
  <2>3. TabHolds(t, Len(token))
    BY <2>2, TabIs DEF TabHolds
  <2> QED BY <1>1, <1>2, <1>3, <2>1, <2>2, <2>3, RefreshKeepsTabs DEF IInv
<1>4. ASSUME NEW c \in {"sent", "idle"}, NEW i \in {tab[b].pair, None},
             tab' = [tab EXCEPT ![b].call = c, ![b].sent = i], UNCHANGED request
      PROVE  IInv'
  <2>1. PICK u : u = [tab[b] EXCEPT !.call = c, !.sent = i]
    OBVIOUS
  <2>2. i \in 0..Len(token) /\ i \in Nat
    BY TabIs DEF TabHolds, None
  <2>3. /\ u \in TabType /\ u.pair = tab[b].pair /\ u.sent = i /\ u.status = tab[b].status
        /\ u.inflight = tab[b].inflight /\ u.call = c
    BY <2>1, <2>2, TabIs DEF TabType, CallSteps
  <2>4. TabFits(u, Len(token))
    BY <2>2, <2>3, TabIs DEF TabFits, TabHolds, Waiting
  <2>5. tab' = [tab EXCEPT ![b] = u]
    BY <1>4, <2>1, TabIs
  <2> QED BY <1>1, <1>2, <1>4, <2>3, <2>4, <2>5, TabIs, TabChanges DEF IInv
<1>5. CASE StartCall(b)
  BY <1>3, <1>4, <1>5 DEF StartCall
<1>6. CASE Reply(b)
  BY <1>3, <1>4, <1>6 DEF Reply
<1> QED BY <1>5, <1>6

\* The sign-in page sends a request and leaves the tab as it is.
LEMMA SignInKeeps ==
    ASSUME IInv, NEW b \in Tabs,
           RequestChallenge(b) \/ \E c \in UsableChallenges : SubmitSignature(b, c)
    PROVE  IInv'
<1>1. UNCHANGED <<challenge, token, keys, tab, stored, history, budget>>
  BY DEF RequestChallenge, SubmitSignature
<1>2. RowInv' /\ RowTypes'
  BY <1>1, TabsKeepRows
<1>3. PICK kind \in {"challenge", "verify"}, arg \in Nat :
          Send(kind, b, arg) /\ (kind = "verify" => arg \in 1..Len(challenge))
  <2>1. CASE RequestChallenge(b)
    BY <2>1 DEF RequestChallenge, None
  <2>2. ASSUME NEW c \in UsableChallenges, SubmitSignature(b, c)
        PROVE  Send("verify", b, c) /\ c \in Nat /\ c \in 1..Len(challenge)
    BY <2>2, Sizes DEF SubmitSignature, UsableChallenges, IInv, RowInv
  <2> QED BY <2>1, <2>2
<1>4. kind \in Kinds /\ kind \notin {"refresh", "logout"}
  BY DEF Kinds
<1>5. tab' = [tab EXCEPT ![b] = tab[b]] /\ stored' \in 0..Len(token)
  BY <1>1, TabIs
<1> QED BY <1>1, <1>2, <1>3, <1>4, <1>5, TabIs, SendKeepsTabs DEF IInv

LEMMA LoseAnswerKeeps == ASSUME IInv, NEW s \in Slots, LoseAnswer(s) PROVE IInv'
<1>1. UNCHANGED <<challenge, token, keys, stored, history>> /\ Spend("faults")
  BY DEF LoseAnswer
<1>2. RowInv' /\ RowTypes' /\ OneFlight /\ request \in [Slots -> RequestType]
      /\ RequestFits(request[s], Len(token), Len(challenge)) /\ request[s] \in RequestType
  BY <1>1, TabsKeepRows DEF IInv, TabInv, RequestsFit
<1>3. PICK b \in Tabs : b = request[s].from /\ request[s].kind = "refresh"
  BY <1>2 DEF LoseAnswer, RequestType
<1>4. PICK u : u = Answered(tab[b], None)
  OBVIOUS
<1>5. TabFits(u, Len(token)) /\ u \in TabType
  BY <1>4, TabIs, AnsweredFits DEF TabFits, TabHolds
<1>6. PICK q : q = [request[s] EXCEPT !.from = None]
  OBVIOUS
<1>7. /\ q \in RequestType /\ q.from = None /\ q.kind = request[s].kind /\ q.arg = request[s].arg
      /\ q.seen = request[s].seen
  BY <1>2, <1>6 DEF RequestType
<1>8. RequestFits(q, Len(token), Len(challenge))
  BY <1>2, <1>7 DEF RequestFits
<1>9. /\ tab' \in [Tabs -> TabType] /\ tab'[b] = u
      /\ \A d \in Tabs : d # b => tab'[d] = tab[d]
  BY <1>3, <1>4, <1>5, TabIs DEF LoseAnswer
<1>10. /\ request' \in [Slots -> RequestType] /\ request'[s] = q
       /\ \A r \in Slots : r # s => request'[r] = request[r]
  BY <1>2, <1>6, <1>7 DEF LoseAnswer
<1>11. \A r \in Slots : Refreshes(r, b) => r = s
  BY <1>2, <1>3 DEF OneFlight, Refreshes
<1>12. \A d \in Tabs : \A r \in Slots :
           Refreshes(r, d)' => Refreshes(r, d) /\ (tab[d].inflight => tab'[d].inflight)
  BY <1>7, <1>9, <1>10, <1>11, Constants DEF Refreshes
<1>13. OneFlight'
  BY <1>2, <1>12, SameFlights
<1>14. Len(token') >= Len(token) /\ Len(challenge') >= Len(challenge)
  BY <1>1, Sizes DEF IInv, RowInv
<1> QED BY <1>1, <1>2, <1>5, <1>8, <1>9, <1>10, <1>13, <1>14, TabsKept DEF IInv

-----------------------------------------------------------------------------
(* One lemma for each step of the server. *)

LEMMA RespondKeepsTabs ==
    ASSUME IInv, RowTypes', Len(token') >= Len(token), Len(challenge') >= Len(challenge),
           NEW s \in Slots, NEW i \in 0..Len(token'), Respond(s, i)
    PROVE  TabInv'
<1>1. PICK n : n = Len(token')
  OBVIOUS
<1>2. PICK b : b = request[s].from
  OBVIOUS
<1>3. /\ n \in Nat /\ Len(token) \in Nat /\ Len(token) <= n /\ i \in 0..n
      /\ OneFlight /\ request \in [Slots -> RequestType] /\ request[s] \in RequestType
      /\ tab \in [Tabs -> TabType] /\ b \in Tabs \cup {None}
  <2>1. n \in Nat
    BY <1>1, LenProperties DEF RowTypes
  <2> QED BY <1>1, <1>2, <2>1, Sizes DEF IInv, RowInv, TabInv, TabsFit, RequestsFit, RequestType
<1>4. NoRequest \in RequestType /\ NoRequest.kind = "none" /\ NoRequest.from = None
      /\ \A k, m : RequestFits(NoRequest, k, m)
  BY DEF NoRequest, RequestType, RequestFits, Kinds, Pcs, None
<1>5. /\ request' \in [Slots -> RequestType] /\ request'[s] = NoRequest
      /\ \A r \in Slots : r # s => request'[r] = request[r]
  BY <1>3, <1>4 DEF Respond
<1>6. ASSUME tab' \in [Tabs -> TabType], stored' = stored \/ stored' = i,
             \A d \in Tabs : \/ tab'[d] = tab[d]
                             \/ /\ d = b /\ TabFits(tab'[d], n)
                                /\ \/ request[s].kind = "refresh"
                                   \/ tab'[d].inflight = tab[d].inflight
      PROVE  TabInv'
  <2>1. \A d \in Tabs : \A r \in Slots :
            Refreshes(r, d)' => Refreshes(r, d) /\ (tab[d].inflight => tab'[d].inflight)
    <3> SUFFICES ASSUME NEW d \in Tabs, NEW r \in Slots, Refreshes(r, d)'
                 PROVE  Refreshes(r, d) /\ (tab[d].inflight => tab'[d].inflight)
      OBVIOUS
    <3>1. r # s /\ Refreshes(r, d)
      BY <1>4, <1>5 DEF Refreshes
    <3>2. ~Refreshes(s, d)
      BY <1>3, <3>1 DEF OneFlight
    <3> QED BY <1>2, <1>6, <3>1, <3>2 DEF Refreshes
  <2>2. OneFlight'
    BY <1>3, <2>1, SameFlights
  <2> QED BY <1>1, <1>3, <1>4, <1>5, <1>6, <2>2, TabsKept
<1>7. CASE UNCHANGED <<tab, stored>>
  BY <1>3, <1>6, <1>7
<1>8. CASE /\ request[s].kind = "refresh" /\ b \in Tabs
           /\ tab' = [tab EXCEPT ![b] = Answered(@, i)]
           /\ stored' = IF i # None THEN i ELSE stored
  <2>1. PICK u : u = Answered(tab[b], i)
    OBVIOUS
  <2>2. tab[b].pair \in 0..n /\ tab[b].sent \in 0..n /\ tab[b] \in TabType
    BY <1>3, <1>8, TabIs DEF TabHolds
  <2>3. TabFits(u, n) /\ u \in TabType
    BY <1>3, <2>1, <2>2, AnsweredFits DEF TabFits, TabHolds
  <2>4. tab' = [tab EXCEPT ![b] = u]
    BY <1>8, <2>1
  <2> QED BY <1>3, <1>6, <1>8, <2>3, <2>4
<1>9. CASE /\ request[s].kind = "verify" /\ i # None /\ b \in Tabs
           /\ tab' = [tab EXCEPT ![b] = SetTokens(@, i)] /\ stored' = i
  <2>1. PICK u : u = SetTokens(tab[b], i)
    OBVIOUS
  <2>2. tab[b].sent \in 0..n /\ tab[b] \in TabType /\ TabFits(tab[b], Len(token)) /\ i \in 1..n
    BY <1>3, <1>9, TabIs DEF TabHolds, None
  <2>3. TabHolds(u, n) /\ u.inflight = tab[b].inflight /\ u.call = tab[b].call
    BY <1>3, <2>1, <2>2, SetTokensHolds
  <2>4. TabFits(u, n) /\ u \in TabType
    BY <2>2, <2>3 DEF TabFits, TabHolds, Waiting
  <2>5. tab' = [tab EXCEPT ![b] = u]
    BY <1>9, <2>1
  <2> QED BY <1>3, <1>6, <1>9, <2>3, <2>4, <2>5
<1> QED BY <1>2, <1>3, <1>7, <1>8, <1>9 DEF Respond

LEMMA GotoKeepsTabs ==
    ASSUME IInv, RowTypes', UNCHANGED <<challenge, token, tab, stored>>,
           NEW s \in Slots, NEW pc \in Pcs, Goto(s, pc)
    PROVE  TabInv'
<1>1. /\ request \in [Slots -> RequestType] /\ request[s] \in RequestType /\ OneFlight
      /\ RequestFits(request[s], Len(token), Len(challenge)) /\ tab \in [Tabs -> TabType]
      /\ Len(token) \in Nat /\ Len(challenge) \in Nat
  BY Sizes DEF IInv, RowInv, TabInv, TabsFit, RequestsFit
<1>2. PICK q : q = [request[s] EXCEPT !.pc = pc]
  OBVIOUS
<1>3. /\ q \in RequestType /\ q.kind = request[s].kind /\ q.from = request[s].from
      /\ q.arg = request[s].arg /\ q.seen = request[s].seen
  BY <1>1, <1>2 DEF RequestType
<1>4. request' = [request EXCEPT ![s] = q]
  BY <1>2 DEF Goto
<1>5. /\ request' \in [Slots -> RequestType] /\ request'[s] = q
      /\ \A r \in Slots : r # s => request'[r] = request[r]
  BY <1>1, <1>3, <1>4
<1>6. RequestFits(q, Len(token), Len(challenge))
  BY <1>1, <1>3 DEF RequestFits
<1>7. OneFlight'
  BY <1>1, <1>3, <1>5, SameFlights DEF Refreshes
<1> QED BY <1>1, <1>5, <1>6, <1>7, TabsKept

LEMMA LookUpsKeep ==
    ASSUME IInv, NEW s \in Slots,
           FindChallenge(s) \/ LookUpChallenge(s) \/ LookUpToken(s) \/ RevalidateToken(s)
    PROVE  IInv'
<1>1. UNCHANGED <<challenge, token, keys, history, budget>>
  BY DEF FindChallenge, LookUpChallenge, LookUpToken, RevalidateToken
<1>2. RowInv' /\ RowTypes'
  BY <1>1, TabsKeepRows
<1>3. Len(token') >= Len(token) /\ Len(challenge') >= Len(challenge) /\ None \in 0..Len(token')
  BY <1>1, Sizes DEF IInv, RowInv, None
<1>4. CASE Respond(s, None)
  BY <1>2, <1>3, <1>4, RespondKeepsTabs DEF IInv
<1>5. ASSUME NEW pc \in {"txn", "commit", "reuse"}, Goto(s, pc), UNCHANGED <<tab, stored>> PROVE IInv'
  <2>1. pc \in Pcs
    BY DEF Pcs
  <2> QED BY <1>1, <1>2, <1>5, <2>1, GotoKeepsTabs DEF IInv
<1>6. CASE RevalidateToken(s) /\ ~Respond(s, None)
  <2>1. Live(request[s].arg) /\ UNCHANGED <<tab, stored>>
        /\ request' = [request EXCEPT ![s].pc = "commit", ![s].seen = ~Live(request[s].arg)]
    BY <1>6 DEF RevalidateToken, StillValid
  <2>2. ~request[s].seen /\ request[s] \in RequestType /\ request \in [Slots -> RequestType]
    BY Asked DEF IInv, TabInv, RequestsFit
  <2>3. request'[s] = [request[s] EXCEPT !.pc = "commit", !.seen = FALSE]
    BY <2>1, <2>2
  <2>4. request'[s] = [request[s] EXCEPT !.pc = "commit"]
    BY <2>2, <2>3 DEF RequestType
  <2>5. Goto(s, "commit")
    BY <2>1, <2>2, <2>4 DEF Goto
  <2> QED BY <1>5, <2>1, <2>5
<1> QED BY <1>4, <1>5, <1>6 DEF FindChallenge, LookUpChallenge, LookUpToken

LEMMA WritesKeep ==
    ASSUME IInv, NEW s \in Slots,
           CreateChallenge(s) \/ UseChallenge(s) \/ DetectReuse(s) \/ RotateToken(s)
    PROVE  IInv'
<1>1. /\ RowInv' /\ RowTypes'
      /\ Len(token') >= Len(token) /\ Len(challenge') >= Len(challenge)
  <2>1. /\ Len(token) \in Nat /\ Len(challenge) \in Nat
        /\ (UNCHANGED token => Len(token') >= Len(token))
        /\ (UNCHANGED challenge => Len(challenge') >= Len(challenge))
    BY Sizes DEF IInv, RowInv
  <2>2. CASE CreateChallenge(s)
    BY <2>1, <2>2, CreateKeepsRows DEF CreateChallenge, RowInv
  <2>3. CASE UseChallenge(s)
    BY <2>1, <2>3, UseKeepsRows DEF RowInv
  <2>4. CASE DetectReuse(s)
    BY <2>1, <2>4, ReuseKeepsRows DEF DetectReuse, RowInv
  <2>5. CASE RotateToken(s)
    BY <2>1, <2>5, RotateKeepsRows DEF RotateToken, RowInv
  <2> QED BY <2>2, <2>3, <2>4, <2>5
<1>2. Len(token) \in Nat /\ Len(token') \in Nat /\ None \in 0..Len(token') /\ token \in Seq(TokenType)
  <2>1. token \in Seq(TokenType) /\ token' \in Seq(TokenType)
    BY <1>1 DEF IInv, RowInv, RowTypes
  <2> QED BY <2>1, LenProperties DEF None
<1>3. \E i \in 0..Len(token') : Respond(s, i)
  <2>1. CASE Respond(s, None)
    BY <1>2, <2>1
  <2>2. ASSUME NEW t \in Seq(TokenType), NEW f \in Nat, NEW p \in Nat, Len(t) = Len(token),
               token' = Append(t, NewToken(f, p)), Respond(s, Len(token) + 1)
        PROVE  \E i \in 0..Len(token') : Respond(s, i)
    <3>1. NewToken(f, p) \in TokenType
      BY NewTokenIs DEF IInv, RowInv
    <3>2. Len(token') = Len(token) + 1
      BY <2>2, <3>1, RowAdded
    <3> QED BY <1>2, <2>2, <3>2
  <2>3. CASE UseChallenge(s) /\ ~Respond(s, None)
    <3>1. request[s].arg \in DOMAIN challenge /\ request[s].arg \in Nat /\ None \in Nat
      BY <2>3, Asked DEF UseChallenge, AtStep, RequestType, None
    <3>2. token' = Append(token, NewToken(request[s].arg, None)) /\ Respond(s, Len(token) + 1)
      BY <2>3 DEF UseChallenge
    <3> QED BY <1>2, <2>2, <3>1, <3>2
  <2>4. CASE RotateToken(s) /\ ~Respond(s, None)
    <3>1. PICK i \in DOMAIN token : i = request[s].arg
      BY <2>4, Asked DEF RotateToken, AtStep
    <3>2. i \in Nat /\ token[i] \in TokenType /\ token[i].family \in Nat
      BY <3>1, Sizes DEF IInv, RowInv, TokenType
    <3>3. PICK u : u = [token[i] EXCEPT !.revoked = TRUE]
      OBVIOUS
    <3>4. u \in TokenType
      BY <3>2, <3>3 DEF TokenType
    <3>5. PICK t : t = [token EXCEPT ![i] = u]
      OBVIOUS
    <3>6. t \in Seq(TokenType) /\ Len(t) = Len(token)
      BY <1>2, <3>4, <3>5, RowChanged
    <3>7. token' = Append(t, NewToken(token[i].family, i)) /\ Respond(s, Len(token) + 1)
      BY <2>4, <3>1, <3>3, <3>5 DEF RotateToken
    <3> QED BY <2>2, <3>2, <3>6, <3>7
  <2> QED BY <2>1, <2>3, <2>4 DEF CreateChallenge, DetectReuse
<1> QED BY <1>1, <1>3, RespondKeepsTabs DEF IInv

LEMMA LogoutKeeps == ASSUME IInv, NEW s \in Slots, RevokeRefreshToken(s) PROVE IInv'
<1>1. RowInv' /\ RowTypes' /\ Len(token') = Len(token) /\ UNCHANGED challenge
  BY RevokeKeepsRows DEF RowInv, RevokeRefreshToken
<1>2. /\ Len(token') >= Len(token) /\ Len(challenge') >= Len(challenge) /\ None \in 0..Len(token')
  BY <1>1, Sizes DEF IInv, RowInv, None
<1>3. CASE Respond(s, None)
  BY <1>1, <1>2, <1>3, RespondKeepsTabs DEF IInv
<1>4. CASE Goto(s, "commit") /\ UNCHANGED <<token, tab, stored>>
  <2>1. "commit" \in Pcs
    BY DEF Pcs
  <2> QED BY <1>1, <1>4, <2>1, GotoKeepsTabs DEF IInv
<1> QED BY <1>3, <1>4 DEF RevokeRefreshToken

\* A step that leaves the tabs and the requests alone.
LEMMA RestKeeps ==
    ASSUME IInv,
           \/ \E c \in DOMAIN challenge : PruneChallenge(c)
           \/ \E i \in DOMAIN token : Age(i)
           \/ AddKey \/ RemoveKey \/ UNCHANGED vars
    PROVE  IInv'
<1>1. RowTypes /\ RowInv /\ OneFlight /\ tab \in [Tabs -> TabType] /\ request \in [Slots -> RequestType]
  BY DEF IInv, RowInv, TabInv, TabsFit, RequestsFit
<1>2. UNCHANGED <<request, tab, stored>>
  BY DEF PruneChallenge, Age, AddKey, RemoveKey, vars
<1>3. RowInv' /\ Len(token') = Len(token) /\ Len(challenge') = Len(challenge)
  <2>1. ASSUME NEW c \in DOMAIN challenge, PruneChallenge(c)
        PROVE  RowInv' /\ Len(token') = Len(token) /\ Len(challenge') = Len(challenge)
    BY <2>1, PruneKeepsRows DEF PruneChallenge
  <2>2. ASSUME NEW i \in DOMAIN token, Age(i)
        PROVE  RowInv' /\ Len(token') = Len(token) /\ Len(challenge') = Len(challenge)
    BY <2>2, AgeKeepsRows DEF Age
  <2>3. CASE AddKey \/ RemoveKey
    BY <1>1, <2>3, KeysKeepRows DEF AddKey, RemoveKey
  <2>4. CASE UNCHANGED vars
    BY <1>1, <2>4, RowsRest DEF vars, RowTypes
  <2> QED BY <2>1, <2>2, <2>3, <2>4
<1>4. OneFlight'
  BY <1>1, <1>2, SameFlights DEF Refreshes
<1>5. Len(token') >= Len(token) /\ Len(challenge') >= Len(challenge)
  BY <1>1, <1>3, Sizes
<1>6. TabInv'
  BY <1>1, <1>2, <1>3, <1>4, <1>5, TabsKept DEF RowInv
<1> QED BY <1>3, <1>6 DEF IInv

-----------------------------------------------------------------------------
(* The invariant is inductive. *)

LEMMA InitInv == ASSUME Init PROVE IInv
<1>1. /\ challenge = <<>> /\ token = <<>> /\ keys = [set |-> {1}, current |-> 1]
      /\ request = [s \in Slots |-> NoRequest] /\ tab = [b \in Tabs |-> NewTab] /\ stored = None
      /\ history = [raced |-> {}, reused |-> {}] /\ budget \in BudgetType
  BY Constants DEF Init
<1>2. DOMAIN token = {} /\ DOMAIN challenge = {} /\ Len(token) = 0 /\ Len(challenge) = 0
      /\ token \in Seq(TokenType) /\ challenge \in Seq(ChallengeType)
  BY <1>1, EmptySeq
<1>3. RowTypes
  <2>1. keys \in KeysType /\ keys.current \in keys.set
    BY <1>1 DEF KeysType
  <2>2. history \in [raced : SUBSET Nat, reused : SUBSET Nat]
    BY <1>1
  <2>3. budget.tokens \in Nat /\ budget.challenges \in Nat
    BY <1>1 DEF BudgetType
  <2> QED BY <1>1, <1>2, <2>1, <2>2, <2>3 DEF RowTypes
<1>4. FamiliesBegin /\ FamiliesLive /\ RotationKeepsSessions
  BY <1>1, <1>2 DEF FamiliesBegin, FamiliesLive, RotationKeepsSessions
<1>5. NewTab \in TabType /\ TabFits(NewTab, 0)
  BY NewTabFits DEF TabFits, TabHolds
<1>6. TabsFit
  BY <1>1, <1>2, <1>5 DEF TabsFit
<1>7. NoRequest \in RequestType /\ NoRequest.kind = "none" /\ RequestFits(NoRequest, 0, 0)
  BY DEF NoRequest, RequestType, RequestFits, Kinds, Pcs, None
<1>8. RequestsFit /\ OneFlight
  BY <1>1, <1>2, <1>7 DEF RequestsFit, OneFlight, Refreshes
<1>9. stored \in 0..Len(token)
  BY <1>1, <1>2 DEF None
<1> QED BY <1>3, <1>4, <1>6, <1>8, <1>9 DEF IInv, RowInv, TabInv

LEMMA NextInv == ASSUME IInv, [Next]_vars PROVE IInv'
<1>1. ASSUME NEW s \in Slots, Serve(s) PROVE IInv'
  BY <1>1, LookUpsKeep, WritesKeep, LogoutKeeps DEF Serve
<1>2. ASSUME NEW s \in Slots, LoseAnswer(s) PROVE IInv'
  BY <1>2, LoseAnswerKeeps
<1>3. ASSUME NEW b \in budget.tabs,
             \/ RequestChallenge(b) \/ ProactiveRefresh(b) \/ TryAgain(b) \/ ForceLogout(b)
             \/ DismissReauth(b) \/ Reload(b) \/ StartCall(b) \/ Reply(b)
             \/ \E c \in UsableChallenges : SubmitSignature(b, c)
      PROVE  IInv'
  <2>1. b \in Tabs
    BY DEF IInv, RowInv, RowTypes, BudgetType
  <2> QED BY <1>3, <2>1, SignInKeeps, ProactiveKeeps, TryAgainKeeps, ForceLogoutKeeps, DismissKeeps,
             ReloadKeeps, CallKeeps
<1>4. CASE \/ \E c \in DOMAIN challenge : PruneChallenge(c)
           \/ \E i \in DOMAIN token : Age(i)
           \/ AddKey \/ RemoveKey \/ UNCHANGED vars
  BY <1>4, RestKeeps
<1> QED BY <1>1, <1>2, <1>3, <1>4 DEF Next, Quiet

-----------------------------------------------------------------------------
(* What the runs check, for every value of the constants. *)

LEMMA AtMostOne == ASSUME NEW S, \A x, y \in S : x = y PROVE Cardinality(S) <= 1
<1>1. CASE S = {}
  BY <1>1, FS_EmptySet
<1>2. ASSUME NEW x \in S PROVE Cardinality(S) <= 1
  <2>1. S = {x}
    OBVIOUS
  <2> QED BY <2>1, FS_Singleton
<1> QED BY <1>1, <1>2

\* Rows, tabs and requests have the values the code gives them; a signed challenge opens one
\* session however many requests present it at a time (verifyChallenge); the status of a tab is
\* what it holds, and no call waits for a refresh nobody runs; concurrent callers of
\* refreshTokens share one refresh.
THEOREM SessionsAreSafe == Spec => []Safe
<1>1. IInv => Safe
  <2> SUFFICES ASSUME IInv PROVE Safe
    OBVIOUS
  <2>1. /\ RowTypes /\ FamiliesBegin /\ TabsFit /\ RequestsFit /\ OneFlight
        /\ stored \in 0..Len(token)
    BY DEF IInv, RowInv, TabInv
  <2>2. TypeOK
    <3>1. /\ Len(challenge) <= budget.challenges /\ Len(token) <= budget.tokens
          /\ keys.current \in keys.set
      BY <2>1 DEF RowTypes
    <3>2. \A i \in DOMAIN token : /\ token[i].family \in DOMAIN challenge
                                  /\ token[i].age \in Fresh..Expired /\ token[i].kid \in {1, 2}
      BY <2>1, Sizes DEF FamiliesBegin, TokenType
    <3>3. \A s \in Slots : /\ request[s].kind \in Kinds /\ request[s].from \in Tabs \cup {None}
                           /\ request[s].pc \in Pcs
      BY <2>1 DEF RequestsFit, RequestType
    <3>4. \A b \in Tabs : /\ tab[b].pair \in 0..Len(token) /\ tab[b].sent \in 0..Len(token)
                          /\ tab[b].status \in Statuses
      BY <2>1 DEF TabsFit, TabFits, TabHolds, TabType
    <3> QED BY <2>1, <3>1, <3>2, <3>3, <3>4 DEF TypeOK, Rows, None, Kinds, Pcs, Statuses
  <2>3. ChallengeOpensOneSession
    <3>1. ASSUME NEW c \in DOMAIN challenge
          PROVE  /\ FamilyOf(c) # {} => challenge[c].used
                 /\ Cardinality({i \in FamilyOf(c) : token[i].parent = None}) <= 1
      <4>1. \A x, y \in {i \in FamilyOf(c) : token[i].parent = None} : x = y
        BY <2>1 DEF FamilyOf, FamiliesBegin
      <4> QED BY <2>1, <4>1, AtMostOne DEF FamilyOf, FamiliesBegin
    <3> QED BY <3>1 DEF ChallengeOpensOneSession
  <2>4. StatusIsTrue
    BY <2>1 DEF StatusIsTrue, TabsFit, TabFits, TabHolds
  <2>5. SingleFlight
    <3>1. ASSUME NEW b \in Tabs
          PROVE  Cardinality({s \in Slots : request[s].kind = "refresh" /\ request[s].from = b}) <= 1
      <4>1. \A x, y \in {s \in Slots : request[s].kind = "refresh" /\ request[s].from = b} : x = y
        BY <2>1 DEF OneFlight, Refreshes
      <4> QED BY <4>1, AtMostOne
    <3> QED BY <3>1 DEF SingleFlight
  <2> QED BY <2>2, <2>3, <2>4, <2>5 DEF Safe
<1> QED BY InitInv, NextInv, <1>1, PTL DEF Spec

\* Unless two writes overlapped, a family has one live refresh token at most, and none after
\* refreshToken detected a reuse.
THEOREM FamiliesHaveOneLiveToken == Spec => []OneLiveTokenUnlessRaced
<1>1. IInv => OneLiveTokenUnlessRaced
  <2> SUFFICES ASSUME IInv, NEW f \in DOMAIN challenge \ history.raced
               PROVE  LET live == {i \in FamilyOf(f) : Live(i)}
                      IN  Cardinality(live) <= 1 /\ (f \in history.reused => live = {})
    BY DEF OneLiveTokenUnlessRaced
  <2>1. FamiliesLive
    BY DEF IInv, RowInv
  <2>2. \A x, y \in {i \in FamilyOf(f) : Live(i)} : x = y
    BY <2>1 DEF FamiliesLive, FamilyOf
  <2>3. f \in history.reused => {i \in FamilyOf(f) : Live(i)} = {}
    BY <2>1 DEF FamiliesLive, FamilyOf
  <2> QED BY <2>2, <2>3, AtMostOne
<1> QED BY InitInv, NextInv, <1>1, PTL DEF Spec

\* No access token that has not expired stops verifying at a step of the documented key rotation
\* (jwt.ts).
THEOREM RotationIsGraceful == Spec => []RotationKeepsSessions
<1>1. IInv => RotationKeepsSessions
  BY DEF IInv, RowInv
<1> QED BY InitInv, NextInv, <1>1, PTL DEF Spec
=============================================================================
