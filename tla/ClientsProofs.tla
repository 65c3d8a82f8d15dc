---------------------------- MODULE ClientsProofs ----------------------------
(***************************************************************************)
(* Proofs about the browser tab, for every value of the constants of       *)
(* MCClients: each component has its inductive invariant, and the last     *)
(* section puts them together.                                             *)
(***************************************************************************)
EXTENDS MCClients, SumsProofs, SequenceTheorems

-----------------------------------------------------------------------------
(* Sequences. *)

LEMMA NextPlace ==
    ASSUME NEW n \in Nat, NEW i \in 1 .. n, NEW j \in 1 .. n - 1, ~(j < i)
    PROVE  /\ ~(j <= i - 1) /\ j - (i - 1) \in 1 .. n - i /\ i + (j - (i - 1)) = j + 1
           /\ j + 1 \in 1 .. n /\ j + 1 # i
OBVIOUS

\* A sequence that loses a member keeps the others, and no others.
Less(s, i) == SubSeq(s, 1, i - 1) \o SubSeq(s, i + 1, Len(s))

LEMMA OneLess ==
    ASSUME NEW S, NEW s \in Seq(S), NEW i \in DOMAIN s, NEW rest, rest = Less(s, i)
    PROVE  /\ rest \in Seq(S)
           /\ \A j \in DOMAIN rest : \E k \in DOMAIN s : k # i /\ rest[j] = s[k]
           /\ \A k \in DOMAIN s : k # i => \E j \in DOMAIN rest : rest[j] = s[k]
<1> DEFINE n == Len(s)
           a == SubSeq(s, 1, i - 1)
           b == SubSeq(s, i + 1, n)
<1>1. DOMAIN s = 1 .. n /\ n \in Nat /\ i \in 1 .. n /\ \A j \in 1 .. n : s[j] \in S
  OBVIOUS
<1>2. a \in Seq(S) /\ Len(a) = i - 1 /\ \A j \in 1 .. i - 1 : a[j] = s[j]
  BY <1>1, SubSeqProperties
<1>3. b \in Seq(S) /\ Len(b) = n - i /\ \A j \in 1 .. n - i : b[j] = s[i + j]
  BY <1>1, SubSeqProperties
<1>4. rest = a \o b
  BY DEF Less
<1> HIDE DEF a, b
<1>5. /\ a \o b \in Seq(S) /\ Len(a \o b) = Len(a) + Len(b)
      /\ \A j \in 1 .. Len(a) + Len(b) :
            (a \o b)[j] = IF j <= Len(a) THEN a[j] ELSE b[j - Len(a)]
  BY Zenon, <1>2, <1>3, ConcatProperties
<1>6. /\ rest \in Seq(S) /\ Len(rest) = n - 1 /\ DOMAIN rest = 1 .. n - 1
      /\ \A j \in 1 .. n - 1 : rest[j] = IF j <= i - 1 THEN a[j] ELSE b[j - (i - 1)]
  <2>1. Len(a) + Len(b) = n - 1
    BY <1>1, <1>2, <1>3
  <2>2. /\ rest \in Seq(S) /\ Len(rest) = n - 1
        /\ \A j \in 1 .. n - 1 : rest[j] = IF j <= Len(a) THEN a[j] ELSE b[j - Len(a)]
    BY Zenon, <1>4, <1>5, <2>1
  <2>3. DOMAIN rest = 1 .. Len(rest)
    BY <2>2
  <2> QED BY Zenon, <1>2, <2>2, <2>3
<1> HIDE DEF n
<1>7. ASSUME NEW j \in 1 .. n - 1, j < i PROVE j \in 1 .. n /\ j # i /\ rest[j] = s[j]
  <2>1. j \in 1 .. i - 1 /\ j <= i - 1 /\ j \in 1 .. n /\ j # i
    BY <1>1, <1>7
  <2>2. rest[j] = a[j]
    BY Zenon, <1>6, <2>1
  <2> QED BY Zenon, <1>2, <2>1, <2>2
<1>8. ASSUME NEW j \in 1 .. n - 1, ~(j < i) PROVE j + 1 \in 1 .. n /\ j + 1 # i /\ rest[j] = s[j + 1]
  <2>1. /\ ~(j <= i - 1) /\ j - (i - 1) \in 1 .. n - i /\ i + (j - (i - 1)) = j + 1
        /\ j + 1 \in 1 .. n /\ j + 1 # i
    BY <1>1, <1>8, NextPlace
  <2>2. rest[j] = b[j - (i - 1)] /\ b[j - (i - 1)] = s[i + (j - (i - 1))]
    BY Zenon, <1>3, <1>6, <2>1
  <2> QED BY Zenon, <2>1, <2>2
<1>9. ASSUME NEW j \in 1 .. n - 1 PROVE \E k \in 1 .. n : k # i /\ rest[j] = s[k]
  BY Zenon, <1>7, <1>8
<1>10. ASSUME NEW k \in 1 .. n, k # i PROVE \E j \in 1 .. n - 1 : rest[j] = s[k]
  <2>1. \/ k \in 1 .. n - 1 /\ k < i
        \/ k - 1 \in 1 .. n - 1 /\ ~(k - 1 < i) /\ (k - 1) + 1 = k
    BY <1>1, <1>10
  <2> QED BY Zenon, <1>7, <1>8, <2>1
<1>11. \A j \in DOMAIN rest : \E k \in DOMAIN s : k # i /\ rest[j] = s[k]
  BY Zenon, <1>1, <1>6, <1>9
<1>12. \A k \in DOMAIN s : k # i => \E j \in DOMAIN rest : rest[j] = s[k]
  BY Zenon, <1>1, <1>6, <1>10
<1> QED BY Zenon, <1>6, <1>11, <1>12

LEMMA MemberIs == ASSUME NEW S, NEW s \in Seq(S), NEW i \in DOMAIN s PROVE s[i] \in S
<1>1. i \in 1 .. Len(s)
  OBVIOUS
<1> QED BY <1>1, ElementOfSeq

-----------------------------------------------------------------------------
(* The check of a username. *)

Words == {N!None, N!Free, N!Taken}
Lookups == [name : Valid, on : Networks, answer : Words]

NameTypes ==
    /\ typed \in Names /\ debounced \in Names
    /\ armed \in BOOLEAN /\ checking \in BOOLEAN /\ problem \in BOOLEAN
    /\ known \in [Names -> Words] /\ verdict \in Words
    /\ checks \in Seq(Lookups)
    /\ on \in Networks
    /\ taken \in [Networks -> SUBSET Valid]
    /\ excuses \subseteq {"late", "returned", "changed", "moved"}

\* What is shown is what is remembered of the name debounced, or a lookup of it is under way.
Judging ==
    typed = debounced /\ excuses = {} /\ ~problem =>
        IF debounced \in Valid
        THEN /\ known[debounced] # N!None => verdict = known[debounced]
             /\ known[debounced] = N!None => \E i \in DOMAIN checks : checks[i].name = debounced
        ELSE verdict = N!None

\* As long as nobody registers and the network stays, what is remembered is the contract's word.
WordIsTrue(word, name) == word \in {N!None, N!Of(name, on)}
WordsAreTrue ==
    excuses \cap {"changed", "moved"} = {} =>
        /\ \A name \in Names : WordIsTrue(known[name], name)
        /\ \A i \in DOMAIN checks : /\ checks[i].on = on
                                    /\ WordIsTrue(checks[i].answer, checks[i].name)

\* "Taken" was heard of a name that is registered somewhere.
Heard == \A i \in DOMAIN checks : checks[i].answer = N!Taken => checks[i].name \in taken[checks[i].on]

NameInv ==
    /\ NameTypes
    /\ ~armed => debounced = typed
    /\ Judging
    /\ WordsAreTrue
    /\ Heard
    /\ N!RememberedWasTrue

-----------------------------------------------------------------------------

LEMMA WordsDiffer == N!None # N!Free /\ N!None # N!Taken /\ N!Free # N!Taken
BY DEF N!None, N!Free, N!Taken

LEMMA OfIsWord == ASSUME NEW name, NEW net PROVE N!Of(name, net) \in Words
BY DEF N!Of, Words

LEMMA NameInitInv == N!NameCheckAssumption /\ N!Init => NameInv
<1> SUFFICES ASSUME N!NameCheckAssumption, N!Init PROVE NameInv
  OBVIOUS
<1>1. typed = BlankName /\ debounced = BlankName /\ BlankName \in Names \ Valid
  BY DEF N!NameCheckAssumption, N!Init
<1>2. checks = <<>> /\ checks \in Seq(Lookups) /\ DOMAIN checks = {}
  BY DEF N!Init
<1>3. taken \in [Networks -> SUBSET Valid]
  BY DEF N!NameCheckAssumption, N!Init
<1>4. known = [name \in Names |-> N!None] /\ verdict = N!None /\ excuses = {} /\ on \in Networks
  BY DEF N!Init
<1>5. NameTypes
  BY <1>1, <1>2, <1>3, <1>4 DEF N!Init, NameTypes, Words
<1> QED BY <1>1, <1>2, <1>4, <1>5, WordsDiffer
        DEF NameInv, Judging, WordsAreTrue, WordIsTrue, Heard, N!RememberedWasTrue, N!Init

LEMMA LookupIs == ASSUME NameTypes, NEW i \in DOMAIN checks PROVE checks[i] \in Lookups
<1>1. checks \in Seq(Lookups)
  BY DEF NameTypes
<1> QED BY Zenon, <1>1, MemberIs

\* The lookups without one of them.
LEMMA LookupGone ==
    ASSUME NameTypes, NEW i \in DOMAIN checks, checks' = N!RemoveAt(checks, i)
    PROVE  /\ checks' \in Seq(Lookups)
           /\ \A j \in DOMAIN checks' : \E k \in DOMAIN checks : checks'[j] = checks[k]
           /\ \A k \in DOMAIN checks : k # i => \E j \in DOMAIN checks' : checks'[j] = checks[k]
<1>1. checks' = Less(checks, i)
  BY Zenon DEF N!RemoveAt, Less
<1>2. checks \in Seq(Lookups)
  BY DEF NameTypes
<1> QED BY <1>1, <1>2, OneLess

\* A lookup more is the last one.
LEMMA LookupMore ==
    ASSUME NameTypes, NEW c \in Lookups, checks' = Append(checks, c)
    PROVE  /\ checks' \in Seq(Lookups)
           /\ \E j \in DOMAIN checks' : checks'[j] = c
           /\ \A j \in DOMAIN checks' : checks'[j] = c \/ \E k \in DOMAIN checks : checks'[j] = checks[k]
           /\ \A k \in DOMAIN checks : \E j \in DOMAIN checks' : checks'[j] = checks[k]
<1>1. checks \in Seq(Lookups)
  BY DEF NameTypes
<1> DEFINE n == Len(checks)
<1>2. /\ checks' \in Seq(Lookups) /\ DOMAIN checks = 1 .. n /\ n \in Nat /\ DOMAIN checks' = 1 .. n + 1
      /\ checks'[n + 1] = c /\ \A k \in 1 .. n : checks'[k] = checks[k]
  BY <1>1
<1> HIDE DEF n
<1>3. n + 1 \in 1 .. n + 1 /\ \A j \in 1 .. n + 1 : j = n + 1 \/ j \in 1 .. n
  BY <1>2
<1>4. \A k \in 1 .. n : k \in 1 .. n + 1
  BY <1>2
<1> QED BY Zenon, <1>2, <1>3, <1>4

\* The check of a debounced name shows what is remembered of it, or looks it up.
LEMMA CheckJudges ==
    ASSUME NameTypes, WordsAreTrue, NEW name \in Names, NEW net \in Networks, N!Check(name, net),
           UNCHANGED <<known, taken>>, Heard, on' = net,
           excuses' \cap {"changed", "moved"} = {} =>
               excuses \cap {"changed", "moved"} = {} /\ on = net
    PROVE  /\ checking' \in BOOLEAN /\ problem' \in BOOLEAN /\ verdict' \in Words
           /\ checks' \in Seq(Lookups)
           /\ ~problem' => IF name \in Valid
                           THEN /\ known[name] # N!None => verdict' = known[name]
                                /\ known[name] = N!None =>
                                      \E i \in DOMAIN checks' : checks'[i].name = name
                           ELSE verdict' = N!None
           /\ WordsAreTrue' /\ Heard'
<1>t. /\ checking \in BOOLEAN /\ problem \in BOOLEAN /\ verdict \in Words /\ N!None \in Words
      /\ known[name] \in Words /\ checks \in Seq(Lookups)
  BY DEF NameTypes, Words
<1>0. \A n \in Names : \A word : WordIsTrue(word, n) /\ on = net => WordIsTrue(word, n)'
  BY DEF WordIsTrue, N!Of
<1>1. CASE name \in Valid /\ known[name] = N!None
  <2> DEFINE c == [name |-> name, on |-> net, answer |-> N!None]
  <2>1. checking' = TRUE /\ problem' = FALSE /\ verdict' = verdict /\ checks' = Append(checks, c)
    BY <1>1 DEF N!Check
  <2>2. c \in Lookups /\ c.name = name /\ c.on = net /\ c.answer = N!None
    BY <1>1 DEF Lookups, Words
  <2> HIDE DEF c
  <2>3. /\ checks' \in Seq(Lookups)
        /\ \E j \in DOMAIN checks' : checks'[j] = c
        /\ \A j \in DOMAIN checks' : checks'[j] = c \/ \E k \in DOMAIN checks : checks'[j] = checks[k]
    BY <2>1, <2>2, LookupMore
  <2>4. WordsAreTrue'
    <3> SUFFICES ASSUME excuses' \cap {"changed", "moved"} = {}
                 PROVE  /\ \A n \in Names : WordIsTrue(known[n], n)'
                        /\ \A i \in DOMAIN checks' : /\ checks'[i].on = on'
                                                     /\ WordIsTrue(checks[i].answer, checks[i].name)'
      BY DEF WordsAreTrue
    <3>1. on = net /\ \A n \in Names : WordIsTrue(known[n], n)
      BY DEF WordsAreTrue
    <3>2. \A k \in DOMAIN checks : checks[k].on = on /\ WordIsTrue(checks[k].answer, checks[k].name)
      BY DEF WordsAreTrue
    <3>3. \A n \in Names : WordIsTrue(known[n], n)'
      BY <3>1 DEF WordIsTrue, N!Of
    <3>4. ASSUME NEW i \in DOMAIN checks'
          PROVE  checks'[i].on = on' /\ WordIsTrue(checks[i].answer, checks[i].name)'
      <4>1. CASE checks'[i] = c
        BY <2>2, <4>1 DEF WordIsTrue
      <4>2. CASE checks'[i] # c
        <5>1. PICK k \in DOMAIN checks : checks'[i] = checks[k]
          BY <2>3, <4>2
        <5> QED BY <3>1, <3>2, <5>1 DEF WordIsTrue, N!Of
      <4> QED BY <4>1, <4>2
    <3> QED BY <3>3, <3>4
  <2>5. Heard'
    <3> SUFFICES ASSUME NEW i \in DOMAIN checks', checks'[i].answer = N!Taken
                 PROVE  checks'[i].name \in taken'[checks'[i].on]
      BY DEF Heard
    <3>1. checks'[i] # c
      BY <2>2, WordsDiffer
    <3>2. PICK k \in DOMAIN checks : checks'[i] = checks[k]
      BY <2>3, <3>1
    <3> QED BY <3>2 DEF Heard
  <2> QED BY <1>1, <1>t, <2>1, <2>2, <2>3, <2>4, <2>5
<1>2. CASE ~(name \in Valid /\ known[name] = N!None)
  <2>1. /\ checks' = checks
        /\ IF name \in Valid THEN verdict' = known[name] /\ UNCHANGED <<checking, problem>>
           ELSE verdict' = N!None /\ checking' = FALSE /\ problem' = FALSE
    BY <1>2 DEF N!Check
  <2>2. WordsAreTrue'
    BY <2>1 DEF WordsAreTrue, WordIsTrue, N!Of
  <2>3. Heard'
    BY <2>1 DEF Heard
  <2> QED BY <1>2, <1>t, <2>1, <2>2, <2>3
<1> QED BY <1>1, <1>2

LEMMA NameTyped == ASSUME N!NameCheckAssumption, NameInv, NEW name \in Names, N!Type(name) PROVE NameInv'
<1>1. /\ typed' = name /\ armed' = TRUE /\ verdict' = N!None /\ problem' = FALSE
      /\ UNCHANGED <<debounced, checking, known, checks, on, taken>>
      /\ excuses' = IF name = debounced THEN excuses \cup {"returned"} ELSE excuses \ {"returned"}
  BY DEF N!Type
<1>2. NameTypes /\ WordsAreTrue /\ Heard
  BY DEF NameInv
<1>3. NameTypes'
  BY <1>1, <1>2 DEF NameTypes, Words
<1>4. Judging'
  BY <1>1 DEF Judging
<1>5. WordsAreTrue'
  BY <1>1, <1>2 DEF WordsAreTrue, WordIsTrue, N!Of
<1> QED BY <1>1, <1>3, <1>4, <1>5 DEF NameInv, Heard, N!RememberedWasTrue

LEMMA NameDebounced == ASSUME NameInv, N!Debounce PROVE NameInv'
<1>1. armed' = FALSE /\ debounced' = typed /\ UNCHANGED <<typed, known, on, taken>>
  BY DEF N!Debounce
<1>2. NameTypes /\ WordsAreTrue /\ Heard /\ Judging
  BY DEF NameInv
<1>3. CASE typed = debounced
  <2>1. UNCHANGED <<verdict, checking, problem, checks, excuses>>
    BY <1>3 DEF N!Debounce, N!shownVars
  <2>2. NameTypes' /\ Judging' /\ WordsAreTrue'
    BY <1>1, <1>2, <1>3, <2>1 DEF NameTypes, Judging, WordsAreTrue, WordIsTrue, N!Of
  <2> QED BY <1>1, <1>2, <2>1, <2>2 DEF NameInv, Heard, N!RememberedWasTrue
<1>4. CASE typed # debounced
  <2>1. N!Check(typed, on) /\ excuses' = excuses \ {"late", "returned"}
    BY <1>4 DEF N!Debounce
  <2>2. typed \in Names /\ on \in Networks
    BY <1>2 DEF NameTypes
  <2>3. excuses' \cap {"changed", "moved"} = {} => excuses \cap {"changed", "moved"} = {} /\ on = on
    BY <2>1
  <2>4. /\ checking' \in BOOLEAN /\ problem' \in BOOLEAN /\ verdict' \in Words
        /\ checks' \in Seq(Lookups)
        /\ ~problem' => IF typed \in Valid
                        THEN /\ known[typed] # N!None => verdict' = known[typed]
                             /\ known[typed] = N!None => \E i \in DOMAIN checks' : checks'[i].name = typed
                        ELSE verdict' = N!None
        /\ WordsAreTrue' /\ Heard'
    BY <1>1, <1>2, <2>1, <2>2, <2>3, CheckJudges
  <2>5. NameTypes'
    BY <1>1, <1>2, <2>1, <2>4 DEF NameTypes
  <2>6. Judging'
    BY <1>1, <2>4 DEF Judging
  <2> QED BY <1>1, <2>4, <2>5, <2>6 DEF NameInv, N!RememberedWasTrue
<1> QED BY <1>3, <1>4

LEMMA NameReconnected == ASSUME NameInv, NEW net \in Networks, N!Reconnect(net) PROVE NameInv'
<1>1. /\ on' = net /\ N!Check(debounced, net) /\ UNCHANGED <<typed, armed, debounced, known, taken>>
      /\ excuses' = IF net # on THEN excuses \cup {"moved"} ELSE excuses
  BY DEF N!Reconnect
<1>2. NameTypes /\ WordsAreTrue /\ Heard /\ debounced \in Names
  BY DEF NameInv, NameTypes
<1>3. excuses' \cap {"changed", "moved"} = {} => excuses \cap {"changed", "moved"} = {} /\ on = net
  BY <1>1
<1>4. /\ checking' \in BOOLEAN /\ problem' \in BOOLEAN /\ verdict' \in Words
      /\ checks' \in Seq(Lookups)
      /\ ~problem' => IF debounced \in Valid
                      THEN /\ known[debounced] # N!None => verdict' = known[debounced]
                           /\ known[debounced] = N!None =>
                                 \E i \in DOMAIN checks' : checks'[i].name = debounced
                      ELSE verdict' = N!None
      /\ WordsAreTrue' /\ Heard'
  BY <1>1, <1>2, <1>3, CheckJudges
<1>5. NameTypes'
  BY <1>1, <1>2, <1>4 DEF NameTypes
<1>6. Judging'
  BY <1>1, <1>4 DEF Judging
<1> QED BY <1>1, <1>4, <1>5, <1>6 DEF NameInv, N!RememberedWasTrue

LEMMA NameRead == ASSUME NameInv, NEW i \in DOMAIN checks, N!Read(i) PROVE NameInv'
<1> DEFINE c == checks[i]
           got == [c EXCEPT !.answer = N!Of(c.name, c.on)]
<1>1. /\ checks' = [checks EXCEPT ![i] = got]
      /\ UNCHANGED <<typed, armed, debounced, verdict, checking, problem, known, on, taken, excuses>>
  BY DEF N!Read, N!shownVars
<1>2. NameTypes /\ WordsAreTrue /\ Heard /\ Judging
  BY DEF NameInv
<1>3. checks \in Seq(Lookups) /\ c \in Lookups
  BY <1>2 DEF NameTypes
<1>4. got \in Lookups /\ got.name = c.name /\ got.on = c.on /\ got.answer = N!Of(c.name, c.on)
  BY <1>3, OfIsWord DEF Lookups
<1> HIDE DEF got
<1>5. /\ checks' \in Seq(Lookups) /\ DOMAIN checks' = DOMAIN checks
      /\ checks'[i] = got /\ \A j \in DOMAIN checks : j # i => checks'[j] = checks[j]
  BY <1>1, <1>3, <1>4
<1>6. NameTypes'
  BY <1>1, <1>2, <1>5 DEF NameTypes
<1>7. \A j \in DOMAIN checks : checks'[j].name = checks[j].name /\ checks'[j].on = checks[j].on
  BY <1>4, <1>5
<1>8. Judging'
  BY <1>1, <1>2, <1>5, <1>7 DEF Judging
<1>9. WordsAreTrue'
  <2> SUFFICES ASSUME excuses \cap {"changed", "moved"} = {}, NEW j \in DOMAIN checks
               PROVE  checks'[j].on = on /\ WordIsTrue(checks[j].answer, checks[j].name)'
    BY <1>1, <1>2, <1>5 DEF WordsAreTrue, WordIsTrue, N!Of
  <2>1. checks[j].on = on /\ WordIsTrue(checks[j].answer, checks[j].name)
    BY <1>2 DEF WordsAreTrue
  <2>2. CASE j = i
    BY <1>1, <1>4, <1>5, <2>1, <2>2 DEF WordIsTrue, N!Of
  <2>3. CASE j # i
    BY <1>1, <1>5, <2>1, <2>3 DEF WordIsTrue, N!Of
  <2> QED BY <2>2, <2>3
<1>10. Heard'
  <2> SUFFICES ASSUME NEW j \in DOMAIN checks, checks'[j].answer = N!Taken
               PROVE  checks'[j].name \in taken[checks'[j].on]
    BY <1>1, <1>5 DEF Heard
  <2>1. CASE j = i
    BY <1>4, <1>5, <2>1, WordsDiffer DEF N!Of
  <2>2. CASE j # i
    BY <1>2, <1>5, <2>2 DEF Heard
  <2> QED BY <2>1, <2>2
<1> QED BY <1>1, <1>6, <1>8, <1>9, <1>10 DEF NameInv, N!RememberedWasTrue

LEMMA NameArrived == ASSUME NameInv, NEW i \in DOMAIN checks, N!Arrive(i) PROVE NameInv'
<1> DEFINE c == checks[i]
<1>2. NameTypes /\ WordsAreTrue /\ Heard
  BY DEF NameInv
<1>3. c \in Lookups /\ c.name \in Valid /\ c.on \in Networks /\ c.answer \in Words
  BY <1>2, LookupIs DEF Lookups
<1>1. /\ c.answer # N!None /\ known' = [known EXCEPT ![c.name] = c.answer]
      /\ verdict' = c.answer /\ checking' = FALSE /\ checks' = N!RemoveAt(checks, i)
      /\ UNCHANGED <<typed, armed, debounced, problem, on, taken>>
      /\ excuses' = IF c.name # debounced THEN excuses \cup {"late"} ELSE excuses \ {"late"}
  BY DEF N!Arrive, N!Learns, N!Overtaken
<1>4. /\ checks' \in Seq(Lookups)
      /\ \A j \in DOMAIN checks' : \E k \in DOMAIN checks : checks'[j] = checks[k]
  BY <1>1, <1>2, LookupGone
<1>5. WordsAreTrue => c.answer = N!None \/ excuses \cap {"changed", "moved"} # {} \/ WordIsTrue(c.answer, c.name)
  BY DEF WordsAreTrue
<1>6. c.answer = N!Taken => c.name \in taken[c.on]
  BY <1>2 DEF Heard
<1> HIDE DEF c
<1>7. known \in [Names -> Words]
  BY <1>2 DEF NameTypes
<1>8. known' \in [Names -> Words] /\ \A n \in Names : known'[n] = IF n = c.name THEN c.answer ELSE known[n]
  BY <1>1, <1>3, <1>7
<1>9. NameTypes'
  BY <1>1, <1>2, <1>3, <1>4, <1>8 DEF NameTypes
<1>10. Judging'
  <2> SUFFICES ASSUME typed' = debounced', excuses' = {}, ~problem'
               PROVE  IF debounced' \in Valid
                      THEN /\ known'[debounced'] # N!None => verdict' = known'[debounced']
                           /\ known'[debounced'] = N!None => \E j \in DOMAIN checks' : checks'[j].name = debounced'
                      ELSE verdict' = N!None
    BY DEF Judging
  <2>1. c.name = debounced /\ debounced \in Names
    BY <1>1, <1>2 DEF NameTypes
  <2> QED BY <1>1, <1>3, <1>8, <2>1
<1>11. WordsAreTrue'
  <2> SUFFICES ASSUME excuses' \cap {"changed", "moved"} = {}
               PROVE  /\ \A n \in Names : WordIsTrue(known[n], n)'
                      /\ \A j \in DOMAIN checks' : /\ checks'[j].on = on'
                                                   /\ WordIsTrue(checks[j].answer, checks[j].name)'
    BY DEF WordsAreTrue
  <2>1. excuses \cap {"changed", "moved"} = {}
    BY <1>1
  <2>2. \A n \in Names : WordIsTrue(known[n], n)'
    BY <1>1, <1>2, <1>5, <1>8, <2>1 DEF WordsAreTrue, WordIsTrue, N!Of
  <2>3. ASSUME NEW j \in DOMAIN checks'
        PROVE  checks'[j].on = on' /\ WordIsTrue(checks[j].answer, checks[j].name)'
    <3>1. PICK k \in DOMAIN checks : checks'[j] = checks[k]
      BY <1>4
    <3> QED BY <1>1, <1>2, <2>1, <3>1 DEF WordsAreTrue, WordIsTrue, N!Of
  <2> QED BY <2>2, <2>3
<1>12. Heard'
  <2> SUFFICES ASSUME NEW j \in DOMAIN checks', checks'[j].answer = N!Taken
               PROVE  checks'[j].name \in taken'[checks'[j].on]
    BY DEF Heard
  <2>1. PICK k \in DOMAIN checks : checks'[j] = checks[k]
    BY <1>4
  <2> QED BY <1>1, <1>2, <2>1 DEF Heard
<1>13. N!RememberedWasTrue'
  BY <1>1, <1>3, <1>6, <1>8 DEF NameInv, N!RememberedWasTrue
<1> QED BY <1>1, <1>9, <1>10, <1>11, <1>12, <1>13 DEF NameInv

LEMMA NameFailed == ASSUME NameInv, NEW i \in DOMAIN checks, N!Fail(i) PROVE NameInv'
<1>1. /\ verdict' = N!None /\ problem' = TRUE /\ checking' = FALSE /\ checks' = N!RemoveAt(checks, i)
      /\ UNCHANGED <<typed, armed, debounced, known, on, taken, excuses>>
  BY DEF N!Fail
<1>2. NameTypes /\ WordsAreTrue /\ Heard
  BY DEF NameInv
<1>3. /\ checks' \in Seq(Lookups)
      /\ \A j \in DOMAIN checks' : \E k \in DOMAIN checks : checks'[j] = checks[k]
  BY <1>1, <1>2, LookupGone
<1>4. NameTypes'
  BY <1>1, <1>2, <1>3 DEF NameTypes, Words
<1>5. WordsAreTrue'
  <2> SUFFICES ASSUME excuses \cap {"changed", "moved"} = {}, NEW j \in DOMAIN checks'
               PROVE  checks'[j].on = on /\ WordIsTrue(checks[j].answer, checks[j].name)'
    BY <1>1, <1>2 DEF WordsAreTrue, WordIsTrue, N!Of
  <2>1. PICK k \in DOMAIN checks : checks'[j] = checks[k]
    BY <1>3
  <2> QED BY <1>1, <1>2, <2>1 DEF WordsAreTrue, WordIsTrue, N!Of
<1>6. Heard'
  <2> SUFFICES ASSUME NEW j \in DOMAIN checks', checks'[j].answer = N!Taken
               PROVE  checks'[j].name \in taken'[checks'[j].on]
    BY DEF Heard
  <2>1. PICK k \in DOMAIN checks : checks'[j] = checks[k]
    BY <1>3
  <2> QED BY <1>1, <1>2, <2>1 DEF Heard
<1> QED BY <1>1, <1>4, <1>5, <1>6 DEF NameInv, Judging, N!RememberedWasTrue

LEMMA NameClaimed ==
    ASSUME NameInv, NEW name \in Valid, NEW net \in Networks, N!Claim(name, net),
           UNCHANGED <<typed, armed, debounced, verdict, checking, problem, known, checks, on>>
    PROVE  NameInv'
<1>1. taken' = [taken EXCEPT ![net] = @ \cup {name}] /\ excuses' = excuses \cup {"changed"}
  BY DEF N!Claim
<1>2. taken \in [Networks -> SUBSET Valid] /\ NameTypes
  BY DEF NameInv, NameTypes
<1>3. taken' \in [Networks -> SUBSET Valid] /\ \A other \in Networks : taken[other] \subseteq taken'[other]
  BY <1>1, <1>2
<1>4. NameTypes'
  BY <1>1, <1>2, <1>3 DEF NameTypes
<1>5. Heard'
  <2> SUFFICES ASSUME NEW i \in DOMAIN checks, checks[i].answer = N!Taken
               PROVE  checks[i].name \in taken'[checks[i].on]
    BY DEF Heard
  <2>1. checks[i].on \in Networks
    BY <1>2, LookupIs DEF Lookups
  <2> QED BY <1>3, <2>1 DEF NameInv, Heard
<1>6. N!RememberedWasTrue'
  BY <1>3 DEF NameInv, N!RememberedWasTrue
<1> QED BY <1>1, <1>4, <1>5, <1>6 DEF NameInv, Judging, WordsAreTrue

LEMMA NameNextInv == ASSUME N!NameCheckAssumption, NameInv, [N!Next]_(N!vars) PROVE NameInv'
<1>1. CASE \E name \in Names : N!Type(name)
  BY <1>1, NameTyped
<1>2. CASE N!Debounce
  BY <1>2, NameDebounced
<1>3. CASE N!Submit
  <2>1. /\ typed \in Valid /\ N!Claim(typed, on) /\ on \in Networks
        /\ UNCHANGED <<typed, armed, debounced, verdict, checking, problem, known, checks, on>>
    BY <1>3 DEF N!Submit, N!MaySubmit, N!shownVars, NameInv, NameTypes
  <2> QED BY <2>1, NameClaimed
<1>4. ASSUME NEW name \in Valid, NEW net \in Networks, N!OtherClaims(name, net) PROVE NameInv'
  BY <1>4, NameClaimed DEF N!OtherClaims, N!shownVars
<1>5. CASE \E net \in Networks : N!Reconnect(net)
  BY <1>5, NameReconnected
<1>6. CASE \E i \in DOMAIN checks : N!Read(i) \/ N!Arrive(i) \/ N!Fail(i)
  BY <1>6, NameRead, NameArrived, NameFailed
<1>7. CASE N!Quiet \/ UNCHANGED N!vars
  BY <1>7 DEF N!Quiet, N!vars, N!shownVars, NameInv, NameTypes, Judging, WordsAreTrue, WordIsTrue, N!Of,
              Heard, N!RememberedWasTrue
<1> QED BY <1>1, <1>2, <1>3, <1>4, <1>5, <1>6, <1>7 DEF N!Next, N!Answered

LEMMA NameHolds ==
    ASSUME NameInv
    PROVE  N!TypeOK /\ N!VerdictIsOfTheName /\ N!KnownTakenIsNotSubmitted /\ N!RememberedWasTrue
<1>1. NameTypes /\ Judging /\ WordsAreTrue
  BY DEF NameInv
<1>2. N!TypeOK
  BY <1>1, LookupIs DEF NameTypes, Lookups, Words, N!TypeOK
<1>3. N!VerdictIsOfTheName
  <2> SUFFICES ASSUME ~armed, checks = <<>>, excuses = {}, ~problem
               PROVE  verdict = IF typed \in Valid THEN N!Of(typed, on) ELSE N!None
    BY DEF N!VerdictIsOfTheName
  <2>1. typed = debounced /\ typed \in Names /\ DOMAIN checks = {}
    BY <1>1 DEF NameInv, NameTypes
  <2> QED BY <1>1, <2>1 DEF Judging, WordsAreTrue, WordIsTrue
<1>4. N!KnownTakenIsNotSubmitted
  <2> SUFFICES ASSUME known[typed] = N!Taken, N!MaySubmit, ~armed, excuses = {}, ~problem PROVE FALSE
    BY DEF N!KnownTakenIsNotSubmitted
  <2>1. typed = debounced /\ typed \in Valid /\ verdict # N!Taken
    BY DEF NameInv, N!MaySubmit
  <2> QED BY <1>1, <2>1, WordsDiffer DEF Judging
<1> QED BY <1>2, <1>3, <1>4 DEF NameInv

-----------------------------------------------------------------------------
(* The drafts of forms. *)

\* The text of an open form that nothing excuses is stored, or the timer that will store it is
\* armed, or the rendering that arms it is to come.
Kept ==
    open /\ excused = {} =>
        /\ text = written => pending = D!Nothing /\ stored = text
        /\ ~dirty /\ text # written => pending = text

DraftInv == D!TypeOK /\ Kept /\ D!NothingTypedIsLost

Reasons == {"back", "aged", "failed", "cleared"}

LEMMA DraftInitInv == D!DraftsAssumption /\ D!Init => DraftInv
<1> SUFFICES ASSUME D!DraftsAssumption, D!Init PROVE DraftInv
  OBVIOUS
<1>1. D!TypeOK
  BY DEF D!DraftsAssumption, D!Init, D!TypeOK
<1> QED BY <1>1 DEF DraftInv, D!Init, Kept, D!NothingTypedIsLost

LEMMA DraftVisited == ASSUME D!DraftsAssumption, DraftInv, D!Visit PROVE DraftInv'
<1>1. PICK found \in {stored, D!Nothing}, cost \in D!ReadCosts :
          /\ D!ReadDraft(found, cost)
          /\ banner' = (found # D!Nothing) /\ savedAt' = (found # D!Nothing) /\ seenDraft' = found
  BY DEF D!Visit
<1>2. /\ open' = TRUE /\ text' = BlankText /\ written' = D!Nothing /\ pending' = D!Nothing
      /\ dirty' = TRUE /\ left' = D!Nothing /\ excused' = {}
  BY DEF D!Visit
<1>3. stored' \in {stored, D!Nothing}
  BY <1>1 DEF D!ReadDraft
<1>4. BlankText \in Texts /\ D!Nothing \notin Texts
  BY DEF D!DraftsAssumption
<1>5. D!TypeOK'
  BY <1>1, <1>2, <1>3, <1>4 DEF DraftInv, D!TypeOK
<1> QED BY <1>2, <1>4, <1>5 DEF DraftInv, Kept, D!NothingTypedIsLost

LEMMA DraftRendered == ASSUME DraftInv, D!Render PROVE DraftInv'
<1>1. /\ open /\ dirty' = FALSE
      /\ IF text = written THEN UNCHANGED <<pending, excused>>
         ELSE pending' = text /\ excused' = {}
      /\ UNCHANGED <<open, text, stored, written, banner, savedAt, seenDraft, left>>
  BY DEF D!Render, D!Save
<1> QED BY <1>1 DEF DraftInv, D!TypeOK, Kept, D!NothingTypedIsLost

LEMMA DraftStirred == ASSUME DraftInv, D!Stir PROVE DraftInv'
<1>1. /\ open /\ dirty' = TRUE
      /\ UNCHANGED <<open, text, stored, written, pending, banner, savedAt, seenDraft, left, excused>>
  BY DEF D!Stir, D!writerVars
<1> QED BY <1>1 DEF DraftInv, D!TypeOK, Kept, D!NothingTypedIsLost

\* Nothing is added to the reasons but that the text came back.
LEMMA CameBackOnly ==
    ASSUME D!CameBack, excused \subseteq Reasons
    PROVE  /\ excused' \subseteq Reasons
           /\ excused' = {} => excused = {} /\ ~(text' = written /\ pending # D!Nothing)
BY DEF D!CameBack, Reasons

LEMMA DraftEdited == ASSUME D!DraftsAssumption, DraftInv, D!Edit PROVE DraftInv'
<1>1. /\ open /\ ~dirty /\ text' \in Texts /\ text' # text /\ dirty' = TRUE
      /\ seenDraft' = D!Nothing /\ D!CameBack
      /\ UNCHANGED <<open, stored, written, pending, banner, savedAt, left>>
  BY DEF D!Edit, D!writerVars
<1>2. D!TypeOK /\ Kept
  BY DEF DraftInv
<1>3. /\ excused' \subseteq Reasons
      /\ excused' = {} => excused = {} /\ ~(text' = written /\ pending # D!Nothing)
  BY <1>1, <1>2, CameBackOnly DEF D!TypeOK, Reasons
<1>4. D!TypeOK'
  BY <1>1, <1>2, <1>3 DEF D!TypeOK, Reasons
<1>5. Kept'
  BY <1>1, <1>2, <1>3 DEF Kept, D!TypeOK, D!DraftsAssumption
<1> QED BY <1>1, <1>4, <1>5 DEF DraftInv, D!NothingTypedIsLost

LEMMA DraftWritten == ASSUME D!DraftsAssumption, DraftInv, D!Write PROVE DraftInv'
<1>1. /\ open /\ ~dirty /\ pending # D!Nothing /\ pending' = D!Nothing
      /\ UNCHANGED <<open, text, banner, seenDraft, left>>
  BY DEF D!Write
<1>2. \/ /\ stored' = pending /\ written' = pending /\ savedAt' = TRUE /\ dirty' = TRUE
         /\ excused' = excused
      \/ /\ excused' = excused \cup {"failed"}
         /\ UNCHANGED <<stored, written, savedAt, dirty>>
  BY DEF D!Write, D!Store
<1>3. D!TypeOK'
  BY <1>1, <1>2 DEF DraftInv, D!TypeOK
<1>4. Kept'
  BY <1>1, <1>2 DEF DraftInv, Kept
<1> QED BY <1>1, <1>3, <1>4 DEF DraftInv, D!NothingTypedIsLost

LEMMA DraftRestored == ASSUME D!DraftsAssumption, DraftInv, D!RestoreDraft PROVE DraftInv'
<1>1. PICK found \in {stored, D!Nothing}, cost \in D!ReadCosts :
          /\ D!ReadDraft(found, cost)
          /\ text' = IF found = D!Nothing THEN text ELSE found
          /\ savedAt' = (savedAt /\ found # D!Nothing)
  BY DEF D!RestoreDraft
<1>2. /\ open /\ ~dirty /\ dirty' = TRUE /\ banner' = FALSE
      /\ IF stored' = stored THEN D!CameBack ELSE excused' = excused \cup {"aged"}
      /\ UNCHANGED <<open, written, pending, seenDraft, left>>
  BY DEF D!RestoreDraft
<1>3. stored' \in {stored, D!Nothing}
  BY <1>1 DEF D!ReadDraft
<1>4. D!TypeOK /\ Kept
  BY DEF DraftInv
<1>5. text' \in Texts
  BY <1>1, <1>4 DEF D!TypeOK
<1>6. CASE stored' = stored
  <2>1. /\ excused' \subseteq Reasons
        /\ excused' = {} => excused = {} /\ ~(text' = written /\ pending # D!Nothing)
    BY <1>2, <1>4, <1>6, CameBackOnly DEF D!TypeOK, Reasons
  <2>2. D!TypeOK'
    BY <1>1, <1>2, <1>4, <1>5, <1>6, <2>1 DEF D!TypeOK, Reasons
  <2>3. Kept'
    <3> SUFFICES ASSUME excused' = {} PROVE text' = written => pending = D!Nothing /\ stored = text'
      BY <1>2, <1>6 DEF Kept
    <3>1. excused = {} /\ (text' = written => pending = D!Nothing)
      BY <2>1
    <3>2. text # written => pending = text
      BY <1>2, <1>4, <3>1 DEF Kept
    <3>3. text \in Texts /\ D!Nothing \notin Texts
      BY <1>4 DEF D!TypeOK, D!DraftsAssumption
    <3>4. text = written => stored = text
      BY <1>2, <1>4, <3>1 DEF Kept
    <3> QED BY <1>1, <3>1, <3>2, <3>3, <3>4
  <2> QED BY <1>2, <2>2, <2>3 DEF DraftInv, D!NothingTypedIsLost
<1>7. CASE stored' # stored
  <2>1. excused' = excused \cup {"aged"}
    BY <1>2, <1>7
  <2>2. D!TypeOK'
    BY <1>1, <1>2, <1>3, <1>4, <1>5, <2>1 DEF D!TypeOK
  <2> QED BY <1>2, <2>1, <2>2 DEF DraftInv, Kept, D!NothingTypedIsLost
<1> QED BY <1>6, <1>7

LEMMA DraftDiscarded == ASSUME D!DraftsAssumption, DraftInv, D!DiscardDraft PROVE DraftInv'
<1>1. /\ open /\ dirty' = (banner \/ savedAt) /\ stored' \in {stored, D!Nothing}
      /\ written' = D!Nothing /\ pending' = D!Nothing /\ banner' = FALSE /\ savedAt' = FALSE
      /\ seenDraft' = D!Nothing /\ excused' = excused \cup {"cleared"}
      /\ UNCHANGED <<open, text, left>>
  BY DEF D!DiscardDraft
<1>2. dirty' \in BOOLEAN
  BY <1>1 DEF DraftInv, D!TypeOK
<1>3. D!TypeOK'
  BY <1>1, <1>2 DEF DraftInv, D!TypeOK
<1> QED BY <1>1, <1>3 DEF DraftInv, Kept, D!NothingTypedIsLost

LEMMA DraftLeft == ASSUME D!DraftsAssumption, DraftInv, D!Leave PROVE DraftInv'
<1>1. /\ open /\ ~dirty /\ open' = FALSE /\ banner' = FALSE /\ savedAt' = FALSE
      /\ seenDraft' = D!Nothing /\ pending' = D!Nothing
      /\ left' = text /\ UNCHANGED <<text, dirty>>
  BY DEF D!Leave, D!Flush
<1>2. \/ pending = D!Nothing /\ UNCHANGED <<stored, written, excused>>
      \/ pending # D!Nothing /\ stored' = pending /\ written' = pending /\ excused' = excused
      \/ UNCHANGED <<stored, written>> /\ excused' = excused \cup {"failed"}
  BY DEF D!Leave, D!Flush
<1>3. D!TypeOK /\ Kept
  BY DEF DraftInv
<1>4. text \in Texts /\ D!Nothing \notin Texts
  BY <1>3 DEF D!TypeOK, D!DraftsAssumption
<1>5. D!TypeOK'
  BY <1>1, <1>2, <1>3 DEF D!TypeOK
<1>6. excused' = {} => stored' = text
  BY <1>1, <1>2, <1>3, <1>4 DEF Kept
<1> QED BY <1>1, <1>5, <1>6 DEF DraftInv, Kept, D!NothingTypedIsLost

LEMMA DraftNextInv == ASSUME D!DraftsAssumption, DraftInv, [D!Next]_(D!vars) PROVE DraftInv'
<1>1. CASE D!Quiet \/ UNCHANGED D!vars
  <2>1. UNCHANGED <<open, text, stored, written, pending, banner, savedAt, dirty, seenDraft, left, excused>>
    BY <1>1 DEF D!Quiet, D!vars
  <2>2. D!TypeOK'
    BY <2>1 DEF DraftInv, D!TypeOK
  <2>3. Kept'
    BY <2>1 DEF DraftInv, Kept
  <2>4. D!NothingTypedIsLost'
    BY <2>1 DEF DraftInv, D!NothingTypedIsLost
  <2> QED BY <2>2, <2>3, <2>4 DEF DraftInv
<1> QED BY <1>1, DraftVisited, DraftRendered, DraftStirred, DraftEdited, DraftWritten, DraftRestored,
           DraftDiscarded, DraftLeft DEF D!Next

-----------------------------------------------------------------------------
(* The dashboard. *)

Screens == [owner : Wallets, balance : Nat]
Fetches == [for : Wallets, answer : Nat \cup {B!Missing, B!Unread}]
Withdrawals == [from : Wallets, amount : Nat, chain : {"pending", "landed", "dropped"}, reported : BOOLEAN]

DashTypes ==
    /\ wallet \in Wallets \cup {B!None}
    /\ ledger \in [Wallets -> Nat \cup {B!Missing}]
    /\ shown = {} \/ \E s \in Screens : shown = {s}
    /\ flight = {} \/ \E f \in Fetches : flight = {f}
    /\ polling \in BOOLEAN /\ failed \in BOOLEAN
    /\ before \in Nat \cup {B!Unset}
    /\ withdrawals \in Seq(Withdrawals)
    /\ causes \subseteq {"mixed", "early", "reverted", "lost"}

\* What is asked for and shown is the selected wallet's.
OwnScreen == "mixed" \notin causes => /\ \A f \in flight : f.for = wallet
                                      /\ \A s \in shown : s.owner = wallet

\* An answer is no more than what the contract holds, and only a profile has one.
Timely == "early" \notin causes => \A f \in flight : f.answer # B!Unread => f.answer <= ledger[f.for]
HasProfile == /\ \A f \in flight : f.answer \in Nat => ledger[f.for] \in Nat
              /\ \A s \in shown : ledger[s.owner] \in Nat

-----------------------------------------------------------------------------
(* The withdrawals that landed and are not reported yet, as a sum. *)

\* Sums of functions that agree are the same.
LEMMA SameSums ==
    ASSUME NEW S, IsFiniteSet(S), NEW f, NEW g, \A x \in S : f[x] \in Int /\ g[x] = f[x]
    PROVE  SetSum(g, S) = SetSum(f, S)
<1>1. PICK h : FoldsOver(f, S, h) /\ SetSum(f, S) = h[S]
  BY SetSumIsFold
<1>2. PICK k : FoldsOver(g, S, k) /\ SetSum(g, S) = k[S]
  BY SetSumIsFold
<1>3. FoldsOver(f, S, k)
  <2> SUFFICES ASSUME NEW s \in SUBSET S PROVE Adds(f, k, s)
    BY DEF FoldsOver
  <2>1. Adds(g, k, s)
    BY <1>2 DEF FoldsOver
  <2>2. CASE s = {}
    BY <2>1, <2>2 DEF Adds
  <2>3. CASE s # {}
    <3>1. (CHOOSE x \in s : TRUE) \in S
      BY <2>3
    <3>2. f[CHOOSE x \in s : TRUE] = g[CHOOSE x \in s : TRUE]
      BY <3>1
    <3> QED BY <2>1, <2>3, <3>2 DEF Adds
  <2> QED BY <2>2, <2>3
<1>4. h[S] = k[S]
  BY <1>1, <1>3, FoldsAgree
<1> QED BY <1>1, <1>2, <1>4

Due(list, w) ==
    [i \in DOMAIN list |-> IF list[i].from = w /\ list[i].chain = "landed" /\ ~list[i].reported
                           THEN list[i].amount ELSE 0]
AllDue(list, w) == SetSum(Due(list, w), DOMAIN list)

DueFold(w, f) ==
    f = [s \in SUBSET DOMAIN withdrawals |->
           IF s = {} THEN 0
           ELSE (IF withdrawals[CHOOSE x \in s : TRUE].from = w
                    /\ withdrawals[CHOOSE x \in s : TRUE].chain = "landed"
                    /\ ~withdrawals[CHOOSE x \in s : TRUE].reported
                 THEN withdrawals[CHOOSE x \in s : TRUE].amount ELSE 0)
                + f[s \ {CHOOSE x \in s : TRUE}]]

LEMMA UnreportedIsFold ==
    ASSUME NEW w PROVE B!Unreported(w) = (CHOOSE f : DueFold(w, f))[DOMAIN withdrawals]
BY Zenon DEF B!Unreported, B!MapThenSumSet, B!MapThenFoldSet, DueFold

LEMMA DueIs ==
    ASSUME NEW list \in Seq(Withdrawals), NEW w
    PROVE  /\ IsFiniteSet(DOMAIN list)
           /\ \A i \in DOMAIN list : Due(list, w)[i] \in Nat
           /\ AllDue(list, w) \in Nat
<1>1. IsFiniteSet(DOMAIN list)
  <2>1. DOMAIN list = 1 .. Len(list) /\ Len(list) \in Nat
    OBVIOUS
  <2> QED BY <2>1, FS_Interval
<1>2. ASSUME NEW i \in DOMAIN list PROVE Due(list, w)[i] \in Nat
  <2>1. list[i] \in Withdrawals
    BY MemberIs
  <2> QED BY <2>1 DEF Due, Withdrawals
<1>3. AllDue(list, w) \in Nat
  BY <1>1, <1>2, SetSumNat DEF AllDue
<1> QED BY <1>1, <1>2, <1>3

LEMMA UnreportedIs ==
    ASSUME withdrawals \in Seq(Withdrawals), NEW w
    PROVE  B!Unreported(w) = AllDue(withdrawals, w)
<1> DEFINE dom == DOMAIN withdrawals
           f == CHOOSE h : DueFold(w, h)
<1>1. IsFiniteSet(dom) /\ \A i \in dom : Due(withdrawals, w)[i] \in Nat
  BY DueIs
<1>2. PICK g : Iterates(Due(withdrawals, w), dom, g)
  BY <1>1, FoldsExist
<1>3. DueFold(w, g)
  <2>1. ASSUME NEW s \in SUBSET dom
        PROVE  (IF s = {} THEN 0 ELSE Due(withdrawals, w)[CHOOSE x \in s : TRUE] + g[Rest(s)])
               = (IF s = {} THEN 0
                  ELSE (IF withdrawals[CHOOSE x \in s : TRUE].from = w
                           /\ withdrawals[CHOOSE x \in s : TRUE].chain = "landed"
                           /\ ~withdrawals[CHOOSE x \in s : TRUE].reported
                        THEN withdrawals[CHOOSE x \in s : TRUE].amount ELSE 0)
                       + g[s \ {CHOOSE x \in s : TRUE}])
    <3>1. CASE s = {}
      BY <3>1
    <3>2. CASE s # {}
      <4>1. (CHOOSE x \in s : TRUE) \in dom
        BY <3>2
      <4> QED BY <3>2, <4>1 DEF Due, Rest
    <3> QED BY <3>1, <3>2
  <2> QED BY <1>2, <2>1 DEF Iterates, DueFold
<1>4. DueFold(w, f)
  BY <1>3
<1>5. B!Unreported(w) = f[dom]
  BY UnreportedIsFold
<1> HIDE DEF f
<1>6. FoldsOver(Due(withdrawals, w), dom, f)
  <2> SUFFICES ASSUME NEW s \in SUBSET dom PROVE Adds(Due(withdrawals, w), f, s)
    BY DEF FoldsOver
  <2>1. CASE s = {}
    BY <1>4, <2>1 DEF DueFold, Adds
  <2>2. CASE s # {}
    <3>1. (CHOOSE x \in s : TRUE) \in dom
      BY <2>2
    <3> QED BY <1>4, <2>2, <3>1 DEF DueFold, Adds, Due, Rest
  <2> QED BY <2>1, <2>2
<1>7. PICK h : FoldsOver(Due(withdrawals, w), dom, h) /\ AllDue(withdrawals, w) = h[dom]
  BY <1>1, SetSumIsFold DEF AllDue
<1>8. f[dom] = h[dom]
  BY <1>1, <1>6, <1>7, FoldsAgree
<1> QED BY <1>5, <1>7, <1>8

\* A withdrawal that changes leaves what is due of the others.
LEMMA DueChanges ==
    ASSUME NEW list \in Seq(Withdrawals), NEW new \in Seq(Withdrawals), DOMAIN new = DOMAIN list,
           NEW i \in DOMAIN list, \A j \in DOMAIN list \ {i} : new[j] = list[j], NEW w
    PROVE  /\ AllDue(list, w) \in Nat /\ AllDue(new, w) \in Nat
           /\ AllDue(new, w) = AllDue(list, w) - Due(list, w)[i] + Due(new, w)[i]
<1>1. /\ IsFiniteSet(DOMAIN list) /\ AllDue(list, w) \in Nat /\ AllDue(new, w) \in Nat
      /\ \A j \in DOMAIN list : Due(list, w)[j] \in Nat
  BY DueIs
<1>2. \A j \in DOMAIN list : Due(new, w)[j] \in Nat
  BY DueIs
<1>3. \A j \in DOMAIN list \ {i} : Due(new, w)[j] = Due(list, w)[j]
  BY DEF Due
<1>4. SetSum(Due(new, w), DOMAIN list) = SetSum(Due(list, w), DOMAIN list) - Due(list, w)[i] + Due(new, w)[i]
  <2>1. PICK f, g, dom : f = Due(list, w) /\ g = Due(new, w) /\ dom = DOMAIN list
    OBVIOUS
  <2>2. IsFiniteSet(dom) /\ i \in dom /\ \A x \in dom : f[x] \in Int /\ g[x] \in Int
    BY <1>1, <1>2, <2>1
  <2>3. \A x \in dom \ {i} : g[x] = f[x]
    BY <1>3, <2>1
  <2>4. SetSum(f, dom) = f[i] + SetSum(f, dom \ {i}) /\ SetSum(g, dom) = g[i] + SetSum(g, dom \ {i})
    BY <2>2, SetSumTakes
  <2>5. SetSum(g, dom \ {i}) = SetSum(f, dom \ {i}) /\ SetSum(f, dom \ {i}) \in Int
    <3>1. IsFiniteSet(dom \ {i})
      BY <2>2, FS_Subset
    <3> QED BY <2>2, <2>3, <3>1, SameSums, SetSumSteps
  <2>6. SetSum(g, dom) = SetSum(f, dom) - f[i] + g[i]
    BY <2>2, <2>4, <2>5
  <2> QED BY <2>1, <2>6
<1> QED BY <1>1, <1>4 DEF AllDue

\* A withdrawal that begins is not due.
LEMMA DueBegins ==
    ASSUME NEW list \in Seq(Withdrawals), NEW x \in Withdrawals, x.chain = "pending", NEW w
    PROVE  AllDue(Append(list, x), w) = AllDue(list, w)
<1> DEFINE n == Len(list)
           new == Append(list, x)
<1>1. /\ n \in Nat /\ DOMAIN list = 1 .. n /\ DOMAIN new = 1 .. n + 1 /\ new \in Seq(Withdrawals)
      /\ new[n + 1] = x /\ \A i \in 1 .. n : new[i] = list[i]
  OBVIOUS
<1> HIDE DEF n, new
<1>2. DOMAIN new = DOMAIN list \cup {n + 1} /\ n + 1 \notin DOMAIN list
  BY <1>1
<1>3. IsFiniteSet(DOMAIN list) /\ \A i \in DOMAIN list : Due(list, w)[i] \in Nat
  BY DueIs
<1>4. \A i \in DOMAIN new : Due(new, w)[i] \in Nat
  BY <1>1, DueIs
<1>5. Due(new, w)[n + 1] = 0
  BY <1>1, <1>2 DEF Due
<1>6. \A i \in DOMAIN list : Due(new, w)[i] = Due(list, w)[i]
  BY <1>1, <1>2 DEF Due
<1>7. SetSum(Due(new, w), DOMAIN list \cup {n + 1}) = Due(new, w)[n + 1] + SetSum(Due(new, w), DOMAIN list)
  <2>1. PICK g : g = Due(new, w)
    OBVIOUS
  <2>2. \A y \in DOMAIN list \cup {n + 1} : g[y] \in Int
    BY <1>2, <1>4, <2>1
  <2>3. SetSum(g, DOMAIN list \cup {n + 1}) = g[n + 1] + SetSum(g, DOMAIN list)
    BY <1>2, <1>3, <2>2, SetSumAdds
  <2> QED BY <2>1, <2>3
<1>8. SetSum(Due(new, w), DOMAIN list) = SetSum(Due(list, w), DOMAIN list)
  BY <1>3, <1>6, SameSums
<1>9. SetSum(Due(list, w), DOMAIN list) \in Int
  BY <1>3, SetSumSteps
<1> QED BY <1>2, <1>5, <1>7, <1>8, <1>9 DEF AllDue, new

-----------------------------------------------------------------------------
(* The steps of the dashboard. *)

\* What is shown is covered by what the contract holds and what is due.
Covered == \A s \in shown : s.balance <= ledger[s.owner] + AllDue(withdrawals, s.owner)

DashInv == DashTypes /\ OwnScreen /\ Timely /\ HasProfile /\ (causes = {} => Covered)

LEMMA Numbers == B!Missing = -1 /\ B!Unread = -2 /\ B!Unset = -3
BY DEF B!Missing, B!Unread, B!Unset

LEMMA GreaterOfTwo == ASSUME NEW x \in Int PROVE B!Max({0, x}) = IF x > 0 THEN x ELSE 0
<1>1. \E y \in {0, x} : \A z \in {0, x} : y >= z
  <2>1. CASE x > 0
    BY <2>1
  <2>2. CASE ~(x > 0)
    BY <2>2
  <2> QED BY <2>1, <2>2
<1>2. B!Max({0, x}) \in {0, x} /\ \A z \in {0, x} : B!Max({0, x}) >= z
  BY <1>1 DEF B!Max
<1> QED BY <1>2

LEMMA GreatestOfOne == ASSUME NEW x \in Nat PROVE B!Max({x}) = x
BY DEF B!Max

LEMMA WithdrawalIs == ASSUME DashTypes, NEW i \in DOMAIN withdrawals PROVE withdrawals[i] \in Withdrawals
<1>1. withdrawals \in Seq(Withdrawals)
  BY DEF DashTypes
<1> QED BY <1>1, MemberIs

\* What is shown, and what is under way, has the fields it was made with.
LEMMA ScreenIs ==
    ASSUME DashTypes
    PROVE  /\ \A s \in shown : s \in Screens /\ shown = {s}
           /\ \A f \in flight : f \in Fetches /\ flight = {f}
BY DEF DashTypes

\* A fetch begins, or the one under way goes on.
LEMMA FetchingIs ==
    ASSUME DashTypes, NEW w \in Wallets
    PROVE  /\ B!Fetching(w) = {} \/ \E f \in Fetches : B!Fetching(w) = {f}
           /\ \A f \in B!Fetching(w) :
                 \/ flight = {} /\ f.for = w /\ f.answer = B!Unread
                 \/ f \in flight /\ B!Fetching(w) = flight
<1> DEFINE new == [for |-> w, answer |-> B!Unread]
<1>1. new \in Fetches /\ new.for = w /\ new.answer = B!Unread
  BY DEF Fetches
<1>2. B!Fetching(w) = IF flight = {} THEN {new} ELSE flight
  BY DEF B!Fetching
<1> HIDE DEF new
<1> QED BY <1>1, <1>2 DEF DashTypes

LEMMA DashInitInv == B!DashboardAssumption /\ B!Init => DashInv
<1> SUFFICES ASSUME B!DashboardAssumption, B!Init PROVE DashInv
  OBVIOUS
<1>1. ledger \in [Wallets -> Nat \cup {B!Missing}]
  BY DEF B!DashboardAssumption, B!Init
<1>2. /\ wallet = B!None /\ shown = {} /\ flight = {} /\ polling = TRUE /\ failed = FALSE
      /\ before = B!Unset /\ withdrawals = <<>> /\ causes = {}
  BY DEF B!Init
<1>3. <<>> \in Seq(Withdrawals)
  OBVIOUS
<1>4. withdrawals \in Seq(Withdrawals)
  BY <1>2, <1>3 DEF B!Init
<1>5. DashTypes
  BY <1>1, <1>2, <1>4 DEF DashTypes
<1> QED BY <1>2, <1>5 DEF DashInv, OwnScreen, Timely, HasProfile, Covered

LEMMA DashSelected ==
    ASSUME B!DashboardAssumption, DashInv, NEW w \in Wallets \cup {B!None}, B!Select(w) PROVE DashInv'
<1>1. /\ wallet' = w /\ shown' = {} /\ polling' = TRUE /\ failed' = FALSE
      /\ flight' = IF w = B!None THEN flight ELSE B!Fetching(w)
      /\ causes' = IF flight = {} THEN causes ELSE causes \cup {"mixed"}
      /\ UNCHANGED <<ledger, before, withdrawals>>
  BY DEF B!Select
<1>2. DashTypes /\ OwnScreen /\ Timely /\ HasProfile
  BY DEF DashInv
<1>3. /\ flight' = {} \/ \E f \in Fetches : flight' = {f}
      /\ \A f \in flight' : \/ flight = {} /\ f.for = w /\ f.answer = B!Unread
                            \/ f \in flight
  <2>1. CASE w = B!None
    BY <1>1, <1>2, <2>1 DEF DashTypes
  <2>2. CASE w # B!None
    <3>1. w \in Wallets /\ flight' = B!Fetching(w)
      BY <1>1, <2>2
    <3> QED BY <1>2, <3>1, FetchingIs
  <2> QED BY <2>1, <2>2
<1>4. DashTypes'
  BY <1>1, <1>2, <1>3 DEF DashTypes
<1>5. OwnScreen'
  BY <1>1, <1>3 DEF OwnScreen
<1>6. Timely' /\ HasProfile'
  BY <1>1, <1>2, <1>3, Numbers DEF Timely, HasProfile
<1> QED BY <1>1, <1>4, <1>5, <1>6 DEF DashInv, Covered

\* A poll or a refetch changes what is under way alone.
LEMMA DashAsked ==
    ASSUME DashInv, wallet \in Wallets, flight' = B!Fetching(wallet),
           polling' \in BOOLEAN, failed' \in BOOLEAN,
           UNCHANGED <<wallet, ledger, shown, before, withdrawals, causes>>
    PROVE  DashInv'
<1>1. DashTypes /\ OwnScreen /\ Timely /\ HasProfile
  BY DEF DashInv
<1>2. /\ flight' = {} \/ \E f \in Fetches : flight' = {f}
      /\ \A f \in flight' : \/ f.for = wallet /\ f.answer = B!Unread
                            \/ f \in flight
  BY <1>1, FetchingIs
<1>3. DashTypes'
  BY <1>1, <1>2 DEF DashTypes
<1>4. OwnScreen' /\ Timely' /\ HasProfile'
  BY <1>1, <1>2, Numbers DEF OwnScreen, Timely, HasProfile
<1> QED BY <1>3, <1>4 DEF DashInv, Covered

LEMMA DashRead == ASSUME DashInv, B!Read PROVE DashInv'
<1>1. PICK f \in flight : f.answer = B!Unread /\ flight' = {[f EXCEPT !.answer = ledger[f.for]]}
  BY DEF B!Read
<1>2. UNCHANGED <<wallet, ledger, shown, polling, failed, before, withdrawals, causes>>
  BY DEF B!Read
<1>3. DashTypes /\ OwnScreen /\ Timely /\ HasProfile
  BY DEF DashInv
<1> DEFINE got == [f EXCEPT !.answer = ledger[f.for]]
<1>4. f \in Fetches /\ f.for \in Wallets /\ ledger[f.for] \in Nat \cup {B!Missing}
  BY <1>3, ScreenIs DEF Fetches, DashTypes
<1>5. got \in Fetches /\ got.for = f.for /\ got.answer = ledger[f.for]
  BY <1>4 DEF Fetches
<1>6. flight' = {got}
  BY <1>1
<1> HIDE DEF got
<1>7. DashTypes'
  BY <1>2, <1>3, <1>5, <1>6 DEF DashTypes
<1>8. OwnScreen'
  BY <1>2, <1>3, <1>5, <1>6 DEF OwnScreen
<1>9. Timely' /\ HasProfile'
  BY <1>2, <1>3, <1>4, <1>5, <1>6, Numbers DEF Timely, HasProfile
<1> QED BY <1>2, <1>7, <1>8, <1>9 DEF DashInv, Covered

LEMMA DashAnswered == ASSUME DashInv, B!Answer PROVE DashInv'
<1>1. PICK f \in flight :
          /\ f.answer # B!Unread /\ polling' = (f.answer # B!Missing)
          /\ shown' = IF f.answer = B!Missing THEN {} ELSE {[owner |-> f.for, balance |-> f.answer]}
          /\ causes' = IF f.for = wallet /\ f.answer = ledger[wallet] THEN {} ELSE causes
  BY DEF B!Answer, B!Cleared
<1>2. flight' = {} /\ UNCHANGED <<wallet, ledger, failed, before, withdrawals>>
  BY DEF B!Answer
<1>3. DashTypes /\ OwnScreen /\ Timely /\ HasProfile
  BY DEF DashInv
<1>4. f.for \in Wallets /\ f.answer \in Nat \cup {B!Missing} /\ ledger[f.for] \in Nat \cup {B!Missing}
  BY <1>1, <1>3, ScreenIs DEF Fetches, DashTypes
<1> DEFINE s == [owner |-> f.for, balance |-> f.answer]
<1>5. f.answer # B!Missing => s \in Screens
  BY <1>4 DEF Screens
<1>6. s.owner = f.for /\ s.balance = f.answer
  OBVIOUS
<1>7. shown' = IF f.answer = B!Missing THEN {} ELSE {s}
  BY <1>1
<1> HIDE DEF s
<1>8. DashTypes'
  BY <1>1, <1>2, <1>3, <1>5, <1>7 DEF DashTypes
<1>9. OwnScreen'
  <2>1. "mixed" \notin causes' => f.for = wallet
    BY <1>1, <1>3 DEF OwnScreen
  <2> QED BY <1>2, <1>6, <1>7, <2>1 DEF OwnScreen
<1>10. Timely' /\ HasProfile'
  BY <1>2, <1>3, <1>4, <1>6, <1>7 DEF Timely, HasProfile
<1>11. ASSUME causes' = {} PROVE Covered'
  <2>1. f.answer <= ledger[f.for]
    <3>1. CASE f.for = wallet /\ f.answer = ledger[wallet]
      BY <1>4, <3>1, Numbers
    <3>2. CASE ~(f.for = wallet /\ f.answer = ledger[wallet])
      BY <1>1, <1>3, <1>11, <3>2 DEF Timely
    <3> QED BY <3>1, <3>2
  <2>2. AllDue(withdrawals, f.for) \in Nat
    BY <1>3, DueIs DEF DashTypes
  <2>3. f.answer # B!Missing => f.answer <= ledger[f.for] + AllDue(withdrawals, f.for)
    BY <1>4, <2>1, <2>2, Numbers
  <2> QED BY <1>2, <1>6, <1>7, <2>3 DEF Covered
<1> QED BY <1>8, <1>9, <1>10, <1>11 DEF DashInv

LEMMA DashFailed == ASSUME DashInv, B!AnswerFails PROVE DashInv'
<1>1. /\ flight' = {} /\ failed' = TRUE
      /\ UNCHANGED <<wallet, ledger, shown, polling, before, withdrawals, causes>>
  BY DEF B!AnswerFails
<1> QED BY <1>1 DEF DashInv, DashTypes, OwnScreen, Timely, HasProfile, Covered

\* A withdrawal that goes on keeps its place; what is due changes by its own part.
LEMMA WithdrawalGoesOn ==
    ASSUME DashTypes, NEW i \in DOMAIN withdrawals, NEW x \in Withdrawals,
           withdrawals' = [withdrawals EXCEPT ![i] = x]
    PROVE  /\ withdrawals' \in Seq(Withdrawals)
           /\ \A w : /\ AllDue(withdrawals, w) \in Nat /\ AllDue(withdrawals', w) \in Nat
                     /\ AllDue(withdrawals', w) =
                           AllDue(withdrawals, w) - Due(withdrawals, w)[i]
                           + (IF x.from = w /\ x.chain = "landed" /\ ~x.reported THEN x.amount ELSE 0)
<1>1. withdrawals \in Seq(Withdrawals)
  BY DEF DashTypes
<1>2. withdrawals' \in Seq(Withdrawals) /\ DOMAIN withdrawals' = DOMAIN withdrawals /\ withdrawals'[i] = x
      /\ \A j \in DOMAIN withdrawals \ {i} : withdrawals'[j] = withdrawals[j]
  BY <1>1
<1>3. ASSUME NEW w
      PROVE  /\ AllDue(withdrawals, w) \in Nat /\ AllDue(withdrawals', w) \in Nat
             /\ AllDue(withdrawals', w) =
                   AllDue(withdrawals, w) - Due(withdrawals, w)[i] + Due(withdrawals', w)[i]
  <2>1. PICK list, new : list = withdrawals /\ new = withdrawals'
    OBVIOUS
  <2>2. /\ list \in Seq(Withdrawals) /\ new \in Seq(Withdrawals) /\ DOMAIN new = DOMAIN list
        /\ i \in DOMAIN list /\ \A j \in DOMAIN list \ {i} : new[j] = list[j]
    BY <1>1, <1>2, <2>1
  <2>3. /\ AllDue(list, w) \in Nat /\ AllDue(new, w) \in Nat
        /\ AllDue(new, w) = AllDue(list, w) - Due(list, w)[i] + Due(new, w)[i]
    BY <2>2, DueChanges
  <2> QED BY <2>1, <2>3
<1>4. ASSUME NEW w
      PROVE  Due(withdrawals', w)[i] =
                 IF x.from = w /\ x.chain = "landed" /\ ~x.reported THEN x.amount ELSE 0
  BY <1>2 DEF Due
<1> QED BY <1>2, <1>3, <1>4

\* What is due of the withdrawal itself.
LEMMA DueOf ==
    ASSUME DashTypes, NEW i \in DOMAIN withdrawals, NEW w
    PROVE  /\ Due(withdrawals, w)[i] \in Nat
           /\ Due(withdrawals, w)[i] =
                 IF /\ withdrawals[i].from = w
                    /\ withdrawals[i].chain = "landed" /\ ~withdrawals[i].reported
                 THEN withdrawals[i].amount ELSE 0
<1>1. withdrawals[i].amount \in Nat
  BY WithdrawalIs DEF Withdrawals
<1> QED BY <1>1 DEF Due

LEMMA DashWithdrawn == ASSUME DashInv, B!HandleWithdraw PROVE DashInv'
<1>1. wallet # B!None /\ UNCHANGED <<wallet, ledger, shown, flight, polling, failed, before, causes>>
  BY DEF B!HandleWithdraw
<1>2. PICK s \in shown : \E a \in 1 .. s.balance :
         withdrawals' = Append(withdrawals, [from |-> wallet, amount |-> a,
                                             chain |-> "pending", reported |-> FALSE])
  BY DEF B!HandleWithdraw
<1>3. PICK a \in 1 .. s.balance :
         withdrawals' = Append(withdrawals, [from |-> wallet, amount |-> a,
                                             chain |-> "pending", reported |-> FALSE])
  BY <1>2
<1>4. DashTypes /\ OwnScreen /\ Timely /\ HasProfile
  BY DEF DashInv
<1> DEFINE x == [from |-> wallet, amount |-> a, chain |-> "pending", reported |-> FALSE]
<1>5. x \in Withdrawals /\ x.chain = "pending"
  <2>1. s.balance \in Nat
    BY <1>4, ScreenIs DEF Screens
  <2> QED BY <1>1, <1>4, <2>1 DEF DashTypes, Withdrawals
<1>6. withdrawals' = Append(withdrawals, x) /\ withdrawals \in Seq(Withdrawals)
  BY <1>3, <1>4 DEF DashTypes
<1> HIDE DEF x
<1>7. withdrawals' \in Seq(Withdrawals) /\ \A w : AllDue(withdrawals', w) = AllDue(withdrawals, w)
  <2>1. Append(withdrawals, x) \in Seq(Withdrawals)
    BY <1>5, <1>6
  <2> QED BY <1>5, <1>6, <2>1, DueBegins
<1>8. DashTypes'
  BY <1>1, <1>4, <1>7 DEF DashTypes
<1> QED BY <1>1, <1>4, <1>7, <1>8 DEF DashInv, OwnScreen, Timely, HasProfile, Covered

LEMMA DashLanded == ASSUME DashInv, NEW i \in DOMAIN withdrawals, B!Land(i) PROVE DashInv'
<1> DEFINE w == withdrawals[i].from
           a == withdrawals[i].amount
           pays == ledger[w] >= a
           to == IF pays THEN "landed" ELSE "dropped"
           x == [withdrawals[i] EXCEPT !.chain = to]
<1>1. /\ withdrawals[i].chain = "pending"
      /\ withdrawals' = [withdrawals EXCEPT ![i] = x]
      /\ ledger' = IF pays THEN [ledger EXCEPT ![w] = @ - a] ELSE ledger
      /\ causes' = causes \cup (IF pays /\ B!Early(w) THEN {"early"} ELSE {})
                          \cup (IF pays /\ withdrawals[i].reported THEN {"lost"} ELSE {})
      /\ UNCHANGED <<wallet, shown, flight, polling, failed, before>>
  BY DEF B!Land
<1>2. DashTypes /\ OwnScreen /\ Timely /\ HasProfile
  BY DEF DashInv
<1>3. w \in Wallets /\ a \in Nat /\ withdrawals[i].reported \in BOOLEAN /\ withdrawals[i] \in Withdrawals
  BY <1>2, WithdrawalIs DEF Withdrawals
<1>4. to \in {"pending", "landed", "dropped"}
  OBVIOUS
<1> HIDE DEF to
<1>5. x \in Withdrawals /\ x.from = w /\ x.amount = a /\ x.chain = to
      /\ x.reported = withdrawals[i].reported
  BY <1>3, <1>4 DEF Withdrawals
<1> HIDE DEF x
<1>6. /\ withdrawals' \in Seq(Withdrawals)
      /\ \A v : /\ AllDue(withdrawals, v) \in Nat /\ AllDue(withdrawals', v) \in Nat
                /\ AllDue(withdrawals', v) =
                      AllDue(withdrawals, v) - Due(withdrawals, v)[i]
                      + (IF x.from = v /\ x.chain = "landed" /\ ~x.reported THEN x.amount ELSE 0)
  BY <1>1, <1>2, <1>5, WithdrawalGoesOn
<1>7. \A v : Due(withdrawals, v)[i] = 0
  BY <1>1, <1>2, DueOf
<1>8. \A v \in Wallets : ledger[v] \in Nat \cup {B!Missing}
  BY <1>2 DEF DashTypes
<1>9. ledger' \in [Wallets -> Nat \cup {B!Missing}] /\ \A v \in Wallets \ {w} : ledger'[v] = ledger[v]
  <2>1. CASE pays
    <3>1. ledger[w] \in Nat /\ ledger[w] - a \in Nat
      BY <1>3, <1>8, <2>1, Numbers
    <3> QED BY <1>1, <1>2, <1>3, <2>1, <3>1 DEF DashTypes
  <2>2. CASE ~pays
    BY <1>1, <1>2, <2>2 DEF DashTypes
  <2> QED BY <2>1, <2>2
<1>10. /\ ledger'[w] = IF pays THEN ledger[w] - a ELSE ledger[w]
       /\ ledger[w] \in Nat => ledger'[w] \in Nat
  BY <1>1, <1>2, <1>3, <1>8 DEF DashTypes
<1> HIDE DEF w, a
<1>11. DashTypes'
  BY <1>1, <1>2, <1>6, <1>9 DEF DashTypes
<1>12. OwnScreen'
  BY <1>1, <1>2 DEF OwnScreen
<1>13. ASSUME NEW v \in Wallets, ledger[v] \in Nat PROVE ledger'[v] \in Nat
  BY <1>9, <1>10, <1>13
<1>14. HasProfile'
  <2>1. (\A f \in flight : f.for \in Wallets) /\ \A s \in shown : s.owner \in Wallets
    BY <1>2, ScreenIs DEF Fetches, Screens
  <2> QED BY <1>1, <1>2, <1>13, <2>1 DEF HasProfile
<1>15. Timely'
  <2> SUFFICES ASSUME "early" \notin causes', NEW f \in flight', f.answer # B!Unread
               PROVE  f.answer <= ledger'[f.for]
    BY DEF Timely
  <2>1. f \in flight /\ f.for \in Wallets /\ "early" \notin causes /\ f.answer <= ledger[f.for]
    BY <1>1, <1>2, ScreenIs DEF Fetches, Timely
  <2>2. ~(pays /\ f.for = w)
    BY <1>1, <2>1 DEF B!Early
  <2> QED BY <1>9, <1>10, <2>1, <2>2
<1>16. ASSUME causes' = {} PROVE Covered'
  <2> SUFFICES ASSUME NEW s \in shown
               PROVE  s.balance <= ledger'[s.owner] + AllDue(withdrawals', s.owner)
    BY <1>1 DEF Covered
  <2>1. s.owner \in Wallets /\ s.balance \in Nat
    BY <1>2, ScreenIs DEF Screens
  <2>2. causes = {} /\ ~(pays /\ withdrawals[i].reported)
    BY <1>1, <1>16
  <2>3. s.balance <= ledger[s.owner] + AllDue(withdrawals, s.owner)
    BY <2>2 DEF DashInv, Covered
  <2>4. CASE s.owner # w
    <3>1. AllDue(withdrawals', s.owner) = AllDue(withdrawals, s.owner)
      BY <1>5, <1>6, <1>7, <2>4
    <3> QED BY <1>9, <2>1, <2>3, <2>4, <3>1
  <2>5. CASE s.owner = w /\ pays
    <3>1. AllDue(withdrawals', w) = AllDue(withdrawals, w) + a
      <4>1. x.from = w /\ x.chain = "landed" /\ ~x.reported /\ x.amount = a
        BY <1>5, <2>2, <2>5 DEF to
      <4> QED BY <1>3, <1>6, <1>7, <4>1
    <3>2. ledger'[w] = ledger[w] - a /\ ledger[w] \in Int /\ AllDue(withdrawals, w) \in Int /\ a \in Int
      BY <1>3, <1>6, <1>8, <1>10, <2>5, Numbers
    <3> QED BY <2>1, <2>3, <2>5, <3>1, <3>2
  <2>6. CASE s.owner = w /\ ~pays
    <3>1. AllDue(withdrawals', w) = AllDue(withdrawals, w)
      BY <1>5, <1>6, <1>7, <2>6 DEF to
    <3> QED BY <1>10, <2>3, <2>6, <3>1
  <2> QED BY <2>4, <2>5, <2>6
<1> QED BY <1>11, <1>12, <1>14, <1>15, <1>16 DEF DashInv

\* What the next withdrawals have taken off.
LEMMA ScreenTakenOff ==
    ASSUME DashTypes, NEW amount \in Nat, B!Apply(amount)
    PROVE  /\ shown' = {} \/ \E s \in Screens : shown' = {s}
           /\ before' \in Nat \cup {B!Unset}
           /\ \A s \in shown' :
                 \E old \in shown : /\ s.owner = old.owner
                                    /\ s.balance = IF old.balance > amount THEN old.balance - amount ELSE 0
<1>1. /\ shown' = {[s EXCEPT !.balance = B!Max({0, @ - amount})] : s \in shown}
      /\ before' = IF before = B!Unset /\ shown # {} THEN B!Max({s.balance : s \in shown}) ELSE before
  BY DEF B!Apply
<1>2. CASE shown = {}
  BY <1>1, <1>2 DEF DashTypes
<1>3. CASE shown # {}
  <2>1. PICK old \in Screens : shown = {old}
    BY <1>3 DEF DashTypes
  <2>2. old.balance \in Nat /\ old.owner \in Wallets
    BY DEF Screens
  <2> DEFINE rest == B!Max({0, old.balance - amount})
             s == [old EXCEPT !.balance = rest]
  <2>3. rest = IF old.balance > amount THEN old.balance - amount ELSE 0
    <3>1. old.balance - amount \in Int
      BY <2>2
    <3>2. rest = IF old.balance - amount > 0 THEN old.balance - amount ELSE 0
      BY <3>1, GreaterOfTwo
    <3> QED BY <2>2, <3>2
  <2>4. rest \in Nat
    BY <2>2, <2>3
  <2>5. shown' = {s}
    BY <1>1, <2>1
  <2> HIDE DEF rest
  <2>6. s \in Screens /\ s.owner = old.owner /\ s.balance = rest
    BY <2>4 DEF Screens
  <2>7. {t.balance : t \in shown} = {old.balance}
    BY <2>1
  <2>8. before' \in Nat \cup {B!Unset}
    BY <1>1, <2>2, <2>7, GreatestOfOne DEF DashTypes
  <2> HIDE DEF s
  <2> QED BY <2>1, <2>3, <2>5, <2>6, <2>8
<1> QED BY <1>2, <1>3

LEMMA DashSucceeded ==
    ASSUME DashInv, NEW i \in DOMAIN withdrawals, B!HandleWithdrawSuccess(i) PROVE DashInv'
<1> DEFINE w == withdrawals[i].from
           a == withdrawals[i].amount
           x == [withdrawals[i] EXCEPT !.reported = TRUE]
<1>1. /\ withdrawals[i].chain = "landed" /\ ~withdrawals[i].reported
      /\ B!Apply(a)
      /\ withdrawals' = [withdrawals EXCEPT ![i] = x]
      /\ polling' = TRUE /\ flight' = B!Fetching(w)
      /\ failed' = (failed /\ flight # {})
      /\ causes' = IF w = wallet THEN causes ELSE causes \cup {"mixed"}
      /\ UNCHANGED <<wallet, ledger>>
  BY DEF B!HandleWithdrawSuccess
<1>2. DashTypes /\ OwnScreen /\ Timely /\ HasProfile
  BY DEF DashInv
<1>3. w \in Wallets /\ a \in Nat /\ withdrawals[i] \in Withdrawals
  BY <1>2, WithdrawalIs DEF Withdrawals
<1>4. x \in Withdrawals /\ x.reported = TRUE
  BY <1>3 DEF Withdrawals
<1> HIDE DEF x
<1>5. /\ withdrawals' \in Seq(Withdrawals)
      /\ \A v : /\ AllDue(withdrawals, v) \in Nat /\ AllDue(withdrawals', v) \in Nat
                /\ AllDue(withdrawals', v) =
                      AllDue(withdrawals, v) - Due(withdrawals, v)[i]
                      + (IF x.from = v /\ x.chain = "landed" /\ ~x.reported THEN x.amount ELSE 0)
  BY <1>1, <1>2, <1>4, WithdrawalGoesOn
<1>6. AllDue(withdrawals', w) = AllDue(withdrawals, w) - a
  <2>1. Due(withdrawals, w)[i] = a
    BY <1>1, <1>2, DueOf
  <2>2. AllDue(withdrawals, w) \in Int /\ AllDue(withdrawals', w) = AllDue(withdrawals, w) - a + 0
    BY <1>4, <1>5, <2>1
  <2> QED BY <1>3, <2>2
<1>7. /\ flight' = {} \/ \E f \in Fetches : flight' = {f}
      /\ \A f \in flight' : \/ f.for = w /\ f.answer = B!Unread
                            \/ f \in flight
  BY <1>1, <1>2, <1>3, FetchingIs
<1>8. /\ shown' = {} \/ \E s \in Screens : shown' = {s}
      /\ before' \in Nat \cup {B!Unset}
      /\ \A s \in shown' :
            \E old \in shown : /\ s.owner = old.owner
                               /\ s.balance = IF old.balance > a THEN old.balance - a ELSE 0
  BY <1>1, <1>2, <1>3, ScreenTakenOff
<1> HIDE DEF w, a
<1>9. failed' \in BOOLEAN
  BY <1>1
<1>10. causes' \subseteq {"mixed", "early", "reverted", "lost"}
  BY <1>1, <1>2 DEF DashTypes
<1>11. DashTypes'
  BY <1>1, <1>2, <1>5, <1>7, <1>8, <1>9, <1>10 DEF DashTypes
<1>12. OwnScreen'
  <2> SUFFICES ASSUME "mixed" \notin causes'
               PROVE  (\A f \in flight' : f.for = wallet) /\ \A s \in shown' : s.owner = wallet
    BY <1>1 DEF OwnScreen
  <2>1. w = wallet /\ "mixed" \notin causes
    BY <1>1
  <2>2. (\A f \in flight : f.for = wallet) /\ \A s \in shown : s.owner = wallet
    BY <1>2, <2>1 DEF OwnScreen
  <2> QED BY <1>7, <1>8, <2>1, <2>2
<1>13. Timely'
  <2>1. "early" \notin causes' => "early" \notin causes
    BY <1>1
  <2> QED BY <1>1, <1>2, <1>7, <2>1 DEF Timely
<1>14. HasProfile'
  BY <1>1, <1>2, <1>7, <1>8, Numbers DEF HasProfile
<1>15. ASSUME causes' = {} PROVE Covered'
  <2> SUFFICES ASSUME NEW s \in shown'
               PROVE  s.balance <= ledger[s.owner] + AllDue(withdrawals', s.owner)
    BY <1>1 DEF Covered
  <2>1. PICK old \in shown : /\ s.owner = old.owner
                             /\ s.balance = IF old.balance > a THEN old.balance - a ELSE 0
    BY <1>8
  <2>2. causes = {} /\ w = wallet
    BY <1>1, <1>15
  <2>3. old.owner = w /\ old.balance \in Nat /\ ledger[w] \in Nat
    <3>1. old.owner = wallet /\ ledger[old.owner] \in Nat
      BY <1>2, <2>2 DEF OwnScreen, HasProfile
    <3>2. old.balance \in Nat
      BY <1>2, ScreenIs DEF Screens
    <3> QED BY <2>2, <3>1, <3>2
  <2>4. old.balance <= ledger[w] + AllDue(withdrawals, w)
    BY <2>2, <2>3 DEF DashInv, Covered
  <2>5. AllDue(withdrawals, w) \in Nat /\ AllDue(withdrawals', w) \in Nat
    BY <1>5
  <2>6. CASE old.balance > a
    BY <1>3, <1>6, <2>1, <2>3, <2>4, <2>5, <2>6
  <2>7. CASE ~(old.balance > a)
    BY <2>1, <2>3, <2>5, <2>7
  <2> QED BY <2>6, <2>7
<1> QED BY <1>11, <1>12, <1>13, <1>14, <1>15 DEF DashInv

\* What a failure puts back is the balance kept.
LEMMA ScreenPutBack ==
    ASSUME DashTypes, before # B!Unset, shown' = {[s EXCEPT !.balance = before] : s \in shown}
    PROVE  /\ shown' = {} \/ \E s \in Screens : shown' = {s}
           /\ \A s \in shown' : \E old \in shown : s.owner = old.owner
<1>1. CASE shown = {}
  BY <1>1
<1>2. CASE shown # {}
  <2>1. PICK old \in Screens : shown = {old}
    BY <1>2 DEF DashTypes
  <2> DEFINE s == [old EXCEPT !.balance = before]
  <2>2. s \in Screens /\ s.owner = old.owner
    BY DEF Screens, DashTypes
  <2>3. shown' = {s}
    BY <2>1
  <2> HIDE DEF s
  <2> QED BY <2>1, <2>2, <2>3
<1> QED BY <1>1, <1>2

LEMMA DashNotWithdrawn ==
    ASSUME DashInv, NEW i \in DOMAIN withdrawals, B!HandleWithdrawFailure(i) PROVE DashInv'
<1>1. PICK x \in Withdrawals : x.reported = TRUE /\ withdrawals' = [withdrawals EXCEPT ![i] = x]
  <2>1. withdrawals[i] \in Withdrawals /\ withdrawals \in Seq(Withdrawals)
    BY WithdrawalIs DEF DashInv, DashTypes
  <2> DEFINE told == [withdrawals[i] EXCEPT !.reported = TRUE]
  <2>2. told \in Withdrawals /\ told.reported = TRUE
    BY <2>1 DEF Withdrawals
  <2>3. CASE withdrawals' = [withdrawals EXCEPT ![i].reported = TRUE]
    BY <2>2, <2>3
  <2>4. CASE \E c \in {"pending", "dropped"} :
                withdrawals' = [withdrawals EXCEPT ![i].reported = TRUE, ![i].chain = c]
    <3>1. PICK c \in {"pending", "dropped"} :
             withdrawals' = [withdrawals EXCEPT ![i].reported = TRUE, ![i].chain = c]
      BY <2>4
    <3>2. withdrawals' = [withdrawals EXCEPT ![i] = [told EXCEPT !.chain = c]]
      BY <2>1, <3>1
    <3> HIDE DEF told
    <3>3. [told EXCEPT !.chain = c] \in Withdrawals /\ [told EXCEPT !.chain = c].reported = TRUE
      BY <2>2 DEF Withdrawals
    <3> QED BY <3>2, <3>3
  <2> QED BY <2>3, <2>4 DEF B!HandleWithdrawFailure
<1>2. /\ B!Revert
      /\ withdrawals[i].chain \in {"dropped", "pending"}
      /\ UNCHANGED <<wallet, ledger, flight, polling, failed>>
  BY DEF B!HandleWithdrawFailure
<1>3. DashTypes /\ OwnScreen /\ Timely /\ HasProfile
  BY DEF DashInv
<1>4. /\ withdrawals' \in Seq(Withdrawals)
      /\ \A v : AllDue(withdrawals', v) = AllDue(withdrawals, v)
  <2>1. /\ withdrawals' \in Seq(Withdrawals)
        /\ \A v : /\ AllDue(withdrawals, v) \in Nat /\ AllDue(withdrawals', v) \in Nat
                  /\ AllDue(withdrawals', v) =
                        AllDue(withdrawals, v) - Due(withdrawals, v)[i]
                        + (IF x.from = v /\ x.chain = "landed" /\ ~x.reported THEN x.amount ELSE 0)
    BY <1>1, <1>3, WithdrawalGoesOn
  <2>2. ASSUME NEW v PROVE Due(withdrawals, v)[i] = 0
    <3>1. Due(withdrawals, v)[i] =
             IF /\ withdrawals[i].from = v
                /\ withdrawals[i].chain = "landed" /\ ~withdrawals[i].reported
             THEN withdrawals[i].amount ELSE 0
      BY <1>3, DueOf
    <3>2. withdrawals[i].chain # "landed"
      BY <1>2
    <3> QED BY <3>1, <3>2
  <2>3. ASSUME NEW v PROVE AllDue(withdrawals', v) = AllDue(withdrawals, v)
    <3>1. ~(x.from = v /\ x.chain = "landed" /\ ~x.reported)
      BY <1>1
    <3>2. AllDue(withdrawals, v) \in Int /\ AllDue(withdrawals', v) = AllDue(withdrawals, v) - 0 + 0
      BY <2>1, <2>2, <3>1
    <3> QED BY <3>2
  <2> QED BY <2>1, <2>3
<1>5. CASE before = B!Unset
  <2>1. UNCHANGED <<shown, before, causes>>
    BY <1>2, <1>5 DEF B!Revert
  <2>2. DashTypes'
    BY <1>2, <1>3, <1>4, <2>1 DEF DashTypes
  <2> QED BY <1>2, <1>3, <1>4, <2>1, <2>2 DEF DashInv, OwnScreen, Timely, HasProfile, Covered
<1>6. CASE before # B!Unset
  <2>1. /\ before' = B!Unset /\ shown' = {[s EXCEPT !.balance = before] : s \in shown}
        /\ causes' = causes \cup {"reverted"}
    BY <1>2, <1>6 DEF B!Revert
  <2>2. /\ shown' = {} \/ \E s \in Screens : shown' = {s}
        /\ \A s \in shown' : \E old \in shown : s.owner = old.owner
    BY <1>3, <1>6, <2>1, ScreenPutBack
  <2>3. DashTypes'
    BY <1>2, <1>3, <1>4, <2>1, <2>2 DEF DashTypes
  <2>4. OwnScreen'
    BY <1>2, <1>3, <2>1, <2>2 DEF OwnScreen
  <2>5. Timely'
    BY <1>2, <1>3, <2>1 DEF Timely
  <2>6. HasProfile'
    BY <1>2, <1>3, <2>2 DEF HasProfile
  <2>7. causes' # {}
    BY <2>1
  <2> QED BY <2>3, <2>4, <2>5, <2>6, <2>7 DEF DashInv
<1> QED BY <1>5, <1>6

LEMMA DashTipped == ASSUME DashInv, NEW w \in Wallets, B!TipArrives(w) PROVE DashInv'
<1>1. /\ ledger[w] # B!Missing /\ ledger' = [ledger EXCEPT ![w] = @ + 1]
      /\ UNCHANGED <<wallet, shown, flight, polling, failed, before, withdrawals, causes>>
  BY DEF B!TipArrives
<1>2. DashTypes /\ OwnScreen /\ Timely /\ HasProfile
  BY DEF DashInv
<1>3. ledger[w] \in Nat /\ \A v \in Wallets : ledger[v] \in Nat \cup {B!Missing}
  BY <1>1, <1>2 DEF DashTypes
<1>4. /\ ledger' \in [Wallets -> Nat \cup {B!Missing}]
      /\ \A v \in Wallets : ledger'[v] = IF v = w THEN ledger[v] + 1 ELSE ledger[v]
  BY <1>1, <1>2, <1>3 DEF DashTypes
<1>5. \A v \in Wallets : ledger'[v] >= ledger[v] /\ (ledger[v] \in Nat => ledger'[v] \in Nat)
  BY <1>3, <1>4, Numbers
<1>6. /\ \A f \in flight : f.for \in Wallets /\ f.answer \in Nat \cup {B!Missing, B!Unread}
      /\ \A s \in shown : s.owner \in Wallets /\ s.balance \in Nat
  BY <1>2, ScreenIs DEF Fetches, Screens
<1>7. DashTypes'
  BY <1>1, <1>2, <1>4 DEF DashTypes
<1>8. OwnScreen'
  BY <1>1, <1>2 DEF OwnScreen
<1>9. HasProfile'
  BY <1>1, <1>2, <1>5, <1>6 DEF HasProfile
<1>10. \A v \in Wallets : ledger[v] \in Int /\ ledger'[v] \in Int
  BY <1>3, <1>4, Numbers
<1>11. Timely'
  <2> SUFFICES ASSUME "early" \notin causes, NEW f \in flight, f.answer # B!Unread
               PROVE  f.answer <= ledger'[f.for]
    BY <1>1 DEF Timely
  <2>1. f.answer <= ledger[f.for] /\ f.answer \in Int /\ f.for \in Wallets
    BY <1>2, <1>6, Numbers DEF Timely
  <2> QED BY <1>5, <1>10, <2>1
<1>12. ASSUME causes' = {} PROVE Covered'
  <2> SUFFICES ASSUME NEW s \in shown
               PROVE  s.balance <= ledger'[s.owner] + AllDue(withdrawals, s.owner)
    BY <1>1 DEF Covered
  <2>1. s.balance <= ledger[s.owner] + AllDue(withdrawals, s.owner)
    BY <1>1, <1>12 DEF DashInv, Covered
  <2>2. AllDue(withdrawals, s.owner) \in Nat
    BY <1>2, DueIs DEF DashTypes
  <2> QED BY <1>5, <1>6, <1>10, <2>1, <2>2
<1> QED BY <1>7, <1>8, <1>9, <1>11, <1>12 DEF DashInv

LEMMA DashNextInv == ASSUME B!DashboardAssumption, DashInv, [B!Next]_(B!vars) PROVE DashInv'
<1>1. CASE B!Tick
  <2>1. wallet \in Wallets
    BY <1>1 DEF B!Tick, DashInv, DashTypes
  <2> QED BY <1>1, <2>1, DashAsked DEF B!Tick, DashInv, DashTypes
<1>2. CASE B!Refetch
  <2>1. wallet \in Wallets
    BY <1>2 DEF B!Refetch, DashInv, DashTypes
  <2>2. failed' \in BOOLEAN /\ polling' \in BOOLEAN
    BY <1>2 DEF B!Refetch
  <2> QED BY <1>2, <2>1, <2>2, DashAsked DEF B!Refetch
<1>3. CASE B!Quiet \/ UNCHANGED B!vars
  BY <1>3 DEF B!Quiet, B!vars, DashInv, DashTypes, OwnScreen, Timely, HasProfile, Covered
<1>4. CASE \E w \in Wallets \cup {B!None} : B!Select(w)
  BY <1>4, DashSelected
<1>5. CASE \E w \in Wallets : B!TipArrives(w)
  BY <1>5, DashTipped
<1>6. CASE \E i \in DOMAIN withdrawals : B!Land(i)
  BY <1>6, DashLanded
<1>7. CASE \E i \in DOMAIN withdrawals : B!HandleWithdrawSuccess(i)
  BY <1>7, DashSucceeded
<1>8. CASE \E i \in DOMAIN withdrawals : B!HandleWithdrawFailure(i)
  BY <1>8, DashNotWithdrawn
<1> QED BY <1>1, <1>2, <1>3, <1>4, <1>5, <1>6, <1>7, <1>8, DashRead, DashAnswered, DashFailed, DashWithdrawn
        DEF B!Next, B!Refreshes

LEMMA ScreenCardinality == ASSUME NEW s PROVE B!Cardinality(s) = Cardinality(s)
BY Zenon DEF B!Cardinality, Cardinality

LEMMA DashHolds == ASSUME DashInv PROVE B!TypeOK /\ B!ShownIsSelected /\ B!NeverOverstated
<1>1. DashTypes /\ OwnScreen
  BY DEF DashInv
<1>2. B!Cardinality(shown) <= 1 /\ B!Cardinality(flight) <= 1
  <2>1. Cardinality({}) = 0 /\ \A x : Cardinality({x}) = 1
    BY FS_EmptySet, FS_Singleton
  <2>2. Cardinality(shown) <= 1
    <3>1. CASE shown = {}
      BY <2>1, <3>1
    <3>2. CASE \E x : shown = {x}
      <4>1. PICK x : shown = {x}
        BY <3>2
      <4>2. Cardinality({x}) = 1
        BY <2>1
      <4> QED BY <4>1, <4>2
    <3> QED BY <1>1, <3>1, <3>2 DEF DashTypes
  <2>3. Cardinality(flight) <= 1
    <3>1. CASE flight = {}
      BY <2>1, <3>1
    <3>2. CASE \E x : flight = {x}
      <4>1. PICK x : flight = {x}
        BY <3>2
      <4>2. Cardinality({x}) = 1
        BY <2>1
      <4> QED BY <4>1, <4>2
    <3> QED BY <1>1, <3>1, <3>2 DEF DashTypes
  <2> QED BY <2>2, <2>3, ScreenCardinality
<1>3. /\ shown \subseteq [owner : Wallets, balance : Nat]
      /\ \A f \in flight : f.for \in Wallets /\ f.answer \in Nat \cup {B!Missing, B!Unread}
  BY <1>1, ScreenIs DEF Screens, Fetches
<1>4. \A i \in DOMAIN withdrawals :
         withdrawals[i].from \in Wallets /\ withdrawals[i].chain \in {"pending", "landed", "dropped"}
  BY <1>1, WithdrawalIs DEF Withdrawals
<1>5. B!TypeOK
  BY <1>1, <1>2, <1>3, <1>4 DEF DashTypes, B!TypeOK
<1>6. B!ShownIsSelected
  BY <1>1 DEF OwnScreen, B!ShownIsSelected
<1>7. B!NeverOverstated
  <2> SUFFICES ASSUME causes = {}, NEW s \in shown
               PROVE  s.balance <= ledger[s.owner] + B!Unreported(s.owner)
    BY DEF B!NeverOverstated
  <2>1. B!Unreported(s.owner) = AllDue(withdrawals, s.owner)
    BY <1>1, UnreportedIs DEF DashTypes
  <2> QED BY <2>1 DEF DashInv, Covered
<1> QED BY <1>5, <1>6, <1>7

-----------------------------------------------------------------------------
(* The leaderboard page: the order of a board's versions on screen. *)

\* A read has the four fields it was begun with.
IsRead(r) == r = [id |-> r.id, for |-> r.for, kind |-> r.kind, data |-> r.data]

BoardTypes ==
    /\ network \in Networks
    /\ chain \in [Networks -> Nat]
    /\ newest \in [Networks -> Nat]
    /\ cache \in [Networks -> [data : Nat, fresh : BOOLEAN, refreshing : BOOLEAN]]
    /\ \A r \in reads : IsRead(r) /\ r.for \in Networks /\ r.data \in Nat

\* Of a board none of whose reads lost its mark, what was shown is no newer than what is cached,
\* and that no newer than what a read has got.
InOrder(n) ==
    /\ newest[n] <= chain[n]
    /\ cache[n] # L!NoEntry => newest[n] <= cache[n].data /\ cache[n].data <= chain[n]
    /\ \A r \in reads : r.for = n /\ r.data # L!Unread =>
          /\ newest[n] <= r.data /\ r.data <= chain[n]
          /\ cache[n] # L!NoEntry => cache[n].data <= r.data

\* ... and each of its reads is marked: by the entry it refreshes, or by the page that waits.
Marked(n) ==
    \A r \in reads : r.for = n => \/ r.kind = "refresh" /\ cache[n] # L!NoEntry /\ cache[n].refreshing
                                  \/ L!OnPage(r) /\ cache[n] = L!NoEntry

\* The page waits for one read.
PageWaits ==
    /\ \A r, s \in reads : L!OnPage(r) /\ L!OnPage(s) => r = s
    /\ \A r \in reads : L!OnPage(r) => busy # L!Idle /\ busy.for = r.for
    /\ ~mounted => busy = L!Idle

BoardOrder ==
    /\ BoardTypes
    /\ L!OneRead
    /\ L!NeverGoesBack
    /\ PageWaits
    /\ \A n \in Networks \ dropped : InOrder(n) /\ Marked(n)

-----------------------------------------------------------------------------
(* Questions. *)

\* A read that begins is added to those under way.
LEMMA BeginAdds ==
    ASSUME NEW n \in Networks, NEW kind, L!Begin(n, kind)
    PROVE  \E r : /\ reads' = reads \cup {r}
                  /\ IsRead(r) /\ r.for = n /\ r.kind = kind /\ r.data = L!Unread
<1> DEFINE id == CHOOSE i \in 1 .. L!Cardinality(reads) + 1 : \A r \in reads : r.id # i
           new == [id |-> id, for |-> n, kind |-> kind, data |-> L!Unread]
<1>1. reads' = reads \cup {new}
  BY DEF L!Begin
<1> HIDE DEF id
<1>2. IsRead(new) /\ new.for = n /\ new.kind = kind /\ new.data = L!Unread
  BY DEF IsRead
<1> QED BY <1>1, <1>2

\* An answer shown is noted, and goes back only below what was shown before.
LEMMA ShowKeeps ==
    ASSUME BoardTypes, NEW n \in Networks, NEW v \in Nat, NEW reset, L!Show(n, v, reset)
    PROVE  /\ newest' \in [Networks -> Nat]
           /\ newest'[n] = IF newest[n] < v THEN v ELSE newest[n]
           /\ \A m \in Networks \ {n} : newest'[m] = newest[m]
           /\ back' \subseteq back \cup {n}
           /\ newest[n] <= v => back' = back
<1>1. newest \in [Networks -> Nat]
  BY DEF BoardTypes
<1>2. newest' = [newest EXCEPT ![n] = IF newest[n] < v THEN v ELSE newest[n]]
  BY DEF L!Show, L!Later
<1>3. back' = IF v < newest[n] THEN back \cup {n} ELSE back
  BY DEF L!Show
<1> QED BY <1>1, <1>2, <1>3

\* A question of a page that waits for nothing keeps the order and the marks; entries may have been
\* dropped before it, those of boards that were being read with a note of it.
LEMMA AskKeeps ==
    ASSUME L!BoardAssumption, BoardOrder, NEW n \in Networks, NEW reset, NEW held, L!Ask(n, reset, held),
           held \in [Networks -> [data : Nat, fresh : BOOLEAN, refreshing : BOOLEAN]],
           \A m \in Networks : held[m] = cache[m] \/ held[m] = L!NoEntry,
           \A m \in Networks \ dropped' : held[m] = cache[m] \/ \A r \in reads : r.for # m,
           dropped \subseteq dropped',
           busy = L!Idle, mounted', network' \in Networks, UNCHANGED chain
    PROVE  BoardOrder'
<1>t. BoardTypes
  BY DEF BoardOrder
<1>p. \A r \in reads : ~L!OnPage(r)
  BY DEF BoardOrder, PageWaits
<1>1. CASE held[n] = L!NoEntry
  <2>1. L!Begin(n, "page") /\ cache' = held /\ UNCHANGED <<newest, back>>
        /\ busy' = [for |-> n, reset |-> reset]
    BY <1>1 DEF L!Ask
  <2>2. PICK new : /\ reads' = reads \cup {new}
                   /\ IsRead(new) /\ new.for = n /\ new.kind = "page" /\ new.data = L!Unread
    BY <2>1, BeginAdds
  <2>3. BoardTypes'
    BY <1>t, <2>1, <2>2 DEF BoardTypes, L!Unread
  <2>4. n \notin dropped' => \A r \in reads : r.for # n
    <3> SUFFICES ASSUME n \notin dropped', NEW r \in reads, r.for = n PROVE FALSE
      OBVIOUS
    <3>1. cache[n] = L!NoEntry /\ Marked(n)
      BY <1>1 DEF BoardOrder
    <3> QED BY <1>p, <3>1 DEF Marked
  <2>5. L!OneRead' /\ L!NeverGoesBack'
    BY <2>1, <2>2, <2>4 DEF BoardOrder, L!OneRead, L!NeverGoesBack
  <2>6. PageWaits'
    <3>1. busy' # L!Idle /\ busy'.for = n
      BY <2>1 DEF L!BoardAssumption, L!Idle
    <3> QED BY <1>p, <2>2, <3>1 DEF PageWaits, L!OnPage
  <2>7. ASSUME NEW m \in Networks \ dropped' PROVE InOrder(m)' /\ Marked(m)'
    <3>1. InOrder(m) /\ Marked(m)
      BY DEF BoardOrder
    <3>2. InOrder(m)'
      BY <2>1, <2>2, <3>1 DEF InOrder
    <3>3. CASE m = n
      <4>1. cache'[m] = L!NoEntry /\ \A r \in reads' : r.for = m => r = new
        BY <1>1, <2>1, <2>2, <2>4, <3>3
      <4> QED BY <2>2, <3>2, <4>1 DEF Marked, L!OnPage
    <3>4. CASE m # n
      <4>1. \A r \in reads' : r.for = m => r \in reads
        BY <2>2, <3>4
      <4>2. cache'[m] = cache[m] \/ \A r \in reads : r.for # m
        BY <2>1
      <4> QED BY <3>1, <3>2, <4>1, <4>2 DEF Marked
    <3> QED BY <3>2, <3>3, <3>4
  <2> QED BY <2>3, <2>5, <2>6, <2>7 DEF BoardOrder
<1>2. CASE held[n] # L!NoEntry
  <2> DEFINE v == held[n].data
  <2>1. L!Show(n, v, reset) /\ held[n] = cache[n] /\ v \in Nat /\ busy' = busy
    BY <1>2 DEF L!Ask
  <2>2. /\ newest' \in [Networks -> Nat]
        /\ newest'[n] = IF newest[n] < v THEN v ELSE newest[n]
        /\ \A m \in Networks \ {n} : newest'[m] = newest[m]
        /\ back' \subseteq back \cup {n}
        /\ newest[n] <= v => back' = back
    <3> HIDE DEF v
    <3> QED BY <1>t, <2>1, ShowKeeps
  <2>3. n \notin dropped => newest[n] <= v /\ v <= chain[n]
    BY <1>2, <2>1 DEF BoardOrder, InOrder
  <2>4. L!NeverGoesBack'
    BY <2>2, <2>3 DEF BoardOrder, L!NeverGoesBack
  <2>5. /\ cache' \in [Networks -> [data : Nat, fresh : BOOLEAN, refreshing : BOOLEAN]]
        /\ \A m \in Networks : /\ cache'[m] # L!NoEntry => cache[m] # L!NoEntry
                               /\ cache'[m] # L!NoEntry => cache'[m].data = cache[m].data
        /\ \A m \in Networks \ {n} : cache'[m] = held[m]
    <3>1. CASE cache' = held
      BY <3>1
    <3>2. CASE cache' = [held EXCEPT ![n].refreshing = TRUE]
      <4>1. cache' \in [Networks -> [data : Nat, fresh : BOOLEAN, refreshing : BOOLEAN]]
        BY <3>2
      <4>2. cache'[n].data = held[n].data /\ \A m \in Networks \ {n} : cache'[m] = held[m]
        BY <3>2
      <4> QED BY <1>2, <2>1, <4>1, <4>2
    <3> QED BY <1>2, <3>1, <3>2 DEF L!Ask
  <2>6. ASSUME NEW m \in Networks \ dropped',
               \A r \in reads' : r.for = m /\ r.data # L!Unread => r \in reads
        PROVE  InOrder(m)'
    <3>1. InOrder(m) /\ m \notin dropped
      BY DEF BoardOrder
    <3>2. CASE m = n
      <4>1. cache[m] # L!NoEntry /\ cache[m].data = v
        BY <1>2, <2>1, <3>2
      <4>5. newest'[m] = v
        <5> HIDE DEF v
        <5>1. newest[m] \in Nat
          BY <1>t DEF BoardTypes
        <5> QED BY <2>1, <2>2, <2>3, <3>1, <3>2, <5>1
      <4>2. v <= chain[m] /\ chain'[m] = chain[m] /\ v <= v
        BY <2>1, <2>3, <3>1, <3>2
      <4>3. cache'[m] # L!NoEntry => cache'[m].data = v
        BY <2>5, <4>1
      <4>4. ASSUME NEW r \in reads', r.for = m, r.data # L!Unread
            PROVE  v <= r.data /\ r.data <= chain[m]
        BY <2>6, <3>1, <4>1, <4>4 DEF InOrder
      <4> HIDE DEF v
      <4> QED BY <4>2, <4>3, <4>4, <4>5 DEF InOrder
    <3>3. CASE m # n
      <4>1. newest'[m] = newest[m] /\ chain'[m] = chain[m]
        BY <2>2, <3>3
      <4>2. cache'[m] # L!NoEntry => cache[m] # L!NoEntry /\ cache'[m].data = cache[m].data
        BY <2>5
      <4>3. ASSUME NEW r \in reads', r.for = m, r.data # L!Unread PROVE r \in reads
        BY <2>6, <4>3
      <4> QED BY <3>1, <4>1, <4>2, <4>3 DEF InOrder
    <3> QED BY <3>2, <3>3
  <2>7. CASE ~L!NeedsRefresh(held[n])
    <3>1. cache' = held /\ reads' = reads
      BY <1>2, <2>7 DEF L!Ask
    <3>2. BoardTypes' /\ L!OneRead' /\ PageWaits'
      BY <1>t, <2>1, <2>2, <2>5, <3>1 DEF BoardOrder, BoardTypes, L!OneRead, PageWaits
    <3>3. ASSUME NEW m \in Networks \ dropped' PROVE InOrder(m)' /\ Marked(m)'
      <4>1. Marked(m)
        BY DEF BoardOrder
      <4>2. InOrder(m)'
        BY <2>6, <3>1
      <4>3. Marked(m)'
        BY <3>1, <4>1 DEF Marked
      <4> QED BY <4>2, <4>3
    <3> QED BY <2>4, <3>2, <3>3 DEF BoardOrder
  <2>8. CASE L!NeedsRefresh(held[n])
    <3>1. L!Begin(n, "refresh") /\ cache' = [held EXCEPT ![n].refreshing = TRUE]
      BY <1>2, <2>8 DEF L!Ask
    <3>2. PICK new : /\ reads' = reads \cup {new}
                     /\ IsRead(new) /\ new.for = n /\ new.kind = "refresh" /\ new.data = L!Unread
      BY <3>1, BeginAdds
    <3>3. BoardTypes'
      BY <1>t, <2>2, <2>5, <3>2 DEF BoardTypes, L!Unread
    <3>4. n \notin dropped' => \A r \in reads : r.for # n
      <4> SUFFICES ASSUME n \notin dropped', NEW r \in reads, r.for = n PROVE FALSE
        OBVIOUS
      <4>1. Marked(n) /\ ~cache[n].refreshing
        BY <2>1, <2>8 DEF BoardOrder, L!NeedsRefresh
      <4> QED BY <1>p, <4>1 DEF Marked
    <3>5. L!OneRead'
      BY <3>2, <3>4 DEF BoardOrder, L!OneRead
    <3>6. PageWaits'
      BY <1>p, <2>1, <3>2 DEF PageWaits, L!OnPage
    <3>7. cache'[n].refreshing = TRUE /\ cache'[n] # L!NoEntry
      BY <3>1 DEF L!NoEntry
    <3>8. ASSUME NEW m \in Networks \ dropped' PROVE InOrder(m)' /\ Marked(m)'
      <4>1. Marked(m)
        BY DEF BoardOrder
      <4>2. InOrder(m)'
        BY <2>6, <3>2
      <4>3. CASE m = n
        <5>1. Marked(m)'
          BY <3>2, <3>4, <3>7, <4>3 DEF Marked
        <5> QED BY <4>2, <5>1
      <4>4. CASE m # n
        <5>1. \A r \in reads' : r.for = m => r \in reads
          BY <3>2, <4>4
        <5>2. cache'[m] = cache[m] \/ \A r \in reads : r.for # m
          BY <2>5, <4>4
        <5>3. Marked(m)'
          BY <4>1, <5>1, <5>2 DEF Marked
        <5> QED BY <4>2, <5>3
      <4> QED BY <4>3, <4>4
    <3> QED BY <2>4, <3>3, <3>5, <3>6, <3>8 DEF BoardOrder
  <2> QED BY <2>7, <2>8
<1> QED BY <1>1, <1>2

-----------------------------------------------------------------------------

LEMMA BoardOrderInit == L!Init => BoardOrder
BY DEF L!Init, L!NoEntry, L!Unread, BoardOrder, BoardTypes, L!OneRead, L!NeverGoesBack, InOrder, Marked, PageWaits

LEMMA BoardOrderNext ==
    ASSUME L!BoardAssumption, BoardOrder, [L!Next]_(L!vars)
    PROVE  BoardOrder'
<1>1. BoardTypes /\ PageWaits
  BY DEF BoardOrder
<1>a. network \in Networks /\ cache \in [Networks -> [data : Nat, fresh : BOOLEAN, refreshing : BOOLEAN]]
  BY <1>1 DEF BoardTypes
<1>2. CASE L!Open
  <2>1. busy = L!Idle /\ mounted' /\ L!Ask(network, TRUE, cache) /\ UNCHANGED <<network, chain, dropped>>
    BY <1>1, <1>2 DEF L!Open, PageWaits
  <2> QED BY <1>a, <2>1, AskKeeps
<1>12. CASE L!Poll
  <2>1. busy = L!Idle /\ mounted' /\ L!Ask(network, FALSE, cache) /\ UNCHANGED <<network, chain, dropped>>
    BY <1>12 DEF L!Poll
  <2> QED BY <1>a, <2>1, AskKeeps
<1>3. CASE L!Leave
  <2> DEFINE Left(r) == IF L!OnPage(r) THEN [r EXCEPT !.kind = "left"] ELSE r
  <2>1. /\ reads' = {Left(r) : r \in reads} /\ mounted' = FALSE /\ busy' = L!Idle
        /\ dropped' = dropped \cup ({busy.for} \cap Networks)
        /\ UNCHANGED <<network, chain, cache, newest, back>>
    BY <1>3 DEF L!Leave
  <2>2. \A r \in reads : /\ IsRead(Left(r)) /\ Left(r).for = r.for /\ Left(r).data = r.data
                         /\ ~L!OnPage(Left(r)) /\ (~L!OnPage(r) => Left(r) = r)
    BY <1>1 DEF BoardTypes, IsRead, L!OnPage
  <2> HIDE DEF Left
  <2>3. BoardTypes'
    BY <1>1, <2>1, <2>2 DEF BoardTypes
  <2>4. L!OneRead' /\ L!NeverGoesBack' /\ PageWaits'
    <3>1. L!OneRead'
      BY <2>1, <2>2 DEF BoardOrder, L!OneRead
    <3> QED BY <2>1, <2>2, <3>1 DEF BoardOrder, L!NeverGoesBack, PageWaits, L!OnPage
  <2>5. ASSUME NEW n \in Networks \ dropped' PROVE InOrder(n)' /\ Marked(n)'
    <3>1. InOrder(n) /\ Marked(n)
      BY <2>1 DEF BoardOrder
    <3>2. InOrder(n)'
      BY <2>1, <2>2, <3>1 DEF InOrder
    <3>3. \A r \in reads : r.for = n => ~L!OnPage(r)
      BY <1>1, <2>1 DEF PageWaits
    <3> QED BY <2>1, <2>2, <3>1, <3>2, <3>3 DEF Marked
  <2> QED BY <2>3, <2>4, <2>5 DEF BoardOrder
<1>4. ASSUME NEW n \in Networks, L!SelectNetwork(n) PROVE BoardOrder'
  <2>1. CASE mounted /\ busy = L!Idle
    <3>1. busy = L!Idle /\ mounted' /\ L!Ask(n, TRUE, cache) /\ network' = n /\ UNCHANGED <<chain, dropped>>
      BY <1>4, <2>1 DEF L!SelectNetwork
    <3> QED BY <1>a, <3>1, AskKeeps
  <2>2. CASE ~(mounted /\ busy = L!Idle)
    <3>1. UNCHANGED <<chain, cache, reads, dropped, newest, back, mounted, busy>> /\ network' = n
      BY <1>4, <2>2 DEF L!SelectNetwork
    <3> QED BY <3>1 DEF BoardOrder, BoardTypes, L!OneRead, L!NeverGoesBack, InOrder, Marked, PageWaits
  <2> QED BY <2>1, <2>2
<1>5. CASE L!Refetch
  <2> DEFINE emptied == [n \in Networks |-> L!NoEntry]
             refreshed == {r.for : r \in {x \in reads : x.kind = "refresh"}}
  <2>1. emptied \in [Networks -> [data : Nat, fresh : BOOLEAN, refreshing : BOOLEAN]]
    BY DEF L!NoEntry, L!Unread
  <2>2. \A m \in Networks : emptied[m] = L!NoEntry
    OBVIOUS
  <2>3. dropped' = dropped \cup refreshed /\ UNCHANGED <<network, chain>>
    BY <1>5 DEF L!Refetch
  <2>4. \A m \in Networks \ dropped' : \A r \in reads : r.for = m => L!OnPage(r) /\ cache[m] = L!NoEntry
    BY <2>3 DEF BoardOrder, Marked
  <2>5. CASE busy = L!Idle
    <3>1. L!Ask(network, TRUE, emptied) /\ mounted'
      BY <1>5, <2>5 DEF L!Refetch
    <3>2. \A m \in Networks \ dropped' : \A r \in reads : r.for # m
      BY <1>1, <2>4, <2>5 DEF PageWaits
    <3> HIDE DEF emptied, refreshed
    <3> QED BY <1>a, <2>1, <2>2, <2>3, <2>5, <3>1, <3>2, AskKeeps
  <2>6. CASE busy # L!Idle
    <3>1. cache' = emptied /\ UNCHANGED <<reads, mounted, busy, newest, back>>
      BY <1>5, <2>6 DEF L!Refetch, L!pageVars
    <3> HIDE DEF emptied, refreshed
    <3>2. BoardTypes'
      BY <1>1, <2>1, <2>3, <3>1 DEF BoardTypes
    <3>3. L!OneRead' /\ L!NeverGoesBack' /\ PageWaits'
      BY <2>3, <3>1 DEF BoardOrder, L!OneRead, L!NeverGoesBack, PageWaits
    <3>4. ASSUME NEW n \in Networks \ dropped' PROVE InOrder(n)' /\ Marked(n)'
      <4>1. InOrder(n)
        BY <2>3 DEF BoardOrder
      <4>2. cache'[n] = L!NoEntry
        BY <2>2, <3>1
      <4> QED BY <2>3, <2>4, <3>1, <4>1, <4>2 DEF InOrder, Marked
    <3> QED BY <3>2, <3>3, <3>4 DEF BoardOrder
  <2> QED BY <2>5, <2>6
<1>6. ASSUME NEW r \in reads, L!Simulate(r) PROVE BoardOrder'
  <2> DEFINE got == [r EXCEPT !.data = chain[r.for]]
  <2>1. /\ reads' = (reads \ {r}) \cup {got}
        /\ UNCHANGED <<network, chain, cache, dropped, newest, back, mounted, busy>>
    BY <1>6 DEF L!Simulate, L!pageVars
  <2>2. IsRead(r) /\ r.for \in Networks /\ chain[r.for] \in Nat
    BY <1>1 DEF BoardTypes
  <2>3. IsRead(got) /\ got.for = r.for /\ got.data = chain[r.for] /\ got.kind = r.kind
    BY <2>2 DEF IsRead
  <2> HIDE DEF got
  <2>4. BoardTypes'
    BY <1>1, <2>1, <2>2, <2>3 DEF BoardTypes
  <2>5. L!OneRead' /\ L!NeverGoesBack'
    BY <2>1, <2>3 DEF BoardOrder, L!OneRead, L!NeverGoesBack
  <2>6. PageWaits'
    BY <1>1, <2>1, <2>3 DEF PageWaits, L!OnPage
  <2>7. ASSUME NEW n \in Networks \ dropped' PROVE InOrder(n)' /\ Marked(n)'
    <3>1. InOrder(n) /\ Marked(n)
      BY <2>1 DEF BoardOrder
    <3>2. chain[n] \in Nat
      BY <1>1 DEF BoardTypes
    <3>3. InOrder(n)'
      BY <2>1, <2>3, <3>1, <3>2 DEF InOrder
    <3> QED BY <2>1, <2>3, <3>1, <3>3 DEF Marked, L!OnPage
  <2> QED BY <2>4, <2>5, <2>6, <2>7 DEF BoardOrder
<1>7. ASSUME NEW r \in reads, L!Arrive(r) PROVE BoardOrder'
  <2> DEFINE n == r.for
             v == r.data
             fresh == [data |-> v, fresh |-> TRUE, refreshing |-> FALSE]
  <2>1. /\ v # L!Unread /\ reads' = reads \ {r} /\ cache' = [cache EXCEPT ![n] = fresh]
        /\ UNCHANGED <<network, chain, dropped, mounted>>
        /\ IF L!OnPage(r) THEN busy' = L!Idle ELSE busy' = busy
    BY <1>7 DEF L!Arrive, L!pageVars
  <2>2. n \in Networks /\ v \in Nat
    BY <1>1 DEF BoardTypes
  <2>3. fresh \in [data : Nat, fresh : BOOLEAN, refreshing : BOOLEAN] /\ fresh.data = v
    BY <2>2
  <2>4. n \notin dropped => newest[n] <= v /\ v <= chain[n]
    BY <2>1, <2>2 DEF BoardOrder, InOrder
  <2>5. \A s \in reads' : s.for = n => n \in dropped
    BY <2>1 DEF BoardOrder, L!OneRead
  <2>6. /\ newest' \in [Networks -> Nat]
        /\ newest'[n] = newest[n] \/ newest'[n] = v
        /\ \A m \in Networks \ {n} : newest'[m] = newest[m]
        /\ back' \subseteq back \cup {n}
        /\ newest[n] <= v => back' = back
    <3>1. CASE L!OnPage(r)
      <4>1. L!Show(n, v, busy.reset)
        BY <1>7, <3>1 DEF L!Arrive
      <4> HIDE DEF n, v, fresh
      <4> QED BY <1>1, <2>2, <4>1, ShowKeeps
    <3>2. CASE ~L!OnPage(r)
      <4>1. UNCHANGED <<newest, back>>
        BY <1>7, <3>2 DEF L!Arrive, L!pageVars
      <4> QED BY <1>1, <4>1 DEF BoardTypes
    <3> QED BY <3>1, <3>2
  <2> HIDE DEF n, v, fresh
  <2>7. BoardTypes'
    BY <1>1, <2>1, <2>2, <2>3, <2>6 DEF BoardTypes
  <2>8. L!OneRead' /\ L!NeverGoesBack'
    BY <2>1, <2>4, <2>6 DEF BoardOrder, L!OneRead, L!NeverGoesBack
  <2>9. PageWaits'
    BY <1>1, <2>1 DEF PageWaits, L!OnPage
  <2>10. ASSUME NEW m \in Networks \ dropped' PROVE InOrder(m)' /\ Marked(m)'
    <3>1. InOrder(m) /\ Marked(m) /\ m \notin dropped
      BY <2>1 DEF BoardOrder
    <3>2. CASE m = n
      <4>1. cache'[m].data = v /\ newest'[m] <= v /\ v <= chain'[m]
        BY <1>1, <2>1, <2>2, <2>3, <2>4, <2>6, <3>1, <3>2 DEF BoardTypes
      <4>2. newest'[m] <= chain'[m]
        BY <2>1, <2>4, <2>6, <3>1, <3>2 DEF InOrder
      <4> QED BY <2>5, <3>1, <3>2, <4>1, <4>2 DEF InOrder, Marked
    <3>3. CASE m # n
      <4>1. cache'[m] = cache[m] /\ newest'[m] = newest[m]
        BY <1>1, <2>1, <2>6, <3>3 DEF BoardTypes
      <4>2. InOrder(m)'
        BY <2>1, <3>1, <4>1 DEF InOrder
      <4> QED BY <2>1, <3>1, <4>1, <4>2 DEF Marked
    <3> QED BY <3>2, <3>3
  <2> QED BY <2>7, <2>8, <2>9, <2>10 DEF BoardOrder
<1>8. ASSUME NEW r \in reads, L!Fail(r) PROVE BoardOrder'
  <2>1. /\ reads' = reads \ {r} /\ UNCHANGED <<network, chain, dropped, newest, back, mounted>>
        /\ cache' = IF r.kind = "refresh" THEN [cache EXCEPT ![r.for].refreshing = FALSE] ELSE cache
        /\ IF L!OnPage(r) THEN busy' = L!Idle ELSE busy' = busy
    BY <1>8 DEF L!Fail
  <2>2. r.for \in Networks
    BY <1>1 DEF BoardTypes
  <2>3. /\ cache' \in [Networks -> [data : Nat, fresh : BOOLEAN, refreshing : BOOLEAN]]
        /\ \A n \in Networks : /\ cache'[n].data = cache[n].data
                               /\ cache'[n] # L!NoEntry => cache[n] # L!NoEntry
                               /\ n # r.for => cache'[n] = cache[n]
    <3>1. CASE r.kind = "refresh"
      <4>1. cache' = [cache EXCEPT ![r.for] = [cache[r.for] EXCEPT !.refreshing = FALSE]]
        BY <2>1, <3>1
      <4>2. cache' \in [Networks -> [data : Nat, fresh : BOOLEAN, refreshing : BOOLEAN]]
        BY <1>a, <2>2, <4>1
      <4>3. \A n \in Networks \ {r.for} : cache'[n] = cache[n]
        BY <1>a, <4>1
      <4>4. cache'[r.for] = [cache[r.for] EXCEPT !.refreshing = FALSE]
        BY <1>a, <2>2, <4>1
      <4>5. cache'[r.for].data = cache[r.for].data
        BY <1>a, <2>2, <4>4
      <4>6. cache[r.for] = L!NoEntry => cache'[r.for] = L!NoEntry
        <5> SUFFICES ASSUME cache[r.for] = L!NoEntry PROVE cache'[r.for] = L!NoEntry
          OBVIOUS
        <5>1. cache'[r.for] = [L!NoEntry EXCEPT !.refreshing = FALSE]
          BY <4>4
        <5> QED BY <5>1 DEF L!NoEntry, L!Unread
      <4> QED BY <4>2, <4>3, <4>5, <4>6
    <3>2. CASE r.kind # "refresh"
      BY <1>a, <2>1, <3>2
    <3> QED BY <3>1, <3>2
  <2>4. BoardTypes'
    BY <1>1, <2>1, <2>3 DEF BoardTypes
  <2>5. L!OneRead' /\ L!NeverGoesBack'
    BY <2>1 DEF BoardOrder, L!OneRead, L!NeverGoesBack
  <2>6. PageWaits'
    BY <1>1, <2>1 DEF PageWaits, L!OnPage
  <2>7. ASSUME NEW n \in Networks \ dropped' PROVE InOrder(n)' /\ Marked(n)'
    <3>1. InOrder(n) /\ Marked(n)
      BY <2>1 DEF BoardOrder
    <3>2. InOrder(n)'
      <4>1. cache'[n].data = cache[n].data /\ (cache'[n] # L!NoEntry => cache[n] # L!NoEntry)
        BY <2>3
      <4>2. \A s \in reads' : s \in reads
        BY <2>1
      <4> QED BY <2>1, <3>1, <4>1, <4>2 DEF InOrder
    <3>3. n = r.for => \A s \in reads' : s.for # n
      BY <2>1 DEF BoardOrder, L!OneRead
    <3> QED BY <2>1, <2>3, <3>1, <3>2, <3>3 DEF Marked
  <2> QED BY <2>4, <2>5, <2>6, <2>7 DEF BoardOrder
<1>9. ASSUME NEW n \in Networks, L!Expire(n) PROVE BoardOrder'
  <2>1. /\ UNCHANGED <<network, chain, reads, dropped, newest, back, mounted, busy>>
        /\ cache[n].fresh /\ cache' = [cache EXCEPT ![n] = [cache[n] EXCEPT !.fresh = FALSE]]
    BY <1>9 DEF L!Expire, L!pageVars
  <2>2. cache' \in [Networks -> [data : Nat, fresh : BOOLEAN, refreshing : BOOLEAN]]
    BY <1>a, <2>1
  <2>3. cache'[n] = [cache[n] EXCEPT !.fresh = FALSE] /\ \A m \in Networks \ {n} : cache'[m] = cache[m]
    BY <1>a, <2>1
  <2>4. cache'[n].data = cache[n].data /\ cache'[n].refreshing = cache[n].refreshing
    BY <1>a, <2>3
  <2>5. cache[n] # L!NoEntry
    BY <2>1 DEF L!NoEntry
  <2>6. cache'[n].refreshing => cache'[n] # L!NoEntry
    BY DEF L!NoEntry
  <2>7. BoardTypes' /\ L!OneRead' /\ L!NeverGoesBack' /\ PageWaits'
    BY <1>1, <2>1, <2>2 DEF BoardOrder, BoardTypes, L!OneRead, L!NeverGoesBack, PageWaits
  <2>8. ASSUME NEW m \in Networks \ dropped' PROVE InOrder(m)' /\ Marked(m)'
    <3>1. InOrder(m) /\ Marked(m)
      BY <2>1 DEF BoardOrder
    <3>2. CASE m = n
      <4>1. InOrder(m)'
        BY <2>1, <2>4, <2>5, <3>1, <3>2 DEF InOrder
      <4>2. Marked(m)'
        BY <2>1, <2>4, <2>5, <2>6, <3>1, <3>2 DEF Marked
      <4> QED BY <4>1, <4>2
    <3>3. CASE m # n
      BY <2>1, <2>3, <3>1, <3>3 DEF InOrder, Marked
    <3> QED BY <3>2, <3>3
  <2> QED BY <2>7, <2>8 DEF BoardOrder
<1>10. ASSUME NEW n \in Networks, L!ChainMoves(n) PROVE BoardOrder'
  <2>1. /\ UNCHANGED <<network, cache, reads, dropped, newest, back, mounted, busy>>
        /\ chain' = [chain EXCEPT ![n] = @ + 1]
    BY <1>10 DEF L!ChainMoves, L!pageVars
  <2>2. chain' \in [Networks -> Nat] /\ \A m \in Networks : chain[m] <= chain'[m]
    BY <1>1, <2>1 DEF BoardTypes
  <2>3. BoardTypes' /\ L!OneRead' /\ L!NeverGoesBack' /\ PageWaits'
    BY <1>1, <2>1, <2>2 DEF BoardOrder, BoardTypes, L!OneRead, L!NeverGoesBack, PageWaits
  <2>4. ASSUME NEW m \in Networks \ dropped' PROVE InOrder(m)' /\ Marked(m)'
    <3>1. InOrder(m) /\ Marked(m)
      BY <2>1 DEF BoardOrder
    <3>2. chain[m] \in Nat /\ chain'[m] \in Nat /\ newest[m] \in Nat /\ cache[m].data \in Nat
      BY <1>1, <2>2 DEF BoardTypes
    <3>3. InOrder(m)'
      BY <1>1, <2>1, <2>2, <3>1, <3>2 DEF InOrder, BoardTypes
    <3> QED BY <2>1, <3>1, <3>3 DEF Marked
  <2> QED BY <2>3, <2>4 DEF BoardOrder
<1>11. CASE L!Quiet \/ UNCHANGED L!vars
  <2>1. UNCHANGED <<network, chain, cache, reads, dropped, mounted, busy, newest, back>>
    BY <1>11 DEF L!Quiet, L!vars, L!pageVars
  <2>2. BoardTypes' /\ L!OneRead' /\ L!NeverGoesBack' /\ PageWaits'
    BY <1>1, <2>1 DEF BoardOrder, BoardTypes, L!OneRead, L!NeverGoesBack, PageWaits
  <2>3. ASSUME NEW n \in Networks \ dropped' PROVE InOrder(n)' /\ Marked(n)'
    BY <2>1 DEF BoardOrder, InOrder, Marked
  <2> QED BY <2>1, <2>2, <2>3 DEF BoardOrder
<1> QED BY <1>2, <1>3, <1>4, <1>5, <1>6, <1>7, <1>8, <1>9, <1>10, <1>11, <1>12 DEF L!Next, L!Refreshes

-----------------------------------------------------------------------------
(* The leaderboard page: whose board is on screen. *)

\* Of any board, dropped or not, what is cached and read is there on the contract.
BoardNumbers ==
    /\ \A n \in Networks : /\ chain[n] \in DOMAIN Boards[n]
                           /\ cache[n].data <= chain[n]
                           /\ cache[n].data = L!Unread => cache[n] = L!NoEntry
    /\ \A r \in reads : r.data <= chain[r.for]

\* A page that waits has a read under way; when no change of network went unanswered, what it
\* shows, or what will replace it, is the selected network's.
BoardScreen ==
    /\ mounted \in BOOLEAN /\ stray \in BOOLEAN /\ back \subseteq Networks /\ dropped \subseteq Networks
    /\ ~mounted => entries = {}
    /\ busy # L!Idle => busy.for \in Networks /\ \E r \in reads : L!OnPage(r)
    /\ ~stray => IF busy = L!Idle THEN \A e \in entries : e[1] = network
                 ELSE busy.for = network /\ (busy.reset \/ \A e \in entries : e[1] = network)

BoardInv == BoardOrder /\ BoardNumbers /\ BoardScreen

LEMMA BoardScreenInit == L!BoardAssumption /\ L!Init => BoardNumbers /\ BoardScreen
<1> SUFFICES ASSUME L!BoardAssumption, L!Init PROVE BoardNumbers /\ BoardScreen
  OBVIOUS
<1>1. BoardNumbers
  BY DEF L!BoardAssumption, L!Init, L!NoEntry, L!Unread, BoardNumbers
<1>2. BoardScreen
  BY DEF L!Init, BoardScreen
<1> QED BY <1>1, <1>2

LEMMA PairsOf == ASSUME NEW n, NEW S PROVE \A e \in {n} \X S : e[1] = n
OBVIOUS

\* Of an answer on screen, every entry is of its network.
LEMMA ShowIsOf ==
    ASSUME NEW n \in Networks, NEW v, NEW reset \in BOOLEAN, L!Show(n, v, reset)
    PROVE  /\ stray' = (stray /\ ~(reset /\ n = network'))
           /\ back' \subseteq back \cup {n}
           /\ \A e \in entries' : e[1] = n \/ (~reset /\ e \in entries)
<1>1. /\ entries' = (IF reset THEN {} ELSE entries) \cup ({n} \X Boards[n][v])
      /\ back' = IF v < newest[n] THEN back \cup {n} ELSE back
      /\ stray' = (stray /\ ~(reset /\ n = network'))
  BY DEF L!Show, L!Members
<1>2. \A e \in {n} \X Boards[n][v] : e[1] = n
  BY PairsOf
<1> QED BY <1>1, <1>2

\* A question of a page that waits for nothing, of the network selected from now on.
LEMMA AskSound ==
    ASSUME L!BoardAssumption, BoardInv, NEW n \in Networks, NEW reset \in BOOLEAN, NEW held,
           L!Ask(n, reset, held),
           held \in [Networks -> [data : Nat, fresh : BOOLEAN, refreshing : BOOLEAN]],
           \A m \in Networks : held[m] = cache[m] \/ held[m] = L!NoEntry,
           dropped' \subseteq Networks, busy = L!Idle, mounted' = TRUE,
           reset \/ n = network, network' = n, UNCHANGED chain
    PROVE  BoardNumbers' /\ BoardScreen'
<1>1. BoardTypes /\ PageWaits /\ BoardNumbers /\ BoardScreen
  BY DEF BoardInv, BoardOrder
<1>2. \A m \in Networks : /\ held[m].data <= chain[m]
                          /\ held[m].data = L!Unread => held[m] = L!NoEntry
  <2> TAKE m \in Networks
  <2>1. CASE held[m] = cache[m]
    BY <1>1, <2>1 DEF BoardNumbers
  <2>2. CASE held[m] = L!NoEntry
    <3>1. L!NoEntry.data = 0 /\ chain[m] \in Nat
      BY <1>1 DEF L!NoEntry, L!Unread, BoardTypes
    <3> QED BY <2>2, <3>1
  <2> QED BY <2>1, <2>2
<1>3. ~stray => \A e \in entries : e[1] = network
  BY <1>1 DEF BoardScreen
<1>4. \A m \in Networks : chain'[m] \in DOMAIN Boards[m] /\ chain[m] \in Nat
  BY <1>1 DEF BoardNumbers, BoardTypes
<1>5. CASE held[n] = L!NoEntry
  <2>1. L!Begin(n, "page") /\ cache' = held /\ UNCHANGED <<entries, back, stray>>
        /\ busy' = [for |-> n, reset |-> reset]
    BY <1>5 DEF L!Ask
  <2>2. PICK new : /\ reads' = reads \cup {new}
                   /\ IsRead(new) /\ new.for = n /\ new.kind = "page" /\ new.data = L!Unread
    BY <2>1, BeginAdds
  <2>3. BoardNumbers'
    BY <1>1, <1>2, <1>4, <2>1, <2>2 DEF BoardNumbers, L!Unread
  <2>4. busy'.for = n /\ busy'.reset = reset /\ busy' # L!Idle
    BY <2>1 DEF L!BoardAssumption, L!Idle
  <2>5. \E r \in reads' : L!OnPage(r)
    BY <2>2 DEF L!OnPage
  <2>6. BoardScreen'
    BY <1>1, <1>3, <2>1, <2>4, <2>5 DEF BoardScreen
  <2> QED BY <2>3, <2>6
<1>6. CASE held[n] # L!NoEntry
  <2>1. /\ L!Show(n, held[n].data, reset) /\ busy' = busy
        /\ \/ L!Begin(n, "refresh") /\ cache' = [held EXCEPT ![n] = [held[n] EXCEPT !.refreshing = TRUE]]
           \/ cache' = held /\ UNCHANGED reads
    BY <1>6 DEF L!Ask
  <2>2. /\ stray' = (stray /\ ~(reset /\ n = network'))
        /\ back' \subseteq back \cup {n}
        /\ \A e \in entries' : e[1] = n \/ (~reset /\ e \in entries)
    BY <2>1, ShowIsOf
  <2>3. BoardScreen'
    BY <1>1, <1>3, <2>1, <2>2 DEF BoardScreen
  <2>4. CASE cache' = held /\ UNCHANGED reads
    BY <1>1, <1>2, <1>4, <2>3, <2>4 DEF BoardNumbers
  <2>5. CASE L!Begin(n, "refresh")
             /\ cache' = [held EXCEPT ![n] = [held[n] EXCEPT !.refreshing = TRUE]]
    <3>1. PICK new : reads' = reads \cup {new} /\ new.for = n /\ new.data = L!Unread
      BY <2>5, BeginAdds
    <3>2. \A m \in Networks \ {n} : cache'[m] = held[m]
      BY <2>5
    <3>3. cache'[n].data = held[n].data
      BY <2>5
    <3>4. held[n].data # L!Unread
      BY <1>2, <1>6
    <3> QED BY <1>1, <1>2, <1>4, <2>3, <3>1, <3>2, <3>3, <3>4 DEF BoardNumbers, L!Unread
  <2> QED BY <2>1, <2>3, <2>4, <2>5
<1> QED BY <1>5, <1>6

\* What changes neither the contract nor the cache nor the reads keeps their numbers.
LEMMA NumbersStay == ASSUME BoardNumbers, UNCHANGED <<chain, cache, reads>> PROVE BoardNumbers'
BY DEF BoardNumbers

LEMMA BoardLeft == ASSUME BoardInv, L!Leave PROVE BoardNumbers' /\ BoardScreen'
<1> DEFINE Left(r) == IF L!OnPage(r) THEN [r EXCEPT !.kind = "left"] ELSE r
<1>1. /\ reads' = {Left(r) : r \in reads} /\ mounted' = FALSE /\ busy' = L!Idle
      /\ entries' = {} /\ stray' = FALSE
      /\ dropped' = dropped \cup ({busy.for} \cap Networks)
      /\ UNCHANGED <<network, chain, cache, back>>
  BY DEF L!Leave
<1>2. \A r \in reads : Left(r).for = r.for /\ Left(r).data = r.data
  BY DEF BoardInv, BoardOrder, BoardTypes, IsRead
<1> HIDE DEF Left
<1>3. BoardNumbers'
  BY <1>1, <1>2 DEF BoardInv, BoardNumbers
<1>4. BoardScreen'
  BY <1>1 DEF BoardInv, BoardScreen
<1> QED BY <1>3, <1>4

LEMMA BoardSimulated == ASSUME BoardInv, NEW r \in reads, L!Simulate(r) PROVE BoardNumbers' /\ BoardScreen'
<1> DEFINE got == [r EXCEPT !.data = chain[r.for]]
<1>1. /\ reads' = (reads \ {r}) \cup {got}
      /\ UNCHANGED <<network, chain, cache, dropped, mounted, busy, entries, back, stray>>
  BY DEF L!Simulate, L!pageVars
<1>2. IsRead(r) /\ r.for \in Networks /\ chain[r.for] \in Nat
  BY DEF BoardInv, BoardOrder, BoardTypes
<1>3. got.for = r.for /\ got.data = chain[r.for] /\ got.kind = r.kind
  BY <1>2 DEF IsRead
<1> HIDE DEF got
<1>4. BoardNumbers'
  BY <1>1, <1>2, <1>3 DEF BoardInv, BoardNumbers
<1>5. (\E s \in reads : L!OnPage(s)) => \E s \in reads' : L!OnPage(s)
  BY <1>1, <1>3 DEF L!OnPage
<1>6. BoardScreen'
  BY <1>1, <1>5 DEF BoardInv, BoardScreen
<1> QED BY <1>4, <1>6

LEMMA BoardArrived == ASSUME BoardInv, NEW r \in reads, L!Arrive(r) PROVE BoardNumbers' /\ BoardScreen'
<1> DEFINE n == r.for
           fresh == [data |-> r.data, fresh |-> TRUE, refreshing |-> FALSE]
<1>1. /\ r.data # L!Unread /\ reads' = reads \ {r} /\ cache' = [cache EXCEPT ![n] = fresh]
      /\ UNCHANGED <<network, chain, dropped, mounted>>
  BY DEF L!Arrive, L!pageVars
<1>2. BoardTypes /\ PageWaits /\ BoardNumbers /\ BoardScreen
  BY DEF BoardInv, BoardOrder
<1>3. n \in Networks /\ r.data \in Nat /\ r.data <= chain[n]
  BY <1>2 DEF BoardTypes, BoardNumbers
<1>4. fresh.data = r.data
  OBVIOUS
<1> HIDE DEF fresh
<1>5. cache'[n] = fresh /\ \A m \in Networks \ {n} : cache'[m] = cache[m]
  BY <1>1, <1>2, <1>3 DEF BoardTypes
<1>6. BoardNumbers'
  BY <1>1, <1>2, <1>3, <1>4, <1>5 DEF BoardNumbers
<1>7. CASE L!OnPage(r)
  <2>1. L!Show(n, r.data, busy.reset) /\ busy' = L!Idle
    BY <1>7 DEF L!Arrive
  <2>2. busy # L!Idle /\ busy.for = n /\ mounted
    BY <1>2, <1>7 DEF PageWaits, BoardScreen
  <2>3. /\ entries' = (IF busy.reset THEN {} ELSE entries) \cup ({n} \X Boards[n][r.data])
        /\ back' = IF r.data < newest[n] THEN back \cup {n} ELSE back
        /\ stray' = (stray /\ ~(busy.reset /\ n = network'))
    BY <2>1 DEF L!Show, L!Members
  <2>4. \A e \in {n} \X Boards[n][r.data] : e[1] = n
    BY PairsOf
  <2>5. ASSUME ~stray' PROVE \A e \in entries' : e[1] = network'
    <3>1. CASE busy.reset
      <4>1. n = network
        BY <1>1, <1>2, <2>2, <2>3, <2>5, <3>1 DEF BoardScreen
      <4> QED BY <1>1, <2>3, <2>4, <3>1, <4>1
    <3>2. CASE ~busy.reset
      <4>1. n = network /\ \A e \in entries : e[1] = network
        BY <1>2, <2>2, <2>3, <2>5, <3>2 DEF BoardScreen
      <4> QED BY <1>1, <2>3, <2>4, <3>2, <4>1
    <3> QED BY <3>1, <3>2
  <2>6. stray' \in BOOLEAN /\ back' \subseteq Networks
    BY <1>2, <1>3, <2>3 DEF BoardScreen
  <2>7. BoardScreen'
    BY <1>1, <1>2, <2>1, <2>2, <2>5, <2>6 DEF BoardScreen
  <2> QED BY <1>6, <2>7
<1>8. CASE ~L!OnPage(r)
  <2>1. UNCHANGED <<busy, entries, back, stray>>
    BY <1>8 DEF L!Arrive, L!pageVars
  <2>2. (\E s \in reads : L!OnPage(s)) => \E s \in reads' : L!OnPage(s)
    BY <1>1, <1>8
  <2>3. BoardScreen'
    BY <1>1, <1>2, <2>1, <2>2 DEF BoardScreen
  <2> QED BY <1>6, <2>3
<1> QED BY <1>7, <1>8

LEMMA BoardFailed == ASSUME BoardInv, NEW r \in reads, L!Fail(r) PROVE BoardNumbers' /\ BoardScreen'
<1>1. /\ reads' = reads \ {r} /\ UNCHANGED <<network, chain, dropped, mounted, entries, back>>
      /\ cache' = IF r.kind = "refresh" THEN [cache EXCEPT ![r.for] = [cache[r.for] EXCEPT !.refreshing = FALSE]]
                  ELSE cache
      /\ IF L!OnPage(r) THEN busy' = L!Idle /\ stray' = TRUE ELSE UNCHANGED <<busy, stray>>
  BY DEF L!Fail
<1>2. BoardTypes /\ PageWaits /\ BoardNumbers /\ BoardScreen
  BY DEF BoardInv, BoardOrder
<1>3. r.for \in Networks /\ cache \in [Networks -> [data : Nat, fresh : BOOLEAN, refreshing : BOOLEAN]]
  BY <1>2 DEF BoardTypes
<1>4. \A m \in Networks : /\ cache'[m].data = cache[m].data
                          /\ cache[m] = L!NoEntry => cache'[m] = L!NoEntry
  <2>1. CASE r.kind = "refresh"
    <3>1. cache' = [cache EXCEPT ![r.for] = [cache[r.for] EXCEPT !.refreshing = FALSE]]
      BY <1>1, <2>1
    <3>2. \A m \in Networks \ {r.for} : cache'[m] = cache[m]
      BY <1>3, <3>1
    <3>3. cache'[r.for] = [cache[r.for] EXCEPT !.refreshing = FALSE]
      BY <1>3, <3>1
    <3>4. cache'[r.for].data = cache[r.for].data
      BY <1>3, <3>3
    <3>5. ASSUME cache[r.for] = L!NoEntry PROVE cache'[r.for] = L!NoEntry
      <4>1. cache'[r.for] = [L!NoEntry EXCEPT !.refreshing = FALSE]
        BY <3>3, <3>5
      <4> QED BY <4>1 DEF L!NoEntry, L!Unread
    <3> QED BY <3>2, <3>4, <3>5
  <2>2. CASE r.kind # "refresh"
    BY <1>1, <2>2
  <2> QED BY <2>1, <2>2
<1>5. BoardNumbers'
  BY <1>1, <1>2, <1>4 DEF BoardNumbers
<1>6. CASE L!OnPage(r)
  BY <1>1, <1>2, <1>5, <1>6 DEF BoardScreen
<1>7. CASE ~L!OnPage(r)
  <2>1. (\E s \in reads : L!OnPage(s)) => \E s \in reads' : L!OnPage(s)
    BY <1>1, <1>7
  <2>2. BoardScreen'
    BY <1>1, <1>2, <1>7, <2>1 DEF BoardScreen
  <2> QED BY <1>5, <2>2
<1> QED BY <1>6, <1>7

LEMMA BoardNextInv == ASSUME L!BoardAssumption, BoardInv, [L!Next]_(L!vars) PROVE BoardInv'
<1>1. BoardOrder'
  BY BoardOrderNext DEF BoardInv
<1>2. BoardTypes /\ PageWaits /\ BoardNumbers /\ BoardScreen
  BY DEF BoardInv, BoardOrder
<1>3. /\ network \in Networks /\ dropped \subseteq Networks
      /\ cache \in [Networks -> [data : Nat, fresh : BOOLEAN, refreshing : BOOLEAN]]
  BY <1>2 DEF BoardTypes, BoardScreen
<1> SUFFICES BoardNumbers' /\ BoardScreen'
  BY <1>1 DEF BoardInv
<1>4. CASE L!Open
  <2>1. /\ busy = L!Idle /\ mounted' = TRUE /\ L!Ask(network, TRUE, cache)
        /\ UNCHANGED <<network, chain, dropped>>
    BY <1>2, <1>4 DEF L!Open, PageWaits
  <2> QED BY <1>3, <2>1, AskSound
<1>5. CASE L!Poll
  <2>1. /\ busy = L!Idle /\ mounted' = TRUE /\ L!Ask(network, FALSE, cache)
        /\ UNCHANGED <<network, chain, dropped>>
    BY <1>2, <1>5 DEF L!Poll, BoardScreen
  <2> QED BY <1>3, <2>1, AskSound
<1>6. ASSUME NEW n \in Networks, L!SelectNetwork(n) PROVE BoardNumbers' /\ BoardScreen'
  <2>1. CASE mounted /\ busy = L!Idle
    <3>1. /\ busy = L!Idle /\ mounted' = TRUE /\ L!Ask(n, TRUE, cache) /\ network' = n
          /\ UNCHANGED <<chain, dropped>>
      BY <1>2, <1>6, <2>1 DEF L!SelectNetwork, BoardScreen
    <3> QED BY <1>3, <3>1, AskSound
  <2>2. CASE ~(mounted /\ busy = L!Idle)
    <3>1. /\ UNCHANGED <<chain, cache, reads, dropped, mounted, busy, entries, back>>
          /\ stray' = mounted /\ network' = n
      BY <1>6, <2>2 DEF L!SelectNetwork
    <3>2. ~mounted => busy = L!Idle /\ entries = {}
      BY <1>2 DEF PageWaits, BoardScreen
    <3> QED BY <1>2, <3>1, <3>2, NumbersStay DEF BoardScreen
  <2> QED BY <2>1, <2>2
<1>7. CASE L!Refetch
  <2> DEFINE emptied == [n \in Networks |-> L!NoEntry]
             refreshed == {r.for : r \in {x \in reads : x.kind = "refresh"}}
  <2>1. emptied \in [Networks -> [data : Nat, fresh : BOOLEAN, refreshing : BOOLEAN]]
    BY DEF L!NoEntry, L!Unread
  <2>2. \A m \in Networks : emptied[m] = L!NoEntry
    OBVIOUS
  <2>3. dropped' \subseteq Networks /\ UNCHANGED <<network, chain>>
    BY <1>2, <1>3, <1>7 DEF L!Refetch, BoardTypes
  <2>4. CASE busy = L!Idle
    <3>1. L!Ask(network, TRUE, emptied) /\ mounted' = TRUE
      BY <1>2, <1>7, <2>4 DEF L!Refetch, BoardScreen
    <3> HIDE DEF emptied, refreshed
    <3> QED BY <1>3, <2>1, <2>2, <2>3, <2>4, <3>1, AskSound
  <2>5. CASE busy # L!Idle
    <3>1. cache' = emptied /\ UNCHANGED <<reads, mounted, busy, entries, back, stray>>
      BY <1>7, <2>5 DEF L!Refetch, L!pageVars
    <3> HIDE DEF emptied, refreshed
    <3>2. BoardScreen'
      BY <1>2, <2>3, <3>1 DEF BoardScreen
    <3>3. L!NoEntry.data = 0 /\ \A m \in Networks : chain[m] \in Nat
      BY <1>2 DEF L!NoEntry, L!Unread, BoardTypes
    <3>4. \A m \in Networks : cache'[m] = L!NoEntry /\ cache'[m].data <= chain[m]
      BY <2>2, <3>1, <3>3
    <3>5. BoardNumbers'
      BY <1>2, <2>3, <3>1, <3>4 DEF BoardNumbers
    <3> QED BY <3>2, <3>5
  <2> QED BY <2>4, <2>5
<1>8. ASSUME NEW n \in Networks, L!Expire(n) PROVE BoardNumbers' /\ BoardScreen'
  <2>1. /\ cache[n].fresh /\ cache' = [cache EXCEPT ![n] = [cache[n] EXCEPT !.fresh = FALSE]]
        /\ UNCHANGED <<network, chain, reads, dropped, mounted, busy, entries, back, stray>>
    BY <1>8 DEF L!Expire, L!pageVars
  <2>2. cache'[n].data = cache[n].data /\ \A m \in Networks \ {n} : cache'[m] = cache[m]
    BY <1>3, <2>1
  <2>3. cache[n] # L!NoEntry
    BY <2>1 DEF L!NoEntry
  <2>4. BoardNumbers'
    BY <1>2, <2>1, <2>2, <2>3 DEF BoardNumbers
  <2>5. BoardScreen'
    BY <1>2, <2>1 DEF BoardScreen
  <2> QED BY <2>4, <2>5
<1>9. ASSUME NEW n \in Networks, L!ChainMoves(n) PROVE BoardNumbers' /\ BoardScreen'
  <2>1. /\ chain[n] + 1 \in DOMAIN Boards[n] /\ chain' = [chain EXCEPT ![n] = @ + 1]
        /\ UNCHANGED <<network, cache, reads, dropped, mounted, busy, entries, back, stray>>
    BY <1>9 DEF L!ChainMoves, L!pageVars
  <2>2. /\ \A m \in Networks : chain[m] \in Nat /\ cache[m].data \in Nat
        /\ \A r \in reads : r.for \in Networks /\ r.data \in Nat
    BY <1>2 DEF BoardTypes
  <2>3. \A m \in Networks : chain'[m] = IF m = n THEN chain[m] + 1 ELSE chain[m]
    BY <1>2, <2>1 DEF BoardTypes
  <2>4. BoardNumbers'
    <3>1. \A m \in Networks : chain'[m] \in DOMAIN Boards[m] /\ chain[m] <= chain'[m] /\ chain'[m] \in Nat
      BY <1>2, <2>1, <2>2, <2>3 DEF BoardNumbers
    <3>2. \A m \in Networks : cache[m].data <= chain'[m]
      BY <1>2, <2>2, <3>1 DEF BoardNumbers
    <3>3. \A r \in reads : r.data <= chain'[r.for]
      BY <1>2, <2>2, <3>1 DEF BoardNumbers
    <3> QED BY <1>2, <2>1, <3>1, <3>2, <3>3 DEF BoardNumbers
  <2>5. BoardScreen'
    BY <1>2, <2>1 DEF BoardScreen
  <2> QED BY <2>4, <2>5
<1>10. CASE L!Quiet \/ UNCHANGED L!vars
  <2>1. UNCHANGED <<network, chain, cache, reads, dropped, mounted, busy, entries, back, stray>>
    BY <1>10 DEF L!Quiet, L!vars, L!pageVars
  <2> QED BY <1>2, <2>1, NumbersStay DEF BoardScreen
<1> QED BY <1>4, <1>5, <1>6, <1>7, <1>8, <1>9, <1>10, BoardLeft, BoardSimulated, BoardArrived, BoardFailed
        DEF L!Next, L!Refreshes

LEMMA BoardHolds ==
    ASSUME L!BoardAssumption, BoardInv PROVE L!TypeOK /\ L!OneNetwork /\ L!NeverGoesBack /\ L!OneRead
<1>1. BoardTypes /\ PageWaits /\ BoardNumbers /\ BoardScreen /\ L!NeverGoesBack /\ L!OneRead
  BY DEF BoardInv, BoardOrder
<1>2. \A n \in Networks : chain[n] \in Nat /\ cache[n].data \in 0 .. chain[n]
  BY <1>1 DEF BoardTypes, BoardNumbers
<1>3. \A r \in reads : r.for \in Networks /\ r.data \in 0 .. chain[r.for]
  BY <1>1 DEF BoardTypes, BoardNumbers
<1>4. {r.for : r \in {x \in reads : L!OnPage(x)}} = {busy.for} \ {L!Idle.for}
  <2>1. CASE busy = L!Idle
    BY <1>1, <2>1 DEF PageWaits
  <2>2. CASE busy # L!Idle
    <3>1. busy.for # L!Idle.for
      BY <1>1, <2>2 DEF BoardScreen, L!BoardAssumption
    <3>2. PICK r \in reads : L!OnPage(r)
      BY <1>1, <2>2 DEF BoardScreen
    <3>3. \A x \in reads : L!OnPage(x) => x.for = busy.for
      BY <1>1 DEF PageWaits
    <3> QED BY <3>1, <3>2, <3>3
  <2> QED BY <2>1, <2>2
<1>5. L!TypeOK
  <2>1. \A n \in Networks : cache[n].data \in {L!Unread} \cup 1 .. chain[n]
    BY <1>2 DEF L!Unread
  <2>2. \A r \in reads : r.data \in {L!Unread} \cup 1 .. chain[r.for]
    BY <1>2, <1>3 DEF L!Unread
  <2> QED BY <1>1, <1>3, <1>4, <2>1, <2>2 DEF L!TypeOK, BoardTypes, BoardNumbers, PageWaits, BoardScreen
<1>6. L!OneNetwork
  BY <1>1 DEF BoardScreen, L!OneNetwork
<1> QED BY <1>1, <1>5, <1>6

-----------------------------------------------------------------------------
(* The profile of the wallet: its fetches, in a sequence. *)

Asks == [hook : {O!Header, O!None} \cup Pages, for : Wallets, answer : O!Answers]

LEMMA OwnCardinality == ASSUME NEW s PROVE O!Cardinality(s) = Cardinality(s)
BY Zenon DEF O!Cardinality, Cardinality

\* A sequence that holds a set, and one that holds what two sequences do.
Lists(s, S) == \A x \in S : \E i \in DOMAIN s : s[i] = x
Joins(s, a, b) ==
    /\ \A j \in DOMAIN s : \/ \E i \in DOMAIN a : s[j] = a[i]
                           \/ \E i \in DOMAIN b : s[j] = b[i]
    /\ \A i \in DOMAIN a : \E j \in DOMAIN s : s[j] = a[i]
    /\ \A i \in DOMAIN b : \E j \in DOMAIN s : s[j] = b[i]

LEMMA IsSeq == ASSUME NEW S, NEW n \in Nat, NEW s \in [1 .. n -> S] PROVE s \in Seq(S)
<1>1. s \in UNION {[1 .. k -> S] : k \in Nat}
  OBVIOUS
<1> QED BY <1>1, SeqDef

\* The members of a set of one or two, in some order.
LEMMA InOrderAre ==
    ASSUME NEW S, (\E x : S = {x}) \/ (\E x, y : x # y /\ S = {x, y}), NEW s, s = O!SetToSeq(S)
    PROVE  s \in Seq(S) /\ Lists(s, S)
<1>1. s = CHOOSE f \in [1 .. O!Cardinality(S) -> S] : O!IsInjective(f)
  BY DEF O!SetToSeq
<1>2. CASE \E x : S = {x}
  <2>1. PICK x : S = {x}
    BY <1>2
  <2>2. O!Cardinality(S) = 1
    BY <2>1, FS_Singleton, OwnCardinality
  <2> DEFINE g == [i \in 1 .. 1 |-> x]
  <2>3. g \in [1 .. 1 -> S] /\ O!IsInjective(g)
    BY <2>1 DEF O!IsInjective
  <2>4. \E f \in [1 .. 1 -> S] : O!IsInjective(f)
    BY <2>3
  <2>5. s \in [1 .. 1 -> S]
    BY <1>1, <2>2, <2>4
  <2>6. s \in Seq(S)
    BY <2>5, IsSeq
  <2>7. 1 \in DOMAIN s /\ s[1] = x
    BY <2>1, <2>5
  <2> QED BY <2>1, <2>6, <2>7 DEF Lists
<1>3. CASE \E x, y : x # y /\ S = {x, y}
  <2>1. PICK x, y : x # y /\ S = {x, y}
    BY <1>3
  <2>2. O!Cardinality(S) = 2
    <3>1. S = {x} \cup {y} /\ IsFiniteSet({x}) /\ Cardinality({x}) = 1 /\ y \notin {x}
      BY <2>1, FS_Singleton
    <3>2. Cardinality({x} \cup {y}) = Cardinality({x}) + 1
      BY <3>1, FS_AddElement
    <3> QED BY <3>1, <3>2, OwnCardinality
  <2> DEFINE g == [i \in 1 .. 2 |-> IF i = 1 THEN x ELSE y]
  <2>3. g \in [1 .. 2 -> S] /\ O!IsInjective(g)
    BY <2>1 DEF O!IsInjective
  <2>4. s \in [1 .. 2 -> S] /\ O!IsInjective(s)
    BY <1>1, <2>2, <2>3
  <2>5. s[1] \in S /\ s[2] \in S /\ s[1] # s[2] /\ DOMAIN s = 1 .. 2
    BY <2>4 DEF O!IsInjective
  <2>6. s \in Seq(S)
    BY <2>4, IsSeq
  <2>7. 1 \in DOMAIN s /\ 2 \in DOMAIN s
    BY <2>5
  <2> QED BY <2>1, <2>5, <2>6, <2>7 DEF Lists
<1> QED BY <1>2, <1>3

\* Two sequences on end hold what each of them holds.
LEMMA OnEnd ==
    ASSUME NEW S, NEW a \in Seq(S), NEW b \in Seq(S), NEW s, s = a \o b
    PROVE  s \in Seq(S) /\ Joins(s, a, b)
<1> DEFINE m == Len(a)
           n == Len(b)
<1>1. m \in Nat /\ n \in Nat /\ DOMAIN a = 1 .. m /\ DOMAIN b = 1 .. n
  OBVIOUS
<1>2. /\ s \in Seq(S) /\ Len(s) = m + n
      /\ \A j \in 1 .. m + n : s[j] = IF j <= m THEN a[j] ELSE b[j - m]
  BY ConcatProperties
<1>3. DOMAIN s = 1 .. m + n
  BY <1>2
<1> HIDE DEF m, n
<1>4. ASSUME NEW j \in 1 .. m + n
      PROVE  (\E i \in 1 .. m : s[j] = a[i]) \/ (\E i \in 1 .. n : s[j] = b[i])
  <2>1. CASE j <= m
    <3>1. j \in 1 .. m
      BY <1>1, <2>1
    <3> QED BY <1>2, <2>1, <3>1
  <2>2. CASE ~(j <= m)
    <3>1. j - m \in 1 .. n
      BY <1>1, <2>2
    <3> QED BY <1>2, <2>2, <3>1
  <2> QED BY <2>1, <2>2
<1>5. ASSUME NEW i \in 1 .. m PROVE \E j \in 1 .. m + n : s[j] = a[i]
  <2>1. i \in 1 .. m + n /\ i <= m
    BY <1>1
  <2> QED BY <1>2, <2>1
<1>6. ASSUME NEW i \in 1 .. n PROVE \E j \in 1 .. m + n : s[j] = b[i]
  <2>1. m + i \in 1 .. m + n /\ ~(m + i <= m) /\ (m + i) - m = i
    BY <1>1
  <2>2. s[m + i] = b[(m + i) - m]
    BY <1>2, <2>1, Zenon
  <2>3. s[m + i] = b[i]
    BY <2>1, <2>2
  <2> QED BY <2>1, <2>3
<1>7. Joins(s, a, b)
  <2>1. \A j \in DOMAIN s : \/ \E i \in DOMAIN a : s[j] = a[i]
                           \/ \E i \in DOMAIN b : s[j] = b[i]
    BY Zenon, <1>1, <1>3, <1>4
  <2>2. \A i \in DOMAIN a : \E j \in DOMAIN s : s[j] = a[i]
    BY Zenon, <1>1, <1>3, <1>5
  <2>3. \A i \in DOMAIN b : \E j \in DOMAIN s : s[j] = b[i]
    BY Zenon, <1>1, <1>3, <1>6
  <2> QED BY <2>1, <2>2, <2>3 DEF Joins
<1> QED BY <1>2, <1>7

\* Hooks that ask add a fetch each.
Begun(hooks, w) ==
    /\ \A j \in DOMAIN asks' :
          \/ \E i \in DOMAIN asks : asks'[j] = asks[i]
          \/ asks'[j].hook \in hooks /\ asks'[j].for = w /\ asks'[j].answer = "unread"
    /\ \A i \in DOMAIN asks : \E j \in DOMAIN asks' : asks'[j] = asks[i]
    /\ \A h \in hooks : \E j \in DOMAIN asks' : asks'[j].hook = h /\ asks'[j].for = w

LEMMA FetchAsks ==
    ASSUME asks \in Seq(Asks), NEW w \in Wallets, NEW hooks,
           hooks \subseteq {O!Header, O!None} \cup Pages,
           (\E x : hooks = {x}) \/ (\E x, y : x # y /\ hooks = {x, y}),
           O!Fetch(hooks, w)
    PROVE  /\ loading' = TRUE /\ trouble' = FALSE
           /\ asks' \in Seq(Asks) /\ asks' # <<>>
           /\ Begun(hooks, w)
<1> DEFINE Ask(h) == [hook |-> h, for |-> w, answer |-> "unread"]
           new == {Ask(h) : h \in hooks}
           s == O!SetToSeq(new)
<1>1. asks' = asks \o s /\ loading' = TRUE /\ trouble' = FALSE
  BY DEF O!Fetch
<1>2. \A h \in hooks : Ask(h) \in Asks
  BY DEF Asks, O!Answers
<1>3. \A h : Ask(h).hook = h /\ Ask(h).for = w /\ Ask(h).answer = "unread"
  OBVIOUS
<1> HIDE DEF Ask
<1>4. (\E x : new = {x}) \/ (\E x, y : x # y /\ new = {x, y})
  <2>1. CASE \E x : hooks = {x}
    <3>1. PICK x : hooks = {x}
      BY <2>1
    <3>2. new = {Ask(x)}
      BY <3>1
    <3> QED BY <3>2
  <2>2. CASE \E x, y : x # y /\ hooks = {x, y}
    <3>1. PICK x, y : x # y /\ hooks = {x, y}
      BY <2>2
    <3>2. new = {Ask(x), Ask(y)} /\ Ask(x) # Ask(y)
      BY <1>3, <3>1
    <3> QED BY <3>2
  <2> QED BY <2>1, <2>2
<1>5. s \in Seq(new) /\ Lists(s, new)
  <2>1. PICK set, t : set = new /\ t = s
    OBVIOUS
  <2>2. t = O!SetToSeq(set)
    BY <2>1
  <2> HIDE DEF new, s
  <2>3. (\E x : set = {x}) \/ (\E x, y : x # y /\ set = {x, y})
    BY <1>4, <2>1
  <2>4. t \in Seq(set) /\ Lists(t, set)
    BY <2>2, <2>3, InOrderAre
  <2> QED BY <2>1, <2>4
<1>6. s \in Seq(Asks) /\ \A i \in DOMAIN s : s[i] \in new
  <2>1. new \subseteq Asks
    BY <1>2
  <2> HIDE DEF new, s
  <2> QED BY <1>5, <2>1
<1> HIDE DEF s
<1>7. asks' \in Seq(Asks) /\ Joins(asks', asks, s)
  <2>1. PICK old, all : old = asks /\ all = asks \o s
    OBVIOUS
  <2>2. all \in Seq(Asks) /\ Joins(all, old, s)
    <3>1. old \in Seq(Asks) /\ s \in Seq(Asks) /\ all = old \o s
      BY <1>6, <2>1
    <3> QED BY <3>1, OnEnd
  <2>3. asks' = all
    BY <1>1, <2>1
  <2> QED BY <2>1, <2>2, <2>3
<1>8. \A h \in hooks : \E j \in DOMAIN asks' : asks'[j] = Ask(h)
  <2> TAKE h \in hooks
  <2>1. PICK i \in DOMAIN s : s[i] = Ask(h)
    BY <1>5 DEF Lists
  <2> HIDE DEF new
  <2> QED BY <1>7, <2>1 DEF Joins
<1>9. asks' # <<>>
  <2>1. PICK h : h \in hooks
    OBVIOUS
  <2>2. DOMAIN asks' # {}
    BY <1>8, <2>1
  <2> QED BY <2>2
<1>10. \A j \in DOMAIN asks' : \/ \E i \in DOMAIN asks : asks'[j] = asks[i]
                               \/ \E h \in hooks : asks'[j] = Ask(h)
  <2>1. \A x \in new : \E h \in hooks : x = Ask(h)
    OBVIOUS
  <2> HIDE DEF new
  <2> QED BY <1>6, <1>7, <2>1 DEF Joins
<1>11. \A j \in DOMAIN asks' :
          \/ \E i \in DOMAIN asks : asks'[j] = asks[i]
          \/ asks'[j].hook \in hooks /\ asks'[j].for = w /\ asks'[j].answer = "unread"
  <2> TAKE j \in DOMAIN asks'
  <2>1. CASE \E h \in hooks : asks'[j] = Ask(h)
    BY <1>3, <2>1
  <2> QED BY <1>10, <2>1
<1>12. \A h \in hooks : \E j \in DOMAIN asks' : asks'[j].hook = h /\ asks'[j].for = w
  <2> TAKE h \in hooks
  <2>1. PICK j \in DOMAIN asks' : asks'[j] = Ask(h)
    BY <1>8
  <2> QED BY <1>3, <2>1
<1>13. \A i \in DOMAIN asks : \E j \in DOMAIN asks' : asks'[j] = asks[i]
  BY <1>7 DEF Joins
<1>14. Begun(hooks, w)
  BY <1>11, <1>12, <1>13 DEF Begun
<1> QED BY <1>1, <1>7, <1>9, <1>14

\* The page goes, and leaves its fetches behind.
LEMMA LeftBehindIs ==
    ASSUME NEW s \in Seq(Asks), NEW rest, rest = O!LeftBehind(s)
    PROVE  /\ rest \in Seq(Asks) /\ DOMAIN rest = DOMAIN s
           /\ \A i \in DOMAIN s : /\ rest[i].for = s[i].for /\ rest[i].answer = s[i].answer
                                  /\ rest[i].hook = IF s[i].hook = O!Header THEN O!Header ELSE O!None
<1>1. s \in [1 .. Len(s) -> Asks] /\ Len(s) \in Nat
  BY LenProperties
<1>2. rest = [i \in DOMAIN s |-> IF s[i].hook = O!Header THEN s[i] ELSE [s[i] EXCEPT !.hook = O!None]]
  BY DEF O!LeftBehind
<1>3. ASSUME NEW i \in DOMAIN s
      PROVE  /\ rest[i] \in Asks
             /\ rest[i].for = s[i].for /\ rest[i].answer = s[i].answer
             /\ rest[i].hook = IF s[i].hook = O!Header THEN O!Header ELSE O!None
  <2>1. s[i] \in Asks
    BY <1>1
  <2>2. CASE s[i].hook = O!Header
    BY <1>2, <2>1, <2>2
  <2>3. CASE s[i].hook # O!Header
    <3>1. rest[i] = [s[i] EXCEPT !.hook = O!None]
      BY <1>2, <2>3
    <3> QED BY <2>1, <2>3, <3>1 DEF Asks
  <2> QED BY <2>2, <2>3
<1>4. rest \in [1 .. Len(s) -> Asks]
  BY <1>1, <1>2, <1>3
<1>5. rest \in Seq(Asks)
  BY <1>1, <1>4, IsSeq
<1> QED BY <1>2, <1>3, <1>5

-----------------------------------------------------------------------------
(* The profile of the wallet: its steps. *)

OwnTypes ==
    /\ picked \in Wallets \cup {O!None} /\ holders \subseteq Wallets
    /\ profile \in Wallets \cup {O!None} /\ loading \in BOOLEAN /\ trouble \in BOOLEAN
    /\ place \in Pages \cup {O!None}
    /\ picked = O!None => place = O!None
    /\ registered \subseteq {O!Header, place} \ {O!None}
    /\ asks \in Seq(Asks)
    /\ \A i \in DOMAIN asks : asks[i].hook \in {O!Header, place, O!None}
    /\ doubts \subseteq {"late", "failed", "changed"}

Told(w) == IF w \in holders THEN "found" ELSE "missing"

\* Unless a registration changed, what a fetch was told still holds.
Truthful == "changed" \notin doubts => \A i \in DOMAIN asks : asks[i].answer \in {"unread", Told(asks[i].for)}

\* When nothing came between, the store and each hook agree with the contract or wait for an answer.
AsksFor(h) == \E i \in DOMAIN asks : asks[i].hook = h /\ asks[i].for = picked
Agreeing ==
    picked # O!None /\ doubts = {} =>
        /\ ~trouble
        /\ \/ \E i \in DOMAIN asks : asks[i].for = picked
           \/ profile = IF picked \in holders THEN picked ELSE O!None
        /\ \A h \in {O!Header, place} \ {O!None} : AsksFor(h) \/ (h \in registered <=> picked \in holders)

OwnInv ==
    /\ OwnTypes /\ Truthful /\ Agreeing
    /\ O!ShownIsOwn /\ O!LoaderStandsForAFetch /\ O!EditorIsRegistered

LEMMA AskIs ==
    ASSUME NEW s \in Seq(Asks), NEW i \in DOMAIN s
    PROVE  /\ s[i] \in Asks /\ s[i].for \in Wallets /\ s[i].answer \in O!Answers
           /\ s[i].hook \in {O!Header, O!None} \cup Pages
<1>1. s[i] \in Asks
  BY MemberIs
<1> QED BY <1>1 DEF Asks

LEMMA HooksDiffer ==
    ASSUME O!OwnProfileAssumption
    PROVE  /\ O!Header # O!None /\ O!None \notin Wallets /\ O!None \notin Pages
           /\ O!Header \notin Pages /\ EditPage \in Pages
BY DEF O!OwnProfileAssumption, O!Header, O!None

LEMMA OwnInitInv == O!OwnProfileAssumption /\ O!Init => OwnInv
<1> SUFFICES ASSUME O!OwnProfileAssumption, O!Init PROVE OwnInv
  OBVIOUS
<1>1. /\ picked = O!None /\ holders \subseteq Wallets /\ profile = O!None
      /\ loading = FALSE /\ trouble = FALSE /\ place = O!None /\ registered = {} /\ asks = <<>>
      /\ doubts = {}
  BY DEF O!Init
<1>2. asks \in Seq(Asks) /\ DOMAIN asks = {}
  BY <1>1
<1>3. OwnTypes
  BY <1>1, <1>2 DEF OwnTypes
<1>4. Truthful /\ Agreeing
  BY <1>1, <1>2 DEF Truthful, Agreeing
<1>5. O!ShownIsOwn /\ O!LoaderStandsForAFetch /\ O!EditorIsRegistered
  BY <1>1, HooksDiffer DEF O!ShownIsOwn, O!LoaderStandsForAFetch, O!EditorIsRegistered
<1> QED BY <1>3, <1>4, <1>5 DEF OwnInv

\* What every fetch that begins keeps, and brings.
LEMMA Fetched ==
    ASSUME O!OwnProfileAssumption, OwnInv, NEW w \in Wallets, NEW hooks,
           hooks \subseteq {O!Header, O!None} \cup Pages,
           (\E x : hooks = {x}) \/ (\E x, y : x # y /\ hooks = {x, y}),
           O!Fetch(hooks, w),
           picked' = w, UNCHANGED <<holders, profile, registered>>,
           place' \in Pages \cup {O!None},
           registered \subseteq {O!Header, place'} \ {O!None},
           hooks \subseteq {O!Header, place', O!None}, place' = place \/ place = O!None,
           doubts' \subseteq {"late", "failed", "changed"},
           "changed" \in doubts /\ asks # <<>> => "changed" \in doubts',
           doubts' = {} => /\ \/ picked' = picked /\ doubts = {}
                              \/ {O!Header, place'} \ {O!None} \subseteq hooks
                           /\ place' = O!None \/ place' = place \/ place' \in hooks
    PROVE  OwnInv'
<1>1. OwnTypes /\ Truthful /\ Agreeing
  BY DEF OwnInv
<1>a. /\ loading' = TRUE /\ trouble' = FALSE
      /\ asks' \in Seq(Asks) /\ asks' # <<>>
      /\ Begun(hooks, w)
  BY <1>1, FetchAsks DEF OwnTypes
<1>2. /\ loading' = TRUE /\ trouble' = FALSE
      /\ asks' \in Seq(Asks) /\ asks' # <<>>
      /\ \A j \in DOMAIN asks' :
            \/ \E i \in DOMAIN asks : asks'[j] = asks[i]
            \/ asks'[j].hook \in hooks /\ asks'[j].for = w /\ asks'[j].answer = "unread"
      /\ \A i \in DOMAIN asks : \E j \in DOMAIN asks' : asks'[j] = asks[i]
      /\ \A h \in hooks : \E j \in DOMAIN asks' : asks'[j].hook = h /\ asks'[j].for = w
  BY <1>a DEF Begun
<1>3. OwnTypes'
  <2>1. \A j \in DOMAIN asks' : asks'[j].hook \in {O!Header, place', O!None}
    BY <1>1, <1>2 DEF OwnTypes
  <2>2. picked' # O!None
    BY HooksDiffer
  <2> QED BY <1>1, <1>2, <2>1, <2>2 DEF OwnTypes
<1>4. Truthful'
  <2> SUFFICES ASSUME "changed" \notin doubts', NEW j \in DOMAIN asks'
               PROVE  asks'[j].answer \in {"unread", Told(asks'[j].for)}
    BY DEF Truthful, Told
  <2>1. CASE \E i \in DOMAIN asks : asks'[j] = asks[i]
    <3>1. PICK i \in DOMAIN asks : asks'[j] = asks[i]
      BY <2>1
    <3>2. asks # <<>>
      BY <3>1
    <3> QED BY <1>1, <3>1, <3>2 DEF Truthful
  <2> QED BY <1>2, <2>1
<1>5. Agreeing'
  <2> SUFFICES ASSUME doubts' = {}
               PROVE  /\ \E j \in DOMAIN asks' : asks'[j].for = w
                      /\ \A h \in {O!Header, place'} \ {O!None} :
                            \/ \E j \in DOMAIN asks' : asks'[j].hook = h /\ asks'[j].for = w
                            \/ (h \in registered <=> w \in holders)
    BY <1>2 DEF Agreeing, AsksFor
  <2>1. \E j \in DOMAIN asks' : asks'[j].for = w
    BY <1>2
  <2>2. ASSUME NEW h \in {O!Header, place'} \ {O!None}
        PROVE  \/ \E j \in DOMAIN asks' : asks'[j].hook = h /\ asks'[j].for = w
               \/ (h \in registered <=> w \in holders)
    <3>1. CASE h \in hooks
      BY <1>2, <3>1
    <3>2. CASE h \notin hooks
      <4>1. picked = w /\ doubts = {} /\ h \in {O!Header, place} \ {O!None}
        BY <3>2
      <4>2. w # O!None
        BY HooksDiffer
      <4>3. AsksFor(h) \/ (h \in registered <=> w \in holders)
        BY <1>1, <4>1, <4>2 DEF Agreeing
      <4> QED BY <1>2, <4>1, <4>3 DEF AsksFor
    <3> QED BY <3>1, <3>2
  <2> QED BY <2>1, <2>2
<1>6. O!ShownIsOwn' /\ O!LoaderStandsForAFetch' /\ O!EditorIsRegistered'
  BY <1>2 DEF O!ShownIsOwn, O!LoaderStandsForAFetch, O!EditorIsRegistered
<1> QED BY <1>3, <1>4, <1>5, <1>6 DEF OwnInv

LEMMA OwnSelected ==
    ASSUME O!OwnProfileAssumption, OwnInv, NEW w \in Wallets, O!Select(w) PROVE OwnInv'
<1>1. OwnTypes
  BY DEF OwnInv
<1> DEFINE hooks == {O!Header, place} \ {O!None}
<1>2. /\ picked' = w /\ O!Fetch(hooks, w)
      /\ doubts' = IF \E i \in DOMAIN asks : asks[i].for = w THEN doubts
                   ELSE IF asks = <<>> THEN {} ELSE doubts \cap {"changed"}
      /\ UNCHANGED <<holders, profile, place, registered>>
  BY DEF O!Select, O!Outlasting
<1>3. (\E x : hooks = {x}) \/ (\E x, y : x # y /\ hooks = {x, y})
  <2>1. CASE place = O!None
    <3>1. hooks = {O!Header}
      BY <2>1, HooksDiffer
    <3> QED BY <3>1
  <2>2. CASE place # O!None
    <3>1. hooks = {O!Header, place} /\ O!Header # place
      BY <1>1, <2>2, HooksDiffer DEF OwnTypes
    <3> QED BY <3>1
  <2> QED BY <2>1, <2>2
<1>4. /\ hooks \subseteq {O!Header, O!None} \cup Pages /\ hooks \subseteq {O!Header, place', O!None}
      /\ {O!Header, place'} \ {O!None} \subseteq hooks
  BY <1>1, <1>2 DEF OwnTypes
<1>5. /\ doubts' \subseteq {"late", "failed", "changed"}
      /\ "changed" \in doubts /\ asks # <<>> => "changed" \in doubts'
  BY <1>1, <1>2 DEF OwnTypes
<1>6. /\ place' \in Pages \cup {O!None} /\ registered \subseteq {O!Header, place'} \ {O!None}
      /\ place' = place
  BY <1>1, <1>2 DEF OwnTypes
<1> HIDE DEF hooks
<1> QED BY <1>2, <1>3, <1>4, <1>5, <1>6, Fetched

LEMMA OwnVisited ==
    ASSUME O!OwnProfileAssumption, OwnInv, NEW p \in Pages, O!Visit(p) PROVE OwnInv'
<1>1. OwnTypes
  BY DEF OwnInv
<1> DEFINE to == IF O!Turned(p, loading, {}) THEN O!None ELSE p
<1>2. /\ picked # O!None /\ place = O!None /\ O!Fetch({to}, picked) /\ place' = to
      /\ UNCHANGED <<picked, holders, profile, registered, doubts>>
  BY DEF O!Visit
<1>3. to \in Pages \cup {O!None}
  OBVIOUS
<1>4. picked \in Wallets /\ picked' = picked
  BY <1>1, <1>2 DEF OwnTypes
<1>5. registered \subseteq {O!Header, place'} \ {O!None} /\ doubts' \subseteq {"late", "failed", "changed"}
  BY <1>1, <1>2 DEF OwnTypes
<1> HIDE DEF to
<1>6. PICK hooks : hooks = {to}
  OBVIOUS
<1>7. /\ hooks \subseteq {O!Header, O!None} \cup Pages /\ hooks \subseteq {O!Header, place', O!None}
      /\ \E x : hooks = {x}
      /\ O!Fetch(hooks, picked) /\ place' \in hooks /\ place' \in Pages \cup {O!None}
  BY <1>2, <1>3, <1>6
<1> QED BY <1>2, <1>4, <1>5, <1>7, Fetched

LEMMA OwnRefetched == ASSUME O!OwnProfileAssumption, OwnInv, O!Refetch PROVE OwnInv'
<1>1. OwnTypes
  BY DEF OwnInv
<1>2. /\ place # O!None /\ O!Fetch({place}, picked)
      /\ UNCHANGED <<picked, holders, profile, place, registered, doubts>>
  BY DEF O!Refetch
<1>3. picked \in Wallets /\ picked' = picked /\ place \in Pages
  BY <1>1, <1>2 DEF OwnTypes
<1>4. registered \subseteq {O!Header, place'} \ {O!None} /\ doubts' \subseteq {"late", "failed", "changed"}
  BY <1>1, <1>2 DEF OwnTypes
<1>5. PICK hooks : hooks = {place}
  OBVIOUS
<1>6. /\ hooks \subseteq {O!Header, O!None} \cup Pages /\ hooks \subseteq {O!Header, place', O!None}
      /\ \E x : hooks = {x}
      /\ O!Fetch(hooks, picked) /\ place' \in hooks /\ place' \in Pages \cup {O!None}
  BY <1>2, <1>3, <1>5
<1> QED BY <1>2, <1>3, <1>4, <1>6, Fetched

\* What the end of a fetch leaves: the others, except that a page which goes leaves its own behind,
\* and the word of each hook but the one that heard.
Settled(i, ok) ==
    /\ asks' \in Seq(Asks)
    /\ \A j \in DOMAIN asks' : \E k \in DOMAIN asks :
          asks'[j].for = asks[k].for /\ asks'[j].answer = asks[k].answer
    /\ \A j \in DOMAIN asks' : asks'[j].hook \in {O!Header, place', O!None}
    /\ \A k \in DOMAIN asks \ {i} : asks[k].hook \in {O!Header, place'} \ {O!None} =>
          \E j \in DOMAIN asks' : asks'[j].hook = asks[k].hook /\ asks'[j].for = asks[k].for
    /\ \A h \in {O!Header, place'} \ {O!None} :
          h \in registered' <=> IF asks[i].hook = h THEN ok ELSE h \in registered

LEMMA SettleIs ==
    ASSUME O!OwnProfileAssumption, OwnTypes, NEW i \in DOMAIN asks, NEW ok \in BOOLEAN, O!Settle(i, ok)
    PROVE  /\ loading' = FALSE /\ place' \in {place, O!None}
           /\ registered' \subseteq {O!Header, place'} \ {O!None}
           /\ place' = EditPage => EditPage \in registered'
           /\ Settled(i, ok)
<1> DEFINE hook == asks[i].hook
           heard == IF ok THEN registered \cup ({hook} \ {O!None}) ELSE registered \ {hook}
           rest == O!RemoveAt(asks, i)
<1>1. /\ loading' = FALSE
      /\ \/ /\ ~O!Turned(place, FALSE, heard)
            /\ place' = place /\ registered' = heard /\ asks' = rest
         \/ /\ place' = O!None /\ registered' = heard \ {place} /\ asks' = O!LeftBehind(rest)
  BY DEF O!Settle
<1>2. asks \in Seq(Asks) /\ hook \in {O!Header, place, O!None}
  BY DEF OwnTypes
<1>3. rest = Less(asks, i)
  BY Zenon DEF O!RemoveAt, Less
<1>4. /\ rest \in Seq(Asks)
      /\ \A j \in DOMAIN rest : \E k \in DOMAIN asks : k # i /\ rest[j] = asks[k]
      /\ \A k \in DOMAIN asks : k # i => \E j \in DOMAIN rest : rest[j] = asks[k]
  <2> HIDE DEF rest
  <2> QED BY <1>2, <1>3, OneLess
<1>5. heard \subseteq {O!Header, place} \ {O!None}
  BY <1>2 DEF OwnTypes
<1>6. \A h \in {O!Header, place} \ {O!None} : h \in heard <=> IF hook = h THEN ok ELSE h \in registered
  OBVIOUS
<1> HIDE DEF hook, heard, rest
<1>7. \A j \in DOMAIN rest : rest[j].hook \in {O!Header, place, O!None}
  BY <1>4 DEF OwnTypes
<1>8. CASE ~O!Turned(place, FALSE, heard) /\ place' = place /\ registered' = heard /\ asks' = rest
  <2>1. place' = EditPage => EditPage \in registered'
    BY <1>8 DEF O!Turned
  <2>2. Settled(i, ok)
    <3>1. \A k \in DOMAIN asks \ {i} : asks[k].hook \in {O!Header, place'} \ {O!None} =>
             \E j \in DOMAIN asks' : asks'[j].hook = asks[k].hook /\ asks'[j].for = asks[k].for
      BY <1>4, <1>8
    <3>2. \A j \in DOMAIN asks' : \E k \in DOMAIN asks :
             asks'[j].for = asks[k].for /\ asks'[j].answer = asks[k].answer
      BY <1>4, <1>8
    <3> QED BY <1>4, <1>6, <1>7, <1>8, <3>1, <3>2 DEF Settled, hook
  <2> QED BY <1>1, <1>5, <1>8, <2>1, <2>2
<1>9. CASE place' = O!None /\ registered' = heard \ {place} /\ asks' = O!LeftBehind(rest)
  <2>1. place' # EditPage /\ O!Header # place
    BY <1>9, HooksDiffer DEF OwnTypes
  <2>2. registered' \subseteq {O!Header, place'} \ {O!None}
    BY <1>5, <1>9
  <2>3. /\ asks' \in Seq(Asks) /\ DOMAIN asks' = DOMAIN rest
        /\ \A j \in DOMAIN rest : /\ asks'[j].for = rest[j].for /\ asks'[j].answer = rest[j].answer
                                  /\ asks'[j].hook = IF rest[j].hook = O!Header THEN O!Header ELSE O!None
    <3>1. PICK after : after = O!LeftBehind(rest)
      OBVIOUS
    <3>2. /\ after \in Seq(Asks) /\ DOMAIN after = DOMAIN rest
          /\ \A j \in DOMAIN rest : /\ after[j].for = rest[j].for /\ after[j].answer = rest[j].answer
                                    /\ after[j].hook = IF rest[j].hook = O!Header THEN O!Header ELSE O!None
      BY <1>4, <3>1, LeftBehindIs
    <3> QED BY <1>9, <3>1, <3>2
  <2>4. Settled(i, ok)
    <3>1. \A k \in DOMAIN asks \ {i} : asks[k].hook \in {O!Header, place'} \ {O!None} =>
             \E j \in DOMAIN asks' : asks'[j].hook = asks[k].hook /\ asks'[j].for = asks[k].for
      <4> SUFFICES ASSUME NEW k \in DOMAIN asks \ {i}, asks[k].hook \in {O!Header, place'} \ {O!None}
                   PROVE  \E j \in DOMAIN asks' : asks'[j].hook = asks[k].hook /\ asks'[j].for = asks[k].for
        OBVIOUS
      <4>1. asks[k].hook = O!Header
        BY <1>9
      <4>2. PICK j \in DOMAIN rest : rest[j] = asks[k]
        BY <1>4
      <4> QED BY <2>3, <4>1, <4>2
    <3>2. \A j \in DOMAIN asks' : \E k \in DOMAIN asks :
             asks'[j].for = asks[k].for /\ asks'[j].answer = asks[k].answer
      <4> TAKE j \in DOMAIN asks'
      <4>1. PICK k \in DOMAIN asks : rest[j] = asks[k]
        BY <1>4, <2>3
      <4> QED BY <2>3, <4>1
    <3>3. \A j \in DOMAIN asks' : asks'[j].hook \in {O!Header, place', O!None}
      BY <2>3
    <3>4. \A h \in {O!Header, place'} \ {O!None} :
             h \in registered' <=> IF hook = h THEN ok ELSE h \in registered
      BY <1>6, <1>9, <2>1
    <3> QED BY <2>3, <3>1, <3>2, <3>3, <3>4 DEF Settled, hook
  <2> QED BY <1>1, <1>9, <2>1, <2>2, <2>4
<1> QED BY <1>1, <1>8, <1>9

LEMMA OwnArrived ==
    ASSUME O!OwnProfileAssumption, OwnInv, NEW i \in DOMAIN asks, O!Arrive(i) PROVE OwnInv'
<1> DEFINE w == asks[i].for
           found == asks[i].answer = "found"
<1>1. /\ asks[i].answer # "unread"
      /\ profile' = IF found THEN w ELSE O!None
      /\ trouble' = FALSE /\ O!Settle(i, found)
      /\ doubts' = IF w # picked THEN doubts \cup {"late"} ELSE doubts
      /\ UNCHANGED <<picked, holders>>
  BY DEF O!Arrive
<1>2. OwnTypes /\ Truthful /\ Agreeing
  BY DEF OwnInv
<1>3. w \in Wallets /\ found \in BOOLEAN /\ asks[i].answer \in {"found", "missing"}
  BY <1>1, <1>2, AskIs DEF OwnTypes, O!Answers
<1>4. /\ loading' = FALSE /\ place' \in {place, O!None}
      /\ registered' \subseteq {O!Header, place'} \ {O!None}
      /\ place' = EditPage => EditPage \in registered'
      /\ Settled(i, found)
  <2>1. PICK ok \in BOOLEAN : ok = found
    BY <1>3
  <2>2. O!Settle(i, ok)
    BY <1>1, <2>1
  <2> HIDE DEF found
  <2> QED BY <1>2, <2>1, <2>2, SettleIs
<1>5. OwnTypes'
  BY <1>1, <1>2, <1>3, <1>4 DEF OwnTypes, Settled
<1>6. Truthful'
  <2> SUFFICES ASSUME "changed" \notin doubts', NEW j \in DOMAIN asks'
               PROVE  asks'[j].answer \in {"unread", Told(asks'[j].for)}
    BY <1>1 DEF Truthful, Told
  <2>1. PICK k \in DOMAIN asks : asks'[j].for = asks[k].for /\ asks'[j].answer = asks[k].answer
    BY <1>4 DEF Settled
  <2>2. asks[k].answer \in {"unread", Told(asks[k].for)}
    BY <1>1, <1>2 DEF Truthful
  <2> QED BY <1>1, <2>1, <2>2 DEF Told
<1>7. Agreeing'
  <2> SUFFICES ASSUME picked # O!None, doubts' = {}
               PROVE  /\ profile' = IF picked \in holders THEN picked ELSE O!None
                      /\ \A h \in {O!Header, place'} \ {O!None} :
                            AsksFor(h)' \/ (h \in registered' <=> picked \in holders)
    BY <1>1 DEF Agreeing
  <2>1. w = picked /\ doubts = {}
    BY <1>1
  <2>2. found <=> picked \in holders
    BY <1>2, <1>3, <2>1 DEF Truthful, Told
  <2>3. ASSUME NEW h \in {O!Header, place'} \ {O!None}
        PROVE  AsksFor(h)' \/ (h \in registered' <=> picked \in holders)
    <3>1. h \in registered' <=> IF asks[i].hook = h THEN found ELSE h \in registered
      BY <1>4 DEF Settled
    <3>2. CASE asks[i].hook = h
      BY <2>2, <3>1, <3>2
    <3>3. CASE asks[i].hook # h
      <4>1. h \in {O!Header, place} \ {O!None}
        BY <1>4
      <4>2. AsksFor(h) \/ (h \in registered <=> picked \in holders)
        BY <1>2, <2>1, <4>1 DEF Agreeing
      <4>3. CASE AsksFor(h)
        <5>1. PICK k \in DOMAIN asks : asks[k].hook = h /\ asks[k].for = picked
          BY <4>3 DEF AsksFor
        <5>2. \E j \in DOMAIN asks' : asks'[j].hook = asks[k].hook /\ asks'[j].for = asks[k].for
          BY <1>4, <3>3, <5>1 DEF Settled
        <5> QED BY <1>1, <5>1, <5>2 DEF AsksFor
      <4> QED BY <3>1, <3>3, <4>2, <4>3
    <3> QED BY <3>2, <3>3
  <2> QED BY <1>1, <2>1, <2>2, <2>3
<1>8. O!ShownIsOwn' /\ O!LoaderStandsForAFetch' /\ O!EditorIsRegistered'
  <2>1. O!ShownIsOwn'
    BY <1>1 DEF O!ShownIsOwn
  <2> QED BY <1>4, <2>1 DEF O!LoaderStandsForAFetch, O!EditorIsRegistered
<1> QED BY <1>5, <1>6, <1>7, <1>8 DEF OwnInv

LEMMA OwnFailed ==
    ASSUME O!OwnProfileAssumption, OwnInv, NEW i \in DOMAIN asks, O!Fail(i) PROVE OwnInv'
<1>1. /\ trouble' = TRUE /\ O!Settle(i, FALSE) /\ doubts' = doubts \cup {"failed"}
      /\ UNCHANGED <<picked, holders, profile>>
  BY DEF O!Fail
<1>2. OwnTypes /\ Truthful
  BY DEF OwnInv
<1>3. /\ loading' = FALSE /\ place' \in {place, O!None}
      /\ registered' \subseteq {O!Header, place'} \ {O!None}
      /\ place' = EditPage => EditPage \in registered'
      /\ Settled(i, FALSE)
  BY <1>1, <1>2, SettleIs
<1>4. OwnTypes'
  BY <1>1, <1>2, <1>3 DEF OwnTypes, Settled
<1>5. Truthful'
  <2> SUFFICES ASSUME "changed" \notin doubts', NEW j \in DOMAIN asks'
               PROVE  asks'[j].answer \in {"unread", Told(asks'[j].for)}
    BY <1>1 DEF Truthful, Told
  <2>1. PICK k \in DOMAIN asks : asks'[j].for = asks[k].for /\ asks'[j].answer = asks[k].answer
    BY <1>3 DEF Settled
  <2>2. asks[k].answer \in {"unread", Told(asks[k].for)}
    BY <1>1, <1>2 DEF Truthful
  <2> QED BY <1>1, <2>1, <2>2 DEF Told
<1>6. Agreeing'
  BY <1>1 DEF Agreeing
<1>7. O!ShownIsOwn' /\ O!LoaderStandsForAFetch' /\ O!EditorIsRegistered'
  BY <1>1, <1>3 DEF O!ShownIsOwn, O!LoaderStandsForAFetch, O!EditorIsRegistered
<1> QED BY <1>4, <1>5, <1>6, <1>7 DEF OwnInv

LEMMA OwnDisconnected == ASSUME O!OwnProfileAssumption, OwnInv, O!Disconnect PROVE OwnInv'
<1>1. /\ picked' = O!None /\ profile' = O!None /\ loading' = FALSE /\ trouble' = FALSE
      /\ registered' = {} /\ place' = O!None /\ asks' = O!LeftBehind(asks)
      /\ doubts' = IF asks = <<>> THEN {} ELSE doubts \cap {"changed"}
      /\ UNCHANGED holders
  BY DEF O!Disconnect, O!Outlasting
<1>2. OwnTypes /\ Truthful
  BY DEF OwnInv
<1>3. /\ asks' \in Seq(Asks) /\ DOMAIN asks' = DOMAIN asks
      /\ \A i \in DOMAIN asks : /\ asks'[i].for = asks[i].for /\ asks'[i].answer = asks[i].answer
                                /\ asks'[i].hook = IF asks[i].hook = O!Header THEN O!Header ELSE O!None
  <2>1. PICK these, after : these = asks /\ after = O!LeftBehind(these)
    OBVIOUS
  <2>2. /\ after \in Seq(Asks) /\ DOMAIN after = DOMAIN these
        /\ \A j \in DOMAIN these :
              /\ after[j].for = these[j].for /\ after[j].answer = these[j].answer
              /\ after[j].hook = IF these[j].hook = O!Header THEN O!Header ELSE O!None
    BY <1>2, <2>1, LeftBehindIs DEF OwnTypes
  <2> QED BY <1>1, <2>1, <2>2
<1>4. OwnTypes'
  BY <1>1, <1>2, <1>3 DEF OwnTypes
<1>5. Truthful'
  <2> SUFFICES ASSUME "changed" \notin doubts', NEW j \in DOMAIN asks
               PROVE  asks'[j].answer \in {"unread", Told(asks'[j].for)}
    BY <1>1, <1>3 DEF Truthful, Told
  <2>1. asks # <<>>
    OBVIOUS
  <2>2. "changed" \notin doubts
    BY <1>1, <2>1
  <2> QED BY <1>1, <1>2, <1>3, <2>2 DEF Truthful, Told
<1>6. Agreeing' /\ O!ShownIsOwn' /\ O!LoaderStandsForAFetch'
  BY <1>1 DEF Agreeing, O!ShownIsOwn, O!LoaderStandsForAFetch
<1>7. O!EditorIsRegistered'
  BY <1>1, HooksDiffer DEF O!EditorIsRegistered
<1> QED BY <1>4, <1>5, <1>6, <1>7 DEF OwnInv

LEMMA OwnLeft == ASSUME O!OwnProfileAssumption, OwnInv, O!LeavePage PROVE OwnInv'
<1>1. /\ place # O!None /\ place' = O!None /\ registered' = registered \ {place}
      /\ asks' = O!LeftBehind(asks)
      /\ UNCHANGED <<picked, holders, profile, loading, trouble, doubts>>
  BY DEF O!LeavePage, O!storeVars
<1>2. OwnTypes /\ Truthful /\ Agreeing
  BY DEF OwnInv
<1>3. /\ asks' \in Seq(Asks) /\ DOMAIN asks' = DOMAIN asks
      /\ \A i \in DOMAIN asks : /\ asks'[i].for = asks[i].for /\ asks'[i].answer = asks[i].answer
                                /\ asks'[i].hook = IF asks[i].hook = O!Header THEN O!Header ELSE O!None
  <2>1. PICK these, after : these = asks /\ after = O!LeftBehind(these)
    OBVIOUS
  <2>2. /\ after \in Seq(Asks) /\ DOMAIN after = DOMAIN these
        /\ \A j \in DOMAIN these :
              /\ after[j].for = these[j].for /\ after[j].answer = these[j].answer
              /\ after[j].hook = IF these[j].hook = O!Header THEN O!Header ELSE O!None
    BY <1>2, <2>1, LeftBehindIs DEF OwnTypes
  <2> QED BY <1>1, <2>1, <2>2
<1>4. O!Header # place
  BY <1>2, HooksDiffer DEF OwnTypes
<1>5. OwnTypes'
  BY <1>1, <1>2, <1>3 DEF OwnTypes
<1>6. Truthful'
  BY <1>1, <1>2, <1>3 DEF Truthful, Told
<1>7. Agreeing'
  <2> SUFFICES ASSUME picked # O!None, doubts = {}
               PROVE  /\ ~trouble
                      /\ \/ \E i \in DOMAIN asks' : asks'[i].for = picked
                         \/ profile = IF picked \in holders THEN picked ELSE O!None
                      /\ AsksFor(O!Header)' \/ (O!Header \in registered' <=> picked \in holders)
    BY <1>1 DEF Agreeing
  <2>1. /\ ~trouble
        /\ \/ \E i \in DOMAIN asks : asks[i].for = picked
           \/ profile = IF picked \in holders THEN picked ELSE O!None
        /\ AsksFor(O!Header) \/ (O!Header \in registered <=> picked \in holders)
    BY <1>2, HooksDiffer DEF Agreeing
  <2>2. AsksFor(O!Header) => AsksFor(O!Header)'
    BY <1>1, <1>3 DEF AsksFor
  <2> QED BY <1>1, <1>3, <1>4, <2>1, <2>2
<1>8. asks # <<>> => asks' # <<>>
  BY <1>2, <1>3 DEF OwnTypes
<1>9. O!ShownIsOwn' /\ O!LoaderStandsForAFetch' /\ O!EditorIsRegistered'
  BY <1>1, <1>8, HooksDiffer DEF OwnInv, O!ShownIsOwn, O!LoaderStandsForAFetch, O!EditorIsRegistered
<1> QED BY <1>5, <1>6, <1>7, <1>9 DEF OwnInv

LEMMA OwnRead == ASSUME OwnInv, NEW i \in DOMAIN asks, O!Read(i) PROVE OwnInv'
<1> DEFINE told == [asks[i] EXCEPT !.answer = Told(asks[i].for)]
<1>1. /\ asks' = [asks EXCEPT ![i] = told]
      /\ UNCHANGED <<picked, holders, profile, loading, trouble, place, registered, doubts>>
  BY DEF O!Read, O!storeVars, Told
<1>2. OwnTypes /\ Truthful /\ Agreeing
  BY DEF OwnInv
<1>3. asks \in Seq(Asks) /\ asks[i] \in Asks
  BY <1>2, AskIs DEF OwnTypes
<1>4. /\ told \in Asks /\ told.for = asks[i].for /\ told.hook = asks[i].hook
      /\ told.answer = Told(asks[i].for)
  BY <1>3 DEF Asks, Told, O!Answers
<1> HIDE DEF told
<1>5. asks' \in Seq(Asks) /\ DOMAIN asks' = DOMAIN asks
  BY <1>1, <1>3, <1>4
<1>6. \A j \in DOMAIN asks : /\ asks'[j].for = asks[j].for /\ asks'[j].hook = asks[j].hook
                             /\ asks'[j].answer \in {asks[j].answer, Told(asks[j].for)}
  BY <1>1, <1>3, <1>4
<1>7. OwnTypes'
  BY <1>1, <1>2, <1>5, <1>6 DEF OwnTypes
<1>8. Truthful'
  BY <1>1, <1>2, <1>5, <1>6 DEF Truthful, Told
<1>9. \A h : AsksFor(h)' <=> AsksFor(h)
  BY <1>1, <1>5, <1>6 DEF AsksFor
<1>10. Agreeing'
  BY <1>1, <1>2, <1>5, <1>6, <1>9 DEF Agreeing
<1>11. O!ShownIsOwn' /\ O!LoaderStandsForAFetch' /\ O!EditorIsRegistered'
  BY <1>1, <1>5 DEF OwnInv, O!ShownIsOwn, O!LoaderStandsForAFetch, O!EditorIsRegistered
<1> QED BY <1>7, <1>8, <1>10, <1>11 DEF OwnInv

LEMMA OwnNextInv == ASSUME O!OwnProfileAssumption, OwnInv, [O!Next]_(O!vars) PROVE OwnInv'
<1>1. ASSUME NEW w \in Wallets, O!HolderChanges(w) PROVE OwnInv'
  <2>1. /\ holders' \subseteq Wallets /\ "changed" \in doubts' /\ doubts' = doubts \cup {"changed"}
        /\ UNCHANGED <<picked, profile, loading, trouble, place, registered, asks>>
    BY <1>1 DEF O!HolderChanges, O!storeVars, OwnInv, OwnTypes
  <2>2. OwnTypes'
    BY <2>1 DEF OwnInv, OwnTypes
  <2>3. Truthful' /\ Agreeing'
    BY <2>1 DEF Truthful, Agreeing
  <2>4. O!ShownIsOwn' /\ O!LoaderStandsForAFetch' /\ O!EditorIsRegistered'
    BY <2>1 DEF OwnInv, O!ShownIsOwn, O!LoaderStandsForAFetch, O!EditorIsRegistered
  <2> QED BY <2>2, <2>3, <2>4 DEF OwnInv
<1>2. CASE O!Quiet \/ UNCHANGED O!vars
  <2>1. UNCHANGED <<picked, holders, profile, loading, trouble, place, registered, asks, doubts>>
    BY <1>2 DEF O!Quiet, O!vars, O!storeVars
  <2>2. OwnTypes' /\ Truthful' /\ Agreeing'
    BY <2>1 DEF OwnInv, OwnTypes, Truthful, Told, Agreeing, AsksFor
  <2>3. O!ShownIsOwn' /\ O!LoaderStandsForAFetch' /\ O!EditorIsRegistered'
    BY <2>1 DEF OwnInv, O!ShownIsOwn, O!LoaderStandsForAFetch, O!EditorIsRegistered
  <2> QED BY <2>2, <2>3 DEF OwnInv
<1> QED BY <1>1, <1>2, OwnSelected, OwnVisited, OwnRefetched, OwnArrived, OwnFailed, OwnDisconnected,
           OwnLeft, OwnRead DEF O!Next, O!Answered

LEMMA OwnHolds ==
    ASSUME OwnInv
    PROVE  /\ O!TypeOK /\ O!ShownIsOwn /\ O!LoaderStandsForAFetch
           /\ O!HooksAgree /\ O!EditorIsRegistered
<1>1. OwnTypes /\ Agreeing
  BY DEF OwnInv
<1>2. \A i \in DOMAIN asks : asks[i].for \in Wallets /\ asks[i].answer \in O!Answers
  BY <1>1, AskIs DEF OwnTypes
<1>3. O!TypeOK
  BY <1>1, <1>2 DEF OwnTypes, O!TypeOK
<1>4. O!HooksAgree
  <2> SUFFICES ASSUME picked # O!None, asks = <<>>, doubts = {}
               PROVE  /\ ~loading /\ ~trouble
                      /\ profile = IF picked \in holders THEN picked ELSE O!None
                      /\ registered = IF picked \in holders THEN {O!Header, place} \ {O!None} ELSE {}
    BY DEF O!HooksAgree
  <2>1. ~loading
    BY DEF OwnInv, O!LoaderStandsForAFetch
  <2>2. DOMAIN asks = {}
    OBVIOUS
  <2>3. /\ ~trouble /\ profile = IF picked \in holders THEN picked ELSE O!None
        /\ \A h \in {O!Header, place} \ {O!None} : h \in registered <=> picked \in holders
    BY <1>1, <2>2 DEF Agreeing, AsksFor
  <2>4. registered = IF picked \in holders THEN {O!Header, place} \ {O!None} ELSE {}
    BY <1>1, <2>3 DEF OwnTypes
  <2> QED BY <2>1, <2>3, <2>4
<1> QED BY <1>3, <1>4 DEF OwnInv
-----------------------------------------------------------------------------
(* The wallets.  The store and its copy are sound (one list, each key once, *)
(* an active key that is in it); with no cause named, at most one dialog    *)
(* has chosen, and the kit is at its choice, or at the active wallet.       *)

WalletEntries == [publicKey : Keys, walletType : Apps]

\* The keys of a list, and that it holds each of them once.
KeysOf(q) == {q[i].publicKey : i \in DOMAIN q}
KeyedOnce(q) == \A i, j \in DOMAIN q : q[i].publicKey = q[j].publicKey => i = j

LEMMA GreatestPlace ==
    ASSUME NEW n \in Nat, NEW s \in SUBSET (1 .. n), s # {}
    PROVE  W!Max(s) \in s
<1>1. s \in SUBSET (0 .. n)
  OBVIOUS
<1>2. \E x \in s : \A y \in s : x >= y
  BY <1>1, LargestExists
<1> QED BY <1>2 DEF W!Max

\* One more entry at the end of a list without its key.
LEMMA OneMoreKey ==
    ASSUME NEW q \in Seq(WalletEntries), KeyedOnce(q), NEW e \in WalletEntries, e.publicKey \notin KeysOf(q)
    PROVE  /\ Append(q, e) \in Seq(WalletEntries) /\ KeyedOnce(Append(q, e)) /\ Append(q, e) # <<>>
           /\ KeysOf(Append(q, e)) = KeysOf(q) \cup {e.publicKey}
<1> DEFINE r == Append(q, e)
           n == Len(q)
<1>1. n \in Nat /\ DOMAIN q = 1 .. n /\ r \in Seq(WalletEntries) /\ DOMAIN r = 1 .. n + 1 /\ r # <<>>
      /\ r[n + 1] = e /\ \A i \in 1 .. n : r[i] = q[i]
  OBVIOUS
<1> HIDE DEF r, n
<1>2. \A i \in 1 .. n : q[i].publicKey # e.publicKey
  BY <1>1 DEF KeysOf
<1>3. \A i \in 1 .. n + 1 : i = n + 1 \/ i \in 1 .. n
  BY <1>1
<1>4. KeyedOnce(r)
  BY <1>1, <1>2, <1>3 DEF KeyedOnce
<1>5. n + 1 \in 1 .. n + 1 /\ \A i \in 1 .. n : i \in 1 .. n + 1
  BY <1>1
<1>6. KeysOf(r) = KeysOf(q) \cup {e.publicKey}
  BY <1>1, <1>3, <1>5 DEF KeysOf
<1> QED BY <1>1, <1>4, <1>6 DEF r

\* The list without a key, as a fold.
Parting(wallets, key) == [step \in Seq(WalletEntries) \X (DOMAIN wallets) |->
                            IF wallets[step[2]].publicKey # key THEN Append(step[1], wallets[step[2]]) ELSE step[1]]
PartFold(wallets, key, f) ==
    f = [s \in SUBSET DOMAIN wallets |->
           IF s = {} THEN <<>>
           ELSE IF wallets[W!Max(s)].publicKey # key THEN Append(f[s \ {W!Max(s)}], wallets[W!Max(s)])
                ELSE f[s \ {W!Max(s)}]]
Furthest(wallets) == [s \in SUBSET DOMAIN wallets |-> W!Max(s)]
KeysAt(wallets, s) == {wallets[i].publicKey : i \in s}
PartedIn(wallets, key) ==
    [s \in SUBSET DOMAIN wallets |->
        {q \in Seq(WalletEntries) : KeyedOnce(q) /\ KeysOf(q) = KeysAt(wallets, s) \ {key}}]

LEMMA PartingIsFold ==
    ASSUME NEW wallets, NEW key
    PROVE  W!Without(wallets, key) = (CHOOSE f : PartFold(wallets, key, f))[DOMAIN wallets]
BY Zenon DEF W!Without, W!FoldLeft, W!MapThenFoldSet, PartFold

\* A list without one of its keys holds the others, each once.
LEMMA WithoutIs ==
    ASSUME NEW wallets \in Seq(WalletEntries), KeyedOnce(wallets), NEW key \in Keys
    PROVE  /\ W!Without(wallets, key) \in Seq(WalletEntries) /\ KeyedOnce(W!Without(wallets, key))
           /\ KeysOf(W!Without(wallets, key)) = KeysOf(wallets) \ {key}
<1> DEFINE P == DOMAIN wallets
           at == Furthest(wallets)
<1>1. /\ P = 1 .. Len(wallets) /\ Len(wallets) \in Nat
      /\ \A i \in P : wallets[i] \in WalletEntries
  BY ElementOfSeq
<1>2. IsFiniteSet(P) /\ P \in SUBSET P
  BY <1>1, FS_Interval
<1>3. \A s \in SUBSET P : s # {} => at[s] \in s /\ at[s] \in P /\ at[s] = W!Max(s)
  BY <1>1, GreatestPlace DEF Furthest
<1>4. <<>> \in Seq(WalletEntries)
  OBVIOUS
<1>5. ASSUME NEW q \in Seq(WalletEntries), NEW i \in P
      PROVE  Parting(wallets, key)[<<q, i>>] \in Seq(WalletEntries)
  <2>1. wallets[i] \in WalletEntries
    BY <1>1
  <2>2. Append(q, wallets[i]) \in Seq(WalletEntries)
    BY <2>1
  <2> QED BY <2>2 DEF Parting
<1> HIDE DEF at
<1>6. PICK g : /\ g = [s \in SUBSET P |-> g[s]]
               /\ \A s \in SUBSET P : g[s] \in Seq(WalletEntries)
               /\ Folding(P, at, g, <<>>, Parting(wallets, key))
  BY <1>2, <1>3, <1>4, <1>5, FoldIs
<1>7. PartFold(wallets, key, g)
  <2>1. ASSUME NEW s \in SUBSET P
        PROVE  g[s] = IF s = {} THEN <<>>
                      ELSE IF wallets[W!Max(s)].publicKey # key THEN Append(g[s \ {W!Max(s)}], wallets[W!Max(s)])
                           ELSE g[s \ {W!Max(s)}]
    <3>1. CASE s = {}
      BY <1>6, <3>1 DEF Folding
    <3>2. CASE s # {}
      <4>1. W!Max(s) \in P /\ g[s \ {W!Max(s)}] \in Seq(WalletEntries)
        BY <1>3, <1>6, <3>2
      <4>2. g[s] = Parting(wallets, key)[<<g[s \ {W!Max(s)}], W!Max(s)>>]
        BY <1>3, <1>6, <3>2 DEF Folding, Without
      <4> QED BY <3>2, <4>1, <4>2 DEF Parting
    <3> QED BY <3>1, <3>2
  <2> QED BY <1>6, <2>1 DEF PartFold
<1> DEFINE f == CHOOSE h : PartFold(wallets, key, h)
<1>8. PartFold(wallets, key, f)
  BY <1>7
<1>9. W!Without(wallets, key) = f[P]
  BY PartingIsFold
<1> HIDE DEF f
<1>10. ASSUME NEW s \in SUBSET P
       PROVE  f[s] = IF s = {} THEN <<>>
                     ELSE IF wallets[W!Max(s)].publicKey # key THEN Append(f[s \ {W!Max(s)}], wallets[W!Max(s)])
                          ELSE f[s \ {W!Max(s)}]
  BY <1>8 DEF PartFold
<1>11. f[{}] \in PartedIn(wallets, key)[{}]
  <2>1. f[{}] = <<>>
    BY <1>10
  <2>2. KeyedOnce(<<>>) /\ KeysOf(<<>>) = {}
    BY DEF KeyedOnce, KeysOf
  <2> QED BY <2>1, <2>2 DEF PartedIn, KeysAt
<1>12. ASSUME NEW s \in SUBSET P, s # {},
              f[Without(s, at[s])] \in PartedIn(wallets, key)[Without(s, at[s])]
       PROVE  f[s] \in PartedIn(wallets, key)[s]
  <2> DEFINE m == W!Max(s)
             q == f[s \ {m}]
  <2>1. m \in s /\ m \in P /\ s \ {m} \in SUBSET P /\ Without(s, at[s]) = s \ {m}
    BY <1>3, <1>12 DEF Without
  <2>2. q \in Seq(WalletEntries) /\ KeyedOnce(q) /\ KeysOf(q) = KeysAt(wallets, s \ {m}) \ {key}
    BY <1>12, <2>1 DEF PartedIn
  <2>3. f[s] = IF wallets[m].publicKey # key THEN Append(q, wallets[m]) ELSE q
    BY <1>10, <1>12
  <2> HIDE DEF m, q
  <2>4. KeysAt(wallets, s) = KeysAt(wallets, s \ {m}) \cup {wallets[m].publicKey}
    BY <2>1 DEF KeysAt
  <2>5. wallets[m].publicKey \notin KeysAt(wallets, s \ {m})
    BY <2>1 DEF KeysAt, KeyedOnce
  <2>6. wallets[m] \in WalletEntries
    BY <1>1, <2>1
  <2>7. CASE wallets[m].publicKey # key
    <3>1. wallets[m].publicKey \notin KeysOf(q)
      BY <2>2, <2>5
    <3>2. PICK e \in WalletEntries : e = wallets[m]
      BY <2>6
    <3>3. /\ Append(q, e) \in Seq(WalletEntries) /\ KeyedOnce(Append(q, e))
          /\ KeysOf(Append(q, e)) = KeysOf(q) \cup {e.publicKey}
      BY <2>2, <3>1, <3>2, OneMoreKey
    <3>4. f[s] = Append(q, e)
      BY <2>3, <2>7, <3>2
    <3>5. KeysOf(q) \cup {e.publicKey} = KeysAt(wallets, s) \ {key}
      BY <2>2, <2>4, <2>7, <3>2
    <3>6. PICK r : r = Append(q, e)
      OBVIOUS
    <3> QED BY <3>3, <3>4, <3>5, <3>6 DEF PartedIn
  <2>8. CASE wallets[m].publicKey = key
    <3>1. f[s] = q /\ KeysAt(wallets, s) \ {key} = KeysAt(wallets, s \ {m}) \ {key}
      BY <2>3, <2>4, <2>8
    <3> QED BY <2>2, <3>1 DEF PartedIn
  <2> QED BY <2>7, <2>8
<1>13. f[P] \in PartedIn(wallets, key)[P]
  <2>1. \A s \in SUBSET P : s # {} => at[s] \in s
    BY <1>3
  <2> QED BY <1>2, <1>11, <1>12, <2>1, FoldStays
<1>14. KeysAt(wallets, P) = KeysOf(wallets)
  BY DEF KeysAt, KeysOf
<1> QED BY <1>2, <1>9, <1>13, <1>14 DEF PartedIn

StoreErrors == {W!None, "timed out", "closed", "failed"}
Stores == [wallets : Seq(WalletEntries), activeWalletKey : Keys \cup {W!None}, publicKey : Keys \cup {W!None},
           connected : BOOLEAN, walletType : Apps \cup {W!None}, connecting : BOOLEAN, error : StoreErrors]
Copies == [wallets : Seq(WalletEntries), activeWalletKey : Keys \cup {W!None}, publicKey : Keys \cup {W!None},
           connected : BOOLEAN, walletType : Apps \cup {W!None}]

\* The fields of a store, or of its copy, agree.
Sound(s) ==
    /\ KeyedOnce(s.wallets)
    /\ s.publicKey = s.activeWalletKey
    /\ s.connected <=> s.wallets # <<>>
    /\ s.connected => s.activeWalletKey \in KeysOf(s.wallets)
    /\ ~s.connected => s.activeWalletKey = W!None
    /\ s.walletType # W!None => s.connected

LEMMA KeysAre ==
    ASSUME NEW q \in Seq(WalletEntries)
    PROVE  /\ KeysOf(q) \subseteq Keys /\ (q = <<>> => KeysOf(q) = {})
           /\ q # <<>> => q[1].publicKey \in KeysOf(q)
<1>1. \A i \in DOMAIN q : q[i] \in WalletEntries
  BY ElementOfSeq
<1>2. q # <<>> => 1 \in DOMAIN q
  OBVIOUS
<1>3. q = <<>> => DOMAIN q = {}
  OBVIOUS
<1> QED BY <1>1, <1>2, <1>3 DEF KeysOf, WalletEntries

LEMMA KeysOfStore == ASSUME NEW s PROVE W!WalletKeys(s) = KeysOf(s.wallets)
BY DEF W!WalletKeys, KeysOf

\* The entry of one of the keys of a store is of a wallet application.
LEMMA EntryIs ==
    ASSUME NEW s, s.wallets \in Seq(WalletEntries), NEW key \in KeysOf(s.wallets)
    PROVE  W!EntryOf(s, key).walletType \in Apps
<1>1. \A i \in DOMAIN s.wallets : s.wallets[i] \in WalletEntries
  BY ElementOfSeq
<1>2. \E i \in DOMAIN s.wallets : s.wallets[i].publicKey = key
  BY DEF KeysOf
<1>3. PICK i : i = CHOOSE j \in DOMAIN s.wallets : s.wallets[j].publicKey = key
  OBVIOUS
<1>4. i \in DOMAIN s.wallets
  BY <1>2, <1>3
<1> QED BY <1>1, <1>3, <1>4 DEF W!EntryOf, WalletEntries

LEMMA EmptyIsSound ==
    ASSUME W!WalletAssumption PROVE W!EmptyStore \in Stores /\ Sound(W!EmptyStore)
<1>1. W!EmptyStore \in Stores
  BY DEF W!EmptyStore, Stores, StoreErrors
<1> QED BY <1>1 DEF W!EmptyStore, Sound, KeyedOnce

LEMMA ConnectedIs ==
    ASSUME W!WalletAssumption, NEW s \in Stores, Sound(s), NEW key \in Keys, NEW app \in Apps,
           NEW r, r = W!Connected(s, key, app)
    PROVE  r \in Stores /\ Sound(r) /\ r.connected /\ r.walletType = app
<1>1. s.wallets \in Seq(WalletEntries) /\ W!WalletKeys(s) = KeysOf(s.wallets)
  BY KeysOfStore DEF Stores
<1>2. PICK list : list = IF key \in W!WalletKeys(s) THEN s.wallets
                         ELSE Append(s.wallets, [publicKey |-> key, walletType |-> app])
  OBVIOUS
<1>3. list \in Seq(WalletEntries) /\ KeyedOnce(list) /\ list # <<>> /\ key \in KeysOf(list)
  <2>1. CASE key \in KeysOf(s.wallets)
    BY <1>1, <1>2, <2>1, KeysAre DEF Sound
  <2>2. CASE key \notin KeysOf(s.wallets)
    <3>1. PICK e \in WalletEntries : e = [publicKey |-> key, walletType |-> app]
      BY DEF WalletEntries
    <3>2. e.publicKey = key
      BY <3>1
    <3>3. PICK q \in Seq(WalletEntries) : q = s.wallets
      BY <1>1
    <3>4. KeyedOnce(q) /\ e.publicKey \notin KeysOf(q)
      BY <2>2, <3>2, <3>3 DEF Sound
    <3>5. list = Append(q, e)
      BY <1>1, <1>2, <2>2, <3>1, <3>3
    <3> QED BY <3>2, <3>4, <3>5, OneMoreKey
  <2> QED BY <2>1, <2>2
<1>4. r = [s EXCEPT !.wallets = list, !.activeWalletKey = key, !.publicKey = key, !.connected = TRUE,
                    !.connecting = FALSE, !.error = W!None, !.walletType = app]
  BY <1>2 DEF W!Connected
<1>5. /\ r \in Stores /\ r.wallets = list /\ r.activeWalletKey = key /\ r.publicKey = key
      /\ r.connected = TRUE /\ r.walletType = app
  <2>1. r = [wallets |-> list, activeWalletKey |-> key, publicKey |-> key, connected |-> TRUE,
             walletType |-> app, connecting |-> FALSE, error |-> W!None]
    BY <1>4 DEF Stores
  <2>2. r \in Stores
    <3>1. W!None \in StoreErrors /\ key \in Keys \cup {W!None} /\ app \in Apps \cup {W!None}
      BY DEF StoreErrors
    <3>2. list \in Seq(WalletEntries)
      BY <1>3
    <3> QED BY <2>1, <3>1, <3>2 DEF Stores
  <2> QED BY <2>1, <2>2
<1> QED BY <1>3, <1>5 DEF Sound

LEMMA DisconnectedIs ==
    ASSUME W!WalletAssumption, NEW s \in Stores, NEW r, r = W!Disconnected(s)
    PROVE  r \in Stores /\ Sound(r) /\ ~r.connected
<1>1. PICK e \in Stores : e = W!EmptyStore
  BY EmptyIsSound
<1>2. /\ e.wallets = <<>> /\ e.activeWalletKey = W!None /\ e.publicKey = W!None
      /\ e.connected = FALSE /\ e.walletType = W!None
  BY <1>1 DEF W!EmptyStore
<1>3. r = [e EXCEPT !.connecting = s.connecting]
  BY <1>1 DEF W!Disconnected
<1>4. /\ r \in Stores /\ r.wallets = <<>> /\ r.activeWalletKey = W!None /\ r.publicKey = W!None
      /\ r.connected = FALSE /\ r.walletType = W!None
  BY <1>2, <1>3 DEF Stores
<1> QED BY <1>4 DEF Sound, KeyedOnce

LEMMA RemovedIs ==
    ASSUME W!WalletAssumption, NEW s \in Stores, Sound(s), NEW key \in KeysOf(s.wallets),
           NEW r, r = W!Removed(s, key)
    PROVE  r \in Stores /\ Sound(r)
<1>1. s.wallets \in Seq(WalletEntries) /\ KeyedOnce(s.wallets)
  BY DEF Stores, Sound
<1>2. key \in Keys /\ s.wallets # <<>>
  BY <1>1, KeysAre
<1>3. PICK rest : rest = W!Without(s.wallets, key)
  OBVIOUS
<1>4. rest \in Seq(WalletEntries) /\ KeyedOnce(rest) /\ KeysOf(rest) = KeysOf(s.wallets) \ {key}
  <2>1. PICK q \in Seq(WalletEntries) : q = s.wallets
    BY <1>1
  <2> QED BY <1>1, <1>2, <1>3, <2>1, WithoutIs
<1>5. PICK heir : heir = IF s.activeWalletKey # key THEN s.activeWalletKey
                           ELSE IF rest = <<>> THEN W!None ELSE rest[1].publicKey
  OBVIOUS
<1>6. /\ rest # <<>> => heir \in KeysOf(rest) /\ heir \in Keys
      /\ rest = <<>> => heir = W!None
  <2>1. s.activeWalletKey \in KeysOf(s.wallets)
    BY <1>2 DEF Sound
  <2>2. rest = <<>> => KeysOf(rest) = {}
    BY <1>4, KeysAre
  <2>3. rest # <<>> => rest[1].publicKey \in KeysOf(rest)
    BY <1>4, KeysAre
  <2>4. KeysOf(rest) \subseteq Keys
    BY <1>4, KeysAre
  <2>5. CASE rest = <<>>
    BY <1>4, <1>5, <2>1, <2>2, <2>5
  <2>6. CASE rest # <<>>
    BY <1>4, <1>5, <2>1, <2>3, <2>4, <2>6
  <2> QED BY <2>5, <2>6
<1>7. PICK other : other = [s EXCEPT !.wallets = rest]
  OBVIOUS
<1>8. other.wallets = rest
  BY <1>7 DEF Stores
<1>9. PICK type : type = IF heir = W!None THEN W!None ELSE W!EntryOf(other, heir).walletType
  OBVIOUS
<1>10. type \in Apps \cup {W!None} /\ (type # W!None => rest # <<>>)
  BY <1>4, <1>6, <1>8, <1>9, EntryIs
<1>11. r = [s EXCEPT !.wallets = rest, !.activeWalletKey = heir, !.publicKey = heir,
                     !.connected = rest # <<>>, !.walletType = type]
  BY <1>3, <1>5, <1>7, <1>9 DEF W!Removed
<1>12. /\ r \in Stores /\ r.wallets = rest /\ r.activeWalletKey = heir /\ r.publicKey = heir
       /\ (r.connected <=> rest # <<>>) /\ r.walletType = type
  BY <1>4, <1>6, <1>10, <1>11 DEF Stores
<1> QED BY <1>4, <1>6, <1>10, <1>12 DEF Sound

LEMMA ActivatedIs ==
    ASSUME W!WalletAssumption, NEW s \in Stores, Sound(s), NEW key \in KeysOf(s.wallets),
           NEW r, r = W!Activated(s, key)
    PROVE  r \in Stores /\ Sound(r)
<1>1. s.wallets \in Seq(WalletEntries)
  BY DEF Stores
<1>2. key \in Keys /\ s.wallets # <<>>
  BY <1>1, KeysAre
<1>3. PICK type \in Apps : type = W!EntryOf(s, key).walletType
  BY <1>1, EntryIs
<1>4. r = [s EXCEPT !.activeWalletKey = key, !.publicKey = key, !.walletType = type]
  BY <1>3 DEF W!Activated
<1>5. /\ r \in Stores /\ r.wallets = s.wallets /\ r.activeWalletKey = key /\ r.publicKey = key
      /\ r.connected = s.connected /\ r.walletType = type
  BY <1>2, <1>4 DEF Stores
<1> QED BY <1>2, <1>5 DEF Sound

LEMMA FailedIs ==
    ASSUME NEW s \in Stores, Sound(s), NEW error \in StoreErrors, NEW r, r = W!Failed(s, error)
    PROVE  r \in Stores /\ Sound(r) /\ r.connected = s.connected /\ r.walletType = s.walletType
<1>1. /\ r \in Stores /\ r.wallets = s.wallets /\ r.activeWalletKey = s.activeWalletKey
      /\ r.publicKey = s.publicKey /\ r.connected = s.connected /\ r.walletType = s.walletType
  BY DEF W!Failed, Stores
<1> QED BY <1>1 DEF Sound

\* What is stored of a store, and a store that takes what is stored.
LEMMA PartializedIs ==
    ASSUME NEW s \in Stores, Sound(s), NEW r, r = W!Partialized(s)
    PROVE  r \in Copies /\ Sound(r)
<1>1. r = [wallets |-> s.wallets, activeWalletKey |-> s.activeWalletKey, publicKey |-> s.publicKey,
           connected |-> s.connected, walletType |-> s.walletType]
  BY DEF W!Partialized, W!Persistent, Stores
<1>2. /\ r \in Copies /\ r.wallets = s.wallets /\ r.activeWalletKey = s.activeWalletKey
      /\ r.publicKey = s.publicKey /\ r.connected = s.connected /\ r.walletType = s.walletType
  BY <1>1 DEF Stores, Copies
<1> QED BY <1>2 DEF Sound

LEMMA HydratedIs ==
    ASSUME NEW s \in Stores, NEW copy \in Copies, Sound(copy),
           NEW r, r = [f \in DOMAIN s |-> IF f \in W!Persistent THEN copy[f] ELSE s[f]]
    PROVE  r \in Stores /\ Sound(r)
<1>1. r = [wallets |-> copy.wallets, activeWalletKey |-> copy.activeWalletKey, publicKey |-> copy.publicKey,
           connected |-> copy.connected, walletType |-> copy.walletType, connecting |-> s.connecting,
           error |-> s.error]
  BY DEF W!Persistent, Stores, Copies
<1>2. /\ r \in Stores /\ r.wallets = copy.wallets /\ r.activeWalletKey = copy.activeWalletKey
      /\ r.publicKey = copy.publicKey /\ r.connected = copy.connected /\ r.walletType = copy.walletType
  BY <1>1 DEF Stores, Copies
<1> QED BY <1>2 DEF Sound

DialogRecords ==
    [pc : {"open", "closed", "selected", "done"}, app : Apps \cup {W!None}, timer : BOOLEAN,
     hook : Openers \cup {W!None}]
IdleRecords == [armed : BOOLEAN, since : 0 .. IdleTimeout, warned : BOOLEAN, hidden : BOOLEAN]
Chosen(d) == dialogs[d].pc = "selected"

WalletTypes ==
    /\ store \in Stores /\ stored \in Copies /\ hydrated \in BOOLEAN /\ kit \in Apps
    /\ dialogs \in Seq(DialogRecords)
    /\ \A d \in DOMAIN dialogs : Chosen(d) => dialogs[d].app \in Apps

\* With no cause named, the kit is at the choice of the only dialog that has one, or at the wallet.
KitInPlace ==
    moves = {} =>
        /\ hydrated
        /\ \A d, e \in DOMAIN dialogs : Chosen(d) /\ Chosen(e) => d = e
        /\ \A d \in DOMAIN dialogs : Chosen(d) => dialogs[d].app = kit
        /\ store.connected /\ (\A d \in DOMAIN dialogs : ~Chosen(d)) => kit = store.walletType

\* The timers run while a wallet is connected, and whoever is to be warned was.
Watched ==
    /\ idle \in IdleRecords
    /\ idle.armed => store.connected
    /\ idle.armed /\ ~idle.hidden /\ idle.since >= IdleTimeout - Warning => idle.warned
    /\ ended \subseteq {"warned", "hidden"}

WalletInv == WalletTypes /\ Sound(store) /\ Sound(stored) /\ KitInPlace /\ Watched

LEMMA FreshIs ==
    ASSUME W!WalletAssumption
    PROVE  /\ W!Fresh \in IdleRecords /\ W!Fresh.armed /\ W!Fresh.since = 0
           /\ W!Stopped \in IdleRecords /\ ~W!Stopped.armed
           /\ ~(0 >= IdleTimeout - Warning)
<1>1. IdleTimeout \in Nat /\ Warning \in 1 .. IdleTimeout - 1
  BY DEF W!WalletAssumption
<1>2. W!Fresh \in IdleRecords /\ W!Fresh.armed /\ W!Fresh.since = 0
  BY <1>1 DEF W!Fresh, IdleRecords
<1>3. W!Stopped \in IdleRecords /\ ~W!Stopped.armed
  BY <1>2 DEF W!Stopped, IdleRecords
<1>4. ~(0 >= IdleTimeout - Warning)
  BY <1>1
<1> QED BY <1>2, <1>3, <1>4

LEMMA WatchGoesOn == ASSUME Watched, UNCHANGED <<idle, ended>>, store'.connected = store.connected PROVE Watched'
BY DEF Watched

LEMMA WatchFollows ==
    ASSUME W!WalletAssumption, Watched, store \in Stores, store' \in Stores, W!Follow(store'), UNCHANGED ended
    PROVE  Watched'
<1>1. store.connected \in BOOLEAN /\ store'.connected \in BOOLEAN
  BY DEF Stores
<1>2. CASE store'.connected = store.connected
  <2>1. idle' = idle
    BY <1>2 DEF W!Follow
  <2> QED BY <1>2, <2>1, WatchGoesOn
<1>3. CASE store'.connected # store.connected /\ store'.connected
  <2>1. idle' = W!Fresh
    BY <1>3 DEF W!Follow
  <2> QED BY <1>3, <2>1, FreshIs DEF Watched
<1>4. CASE store'.connected # store.connected /\ ~store'.connected
  <2>1. idle' = W!Stopped
    BY <1>4 DEF W!Follow
  <2> QED BY <1>4, <2>1, FreshIs DEF Watched
<1> QED BY <1>1, <1>2, <1>3, <1>4

\* Clearing the timer of a dialog changes nothing else.
Alike(ds, es) ==
    /\ es \in Seq(DialogRecords) /\ DOMAIN es = DOMAIN ds /\ Len(es) = Len(ds)
    /\ \A d \in DOMAIN ds : es[d].pc = ds[d].pc /\ es[d].app = ds[d].app

LEMMA TimerOffIs ==
    ASSUME NEW r \in DialogRecords
    PROVE  /\ [r EXCEPT !.timer = FALSE] \in DialogRecords
           /\ [r EXCEPT !.timer = FALSE].pc = r.pc
           /\ [r EXCEPT !.timer = FALSE].app = r.app
BY DEF DialogRecords

\* Records that are alike, one by one, make a sequence that is.
LEMMA AlikeIs ==
    ASSUME WalletTypes, NEW es, es = [d \in DOMAIN dialogs |-> es[d]],
           \A d \in DOMAIN dialogs : /\ es[d] \in DialogRecords
                                    /\ es[d].pc = dialogs[d].pc /\ es[d].app = dialogs[d].app
    PROVE  Alike(dialogs, es)
<1>1. PICK n \in Nat : Len(dialogs) = n /\ DOMAIN dialogs = 1 .. n
  BY DEF WalletTypes
<1>2. PICK ds \in [1 .. n -> DialogRecords] :
          ds = es
  <2>1. es \in [1 .. n -> DialogRecords]
    BY <1>1
  <2> QED BY <2>1
<1>3. ds \in Seq(DialogRecords) /\ DOMAIN ds = 1 .. n
  BY IsSeq
<1>4. Len(ds) = n
  BY <1>3
<1> QED BY <1>1, <1>2, <1>3, <1>4 DEF Alike

LEMMA ClearedIs ==
    ASSUME WalletTypes, NEW h, NEW ds, ds = W!Cleared(h) PROVE Alike(dialogs, ds)
<1> DEFINE F(d) == IF dialogs[d].hook = h /\ W!Latest(d)
                   THEN [dialogs[d] EXCEPT !.timer = FALSE] ELSE dialogs[d]
<1>1. \A d \in DOMAIN dialogs : dialogs[d] \in DialogRecords
  BY DEF WalletTypes
<1>2. \A d \in DOMAIN dialogs : /\ F(d) \in DialogRecords
                                /\ F(d).pc = dialogs[d].pc /\ F(d).app = dialogs[d].app
  BY <1>1, TimerOffIs
<1>3. ds = [d \in DOMAIN dialogs |-> F(d)]
  BY DEF W!Cleared
<1> HIDE DEF F
<1>4. ds = [d \in DOMAIN dialogs |-> ds[d]] /\ \A d \in DOMAIN dialogs : ds[d] = F(d)
  BY <1>3
<1> QED BY <1>2, <1>4, AlikeIs

LEMMA WalletInitInv == W!WalletAssumption /\ W!Init => WalletInv
<1> SUFFICES ASSUME W!WalletAssumption, W!Init PROVE WalletInv
  OBVIOUS
<1>1. store \in Stores /\ Sound(store) /\ ~store.connected
  BY EmptyIsSound DEF W!Init, W!EmptyStore
<1>2. stored \in Copies /\ Sound(stored)
  <2>1. PICK s \in Stores : s = W!EmptyStore /\ Sound(s)
    BY EmptyIsSound
  <2>2. stored = W!Partialized(s)
    BY <2>1 DEF W!Init
  <2> QED BY <2>1, <2>2, PartializedIs
<1>3. hydrated = TRUE /\ kit \in Apps /\ dialogs = <<>> /\ idle = W!Stopped /\ ended = {}
  BY DEF W!Init, W!WalletAssumption
<1>4. WalletTypes /\ KitInPlace
  BY <1>1, <1>2, <1>3 DEF WalletTypes, KitInPlace
<1>5. Watched
  BY <1>3, FreshIs DEF Watched
<1> QED BY <1>1, <1>2, <1>4, <1>5 DEF WalletInv

LEMMA WalletUsed == ASSUME W!WalletAssumption, WalletInv, W!UserNext PROVE WalletInv'
<1>1. WalletTypes /\ Sound(store) /\ Sound(stored) /\ KitInPlace /\ Watched /\ store \in Stores
  BY DEF WalletInv, WalletTypes
<1>2. /\ W!Follow(store') /\ UNCHANGED <<stored, hydrated, kit, dialogs, ended>>
      /\ \/ store' = W!Disconnected(store) /\ UNCHANGED moves
         \/ \E key \in W!WalletKeys(store) :
               \/ store' = W!Removed(store, key) /\ moves' = moves \cup {"removed"}
               \/ store' = W!Activated(store, key) /\ moves' = moves \cup {"switched"}
  BY Zenon DEF W!UserNext
<1>3. store' \in Stores /\ Sound(store)' /\ ((moves' = moves /\ ~store'.connected) \/ moves' # {})
  <2>1. PICK s \in Stores : s = store /\ Sound(s)
    BY <1>1
  <2>2. PICK r : r = store'
    OBVIOUS
  <2>3. r \in Stores /\ Sound(r) /\ ((moves' = moves /\ ~r.connected) \/ moves' # {})
    <3>1. CASE store' = W!Disconnected(store) /\ UNCHANGED moves
      BY <2>1, <2>2, <3>1, DisconnectedIs
    <3>2. ASSUME NEW key \in W!WalletKeys(store), store' = W!Removed(store, key),
                 moves' = moves \cup {"removed"}
          PROVE  <2>3!1
      <4>1. key \in KeysOf(s.wallets) /\ r = W!Removed(s, key)
        BY <2>1, <2>2, <3>2, KeysOfStore
      <4> QED BY <2>1, <3>2, <4>1, RemovedIs
    <3>3. ASSUME NEW key \in W!WalletKeys(store), store' = W!Activated(store, key),
                 moves' = moves \cup {"switched"}
          PROVE  <2>3!1
      <4>1. key \in KeysOf(s.wallets) /\ r = W!Activated(s, key)
        BY <2>1, <2>2, <3>3, KeysOfStore
      <4> QED BY <2>1, <3>3, <4>1, ActivatedIs
    <3> QED BY <1>2, <3>1, <3>2, <3>3
  <2>4. Sound(store)'
    BY <2>2, <2>3 DEF Sound
  <2> QED BY <2>2, <2>3, <2>4
<1>4. WalletTypes' /\ KitInPlace' /\ Sound(stored)'
  BY <1>1, <1>2, <1>3 DEF WalletTypes, KitInPlace, Chosen, Sound
<1>5. Watched'
  BY <1>1, <1>2, <1>3, WatchFollows
<1> QED BY <1>3, <1>4, <1>5 DEF WalletInv

LEMMA WalletPersisted == ASSUME WalletInv, W!Persist PROVE WalletInv'
<1>1. WalletTypes /\ Sound(store) /\ KitInPlace /\ Watched /\ store \in Stores
  BY DEF WalletInv, WalletTypes
<1>2. stored' = W!Partialized(store) /\ UNCHANGED <<store, hydrated, kit, dialogs, idle, ended, moves>>
  BY DEF W!Persist, W!idleVars
<1>3. stored' \in Copies /\ Sound(stored)'
  <2>1. PICK s \in Stores : s = store /\ Sound(s)
    BY <1>1
  <2>2. PICK r : r = stored'
    OBVIOUS
  <2>3. r \in Copies /\ Sound(r)
    BY <1>2, <2>1, <2>2, PartializedIs
  <2> QED BY <2>2, <2>3 DEF Sound
<1>4. WalletTypes' /\ KitInPlace' /\ Watched' /\ Sound(store)'
  BY <1>1, <1>2, <1>3 DEF WalletTypes, KitInPlace, Watched, Chosen, Sound
<1> QED BY <1>3, <1>4 DEF WalletInv

LEMMA WalletReloaded == ASSUME W!WalletAssumption, WalletInv, W!Reload PROVE WalletInv'
<1>1. WalletTypes /\ Sound(stored) /\ Watched /\ dialogs \in Seq(DialogRecords)
  BY DEF WalletInv, WalletTypes
<1>2. /\ store' = W!EmptyStore /\ hydrated' = FALSE /\ kit' = Freighter
      /\ dialogs' = [d \in DOMAIN dialogs |->
                       [pc |-> "done", app |-> W!None, timer |-> FALSE, hook |-> W!None]]
      /\ idle' = W!Stopped /\ moves' # {} /\ UNCHANGED <<stored, ended>>
  BY DEF W!Reload
<1>3. store' \in Stores /\ Sound(store)'
  <2>1. PICK r : r = store' /\ r \in Stores /\ Sound(r)
    BY <1>2, EmptyIsSound
  <2> QED BY <2>1 DEF Sound
<1>4. dialogs' \in Seq(DialogRecords) /\ \A d \in DOMAIN dialogs' : dialogs'[d].pc = "done"
  <2>1. PICK e \in DialogRecords : e = [pc |-> "done", app |-> W!None, timer |-> FALSE, hook |-> W!None] /\ e.pc = "done"
    <3>1. [pc |-> "done", app |-> W!None, timer |-> FALSE, hook |-> W!None] \in DialogRecords
      BY DEF DialogRecords
    <3> QED BY <3>1
  <2>2. PICK n \in Nat : DOMAIN dialogs = 1 .. n
    BY <1>1
  <2>3. PICK ds \in [1 .. n -> DialogRecords] : ds = dialogs' /\ \A d \in 1 .. n : ds[d] = e
    <3>1. dialogs' = [d \in 1 .. n |-> e]
      BY <1>2, <2>1, <2>2
    <3> QED BY <3>1
  <2>4. ds \in Seq(DialogRecords)
    BY IsSeq
  <2> QED BY <2>1, <2>3, <2>4
<1>5. WalletTypes' /\ KitInPlace' /\ Sound(stored)'
  <2>1. stored' \in Copies /\ hydrated' \in BOOLEAN /\ kit' \in Apps
    BY <1>1, <1>2 DEF W!WalletAssumption, WalletTypes
  <2>2. WalletTypes'
    BY <1>3, <1>4, <2>1 DEF WalletTypes, Chosen
  <2> QED BY <1>1, <1>2, <2>2 DEF KitInPlace, Sound
<1>6. Watched'
  BY <1>1, <1>2, FreshIs DEF Watched
<1> QED BY <1>3, <1>5, <1>6 DEF WalletInv

LEMMA WalletHydrated == ASSUME W!WalletAssumption, WalletInv, W!Hydrate PROVE WalletInv'
<1>1. /\ WalletTypes /\ Sound(stored) /\ KitInPlace /\ Watched /\ store \in Stores /\ stored \in Copies
  BY DEF WalletInv, WalletTypes
<1>2. /\ ~hydrated /\ hydrated' = TRUE /\ W!Follow(store')
      /\ store' = [f \in DOMAIN store |-> IF f \in W!Persistent THEN stored[f] ELSE store[f]]
      /\ UNCHANGED <<stored, kit, dialogs, ended, moves>>
  BY Zenon DEF W!Hydrate
<1>3. store' \in Stores /\ Sound(store)'
  <2>1. PICK s \in Stores, copy \in Copies : s = store /\ copy = stored /\ Sound(copy)
    BY <1>1
  <2>2. PICK r : r = store'
    OBVIOUS
  <2>3. r \in Stores /\ Sound(r)
    BY <1>2, <2>1, <2>2, HydratedIs
  <2> QED BY <2>2, <2>3 DEF Sound
<1>4. WalletTypes' /\ KitInPlace' /\ Sound(stored)'
  BY <1>1, <1>2, <1>3 DEF WalletTypes, KitInPlace, Chosen, Sound
<1>5. Watched'
  BY <1>1, <1>2, <1>3, WatchFollows
<1> QED BY <1>3, <1>4, <1>5 DEF WalletInv

LEMMA WalletOpened == ASSUME WalletInv, NEW h \in Openers, W!OpenDialog(h) PROVE WalletInv'
<1>1. WalletTypes /\ Sound(store) /\ Sound(stored) /\ KitInPlace /\ Watched /\ dialogs \in Seq(DialogRecords)
  BY DEF WalletInv, WalletTypes
<1>2. /\ store' = [store EXCEPT !.connecting = TRUE, !.error = W!None]
      /\ dialogs' = Append(dialogs, [pc |-> "open", app |-> W!None, timer |-> TRUE, hook |-> h])
      /\ UNCHANGED <<stored, hydrated, kit, idle, ended, moves>>
  BY DEF W!OpenDialog, W!idleVars
<1>3. /\ store' \in Stores /\ store'.wallets = store.wallets /\ store'.publicKey = store.publicKey
      /\ store'.activeWalletKey = store.activeWalletKey /\ store'.connected = store.connected
      /\ store'.walletType = store.walletType
  BY <1>1, <1>2 DEF WalletTypes, Stores, StoreErrors
<1>4. PICK n \in Nat : n = Len(dialogs) /\ DOMAIN dialogs = 1 .. n
  BY <1>1
<1>5. PICK e \in DialogRecords : e.pc = "open" /\ dialogs' = Append(dialogs, e)
  <2>1. [pc |-> "open", app |-> W!None, timer |-> TRUE, hook |-> h] \in DialogRecords
    BY DEF DialogRecords
  <2> QED BY <1>2, <2>1
<1>6. /\ dialogs' \in Seq(DialogRecords) /\ Len(dialogs') = n + 1 /\ DOMAIN dialogs' = 1 .. n + 1
      /\ dialogs'[n + 1] = e /\ \A d \in 1 .. n : dialogs'[d] = dialogs[d]
  BY <1>1, <1>4, <1>5
<1>7. \A d \in DOMAIN dialogs' : Chosen(d)' => d \in DOMAIN dialogs /\ Chosen(d) /\ dialogs'[d] = dialogs[d]
  BY <1>4, <1>5, <1>6 DEF Chosen
<1>8. \A d \in DOMAIN dialogs : d \in DOMAIN dialogs' /\ (Chosen(d) <=> Chosen(d)')
  BY <1>4, <1>6 DEF Chosen
<1>9. WalletTypes'
  BY <1>1, <1>2, <1>3, <1>6, <1>7 DEF WalletTypes
<1>10. KitInPlace'
  <2>1. SUFFICES ASSUME moves = {}
        PROVE  /\ hydrated
               /\ \A d, e1 \in DOMAIN dialogs' : Chosen(d)' /\ Chosen(e1)' => d = e1
               /\ \A d \in DOMAIN dialogs' : Chosen(d)' => dialogs'[d].app = kit
               /\ store'.connected /\ (\A d \in DOMAIN dialogs' : ~Chosen(d)') => kit = store'.walletType
    BY <1>2 DEF KitInPlace
  <2> QED BY <1>1, <1>3, <1>7, <1>8, <2>1 DEF KitInPlace
<1>11. Sound(store)' /\ Sound(stored)'
  BY <1>1, <1>2, <1>3 DEF Sound
<1>12. Watched'
  BY <1>1, <1>2, <1>3, WatchGoesOn
<1> QED BY <1>9, <1>10, <1>11, <1>12 DEF WalletInv

\* A step of the dialogs that chooses nothing, ends no choice, and fails or leaves the store.
LEMMA DialogsGoOn ==
    ASSUME WalletInv, dialogs' \in Seq(DialogRecords), DOMAIN dialogs' = DOMAIN dialogs,
           \A d \in DOMAIN dialogs : Chosen(d)' <=> Chosen(d),
           \A d \in DOMAIN dialogs : Chosen(d) => dialogs'[d].app = dialogs[d].app,
           NEW error \in StoreErrors, store' = store \/ store' = W!Failed(store, error),
           UNCHANGED <<stored, hydrated, kit, idle, ended, moves>>
    PROVE  WalletInv'
<1>1. WalletTypes /\ Sound(store) /\ Sound(stored) /\ KitInPlace /\ Watched
  BY DEF WalletInv
<1>2. store' \in Stores /\ Sound(store)' /\ store'.connected = store.connected /\ store'.walletType = store.walletType
  <2>1. PICK s \in Stores : s = store /\ Sound(s)
    BY <1>1 DEF WalletTypes
  <2>2. PICK r : r = store'
    OBVIOUS
  <2>3. r \in Stores /\ Sound(r) /\ r.connected = s.connected /\ r.walletType = s.walletType
    BY <2>1, <2>2, FailedIs
  <2>4. Sound(store)'
    BY <2>2, <2>3 DEF Sound
  <2> QED BY <2>1, <2>2, <2>3, <2>4
<1>3. WalletTypes'
  BY <1>1, <1>2 DEF WalletTypes
<1>4. KitInPlace' /\ Sound(stored)'
  BY <1>1, <1>2 DEF KitInPlace, Sound
<1>5. Watched'
  BY <1>1, <1>2, WatchGoesOn
<1> QED BY <1>2, <1>3, <1>4, <1>5 DEF WalletInv

LEMMA WalletUnmounted == ASSUME WalletInv, NEW h \in Openers, W!Unmount(h) PROVE WalletInv'
<1>1. WalletTypes /\ dialogs \in Seq(DialogRecords)
  BY DEF WalletInv, WalletTypes
<1>2. PICK ds : ds = W!Cleared(h)
  OBVIOUS
<1>3. Alike(dialogs, ds)
  BY <1>1, <1>2, ClearedIs
<1> DEFINE F(d) == IF dialogs[d].hook = h THEN [ds[d] EXCEPT !.hook = W!None] ELSE dialogs[d]
<1>4. dialogs' = [d \in DOMAIN dialogs |-> F(d)] /\ store' = store
      /\ UNCHANGED <<stored, hydrated, kit, idle, ended, moves>>
  BY <1>2 DEF W!Unmount, W!storeVars, W!idleVars
<1>5. ASSUME NEW d \in DOMAIN dialogs
      PROVE  F(d) \in DialogRecords /\ F(d).pc = dialogs[d].pc /\ F(d).app = dialogs[d].app
  <2>1. dialogs[d] \in DialogRecords
    BY <1>1
  <2>2. ds[d] \in DialogRecords /\ ds[d].pc = dialogs[d].pc /\ ds[d].app = dialogs[d].app
    BY <1>3 DEF Alike
  <2>3. PICK was \in DialogRecords : was = ds[d]
    BY <2>2
  <2>4. /\ [was EXCEPT !.hook = W!None] \in DialogRecords
        /\ [was EXCEPT !.hook = W!None].pc = was.pc /\ [was EXCEPT !.hook = W!None].app = was.app
    BY DEF DialogRecords
  <2> QED BY <2>1, <2>2, <2>3, <2>4
<1> HIDE DEF F
<1>6. Alike(dialogs, dialogs')
  <2>1. PICK es : es = dialogs'
    OBVIOUS
  <2>2. es = [d \in DOMAIN dialogs |-> es[d]] /\ \A d \in DOMAIN dialogs : es[d] = F(d)
    BY <1>4, <2>1
  <2>3. Alike(dialogs, es)
    BY <1>1, <1>5, <2>2, AlikeIs
  <2> QED BY <2>1, <2>3
<1>7. "closed" \in StoreErrors
  BY DEF StoreErrors
<1>8. /\ dialogs' \in Seq(DialogRecords) /\ DOMAIN dialogs' = DOMAIN dialogs
      /\ \A d \in DOMAIN dialogs : Chosen(d)' <=> Chosen(d)
      /\ \A d \in DOMAIN dialogs : Chosen(d) => dialogs'[d].app = dialogs[d].app
  BY <1>6 DEF Alike, Chosen
<1> QED BY <1>4, <1>7, <1>8, DialogsGoOn

LEMMA WalletTimedOut == ASSUME WalletInv, NEW d \in DOMAIN dialogs, W!DialogTimesOut(d) PROVE WalletInv'
<1>1. dialogs \in Seq(DialogRecords)
  BY DEF WalletInv, WalletTypes
<1>2. /\ dialogs' = [dialogs EXCEPT ![d].timer = FALSE]
      /\ store' = store \/ store' = W!Failed(store, "timed out")
      /\ UNCHANGED <<stored, hydrated, kit, idle, ended, moves>>
  BY DEF W!DialogTimesOut, W!idleVars
<1>3. PICK e \in DialogRecords : /\ e.pc = dialogs[d].pc /\ e.app = dialogs[d].app
                                 /\ e = [dialogs[d] EXCEPT !.timer = FALSE]
  <2>1. PICK was \in DialogRecords : was = dialogs[d]
    BY <1>1
  <2>2. PICK e : e = [was EXCEPT !.timer = FALSE]
    OBVIOUS
  <2>3. e \in DialogRecords /\ e.pc = was.pc /\ e.app = was.app
    BY <2>2 DEF DialogRecords
  <2> QED BY <2>1, <2>2, <2>3
<1>4. dialogs' = [dialogs EXCEPT ![d] = e]
  BY <1>2, <1>3
<1>5. /\ dialogs' \in Seq(DialogRecords) /\ DOMAIN dialogs' = DOMAIN dialogs /\ Len(dialogs') = Len(dialogs)
      /\ \A f \in DOMAIN dialogs : dialogs'[f].pc = dialogs[f].pc /\ dialogs'[f].app = dialogs[f].app
  BY <1>1, <1>3, <1>4
<1>6. "timed out" \in StoreErrors
  BY DEF StoreErrors
<1> QED BY <1>1, <1>2, <1>5, <1>6, DialogsGoOn DEF Chosen

LEMMA WalletReturned == ASSUME WalletInv, NEW d \in DOMAIN dialogs, W!DialogReturns(d) PROVE WalletInv'
<1>1. WalletTypes /\ dialogs \in Seq(DialogRecords)
  BY DEF WalletInv, WalletTypes
<1>2. PICK ds : ds = W!Cleared(dialogs[d].hook)
  OBVIOUS
<1>3. Alike(dialogs, ds)
  BY <1>1, <1>2, ClearedIs
<1>4. /\ dialogs[d].pc = "open" /\ dialogs' = [ds EXCEPT ![d].pc = "closed"]
      /\ store' = W!Failed(store, "closed")
      /\ UNCHANGED <<stored, hydrated, kit, idle, ended, moves>>
  BY <1>2 DEF W!DialogReturns, W!idleVars
<1>5. PICK e \in DialogRecords : e.pc = "closed" /\ e = [ds[d] EXCEPT !.pc = "closed"]
  <2>1. PICK was \in DialogRecords : was = ds[d]
    BY <1>3 DEF Alike
  <2>2. PICK e : e = [was EXCEPT !.pc = "closed"]
    OBVIOUS
  <2>3. e \in DialogRecords /\ e.pc = "closed"
    BY <2>2 DEF DialogRecords
  <2> QED BY <2>1, <2>2, <2>3
<1>6. dialogs' = [ds EXCEPT ![d] = e]
  BY <1>4, <1>5
<1>7. /\ dialogs' \in Seq(DialogRecords) /\ DOMAIN dialogs' = DOMAIN dialogs /\ Len(dialogs') = Len(dialogs)
      /\ dialogs'[d].pc = "closed"
      /\ \A f \in DOMAIN dialogs \ {d} : dialogs'[f].pc = dialogs[f].pc /\ dialogs'[f].app = dialogs[f].app
  BY <1>3, <1>5, <1>6 DEF Alike
<1>8. "closed" \in StoreErrors
  BY DEF StoreErrors
<1>9. \A f \in DOMAIN dialogs : Chosen(f)' <=> Chosen(f)
  BY <1>4, <1>7 DEF Chosen
<1>10. \A f \in DOMAIN dialogs : Chosen(f) => dialogs'[f].app = dialogs[f].app
  BY <1>4, <1>7 DEF Chosen
<1> QED BY <1>4, <1>7, <1>8, <1>9, <1>10, DialogsGoOn

LEMMA WalletSelected ==
    ASSUME WalletInv, NEW d \in DOMAIN dialogs, NEW app \in Apps, W!SelectWallet(d, app) PROVE WalletInv'
<1>1. WalletTypes /\ Sound(store) /\ Sound(stored) /\ KitInPlace /\ Watched /\ dialogs \in Seq(DialogRecords)
  BY DEF WalletInv, WalletTypes
<1>2. PICK ds : ds = W!Cleared(dialogs[d].hook)
  OBVIOUS
<1>3. Alike(dialogs, ds)
  BY <1>1, <1>2, ClearedIs
<1>4. /\ dialogs' = [ds EXCEPT ![d].pc = "selected", ![d].app = app] /\ kit' = app
      /\ moves' = IF \E e \in DOMAIN dialogs : Chosen(e) THEN moves \cup {"crossed"} ELSE moves
      /\ UNCHANGED <<store, stored, hydrated, idle, ended>>
  BY <1>2 DEF W!SelectWallet, W!idleVars, W!storeVars, Chosen
<1>5. PICK e \in DialogRecords : /\ e.pc = "selected" /\ e.app = app
                                 /\ e = [[ds[d] EXCEPT !.pc = "selected"] EXCEPT !.app = app]
  <2>1. PICK was \in DialogRecords : was = ds[d]
    BY <1>3 DEF Alike
  <2>2. PICK e : e = [[was EXCEPT !.pc = "selected"] EXCEPT !.app = app]
    OBVIOUS
  <2>3. e \in DialogRecords /\ e.pc = "selected" /\ e.app = app
    BY <2>2 DEF DialogRecords
  <2> QED BY <2>1, <2>2, <2>3
<1>6. dialogs' = [ds EXCEPT ![d] = e]
  BY <1>3, <1>4, <1>5 DEF Alike
<1>7. /\ dialogs' \in Seq(DialogRecords) /\ DOMAIN dialogs' = DOMAIN dialogs /\ Len(dialogs') = Len(dialogs)
      /\ dialogs'[d].pc = "selected" /\ dialogs'[d].app = app
      /\ \A f \in DOMAIN dialogs \ {d} : dialogs'[f].pc = dialogs[f].pc /\ dialogs'[f].app = dialogs[f].app
  BY <1>3, <1>5, <1>6 DEF Alike
<1>8. WalletTypes'
  <2>1. \A f \in DOMAIN dialogs' : Chosen(f)' => dialogs'[f].app \in Apps
    BY <1>1, <1>7 DEF WalletTypes, Chosen
  <2> QED BY <1>1, <1>4, <1>7, <2>1 DEF WalletTypes
<1>9. KitInPlace'
  <2> SUFFICES ASSUME moves' = {} PROVE KitInPlace'
    BY DEF KitInPlace
  <2>1. moves = {} /\ \A f \in DOMAIN dialogs : ~Chosen(f)
    BY <1>4
  <2>2. \A f \in DOMAIN dialogs' : Chosen(f)' <=> f = d
    BY <1>7, <2>1 DEF Chosen
  <2> QED BY <1>1, <1>4, <1>7, <2>1, <2>2 DEF KitInPlace
<1>10. Sound(store)' /\ Sound(stored)' /\ Watched'
  BY <1>1, <1>4 DEF Sound, Watched
<1> QED BY <1>8, <1>9, <1>10 DEF WalletInv

\* A choice that is over.
Done(d) ==
    /\ dialogs' \in Seq(DialogRecords) /\ DOMAIN dialogs' = DOMAIN dialogs /\ Len(dialogs') = Len(dialogs)
    /\ dialogs'[d].pc = "done"
    /\ \A f \in DOMAIN dialogs \ {d} : dialogs'[f] = dialogs[f]

LEMMA DoneIs ==
    ASSUME WalletTypes, NEW d \in DOMAIN dialogs, dialogs' = [dialogs EXCEPT ![d].pc = "done"] PROVE Done(d)
<1>1. PICK was \in DialogRecords : was = dialogs[d]
  BY DEF WalletTypes
<1>2. PICK e : e = [was EXCEPT !.pc = "done"]
  OBVIOUS
<1>3. e \in DialogRecords /\ e.pc = "done"
  BY <1>2 DEF DialogRecords
<1>4. dialogs' = [dialogs EXCEPT ![d] = e]
  BY <1>1, <1>2
<1> QED BY <1>3, <1>4 DEF Done, WalletTypes

LEMMA WalletArrived ==
    ASSUME W!WalletAssumption, WalletInv, NEW d \in DOMAIN dialogs, NEW key \in Keys, W!AddressArrives(d, key)
    PROVE  WalletInv'
<1>1. WalletTypes /\ Sound(store) /\ Sound(stored) /\ KitInPlace /\ Watched /\ store \in Stores
  BY DEF WalletInv, WalletTypes
<1>2. /\ Chosen(d) /\ store' = W!Connected(store, key, dialogs[d].app)
      /\ dialogs' = [dialogs EXCEPT ![d].pc = "done"]
      /\ W!Follow(store')
      /\ (kit' = kit /\ moves' = moves) \/ (kit' = Freighter /\ moves' # {})
      /\ UNCHANGED <<stored, hydrated, ended>>
  BY Zenon DEF W!AddressArrives, Chosen
<1>3. Done(d) /\ dialogs[d].app \in Apps
  BY <1>1, <1>2, DoneIs DEF WalletTypes
<1>4. store' \in Stores /\ Sound(store)' /\ store'.connected /\ store'.walletType = dialogs[d].app
  <2>1. PICK s \in Stores, app \in Apps : s = store /\ Sound(s) /\ app = dialogs[d].app
    BY <1>1, <1>3
  <2>2. PICK r : r = store'
    OBVIOUS
  <2>3. r \in Stores /\ Sound(r) /\ r.connected /\ r.walletType = app
    BY <1>2, <2>1, <2>2, ConnectedIs
  <2>4. Sound(store)'
    BY <2>2, <2>3 DEF Sound
  <2> QED BY <2>1, <2>2, <2>3, <2>4
<1>5. WalletTypes'
  <2>1. kit' \in Apps
    BY <1>1, <1>2 DEF WalletTypes, W!WalletAssumption
  <2>2. \A f \in DOMAIN dialogs' : Chosen(f)' => dialogs'[f].app \in Apps
    BY <1>1, <1>3 DEF WalletTypes, Chosen, Done
  <2>3. stored' \in Copies /\ hydrated' \in BOOLEAN /\ dialogs' \in Seq(DialogRecords)
    BY <1>1, <1>2, <1>3 DEF WalletTypes, Done
  <2> QED BY <1>4, <2>1, <2>2, <2>3 DEF WalletTypes
<1>6. KitInPlace'
  <2> SUFFICES ASSUME moves' = {} PROVE KitInPlace'
    BY DEF KitInPlace
  <2>1. moves = {} /\ kit' = kit
    BY <1>2
  <2>2. kit = dialogs[d].app /\ hydrated /\ \A f \in DOMAIN dialogs : Chosen(f) => f = d
    BY <1>1, <1>2, <2>1 DEF KitInPlace
  <2>3. \A f \in DOMAIN dialogs' : ~Chosen(f)'
    BY <1>3, <2>2 DEF Chosen, Done
  <2> QED BY <1>2, <1>4, <2>1, <2>2, <2>3 DEF KitInPlace
<1>7. Sound(stored)'
  BY <1>1, <1>2 DEF Sound
<1>8. Watched'
  BY <1>1, <1>2, <1>4, WatchFollows
<1> QED BY <1>4, <1>5, <1>6, <1>7, <1>8 DEF WalletInv

LEMMA WalletRefused == ASSUME WalletInv, NEW d \in DOMAIN dialogs, W!AddressFails(d) PROVE WalletInv'
<1>1. WalletTypes /\ Sound(store) /\ Sound(stored) /\ Watched /\ store \in Stores
  BY DEF WalletInv, WalletTypes
<1>2. /\ store' = W!Failed(store, "failed") /\ dialogs' = [dialogs EXCEPT ![d].pc = "done"]
      /\ moves' # {} /\ UNCHANGED <<stored, hydrated, kit, idle, ended>>
  BY DEF W!AddressFails, W!idleVars
<1>3. Done(d)
  BY <1>1, <1>2, DoneIs
<1>4. store' \in Stores /\ Sound(store)' /\ store'.connected = store.connected
  <2>1. PICK s \in Stores, error \in StoreErrors : s = store /\ Sound(s) /\ error = "failed"
    BY <1>1 DEF StoreErrors
  <2>2. PICK r : r = store'
    OBVIOUS
  <2>3. r \in Stores /\ Sound(r) /\ r.connected = s.connected
    BY <1>2, <2>1, <2>2, FailedIs
  <2>4. Sound(store)'
    BY <2>2, <2>3 DEF Sound
  <2> QED BY <2>1, <2>2, <2>3, <2>4
<1>5. WalletTypes'
  <2>1. \A f \in DOMAIN dialogs' : Chosen(f)' => dialogs'[f].app \in Apps
    BY <1>1, <1>3 DEF WalletTypes, Chosen, Done
  <2>2. dialogs' \in Seq(DialogRecords)
    BY <1>1, <1>2, <1>3 DEF WalletTypes, Done
  <2> QED BY <1>1, <1>2, <1>4, <2>1, <2>2 DEF WalletTypes
<1>6. KitInPlace' /\ Sound(stored)'
  BY <1>1, <1>2 DEF KitInPlace, Sound
<1>7. Watched'
  BY <1>1, <1>2, <1>4, WatchGoesOn
<1> QED BY <1>4, <1>5, <1>6, <1>7 DEF WalletInv

LEMMA WalletWatched == ASSUME W!WalletAssumption, WalletInv, W!Activity \/ W!Hide \/ W!Tick PROVE WalletInv'
<1>1. /\ WalletTypes /\ Sound(store) /\ Sound(stored) /\ KitInPlace /\ Watched
      /\ idle \in IdleRecords
  BY DEF WalletInv, Watched
<1>2. UNCHANGED <<store, stored, hydrated, kit, dialogs, moves>>
  BY DEF W!Activity, W!Hide, W!Tick, W!storeVars
<1>3. WalletTypes' /\ Sound(store)' /\ Sound(stored)' /\ KitInPlace'
  BY <1>1, <1>2 DEF WalletTypes, Sound, KitInPlace, Chosen
<1>4. CASE W!Activity
  <2>1. idle.armed /\ idle' = W!Fresh /\ ended' = ended
    BY <1>4 DEF W!Activity
  <2>2. Watched'
    BY <1>1, <1>2, <2>1, FreshIs DEF Watched
  <2> QED BY <1>3, <2>2 DEF WalletInv
<1>5. CASE W!Hide
  <2>1. PICK fresh \in IdleRecords : fresh = W!Fresh /\ fresh.armed
    BY FreshIs
  <2>2. idle.armed /\ ended' = ended /\ idle' = [fresh EXCEPT !.hidden = TRUE]
    BY <1>5, <2>1 DEF W!Hide
  <2>3. idle' \in IdleRecords /\ idle'.hidden
    BY <2>2 DEF IdleRecords
  <2>4. Watched'
    BY <1>1, <1>2, <2>2, <2>3 DEF Watched
  <2> QED BY <1>3, <2>4 DEF WalletInv
<1>6. CASE W!Tick
  <2>1. /\ idle.armed /\ idle.since < IdleTimeout /\ IdleTimeout \in Nat /\ Warning \in 1 .. IdleTimeout - 1
        /\ idle.since \in 0 .. IdleTimeout
    BY <1>1, <1>6 DEF W!Tick, W!WalletAssumption, IdleRecords
  <2>2. PICK now \in 0 .. IdleTimeout : now = idle.since + 1
    BY <2>1
  <2>3. PICK warn \in BOOLEAN : warn <=> (idle.warned \/ (now = IdleTimeout - Warning /\ ~idle.hidden))
    OBVIOUS
  <2>4. PICK i : i = [[idle EXCEPT !.since = now] EXCEPT !.warned = warn]
    OBVIOUS
  <2>5. i \in IdleRecords /\ i.armed /\ i.since = now /\ i.warned = warn /\ i.hidden = idle.hidden
    BY <1>1, <2>1, <2>4 DEF IdleRecords
  <2>6. idle' = i
    <3>1. idle' = [idle EXCEPT !.since = @ + 1,
                               !.warned = @ \/ (idle.since + 1 = IdleTimeout - Warning /\ ~idle.hidden)]
      BY <1>6 DEF W!Tick
    <3>2. (idle.warned \/ (idle.since + 1 = IdleTimeout - Warning /\ ~idle.hidden)) = warn
      BY <2>2, <2>3
    <3> QED BY <1>1, <2>2, <2>4, <3>1, <3>2 DEF IdleRecords
  <2>7. ended' = IF now < IdleTimeout THEN ended
                 ELSE ended \cup {IF ~store.connected THEN "disconnected"
                                  ELSE IF idle.hidden THEN "hidden"
                                  ELSE IF idle.warned THEN "warned" ELSE "unwarned"}
    BY <1>6, <2>2 DEF W!Tick
  <2>8. ~idle.hidden /\ now >= IdleTimeout - Warning => warn
    <3>1. ~idle.hidden /\ now > IdleTimeout - Warning => idle.since >= IdleTimeout - Warning
      BY <2>1, <2>2
    <3>2. now >= IdleTimeout - Warning => now = IdleTimeout - Warning \/ now > IdleTimeout - Warning
      BY <2>1, <2>2
    <3> QED BY <1>1, <2>1, <2>3, <3>1, <3>2 DEF Watched
  <2>9. ended' \subseteq {"warned", "hidden"}
    <3>1. CASE now < IdleTimeout
      BY <1>1, <2>7, <3>1 DEF Watched
    <3>2. CASE ~(now < IdleTimeout)
      <4>1. idle.since >= IdleTimeout - Warning
        BY <2>1, <2>2, <3>2
      <4>2. store.connected /\ (idle.hidden \/ idle.warned)
        BY <1>1, <2>1, <4>1 DEF Watched
      <4> QED BY <1>1, <2>7, <3>2, <4>2 DEF Watched
    <3> QED BY <3>1, <3>2
  <2>10. Watched'
    BY <1>1, <1>2, <2>1, <2>5, <2>6, <2>8, <2>9 DEF Watched
  <2> QED BY <1>3, <2>10 DEF WalletInv
<1> QED BY <1>4, <1>5, <1>6

LEMMA WalletNextInv == ASSUME W!WalletAssumption, WalletInv, [W!Next]_(W!vars) PROVE WalletInv'
<1>1. CASE W!Quiet \/ UNCHANGED W!vars
  <2>1. UNCHANGED <<store, stored, hydrated, kit, dialogs, idle, ended, moves>>
    BY <1>1 DEF W!Quiet, W!vars
  <2> QED BY <2>1 DEF WalletInv, WalletTypes, Sound, KitInPlace, Chosen, Watched
<1>2. ASSUME NEW d \in DOMAIN dialogs, W!DialogNext(d) PROVE WalletInv'
  BY <1>2, WalletTimedOut, WalletReturned, WalletRefused, WalletSelected, WalletArrived DEF W!DialogNext
<1> QED BY <1>1, <1>2, WalletUsed, WalletPersisted, WalletReloaded, WalletHydrated, WalletOpened,
           WalletUnmounted, WalletWatched DEF W!Next

LEMMA WalletCardinality == ASSUME NEW s PROVE W!Cardinality(s) = Cardinality(s)
BY Zenon DEF W!Cardinality, Cardinality

LEMMA WalletHolds ==
    ASSUME W!WalletAssumption, WalletInv
    PROVE  /\ W!TypeOK /\ W!StoreAgrees /\ W!NothingToReconnect
           /\ W!KitFollowsActive /\ W!WarnedBeforeSignOut
<1>1. WalletTypes /\ Sound(store) /\ KitInPlace /\ Watched /\ store \in Stores
  BY DEF WalletInv, WalletTypes
<1>2. W!TypeOK
  <2>1. \A d \in DOMAIN dialogs : /\ dialogs[d].pc \in {"open", "closed", "selected", "done"}
                                  /\ dialogs[d].hook \in Openers \cup {W!None}
    <3>1. \A d \in DOMAIN dialogs : dialogs[d] \in DialogRecords
      BY <1>1, ElementOfSeq DEF WalletTypes
    <3> QED BY <3>1 DEF DialogRecords
  <2>2. /\ store.activeWalletKey \in Keys \cup {W!None} /\ store.publicKey \in Keys \cup {W!None}
        /\ store.walletType \in Apps \cup {W!None} /\ store.error \in StoreErrors
        /\ store.connected \in BOOLEAN /\ store.connecting \in BOOLEAN
    BY <1>1 DEF Stores
  <2>3. idle \in IdleRecords /\ ended \subseteq {"warned", "unwarned", "hidden", "disconnected"}
    BY <1>1 DEF Watched
  <2> QED BY <1>1, <2>1, <2>2, <2>3 DEF W!TypeOK, WalletTypes, StoreErrors, IdleRecords
<1>3. W!StoreAgrees
  <2>1. PICK q \in Seq(WalletEntries) : q = store.wallets /\ KeyedOnce(q)
    BY <1>1 DEF Stores, Sound
  <2>2. PICK n \in Nat : n = Len(q) /\ DOMAIN q = 1 .. n
    BY <2>1
  <2>3. Cardinality(KeysOf(q)) = n
    <3>1. PICK f : f = [i \in 1 .. n |-> q[i].publicKey]
      OBVIOUS
    <3>2. f \in Injection(1 .. n, KeysOf(q))
      BY <2>1, <2>2, <3>1 DEF Injection, IsInjective, KeysOf, KeyedOnce
    <3>3. f \in Surjection(1 .. n, KeysOf(q))
      BY <2>1, <2>2, <3>1 DEF Surjection, KeysOf
    <3>4. ExistsBijection(1 .. n, KeysOf(q))
      BY <3>2, <3>3 DEF ExistsBijection, Bijection
    <3>5. IsFiniteSet(1 .. n) /\ Cardinality(1 .. n) = n
      BY FS_Interval
    <3> QED BY <3>4, <3>5, FS_Bijection
  <2>4. W!Cardinality(W!WalletKeys(store)) = Len(store.wallets)
    BY <2>1, <2>2, <2>3, KeysOfStore, WalletCardinality
  <2>5. store.connected = (store.wallets # <<>>)
    BY <1>1 DEF Sound, Stores
  <2>6. W!WalletKeys(store) = KeysOf(store.wallets)
    BY KeysOfStore
  <2> QED BY <1>1, <2>4, <2>5, <2>6 DEF W!StoreAgrees, Sound
<1>4. W!NothingToReconnect
  BY <1>1 DEF W!NothingToReconnect, Sound
<1>5. W!KitFollowsActive
  BY <1>1 DEF W!KitFollowsActive, KitInPlace, Chosen
<1>6. W!WarnedBeforeSignOut
  BY <1>1 DEF W!WarnedBeforeSignOut, Watched
<1> QED BY <1>2, <1>3, <1>4, <1>5, <1>6

-----------------------------------------------------------------------------
(* The tip page.  What the page shows and locks follows from what runs on   *)
(* it; a transaction that may still be paid is the only one of its draft,   *)
(* until a draft is retried blindly.                                        *)

Pcs == {"queueing", "building", "signing", "polling", "settled", "gone"}
Chains == {"none", "pending", "landed", "failed", "dropped"}
Doubts == {"waited", "dismissed", "retried", "unanswered", "cancelled", "outrun"}
GuardRecords ==
    [lock : BOOLEAN, entered : BOOLEAN, timer : BOOLEAN, restored : BOOLEAN,
     status : {"idle", "pending", "success", "error"}]
FlowRecords == [step : T!Steps, draft : Nat]
TipzRecords ==
    [status : T!Statuses, sending : BOOLEAN, due : (T!Statuses \ {"idle"}) \cup {"none"}]
SeenRecords ==
    [step : T!Steps, draft : Nat, pending : BOOLEAN, restored : BOOLEAN, busy : BOOLEAN, status : T!Statuses]
SendRecords ==
    [mount : Nat, draft : Nat, guarded : BOOLEAN, pc : Pcs, seq : Nat, chain : Chains]
AccountRecords == [landed : Nat, paid : Seq(Nat)]
HistoryRecords == [drafts : Nat, causes : SUBSET Doubts, blind : SUBSET Nat]

TipTypes ==
    /\ page \in [mount : Nat, kind : T!Kinds]
    /\ guard \in GuardRecords /\ active \in 0 .. 1 /\ persisted \in BOOLEAN
    /\ flow \in FlowRecords /\ flow.draft <= history.drafts
    /\ tipz \in TipzRecords /\ seen \in SeenRecords
    /\ sends \in Seq(SendRecords) /\ Len(sends) <= SendCount
    /\ account \in AccountRecords /\ history \in HistoryRecords

Landed(s) == sends[s].chain = "landed"
\* A transaction that was paid, or may still be.
Live(s) == T!Unsettled(s) \/ Landed(s)
OnScreen(s) == T!Here(s) /\ T!Running(s)

Numbered ==
    /\ Len(account.paid) = history.drafts
    /\ \A s \in DOMAIN sends :
          /\ sends[s].mount <= page.mount /\ sends[s].draft <= history.drafts
          /\ sends[s].pc \in {"queueing", "building", "signing"} => sends[s].chain = "none"

\* Of a draft that was not retried blindly one transaction is live, and it was paid if that landed.
PaidOnce ==
    \A d \in DOMAIN account.paid :
        /\ d \notin history.blind =>
              /\ \A s, t \in DOMAIN sends :
                    sends[s].draft = d /\ sends[t].draft = d /\ Live(s) /\ Live(t) => s = t
              /\ \/ account.paid[d] = 0
                 \/ account.paid[d] = 1 /\ \E s \in DOMAIN sends : sends[s].draft = d /\ Landed(s)
        /\ (\E s \in DOMAIN sends : sends[s].draft = d /\ Landed(s)) => account.paid[d] >= 1

\* Nothing opened the guard early, and what is unsettled is behind it.
Calm == history.causes \cap {"waited", "dismissed", "retried", "unanswered"} = {}
OneUnsettled ==
    Calm => /\ \A s, t \in DOMAIN sends : T!Unsettled(s) /\ T!Unsettled(t) => s = t
            /\ \A s \in DOMAIN sends : T!Unsettled(s) => guard.lock /\ persisted

\* A draft that waits for its confirmation was not sent.
Unsent == flow.draft # 0 /\ \A s \in DOMAIN sends : sends[s].draft # flow.draft
Waiting ==
    /\ flow.step = "confirm" => Unsent
    /\ seen.step = "confirm" /\ seen.draft = flow.draft /\ ~guard.lock => Unsent

PagesAgree ==
    /\ page.kind = "register" =>
          /\ flow.step = "form" /\ flow.draft = 0 /\ seen.step = "form" /\ tipz.due = "none"
          /\ \A s \in DOMAIN sends : T!Here(s) => sends[s].pc # "queueing"
    /\ guard.restored =>
          /\ flow.step \in {"form", "confirm"} /\ tipz.due = "none"
          /\ \A s \in DOMAIN sends : ~T!Here(s)

\* No other attempt of the page could settle under the draft on screen.
Plain == history.causes \cap {"waited", "cancelled", "retried", "outrun"} = {}
OneOnScreen ==
    Plain => \A s \in DOMAIN sends : OnScreen(s) =>
                /\ guard.lock /\ sends[s].draft = flow.draft
                /\ \A t \in DOMAIN sends : OnScreen(t) => s = t

Earned ==
    /\ "retried" \notin history.causes => history.blind = {}
    /\ Plain /\ flow.draft # 0 /\ (flow.step = "success" \/ tipz.due = "success")
          => account.paid[flow.draft] = 1

TipInv == /\ TipTypes /\ T!GuardAgrees /\ Numbered /\ PaidOnce /\ OneUnsettled
          /\ Waiting /\ PagesAgree /\ OneOnScreen /\ Earned

LEMMA LesserCount == T!Max({0, 1 - 1}) = 0
<1>1. {0, 1 - 1} = {0} /\ 0 >= 0
  OBVIOUS
<1>2. PICK m : m = T!Max({0})
  OBVIOUS
<1>3. m = 0
  BY <1>1, <1>2 DEF T!Max
<1> QED BY <1>1, <1>2, <1>3

LEMMA CountedIs ==
    ASSUME TipTypes, T!GuardAgrees
    PROVE  /\ T!Exited(active, guard) = 0
           /\ ~guard.entered => T!Entered(active, guard) = 1
<1>1. CASE guard.entered
  <2>1. active = 1
    BY <1>1 DEF T!GuardAgrees
  <2> QED BY <1>1, <2>1, LesserCount DEF T!Exited
<1>2. CASE ~guard.entered
  <2>1. active = 0
    BY <1>2 DEF T!GuardAgrees
  <2> QED BY <1>2, <2>1 DEF T!Exited, T!Entered
<1> QED BY <1>1, <1>2

LEMMA AcquireIs ==
    ASSUME TipTypes, T!GuardAgrees, ~guard.lock, T!Acquire
    PROVE  /\ guard' \in GuardRecords /\ guard'.lock /\ ~guard'.restored
           /\ active' \in 0 .. 1 /\ persisted' = TRUE /\ T!GuardAgrees'
<1>1. guard' = [lock |-> TRUE, entered |-> TRUE, timer |-> TRUE, restored |-> FALSE, status |-> "pending"]
  BY DEF T!Acquire
<1>2. ~guard.entered
  BY DEF T!GuardAgrees
<1>3. active' = 1 /\ persisted' = TRUE
  BY <1>2, CountedIs DEF T!Acquire
<1>4. /\ guard' \in GuardRecords /\ guard'.lock = TRUE /\ guard'.entered = TRUE /\ guard'.timer = TRUE
      /\ guard'.restored = FALSE /\ guard'.status = "pending"
  BY <1>1 DEF GuardRecords
<1>5. (guard'.status = "pending") = guard'.lock
  BY <1>4
<1>6. active' = IF guard'.entered THEN 1 ELSE 0
  BY <1>3, <1>4
<1>7. T!GuardAgrees'
  BY Zenon, <1>4, <1>5, <1>6 DEF T!GuardAgrees
<1> QED BY <1>3, <1>4, <1>7

LEMMA ReleaseIs ==
    ASSUME TipTypes, T!GuardAgrees, NEW status \in {"idle", "success", "error"}, NEW restored \in BOOLEAN,
           T!Release(status, restored)
    PROVE  /\ guard' \in GuardRecords /\ ~guard'.lock /\ guard'.restored = restored
           /\ active' \in 0 .. 1 /\ persisted' = FALSE /\ T!GuardAgrees'
<1>1. PICK quiet \in GuardRecords :
         /\ quiet = T!IdleGuard /\ quiet.lock = FALSE /\ quiet.entered = FALSE /\ quiet.timer = FALSE
         /\ quiet.restored = FALSE /\ quiet.status = "idle"
  <2>1. T!IdleGuard \in GuardRecords
    BY DEF T!IdleGuard, GuardRecords
  <2> QED BY <2>1 DEF T!IdleGuard
<1>2. guard' = [quiet EXCEPT !.status = status, !.restored = restored]
  BY <1>1 DEF T!Release
<1>3. active' = 0 /\ persisted' = FALSE
  BY CountedIs DEF T!Release
<1>4. /\ guard' \in GuardRecords /\ guard'.lock = FALSE /\ guard'.entered = FALSE /\ guard'.timer = FALSE
      /\ guard'.restored = restored /\ guard'.status = status
  BY <1>1, <1>2 DEF GuardRecords
<1>5. (guard'.status = "pending") = guard'.lock
  BY <1>4
<1>6. active' = IF guard'.entered THEN 1 ELSE 0
  BY <1>3, <1>4
<1>7. T!GuardAgrees'
  BY Zenon, <1>4, <1>5, <1>6 DEF T!GuardAgrees
<1> QED BY <1>3, <1>4, <1>7

LEMMA StatusIs ==
    ASSUME tipz \in TipzRecords, NEW status \in T!Statuses \ {"idle"}, NEW sending \in BOOLEAN,
           NEW r, r = T!WithStatus(status, sending)
    PROVE  r \in TipzRecords /\ r.due \in {tipz.due, status}
<1>1. PICK due \in (T!Statuses \ {"idle"}) \cup {"none"} :
         due = (IF tipz.status = status THEN tipz.due ELSE status) /\ due \in {tipz.due, status}
  BY DEF TipzRecords
<1>2. r = [status |-> status, sending |-> sending, due |-> due]
  BY <1>1 DEF T!WithStatus
<1> QED BY <1>1, <1>2 DEF TipzRecords

LEMMA TipInitInv == T!TipFlowAssumption /\ T!Init => TipInv
<1> SUFFICES ASSUME T!TipFlowAssumption, T!Init PROVE TipInv
  OBVIOUS
<1>1. /\ page = [mount |-> 1, kind |-> "tip"] /\ guard = T!IdleGuard /\ active = 0 /\ persisted = FALSE
      /\ flow = T!EmptyFlow /\ tipz = T!IdleTipz
      /\ seen = [step |-> "form", draft |-> 0, pending |-> FALSE, restored |-> FALSE, busy |-> FALSE,
                 status |-> "idle"]
      /\ sends = <<>> /\ account = [landed |-> 0, paid |-> <<>>]
      /\ history = [drafts |-> 0, causes |-> {}, blind |-> {}]
  BY DEF T!Init
<1>2. /\ guard \in GuardRecords /\ guard.lock = FALSE /\ guard.entered = FALSE /\ guard.timer = FALSE
      /\ guard.restored = FALSE /\ guard.status = "idle"
  BY <1>1 DEF T!IdleGuard, GuardRecords
<1>3. T!GuardAgrees
  <2>1. (guard.status = "pending") = guard.lock
    BY <1>2
  <2>2. active = IF guard.entered THEN 1 ELSE 0
    BY <1>1, <1>2
  <2> QED BY Zenon, <1>2, <2>1, <2>2 DEF T!GuardAgrees
<1>4. flow \in FlowRecords /\ flow.step = "form" /\ flow.draft = 0
  BY <1>1 DEF T!EmptyFlow, FlowRecords, T!Steps
<1>5. tipz \in TipzRecords /\ tipz.due = "none"
  BY <1>1 DEF T!IdleTipz, TipzRecords, T!Statuses
<1>6. seen \in SeenRecords /\ seen.step = "form"
  BY <1>1 DEF SeenRecords, T!Steps, T!Statuses
<1>7. account \in AccountRecords /\ account.paid = <<>>
  BY <1>1 DEF AccountRecords
<1>8. history \in HistoryRecords /\ history.drafts = 0 /\ history.causes = {} /\ history.blind = {}
  BY <1>1 DEF HistoryRecords
<1>9. page \in [mount : Nat, kind : T!Kinds] /\ page.kind = "tip"
  BY <1>1 DEF T!Kinds
<1>10. sends \in Seq(SendRecords) /\ Len(sends) = 0 /\ DOMAIN sends = {}
  BY <1>1
<1>11. TipTypes
  <2>1. Len(sends) <= SendCount
    BY <1>10 DEF T!TipFlowAssumption
  <2>2. active \in 0 .. 1 /\ persisted \in BOOLEAN
    <3>1. active = 0 /\ persisted = FALSE
      BY <1>1
    <3>2. 0 \in 0 .. 1
      OBVIOUS
    <3> QED BY Zenon, <3>1, <3>2
  <2>3. flow.draft <= history.drafts
    BY <1>4, <1>8
  <2> QED BY <1>2, <1>4, <1>5, <1>6, <1>7, <1>8, <1>9, <1>10, <2>1, <2>2, <2>3 DEF TipTypes
<1>12. Numbered /\ PaidOnce
  <2>1. DOMAIN account.paid = {} /\ Len(account.paid) = 0
    BY <1>7
  <2> QED BY <1>8, <1>10, <2>1 DEF Numbered, PaidOnce
<1>13. OneUnsettled /\ Waiting /\ PagesAgree /\ OneOnScreen /\ Earned
  BY <1>2, <1>4, <1>5, <1>6, <1>8, <1>9, <1>10 DEF OneUnsettled, Waiting, PagesAgree, OneOnScreen, Earned
<1> QED BY <1>3, <1>11, <1>12, <1>13 DEF TipInv

\* The fields of the state.
LEMMA TipFields ==
    ASSUME TipTypes
    PROVE  /\ page.mount \in Nat /\ page.kind \in {"tip", "register"}
           /\ guard.lock \in BOOLEAN /\ guard.restored \in BOOLEAN
           /\ flow.step \in T!Steps /\ flow.draft \in Nat /\ flow.draft <= history.drafts
           /\ tipz.due \in (T!Statuses \ {"idle"}) \cup {"none"}
           /\ seen.step \in T!Steps /\ seen.draft \in Nat
           /\ account.paid \in Seq(Nat) /\ account.landed \in Nat
           /\ history.drafts \in Nat /\ history.causes \subseteq Doubts /\ history.blind \subseteq Nat
<1>1. page.mount \in Nat /\ page.kind \in {"tip", "register"}
  BY DEF TipTypes, T!Kinds
<1>2. guard.lock \in BOOLEAN /\ guard.restored \in BOOLEAN
  BY DEF TipTypes, GuardRecords
<1>3. flow.step \in T!Steps /\ flow.draft \in Nat /\ flow.draft <= history.drafts
  BY DEF TipTypes, FlowRecords
<1>4. tipz.due \in (T!Statuses \ {"idle"}) \cup {"none"}
  BY DEF TipTypes, TipzRecords
<1>5. seen.step \in T!Steps /\ seen.draft \in Nat
  BY DEF TipTypes, SeenRecords
<1>6. account.paid \in Seq(Nat) /\ account.landed \in Nat
  BY DEF TipTypes, AccountRecords
<1>7. history.drafts \in Nat /\ history.causes \subseteq Doubts /\ history.blind \subseteq Nat
  BY DEF TipTypes, HistoryRecords
<1> QED BY <1>1, <1>2, <1>3, <1>4, <1>5, <1>6, <1>7

\* What stands of a sequence of transactions.
LEMMA SendIs ==
    ASSUME TipTypes, NEW s \in DOMAIN sends
    PROVE  /\ sends[s] \in SendRecords /\ sends[s].mount \in Nat /\ sends[s].draft \in Nat
           /\ sends[s].pc \in Pcs /\ sends[s].chain \in Chains
<1>1. sends[s] \in SendRecords
  BY DEF TipTypes
<1> QED BY <1>1 DEF SendRecords

\* A transaction is started for a draft.
Starts(draft, pc) ==
    /\ sends' \in Seq(SendRecords) /\ DOMAIN sends' = DOMAIN sends \cup {Len(sends) + 1}
    /\ Len(sends') <= SendCount
    /\ Len(sends) + 1 \notin DOMAIN sends
    /\ \A t \in DOMAIN sends : sends'[t] = sends[t]
    /\ sends'[Len(sends) + 1].mount = page.mount /\ sends'[Len(sends) + 1].draft = draft
    /\ sends'[Len(sends) + 1].pc = pc /\ sends'[Len(sends) + 1].chain = "none"

LEMMA StartedIs ==
    ASSUME T!TipFlowAssumption, TipTypes, NEW draft \in Nat, NEW guarded \in BOOLEAN,
           NEW pc \in {"queueing", "building"}, Len(sends) < SendCount,
           sends' = T!Started(draft, guarded, pc)
    PROVE  Starts(draft, pc)
<1>1. PICK e \in SendRecords : /\ e = [mount |-> page.mount, draft |-> draft, guarded |-> guarded, pc |-> pc,
                                       seq |-> 0, chain |-> "none"]
                               /\ e.mount = page.mount /\ e.draft = draft /\ e.pc = pc /\ e.chain = "none"
  <2>1. PICK m \in Nat : m = page.mount
    BY TipFields
  <2>2. PICK e : e = [mount |-> m, draft |-> draft, guarded |-> guarded, pc |-> pc, seq |-> 0, chain |-> "none"]
    OBVIOUS
  <2>3. e \in SendRecords
    BY <2>2 DEF SendRecords, Pcs, Chains
  <2> QED BY <2>1, <2>2, <2>3
<1>2. sends' = Append(sends, e)
  BY <1>1 DEF T!Started
<1>3. PICK n \in Nat : n = Len(sends) /\ DOMAIN sends = 1 .. n /\ sends \in Seq(SendRecords)
  BY DEF TipTypes
<1>4. /\ sends' \in Seq(SendRecords) /\ Len(sends') = n + 1 /\ DOMAIN sends' = 1 .. n + 1
      /\ sends'[n + 1] = e /\ \A t \in 1 .. n : sends'[t] = sends[t]
  BY <1>2, <1>3
<1>5. 1 .. n + 1 = (1 .. n) \cup {n + 1} /\ n + 1 \notin 1 .. n
  BY <1>3
<1>6. n + 1 <= SendCount
  BY <1>3 DEF T!TipFlowAssumption
<1> QED BY <1>1, <1>3, <1>4, <1>5, <1>6 DEF Starts

\* confirmAndSign, with or without the guard.
Prepared ==
    /\ flow' \in FlowRecords /\ flow'.step = "preparing" /\ flow'.draft = flow.draft
    /\ tipz' \in TipzRecords /\ tipz'.due \in {tipz.due, "signing", "error"}

LEMMA PreparingIs ==
    ASSUME TipTypes, flow' = [flow EXCEPT !.step = "preparing"]
    PROVE  flow' \in FlowRecords /\ flow'.step = "preparing" /\ flow'.draft = flow.draft
BY DEF TipTypes, FlowRecords, T!Steps

LEMMA ConfirmIs ==
    ASSUME T!TipFlowAssumption, TipTypes, NEW draft \in Nat, NEW guarded \in BOOLEAN, NEW spare,
           T!ConfirmAndSign(draft, guarded, spare)
    PROVE  Prepared /\ \E pc \in {"queueing", "building"} : Starts(draft, pc)
<1>1. flow' = [flow EXCEPT !.step = "preparing"]
  BY DEF T!ConfirmAndSign
<1>2. tipz \in TipzRecords /\ flow' \in FlowRecords /\ flow'.step = "preparing" /\ flow'.draft = flow.draft
  BY <1>1, PreparingIs DEF TipTypes
<1>3. CASE Len(sends) < SendCount /\ sends' = T!Started(draft, guarded, "queueing") /\ UNCHANGED tipz
  <2>1. Starts(draft, "queueing")
    BY <1>3, StartedIs
  <2> QED BY <1>2, <1>3, <2>1 DEF Prepared
<1>4. CASE /\ Len(sends) < SendCount /\ sends' = T!Started(draft, guarded, "building")
           /\ tipz' = T!WithStatus("signing", TRUE)
  <2>1. Starts(draft, "building")
    BY <1>4, StartedIs
  <2>2. tipz' \in TipzRecords /\ tipz'.due \in {tipz.due, "signing"}
    <3>1. "signing" \in T!Statuses \ {"idle"}
      BY DEF T!Statuses
    <3> QED BY <1>2, <1>4, <3>1, StatusIs
  <2> QED BY <1>2, <2>1, <2>2 DEF Prepared
<1> QED BY <1>3, <1>4 DEF T!ConfirmAndSign

LEMMA NotEncrypted == ASSUME TipTypes, T!EncryptionFails PROVE Prepared /\ sends' = sends
<1>1. flow' = [flow EXCEPT !.step = "preparing"] /\ tipz' = T!WithStatus("error", FALSE) /\ sends' = sends
  BY DEF T!EncryptionFails
<1>2. tipz \in TipzRecords /\ flow' \in FlowRecords /\ flow'.step = "preparing" /\ flow'.draft = flow.draft
  BY <1>1, PreparingIs DEF TipTypes
<1>3. "error" \in T!Statuses \ {"idle"}
  BY DEF T!Statuses
<1>4. tipz' \in TipzRecords /\ tipz'.due \in {tipz.due, "error"}
  BY <1>1, <1>2, <1>3, StatusIs
<1> QED BY <1>1, <1>2, <1>4 DEF Prepared

LEMMA OldSends ==
    ASSUME TipTypes, NEW draft, NEW pc, Starts(draft, pc), UNCHANGED page, NEW n, n = Len(sends) + 1
    PROVE  /\ DOMAIN sends' = DOMAIN sends \cup {n} /\ n \notin DOMAIN sends
           /\ \A t \in DOMAIN sends :
                 /\ sends'[t] = sends[t] /\ (Landed(t)' <=> Landed(t)) /\ (Live(t)' <=> Live(t))
                 /\ (T!Unsettled(t)' <=> T!Unsettled(t)) /\ (OnScreen(t)' <=> OnScreen(t))
                 /\ (T!Here(t)' <=> T!Here(t))
           /\ ~Landed(n)' /\ T!Here(n)' /\ sends'[n].draft = draft /\ sends'[n].pc = pc
BY DEF Starts, Landed, Live, OnScreen, T!Unsettled, T!Running, T!Here

LEMMA StartIsNumbered ==
    ASSUME TipTypes, Numbered, NEW draft \in Nat, draft <= history.drafts, NEW pc, Starts(draft, pc),
           UNCHANGED <<page, account>>, history'.drafts = history.drafts
    PROVE  Numbered'
<1>1. PICK n : n = Len(sends) + 1
  OBVIOUS
<1>2. /\ DOMAIN sends' = DOMAIN sends \cup {n} /\ \A t \in DOMAIN sends : sends'[t] = sends[t]
      /\ sends'[n].mount = page.mount /\ sends'[n].draft = draft /\ sends'[n].chain = "none"
  BY <1>1 DEF Starts
<1>3. page.mount \in Nat
  BY TipFields
<1> QED BY <1>2, <1>3 DEF Numbered

LEMMA StartPaysOnce ==
    ASSUME TipTypes, PaidOnce, NEW draft \in Nat, NEW pc, Starts(draft, pc),
           UNCHANGED <<page, account>>, history.blind \subseteq history'.blind,
           draft # 0 /\ draft \notin history'.blind =>
              \A t \in DOMAIN sends : sends[t].draft = draft => ~Live(t)
    PROVE  PaidOnce'
<1>1. PICK n : n = Len(sends) + 1
  OBVIOUS
<1>2. /\ DOMAIN sends' = DOMAIN sends \cup {n} /\ n \notin DOMAIN sends
      /\ \A t \in DOMAIN sends :
            sends'[t] = sends[t] /\ (Landed(t)' <=> Landed(t)) /\ (Live(t)' <=> Live(t))
      /\ ~Landed(n)' /\ sends'[n].draft = draft
  BY <1>1, OldSends
<1>3. SUFFICES ASSUME NEW d \in DOMAIN account.paid
      PROVE  /\ d \notin history'.blind =>
                  /\ \A s, t \in DOMAIN sends' :
                        sends'[s].draft = d /\ sends'[t].draft = d /\ Live(s)' /\ Live(t)' => s = t
                  /\ \/ account.paid[d] = 0
                     \/ account.paid[d] = 1 /\ \E s \in DOMAIN sends' : sends'[s].draft = d /\ Landed(s)'
             /\ (\E s \in DOMAIN sends' : sends'[s].draft = d /\ Landed(s)') => account.paid[d] >= 1
  BY DEF PaidOnce
<1>4. (\E s \in DOMAIN sends' : sends'[s].draft = d /\ Landed(s)')
         <=> \E s \in DOMAIN sends : sends[s].draft = d /\ Landed(s)
  BY <1>2
<1>5. ASSUME d \notin history'.blind, NEW s \in DOMAIN sends', NEW t \in DOMAIN sends',
             sends'[s].draft = d, sends'[t].draft = d, Live(s)', Live(t)'
      PROVE  s = t
  <2>1. \A x, y \in DOMAIN sends : sends[x].draft = d /\ sends[y].draft = d /\ Live(x) /\ Live(y) => x = y
    BY <1>5 DEF PaidOnce
  <2>2. CASE d = draft
    <3>1. d # 0
      BY TipFields
    <3> QED BY <1>2, <1>5, <2>2, <3>1
  <2>3. CASE d # draft
    BY <1>2, <1>5, <2>1, <2>3
  <2> QED BY <2>2, <2>3
<1>6. d \notin history'.blind =>
         \/ account.paid[d] = 0
         \/ account.paid[d] = 1 /\ \E s \in DOMAIN sends' : sends'[s].draft = d /\ Landed(s)'
  BY <1>4 DEF PaidOnce
<1>7. (\E s \in DOMAIN sends' : sends'[s].draft = d /\ Landed(s)') => account.paid[d] >= 1
  BY <1>4 DEF PaidOnce
<1> QED BY <1>5, <1>6, <1>7

\* Under a free lock that is taken, what starts is the only one unsettled, and on screen.
LEMMA StartIsAlone ==
    ASSUME TipTypes, OneUnsettled, OneOnScreen, ~guard.lock, NEW draft, NEW pc, Starts(draft, pc), UNCHANGED page,
           guard'.lock, persisted', history'.causes = history.causes, flow'.draft = draft
    PROVE  OneUnsettled' /\ OneOnScreen'
<1>1. PICK n : n = Len(sends) + 1
  OBVIOUS
<1>2. /\ DOMAIN sends' = DOMAIN sends \cup {n} /\ n \notin DOMAIN sends
      /\ \A t \in DOMAIN sends :
            (T!Unsettled(t)' <=> T!Unsettled(t)) /\ (OnScreen(t)' <=> OnScreen(t))
      /\ sends'[n].draft = draft
  BY <1>1, OldSends
<1>3. Calm' => Calm /\ \A t \in DOMAIN sends : ~T!Unsettled(t)'
  BY <1>2 DEF Calm, OneUnsettled
<1>4. Plain' => Plain /\ \A t \in DOMAIN sends : ~OnScreen(t)'
  BY <1>2 DEF Plain, OneOnScreen
<1>5. OneUnsettled'
  BY <1>2, <1>3 DEF OneUnsettled
<1>6. OneOnScreen'
  BY <1>2, <1>4 DEF OneOnScreen
<1> QED BY <1>5, <1>6

\* A step that starts nothing under a free lock: nothing that had to be behind it is left.
LEMMA NothingBehind ==
    ASSUME OneUnsettled, OneOnScreen, ~guard.lock, UNCHANGED <<page, sends>>, history.causes \subseteq history'.causes
    PROVE  OneUnsettled' /\ OneOnScreen'
<1>1. Calm' => Calm /\ \A t \in DOMAIN sends : ~T!Unsettled(t)
  BY DEF Calm, OneUnsettled
<1>2. Plain' => Plain /\ \A t \in DOMAIN sends : ~OnScreen(t)
  BY DEF Plain, OneOnScreen
<1>3. \A t \in DOMAIN sends : (T!Unsettled(t)' <=> T!Unsettled(t)) /\ (OnScreen(t)' <=> OnScreen(t))
  BY DEF OnScreen, T!Unsettled, T!Running, T!Here
<1>4. OneUnsettled'
  BY <1>1, <1>3 DEF OneUnsettled
<1>5. OneOnScreen'
  BY <1>2, <1>3 DEF OneOnScreen
<1> QED BY <1>4, <1>5

LEMMA TipConfirmed ==
    ASSUME T!TipFlowAssumption, TipInv, seen.draft = flow.draft, T!HandleConfirmAndSign PROVE TipInv'
<1>1. /\ TipTypes /\ T!GuardAgrees /\ Numbered /\ PaidOnce /\ OneUnsettled
      /\ Waiting /\ PagesAgree /\ OneOnScreen /\ Earned
  BY DEF TipInv
<1>2. seen.step = "confirm" /\ ~guard.lock /\ Unsent
  BY <1>1 DEF T!HandleConfirmAndSign, Waiting
<1>3. PICK d \in Nat : d = seen.draft /\ d = flow.draft /\ d <= history.drafts
  BY <1>1, TipFields
<1>4. UNCHANGED <<page, seen, account, history>>
  BY DEF T!HandleConfirmAndSign
<1>5. Prepared
  <2>1. CASE T!ConfirmAndSign(seen.draft, TRUE, budget)
    <3>1. T!ConfirmAndSign(d, TRUE, budget)
      BY <1>3, <2>1
    <3> QED BY <1>1, <3>1, ConfirmIs
  <2>2. CASE T!EncryptionFails
    BY <1>1, <2>2, NotEncrypted
  <2> QED BY <2>1, <2>2 DEF T!HandleConfirmAndSign
<1>6. page.kind = "tip"
  BY <1>1, <1>2, TipFields DEF PagesAgree
<1>7. Earned'
  <2>1. tipz'.due = "success" => tipz.due = "success"
    BY <1>5 DEF Prepared
  <2> QED BY <1>1, <1>4, <1>5, <2>1 DEF Earned, Plain, Prepared
<1>8. CASE T!Acquire /\ T!ConfirmAndSign(seen.draft, TRUE, budget)
  <2>1. T!ConfirmAndSign(d, TRUE, budget)
    BY <1>3, <1>8
  <2>2. PICK pc \in {"queueing", "building"} : Starts(d, pc)
    BY <1>1, <2>1, ConfirmIs
  <2>3. /\ guard' \in GuardRecords /\ guard'.lock /\ ~guard'.restored
        /\ active' \in 0 .. 1 /\ persisted' = TRUE /\ T!GuardAgrees'
    BY <1>1, <1>2, <1>8, AcquireIs
  <2>4. TipTypes'
    BY <1>1, <1>4, <1>5, <2>2, <2>3 DEF TipTypes, Prepared, Starts
  <2>5. Numbered'
    BY <1>1, <1>3, <1>4, <2>2, StartIsNumbered
  <2>6. PaidOnce'
    BY <1>1, <1>2, <1>3, <1>4, <2>2, StartPaysOnce DEF Unsent
  <2>7. OneUnsettled' /\ OneOnScreen'
    BY <1>1, <1>2, <1>3, <1>4, <1>5, <2>2, <2>3, StartIsAlone DEF Prepared
  <2>8. Waiting' /\ PagesAgree'
    BY <1>4, <1>5, <1>6, <2>3 DEF Waiting, PagesAgree, Prepared
  <2> QED BY <1>7, <2>3, <2>4, <2>5, <2>6, <2>7, <2>8 DEF TipInv
<1>9. CASE T!EncryptionFails /\ T!Release("error", FALSE)
  <2>1. sends' = sends
    BY <1>1, <1>9, NotEncrypted
  <2>2. /\ guard' \in GuardRecords /\ ~guard'.lock /\ guard'.restored = FALSE
        /\ active' \in 0 .. 1 /\ persisted' = FALSE /\ T!GuardAgrees'
    BY <1>1, <1>9, ReleaseIs
  <2>3. TipTypes'
    BY <1>1, <1>4, <1>5, <2>1, <2>2 DEF TipTypes, Prepared
  <2>4. Numbered' /\ PaidOnce'
    BY <1>1, <1>4, <2>1 DEF Numbered, PaidOnce, Live, Landed, T!Unsettled, T!Running
  <2>5. OneUnsettled' /\ OneOnScreen'
    BY <1>1, <1>2, <1>4, <2>1, NothingBehind
  <2>6. Unsent'
    BY <1>2, <1>5, <2>1 DEF Unsent, Prepared
  <2>7. Waiting' /\ PagesAgree'
    BY <1>4, <1>6, <2>2, <2>6 DEF Waiting, PagesAgree
  <2> QED BY <1>7, <2>2, <2>3, <2>4, <2>5, <2>7 DEF TipInv
<1> QED BY <1>8, <1>9 DEF T!HandleConfirmAndSign

LEMMA TipRegistered ==
    ASSUME T!TipFlowAssumption, TipInv, seen.draft = flow.draft, T!RegisterSubmit PROVE TipInv'
<1>1. /\ TipTypes /\ T!GuardAgrees /\ Numbered /\ PaidOnce /\ OneUnsettled
      /\ Waiting /\ PagesAgree /\ OneOnScreen /\ Earned
  BY DEF TipInv
<1>2. /\ page.kind = "register" /\ ~guard.lock /\ T!Acquire
      /\ Len(sends) < SendCount /\ sends' = T!Started(0, TRUE, "building")
      /\ tipz' = [status |-> "submitting", sending |-> TRUE, due |-> "none"]
      /\ UNCHANGED <<page, flow, seen, account, history>>
  BY DEF T!RegisterSubmit
<1>3. Starts(0, "building")
  BY <1>1, <1>2, StartedIs
<1>4. tipz' \in TipzRecords /\ tipz'.due = "none"
  BY <1>2 DEF TipzRecords, T!Statuses
<1>5. /\ guard' \in GuardRecords /\ guard'.lock /\ ~guard'.restored
      /\ active' \in 0 .. 1 /\ persisted' = TRUE /\ T!GuardAgrees'
  BY <1>1, <1>2, AcquireIs
<1>6. flow.step = "form" /\ flow.draft = 0 /\ seen.step = "form"
  BY <1>1, <1>2 DEF PagesAgree
<1>7. TipTypes'
  BY <1>1, <1>2, <1>3, <1>4, <1>5 DEF TipTypes, Starts
<1>8. Numbered'
  <2>1. 0 <= history.drafts
    BY <1>1, TipFields
  <2> QED BY <1>1, <1>2, <1>3, <2>1, StartIsNumbered
<1>9. PaidOnce'
  BY <1>1, <1>2, <1>3, StartPaysOnce
<1>10. OneUnsettled' /\ OneOnScreen'
  BY <1>1, <1>2, <1>3, <1>5, <1>6, StartIsAlone
<1>11. Waiting'
  BY <1>2, <1>6 DEF Waiting
<1>12. PagesAgree'
  <2>1. PICK n : n = Len(sends) + 1
    OBVIOUS
  <2>2. /\ DOMAIN sends' = DOMAIN sends \cup {n}
        /\ \A t \in DOMAIN sends : sends'[t] = sends[t] /\ (T!Here(t)' <=> T!Here(t))
        /\ sends'[n].pc = "building"
    <3>1. UNCHANGED page
      BY <1>2
    <3> QED BY <1>1, <1>3, <2>1, <3>1, OldSends
  <2>3. \A t \in DOMAIN sends' : T!Here(t)' => sends'[t].pc # "queueing"
    <3>1. \A t \in DOMAIN sends : T!Here(t) => sends[t].pc # "queueing"
      BY <1>1, <1>2 DEF PagesAgree
    <3> QED BY <2>2, <3>1
  <2> QED BY <1>2, <1>4, <1>5, <1>6, <2>3 DEF PagesAgree
<1>13. Earned'
  BY <1>1, <1>2, <1>6 DEF Earned
<1> QED BY <1>5, <1>7, <1>8, <1>9, <1>10, <1>11, <1>12, <1>13 DEF TipInv

\* What is on screen is the state of now.
LEMMA ShownIs ==
    ASSUME TipTypes, T!GuardAgrees, NEW r, r = T!Shown
    PROVE  /\ r \in SeenRecords /\ r.step = flow.step /\ r.draft = flow.draft
           /\ (r.pending <=> guard.lock) /\ r.restored = guard.restored
<1>1. PICK p \in BOOLEAN : p <=> guard.status = "pending"
  OBVIOUS
<1>2. p <=> guard.lock
  BY Zenon, <1>1 DEF T!GuardAgrees
<1>3. p = (guard.status = "pending")
  BY <1>1
<1>4. r = [step |-> flow.step, draft |-> flow.draft, pending |-> p, restored |-> guard.restored,
           busy |-> tipz.sending, status |-> tipz.status]
  BY <1>3 DEF T!Shown
<1>5. tipz.sending \in BOOLEAN /\ tipz.status \in T!Statuses
  BY DEF TipTypes, TipzRecords
<1>6. r \in SeenRecords /\ r.step = flow.step /\ r.draft = flow.draft /\ r.pending = p /\ r.restored = guard.restored
  BY <1>4, <1>5, TipFields DEF SeenRecords
<1> QED BY <1>2, <1>6

LEMMA SameSends ==
    ASSUME UNCHANGED <<page, sends>>
    PROVE  \A t \in DOMAIN sends :
              /\ (Landed(t)' <=> Landed(t)) /\ (Live(t)' <=> Live(t)) /\ (T!Here(t)' <=> T!Here(t))
              /\ (T!Unsettled(t)' <=> T!Unsettled(t)) /\ (OnScreen(t)' <=> OnScreen(t))
BY DEF Landed, Live, OnScreen, T!Unsettled, T!Running, T!Here

\* Nothing is paid or sent.
LEMMA NothingPaid ==
    ASSUME Numbered, PaidOnce, UNCHANGED <<page, sends, account>>, history'.drafts = history.drafts,
           history.blind \subseteq history'.blind
    PROVE  Numbered' /\ PaidOnce'
BY SameSends DEF Numbered, PaidOnce

LEMMA TipRendered == ASSUME TipInv, T!Render PROVE TipInv'
<1>1. /\ TipTypes /\ T!GuardAgrees /\ Numbered /\ PaidOnce /\ OneUnsettled
      /\ Waiting /\ PagesAgree /\ OneOnScreen /\ Earned
  BY DEF TipInv
<1>2. seen' = T!Shown /\ UNCHANGED <<page, guard, active, persisted, flow, tipz, sends, account, history>>
  BY DEF T!Render, T!guardVars
<1>3. seen' \in SeenRecords /\ seen'.step = flow.step /\ seen'.draft = flow.draft
  BY <1>1, <1>2, ShownIs
<1>4. TipTypes'
  BY <1>1, <1>2, <1>3 DEF TipTypes
<1>5. Numbered' /\ PaidOnce'
  BY <1>1, <1>2, NothingPaid
<1>6. OneUnsettled' /\ OneOnScreen'
  BY <1>1, <1>2, SameSends DEF OneUnsettled, OneOnScreen, Calm, Plain
<1>7. Waiting'
  BY <1>1, <1>2, <1>3 DEF Waiting, Unsent
<1>8. PagesAgree'
  BY <1>1, <1>2, <1>3, SameSends DEF PagesAgree
<1>9. T!GuardAgrees' /\ Earned'
  BY <1>1, <1>2 DEF T!GuardAgrees, Earned, Plain
<1> QED BY <1>4, <1>5, <1>6, <1>7, <1>8, <1>9 DEF TipInv

LEMMA TipSubmitted == ASSUME TipInv, T!Rendered, T!HandleSubmit PROVE TipInv'
<1>1. /\ TipTypes /\ T!GuardAgrees /\ Numbered /\ PaidOnce /\ OneUnsettled
      /\ Waiting /\ PagesAgree /\ OneOnScreen /\ Earned
  BY DEF TipInv
<1>2. /\ page.kind = "tip" /\ ~seen.pending
      /\ flow' = [step |-> "confirm", draft |-> history.drafts + 1]
      /\ history' = [history EXCEPT !.drafts = @ + 1,
                        !.causes = IF tipz.due = "none" THEN @ ELSE @ \cup {"outrun"}]
      /\ account' = [account EXCEPT !.paid = Append(@, 0)]
      /\ UNCHANGED <<page, guard, active, persisted, tipz, seen, sends>>
  BY DEF T!HandleSubmit, T!guardVars
<1>3. ~guard.lock /\ seen.draft = flow.draft
  BY <1>1, <1>2, ShownIs DEF T!Rendered
<1>4. PICK n \in Nat : n = history.drafts
  BY <1>1, TipFields
<1>5. flow' \in FlowRecords /\ flow'.step = "confirm" /\ flow'.draft = n + 1
  BY <1>2, <1>4 DEF FlowRecords, T!Steps
<1>6. /\ history' \in HistoryRecords /\ history'.drafts = n + 1 /\ history'.blind = history.blind
      /\ history.causes \subseteq history'.causes /\ (tipz.due # "none" => "outrun" \in history'.causes)
  <2>1. PICK c : c = IF tipz.due = "none" THEN history.causes ELSE history.causes \cup {"outrun"}
    OBVIOUS
  <2>2. c \subseteq Doubts /\ history.causes \subseteq c /\ (tipz.due # "none" => "outrun" \in c)
    BY <1>1, <2>1, TipFields DEF Doubts
  <2>3. history \in HistoryRecords
    BY <1>1 DEF TipTypes
  <2>4. history' = [history EXCEPT !.drafts = n + 1, !.causes = c]
    BY <1>2, <1>4, <2>1, <2>3 DEF HistoryRecords
  <2>5. n + 1 \in Nat /\ c \in SUBSET Doubts
    BY <1>4, <2>2
  <2>6. /\ history' \in HistoryRecords /\ history'.drafts = n + 1 /\ history'.blind = history.blind
        /\ history'.causes = c
    BY <2>3, <2>4, <2>5 DEF HistoryRecords
  <2> QED BY <2>2, <2>6
<1>7. PICK q \in Seq(Nat) : q = account.paid /\ Len(q) = n /\ DOMAIN q = 1 .. n
  BY <1>1, <1>4, TipFields DEF Numbered
<1>8. PICK q2 : q2 = Append(q, 0)
  OBVIOUS
<1>9. q2 \in Seq(Nat) /\ Len(q2) = n + 1 /\ DOMAIN q2 = 1 .. n + 1 /\ q2[n + 1] = 0 /\ \A i \in 1 .. n : q2[i] = q[i]
  BY <1>7, <1>8
<1>10. account' \in AccountRecords /\ account'.paid = q2
  <2>1. account \in AccountRecords /\ account' = [account EXCEPT !.paid = q2]
    BY <1>1, <1>2, <1>7, <1>8 DEF TipTypes
  <2> QED BY <1>9, <2>1 DEF AccountRecords
<1>11. \A s \in DOMAIN sends : sends[s].draft \in Nat /\ sends[s].draft <= n
  BY <1>1, <1>4, SendIs DEF Numbered
<1>12. TipTypes'
  <2>1. flow'.draft <= history'.drafts
    BY <1>5, <1>6
  <2> QED BY <1>1, <1>2, <1>5, <1>6, <1>10, <2>1 DEF TipTypes
<1>13. Numbered'
  <2>1. sends' = sends /\ page' = page
    BY <1>2
  <2>2. Len(account'.paid) = history'.drafts
    BY <1>6, <1>9, <1>10
  <2>3. \A s \in DOMAIN sends : sends[s].draft <= n + 1
    BY <1>11
  <2> QED BY <1>1, <1>6, <2>1, <2>2, <2>3 DEF Numbered
<1>14. PaidOnce'
  <2>1. sends' = sends /\ page' = page
    BY <1>2
  <2>2. SUFFICES ASSUME NEW d \in DOMAIN q2
        PROVE  /\ d \notin history.blind =>
                    /\ \A s, t \in DOMAIN sends :
                          sends[s].draft = d /\ sends[t].draft = d /\ Live(s) /\ Live(t) => s = t
                    /\ \/ q2[d] = 0
                       \/ q2[d] = 1 /\ \E s \in DOMAIN sends : sends[s].draft = d /\ Landed(s)
               /\ (\E s \in DOMAIN sends : sends[s].draft = d /\ Landed(s)) => q2[d] >= 1
    BY <1>6, <1>10, <2>1, SameSends DEF PaidOnce
  <2>3. CASE d \in 1 .. n
    BY <1>1, <1>7, <1>9, <2>3 DEF PaidOnce
  <2>4. CASE d = n + 1
    BY <1>9, <1>11, <2>4
  <2> QED BY <1>4, <1>9, <2>3, <2>4
<1>15. OneUnsettled' /\ OneOnScreen'
  <2>1. UNCHANGED <<page, sends>>
    BY <1>2
  <2> QED BY <1>1, <1>3, <1>6, <2>1, NothingBehind
<1>16. Waiting'
  <2>1. sends' = sends
    BY <1>2
  <2>2. Unsent'
    BY <1>4, <1>5, <1>11, <2>1 DEF Unsent
  <2> QED BY <2>2 DEF Waiting
<1>17. PagesAgree'
  <2>1. page' = page /\ sends' = sends /\ guard' = guard /\ tipz' = tipz
    BY <1>2
  <2>2. guard'.restored => tipz'.due = "none" /\ \A s \in DOMAIN sends : ~T!Here(s)'
    BY <1>1, <2>1, SameSends DEF PagesAgree
  <2> QED BY <1>2, <1>5, <2>1, <2>2 DEF PagesAgree
<1>18. Earned'
  <2>1. tipz' = tipz
    BY <1>2
  <2>2. Plain' => tipz'.due = "none"
    BY <1>6, <2>1 DEF Plain
  <2> QED BY <1>1, <1>5, <1>6, <2>2 DEF Earned
<1>19. T!GuardAgrees'
  BY <1>1, <1>2 DEF T!GuardAgrees
<1> QED BY <1>12, <1>13, <1>14, <1>15, <1>16, <1>17, <1>18, <1>19 DEF TipInv

LEMMA Noted ==
    ASSUME history \in HistoryRecords, NEW x \in Doubts, history' = [history EXCEPT !.causes = @ \cup {x}]
    PROVE  /\ history' \in HistoryRecords /\ history'.drafts = history.drafts /\ history'.blind = history.blind
           /\ history'.causes = history.causes \cup {x}
<1>1. PICK c \in SUBSET Doubts : c = history.causes \cup {x}
  BY DEF HistoryRecords
<1>2. history' = [history EXCEPT !.causes = c]
  BY <1>1 DEF HistoryRecords
<1> QED BY <1>1, <1>2 DEF HistoryRecords

\* No draft comes to wait, and none of those sent is sent again.
LEMMA WaitingStays ==
    ASSUME Waiting, seen.step = flow.step, seen.draft = flow.draft, UNCHANGED seen, flow'.draft = flow.draft,
           flow'.step = "confirm" => flow.step = "confirm", DOMAIN sends' = DOMAIN sends,
           \A s \in DOMAIN sends : sends'[s].draft = sends[s].draft
    PROVE  Waiting'
BY DEF Waiting, Unsent

\* What is on screen is what was rendered.
LEMMA RenderedIs ==
    ASSUME TipTypes, T!GuardAgrees, T!Rendered
    PROVE  /\ seen.step = flow.step /\ seen.draft = flow.draft /\ (seen.pending <=> guard.lock)
           /\ seen.restored = guard.restored
BY ShownIs DEF T!Rendered

LEMMA TipRetried == ASSUME T!TipFlowAssumption, TipInv, T!Rendered, T!Retry PROVE TipInv'
<1>1. /\ TipTypes /\ T!GuardAgrees /\ Numbered /\ PaidOnce /\ OneUnsettled
      /\ Waiting /\ PagesAgree /\ OneOnScreen /\ Earned
  BY DEF TipInv
<1>2. /\ page.kind = "tip" /\ seen.step = "error"
      /\ UNCHANGED <<page, guard, active, persisted, seen, account>>
  BY DEF T!Retry, T!guardVars
<1>3. flow.step = "error" /\ seen.draft = flow.draft
  BY <1>1, <1>2, RenderedIs
<1>4. ~guard.restored
  BY <1>1, <1>3 DEF PagesAgree
<1>5. T!GuardAgrees'
  BY <1>1, <1>2 DEF T!GuardAgrees
<1>6. PICK d \in Nat : d = seen.draft /\ d = flow.draft /\ d <= history.drafts
  BY <1>1, <1>3, TipFields
<1>7. CASE /\ d = 0 /\ flow' = [flow EXCEPT !.step = "form"]
           /\ UNCHANGED <<tipz, sends, history>>
  <2>1. flow' \in FlowRecords /\ flow'.step = "form" /\ flow'.draft = 0
    BY <1>1, <1>6, <1>7 DEF TipTypes, FlowRecords, T!Steps
  <2>2. TipTypes'
    <3>1. flow'.draft <= history'.drafts
      BY <1>6, <1>7, <2>1
    <3> QED BY <1>1, <1>2, <1>7, <2>1, <3>1 DEF TipTypes
  <2>3. Numbered' /\ PaidOnce'
    BY <1>1, <1>2, <1>7, NothingPaid
  <2>4. UNCHANGED <<page, sends, guard, persisted, history>> /\ flow'.draft = flow.draft
    BY <1>2, <1>6, <1>7, <2>1
  <2>5. OneUnsettled' /\ OneOnScreen'
    BY <1>1, <2>4, SameSends DEF OneUnsettled, OneOnScreen, Calm, Plain
  <2>6. Waiting' /\ PagesAgree'
    BY <1>2, <1>4, <2>1, <2>4 DEF Waiting, PagesAgree
  <2>7. Earned'
    BY <1>1, <1>7, <2>1 DEF Earned
  <2> QED BY <1>5, <2>2, <2>3, <2>5, <2>6, <2>7 DEF TipInv
<1>8. ASSUME /\ \/ T!ConfirmAndSign(seen.draft, FALSE, [budget EXCEPT !.retries = @ - 1])
                \/ T!EncryptionFails
             /\ d # 0
             /\ history' = [history EXCEPT
                  !.causes = @ \cup {"retried"},
                  !.blind = IF \E s \in DOMAIN sends :
                                  sends[s].draft = seen.draft
                                  /\ (T!Unsettled(s) \/ sends[s].chain = "landed")
                            THEN @ \cup {seen.draft} ELSE @]
      PROVE  TipInv'
  <2>1. Prepared /\ (sends' = sends \/ \E pc \in {"queueing", "building"} : Starts(d, pc))
    <3>1. CASE T!EncryptionFails
      BY <1>1, <3>1, NotEncrypted
    <3>2. CASE T!ConfirmAndSign(seen.draft, FALSE, [budget EXCEPT !.retries = @ - 1])
      <4>1. PICK spare : T!ConfirmAndSign(seen.draft, FALSE, spare)
        BY <3>2
      <4>2. T!ConfirmAndSign(d, FALSE, spare)
        BY <1>6, <4>1
      <4> QED BY <1>1, <4>2, ConfirmIs
    <3> QED BY <1>8, <3>1, <3>2
  <2>2. PICK blind \in SUBSET Nat :
           /\ blind = IF \E s \in DOMAIN sends : sends[s].draft = d /\ Live(s)
                      THEN history.blind \cup {d} ELSE history.blind
           /\ history.blind \subseteq blind
           /\ d \notin blind => \A t \in DOMAIN sends : sends[t].draft = d => ~Live(t)
    <3>1. history.blind \in SUBSET Nat /\ history.blind \cup {d} \in SUBSET Nat
      BY <1>1, TipFields
    <3>2. CASE \E s \in DOMAIN sends : sends[s].draft = d /\ Live(s)
      <4>1. /\ history.blind \cup {d} = IF \E s \in DOMAIN sends : sends[s].draft = d /\ Live(s)
                                      THEN history.blind \cup {d} ELSE history.blind
            /\ history.blind \subseteq history.blind \cup {d} /\ d \in history.blind \cup {d}
        BY <3>2
      <4> QED BY <3>1, <4>1
    <3>3. CASE ~\E s \in DOMAIN sends : sends[s].draft = d /\ Live(s)
      <4>1. history.blind = IF \E s \in DOMAIN sends : sends[s].draft = d /\ Live(s)
                            THEN history.blind \cup {d} ELSE history.blind
        BY <3>3
      <4>2. \A t \in DOMAIN sends : sends[t].draft = d => ~Live(t)
        BY <3>3
      <4> QED BY <3>1, <4>1, <4>2
    <3> QED BY <3>2, <3>3
  <2>3. /\ history' \in HistoryRecords /\ history'.drafts = history.drafts /\ history'.blind = blind
        /\ "retried" \in history'.causes
    <3>1. history \in HistoryRecords
      BY <1>1 DEF TipTypes
    <3>2. PICK c \in SUBSET Doubts : c = history.causes \cup {"retried"} /\ "retried" \in c
      BY <1>1, TipFields DEF Doubts
    <3>3. history' = [history EXCEPT !.causes = c, !.blind = blind]
      BY <1>6, <1>8, <2>2, <3>1, <3>2 DEF HistoryRecords, Live, Landed
    <3>4. history' \in HistoryRecords /\ history'.drafts = history.drafts /\ history'.blind = blind /\ history'.causes = c
      BY <3>1, <3>3 DEF HistoryRecords
    <3> QED BY <3>2, <3>4
  <2>4. /\ flow' \in FlowRecords /\ flow'.step = "preparing" /\ flow'.draft = flow.draft /\ tipz' \in TipzRecords
    BY <2>1 DEF Prepared
  <2>5. TipTypes'
    <3>1. sends' \in Seq(SendRecords) /\ Len(sends') <= SendCount
      BY <1>1, <2>1 DEF TipTypes, Starts
    <3>2. flow'.draft <= history'.drafts
      BY <1>6, <2>3, <2>4
    <3> QED BY <1>1, <1>2, <2>3, <2>4, <3>1, <3>2 DEF TipTypes
  <2>6. Numbered' /\ PaidOnce'
    <3>1. CASE sends' = sends
      BY <1>1, <1>2, <2>2, <2>3, <3>1, NothingPaid
    <3>2. ASSUME NEW pc \in {"queueing", "building"}, Starts(d, pc) PROVE Numbered' /\ PaidOnce'
      <4>1. Numbered'
        BY <1>1, <1>2, <1>6, <2>3, <3>2, StartIsNumbered
      <4>2. PaidOnce'
        BY <1>1, <1>2, <2>2, <2>3, <3>2, StartPaysOnce
      <4> QED BY <4>1, <4>2
    <3> QED BY <2>1, <3>1, <3>2
  <2>7. OneUnsettled' /\ OneOnScreen' /\ Earned'
    BY <2>3 DEF OneUnsettled, OneOnScreen, Earned, Calm, Plain
  <2>8. Waiting' /\ PagesAgree'
    BY <1>2, <1>4, <2>4 DEF Waiting, PagesAgree
  <2> QED BY <1>5, <2>5, <2>6, <2>7, <2>8 DEF TipInv
<1> QED BY <1>6, <1>7, <1>8 DEF T!Retry

LEMMA TipReset == ASSUME TipInv, T!Rendered, T!Reset PROVE TipInv'
<1>1. /\ TipTypes /\ T!GuardAgrees /\ Numbered /\ PaidOnce /\ OneUnsettled
      /\ Waiting /\ PagesAgree /\ OneOnScreen /\ Earned
  BY DEF TipInv
<1>2. /\ page.kind = "tip" /\ flow' = T!EmptyFlow /\ tipz' = T!IdleTipz
      /\ UNCHANGED <<page, guard, active, persisted, seen, sends, account>>
  BY DEF T!Reset, T!guardVars
<1>3. flow' \in FlowRecords /\ flow'.step = "form" /\ flow'.draft = 0
  BY <1>2 DEF T!EmptyFlow, FlowRecords, T!Steps
<1>4. tipz' \in TipzRecords /\ tipz'.due = "none"
  BY <1>2 DEF T!IdleTipz, TipzRecords, T!Statuses
<1>5. /\ history' \in HistoryRecords /\ history'.drafts = history.drafts /\ history'.blind = history.blind
      /\ history.causes \subseteq history'.causes
      /\ (\E s \in DOMAIN sends : OnScreen(s)) => "cancelled" \in history'.causes
  <2>1. history \in HistoryRecords
    BY <1>1 DEF TipTypes
  <2>2. PICK c : c = IF \E s \in DOMAIN sends : OnScreen(s) THEN history.causes \cup {"cancelled"} ELSE history.causes
    OBVIOUS
  <2>3. c \in SUBSET Doubts /\ history.causes \subseteq c /\ ((\E s \in DOMAIN sends : OnScreen(s)) => "cancelled" \in c)
    BY <1>1, <2>2, TipFields DEF Doubts
  <2>4. history' = [history EXCEPT !.causes = c]
    BY <2>1, <2>2 DEF T!Reset, OnScreen, HistoryRecords
  <2>5. /\ history' \in HistoryRecords /\ history'.drafts = history.drafts /\ history'.blind = history.blind
        /\ history'.causes = c
    BY <2>1, <2>3, <2>4 DEF HistoryRecords
  <2> QED BY <2>3, <2>5
<1>6. TipTypes'
  <2>1. flow'.draft <= history'.drafts
    BY <1>1, <1>3, <1>5, TipFields
  <2> QED BY <1>1, <1>2, <1>3, <1>4, <1>5, <2>1 DEF TipTypes
<1>7. Numbered' /\ PaidOnce'
  BY <1>1, <1>2, <1>5, NothingPaid
<1>8. OneUnsettled' /\ OneOnScreen'
  <2>1. UNCHANGED <<page, sends, guard, persisted>>
    BY <1>2
  <2>2. OneUnsettled'
    BY <1>1, <1>5, <2>1, SameSends DEF OneUnsettled, Calm
  <2>3. OneOnScreen'
    BY <1>1, <1>5, <2>1, SameSends DEF OneOnScreen, Plain
  <2> QED BY <2>2, <2>3
<1>9. Waiting'
  <2>1. seen.step = "confirm" => seen.draft # 0
    BY <1>1, RenderedIs DEF Waiting, Unsent
  <2>2. seen' = seen
    BY <1>2
  <2> QED BY <1>3, <2>1, <2>2 DEF Waiting
<1>10. PagesAgree'
  <2>1. UNCHANGED <<page, sends, guard>> /\ page.kind = "tip"
    BY <1>2
  <2> QED BY <1>1, <1>3, <1>4, <2>1, SameSends DEF PagesAgree
<1>11. Earned' /\ T!GuardAgrees'
  <2>1. UNCHANGED <<guard, active>>
    BY <1>2
  <2> QED BY <1>1, <1>3, <1>5, <2>1 DEF Earned, T!GuardAgrees
<1> QED BY <1>6, <1>7, <1>8, <1>9, <1>10, <1>11 DEF TipInv

\* The guard is freed by its timeout, or with the notice of a restored transaction.
LEMMA GuardFreed ==
    ASSUME TipInv, T!Rendered, NEW status \in {"idle", "error"}, NEW restored \in BOOLEAN,
           restored => guard.restored, T!Release(status, restored), NEW x \in {"waited", "dismissed"},
           x = "waited" \/ guard.restored, history' = [history EXCEPT !.causes = @ \cup {x}],
           UNCHANGED <<page, flow, tipz, seen, sends, account>>
    PROVE  TipInv'
<1>1. /\ TipTypes /\ T!GuardAgrees /\ Numbered /\ PaidOnce /\ OneUnsettled
      /\ Waiting /\ PagesAgree /\ OneOnScreen /\ Earned
  BY DEF TipInv
<1>2. /\ guard' \in GuardRecords /\ ~guard'.lock /\ guard'.restored = restored
      /\ active' \in 0 .. 1 /\ persisted' = FALSE /\ T!GuardAgrees'
  BY <1>1, ReleaseIs
<1>3. /\ history' \in HistoryRecords /\ history'.drafts = history.drafts /\ history'.blind = history.blind
      /\ history'.causes = history.causes \cup {x}
  <2>1. history \in HistoryRecords /\ x \in Doubts
    BY <1>1 DEF TipTypes, Doubts
  <2> QED BY <2>1, Noted
<1>4. TipTypes'
  BY <1>1, <1>2, <1>3 DEF TipTypes
<1>5. Numbered' /\ PaidOnce'
  BY <1>1, <1>3, NothingPaid
<1>6. OneUnsettled'
  BY <1>3 DEF OneUnsettled, Calm
<1>7. OneOnScreen'
  <2>1. CASE x = "waited"
    BY <1>3, <2>1 DEF OneOnScreen, Plain
  <2>2. CASE guard.restored
    BY <1>1, <2>2, SameSends DEF OneOnScreen, PagesAgree, OnScreen
  <2> QED BY <2>1, <2>2
<1>8. Waiting'
  BY <1>1, RenderedIs, WaitingStays
<1>9. PagesAgree'
  BY <1>1, <1>2, SameSends DEF PagesAgree
<1>10. Earned'
  BY <1>1, <1>3 DEF Earned, Plain
<1> QED BY <1>2, <1>4, <1>5, <1>6, <1>7, <1>8, <1>9, <1>10 DEF TipInv

LEMMA TipFreed == ASSUME TipInv, T!Rendered, T!DismissNotice \/ T!GuardTimesOut PROVE TipInv'
<1>1. TipTypes /\ T!GuardAgrees
  BY DEF TipInv
<1>2. CASE T!DismissNotice
  <2>1. guard.restored
    BY <1>1, <1>2, RenderedIs DEF T!DismissNotice
  <2>2. /\ T!Release("idle", FALSE) /\ history' = [history EXCEPT !.causes = @ \cup {"dismissed"}]
        /\ UNCHANGED <<page, flow, tipz, seen, sends, account>>
    BY <1>2 DEF T!DismissNotice
  <2> QED BY <2>1, <2>2, GuardFreed
<1>3. CASE T!GuardTimesOut
  <2>1. guard.restored \in BOOLEAN
    BY <1>1, TipFields
  <2>2. /\ T!Release("error", guard.restored) /\ history' = [history EXCEPT !.causes = @ \cup {"waited"}]
        /\ UNCHANGED <<page, flow, tipz, seen, sends, account>>
    BY <1>3 DEF T!GuardTimesOut
  <2>3. PICK r \in BOOLEAN : r = guard.restored
    BY <2>1
  <2>4. T!Release("error", r) /\ (r => guard.restored)
    BY <2>2, <2>3
  <2> QED BY <2>2, <2>4, GuardFreed
<1> QED BY <1>2, <1>3

\* The status of the tip moves on, or the step follows it.
LEMMA TipMoved == ASSUME TipInv, T!Rendered, T!FollowStatus \/ T!Progress PROVE TipInv'
<1>1. /\ TipTypes /\ T!GuardAgrees /\ Numbered /\ PaidOnce /\ OneUnsettled
      /\ Waiting /\ PagesAgree /\ OneOnScreen /\ Earned
  BY DEF TipInv
<1>2. UNCHANGED <<page, guard, active, persisted, seen, sends, account, history>>
  BY DEF T!FollowStatus, T!Progress, T!guardVars
<1>3. page.kind = "tip" /\ ~guard.restored
  <2>1. CASE T!FollowStatus
    <3>1. tipz.due # "none"
      BY <2>1 DEF T!FollowStatus
    <3> QED BY <1>1, <3>1, TipFields DEF PagesAgree
  <2>2. CASE T!Progress
    BY <1>1, <2>2 DEF PagesAgree, T!Progress
  <2> QED BY <2>1, <2>2
<1>4. /\ flow' \in FlowRecords /\ flow'.draft = flow.draft /\ (flow'.step = "confirm" => flow.step = "confirm")
      /\ tipz' \in TipzRecords
      /\ (flow'.step = "success" \/ tipz'.due = "success") => (flow.step = "success" \/ tipz.due = "success")
  <2>1. CASE T!FollowStatus
    <3>1. PICK u \in T!Statuses \ {"idle"} : u = tipz.due
      BY <1>1, <2>1, TipFields DEF T!FollowStatus
    <3>2. flow' = [flow EXCEPT !.step = u] /\ tipz' = [tipz EXCEPT !.due = "none"]
      BY <2>1, <3>1 DEF T!FollowStatus
    <3>3. u \in T!Steps /\ u # "confirm"
      BY DEF T!Statuses, T!Steps
    <3>4. flow' \in FlowRecords /\ flow'.step = u /\ flow'.draft = flow.draft
      BY <1>1, <3>2, <3>3 DEF TipTypes, FlowRecords
    <3>5. tipz' \in TipzRecords /\ tipz'.due = "none"
      BY <1>1, <3>2 DEF TipTypes, TipzRecords
    <3> QED BY <3>1, <3>3, <3>4, <3>5
  <2>2. CASE T!Progress
    <3>1. PICK u \in {"submitting", "confirming"} : tipz' = T!WithStatus(u, TRUE)
      BY <2>2 DEF T!Progress
    <3>2. u \in T!Statuses \ {"idle"}
      BY DEF T!Statuses
    <3>3. tipz' \in TipzRecords /\ tipz'.due \in {tipz.due, u}
      BY <1>1, <3>1, <3>2, StatusIs DEF TipTypes
    <3>4. flow' = flow
      BY <2>2 DEF T!Progress
    <3> QED BY <1>1, <3>3, <3>4 DEF TipTypes
  <2> QED BY <2>1, <2>2
<1>5. TipTypes'
  BY <1>1, <1>2, <1>4 DEF TipTypes
<1>6. Numbered' /\ PaidOnce'
  BY <1>1, <1>2, NothingPaid
<1>7. OneUnsettled' /\ OneOnScreen'
  BY <1>1, <1>2, <1>4, SameSends DEF OneUnsettled, OneOnScreen, Calm, Plain
<1>8. Waiting'
  BY <1>1, <1>2, <1>4, RenderedIs, WaitingStays
<1>9. PagesAgree'
  BY <1>2, <1>3 DEF PagesAgree
<1>10. Earned'
  BY <1>1, <1>2, <1>4 DEF Earned, Plain
<1>11. T!GuardAgrees'
  BY <1>1, <1>2 DEF T!GuardAgrees
<1> QED BY <1>5, <1>6, <1>7, <1>8, <1>9, <1>10, <1>11 DEF TipInv

\* The transactions are those there were, some of them over.
FewerRun ==
    /\ sends' \in Seq(SendRecords) /\ Len(sends') = Len(sends) /\ DOMAIN sends' = DOMAIN sends
    /\ \A t \in DOMAIN sends :
          /\ sends'[t].draft = sends[t].draft /\ sends'[t].mount = sends[t].mount
          /\ (Live(t)' => Live(t)) /\ (Landed(t)' <=> Landed(t)) /\ (T!Unsettled(t)' => T!Unsettled(t))
          /\ sends'[t].pc \in {"queueing", "building", "signing"} => sends'[t].chain = "none"

LEMMA PaidStays ==
    ASSUME PaidOnce, FewerRun, account'.paid = account.paid, history.blind \subseteq history'.blind
    PROVE  PaidOnce'
<1>1. SUFFICES ASSUME NEW d \in DOMAIN account.paid
      PROVE  /\ d \notin history'.blind =>
                  /\ \A s, t \in DOMAIN sends' :
                        sends'[s].draft = d /\ sends'[t].draft = d /\ Live(s)' /\ Live(t)' => s = t
                  /\ \/ account.paid[d] = 0
                     \/ account.paid[d] = 1 /\ \E s \in DOMAIN sends' : sends'[s].draft = d /\ Landed(s)'
             /\ (\E s \in DOMAIN sends' : sends'[s].draft = d /\ Landed(s)') => account.paid[d] >= 1
  BY DEF PaidOnce
<1>2. (\E s \in DOMAIN sends' : sends'[s].draft = d /\ Landed(s)')
         <=> \E s \in DOMAIN sends : sends[s].draft = d /\ Landed(s)
  BY DEF FewerRun
<1>3. ASSUME d \notin history'.blind, NEW s \in DOMAIN sends', NEW t \in DOMAIN sends',
             sends'[s].draft = d, sends'[t].draft = d, Live(s)', Live(t)'
      PROVE  s = t
  BY <1>3 DEF PaidOnce, FewerRun
<1>4. d \notin history'.blind =>
         \/ account.paid[d] = 0
         \/ account.paid[d] = 1 /\ \E s \in DOMAIN sends' : sends'[s].draft = d /\ Landed(s)'
  BY <1>2 DEF PaidOnce
<1>5. (\E s \in DOMAIN sends' : sends'[s].draft = d /\ Landed(s)') => account.paid[d] >= 1
  BY <1>2 DEF PaidOnce
<1> QED BY <1>3, <1>4, <1>5

LEMMA RestoreIs ==
    ASSUME TipTypes, T!Restore(0)
    PROVE  /\ guard' \in GuardRecords /\ active' \in 0 .. 1 /\ persisted' \in BOOLEAN /\ T!GuardAgrees'
           /\ history' \in HistoryRecords /\ history'.drafts = history.drafts /\ history'.blind = history.blind
           /\ history.causes \subseteq history'.causes
           /\ Calm' /\ persisted => guard'.lock /\ persisted'
<1>1. PICK free \in GuardRecords :
         /\ free = T!IdleGuard /\ free.lock = FALSE /\ free.entered = FALSE /\ free.timer = FALSE
         /\ free.restored = FALSE /\ free.status = "idle"
  <2>1. T!IdleGuard \in GuardRecords
    BY DEF T!IdleGuard, GuardRecords
  <2> QED BY <2>1 DEF T!IdleGuard
<1>2. PICK held \in GuardRecords :
         /\ held = [lock |-> TRUE, entered |-> TRUE, timer |-> TRUE, restored |-> TRUE, status |-> "pending"]
         /\ held.lock = TRUE /\ held.entered = TRUE /\ held.timer = TRUE /\ held.status = "pending"
  <2>1. PICK held : held = [lock |-> TRUE, entered |-> TRUE, timer |-> TRUE, restored |-> TRUE, status |-> "pending"]
    OBVIOUS
  <2>2. held \in GuardRecords /\ held.lock = TRUE /\ held.entered = TRUE /\ held.timer = TRUE /\ held.status = "pending"
    BY <2>1 DEF GuardRecords
  <2> QED BY <2>1, <2>2
<1>3. history \in HistoryRecords /\ persisted \in BOOLEAN
  BY DEF TipTypes
<1>4. ASSUME guard' = free, active' = 0
      PROVE  guard' \in GuardRecords /\ active' \in 0 .. 1 /\ T!GuardAgrees'
  <2>1. (guard'.status = "pending") = guard'.lock
    BY <1>1, <1>4
  <2>2. active' = IF guard'.entered THEN 1 ELSE 0
    BY <1>1, <1>4
  <2>3. guard'.lock = guard'.entered /\ guard'.lock = guard'.timer
    BY <1>1, <1>4
  <2>4. T!GuardAgrees'
    BY Zenon, <2>1, <2>2, <2>3 DEF T!GuardAgrees
  <2> QED BY <1>4, <2>4
<1>5. ASSUME guard' = held, active' = 1
      PROVE  guard' \in GuardRecords /\ active' \in 0 .. 1 /\ T!GuardAgrees' /\ guard'.lock
  <2>1. (guard'.status = "pending") = guard'.lock
    BY <1>2, <1>5
  <2>2. active' = IF guard'.entered THEN 1 ELSE 0
    BY <1>2, <1>5
  <2>3. guard'.lock = guard'.entered /\ guard'.lock = guard'.timer
    BY <1>2, <1>5
  <2>4. T!GuardAgrees'
    BY Zenon, <2>1, <2>2, <2>3 DEF T!GuardAgrees
  <2> QED BY <1>2, <1>5, <2>4
<1>6. CASE ~persisted /\ guard' = T!IdleGuard /\ active' = 0 /\ UNCHANGED <<persisted, history>>
  BY <1>1, <1>3, <1>4, <1>6
<1>7. CASE /\ persisted /\ active' = 0 + 1 /\ UNCHANGED <<persisted, history>>
           /\ guard' = [lock |-> TRUE, entered |-> TRUE, timer |-> TRUE, restored |-> TRUE, status |-> "pending"]
  <2>1. active' = 1 /\ guard' = held /\ persisted' = persisted /\ history' = history
    BY <1>2, <1>7
  <2> QED BY <1>3, <1>5, <1>7, <2>1
<1>8. CASE /\ persisted /\ guard' = T!IdleGuard /\ active' = 0 /\ persisted' = FALSE
           /\ history' = [history EXCEPT !.causes = @ \cup {"waited"}]
  <2>1. /\ history' \in HistoryRecords /\ history'.drafts = history.drafts /\ history'.blind = history.blind
        /\ history'.causes = history.causes \cup {"waited"}
    <3>1. "waited" \in Doubts /\ history' = [history EXCEPT !.causes = @ \cup {"waited"}]
      BY <1>8 DEF Doubts
    <3> QED BY <1>3, <3>1, Noted
  <2>2. ~Calm'
    BY <2>1 DEF Calm
  <2>3. guard' \in GuardRecords /\ active' \in 0 .. 1 /\ T!GuardAgrees'
    BY <1>1, <1>4, <1>8
  <2>4. persisted' \in BOOLEAN
    BY <1>8
  <2> QED BY <2>1, <2>2, <2>3, <2>4
<1> QED BY <1>6, <1>7, <1>8 DEF T!Restore

\* A page mounts: nothing that runs is its own.
LEMMA TipMounted == ASSUME TipInv, T!Mounted, T!Restore(0), FewerRun PROVE TipInv'
<1>1. /\ TipTypes /\ T!GuardAgrees /\ Numbered /\ PaidOnce /\ OneUnsettled
      /\ Waiting /\ PagesAgree /\ OneOnScreen /\ Earned
  BY DEF TipInv
<1>2. /\ flow' = T!EmptyFlow /\ tipz' = T!IdleTipz /\ UNCHANGED account
      /\ seen' = [step |-> "form", draft |-> 0, pending |-> FALSE, restored |-> FALSE, busy |-> FALSE, status |-> "idle"]
  BY DEF T!Mounted
<1>3. PICK m \in Nat : m = page.mount
  BY <1>1, TipFields
<1>4. page' \in [mount : Nat, kind : T!Kinds] /\ page'.mount = m + 1
  <2>1. page' \in [mount : {m + 1}, kind : T!Kinds]
    BY <1>3 DEF T!Mounted
  <2> QED BY <1>3, <2>1
<1>5. flow' \in FlowRecords /\ flow'.step = "form" /\ flow'.draft = 0
  BY <1>2 DEF T!EmptyFlow, FlowRecords, T!Steps
<1>6. tipz' \in TipzRecords /\ tipz'.due = "none"
  BY <1>2 DEF T!IdleTipz, TipzRecords, T!Statuses
<1>7. seen' \in SeenRecords /\ seen'.step = "form"
  BY <1>2 DEF SeenRecords, T!Steps, T!Statuses
<1>8. /\ guard' \in GuardRecords /\ active' \in 0 .. 1 /\ persisted' \in BOOLEAN /\ T!GuardAgrees'
      /\ history' \in HistoryRecords /\ history'.drafts = history.drafts /\ history'.blind = history.blind
      /\ history.causes \subseteq history'.causes
      /\ Calm' /\ persisted => guard'.lock /\ persisted'
  BY <1>1, RestoreIs
<1>9. TipTypes'
  <2>1. flow'.draft <= history'.drafts
    BY <1>1, <1>5, <1>8, TipFields
  <2>2. sends' \in Seq(SendRecords) /\ Len(sends') <= SendCount
    BY <1>1 DEF FewerRun, TipTypes
  <2> QED BY <1>1, <1>2, <1>4, <1>5, <1>6, <1>7, <1>8, <2>1, <2>2 DEF TipTypes
<1>10. \A s \in DOMAIN sends' : sends'[s].mount <= m /\ ~T!Here(s)' /\ sends'[s].mount <= m + 1
  <2>1. \A s \in DOMAIN sends : sends[s].mount \in Nat /\ sends[s].mount <= m
    BY <1>1, <1>3, SendIs DEF Numbered
  <2>2. \A s \in DOMAIN sends' : sends'[s].mount \in Nat /\ sends'[s].mount <= m
    BY <2>1 DEF FewerRun
  <2> QED BY <1>3, <1>4, <2>2 DEF T!Here
<1>11. Numbered' /\ PaidOnce'
  <2>1. Len(account'.paid) = history'.drafts
    BY <1>1, <1>2, <1>8 DEF Numbered
  <2>2. \A s \in DOMAIN sends' : /\ sends'[s].draft <= history'.drafts
                                 /\ sends'[s].pc \in {"queueing", "building", "signing"} => sends'[s].chain = "none"
    BY <1>1, <1>8 DEF Numbered, FewerRun
  <2>3. Numbered'
    BY <1>4, <1>10, <2>1, <2>2 DEF Numbered
  <2> QED BY <1>1, <1>2, <1>8, <2>3, PaidStays
<1>12. OneUnsettled'
  <2>1. Calm' => Calm
    BY <1>8 DEF Calm
  <2> QED BY <1>1, <1>8, <2>1 DEF OneUnsettled, FewerRun
<1>13. Waiting' /\ PagesAgree'
  BY <1>5, <1>6, <1>7, <1>10 DEF Waiting, PagesAgree
<1>14. OneOnScreen' /\ Earned'
  BY <1>1, <1>5, <1>8, <1>10 DEF OneOnScreen, OnScreen, Earned
<1> QED BY <1>8, <1>9, <1>11, <1>12, <1>13, <1>14 DEF TipInv

LEMMA TipLeft == ASSUME TipInv, T!Navigate \/ T!Reload PROVE TipInv'
<1>1. TipTypes /\ T!GuardAgrees /\ Numbered
  BY DEF TipInv
<1>2. \A s \in DOMAIN sends : /\ sends[s] \in SendRecords
                              /\ sends[s].pc \in {"queueing", "building", "signing"} => sends[s].chain = "none"
  BY <1>1, SendIs DEF Numbered
<1>3. CASE T!Navigate
  <2>1. T!Mounted /\ T!Restore(T!Exited(active, guard)) /\ sends' = sends
    BY <1>3 DEF T!Navigate
  <2>2. T!Restore(0)
    BY <1>1, <2>1, CountedIs
  <2>3. FewerRun
    BY <1>1, <1>2, <2>1 DEF FewerRun, Live, Landed, T!Unsettled, T!Running, TipTypes
  <2> QED BY <2>1, <2>2, <2>3, TipMounted
<1>4. CASE T!Reload
  <2>1. /\ T!Mounted /\ T!Restore(0)
        /\ sends' = [s \in DOMAIN sends |-> IF T!Running(s) THEN [sends[s] EXCEPT !.pc = "gone"] ELSE sends[s]]
    BY <1>4 DEF T!Reload
  <2>2. DOMAIN sends' = DOMAIN sends
    BY <2>1
  <2>3. \A s \in DOMAIN sends :
           /\ sends'[s] \in SendRecords /\ sends'[s].draft = sends[s].draft /\ sends'[s].mount = sends[s].mount
           /\ sends'[s].chain = sends[s].chain /\ (sends'[s].pc = sends[s].pc \/ sends'[s].pc = "gone")
    <3>1. TAKE s \in DOMAIN sends
    <3>2. PICK was \in SendRecords : was = sends[s]
      BY <1>2
    <3>3. PICK e : e = [was EXCEPT !.pc = "gone"]
      OBVIOUS
    <3>4. /\ e \in SendRecords /\ e.draft = was.draft /\ e.mount = was.mount /\ e.chain = was.chain /\ e.pc = "gone"
      BY <3>3 DEF SendRecords, Pcs
    <3>5. sends'[s] = IF T!Running(s) THEN e ELSE was
      BY <2>1, <3>2, <3>3
    <3> QED BY <3>2, <3>4, <3>5
  <2>4. sends' \in Seq(SendRecords) /\ Len(sends') = Len(sends)
    <3>1. PICK n \in Nat : n = Len(sends) /\ DOMAIN sends = 1 .. n
      BY <1>1 DEF TipTypes
    <3>2. sends' \in [1 .. n -> SendRecords]
      BY <2>1, <2>3, <3>1
    <3>3. sends' \in Seq(SendRecords)
      BY <3>2, IsSeq
    <3> QED BY <2>2, <3>1, <3>3
  <2>5. \A s \in DOMAIN sends :
           /\ (Landed(s)' <=> Landed(s)) /\ (T!Unsettled(s)' => T!Unsettled(s)) /\ (Live(s)' => Live(s))
           /\ sends'[s].pc \in {"queueing", "building", "signing"} => sends'[s].chain = "none"
    BY <1>2, <2>3 DEF Live, Landed, T!Unsettled, T!Running
  <2>6. FewerRun
    BY <2>2, <2>3, <2>4, <2>5 DEF FewerRun
  <2> QED BY <2>1, <2>6, TipMounted
<1> QED BY <1>3, <1>4

\* A transaction of the page is over for its script: it settles, and the page that started it learns.
TipSettles(s) ==
    /\ FewerRun /\ sends'[s].pc = "settled" /\ \A t \in DOMAIN sends \ {s} : sends'[t] = sends[t]
    /\ T!Unsettled(s)' => "unanswered" \in history'.causes
    /\ history' \in HistoryRecords /\ history'.drafts = history.drafts /\ history'.blind = history.blind
    /\ history.causes \subseteq history'.causes
GuardLets(s) ==
    /\ guard' \in GuardRecords /\ guard'.restored = guard.restored
    /\ active' \in 0 .. 1 /\ persisted' \in BOOLEAN /\ T!GuardAgrees'
    /\ ~T!Here(s) => guard' = guard
StatusTells(s) ==
    /\ tipz' \in TipzRecords
    /\ ~T!Here(s) => tipz' = tipz
    /\ page.kind = "register" => tipz'.due \in {tipz.due, "none"}
    /\ tipz'.due = "success" => tipz.due = "success" \/ (T!Here(s) /\ Landed(s))
StepGoesOn(s) ==
    /\ flow' \in FlowRecords /\ flow'.draft = flow.draft
    /\ flow'.step = flow.step \/ (flow'.step = "queued" /\ T!Here(s) /\ sends[s].pc = "queueing")

LEMMA TipEnded ==
    ASSUME TipInv, T!Rendered, NEW s \in DOMAIN sends, T!Running(s), UNCHANGED <<page, seen, account>>,
           TipSettles(s), GuardLets(s), StatusTells(s), StepGoesOn(s)
    PROVE  TipInv'
<1>1. /\ TipTypes /\ T!GuardAgrees /\ Numbered /\ PaidOnce /\ OneUnsettled
      /\ Waiting /\ PagesAgree /\ OneOnScreen /\ Earned
  BY DEF TipInv
<1>2. /\ DOMAIN sends' = DOMAIN sends
      /\ \A t \in DOMAIN sends :
            /\ sends'[t].draft = sends[t].draft /\ sends'[t].mount = sends[t].mount
            /\ T!Unsettled(t)' => T!Unsettled(t)
            /\ sends'[t].pc \in {"queueing", "building", "signing"} => sends'[t].chain = "none"
      /\ sends'[s].pc = "settled" /\ \A t \in DOMAIN sends \ {s} : sends'[t] = sends[t]
  BY DEF TipSettles, FewerRun
<1>3. /\ history'.drafts = history.drafts /\ history'.blind = history.blind
      /\ history.causes \subseteq history'.causes /\ flow'.draft = flow.draft
  BY DEF TipSettles, StepGoesOn
<1>4. \A t \in DOMAIN sends : (T!Here(t)' <=> T!Here(t)) /\ (OnScreen(t)' => OnScreen(t) /\ t # s)
  BY <1>2 DEF T!Here, OnScreen, T!Running
<1>5. TipTypes'
  <2>1. flow'.draft <= history'.drafts
    BY <1>1, <1>3, TipFields
  <2>2. sends' \in Seq(SendRecords) /\ Len(sends') <= SendCount
    BY <1>1 DEF TipSettles, FewerRun, TipTypes
  <2> QED BY <1>1, <2>1, <2>2 DEF TipTypes, TipSettles, GuardLets, StatusTells, StepGoesOn
<1>6. Numbered'
  BY <1>1, <1>2, <1>3 DEF Numbered
<1>7. PaidOnce'
  BY <1>1, <1>3, PaidStays DEF TipSettles
<1>8. OneUnsettled'
  <2>1. SUFFICES ASSUME Calm' PROVE \A t \in DOMAIN sends : ~T!Unsettled(t)'
    BY <1>2 DEF OneUnsettled
  <2>2. Calm /\ ~T!Unsettled(s)'
    BY <1>3, <2>1 DEF Calm, TipSettles
  <2>3. \A t \in DOMAIN sends : T!Unsettled(t) => t = s
    BY <1>1, <2>2 DEF OneUnsettled, T!Unsettled
  <2> QED BY <1>2, <2>2, <2>3
<1>9. OneOnScreen'
  <2>1. SUFFICES ASSUME Plain'
        PROVE  \A t \in DOMAIN sends : OnScreen(t)' =>
                  /\ guard'.lock /\ sends'[t].draft = flow'.draft
                  /\ \A u \in DOMAIN sends : OnScreen(u)' => t = u
    BY <1>2 DEF OneOnScreen
  <2>2. Plain
    BY <1>3, <2>1 DEF Plain
  <2>3. CASE T!Here(s)
    <3>1. \A t \in DOMAIN sends : OnScreen(t) => t = s
      BY <1>1, <2>2, <2>3 DEF OneOnScreen, OnScreen
    <3> QED BY <1>4, <3>1
  <2>4. CASE ~T!Here(s)
    <3>1. guard' = guard
      BY <2>4 DEF GuardLets
    <3> QED BY <1>1, <1>2, <1>3, <1>4, <2>2, <3>1 DEF OneOnScreen
  <2> QED BY <2>3, <2>4
<1>10. Waiting'
  <2>1. flow'.step = "confirm" => flow.step = "confirm"
    BY DEF StepGoesOn
  <2> QED BY <1>1, <1>2, <1>3, <2>1, RenderedIs, WaitingStays
<1>11. PagesAgree'
  <2>1. ASSUME page.kind = "register"
        PROVE  /\ flow'.step = "form" /\ flow'.draft = 0 /\ seen'.step = "form" /\ tipz'.due = "none"
               /\ \A t \in DOMAIN sends : T!Here(t) => sends'[t].pc # "queueing"
    <3>1. /\ flow.step = "form" /\ flow.draft = 0 /\ seen.step = "form" /\ tipz.due = "none"
          /\ \A t \in DOMAIN sends : T!Here(t) => sends[t].pc # "queueing"
      BY <1>1, <2>1 DEF PagesAgree
    <3>2. flow'.step = "form" /\ flow'.draft = 0
      BY <3>1 DEF StepGoesOn
    <3>3. tipz'.due = "none"
      BY <2>1, <3>1 DEF StatusTells
    <3> QED BY <1>2, <3>1, <3>2, <3>3
  <2>2. ASSUME guard'.restored
        PROVE  flow'.step \in {"form", "confirm"} /\ tipz'.due = "none" /\ \A t \in DOMAIN sends : ~T!Here(t)
    <3>1. flow.step \in {"form", "confirm"} /\ tipz.due = "none" /\ \A t \in DOMAIN sends : ~T!Here(t)
      BY <1>1, <2>2 DEF PagesAgree, GuardLets
    <3>2. flow'.step = flow.step /\ tipz' = tipz
      BY <3>1 DEF StepGoesOn, StatusTells
    <3> QED BY <3>1, <3>2
  <2> QED BY <1>2, <1>4, <2>1, <2>2 DEF PagesAgree
<1>12. Earned'
  <2>1. SUFFICES ASSUME Plain', flow.draft # 0, flow.step = "success" \/ tipz'.due = "success"
        PROVE  account.paid[flow.draft] = 1
    BY <1>1, <1>3 DEF Earned, StepGoesOn
  <2>2. Plain /\ "retried" \notin history.causes
    BY <1>3, <2>1 DEF Plain
  <2>3. CASE flow.step = "success" \/ tipz.due = "success"
    BY <1>1, <2>1, <2>2, <2>3 DEF Earned
  <2>4. CASE T!Here(s) /\ Landed(s)
    <3>1. sends[s].draft = flow.draft
      BY <1>1, <2>2, <2>4 DEF OneOnScreen, OnScreen
    <3>2. flow.draft \in DOMAIN account.paid
      <4>1. PICK d \in Nat : d = flow.draft /\ d # 0 /\ d <= history.drafts
        BY <1>1, <2>1, TipFields
      <4>2. account.paid \in Seq(Nat) /\ Len(account.paid) = history.drafts /\ history.drafts \in Nat
        BY <1>1, TipFields DEF Numbered
      <4> QED BY <4>1, <4>2
    <3>3. flow.draft \notin history.blind
      BY <1>1, <2>2 DEF Earned
    <3>4. account.paid[flow.draft] \in Nat
      BY <1>1, <3>2, TipFields
    <3> QED BY <1>1, <2>4, <3>1, <3>2, <3>3, <3>4 DEF PaidOnce
  <2> QED BY <2>1, <2>3, <2>4 DEF StatusTells
<1> QED BY <1>5, <1>6, <1>7, <1>8, <1>9, <1>10, <1>11, <1>12 DEF TipInv, GuardLets

LEMMA TipSettleIs ==
    ASSUME TipTypes, T!GuardAgrees, NEW s \in DOMAIN sends, NEW ok \in BOOLEAN, ok => Landed(s), T!Settle(s, ok)
    PROVE  GuardLets(s) /\ StatusTells(s) /\ UNCHANGED <<page, flow, seen, account>>
<1>1. UNCHANGED <<page, flow, seen, account>>
  BY DEF T!Settle
<1>2. guard \in GuardRecords /\ active \in 0 .. 1 /\ persisted \in BOOLEAN /\ tipz \in TipzRecords
  BY DEF TipTypes
<1>3. PICK told \in {"success", "error"} : told = (IF ok THEN "success" ELSE "error") /\ (told = "success" => Landed(s))
  OBVIOUS
<1>4. CASE T!Here(s)
  <2>1. tipz' \in TipzRecords /\ tipz'.due \in {tipz.due, told, "none"} /\ (page.kind = "register" => tipz'.due = "none")
    <3>1. CASE page.kind = "tip"
      <4>1. tipz' = T!WithStatus(told, FALSE)
        BY <1>3, <1>4, <3>1 DEF T!Settle
      <4>2. told \in T!Statuses \ {"idle"}
        BY DEF T!Statuses
      <4>3. tipz' \in TipzRecords /\ tipz'.due \in {tipz.due, told}
        BY <1>2, <4>1, <4>2, StatusIs
      <4> QED BY <3>1, <4>3
    <3>2. CASE page.kind # "tip"
      <4>1. tipz' = [status |-> told, sending |-> FALSE, due |-> "none"]
        BY <1>3, <1>4, <3>2 DEF T!Settle
      <4> QED BY <4>1 DEF TipzRecords, T!Statuses
    <3> QED BY <3>1, <3>2
  <2>2. StatusTells(s)
    BY <1>3, <1>4, <2>1 DEF StatusTells
  <2>3. GuardLets(s)
    <3>1. CASE sends[s].guarded
      <4>1. PICK r \in BOOLEAN : r = guard.restored
        BY TipFields
      <4>2. T!Release(told, r)
        BY <1>3, <1>4, <3>1, <4>1 DEF T!Settle
      <4>3. /\ guard' \in GuardRecords /\ guard'.restored = r
            /\ active' \in 0 .. 1 /\ persisted' = FALSE /\ T!GuardAgrees'
        BY <4>2, ReleaseIs
      <4> QED BY <1>4, <4>1, <4>3 DEF GuardLets
    <3>2. CASE ~sends[s].guarded
      <4>1. UNCHANGED <<guard, active, persisted>>
        BY <1>4, <3>2 DEF T!Settle, T!guardVars
      <4> QED BY <1>2, <4>1 DEF GuardLets, T!GuardAgrees
    <3> QED BY <3>1, <3>2
  <2> QED BY <1>1, <2>2, <2>3
<1>5. CASE ~T!Here(s)
  <2>1. UNCHANGED <<tipz, guard, active>> /\ persisted' = (persisted /\ ~sends[s].guarded)
    BY <1>5 DEF T!Settle
  <2>2. persisted' \in BOOLEAN
    BY <2>1
  <2>3. GuardLets(s)
    BY <1>2, <2>1, <2>2 DEF GuardLets, T!GuardAgrees
  <2>4. StatusTells(s)
    BY <1>2, <2>1 DEF StatusTells
  <2> QED BY <1>1, <2>3, <2>4
<1> QED BY <1>4, <1>5

LEMMA OneChanges ==
    ASSUME TipTypes, NEW s \in DOMAIN sends, NEW e \in SendRecords, sends' = [sends EXCEPT ![s] = e]
    PROVE  /\ sends' \in Seq(SendRecords) /\ Len(sends') = Len(sends) /\ DOMAIN sends' = DOMAIN sends
           /\ sends'[s] = e /\ \A t \in DOMAIN sends \ {s} : sends'[t] = sends[t]
<1>1. sends \in Seq(SendRecords)
  BY DEF TipTypes
<1> QED BY <1>1

\* A transaction is over for its script, and has come as far as it had, or is on its way.
EndsAs(s, far) ==
    /\ FewerRun /\ sends'[s].pc = "settled" /\ \A t \in DOMAIN sends \ {s} : sends'[t] = sends[t]
    /\ T!Unsettled(s)' => far = "pending"

LEMMA EndIs ==
    ASSUME TipTypes, Numbered, NEW s \in DOMAIN sends, T!Running(s),
           \/ sends' = T!To(s, "settled")
           \/ sends[s].chain = "none" /\ sends' = T!OnChain(s, "settled", "pending")
    PROVE  /\ sends' = T!To(s, "settled") => EndsAs(s, sends[s].chain)
           /\ EndsAs(s, "pending")
<1>1. PICK was \in SendRecords : was = sends[s]
  BY SendIs
<1>2. PICK far \in Chains : /\ sends' = [sends EXCEPT ![s] = [was EXCEPT !.pc = "settled", !.chain = far]]
                            /\ far = was.chain \/ (was.chain = "none" /\ far = "pending")
                            /\ sends' = T!To(s, "settled") => far = was.chain
  <2>1. CASE sends' = T!To(s, "settled")
    <3>1. PICK far \in Chains : far = was.chain
      BY <1>1 DEF SendRecords
    <3>2. [was EXCEPT !.pc = "settled", !.chain = far] = [was EXCEPT !.pc = "settled"]
      BY <3>1 DEF SendRecords
    <3>3. sends' = [sends EXCEPT ![s] = [was EXCEPT !.pc = "settled"]]
      BY <1>1, <2>1 DEF T!To
    <3> QED BY <3>1, <3>2, <3>3
  <2>2. CASE sends[s].chain = "none" /\ sends' = T!OnChain(s, "settled", "pending") /\ sends' # T!To(s, "settled")
    <3>1. sends' = [sends EXCEPT ![s] = [was EXCEPT !.pc = "settled", !.chain = "pending"]]
      <4>1. sends \in Seq(SendRecords)
        BY DEF TipTypes
      <4> QED BY <1>1, <2>2, <4>1 DEF T!OnChain
    <3>2. "pending" \in Chains
      BY DEF Chains
    <3> QED BY <1>1, <2>2, <3>1, <3>2
  <2> QED BY <2>1, <2>2
<1>3. PICK e : e = [was EXCEPT !.pc = "settled", !.chain = far]
  OBVIOUS
<1>4. /\ e \in SendRecords /\ e.draft = was.draft /\ e.mount = was.mount /\ e.pc = "settled" /\ e.chain = far
  BY <1>3 DEF SendRecords, Pcs
<1>5. /\ sends' \in Seq(SendRecords) /\ Len(sends') = Len(sends) /\ DOMAIN sends' = DOMAIN sends
      /\ sends'[s] = e /\ \A t \in DOMAIN sends \ {s} : sends'[t] = sends[t]
  BY <1>2, <1>3, <1>4, OneChanges
<1>6. \A t \in DOMAIN sends :
         /\ sends'[t].draft = sends[t].draft /\ sends'[t].mount = sends[t].mount
         /\ (Live(t)' => Live(t)) /\ (Landed(t)' <=> Landed(t)) /\ (T!Unsettled(t)' => T!Unsettled(t))
         /\ sends'[t].pc \in {"queueing", "building", "signing"} => sends'[t].chain = "none"
  <2>1. TAKE t \in DOMAIN sends
  <2>2. CASE t = s
    <3>1. sends'[t].draft = sends[t].draft /\ sends'[t].mount = sends[t].mount /\ sends'[t].pc = "settled"
      BY <1>1, <1>4, <1>5, <2>2
    <3>2. sends'[t].chain = far /\ (far = sends[t].chain \/ (sends[t].chain = "none" /\ far = "pending"))
      BY <1>1, <1>2, <1>4, <1>5, <2>2
    <3>3. T!Unsettled(t)
      BY <2>2 DEF T!Unsettled
    <3> QED BY <3>1, <3>2, <3>3 DEF Live, Landed
  <2>3. CASE t # s
    <3>1. sends'[t] = sends[t]
      BY <1>5, <2>3
    <3>2. sends[t].pc \in {"queueing", "building", "signing"} => sends[t].chain = "none"
      BY DEF Numbered
    <3> QED BY <3>1, <3>2 DEF Live, Landed, T!Unsettled, T!Running
  <2> QED BY <2>2, <2>3
<1>7. FewerRun
  BY <1>5, <1>6 DEF FewerRun
<1>8. T!Unsettled(s)' => far = "pending"
  BY <1>4, <1>5 DEF T!Unsettled, T!Running
<1> QED BY <1>1, <1>2, <1>4, <1>5, <1>7, <1>8 DEF EndsAs

LEMMA TipQueued == ASSUME TipInv, T!Rendered, NEW s \in DOMAIN sends, T!Queued(s) PROVE TipInv'
<1>1. TipTypes /\ T!GuardAgrees /\ Numbered
  BY DEF TipInv
<1>2. sends[s].pc = "queueing" /\ sends' = T!To(s, "settled") /\ UNCHANGED <<page, tipz, seen, account, history>>
  BY DEF T!Queued
<1>3. T!Running(s) /\ sends[s].chain = "none"
  BY <1>1, <1>2 DEF T!Running, Numbered
<1>4. EndsAs(s, "none")
  BY <1>1, <1>2, <1>3, EndIs
<1>5. TipSettles(s)
  BY <1>1, <1>2, <1>4 DEF TipSettles, EndsAs, TipTypes
<1>6. StatusTells(s)
  BY <1>1, <1>2 DEF StatusTells, TipTypes
<1>7. StepGoesOn(s)
  <2>1. CASE T!Here(s)
    <3>1. flow' = [flow EXCEPT !.step = "queued"]
      BY <2>1 DEF T!Queued
    <3>2. flow' \in FlowRecords /\ flow'.draft = flow.draft /\ flow'.step = "queued"
      BY <1>1, <3>1 DEF TipTypes, FlowRecords, T!Steps
    <3> QED BY <1>2, <2>1, <3>2 DEF StepGoesOn
  <2>2. CASE ~T!Here(s)
    <3>1. flow' = flow
      BY <2>2 DEF T!Queued
    <3> QED BY <1>1, <3>1 DEF StepGoesOn, TipTypes
  <2> QED BY <2>1, <2>2
<1>8. GuardLets(s)
  <2>1. guard \in GuardRecords /\ active \in 0 .. 1 /\ persisted \in BOOLEAN
    BY <1>1 DEF TipTypes
  <2>2. CASE T!Here(s) /\ sends[s].guarded
    <3>1. PICK r \in BOOLEAN : r = guard.restored
      BY <1>1, TipFields
    <3>2. T!Release("success", r)
      BY <2>2, <3>1 DEF T!Queued
    <3>3. /\ guard' \in GuardRecords /\ guard'.restored = r
          /\ active' \in 0 .. 1 /\ persisted' = FALSE /\ T!GuardAgrees'
      BY <1>1, <3>2, ReleaseIs
    <3> QED BY <2>2, <3>1, <3>3 DEF GuardLets
  <2>3. CASE T!Here(s) /\ ~sends[s].guarded
    <3>1. UNCHANGED <<guard, active, persisted>>
      BY <2>3 DEF T!Queued, T!guardVars
    <3> QED BY <1>1, <2>1, <3>1 DEF GuardLets, T!GuardAgrees
  <2>4. CASE ~T!Here(s)
    <3>1. UNCHANGED <<guard, active>> /\ persisted' = (persisted /\ ~sends[s].guarded)
      BY <2>4 DEF T!Queued
    <3>2. persisted' \in BOOLEAN
      BY <3>1
    <3> QED BY <1>1, <2>1, <3>1, <3>2 DEF GuardLets, T!GuardAgrees
  <2> QED BY <2>2, <2>3, <2>4
<1> QED BY <1>2, <1>3, <1>5, <1>6, <1>7, <1>8, TipEnded

\* The transaction is refused, its answer is lost, or it is waited for no longer.
LEMMA TipAnswered ==
    ASSUME TipInv, T!Rendered, NEW s \in DOMAIN sends,
           T!Refused(s) \/ T!Unanswered(s) \/ T!Polled(s) \/ T!PollingTimesOut(s)
    PROVE  TipInv'
<1>1. TipTypes /\ T!GuardAgrees /\ Numbered
  BY DEF TipInv
<1>2. history \in HistoryRecords
  BY <1>1 DEF TipTypes
<1>3. ASSUME NEW ok \in BOOLEAN, ok => Landed(s), T!Settle(s, ok), T!Running(s), TipSettles(s)
      PROVE  TipInv'
  <2>1. GuardLets(s) /\ StatusTells(s) /\ UNCHANGED <<page, flow, seen, account>>
    BY <1>1, <1>3, TipSettleIs
  <2>2. StepGoesOn(s)
    BY <1>1, <2>1 DEF StepGoesOn, TipTypes
  <2> QED BY <1>3, <2>1, <2>2, TipEnded
<1>4. CASE T!Refused(s)
  <2>1. sends[s].pc \in {"building", "signing"} /\ T!Settle(s, FALSE) /\ sends' = T!To(s, "settled") /\ history' = history
    BY <1>4 DEF T!Refused
  <2>2. T!Running(s) /\ sends[s].chain = "none"
    BY <1>1, <2>1 DEF T!Running, Numbered
  <2>3. EndsAs(s, "none")
    BY <1>1, <2>1, <2>2, EndIs
  <2>4. TipSettles(s)
    BY <1>2, <2>1, <2>3 DEF TipSettles, EndsAs
  <2> QED BY <1>3, <2>1, <2>2, <2>4
<1>5. CASE T!Polled(s)
  <2>1. PICK ok \in BOOLEAN : ok = (sends[s].chain = "landed")
    OBVIOUS
  <2>2. /\ sends[s].pc = "polling" /\ sends[s].chain \in {"landed", "failed"} /\ T!Settle(s, ok)
        /\ sends' = T!To(s, "settled") /\ history' = history
    BY <1>5, <2>1 DEF T!Polled
  <2>3. T!Running(s)
    BY <2>2 DEF T!Running
  <2>4. EndsAs(s, sends[s].chain) /\ sends[s].chain # "pending"
    BY <1>1, <2>2, <2>3, EndIs
  <2>5. TipSettles(s)
    BY <1>2, <2>2, <2>4 DEF TipSettles, EndsAs
  <2>6. ok => Landed(s)
    BY <2>1 DEF Landed
  <2> QED BY <1>3, <2>2, <2>3, <2>5, <2>6
<1>6. CASE T!Unanswered(s) \/ T!PollingTimesOut(s)
  <2>1. /\ history' \in HistoryRecords /\ history'.drafts = history.drafts /\ history'.blind = history.blind
        /\ history'.causes = history.causes \cup {"unanswered"}
    <3>1. "unanswered" \in Doubts /\ history' = [history EXCEPT !.causes = @ \cup {"unanswered"}]
      BY <1>6 DEF T!Unanswered, T!PollingTimesOut, Doubts
    <3> QED BY <1>2, <3>1, Noted
  <2>2. T!Settle(s, FALSE) /\ T!Running(s)
    BY <1>6 DEF T!Unanswered, T!PollingTimesOut, T!Running
  <2>3. \/ sends' = T!To(s, "settled")
        \/ sends[s].chain = "none" /\ sends' = T!OnChain(s, "settled", "pending")
    BY <1>1, <1>6 DEF T!Unanswered, T!PollingTimesOut, Numbered
  <2>4. EndsAs(s, "pending")
    BY <1>1, <2>2, <2>3, EndIs
  <2>5. TipSettles(s)
    BY <2>1, <2>4 DEF TipSettles, EndsAs
  <2> QED BY <1>3, <2>2, <2>5
<1> QED BY <1>4, <1>5, <1>6

\* The transactions go on, on the chain or towards it, and the page learns nothing.
SendsGoOn ==
    /\ sends' \in Seq(SendRecords) /\ Len(sends') = Len(sends) /\ DOMAIN sends' = DOMAIN sends
    /\ \A t \in DOMAIN sends :
          /\ sends'[t].draft = sends[t].draft /\ sends'[t].mount = sends[t].mount
          /\ (T!Unsettled(t)' => T!Unsettled(t)) /\ (OnScreen(t)' => OnScreen(t)) /\ (T!Here(t)' <=> T!Here(t))
          /\ sends'[t].pc = "queueing" => sends[t].pc = "queueing"
          /\ sends'[t].pc \in {"queueing", "building", "signing"} => sends'[t].chain = "none"

LEMMA PageStays ==
    ASSUME TipInv, T!Rendered, SendsGoOn, account' \in AccountRecords, Len(account'.paid) = Len(account.paid),
           UNCHANGED <<page, guard, active, persisted, flow, tipz, seen, history>>
    PROVE  /\ TipTypes' /\ T!GuardAgrees' /\ Numbered' /\ OneUnsettled'
           /\ Waiting' /\ PagesAgree' /\ OneOnScreen'
<1>1. /\ TipTypes /\ T!GuardAgrees /\ Numbered /\ OneUnsettled /\ Waiting /\ PagesAgree /\ OneOnScreen
  BY DEF TipInv
<1>2. TipTypes'
  BY <1>1 DEF TipTypes, SendsGoOn
<1>3. T!GuardAgrees'
  BY <1>1 DEF T!GuardAgrees
<1>4. Numbered'
  BY <1>1 DEF Numbered, SendsGoOn
<1>5. OneUnsettled'
  BY <1>1 DEF OneUnsettled, Calm, SendsGoOn
<1>6. OneOnScreen'
  BY <1>1 DEF OneOnScreen, Plain, SendsGoOn
<1>7. Waiting'
  BY <1>1, RenderedIs, WaitingStays DEF SendsGoOn
<1>8. PagesAgree'
  BY <1>1 DEF PagesAgree, SendsGoOn
<1> QED BY <1>2, <1>3, <1>4, <1>5, <1>6, <1>7, <1>8

\* One of them takes a step.
LEMMA OneGoesFurther ==
    ASSUME TipTypes, Numbered, UNCHANGED page, NEW s \in DOMAIN sends, NEW e \in SendRecords,
           sends' = [sends EXCEPT ![s] = e], e.draft = sends[s].draft, e.mount = sends[s].mount,
           T!Unsettled(s), e.pc = sends[s].pc \/ (T!Running(s) /\ e.pc \in {"signing", "polling"}),
           e.pc \in {"queueing", "building", "signing"} => e.chain = "none"
    PROVE  /\ SendsGoOn /\ sends'[s] = e /\ \A t \in DOMAIN sends \ {s} : sends'[t] = sends[t]
           /\ e.chain # "landed" /\ ~Landed(s) => FewerRun
<1>1. /\ sends' \in Seq(SendRecords) /\ Len(sends') = Len(sends) /\ DOMAIN sends' = DOMAIN sends
      /\ sends'[s] = e /\ \A t \in DOMAIN sends \ {s} : sends'[t] = sends[t]
  BY OneChanges
<1>2. \A t \in DOMAIN sends :
         /\ sends'[t].draft = sends[t].draft /\ sends'[t].mount = sends[t].mount
         /\ (T!Unsettled(t)' => T!Unsettled(t)) /\ (OnScreen(t)' => OnScreen(t)) /\ (T!Here(t)' <=> T!Here(t))
         /\ sends'[t].pc = "queueing" => sends[t].pc = "queueing"
         /\ sends'[t].pc \in {"queueing", "building", "signing"} => sends'[t].chain = "none"
  <2>1. TAKE t \in DOMAIN sends
  <2>2. CASE t = s
    <3>1. sends'[t].draft = sends[t].draft /\ sends'[t].mount = sends[t].mount /\ sends'[t].pc = e.pc /\ sends'[t].chain = e.chain
      BY <1>1, <2>2
    <3>2. T!Here(t)' <=> T!Here(t)
      BY <3>1 DEF T!Here
    <3>3. OnScreen(t)' => OnScreen(t)
      BY <2>2, <3>1, <3>2 DEF OnScreen, T!Running
    <3> QED BY <2>2, <3>1, <3>2, <3>3
  <2>3. CASE t # s
    <3>1. sends'[t] = sends[t]
      BY <1>1, <2>3
    <3> QED BY <3>1 DEF Numbered, OnScreen, T!Here, T!Unsettled, T!Running
  <2> QED BY <2>2, <2>3
<1>3. SendsGoOn
  BY <1>1, <1>2 DEF SendsGoOn
<1>4. ASSUME e.chain # "landed", ~Landed(s) PROVE FewerRun
  <2>1. \A t \in DOMAIN sends : (Landed(t)' <=> Landed(t)) /\ (Live(t)' => Live(t))
    BY <1>1, <1>2, <1>4 DEF Landed, Live
  <2> QED BY <1>1, <1>2, <2>1 DEF FewerRun
<1> QED BY <1>1, <1>3, <1>4

LEMMA TipGoesOn ==
    ASSUME TipInv, T!Rendered, SendsGoOn, FewerRun, account' \in AccountRecords, account'.paid = account.paid,
           UNCHANGED <<page, guard, active, persisted, flow, tipz, seen, history>>
    PROVE  TipInv'
<1>1. PaidOnce /\ Earned
  BY DEF TipInv
<1>2. /\ TipTypes' /\ T!GuardAgrees' /\ Numbered' /\ OneUnsettled'
      /\ Waiting' /\ PagesAgree' /\ OneOnScreen'
  BY PageStays
<1>3. PaidOnce'
  BY <1>1, PaidStays
<1>4. Earned'
  BY <1>1 DEF Earned, Plain
<1> QED BY <1>2, <1>3, <1>4 DEF TipInv

LEMMA TipSent ==
    ASSUME TipInv, T!Rendered, NEW s \in DOMAIN sends, T!Build(s) \/ T!Broadcast(s) PROVE TipInv'
<1>1. TipTypes /\ Numbered
  BY DEF TipInv
<1>2. UNCHANGED <<page, guard, active, persisted, flow, tipz, seen, account, history>>
  BY DEF T!Build, T!Broadcast, T!guardVars
<1>3. PICK was \in SendRecords : was = sends[s]
  BY <1>1, SendIs
<1>4. T!Running(s) /\ sends[s].chain = "none" /\ T!Unsettled(s)
  BY <1>1 DEF T!Build, T!Broadcast, Numbered, T!Running, T!Unsettled
<1>5. PICK e \in SendRecords :
         /\ sends' = [sends EXCEPT ![s] = e] /\ e.draft = was.draft /\ e.mount = was.mount
         /\ e.pc \in {"signing", "polling"} /\ e.chain # "landed" /\ (e.pc = "signing" => e.chain = "none")
  <2>1. CASE T!Build(s)
    <3>1. PICK m \in Nat : m = account.landed + 1
      BY <1>1, TipFields
    <3>2. PICK e : e = [was EXCEPT !.pc = "signing", !.seq = m]
      OBVIOUS
    <3>3. e \in SendRecords /\ e.draft = was.draft /\ e.mount = was.mount /\ e.pc = "signing" /\ e.chain = was.chain
      BY <3>2 DEF SendRecords, Pcs
    <3>4. sends' = [sends EXCEPT ![s].pc = "signing", ![s].seq = m]
      BY <2>1, <3>1 DEF T!Build
    <3>5. sends' = [sends EXCEPT ![s] = e]
      BY <1>1, <1>3, <3>2, <3>4 DEF TipTypes
    <3> QED BY <1>3, <1>4, <3>3, <3>5
  <2>2. CASE T!Broadcast(s)
    <3>1. PICK e : e = [was EXCEPT !.pc = "polling", !.chain = "pending"]
      OBVIOUS
    <3>2. e \in SendRecords /\ e.draft = was.draft /\ e.mount = was.mount /\ e.pc = "polling" /\ e.chain = "pending"
      BY <3>1 DEF SendRecords, Pcs, Chains
    <3>3. sends' = [sends EXCEPT ![s].pc = "polling", ![s].chain = "pending"]
      BY <2>2 DEF T!Broadcast, T!OnChain
    <3>4. sends' = [sends EXCEPT ![s] = e]
      BY <1>1, <1>3, <3>1, <3>3 DEF TipTypes
    <3> QED BY <3>2, <3>4
  <2> QED BY <2>1, <2>2
<1>6. SendsGoOn /\ FewerRun
  <2>1. e.draft = sends[s].draft /\ e.mount = sends[s].mount
    BY <1>3, <1>5
  <2>2. ~Landed(s)
    BY <1>4 DEF Landed
  <2>3. e.pc \in {"queueing", "building", "signing"} => e.chain = "none"
    BY <1>5
  <2> QED BY <1>1, <1>2, <1>4, <1>5, <2>1, <2>2, <2>3, OneGoesFurther
<1>7. account' \in AccountRecords /\ account'.paid = account.paid
  BY <1>1, <1>2 DEF TipTypes
<1> QED BY <1>2, <1>6, <1>7, TipGoesOn

LEMMA AccountIs ==
    ASSUME NEW n \in Nat, NEW q \in Seq(Nat), NEW r, r = [landed |-> n, paid |-> q]
    PROVE  r \in AccountRecords /\ r.paid = q
BY DEF AccountRecords

\* The ledger closes with the transaction in it: its draft is paid, and was not paid before
\* unless it was retried blindly.
LEMMA TipPaid ==
    ASSUME TipInv, T!Rendered, NEW s \in DOMAIN sends, sends[s].chain = "pending", SendsGoOn,
           sends'[s].chain = "landed", \A t \in DOMAIN sends \ {s} : sends'[t] = sends[t],
           account' = [landed |-> account.landed + 1,
                       paid |-> IF sends[s].draft = 0 THEN account.paid
                                ELSE [account.paid EXCEPT ![sends[s].draft] = @ + 1]],
           UNCHANGED <<page, guard, active, persisted, flow, tipz, seen, history>>
    PROVE  TipInv'
<1>1. /\ TipTypes /\ Numbered /\ PaidOnce /\ Earned
  BY DEF TipInv
<1>2. PICK d \in Nat : d = sends[s].draft /\ d <= history.drafts
  BY <1>1, SendIs DEF Numbered
<1>3. PICK q \in Seq(Nat) : q = account.paid /\ Len(q) = history.drafts /\ DOMAIN q = 1 .. history.drafts
  <2>1. account.paid \in Seq(Nat) /\ Len(account.paid) = history.drafts
    BY <1>1, TipFields DEF Numbered
  <2> QED BY <2>1
<1>4. d # 0 => d \in DOMAIN q
  BY <1>1, <1>2, <1>3, TipFields
<1>5. PICK q2 \in Seq(Nat) :
         /\ q2 = (IF d = 0 THEN q ELSE [q EXCEPT ![d] = @ + 1]) /\ Len(q2) = Len(q) /\ DOMAIN q2 = DOMAIN q
         /\ \A i \in DOMAIN q : i # d => q2[i] = q[i]
         /\ d # 0 => q2[d] = q[d] + 1
  <2>1. CASE d = 0
    BY <1>3, <2>1
  <2>2. CASE d # 0
    <3>1. q[d] + 1 \in Nat
      BY <1>4, <2>2
    <3>2. PICK r : r = [q EXCEPT ![d] = q[d] + 1]
      OBVIOUS
    <3>3. /\ r \in Seq(Nat) /\ Len(r) = Len(q) /\ DOMAIN r = DOMAIN q /\ r[d] = q[d] + 1
          /\ \A i \in DOMAIN q : i # d => r[i] = q[i]
      BY <1>4, <2>2, <3>1, <3>2
    <3> QED BY <2>2, <3>2, <3>3
  <2> QED BY <2>1, <2>2
<1>6. account' \in AccountRecords /\ account'.paid = q2
  <2>1. PICK m \in Nat : m = account.landed
    BY <1>1, TipFields
  <2>2. account' = [landed |-> m + 1, paid |-> q2]
    BY <1>2, <1>3, <1>5, <2>1
  <2>3. m + 1 \in Nat /\ q2 \in Seq(Nat)
    BY <1>5, <2>1
  <2> QED BY <2>2, <2>3, AccountIs
<1>7. /\ TipTypes' /\ T!GuardAgrees' /\ Numbered' /\ OneUnsettled'
      /\ Waiting' /\ PagesAgree' /\ OneOnScreen'
  BY <1>3, <1>5, <1>6, PageStays
<1>8. /\ DOMAIN sends' = DOMAIN sends
      /\ \A t \in DOMAIN sends : sends'[t].draft = sends[t].draft /\ (Live(t)' => Live(t))
      /\ Landed(s)' /\ ~Landed(s) /\ Live(s)
      /\ \A t \in DOMAIN sends \ {s} : Landed(t)' <=> Landed(t)
  BY DEF SendsGoOn, Live, Landed, T!Unsettled
<1>9. d # 0 /\ d \notin history.blind => q[d] = 0
  <2>1. SUFFICES ASSUME d # 0, d \notin history.blind PROVE q[d] = 0
    OBVIOUS
  <2>2. \A t \in DOMAIN sends : sends[t].draft = d /\ Live(t) => t = s
    BY <1>1, <1>2, <1>3, <1>4, <1>8, <2>1 DEF PaidOnce
  <2>3. ~\E t \in DOMAIN sends : sends[t].draft = d /\ Landed(t)
    BY <1>8, <2>2 DEF Live
  <2> QED BY <1>1, <1>3, <1>4, <2>1, <2>3 DEF PaidOnce
<1>10. PaidOnce'
  <2>0. DOMAIN q2 = DOMAIN q /\ DOMAIN sends' = DOMAIN sends
    BY <1>5, <1>8
  <2>1. SUFFICES ASSUME NEW c \in DOMAIN q2
        PROVE  /\ c \notin history'.blind =>
                    /\ \A x, y \in DOMAIN sends' :
                          sends'[x].draft = c /\ sends'[y].draft = c /\ Live(x)' /\ Live(y)' => x = y
                    /\ \/ q2[c] = 0
                       \/ q2[c] = 1 /\ \E x \in DOMAIN sends' : sends'[x].draft = c /\ Landed(x)'
               /\ (\E x \in DOMAIN sends' : sends'[x].draft = c /\ Landed(x)') => q2[c] >= 1
    BY <1>6 DEF PaidOnce
  <2>2. ASSUME c \notin history.blind
        PROVE  \A x, y \in DOMAIN sends :
                  sends'[x].draft = c /\ sends'[y].draft = c /\ Live(x)' /\ Live(y)' => x = y
    BY <1>1, <1>3, <1>8, <2>0, <2>2 DEF PaidOnce
  <2>3. CASE c = d
    <3>1. d # 0 /\ q[d] \in Nat
      BY <1>1, <1>3, <2>0, <2>3, TipFields
    <3>2. q2[c] = q[d] + 1 /\ sends'[s].draft = c /\ Landed(s)' /\ s \in DOMAIN sends'
      BY <1>2, <1>5, <1>8, <2>0, <2>3, <3>1
    <3>3. q2[c] >= 1
      BY <3>1, <3>2
    <3>4. ASSUME c \notin history'.blind PROVE q2[c] = 1
      BY <1>6, <1>9, <2>3, <3>1, <3>2, <3>4
    <3>5. c \notin history'.blind => c \notin history.blind
      BY <1>6
    <3> QED BY <2>0, <2>2, <3>2, <3>3, <3>4, <3>5
  <2>4. CASE c # d
    <3>1. q2[c] = q[c]
      BY <1>5, <2>0, <2>4
    <3>2. (\E x \in DOMAIN sends : sends'[x].draft = c /\ Landed(x)')
             <=> \E x \in DOMAIN sends : sends[x].draft = c /\ Landed(x)
      BY <1>2, <1>8, <2>4
    <3>3. /\ c \notin history.blind =>
                q[c] = 0 \/ (q[c] = 1 /\ \E x \in DOMAIN sends : sends[x].draft = c /\ Landed(x))
          /\ (\E x \in DOMAIN sends : sends[x].draft = c /\ Landed(x)) => q[c] >= 1
      BY <1>1, <1>3, <2>0 DEF PaidOnce
    <3> QED BY <2>0, <2>2, <3>1, <3>2, <3>3
  <2> QED BY <2>3, <2>4
<1>11. Earned'
  <2>1. SUFFICES ASSUME Plain, flow.draft # 0, flow.step = "success" \/ tipz.due = "success"
        PROVE  q2[flow.draft] = 1
    BY <1>1, <1>6 DEF Earned, Plain
  <2>2. q[flow.draft] = 1 /\ history.blind = {}
    BY <1>1, <1>3, <2>1 DEF Earned, Plain
  <2>3. flow.draft # d
    BY <1>9, <2>1, <2>2
  <2>4. flow.draft \in DOMAIN q
    <3>1. PICK c \in Nat : c = flow.draft /\ c <= history.drafts /\ c # 0
      BY <1>1, <2>1, TipFields
    <3>2. history.drafts \in Nat
      BY <1>1, TipFields
    <3> QED BY <1>3, <3>1, <3>2
  <2> QED BY <1>5, <2>2, <2>3, <2>4
<1> QED BY <1>7, <1>10, <1>11 DEF TipInv

LEMMA TipLanded == ASSUME TipInv, T!Rendered, NEW s \in DOMAIN sends, T!Land(s) PROVE TipInv'
<1>1. TipTypes /\ Numbered
  BY DEF TipInv
<1>2. sends[s].chain = "pending" /\ UNCHANGED <<page, guard, active, persisted, flow, tipz, seen, history>>
  BY DEF T!Land, T!guardVars
<1>3. PICK was \in SendRecords : was = sends[s]
  BY <1>1, SendIs
<1>4. T!Unsettled(s) /\ ~Landed(s) /\ was.pc \notin {"queueing", "building", "signing"}
  BY <1>1, <1>2, <1>3 DEF Numbered, T!Unsettled, Landed
<1>5. ASSUME NEW far \in {"landed", "failed", "dropped"}, sends' = [sends EXCEPT ![s].chain = far]
      PROVE  /\ SendsGoOn /\ sends'[s].chain = far /\ \A t \in DOMAIN sends \ {s} : sends'[t] = sends[t]
             /\ far # "landed" => FewerRun
  <2>1. PICK e : e = [was EXCEPT !.chain = far]
    OBVIOUS
  <2>2. e \in SendRecords /\ e.draft = was.draft /\ e.mount = was.mount /\ e.pc = was.pc /\ e.chain = far
    BY <2>1 DEF SendRecords, Chains
  <2>3. sends' = [sends EXCEPT ![s] = e]
    BY <1>1, <1>3, <1>5, <2>1 DEF TipTypes
  <2>4. e.draft = sends[s].draft /\ e.mount = sends[s].mount /\ e.pc = sends[s].pc
    BY <1>3, <2>2
  <2>5. e.pc \notin {"queueing", "building", "signing"}
    BY <1>4, <2>2
  <2>6. page' = page
    BY <1>2
  <2>7. /\ SendsGoOn /\ sends'[s] = e /\ \A t \in DOMAIN sends \ {s} : sends'[t] = sends[t]
        /\ e.chain # "landed" /\ ~Landed(s) => FewerRun
    BY <1>1, <1>4, <2>2, <2>3, <2>4, <2>5, <2>6, OneGoesFurther
  <2> QED BY <1>4, <2>2, <2>7
<1>6. CASE /\ sends' = [sends EXCEPT ![s].chain = "landed"]
           /\ account' = [landed |-> account.landed + 1,
                          paid |-> IF sends[s].draft = 0 THEN account.paid
                                   ELSE [account.paid EXCEPT ![sends[s].draft] = @ + 1]]
  BY <1>2, <1>5, <1>6, TipPaid
<1>7. CASE sends' = [sends EXCEPT ![s].chain = "failed"] /\ account' = [account EXCEPT !.landed = @ + 1]
  <2>1. SendsGoOn /\ FewerRun
    BY <1>5, <1>7
  <2>2. PICK m \in Nat : m = account.landed + 1
    BY <1>1, TipFields
  <2>3. account' = [account EXCEPT !.landed = m]
    BY <1>1, <1>7, <2>2 DEF TipTypes, AccountRecords
  <2>4. account' \in AccountRecords /\ account'.paid = account.paid
    BY <1>1, <2>3 DEF TipTypes, AccountRecords
  <2> QED BY <1>2, <2>1, <2>4, TipGoesOn
<1>8. CASE sends' = [sends EXCEPT ![s].chain = "dropped"] /\ UNCHANGED account
  <2>1. SendsGoOn /\ FewerRun
    BY <1>5, <1>8
  <2>2. account' \in AccountRecords /\ account'.paid = account.paid
    BY <1>1, <1>8 DEF TipTypes
  <2> QED BY <1>2, <2>1, <2>2, TipGoesOn
<1> QED BY <1>6, <1>7, <1>8 DEF T!Land

LEMMA TipNextInv == ASSUME T!TipFlowAssumption, TipInv, [T!Next]_(T!vars) PROVE TipInv'
<1>1. CASE T!Render
  BY <1>1, TipRendered
<1>2. CASE seen.draft = flow.draft /\ T!ClickNext
  BY <1>2, TipConfirmed, TipRegistered DEF T!ClickNext
<1>3. CASE T!Rendered /\ T!UserNext
  BY <1>3, TipSubmitted, TipRetried, TipReset, TipFreed, TipLeft DEF T!UserNext
<1>4. CASE T!Rendered /\ T!PageNext
  BY <1>4, TipMoved, TipFreed DEF T!PageNext
<1>5. ASSUME T!Rendered, NEW s \in DOMAIN sends, T!SendNext(s) PROVE TipInv'
  BY <1>5, TipQueued, TipSent, TipAnswered, TipLanded DEF T!SendNext
<1>6. CASE UNCHANGED T!vars
  <2>1. UNCHANGED <<page, guard, active, persisted, flow, tipz, seen, sends, account, history>>
    BY <1>6 DEF T!vars
  <2>2. TipTypes' /\ T!GuardAgrees'
    BY <2>1 DEF TipInv, TipTypes, T!GuardAgrees
  <2>3. Numbered'
    BY <2>1 DEF TipInv, Numbered
  <2>4. PaidOnce'
    <3>1. PaidOnce
      BY DEF TipInv
    <3> QED BY <2>1, <3>1, SameSends DEF PaidOnce
  <2>5. OneUnsettled' /\ Waiting' /\ PagesAgree' /\ OneOnScreen' /\ Earned'
    BY <2>1, SameSends DEF TipInv, OneUnsettled, Calm, Waiting, Unsent, PagesAgree, OneOnScreen, Plain, Earned
  <2> QED BY <2>2, <2>3, <2>4, <2>5 DEF TipInv
<1> QED BY <1>1, <1>2, <1>3, <1>4, <1>5, <1>6 DEF T!Next, T!Quiet

LEMMA TipCardinality == ASSUME NEW s PROVE T!Cardinality(s) = Cardinality(s)
BY Zenon DEF T!Cardinality, Cardinality

LEMMA TipHolds ==
    ASSUME TipInv
    PROVE  /\ T!TypeOK /\ T!GuardAgrees /\ T!OneAtATime
           /\ T!PaidTwiceOnlyByBlindRetry /\ T!SuccessIsOfTheDraft
<1>1. /\ TipTypes /\ T!GuardAgrees /\ Numbered /\ PaidOnce /\ OneUnsettled /\ Earned
  BY DEF TipInv
<1>2. T!TypeOK
  <2>1. page \in [mount : Nat, kind : T!Kinds]
    BY <1>1 DEF TipTypes
  <2>2. guard \in [lock : BOOLEAN, entered : BOOLEAN, timer : BOOLEAN, restored : BOOLEAN,
                   status : {"idle", "pending", "success", "error"}]
    BY <1>1 DEF TipTypes, GuardRecords
  <2>3. active \in 0 .. 1 /\ persisted \in BOOLEAN /\ Len(sends) <= SendCount
    BY <1>1 DEF TipTypes
  <2>4. flow.step \in T!Steps /\ flow.draft \in 0 .. history.drafts /\ seen.step \in T!Steps
    BY <1>1, TipFields
  <2>5. tipz.status \in T!Statuses /\ tipz.due \in (T!Statuses \ {"idle"}) \cup {"none"}
    BY <1>1 DEF TipTypes, TipzRecords
  <2>6. \A s \in DOMAIN sends :
           /\ sends[s].pc \in {"queueing", "building", "signing", "polling", "settled", "gone"}
           /\ sends[s].chain \in {"none", "pending", "landed", "failed", "dropped"}
    BY <1>1, SendIs DEF Pcs, Chains
  <2>7. account.landed \in Nat
    BY <1>1, TipFields
  <2>8. history.causes \subseteq {"waited", "dismissed", "retried", "unanswered", "cancelled", "outrun"}
    BY <1>1, TipFields DEF Doubts
  <2> QED BY <2>1, <2>2, <2>3, <2>4, <2>5, <2>6, <2>7, <2>8 DEF T!TypeOK
<1>3. T!OneAtATime
  <2>1. SUFFICES ASSUME Calm PROVE T!Cardinality({s \in DOMAIN sends : T!Unsettled(s)}) <= 1
    BY DEF T!OneAtATime, Calm
  <2>2. PICK S : S = {s \in DOMAIN sends : T!Unsettled(s)}
    OBVIOUS
  <2>3. \A x, y \in S : x = y
    BY <1>1, <2>1, <2>2 DEF OneUnsettled
  <2>4. Cardinality(S) <= 1
    <3>1. CASE S = {}
      <4>1. Cardinality(S) = 0
        BY <3>1, FS_EmptySet
      <4> QED BY <4>1
    <3>2. CASE S # {}
      <4>1. PICK x : S = {x}
        BY <2>3, <3>2
      <4>2. Cardinality(S) = 1
        BY <4>1, FS_Singleton
      <4> QED BY <4>2
    <3> QED BY <3>1, <3>2
  <2> QED BY <2>2, <2>4, TipCardinality
<1>4. T!PaidTwiceOnlyByBlindRetry
  <2>1. SUFFICES ASSUME NEW d \in DOMAIN account.paid, account.paid[d] > 1, d \notin history.blind PROVE FALSE
    BY DEF T!PaidTwiceOnlyByBlindRetry
  <2>2. account.paid[d] = 0 \/ account.paid[d] = 1
    BY <1>1, <2>1 DEF PaidOnce
  <2> QED BY <2>1, <2>2
<1>5. T!SuccessIsOfTheDraft
  BY <1>1 DEF T!SuccessIsOfTheDraft, Earned, Plain
<1> QED BY <1>1, <1>2, <1>3, <1>4, <1>5

-----------------------------------------------------------------------------
(* The tab as a whole: each component begins as its module says and goes on as its module says.  *)

LEMMA OneGoesOn ==
    ASSUME [Next]_vars
    PROVE  /\ focus' = focus
           /\ focus = "tip" => [T!Next]_(T!vars)
           /\ focus = "wallet" => [W!Next]_(W!vars)
           /\ focus = "draft" => [D!Next]_(D!vars)
           /\ focus = "dashboard" => [B!Next]_(B!vars)
           /\ focus = "board" => [L!Next]_(L!vars)
           /\ focus = "profile" => [O!Next]_(O!vars)
           /\ focus = "name" => [N!Next]_(N!vars)
<1>1. CASE TipNext
  BY <1>1 DEF TipNext, InTip
<1>2. CASE WalletNext
  BY <1>2 DEF WalletNext, InWallet
<1>3. CASE DraftNext
  BY <1>3 DEF DraftNext, InDraft
<1>4. CASE DashboardNext
  BY <1>4 DEF DashboardNext, InDashboard
<1>5. CASE BoardNext
  BY <1>5 DEF BoardNext, InBoard
<1>6. CASE ProfileNext
  BY <1>6 DEF ProfileNext, InProfile
<1>7. CASE NameNext
  BY <1>7 DEF NameNext, InName
<1>8. CASE UNCHANGED vars
  <2>1. /\ UNCHANGED <<focus, budget, stored>>
        /\ UNCHANGED tipVars /\ UNCHANGED walletVars /\ UNCHANGED draftVars /\ UNCHANGED dashVars
        /\ UNCHANGED boardVars /\ UNCHANGED ownVars /\ UNCHANGED nameVars
    BY <1>8 DEF vars
  <2>2. [T!Next]_(T!vars)
    BY <2>1 DEF tipVars, T!vars
  <2>3. [W!Next]_(W!vars)
    BY <2>1 DEF walletVars, W!vars
  <2>4. [D!Next]_(D!vars)
    BY <2>1 DEF draftVars, D!vars
  <2>5. [B!Next]_(B!vars)
    BY <2>1 DEF dashVars, B!vars
  <2>6. [L!Next]_(L!vars)
    BY <2>1 DEF boardVars, L!vars, L!pageVars
  <2>7. [O!Next]_(O!vars)
    BY <2>1 DEF ownVars, O!vars, O!storeVars
  <2>8. [N!Next]_(N!vars)
    BY <2>1 DEF nameVars, N!vars, N!shownVars
  <2> QED BY <2>1, <2>2, <2>3, <2>4, <2>5, <2>6, <2>7, <2>8
<1> QED BY <1>1, <1>2, <1>3, <1>4, <1>5, <1>6, <1>7, <1>8 DEF Next

LEMMA Begins ==
    ASSUME Init
    PROVE  /\ focus = "tip" => T!Init
           /\ focus = "wallet" => W!Init
           /\ focus = "draft" => D!Init
           /\ focus = "dashboard" => B!Init
           /\ focus = "board" => L!Init
           /\ focus = "profile" => O!Init
           /\ focus = "name" => N!Init
BY Zenon DEF Init

\* For any texts, wallets, pages, networks and names, and whatever is edited, switched, dropped or
\* answered late: a form's text is the draft of the next visit (useFormAutosave.ts:197-252), the
\* dashboard shows the wallet selected and no more than the contract holds
\* (useDashboard.ts:53-163), the leaderboard shows the network selected and never goes back
\* (useLeaderboard.ts:72-150, cache.ts:33-155), the hooks of the profile agree
\* (useProfile.ts:37-64), and a verdict is about the name in the field
\* (useUsernameCheck.ts:20-96); each but for the causes its property names.
THEOREM ScreensAreSafe == Spec => []ScreensSafe
<1> DEFINE I == /\ focus = "draft" => DraftInv
                /\ focus = "dashboard" => DashInv
                /\ focus = "board" => BoardInv
                /\ focus = "profile" => OwnInv
                /\ focus = "name" => NameInv
<1>0. /\ D!DraftsAssumption /\ B!DashboardAssumption /\ L!BoardAssumption
      /\ O!OwnProfileAssumption /\ N!NameCheckAssumption
  BY Assumptions
<1>1. Init => I
  <2> SUFFICES ASSUME Init PROVE I
    OBVIOUS
  <2>1. focus = "draft" => DraftInv
    BY <1>0, Begins, DraftInitInv
  <2>2. focus = "dashboard" => DashInv
    BY <1>0, Begins, DashInitInv
  <2>3. focus = "board" => BoardInv
    BY <1>0, Begins, BoardOrderInit, BoardScreenInit DEF BoardInv
  <2>4. focus = "profile" => OwnInv
    BY <1>0, Begins, OwnInitInv
  <2>5. focus = "name" => NameInv
    BY <1>0, Begins, NameInitInv
  <2> QED BY <2>1, <2>2, <2>3, <2>4, <2>5
<1>2. I /\ [Next]_vars => I'
  <2> SUFFICES ASSUME I, [Next]_vars PROVE I'
    OBVIOUS
  <2>1. ASSUME focus = "draft" PROVE DraftInv'
    BY <1>0, <2>1, OneGoesOn, DraftNextInv
  <2>2. ASSUME focus = "dashboard" PROVE DashInv'
    BY <1>0, <2>2, OneGoesOn, DashNextInv
  <2>3. ASSUME focus = "board" PROVE BoardInv'
    BY <1>0, <2>3, OneGoesOn, BoardNextInv
  <2>4. ASSUME focus = "profile" PROVE OwnInv'
    BY <1>0, <2>4, OneGoesOn, OwnNextInv
  <2>5. ASSUME focus = "name" PROVE NameInv'
    BY <1>0, <2>5, OneGoesOn, NameNextInv
  <2> QED BY <2>1, <2>2, <2>3, <2>4, <2>5, OneGoesOn
<1>3. I => ScreensSafe
  <2> SUFFICES ASSUME I PROVE ScreensSafe
    OBVIOUS
  <2>1. focus = "draft" => D!TypeOK /\ D!NothingTypedIsLost
    BY DEF DraftInv
  <2>2. focus = "dashboard" => B!TypeOK /\ B!ShownIsSelected /\ B!NeverOverstated
    BY DashHolds
  <2>3. focus = "board" => L!TypeOK /\ L!OneNetwork /\ L!NeverGoesBack /\ L!OneRead
    BY <1>0, BoardHolds
  <2>4. focus = "profile" => /\ O!TypeOK /\ O!ShownIsOwn /\ O!LoaderStandsForAFetch
                             /\ O!HooksAgree /\ O!EditorIsRegistered
    BY OwnHolds
  <2>5. focus = "name" => /\ N!TypeOK /\ N!VerdictIsOfTheName
                          /\ N!KnownTakenIsNotSubmitted /\ N!RememberedWasTrue
    BY NameHolds
  <2> QED BY <2>1, <2>2, <2>3, <2>4, <2>5 DEF ScreensSafe
<1> HIDE DEF I
<1> QED BY <1>1, <1>2, <1>3, PTL DEF Spec
\* For any budget of disturbances: the lock, what it shows and the count of active transactions
\* agree, transactions overlap only after the guard timed out, was dismissed or bypassed, or an
\* answer was lost (useTransactionGuard.ts:100-277), a draft is paid twice only when it was retried
\* with an earlier attempt unsettled, and the success shown is that of the draft on screen unless
\* another attempt could settle under it (TipPage.tsx:149-180,355-366,482).
THEOREM TipFlowIsSafe == Spec => []TipFlowSafe
<1> DEFINE I == focus = "tip" => TipInv
<1>0. T!TipFlowAssumption
  BY Assumptions
<1>1. Init => I
  BY <1>0, Begins, TipInitInv
<1>2. I /\ [Next]_vars => I'
  <2> SUFFICES ASSUME I, [Next]_vars PROVE I'
    OBVIOUS
  <2>1. ASSUME focus = "tip" PROVE TipInv'
    BY <1>0, <2>1, OneGoesOn, TipNextInv
  <2> QED BY <2>1, OneGoesOn
<1>3. I => TipFlowSafe
  BY TipHolds DEF TipFlowSafe
<1> HIDE DEF I
<1> QED BY <1>1, <1>2, <1>3, PTL DEF Spec

\* For any applications, keys and time-outs: whatever is connected, switched, dropped, reloaded or
\* answered late, the wallet store agrees with itself and offers no reconnection to nothing
\* (walletStore.ts:86-158), the kit signs with the active wallet but for the causes named
\* (useWallet.ts:197-283), and nobody is signed out unwarned (useSessionTimeout.ts:36-108).
THEOREM WalletIsSafe == Spec => []WalletSafe
<1> DEFINE I == focus = "wallet" => WalletInv
<1>0. W!WalletAssumption
  BY Assumptions
<1>1. Init => I
  BY <1>0, Begins, WalletInitInv
<1>2. I /\ [Next]_vars => I'
  <2> SUFFICES ASSUME I, [Next]_vars PROVE I'
    OBVIOUS
  <2>1. ASSUME focus = "wallet" PROVE WalletInv'
    BY <1>0, <2>1, OneGoesOn, WalletNextInv
  <2> QED BY <2>1, OneGoesOn
<1>3. I => WalletSafe
  BY <1>0, WalletHolds DEF WalletSafe
<1> HIDE DEF I
<1> QED BY <1>1, <1>2, <1>3, PTL DEF Spec

=============================================================================
