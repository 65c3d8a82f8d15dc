------------------------------ MODULE NameCheck ------------------------------
(* The username of the registration form and its check (useUsernameCheck):    *)
(* what is typed is debounced, looked up on the contract and remembered for    *)
(* the life of the form, and the form is submitted on the verdict             *)
(* (RegisterForm).  The other fields, and the guard of the transaction, are   *)
(* left out.                                                                  *)
EXTENDS Integers, SequencesExt

CONSTANTS Names, Valid,   \* what may be typed, and what of it passes the local validation
          Blank,
          Networks,
          Registries,     \* the names that may be registered on each network at first
          Budgets         \* how often each event may happen

None == "none"
Free == "free"
Taken == "taken"

NameCheckAssumption ==
    /\ Valid \subseteq Names /\ Blank \in Names \ Valid
    /\ Registries \subseteq [Networks -> SUBSET Valid]
    /\ Budgets \subseteq [edits : Nat, moves : Nat, claims : Nat, faults : Nat]

VARIABLES typed,        \* the field
          armed,        \* whether the debounce timer runs
          debounced,    \* debouncedUsername
          verdict,      \* available
          checking,
          problem,      \* the error shown
          known,        \* the cache of verdicts
          checks,       \* the lookups under way
          selected,     \* the network selected
          taken,        \* the names registered on each network
          causes,       \* why a verdict may be off: late, returned, changed, moved
          budget

shownVars == <<verdict, checking, problem>>
vars == <<typed, armed, debounced, shownVars, known, checks, selected, taken, causes, budget>>

Spend(what) == budget[what] > 0 /\ budget' = [budget EXCEPT ![what] = @ - 1]

Of(name, net) == IF name \in taken[net] THEN Taken ELSE Free

TypeOK ==
    /\ {typed, debounced} \subseteq Names
    /\ {armed, checking, problem} \subseteq BOOLEAN
    /\ known \in [Names -> {None, Free, Taken}] /\ verdict \in {None, Free, Taken}
    /\ \A i \in DOMAIN checks :
          checks[i].name \in Valid /\ checks[i].on \in Networks /\ checks[i].answer \in {None, Free, Taken}
    /\ selected \in Networks
    /\ \A n \in Networks : taken[n] \subseteq Valid
    /\ causes \subseteq {"late", "returned", "changed", "moved"}

\* The form opens: the empty name is debounced too, and changes nothing
Init ==
    /\ typed = Blank /\ armed = TRUE /\ debounced = Blank
    /\ verdict = None /\ checking = FALSE /\ problem = FALSE
    /\ known = [n \in Names |-> None] /\ checks = <<>>
    /\ selected \in Networks
    /\ taken \in Registries
    /\ causes = {}
    /\ budget \in Budgets

\* The verdict and the error go with the name they were about; what is looked up goes on
\* (useUsernameCheck.ts:20-33)
Type(name) ==
    /\ name # typed
    /\ Spend("edits")
    /\ typed' = name /\ armed' = TRUE
    /\ verdict' = None /\ problem' = FALSE
    /\ causes' = IF name = debounced THEN causes \cup {"returned"} ELSE causes \ {"returned"}
    /\ UNCHANGED <<debounced, checking, known, checks, selected, taken>>

\* The effect on the debounced name, which a change of the network runs again: a name that is
\* not valid is not looked up, and one remembered not again (useUsernameCheck.ts:36-58)
Check(name, net) ==
    IF name \notin Valid
    THEN /\ verdict' = None /\ checking' = FALSE /\ problem' = FALSE
         /\ UNCHANGED checks
    ELSE IF known[name] # None
    THEN /\ verdict' = known[name]
         /\ UNCHANGED <<checking, problem, checks>>
    ELSE /\ checking' = TRUE /\ problem' = FALSE
         /\ checks' = Append(checks, [name |-> name, on |-> net, answer |-> None])
         /\ UNCHANGED verdict

\* The name has stood for half a second: it is checked, unless it is the one debounced before,
\* for then no state changes and no effect runs (useUsernameCheck.ts:20-26)
Debounce ==
    /\ armed
    /\ armed' = FALSE
    /\ debounced' = typed
    /\ IF typed = debounced THEN UNCHANGED <<shownVars, checks, causes>>
       ELSE Check(typed, selected) /\ causes' = causes \ {"late", "returned"}
    /\ UNCHANGED <<typed, known, selected, taken, budget>>

\* Another wallet, or another network: the lookup is another function, and the effect runs again
\* with what is remembered of the network before (useUsernameCheck.ts:18,36,98,
\* useContract.ts:168-176)
Reconnect(net) ==
    /\ Spend("moves")
    /\ selected' = net
    /\ Check(debounced, net)
    /\ causes' = IF net # selected THEN causes \cup {"moved"} ELSE causes
    /\ UNCHANGED <<typed, armed, debounced, known, taken>>

-----------------------------------------------------------------------------

\* The node answers
Read(i) ==
    /\ checks[i].answer = None
    /\ checks' = [checks EXCEPT ![i].answer = Of(checks[i].name, checks[i].on)]
    /\ UNCHANGED <<typed, armed, debounced, shownVars, known, selected, taken, causes, budget>>

\* As if what was learnt were about the name debounced when the answer comes.
LearnsDebounced(check) == debounced

\* The name an answer is remembered for
Learns(check) == check.name

Overtaken(check) == check.name # debounced

\* The verdict is shown and remembered, whatever is typed by then (useUsernameCheck.ts:60-66,76-78)
Arrive(i) ==
    /\ checks[i].answer # None
    /\ known' = [known EXCEPT ![Learns(checks[i])] = checks[i].answer]
    /\ verdict' = checks[i].answer /\ checking' = FALSE
    /\ causes' = IF Overtaken(checks[i]) THEN causes \cup {"late"} ELSE causes \ {"late"}
    /\ checks' = RemoveAt(checks, i)
    /\ UNCHANGED <<typed, armed, debounced, problem, selected, taken, budget>>

\* Anything but "not found" shows an error and is not remembered (useUsernameCheck.ts:79-91)
Fail(i) ==
    /\ Spend("faults")
    /\ verdict' = None /\ problem' = TRUE /\ checking' = FALSE
    /\ checks' = RemoveAt(checks, i)
    /\ UNCHANGED <<typed, armed, debounced, known, selected, taken, causes>>

\* The check of the form before it submits: the local validation, and no verdict against the
\* name nor one awaited (RegisterForm.tsx:38-52,199-206,437-441)
MaySubmit == typed \in Valid /\ ~checking /\ verdict # Taken

\* The name is registered, by this form or by somebody else: the contract takes it when it is
\* free, and refuses it otherwise
Claim(name, net) ==
    /\ name \notin taken[net]
    /\ taken' = [taken EXCEPT ![net] = @ \cup {name}]
    /\ causes' = causes \cup {"changed"}

Submit ==
    /\ MaySubmit
    /\ Spend("claims")
    /\ Claim(typed, selected)
    /\ UNCHANGED <<typed, armed, debounced, shownVars, known, checks, selected>>

OtherClaims(name, net) ==
    /\ Spend("claims")
    /\ Claim(name, net)
    /\ UNCHANGED <<typed, armed, debounced, shownVars, known, checks, selected>>

Quiet == UNCHANGED vars

Answered == \E i \in DOMAIN checks : Read(i) \/ Arrive(i)
Next ==
    \/ \E name \in Names : Type(name)
    \/ \E name \in Valid, net \in Networks : OtherClaims(name, net)
    \/ Debounce \/ Submit
    \/ \E net \in Networks : Reconnect(net)
    \/ Answered
    \/ \E i \in DOMAIN checks : Fail(i)
    \/ Quiet

Spec == Init /\ [][Next]_vars /\ WF_vars(Debounce) /\ WF_vars(Answered)

-----------------------------------------------------------------------------

\* The verdict on a name that stands is the contract's, unless the answer about another name
\* came last, somebody registered a name since, the network changed under what is remembered, or
\* the name was typed back before its half second (useUsernameCheck.ts:28-96).
VerdictIsOfTheName ==
    ~armed /\ checks = <<>> /\ causes = {} /\ ~problem =>
        verdict = IF typed \in Valid THEN Of(typed, selected) ELSE None

\* A name the form was told is taken is not submitted, but for the same causes, or within the
\* half second (RegisterForm.tsx:47-52: "Username is already taken").
KnownTakenIsNotSubmitted ==
    known[typed] = Taken /\ MaySubmit =>
        armed \/ causes # {} \/ problem \/ \E i \in DOMAIN checks : Overtaken(checks[i])

\* What is remembered of a name was once the contract's word on it, so a name is taken for good
\* on a network where it was taken (useUsernameCheck.ts:63,77).
RememberedWasTrue == \A n \in Names : known[n] = Taken => \E net \in Networks : n \in taken[net]

\* A valid name that stands is judged in the end, if only by an error, unless it was typed back
\* to (useUsernameCheck.ts:20-33).
Judged == typed \in Valid => verdict # None \/ problem \/ "returned" \in causes
=============================================================================
