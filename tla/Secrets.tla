------------------------------ MODULE Secrets ------------------------------
(***************************************************************************)
(* Secrets: the API key of an integration (apiKeys.service.ts).  It is     *)
(* rotated by a read and a write, keeps the secret it replaces for a grace *)
(* period, expires, and may be deleted.                                    *)
(***************************************************************************)
EXTENDS Integers, FiniteSets

CONSTANTS
    Rotations,   \* rotation requests under way at a time
    Grace,       \* gracePeriodMinutes
    Life,        \* when an API key expires
    Budgets      \* what a behaviour may use up: [ticks, rotations]

\* What the constants may be; MCBackend assumes it of its instance.
SecretsAssumption ==
    /\ Grace \in Nat \ {0} /\ Life \in Nat
    /\ \A b \in Budgets : {b.ticks, b.rotations} \subseteq Nat

VARIABLES
    clock,
    key,       \* the row: [current, previous, graceUntil, deleted]
    issued,    \* how many secrets were generated; secrets are numbered
    rotation,  \* each request: [pc, seen], seen is the current secret as it was read
    history,   \* [overlap, answered, replaced, until]: whether two rotations read the same secret,
               \* the secret last returned, and the one it replaced with the end of its grace
    budget

vars == <<clock, key, issued, rotation, history, budget>>

Spend(what) == budget[what] > 0 /\ budget' = [budget EXCEPT ![what] = @ - 1]
Idle == [pc |-> "idle", seen |-> 0]

\* expiresAt has passed.
Expired == clock >= Life

\* rotateApiKey, first await.
ReadKey(r) ==
    /\ rotation[r].pc = "idle" /\ ~key.deleted /\ Spend("rotations")
    /\ rotation' = [rotation EXCEPT ![r] = [pc |-> "write", seen |-> key.current]]
    /\ history' = [history EXCEPT !.overlap = @ \/ \E o \in Rotations : rotation[o].pc = "write"]
    /\ UNCHANGED <<clock, key, issued>>

\* As if the secret that is replaced were dropped.
RotatedDropping(seen, new) == [key EXCEPT !.current = new, !.previous = 0, !.graceUntil = clock + Grace]

\* The row after a rotation.
Rotated(seen, new) == [key EXCEPT !.current = new, !.previous = seen, !.graceUntil = clock + Grace]

\* Its second: the new secret, with the one that was read as the previous one.
WriteKey(r) ==
    /\ rotation[r].pc = "write"
    /\ issued' = issued + 1
    /\ key' = Rotated(rotation[r].seen, issued')
    /\ history' = [history EXCEPT !.answered = issued', !.replaced = rotation[r].seen,
                                  !.until = clock + Grace]
    /\ rotation' = [rotation EXCEPT ![r] = Idle]
    /\ UNCHANGED <<clock, budget>>

\* deleteApiKey.
Delete ==
    /\ ~key.deleted
    /\ key' = [key EXCEPT !.deleted = TRUE]
    /\ UNCHANGED <<clock, issued, rotation, history, budget>>

\* As if the grace of the previous secret never ended.
VerifiesForever(s) ==
    ~key.deleted /\ ~Expired /\ (key.current = s \/ key.previous = s)

\* verifyApiKey.
Verifies(s) ==
    ~key.deleted /\ ~Expired /\ (key.current = s \/ (key.previous = s /\ clock < key.graceUntil))

Tick ==
    /\ Spend("ticks")
    /\ clock' = clock + 1
    /\ UNCHANGED <<key, issued, rotation, history>>

Quiet == UNCHANGED vars

-----------------------------------------------------------------------------
\* createApiKey answers with the first secret.
Init ==
    /\ clock = 0
    /\ key = [current |-> 1, previous |-> 0, graceUntil |-> 0, deleted |-> FALSE]
    /\ issued = 1
    /\ rotation = [r \in Rotations |-> Idle]
    /\ history = [overlap |-> FALSE, answered |-> 1, replaced |-> 0, until |-> 0]
    /\ budget \in Budgets

Next ==
    \/ Delete \/ Tick \/ Quiet
    \/ \E r \in Rotations : ReadKey(r) \/ WriteKey(r)

Spec == Init /\ [][Next]_vars

-----------------------------------------------------------------------------
(* Properties. *)

TypeOK ==
    /\ clock \in Nat /\ issued \in Nat \ {0}
    /\ key.current \in 1..issued /\ key.previous \in 0..issued
    /\ \A r \in Rotations : rotation[r].pc \in {"idle", "write"} /\ rotation[r].seen \in 0..issued

\* The secret last returned works while the key lives, and so does the one it replaced until the
\* end of its grace, unless two rotations crossed: then the secret returned to the first works no
\* more, and no grace was promised to it (apiKeys.service.ts:117-143).
RotationIsGraceful ==
    ~key.deleted /\ ~Expired /\ ~history.overlap =>
        /\ Verifies(history.answered)
        /\ history.replaced # 0 /\ clock < history.until => Verifies(history.replaced)

\* At most two secrets work at a time, one after the grace, and none of a deleted key.
OldSecretsDie ==
    LET valid == {s \in 1..issued : Verifies(s)} IN
    /\ Cardinality(valid) <= IF clock < key.graceUntil THEN 2 ELSE 1
    /\ key.deleted => valid = {}

=============================================================================
