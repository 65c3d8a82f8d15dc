-------------------------- MODULE RefundLifecycle --------------------------
(***************************************************************************)
(* What the refund mechanism promises about each tip, whatever the index,  *)
(* the sweeps and the expiry of storage entries do: a tip is asked back,   *)
(* answered once, and an answer is final.                                  *)
(***************************************************************************)
CONSTANT Tips

VARIABLE stage   \* per tip, how far its refund has come

Stages == {"unsent", "open", "pending", "paid", "rejected", "closed"}

\* "open" may be asked for; "closed" is past asking and was never paid.
Moves ==
  { <<"unsent", "open">>,
    <<"open", "pending">>, <<"open", "closed">>,
    <<"pending", "paid">>, <<"pending", "rejected">>,
    <<"pending", "open">>, <<"pending", "closed">>,
    <<"rejected", "closed">> }

Init == stage = [t \in Tips |-> "unsent"]

\* One invocation, or one ledger close, may move several tips.
Next ==
  /\ stage' \in [Tips -> Stages]
  /\ \A t \in Tips : stage'[t] = stage[t] \/ <<stage[t], stage'[t]>> \in Moves

Spec == Init /\ [][Next]_stage
=============================================================================
