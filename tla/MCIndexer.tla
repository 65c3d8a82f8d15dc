------------------------------ MODULE MCIndexer ------------------------------
EXTENDS Indexer

\* t2 and c2 are in the versioned form, which the decoders do not accept.
MCEvents == {"t1", "t2", "r1", "gs", "gr", "gc", "c1", "c2"}
MCTopic == [e \in MCEvents |->
    CASE e \in {"t1", "t2"} -> "tip" [] e = "r1" -> "refund"
      [] e = "gs" -> "goal_set" [] e = "gr" -> "goal_reached" [] e = "gc" -> "goal_cancel"
      [] e \in {"c1", "c2"} -> "credit"]
MCReadable == MCEvents \ {"t2", "c2"}
MCRefundOf == [e \in {"r1"} |-> "t1"]

Scene(events, ledgers, pageSize, reorgs, failures, backfills) ==
    [events |-> events, ledgers |-> ledgers, pageSize |-> pageSize, reorgs |-> reorgs,
     failures |-> failures, backfills |-> backfills]

\* Forks beside a backfill; forks and failures; two forks; a backfill and failures; goals and
\* scores with failures; more final events than the pages of a tick hold.
MCScenarios == {
    Scene({"t1", "r1"}, 3, 2, 1, 0, 1),
    Scene({"t1", "r1"}, 3, 2, 1, 1, 0),
    Scene({"t1", "t2"}, 3, 1, 2, 0, 0),
    Scene({"t1", "r1"}, 3, 1, 0, 2, 1),
    Scene({"gs", "gr", "gc"}, 4, 2, 0, 2, 0),
    Scene({"gs", "c1", "c2"}, 4, 2, 0, 2, 0),
    Scene({"t1", "t2", "r1"}, 4, 1, 0, 1, 0)}
=============================================================================
