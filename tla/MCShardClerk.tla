---------------------------- MODULE MCShardClerk ----------------------------
\* Two goroutines and the administrator; one server of g1 and a master are dead.
EXTENDS ShardClerk

MCThreads == {"t1", "t2"}
MCop == [t1 |-> [name |-> "Get", key |-> <<>>], t2 |-> [name |-> "PutAppend", key |-> <<101>>]]

Group1 == <<"dead1", "s1">>
Group2 == <<"s2">>

MCConfigs == <<
    [shards |-> [s \in 0..1 |-> 0], groups |-> [g \in {} |-> <<>>]],
    [shards |-> [s \in 0..1 |-> 1], groups |-> [g \in {1} |-> Group1]],
    [shards |-> [s \in 0..1 |-> s + 1], groups |-> [g \in {1, 2} |-> IF g = 1 THEN Group1 ELSE Group2]]>>

MCMasters == <<"dead2", "m">>
MCDead == {"dead1", "dead2"}
=============================================================================
