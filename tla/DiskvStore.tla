----------------------------- MODULE DiskvStore -----------------------------
(***************************************************************************)
(* What the file functions of diskv promise, whatever files they use for   *)
(* it: a filePut takes effect in one step or not at all, and not at all if *)
(* it returns an error; a fileReplaceShard takes keys out of its shard,    *)
(* all of them unless the removal fails, and then puts each key of its map *)
(* once, or gives it up; the end of the process, by a crash or an error,   *)
(* changes nothing that is stored.  DiskvFiles implements this.            *)
(***************************************************************************)
CONSTANTS Shards, Keys, Contents, Missing, None

VARIABLES
    store,  \* shard -> key -> content
    op,     \* what runs: "none", "put", or a replacement's "clear" and "fill"
    shard,  \* the shard it works on
    left,   \* key -> the content it has yet to put
    status  \* of the process: "up", "down"

vars == <<store, op, shard, left, status>>

Map   == [Keys -> Contents \cup {Missing}]
Empty == [k \in Keys |-> Missing]

Init ==
    /\ store = [s \in Shards |-> Empty]
    /\ op = "none" /\ shard = None /\ left = Empty
    /\ status = "up"

Put(s, k, v) ==
    /\ op = "none" /\ status = "up"
    /\ op' = "put" /\ shard' = s /\ left' = [Empty EXCEPT ![k] = v]
    /\ UNCHANGED <<store, status>>

Replace(s, m) ==
    /\ op = "none" /\ status = "up"
    /\ op' = "clear" /\ shard' = s /\ left' = m
    /\ UNCHANGED <<store, status>>

Clear(k) ==
    /\ op = "clear"
    /\ store' = [store EXCEPT ![shard][k] = Missing]
    /\ UNCHANGED <<op, shard, left, status>>

\* The removal is over, though it may have failed half way.
Cleared ==
    /\ op = "clear"
    /\ op' = "fill"
    /\ UNCHANGED <<store, shard, left, status>>

\* The one step in which a filePut takes effect.
Write(k) ==
    /\ op \in {"put", "fill"} /\ left[k] # Missing
    /\ store' = [store EXCEPT ![shard][k] = left[k]]
    /\ left' = [left EXCEPT ![k] = Missing]
    /\ UNCHANGED <<op, shard, status>>

\* A filePut returns an error: it had no effect.  A replacement goes on.
Fail(k) ==
    /\ op \in {"put", "fill"} /\ left[k] # Missing
    /\ left' = [left EXCEPT ![k] = Missing]
    /\ op' = IF op = "put" THEN "none" ELSE op
    /\ shard' = IF op = "put" THEN None ELSE shard
    /\ UNCHANGED <<store, status>>

Return ==
    /\ op \in {"put", "fill"} /\ left = Empty
    /\ op' = "none" /\ shard' = None
    /\ UNCHANGED <<store, left, status>>

Crash ==
    /\ status = "up"
    /\ status' = "down" /\ op' = "none" /\ shard' = None /\ left' = Empty
    /\ UNCHANGED store

DiskLost ==
    /\ status = "down"
    /\ store' = [s \in Shards |-> Empty]
    /\ UNCHANGED <<op, shard, left, status>>

Restart ==
    /\ status = "down"
    /\ status' = "up"
    /\ UNCHANGED <<store, op, shard, left>>

Next ==
    \/ \E s \in Shards, k \in Keys, v \in Contents : Put(s, k, v)
    \/ \E s \in Shards, m \in Map : Replace(s, m)
    \/ \E k \in Keys : Clear(k) \/ Write(k) \/ Fail(k)
    \/ Cleared \/ Return \/ Crash \/ DiskLost \/ Restart

Spec == Init /\ [][Next]_vars
=============================================================================
