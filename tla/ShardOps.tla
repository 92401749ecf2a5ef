------------------------------ MODULE ShardOps ------------------------------
(***************************************************************************)
(* What a clerk of the sharded service promises, whatever it retries: the  *)
(* operations of the goroutines that share it run one after the other; an  *)
(* operation returns only when it was served, and is served again, or      *)
(* later, only if a call of it was lost; the configuration it knows is one *)
(* the masters made and never an older one than before; and a change of    *)
(* the configuration is made once before it returns.  ShardClerk           *)
(* implements this.                                                        *)
(***************************************************************************)
EXTENDS Naturals

CONSTANTS Threads,
          Last  \* bound: the number of the last configuration

VARIABLES
    state,   \* thread -> "idle", "waiting", "running" or "done"
    served,  \* thread -> how often its operation was served, up to 2
    lost,    \* threads of which a call was lost
    config,  \* the configuration the clerk knows
    latest,  \* the newest configuration
    changes  \* changes that returned

vars == <<state, served, lost, config, latest, changes>>

Init ==
    /\ state = [p \in Threads |-> "idle"]
    /\ served = [p \in Threads |-> 0] /\ lost = {}
    /\ config = 0 /\ latest = 0 /\ changes = 0

Moves(p, from, to) == state[p] = from /\ state' = [state EXCEPT ![p] = to]

Call(p) == Moves(p, "idle", "waiting") /\ UNCHANGED <<served, lost, config, latest, changes>>

Enter(p) ==
    /\ \A q \in Threads : state[q] # "running"
    /\ Moves(p, "waiting", "running")
    /\ UNCHANGED <<served, lost, config, latest, changes>>

\* While it runs, or later by a request that was lost.
Serve(p) ==
    /\ p \in lost \/ (state[p] = "running" /\ served[p] = 0)
    /\ served' = [served EXCEPT ![p] = IF @ < 2 THEN @ + 1 ELSE @]
    /\ UNCHANGED <<state, lost, config, latest, changes>>

Lose(p) ==
    /\ state[p] = "running"
    /\ lost' = lost \cup {p}
    /\ UNCHANGED <<state, served, config, latest, changes>>

Learn(p) ==
    /\ state[p] = "running"
    /\ config' \in config..latest
    /\ UNCHANGED <<state, served, lost, latest, changes>>

Return(p) ==
    /\ served[p] > 0
    /\ Moves(p, "running", "done")
    /\ UNCHANGED <<served, lost, config, latest, changes>>

Change ==
    /\ latest = changes /\ latest < Last
    /\ latest' = latest + 1
    /\ UNCHANGED <<state, served, lost, config, changes>>

ChangeReturns ==
    /\ changes < latest
    /\ changes' = changes + 1
    /\ UNCHANGED <<state, served, lost, config, latest>>

Next ==
    \/ \E p \in Threads : \/ Call(p) \/ Enter(p) \/ Serve(p) \/ Lose(p)
                          \/ Learn(p) \/ Return(p)
    \/ Change \/ ChangeReturns

Spec == Init /\ [][Next]_vars
=============================================================================
