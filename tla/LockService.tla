----------------------------- MODULE LockService -----------------------------
(***************************************************************************)
(* RpcServer with its handlers: the lock table of lockservice/server.go in *)
(* the lock server, and the empty handlers of the other labs.  The clerk   *)
(* (lockservice/client.go) asks the primary alone, so there is one server; *)
(* Clerk.Unlock makes no call, so that a lock is never released.           *)
(***************************************************************************)
EXTENDS RpcServer

CONSTANT Names  \* of locks

Nothing == "nothing"

ASSUME NamesAssumption == Nothing \notin Names

VARIABLES
    locks,    \* the names that are locked
    name,     \* call -> the lock it asks for
    inside,   \* the calls whose handler Lock holds ls.mu
    locked,   \* call -> what its handler read from the table
    granted   \* call -> OK in the reply of its handler

lockVars == <<locks, name, inside, locked, granted>>
vars     == <<rpcVars, lockVars>>

InitLocks ==
    /\ Init
    /\ locks = {}
    /\ name = [c \in Calls |-> Nothing]
    /\ inside = {}
    /\ locked = [c \in Calls |-> FALSE]
    /\ granted = [c \in Calls |-> FALSE]

\* Clerk.Lock(n), up to the dial.
AskLock(c, n) ==
    /\ kind = LockServer
    /\ Dial(c)
    /\ name' = [name EXCEPT ![c] = n]
    /\ UNCHANGED <<locks, inside, locked, granted>>

AskOther(c) == kind # LockServer /\ Dial(c) /\ UNCHANGED lockVars

\* (A possible bug: the table is read without ls.mu.)
ReadUnlocked(c) ==
    /\ kind = LockServer /\ Runs(c)
    /\ c \notin inside
    /\ inside' = inside \cup {c}
    /\ locked' = [locked EXCEPT ![c] = name[c] \in locks]
    /\ UNCHANGED <<rpcVars, locks, name, granted>>

(***************************************************************************)
(* The handler Lock: it takes ls.mu and reads the table; then it writes,   *)
(* lets ls.mu go and returns.                                              *)
(***************************************************************************)
ReadTable(c) ==
    /\ kind = LockServer /\ Runs(c)
    /\ inside = {}
    /\ inside' = {c}
    /\ locked' = [locked EXCEPT ![c] = name[c] \in locks]
    /\ UNCHANGED <<rpcVars, locks, name, granted>>

Lock(c) ==
    /\ c \in inside
    /\ Run(c)
    /\ inside' = inside \ {c}
    /\ granted' = [granted EXCEPT ![c] = ~locked[c]]
    /\ locks' = IF locked[c] THEN locks ELSE locks \cup {name[c]}
    /\ UNCHANGED <<name, locked>>

HandleOther(c) == kind # LockServer /\ Run(c) /\ UNCHANGED lockVars

\* The timer takes longer than a handler.
Surroundings ==
    /\ Background
    /\ cur \in inside => timer' = timer
    /\ UNCHANGED lockVars

NextLocks ==
    \/ Surroundings
    \/ \E c \in Calls : \/ AskOther(c) \/ ReadTable(c) \/ Lock(c) \/ HandleOther(c)
                        \/ \E n \in Names : AskLock(c, n)

SpecLocks == InitLocks /\ [][NextLocks]_vars

\* Goroutines run on; nobody has to call or to kill.  A timer fires.
FairSpec ==
    /\ SpecLocks
    /\ WF_vars(Loop /\ UNCHANGED lockVars)
    /\ WF_vars(Killing /\ UNCHANGED lockVars)
    /\ WF_vars(TimerFires /\ cur \notin inside /\ UNCHANGED lockVars)
    /\ WF_vars(TickerEnds /\ UNCHANGED lockVars)
    /\ \A c \in Calls : /\ WF_vars(Caller(c) /\ UNCHANGED lockVars)
                        /\ WF_vars(ReadTable(c) \/ Lock(c) \/ HandleOther(c))

-----------------------------------------------------------------------------
\* The shape of the state.
LockTypeOK ==
    /\ TypeOK
    /\ locks \subseteq Names
    /\ name \in [Calls -> Names \cup {Nothing}]
    /\ inside \subseteq Calls
    /\ locked \in [Calls -> BOOLEAN] /\ granted \in [Calls -> BOOLEAN]

\* A lock is granted once and is in the table from then on, so that two clerks
\* never hold it both: whatever handlers read and write in between, in whatever
\* order, and with kills and lost replies.
OneGrant ==
    \A c \in Calls : granted[c] =>
        /\ name[c] \in locks
        /\ \A d \in Calls : granted[d] /\ name[d] = name[c] => d = c

\* A lock without an owner comes of a dying server only, and of one request:
\* closing the listener first keeps a second one from being lost.
LostGrants == {c \in Calls : granted[c] /\ client[c] = "false"}

OneLostGrant == Cardinality(LostGrants) <= 1 /\ (LostGrants # {} => dying)
=============================================================================
