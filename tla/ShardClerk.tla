----------------------------- MODULE ShardClerk -----------------------------
(***************************************************************************)
(* The clerks of the sharded service: a shardkv.Clerk that several         *)
(* goroutines share (shardkv/client.go; diskv/client.go is the same but    *)
(* for names), with the shardmaster.Clerk it asks for configurations, and  *)
(* an administrator with a shardmaster.Clerk of its own                    *)
(* (shardmaster/client.go).  A call() is what RpcCall says.  The handlers  *)
(* behind it are empty in this repository: what they answer is external,   *)
(* any reply the clerks know, each deviation from a correct one, like each *)
(* lost call, being a fault of which there are finitely many.              *)
(***************************************************************************)
EXTENDS Naturals, Sequences

LOCAL INSTANCE Functions

CONSTANTS
    None,
    Threads,    \* goroutines that share the clerk, with one operation each
    Admin,      \* the administrator
    op,         \* thread -> its operation: [name, key]
    NShards,
    Configs,    \* the sequence of configurations from #0 on: [shards, groups]
    Masters,    \* the ports of the shardmasters
    Dead,       \* servers that never answer
    Slots,      \* bound: {1, ..., n}, calls that are open or left behind
    MaxFaults   \* bound: lost calls and wrong replies

Callers == Threads \cup {Admin}

ASSUME ClerkAssumption ==
    /\ Admin \notin Threads /\ None \notin Callers
    /\ NShards \in Nat \ {0} /\ MaxFaults \in Nat /\ Slots \subseteq Nat \ {0}
    /\ Len(Configs) \in Nat \ {0}
    /\ DOMAIN op = Threads
    /\ \A p \in Threads : op[p].name \in {"Get", "PutAppend"} /\ op[p].key \in Seq(0..255)

VARIABLES
    call,     \* slot -> where the call stands (RpcCall)
    msg,      \* slot -> the request
    reply,    \* slot -> the reply of its handler
    pc, idx,  \* caller -> where it is, and in the list of servers
    servers,  \* thread -> the servers of its shard's group
    slot,     \* caller -> its call
    holder,   \* of ck.mu
    config,   \* ck.config, by its number
    latest,   \* the number of the newest configuration at the masters
    changes,  \* changes of the configuration the administrator saw through
    faults,
    served,   \* history: thread -> runs of its operation that succeeded, up to 2,
    lost,     \* threads of which a call to a live server failed,
    mark      \* thread -> the newest configuration when its last round ended

rpcVars   == <<call, msg, reply>>
clerkVars == <<pc, idx, servers, slot, holder, config>>
history   == <<served, lost, mark>>
vars      == <<rpcVars, clerkVars, latest, changes, faults, history>>

Rpc == INSTANCE RpcCall WITH Calls <- Slots

\* A call of RpcCall ends and is forgotten: its slot is idle again.
Over(s, from) == Rpc!Move(s, from, "idle")

NoMsg   == [from |-> None, srv |-> None, what |-> None, n |-> 0]
NoReply == [err |-> None, config |-> 0]
NoSlot  == 0

Init ==
    /\ Rpc!Init
    /\ msg = [s \in Slots |-> NoMsg] /\ reply = [s \in Slots |-> NoReply]
    /\ pc = [p \in Callers |-> "idle"] /\ idx = [p \in Callers |-> 1]
    /\ servers = [p \in Threads |-> <<>>] /\ slot = [p \in Callers |-> NoSlot]
    /\ holder = None /\ config = 0
    /\ latest = 0 /\ changes = 0 /\ faults = 0
    /\ served = [p \in Threads |-> 0] /\ lost = {}
    /\ mark = [p \in Threads |-> 0]

\* Configurations are numbered from 0, sequences from 1.
Config(n) == Configs[n + 1]

key2shard(key) == (IF key = <<>> THEN 0 ELSE key[1]) % NShards

Gid(n, p) == Config(n).shards[key2shard(op[p].key)]

Goto(p, at)  == pc' = [pc EXCEPT ![p] = at]
Server(p, i) == idx' = [idx EXCEPT ![p] = i]

-----------------------------------------------------------------------------
(***************************************************************************)
(* Calls and handlers.                                                     *)
(***************************************************************************)
FreeSlots == {s \in Slots : call[s] \in Rpc!Free}

\* call() begins, in the first free slot, to the server the loop is at.
OpenCall(p, list, what, n) ==
    /\ idx[p] <= Len(list)
    /\ \E s \in FreeSlots :
         /\ \A t \in FreeSlots : s <= t
         /\ Rpc!Open(s)
         /\ msg' = [msg EXCEPT ![s] =
                       [from |-> p, srv |-> list[idx[p]], what |-> what, n |-> n]]
         /\ slot' = [slot EXCEPT ![p] = s]
    /\ UNCHANGED reply

CallTrue(p) ==
    /\ Over(slot[p], {"ran"})
    /\ msg' = [msg EXCEPT ![slot[p]] = NoMsg]
    /\ reply' = [reply EXCEPT ![slot[p]] = NoReply]
    /\ slot' = [slot EXCEPT ![p] = NoSlot]

\* The request or the reply is lost, or the request left behind.
CallFalse(p) ==
    LET s == slot[p]
        free == msg[s].srv \in Dead
    IN  /\ free \/ faults < MaxFaults
        /\ faults' = IF free THEN faults ELSE faults + 1
        /\ reply' = [reply EXCEPT ![s] = NoReply]
        /\ slot' = [slot EXCEPT ![p] = NoSlot]
        /\ \/ Over(s, {"open", "ran"}) /\ msg' = [msg EXCEPT ![s] = NoMsg]
           \/ ~free /\ Rpc!Leave(s) /\ UNCHANGED msg

Success(p) == IF op[p].name = "Get" THEN {"OK", "ErrNoKey"} ELSE {"OK"}

\* The servers of the shard's group in a configuration, none without a group.
Group(n, p) == IF Gid(n, p) \in DOMAIN Config(n).groups THEN Config(n).groups[Gid(n, p)]
                                                         ELSE <<>>

(***************************************************************************)
(* External.  A server of the group that has the shard serves the request, *)
(* any other one refuses it; a faulty or lagging one does anything else.   *)
(***************************************************************************)
Right(p, srv) == IF srv \in Range(Group(latest, p)) THEN Success(p) ELSE {"ErrWrongGroup"}

\* A late reply reaches nobody.
Replies(s, r) == reply' = [reply EXCEPT ![s] = IF call[s] = "left" THEN NoReply ELSE r]

HandleOp(s) ==
    LET p == msg[s].from
        right == Right(p, msg[s].srv)
    IN  /\ msg[s].what = "op"
        /\ \E err \in Success(p) \cup {"ErrWrongGroup", "other"} :
             /\ err \in right \/ faults < MaxFaults
             /\ faults' = IF err \in right THEN faults ELSE faults + 1
             /\ Replies(s, [NoReply EXCEPT !.err = err])
             /\ served' = IF err \in Success(p) THEN [served EXCEPT ![p] = IF @ < 2 THEN @ + 1 ELSE @]
                                                ELSE served
        /\ UNCHANGED latest

\* Masters agree, and a change asked for twice is made once.
HandleQuery(s) ==
    /\ msg[s].what = "query"
    /\ Replies(s, [NoReply EXCEPT !.config = latest])
    /\ UNCHANGED <<latest, faults, served>>

HandleChange(s) ==
    /\ msg[s].what = "change"
    /\ latest' = IF msg[s].n = latest + 1 THEN msg[s].n ELSE latest
    /\ UNCHANGED <<reply, faults, served>>

Handle(s) == /\ msg[s].srv \notin Dead
             /\ HandleOp(s) \/ HandleQuery(s) \/ HandleChange(s)
             /\ UNCHANGED <<clerkVars, changes, lost, mark>>

Run(s) == Rpc!Run(s) /\ Handle(s) /\ UNCHANGED msg

\* A request left behind runs when its caller has gone on.
RunLate(s) == Over(s, {"left"}) /\ Handle(s) /\ msg' = [msg EXCEPT ![s] = NoMsg]

-----------------------------------------------------------------------------
(***************************************************************************)
(* Get and PutAppend.                                                      *)
(***************************************************************************)
Begin(p) ==
    /\ pc[p] = "idle"
    /\ Goto(p, "mutex")
    /\ UNCHANGED <<rpcVars, idx, servers, slot, holder, config, latest, changes,
                   faults, history>>

\* (A possible bug: no mutex.)
LockNothing(p) ==
    /\ pc[p] = "mutex"
    /\ holder' = p
    /\ Goto(p, "round")
    /\ UNCHANGED <<rpcVars, idx, servers, slot, config, latest, changes, faults,
                   history>>

LockMu(p) ==
    /\ pc[p] = "mutex" /\ holder = None
    /\ holder' = p
    /\ Goto(p, "round")
    /\ UNCHANGED <<rpcVars, idx, servers, slot, config, latest, changes, faults,
                   history>>

\* ck.config is read; without a group the list of servers is empty.
Round(p) ==
    /\ pc[p] = "round"
    /\ servers' = [servers EXCEPT ![p] = Group(config, p)]
    /\ Server(p, 1)
    /\ Goto(p, "call")
    /\ UNCHANGED <<rpcVars, slot, holder, config, latest, changes, faults, history>>

OutOfScope(p) == servers' = [servers EXCEPT ![p] = <<>>] /\ Server(p, 1)

\* (A possible bug: the loop goes on with the configuration it has.)
EndRoundUnasked(p) ==
    /\ Goto(p, "round")
    /\ OutOfScope(p)
    /\ mark' = [mark EXCEPT ![p] = latest]

\* The sleep, and on to ck.sm.Query(-1).
EndRound(p) ==
    /\ Goto(p, "query")
    /\ OutOfScope(p)
    /\ mark' = [mark EXCEPT ![p] = latest]

NoServerLeft(p) ==
    /\ pc[p] = "call" /\ idx[p] > Len(servers[p])
    /\ EndRound(p)
    /\ UNCHANGED <<rpcVars, slot, holder, config, latest, changes, faults,
                   served, lost>>

CallServer(p) ==
    /\ pc[p] = "call"
    /\ OpenCall(p, servers[p], "op", 0)
    /\ Goto(p, "wait")
    /\ UNCHANGED <<idx, servers, holder, config, latest, changes, faults, history>>

NextServer(p) == Server(p, idx[p] + 1) /\ Goto(p, "call")

Unlock(p) == Goto(p, "done") /\ holder' = None /\ OutOfScope(p) /\ UNCHANGED mark

\* (A possible bug: Get goes on after ErrNoKey.)
AcceptedOK(p) == {"OK"}

\* (A possible bug: anything but ErrWrongGroup is taken for success.)
AcceptedAny(p) == {"OK", "ErrNoKey", "other"}

Accepted(p) == IF op[p].name = "Get" THEN {"OK", "ErrNoKey"} ELSE {"OK"}

ServerAnswers(p) ==
    /\ pc[p] = "wait"
    /\ CallTrue(p)
    /\ CASE reply[slot[p]].err \in Accepted(p)    -> Unlock(p)
         [] reply[slot[p]].err = "ErrWrongGroup" -> EndRound(p) /\ UNCHANGED holder
         [] OTHER -> NextServer(p) /\ UNCHANGED <<servers, holder, mark>>
    /\ UNCHANGED <<config, latest, changes, faults, served, lost>>

ServerFails(p) ==
    /\ pc[p] = "wait"
    /\ CallFalse(p)
    /\ NextServer(p)
    /\ lost' = IF msg[slot[p]].srv \in Dead THEN lost ELSE lost \cup {p}
    /\ UNCHANGED <<servers, holder, config, latest, changes, served, mark>>

-----------------------------------------------------------------------------
(***************************************************************************)
(* shardmaster.Clerk: Query for a thread; Join, Leave or Move, whichever   *)
(* makes the next configuration, for the administrator.                    *)
(***************************************************************************)
Change ==
    /\ pc[Admin] = "idle" /\ changes + 1 < Len(Configs)
    /\ Goto(Admin, "query")
    /\ Server(Admin, 1)
    /\ UNCHANGED <<rpcVars, servers, slot, holder, config, latest, changes, faults,
                   history>>

CallMaster(p) ==
    /\ pc[p] = "query"
    /\ IF p = Admin THEN OpenCall(p, Masters, "change", changes + 1)
                    ELSE OpenCall(p, Masters, "query", 0)
    /\ Goto(p, "qwait")
    /\ UNCHANGED <<idx, servers, holder, config, latest, changes, faults, history>>

MasterAnswers(p) ==
    /\ pc[p] = "qwait"
    /\ CallTrue(p)
    /\ IF p = Admin THEN changes' = changes + 1 /\ Goto(p, "idle") /\ UNCHANGED config
                    ELSE config' = reply[slot[p]].config /\ Goto(p, "round") /\ UNCHANGED changes
    /\ Server(p, 1)
    /\ UNCHANGED <<servers, holder, latest, faults, history>>

MasterFails(p) ==
    /\ pc[p] = "qwait"
    /\ CallFalse(p)
    /\ Server(p, idx[p] + 1)
    /\ Goto(p, "query")
    /\ UNCHANGED <<servers, holder, config, latest, changes, history>>

\* The sleep, and from the first server on.
NoMasterLeft(p) ==
    /\ pc[p] = "query" /\ idx[p] > Len(Masters)
    /\ Server(p, 1)
    /\ UNCHANGED <<rpcVars, pc, servers, slot, holder, config, latest, changes, faults,
                   history>>

Ask(p) == CallMaster(p) \/ MasterAnswers(p) \/ MasterFails(p) \/ NoMasterLeft(p)

Thread(p) == \/ LockMu(p) \/ Round(p) \/ NoServerLeft(p) \/ CallServer(p)
             \/ ServerAnswers(p) \/ ServerFails(p) \/ Ask(p)

Next == \/ Change \/ Ask(Admin)
        \/ \E p \in Threads : Begin(p) \/ Thread(p)
        \/ \E s \in Slots : Run(s) \/ RunLate(s)

Spec == Init /\ [][Next]_vars

\* Nobody has to call.  Who did goes on, and a live server handles its requests,
\* those that were left behind excepted.
FairSpec ==
    /\ Spec
    /\ \A p \in Threads : WF_vars(Thread(p))
    /\ WF_vars(Ask(Admin))
    /\ \A s \in Slots : WF_vars(Run(s))

-----------------------------------------------------------------------------
Errs    == {None, "OK", "ErrNoKey", "ErrWrongGroup", "other"}
Numbers == 0..(Len(Configs) - 1)
InLoop  == {"round", "call", "wait", "query", "qwait"}

\* The shape of the state: a call is open exactly for who waits for one, and the
\* mutex is held exactly by who is in the loop.
TypeOK ==
    /\ Rpc!TypeOK /\ DOMAIN msg = Slots
    /\ reply \in [Slots -> [err : Errs, config : Numbers]]
    /\ pc \in [Callers -> {"idle", "mutex", "done"} \cup InLoop]
    /\ idx \in [Callers -> Nat] /\ slot \in [Callers -> Slots \cup {NoSlot}]
    /\ \A p \in Callers : pc[p] \in {"wait", "qwait"} <=>
           slot[p] # NoSlot /\ call[slot[p]] \in {"open", "ran"} /\ msg[slot[p]].from = p
    /\ holder \in Threads \cup {None}
    /\ \A p \in Threads : holder = p <=> pc[p] \in InLoop
    /\ config \in Numbers /\ latest \in Numbers /\ changes \in Numbers
    /\ faults \in 0..MaxFaults
    /\ served \in [Threads -> 0..2] /\ lost \subseteq Threads /\ mark \in [Threads -> Numbers]

\* Get and PutAppend return only after a server accepted the operation; Join,
\* Leave and Move only after the masters have made the configuration.
ReturnedMeansRun ==
    /\ \A p \in Threads : pc[p] = "done" => served[p] >= 1
    /\ changes <= latest

\* An operation is served twice only after a call of it to a live server failed:
\* without lost replies a Put or an Append has its effect once, although the
\* servers know no operation numbers.
OnceUnlessLost == \A p \in Threads : served[p] > 1 => p \in lost

\* The clerk that goroutines share never goes back to an older configuration:
\* the mutex is held across the Query, whose answers could overtake each other.
ConfigNeverBackward == [][config' >= config]_vars

\* With its mutex, retries, lost and late calls and refreshes the clerk is a
\* serial, at-least-once service, and exactly-once while no call is lost.
Seen(at) == CASE at = "idle" -> "idle" [] at = "mutex" -> "waiting" [] at = "done" -> "done"
              [] OTHER -> "running"
Ops == INSTANCE ShardOps WITH
    state <- [p \in Threads |-> Seen(pc[p])],
    Last  <- Len(Configs) - 1
ImplementsOps == Ops!Spec

\* After a round that failed, the next one uses a configuration at least as new
\* as the newest one when it failed: no group is asked again out of ignorance.
FreshRounds ==
    \A p \in Threads : pc[p] \in {"round", "call", "wait"} => config >= mark[p]

\* An operation begun when there is a configuration ends, once faults do, though
\* servers are dead and the other goroutine is served first; and so do changes.
EveryOpReturns ==
    /\ \A p \in Threads : pc[p] = "mutex" /\ latest > 0 ~> pc[p] = "done"
    /\ pc[Admin] = "query" ~> pc[Admin] = "idle"
=============================================================================
