------------------------------ MODULE RpcServer ------------------------------
(***************************************************************************)
(* The servers of the labs around their handlers: the goroutine that       *)
(* accepts connections, its unreliable mode, kill(), and the goroutine     *)
(* that calls tick().  The loops differ in few things, which a kind names. *)
(* Callers are call(): dial, send one request, wait, close.                *)
(***************************************************************************)
EXTENDS Naturals, FiniteSets

CONSTANTS Calls,     \* the calls of a run, each with its connection
          Kinds,     \* the kinds of server to look at
          MaxErrors  \* bound: errors of Accept while the listener is open

Nobody == "nobody"

(***************************************************************************)
(* counts: counts the requests it serves.  unreliable: may drop requests   *)
(* and replies.  dying: has the DeafConn mode of the lock server.          *)
(* stopsOnError: kills itself when Accept fails.  ticks: has a ticker.     *)
(* peer: has a paxos peer, which kill() stops as well.                     *)
(***************************************************************************)
Flag == {"counts", "unreliable", "dying", "stopsOnError", "ticks", "peer"}
With(flags) == [f \in Flag |-> f \in flags]

PaxosPeer         == With({"counts", "unreliable"})
ViewServiceServer == With({"counts", "stopsOnError", "ticks"})
PBServer          == With({"unreliable", "stopsOnError", "ticks"})
KVPaxosServer     == With({"unreliable", "stopsOnError", "peer"})
ShardMasterServer == With({"unreliable", "stopsOnError", "peer"})
ShardKVServer     == With({"unreliable", "stopsOnError", "ticks", "peer"})
DisKVServer       == With({"unreliable", "stopsOnError", "ticks", "peer"})
LockServer        == With({"dying", "stopsOnError"})

AllKinds == {PaxosPeer, ViewServiceServer, PBServer, KVPaxosServer, ShardMasterServer,
             ShardKVServer, DisKVServer, LockServer}

ASSUME KindsAssumption == Kinds \subseteq AllKinds /\ MaxErrors \in Nat

VARIABLES
    kind,
    unreliable, dying,  \* the modes that tests switch on
    dead, listening,
    killing,   \* where kill() is: "no", "close", "peer", "done"
    peerDead,  \* the paxos peer is stopped
    ticking,   \* the ticker's goroutine runs
    loop,      \* where the accept loop is
    cur,       \* the call whose connection the loop holds
    timer,     \* the two-second timer of the dying server runs
    errors,    \* errors of Accept so far
    rpcCount,
    client,    \* call -> where call() is
    conn,      \* call -> its connection at the server
    req,       \* call -> "none", "sent", "ran": the handler ran
    doomed     \* calls dialled when the server was dead

modeVars == <<kind, unreliable, dying>>
stopVars == <<dead, listening, killing, peerDead, ticking>>
loopVars == <<loop, cur, timer, errors, rpcCount>>
callVars == <<client, conn, req, doomed>>
rpcVars  == <<modeVars, stopVars, loopVars, callVars>>

Init ==
    /\ kind \in Kinds
    /\ unreliable = FALSE /\ dying = FALSE
    /\ dead = FALSE /\ listening = TRUE /\ killing = "no" /\ peerDead = FALSE
    /\ ticking = kind["ticks"]
    /\ loop = "test" /\ cur = Nobody /\ timer = FALSE /\ errors = 0 /\ rpcCount = 0
    /\ client = [c \in Calls |-> "idle"]
    /\ conn = [c \in Calls |-> "none"]
    /\ req = [c \in Calls |-> "none"]
    /\ doomed = {}

-----------------------------------------------------------------------------
(***************************************************************************)
(* call().                                                                 *)
(***************************************************************************)
Returns(c, result) == client' = [client EXCEPT ![c] = result]

\* A dial succeeds while the listener is open, whether it is accepted or not.
Dial(c) ==
    /\ client[c] = "idle"
    /\ IF listening
         THEN /\ client' = [client EXCEPT ![c] = "dialled"]
              /\ conn' = [conn EXCEPT ![c] = "backlog"]
         ELSE Returns(c, "false") /\ UNCHANGED conn
    /\ doomed' = IF dead THEN doomed \cup {c} ELSE doomed
    /\ UNCHANGED <<modeVars, stopVars, loopVars, req>>

Send(c) ==
    /\ client[c] = "dialled" /\ conn[c] # "closed"
    /\ client' = [client EXCEPT ![c] = "waits"]
    /\ req' = [req EXCEPT ![c] = "sent"]
    /\ UNCHANGED <<modeVars, stopVars, loopVars, conn, doomed>>

\* The reply arrived.
CallReturns(c) ==
    /\ client[c] = "waits" /\ conn[c] = "served" /\ req[c] = "ran"
    /\ Returns(c, "true")
    /\ UNCHANGED <<modeVars, stopVars, loopVars, conn, req, doomed>>

\* (A possible bug: an error of Call is taken for an answer.)
ErrorIgnored(c) ==
    /\ client[c] \in {"dialled", "waits"} /\ conn[c] \in {"closed", "mute"}
    /\ Returns(c, "true")
    /\ UNCHANGED <<modeVars, stopVars, loopVars, conn, req, doomed>>

\* The connection is closed, or the server's side of it is shut for writing:
\* the client reads its end and does not wait for the handler.
CallFails(c) ==
    /\ client[c] \in {"dialled", "waits"} /\ conn[c] \in {"closed", "mute"}
    /\ Returns(c, "false")
    /\ UNCHANGED <<modeVars, stopVars, loopVars, conn, req, doomed>>

-----------------------------------------------------------------------------
(***************************************************************************)
(* The accept loop.                                                        *)
(***************************************************************************)
\* for isdead() == false.  A loop that kills the server runs kill() first.
Test ==
    /\ loop = "test" \/ (loop = "kills" /\ killing = "done")
    /\ loop' = IF dead THEN "ended" ELSE "accept"
    /\ UNCHANGED <<modeVars, stopVars, cur, timer, errors, rpcCount, callVars>>

Accept ==
    /\ loop = "accept"
    /\ \E c \in Calls :
         /\ conn[c] = "backlog"
         /\ cur' = c
         /\ conn' = [conn EXCEPT ![c] = "held"]
    /\ loop' = "got"
    /\ UNCHANGED <<modeVars, stopVars, timer, errors, rpcCount, client, req, doomed>>

AcceptClosed ==
    /\ loop = "accept" /\ ~listening
    /\ loop' = "error"
    /\ UNCHANGED <<modeVars, stopVars, cur, timer, errors, rpcCount, callVars>>

\* Accept fails with the listener open: no file descriptor is left, say.
AcceptError ==
    /\ loop = "accept" /\ listening /\ errors < MaxErrors
    /\ errors' = errors + 1
    /\ loop' = "error"
    /\ UNCHANGED <<modeVars, stopVars, cur, timer, rpcCount, callVars>>

\* What becomes of the connection the loop holds.
Becomes(state) ==
    /\ conn' = [conn EXCEPT ![cur] = state]
    /\ cur' = Nobody
    /\ loop' = "test"
    /\ UNCHANGED <<modeVars, stopVars, timer, errors, client, req, doomed>>

Count == rpcCount' = IF kind["counts"] THEN rpcCount + 1 ELSE rpcCount

\* (A possible bug: isdead() is not asked again after Accept.)
RefuseNobody == loop = "got" /\ dead /\ Becomes("served") /\ Count

Refuse == loop = "got" /\ dead /\ Becomes("closed") /\ UNCHANGED rpcCount

\* (A possible bug: the request is discarded and its connection kept.)
DiscardOpen == loop = "got" /\ ~dead /\ unreliable /\ Becomes("held") /\ UNCHANGED rpcCount

Discard == loop = "got" /\ ~dead /\ unreliable /\ Becomes("closed") /\ UNCHANGED rpcCount

\* The reply is discarded: shutdown(SHUT_WR), then ServeConn.
ServeMute == loop = "got" /\ ~dead /\ unreliable /\ Becomes("mute") /\ Count

Serve == loop = "got" /\ ~dead /\ ~dying /\ Becomes("served") /\ Count

(***************************************************************************)
(* The dying lock server: it starts a timer, closes the listener, serves   *)
(* the connection in the loop's own goroutine through a DeafConn, which    *)
(* drops what is written, and is dead when the connection is closed.       *)
(***************************************************************************)
StartTimer ==
    /\ loop = "got" /\ ~dead /\ dying
    /\ timer' = TRUE
    /\ loop' = "hush"
    /\ UNCHANGED <<modeVars, stopVars, cur, errors, rpcCount, callVars>>

\* Closing the listener resets the connections nobody accepted.
Reset(keep) == [c \in Calls |-> IF conn[c] = "backlog" THEN "closed" ELSE keep[c]]

\* (A possible bug: the shutdown trick of the other servers in place of DeafConn.)
CloseAndShut ==
    /\ loop = "hush"
    /\ listening' = FALSE
    /\ conn' = Reset(IF conn[cur] = "closed" THEN conn ELSE [conn EXCEPT ![cur] = "mute"])
    /\ loop' = "deaf"
    /\ UNCHANGED <<modeVars, dead, killing, peerDead, ticking, cur, timer, errors,
                   rpcCount, client, req, doomed>>

\* (A possible bug: the deaf connection gets a goroutine and the loop goes on.)
KeepListening ==
    /\ loop = "hush"
    /\ conn' = [conn EXCEPT ![cur] = IF @ = "closed" THEN @ ELSE "deaf"]
    /\ loop' = "test"
    /\ UNCHANGED <<modeVars, stopVars, cur, timer, errors, rpcCount, client, req, doomed>>

\* ls.l.Close(), then ServeConn(deaf_conn).
CloseAndListen ==
    /\ loop = "hush"
    /\ listening' = FALSE
    /\ conn' = Reset(IF conn[cur] = "closed" THEN conn ELSE [conn EXCEPT ![cur] = "deaf"])
    /\ loop' = "deaf"
    /\ UNCHANGED <<modeVars, dead, killing, peerDead, ticking, cur, timer, errors,
                   rpcCount, client, req, doomed>>

\* conn.Close().  A request that was read by then has been handled: two
\* seconds are long for a handler.
TimerFires ==
    /\ timer
    /\ timer' = FALSE
    /\ conn' = [conn EXCEPT ![cur] = "closed"]
    /\ UNCHANGED <<modeVars, stopVars, loop, cur, errors, rpcCount, client, req, doomed>>

\* ServeConn returns when the timer closed the connection: ls.dead = true.
DeafEnds ==
    /\ loop = "deaf" /\ conn[cur] = "closed"
    /\ dead' = TRUE
    /\ loop' = "test"
    /\ UNCHANGED <<modeVars, listening, killing, peerDead, ticking, cur, timer, errors,
                   rpcCount, callVars>>

-----------------------------------------------------------------------------
(***************************************************************************)
(* kill(): dead, then the listener, then the paxos peer.  A test calls it, *)
(* or the loop does.                                                       *)
(***************************************************************************)
StartKill ==
    /\ dead' = TRUE
    /\ killing' = IF killing = "no" THEN "close" ELSE killing
    /\ UNCHANGED <<listening, peerDead, ticking>>

Kill ==
    /\ killing = "no"
    /\ StartKill
    /\ UNCHANGED <<modeVars, loopVars, callVars>>

\* (A possible bug: the loop ends and leaves the rest of the server as it is.)
LoopErrorEnds ==
    /\ loop = "error"
    /\ loop' = IF ~dead /\ kind["stopsOnError"] THEN "ended" ELSE "test"
    /\ UNCHANGED <<modeVars, stopVars, cur, timer, errors, rpcCount, callVars>>

\* The loop after an error of Accept.
LoopError ==
    /\ loop = "error"
    /\ IF ~dead /\ kind["stopsOnError"]
         THEN loop' = "kills" /\ StartKill
         ELSE loop' = "test" /\ UNCHANGED stopVars
    /\ UNCHANGED <<modeVars, cur, timer, errors, rpcCount, callVars>>

\* (A possible bug: the listener stays open.)
LeaveListener ==
    /\ killing = "close"
    /\ killing' = IF kind["peer"] THEN "peer" ELSE "done"
    /\ UNCHANGED <<modeVars, dead, listening, peerDead, ticking, loopVars, callVars>>

CloseListener ==
    /\ killing = "close"
    /\ listening' = FALSE
    /\ conn' = Reset(conn)
    /\ killing' = IF kind["peer"] THEN "peer" ELSE "done"
    /\ UNCHANGED <<modeVars, dead, peerDead, ticking, loopVars, client, req, doomed>>

KillPeer ==
    /\ killing = "peer"
    /\ peerDead' = TRUE
    /\ killing' = "done"
    /\ UNCHANGED <<modeVars, dead, listening, ticking, loopVars, callVars>>

\* The ticker's loop tests isdead() once per interval; tick() itself is
\* empty, or that of ViewServer.
TickerEnds ==
    /\ ticking /\ dead
    /\ ticking' = FALSE
    /\ UNCHANGED <<modeVars, dead, listening, killing, peerDead, loopVars, callVars>>

-----------------------------------------------------------------------------
(***************************************************************************)
(* ServeConn: the request is read and its handler runs, whatever became of *)
(* the caller and of the server in the meantime.                           *)
(***************************************************************************)
Runs(c) == req[c] = "sent" /\ conn[c] \in {"served", "mute", "deaf"}

Run(c) ==
    /\ Runs(c)
    /\ req' = [req EXCEPT ![c] = "ran"]
    /\ UNCHANGED <<modeVars, stopVars, loopVars, client, conn, doomed>>

SetUnreliable ==
    /\ kind["unreliable"]
    /\ unreliable' = ~unreliable
    /\ UNCHANGED <<kind, dying, stopVars, loopVars, callVars>>

SetDying ==
    /\ kind["dying"] /\ ~dying
    /\ dying' = TRUE
    /\ UNCHANGED <<kind, unreliable, stopVars, loopVars, callVars>>

Loop == \/ Test \/ Accept \/ AcceptClosed \/ Refuse \/ Discard \/ ServeMute \/ Serve
        \/ StartTimer \/ CloseAndListen \/ DeafEnds \/ LoopError

Killing == CloseListener \/ KillPeer

Environment == Kill \/ AcceptError \/ SetUnreliable \/ SetDying

Caller(c) == Send(c) \/ CallReturns(c) \/ CallFails(c)

\* Everything but the dials and the handlers.
Background == Loop \/ Killing \/ TimerFires \/ TickerEnds \/ Environment
                \/ \E c \in Calls : Caller(c)

Next == Background \/ \E c \in Calls : Dial(c) \/ Run(c)

Spec == Init /\ [][Next]_rpcVars

-----------------------------------------------------------------------------
\* The shape of the state.
TypeOK ==
    /\ kind \in Kinds
    /\ unreliable \in BOOLEAN /\ dying \in BOOLEAN /\ dead \in BOOLEAN
    /\ listening \in BOOLEAN /\ peerDead \in BOOLEAN /\ ticking \in BOOLEAN
    /\ killing \in {"no", "close", "peer", "done"}
    /\ loop \in {"test", "accept", "got", "error", "kills", "hush", "deaf", "ended"}
    /\ cur \in Calls \cup {Nobody} /\ timer \in BOOLEAN
    /\ (timer \/ loop \in {"got", "hush", "deaf"}) => cur \in Calls
    /\ errors \in 0..MaxErrors /\ rpcCount \in Nat
    /\ client \in [Calls -> {"idle", "dialled", "waits", "true", "false"}]
    /\ conn \in [Calls -> {"none", "backlog", "held", "served", "mute", "deaf", "closed"}]
    /\ req \in [Calls -> {"none", "sent", "ran"}]
    /\ doomed \subseteq Calls

\* A request whose caller dialled when the server was dead is not handled,
\* though the listener may still be open: the loop asks isdead() again after
\* Accept returned.
DoomedNeverRun == \A c \in doomed : req[c] # "ran"

\* Only the unreliable mode lets a request be handled after its call failed.
\* The dying lock server must not: that is why it has DeafConn in place of the
\* shutdown trick (lockservice/server.go:69-73).
LateRunsOnlyUnreliable ==
    [][\A c \in Calls : client[c] = "false" /\ req[c] # req'[c] => kind["unreliable"]]_rpcVars

\* The counters that tests read, rpcCount of paxos and GetRPCCount of the view
\* service, miss no request that was handled, its reply dropped or not.
CountsEveryRun ==
    kind["counts"] => rpcCount >= Cardinality({c \in Calls : req[c] = "ran"})

\* Where a call stands, as its caller may reason about it.
callState ==
    [c \in Calls |->
        CASE client[c] = "idle" -> "idle"
          [] client[c] \in {"dialled", "waits"} -> IF req[c] = "ran" THEN "ran" ELSE "open"
          [] client[c] = "true" -> "answered"
          [] OTHER -> IF conn[c] = "mute" /\ req[c] = "sent" THEN "left" ELSE "failed"]

Abstract == INSTANCE RpcCall WITH call <- callState

\* Every server of the repository gives what RpcCall promises: call() returns
\* true only if the handler ran for this call, and it never runs twice.
ImplementsRpcCall == Abstract!Spec

\* Nobody waits for what nobody will do.  A caller's connection is answered,
\* cut or closed by a goroutine that runs, by the loop or a kill() that has yet
\* to reach it, or by the timer; the loop that waits for the timer or for kill()
\* will not wait forever; and of a dead server nothing is left that kill() will
\* not stop.
NobodyStranded ==
    /\ \A c \in Calls : client[c] \in {"dialled", "waits"} =>
          \/ conn[c] \in {"served", "mute", "closed"}
          \/ conn[c] = "held" /\ c = cur /\ loop \in {"got", "hush"}
          \/ conn[c] = "deaf" /\ c = cur /\ timer
          \/ conn[c] = "backlog" /\ listening /\ (loop # "ended" \/ killing = "close")
    /\ loop = "deaf" => timer \/ conn[cur] = "closed"
    /\ loop = "kills" => killing # "no"
    /\ dead => \/ killing \in {"close", "peer"}
               \/ ~listening /\ (kind["peer"] => peerDead)

\* Every call returns, whatever is dropped, killed or left in the backlog of a
\* listener that closes: call() has no timeout of its own.
EveryCallReturns ==
    \A c \in Calls : client[c] \in {"dialled", "waits"} ~> client[c] \in {"true", "false"}

Stopped == /\ loop = "ended" /\ ~listening /\ ~ticking
           /\ kind["peer"] => peerDead

\* A server that is dead stops all its goroutines, although the loop may wait in
\* Accept or serve a deaf connection at that time.
DeadStops == dead ~> Stopped
=============================================================================
