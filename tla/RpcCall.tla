------------------------------- MODULE RpcCall -------------------------------
(***************************************************************************)
(* What a caller may rely on of call() (paxos/paxos.go:76, and its copies  *)
(* in every clerk): an answer is that of a handler which ran for this very *)
(* call; without one the handler has run, or runs later, or never runs,    *)
(* but at most once.  RpcServer implements this, and ShardClerk is built   *)
(* on it.                                                                  *)
(***************************************************************************)
CONSTANT Calls

VARIABLE call  \* "open": dialled; "ran": handled; "left": the caller gave up
               \* and the request is still in the server's socket

Free == {"idle", "answered", "failed"}

TypeOK == call \in [Calls -> {"idle", "open", "ran", "answered", "left", "failed"}]

Init == call = [c \in Calls |-> "idle"]

Move(c, from, to) == call[c] \in from /\ call' = [call EXCEPT ![c] = to]

Open(c)    == Move(c, Free, "open")
Run(c)     == Move(c, {"open"}, "ran")
RunLate(c) == Move(c, {"left"}, "failed")

\* call() returns true.
Answer(c) == Move(c, {"ran"}, "answered")

\* call() returns false: no server, no request, no reply or not yet.
Refuse(c) == Move(c, Free, "failed")
Lose(c)   == Move(c, {"open", "ran"}, "failed")
Leave(c)  == Move(c, {"open"}, "left")

Next == \E c \in Calls : \/ Open(c) \/ Run(c) \/ RunLate(c) \/ Answer(c)
                         \/ Refuse(c) \/ Lose(c) \/ Leave(c)

Spec == Init /\ [][Next]_call
=============================================================================
