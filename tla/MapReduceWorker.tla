-------------------------- MODULE MapReduceWorker --------------------------
(***************************************************************************)
(* A worker (mapreduce/worker.go): the accept loop of RunWorker in one     *)
(* goroutine, the handler of an accepted call in another, and the counters *)
(* nRPC and nJobs that both use without a lock, so that an update is a     *)
(* load and a store.  The master calls one worker one call at a time: jobs *)
(* first, and in the end Shutdown.                                         *)
(***************************************************************************)
EXTENDS Integers

CONSTANTS Limit,   \* the nRPC RunWorker is called with; -1: no limit
          MaxJobs  \* bound: jobs the master has for this worker

ASSUME LimitAssumption == Limit \in Int /\ MaxJobs \in Nat

None == "none"

VARIABLES
    loop,     \* where the accept loop is
    nRPC,
    nJobs,
    loaded,   \* the value of nJobs that the loop loaded to increment it
    called,   \* the call the master dialled and the loop has not accepted
    handler,  \* where the goroutine of the accepted call is
    borrowed, \* the value of nJobs that the handler loaded to decrement it
    served,   \* calls of DoJob that returned to the master
    accepts,  \* connections accepted
    reply     \* Njobs in the reply to Shutdown, or -1

loopVars == <<loop, nRPC, loaded, accepts>>
vars == <<loopVars, nJobs, called, handler, borrowed, served, reply>>

Init ==
    /\ loop = "test" /\ nRPC = Limit /\ nJobs = 0 /\ loaded = 0
    /\ called = None /\ handler = None /\ borrowed = 0
    /\ served = 0 /\ accepts = 0 /\ reply = -1

-----------------------------------------------------------------------------
(***************************************************************************)
(* The master.                                                             *)
(***************************************************************************)
Free == called = None /\ handler = None /\ reply = -1 /\ loop # "closed"

CallDoJob ==
    /\ Free /\ served < MaxJobs
    /\ called' = "DoJob"
    /\ UNCHANGED <<loopVars, nJobs, handler, borrowed, served, reply>>

CallShutdown ==
    /\ Free
    /\ called' = "Shutdown"
    /\ UNCHANGED <<loopVars, nJobs, handler, borrowed, served, reply>>

-----------------------------------------------------------------------------
(***************************************************************************)
(* The accept loop of RunWorker.  Closing the listener refuses a call that *)
(* was dialled and not accepted.                                           *)
(***************************************************************************)
\* (A possible bug: the loop goes on at 0.)
TestPositive ==
    /\ loop = "test"
    /\ loop' = IF nRPC >= 0 THEN "accept" ELSE "closed"
    /\ called' = IF nRPC < 0 THEN None ELSE called
    /\ UNCHANGED <<nRPC, loaded, accepts, nJobs, handler, borrowed, served, reply>>

\* (A possible bug: the loop ends and the listener stays open.)
TestWithoutClose ==
    /\ loop = "test"
    /\ loop' = IF nRPC # 0 THEN "accept" ELSE "closed"
    /\ UNCHANGED <<nRPC, loaded, accepts, nJobs, called, handler, borrowed, served, reply>>

Test ==
    /\ loop = "test"
    /\ loop' = IF nRPC # 0 THEN "accept" ELSE "closed"
    /\ called' = IF nRPC = 0 THEN None ELSE called
    /\ UNCHANGED <<nRPC, loaded, accepts, nJobs, handler, borrowed, served, reply>>

\* Accept returns, nRPC is decremented and the call gets its goroutine.
Accept ==
    /\ loop = "accept" /\ called # None
    /\ nRPC' = nRPC - 1
    /\ accepts' = accepts + 1
    /\ handler' = called
    /\ called' = None
    /\ loop' = "load"
    /\ UNCHANGED <<nJobs, loaded, borrowed, served, reply>>

\* An error of Accept, as without a file descriptor, ends the loop for good.
AcceptFails ==
    /\ loop = "accept"
    /\ loop' = "closed"
    /\ called' = None
    /\ UNCHANGED <<nRPC, loaded, accepts, nJobs, handler, borrowed, served, reply>>

\* wk.nJobs += 1, while the handler runs.
LoadJobs ==
    /\ loop = "load"
    /\ loaded' = nJobs
    /\ loop' = "store"
    /\ UNCHANGED <<nRPC, accepts, nJobs, called, handler, borrowed, served, reply>>

StoreJobs ==
    /\ loop = "store"
    /\ nJobs' = loaded + 1
    /\ loop' = "test"
    /\ UNCHANGED <<nRPC, loaded, accepts, called, handler, borrowed, served, reply>>

-----------------------------------------------------------------------------
(***************************************************************************)
(* The handlers.                                                           *)
(***************************************************************************)
DoJob ==
    /\ handler = "DoJob"
    /\ handler' = None
    /\ served' = served + 1
    /\ UNCHANGED <<loopVars, nJobs, called, borrowed, reply>>

\* (A possible bug: the reply takes the Shutdown call off before the loop
\* has counted it.)
ShutdownReportLess ==
    /\ handler = "Shutdown"
    /\ reply' = nJobs - 1
    /\ handler' = "stop"
    /\ UNCHANGED <<loopVars, nJobs, called, borrowed, served>>

\* Shutdown: res.Njobs = wk.nJobs; wk.nRPC = 1; wk.nJobs--
ShutdownReport ==
    /\ handler = "Shutdown"
    /\ reply' = nJobs
    /\ handler' = "stop"
    /\ UNCHANGED <<loopVars, nJobs, called, borrowed, served>>

ShutdownStop ==
    /\ handler = "stop"
    /\ nRPC' = 1
    /\ handler' = "uncount"
    /\ UNCHANGED <<loop, loaded, accepts, nJobs, called, borrowed, served, reply>>

ShutdownLoad ==
    /\ handler = "uncount"
    /\ borrowed' = nJobs
    /\ handler' = "uncounted"
    /\ UNCHANGED <<loopVars, nJobs, called, served, reply>>

ShutdownStore ==
    /\ handler = "uncounted"
    /\ nJobs' = borrowed - 1
    /\ handler' = None
    /\ UNCHANGED <<loopVars, called, borrowed, served, reply>>

Loop    == Test \/ Accept \/ LoadJobs \/ StoreJobs
Handler == DoJob \/ ShutdownReport \/ ShutdownStop \/ ShutdownLoad \/ ShutdownStore

Next == CallDoJob \/ CallShutdown \/ Loop \/ AcceptFails \/ Handler

\* Both goroutines run on; nothing makes the master call or Accept fail.
Spec     == Init /\ [][Next]_vars
FairSpec == Spec /\ WF_vars(Loop) /\ WF_vars(Handler)

-----------------------------------------------------------------------------
\* The shape of the state.
TypeOK ==
    /\ loop \in {"test", "accept", "load", "store", "closed"}
    /\ nRPC \in Int /\ nJobs \in Int /\ loaded \in Int /\ borrowed \in Int
    /\ called \in {None, "DoJob", "Shutdown"}
    /\ handler \in {None, "DoJob", "Shutdown", "stop", "uncount", "uncounted"}
    /\ served \in 0..MaxJobs /\ accepts \in Nat /\ reply \in -1..(MaxJobs + 1)

\* Whatever the race on nJobs does, the number reported to the master is the
\* number of jobs, or one more: the Shutdown call itself.
NjobsNearlyExact == reply # -1 => reply \in {served, served + 1}

\* A worker that is to fail after Limit calls accepts no more than these: not
\* even when Shutdown sets nRPC to 1 just before the loop would have found 0.
AcceptsWithinLimit == Limit > 0 => accepts <= Limit

\* Every call that the loop does not accept is refused in the end, so that
\* the master never waits for a worker whose loop ended.
NoCallLeft == called # None ~> called = None
=============================================================================
