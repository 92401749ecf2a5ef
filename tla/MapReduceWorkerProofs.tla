----------------------- MODULE MapReduceWorkerProofs -----------------------
(***************************************************************************)
(* Proofs about MapReduceWorker, for any limit and any number of jobs.     *)
(***************************************************************************)
EXTENDS MapReduceWorker, TLAPS

USE LimitAssumption

(***************************************************************************)
(* The inductive invariant.  Until Shutdown has its reply the counters are *)
(* those of a worker without races: the loop is the only one that writes   *)
(* nRPC and nJobs, and nJobs lags behind by the call it is counting.       *)
(***************************************************************************)
OneCall ==
    /\ called # None => handler = None /\ reply = -1
    /\ handler \in {"DoJob", "Shutdown"} => reply = -1
    /\ handler \in {"stop", "uncount", "uncounted"} => reply # -1
    /\ called = "DoJob" \/ handler = "DoJob" => served < MaxJobs

Counting == loop \in {"load", "store"}

Counted ==
    /\ nRPC = Limit - accepts
    /\ loop = "accept" => nRPC # 0
    /\ handler = None => accepts = served
    /\ handler # None => accepts = served + 1
    /\ Counting => nJobs = accepts - 1
    /\ ~Counting => nJobs = accepts
    /\ loop = "store" => loaded = nJobs

WorkerInv ==
    /\ TypeOK /\ OneCall /\ NjobsNearlyExact /\ AcceptsWithinLimit
    /\ reply = -1 => Counted

LEMMA WorkerInvInit == Init => WorkerInv
BY DEF Init, WorkerInv, TypeOK, OneCall, NjobsNearlyExact, AcceptsWithinLimit, Counted,
       Counting, None

LEMMA WorkerInvStep == WorkerInv /\ [Next]_vars => WorkerInv'
<1> SUFFICES ASSUME WorkerInv, [Next]_vars PROVE WorkerInv'
    OBVIOUS
<1> USE DEF None
<1> DEFINE Rest == OneCall' /\ NjobsNearlyExact' /\ AcceptsWithinLimit' /\ (reply' = -1 => Counted')
<1>1. ASSUME CallDoJob \/ CallShutdown PROVE WorkerInv'
  <2>1. TypeOK'
        BY <1>1 DEF CallDoJob, CallShutdown, loopVars, WorkerInv, TypeOK
  <2>2. Rest
        BY <1>1 DEF CallDoJob, CallShutdown, Free, loopVars, WorkerInv, OneCall,
                    NjobsNearlyExact, AcceptsWithinLimit, Counted, Counting
  <2> QED
      BY <2>1, <2>2 DEF WorkerInv
<1>2. ASSUME Test \/ AcceptFails PROVE WorkerInv'
  <2>1. TypeOK'
        BY <1>2 DEF Test, AcceptFails, WorkerInv, TypeOK
  <2>2. Rest
        BY <1>2 DEF Test, AcceptFails, WorkerInv, OneCall,
                    NjobsNearlyExact, AcceptsWithinLimit, Counted, Counting
  <2> QED
      BY <2>1, <2>2 DEF WorkerInv
<1>3. ASSUME Accept PROVE WorkerInv'
  <2>1. TypeOK'
        BY <1>3 DEF Accept, WorkerInv, TypeOK
  <2>2. /\ reply = -1 /\ handler = None /\ Counted /\ loop = "accept"
        /\ called \in {"DoJob", "Shutdown"} /\ reply' = reply
        BY <1>3 DEF Accept, WorkerInv, OneCall, TypeOK
  <2>3. /\ nRPC \in Int /\ accepts \in Nat /\ nRPC # 0 /\ nRPC = Limit - accepts
        /\ nJobs = accepts /\ accepts = served
        BY <2>2 DEF WorkerInv, TypeOK, Counted, Counting
  <2>4. OneCall' /\ NjobsNearlyExact'
        BY <1>3, <2>2 DEF Accept, WorkerInv, OneCall, NjobsNearlyExact
  <2>5. AcceptsWithinLimit'
        BY <1>3, <2>3 DEF Accept, WorkerInv, AcceptsWithinLimit
  <2>6. Counted'
        BY <1>3, <2>2, <2>3 DEF Accept, Counted, Counting
  <2> QED
      BY <2>1, <2>4, <2>5, <2>6 DEF WorkerInv
<1>4. ASSUME LoadJobs \/ StoreJobs PROVE WorkerInv'
  <2>1. TypeOK'
        BY <1>4 DEF LoadJobs, StoreJobs, WorkerInv, TypeOK
  <2>2. Rest
        BY <1>4 DEF LoadJobs, StoreJobs, WorkerInv, TypeOK, OneCall,
                    NjobsNearlyExact, AcceptsWithinLimit, Counted, Counting
  <2> QED
      BY <2>1, <2>2 DEF WorkerInv
<1>5. ASSUME DoJob PROVE WorkerInv'
  <2>1. TypeOK'
        BY <1>5 DEF DoJob, loopVars, WorkerInv, OneCall, TypeOK
  <2>2. Rest
        BY <1>5 DEF DoJob, loopVars, WorkerInv, TypeOK, OneCall,
                    NjobsNearlyExact, AcceptsWithinLimit, Counted, Counting
  <2> QED
      BY <2>1, <2>2 DEF WorkerInv
<1>6. ASSUME ShutdownReport PROVE WorkerInv'
  <2>1. /\ reply = -1 /\ called = None /\ served \in 0..MaxJobs /\ accepts = served + 1
        /\ nJobs = accepts \/ nJobs = accepts - 1
        BY <1>6 DEF ShutdownReport, WorkerInv, TypeOK, OneCall, Counted
  <2>2. reply' \in {served, served + 1} /\ reply' \in 0..(MaxJobs + 1)
        BY <1>6, <2>1 DEF ShutdownReport
  <2>3. TypeOK'
        BY <1>6, <2>2 DEF ShutdownReport, loopVars, WorkerInv, TypeOK
  <2>4. Rest
        BY <1>6, <2>1, <2>2 DEF ShutdownReport, loopVars, WorkerInv, OneCall,
                                NjobsNearlyExact, AcceptsWithinLimit
  <2> QED
      BY <2>3, <2>4 DEF WorkerInv
<1>7. ASSUME ShutdownStop \/ ShutdownLoad \/ ShutdownStore PROVE WorkerInv'
  <2>1. TypeOK'
        BY <1>7 DEF ShutdownStop, ShutdownLoad, ShutdownStore, loopVars, WorkerInv, TypeOK
  <2>2. reply # -1 /\ reply' = reply
        BY <1>7 DEF ShutdownStop, ShutdownLoad, ShutdownStore, WorkerInv, OneCall
  <2>3. Rest
        BY <1>7, <2>2 DEF ShutdownStop, ShutdownLoad, ShutdownStore, loopVars, WorkerInv,
                          OneCall, NjobsNearlyExact, AcceptsWithinLimit
  <2> QED
      BY <2>1, <2>3 DEF WorkerInv
<1>8. ASSUME UNCHANGED vars PROVE WorkerInv'
      BY <1>8 DEF vars, loopVars, WorkerInv, TypeOK, OneCall, NjobsNearlyExact,
                  AcceptsWithinLimit, Counted, Counting
<1> QED
    BY <1>1, <1>2, <1>3, <1>4, <1>5, <1>6, <1>7, <1>8 DEF Next, Loop, Handler

LEMMA WorkerInvariant == Spec => []WorkerInv
BY WorkerInvInit, WorkerInvStep, PTL DEF Spec

\* The worker keeps its types, and never serves more jobs than the master has.
THEOREM WorkerTypeCorrect == Spec => []TypeOK
<1>1. WorkerInv => TypeOK
      BY DEF WorkerInv
<1> QED
    BY <1>1, WorkerInvariant, PTL

\* The number of jobs that Shutdown reports is off by the Shutdown call at most,
\* in spite of the unlocked counters.
THEOREM ReportNearlyExact == Spec => []NjobsNearlyExact
<1>1. WorkerInv => NjobsNearlyExact
      BY DEF WorkerInv
<1> QED
    BY <1>1, WorkerInvariant, PTL

\* A worker that is to fail after some calls accepts no more than these.
THEOREM LimitKept == Spec => []AcceptsWithinLimit
<1>1. WorkerInv => AcceptsWithinLimit
      BY DEF WorkerInv
<1> QED
    BY <1>1, WorkerInvariant, PTL
=============================================================================
