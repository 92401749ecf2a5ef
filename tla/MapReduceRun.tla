---------------------------- MODULE MapReduceRun ----------------------------
(***************************************************************************)
(* What a run of the mapreduce package promises, whoever does its jobs: a  *)
(* job may be attempted any number of times, and each attempt creates its  *)
(* output files anew and may leave any part of them; it is done once, with *)
(* its output complete, and not touched again; no reduce job begins before *)
(* every map job is done, and the results are merged when all jobs are.    *)
(* MapReduceMaster (goroutines, workers and their crashes) and             *)
(* MapReduceData (contents of files) both implement this.  MapReduceData   *)
(* lets an open job be attempted at any time and leave any part of its     *)
(* output, so it has a step for every step below: what it shows of the     *)
(* result needs of the distributed run no more than stands here.           *)
(***************************************************************************)
CONSTANTS MapJob, ReduceJob

Job == MapJob \cup ReduceJob

VARIABLES
    output, \* per job what its output files hold
    done,   \* the jobs counted as successful
    stage   \* "jobs", then "merged"; or "dead", when the master died

vars == <<output, done, stage>>

Init ==
    /\ output = [j \in Job |-> "none"]
    /\ done = {}
    /\ stage = "jobs"

\* A job that may be worked on.  Workers go on when the master is dead.
Open(j) ==
    /\ stage \in {"jobs", "dead"}
    /\ j \notin done
    /\ j \in ReduceJob => MapJob \subseteq done

Attempt(j) ==
    /\ Open(j)
    /\ \E left \in {"partial", "complete"} : output' = [output EXCEPT ![j] = left]
    /\ UNCHANGED <<done, stage>>

\* An attempt that succeeded is counted, at once or when the master hears of it.
Settle(j) ==
    /\ Open(j) /\ stage = "jobs"
    /\ output' = [output EXCEPT ![j] = "complete"]
    /\ done' = done \cup {j}
    /\ UNCHANGED stage

Merge ==
    /\ stage = "jobs" /\ done = Job
    /\ stage' = "merged"
    /\ UNCHANGED <<output, done>>

Die ==
    /\ stage' = "dead"
    /\ UNCHANGED <<output, done>>

Next == (\E j \in Job : Attempt(j) \/ Settle(j)) \/ Merge \/ Die

Spec == Init /\ [][Next]_vars
=============================================================================
