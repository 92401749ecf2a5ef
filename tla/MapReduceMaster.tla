-------------------------- MODULE MapReduceMaster --------------------------
(***************************************************************************)
(* The distributed run of mapreduce: Run() and RunMaster() with a          *)
(* goroutine per job, the two unbuffered channels registerChannel and      *)
(* jobchan, the Register handler, and the workers that come, do jobs and   *)
(* stop or crash at any time.  A send on an unbuffered channel is one step *)
(* with its receive, so a goroutine blocked in a send is part of the state.*)
(***************************************************************************)
EXTENDS Naturals, FiniteSets

CONSTANTS Worker,      \* the addresses of workers
          NoWorker,    \* a job that has no worker
          nMap, nReduce,
          RacesCaught  \* may the Go runtime notice two uses of mr.Workers at
                       \* once and kill the master for it?

ASSUME WorkerAssumption == NoWorker \notin Worker
ASSUME JobsAssumption   == nMap \in Nat \ {0} /\ nReduce \in Nat \ {0}
ASSUME RacesAssumption  == RacesCaught \in BOOLEAN

MapJob    == {"map"} \X (0..nMap-1)
ReduceJob == {"reduce"} \X (0..nReduce-1)
Job       == MapJob \cup ReduceJob

VARIABLES
    phase,       \* where Run() is
    succ,        \* successful jobs of this phase
    job,         \* per job the state of its goroutine and its worker
    output,      \* per job what its output files hold
    offered,     \* workers somebody is sending on registerChannel
    registering, \* those of them offered by a Register handler
    recording,   \* Register handlers past the send, not yet returned
    Workers,     \* the keys of mr.Workers
    shutdown,    \* workers KillWorkers went through
    told,        \* those of them that got the Shutdown call
    stopped      \* workers that accept no call any more

mainVars    == <<phase, succ>>
jobVars     == <<job, output>>
channelVars == <<offered, registering>>
mapVars     == <<recording, Workers>>
killVars    == <<shutdown, told>>
vars == <<mainVars, jobVars, channelVars, mapVars, killVars, stopped>>

Idle    == [st |-> "none", w |-> NoWorker]
Waiting == [st |-> "waiting", w |-> NoWorker]

Init ==
    /\ phase = "map" /\ succ = 0
    /\ job = [j \in Job |-> IF j \in MapJob THEN Waiting ELSE Idle]
    /\ output = [j \in Job |-> "none"]
    /\ offered = {} /\ registering = {}
    /\ recording = {} /\ Workers = {}
    /\ shutdown = {} /\ told = {} /\ stopped = {}

Running == phase # "fatal"
Registered == registering \cup recording \cup Workers

-----------------------------------------------------------------------------
(***************************************************************************)
(* Registration, which every worker does once.  The handler blocks in its  *)
(* send until a job's goroutine receives, and enters the worker into       *)
(* mr.Workers only after that.                                             *)
(***************************************************************************)
Register(w) ==
    /\ phase \notin {"cleaned", "done", "fatal"}
    /\ w \notin Registered \cup stopped
    /\ offered' = offered \cup {w}
    /\ registering' = registering \cup {w}
    /\ UNCHANGED <<mainVars, jobVars, mapVars, killVars, stopped>>

Record(w) ==
    /\ Running
    /\ w \in recording
    /\ Workers' = Workers \cup {w}
    /\ recording' = recording \ {w}
    /\ UNCHANGED <<mainVars, jobVars, channelVars, killVars, stopped>>

\* mr.Workers has no lock: two handlers that write it at once, or one that
\* writes it while KillWorkers ranges over it, are a data race for which the
\* runtime may stop the process.
RaceCaught ==
    /\ RacesCaught
    /\ \/ Running /\ \E v, w \in recording : v # w
       \/ phase = "kill" /\ recording # {}
    /\ phase' = "fatal"
    /\ UNCHANGED <<succ, jobVars, channelVars, mapVars, killVars, stopped>>

-----------------------------------------------------------------------------
(***************************************************************************)
(* A job's goroutine and the call to its worker.  domap and dored differ   *)
(* in the files their jobs read and write only.                            *)
(***************************************************************************)
Goto(j, st) == job' = [job EXCEPT ![j] = [st |-> st, w |-> @.w]]

\* (A possible bug: the worker is used without being received.)
TakeWorkerOnOffer(j, w) ==
    /\ Running
    /\ job[j].st = "waiting" /\ w \in offered
    /\ job' = [job EXCEPT ![j] = [st |-> "calling", w |-> w]]
    /\ UNCHANGED offered
    /\ registering' = registering \ {w}
    /\ recording' = recording \cup (registering \cap {w})
    /\ UNCHANGED <<mainVars, output, Workers, killVars, stopped>>

\* worker := <-mr.registerChannel
TakeWorker(j, w) ==
    /\ Running
    /\ job[j].st = "waiting" /\ w \in offered
    /\ job' = [job EXCEPT ![j] = [st |-> "calling", w |-> w]]
    /\ offered' = offered \ {w}
    /\ registering' = registering \ {w}
    /\ recording' = recording \cup (registering \cap {w})
    /\ UNCHANGED <<mainVars, output, Workers, killVars, stopped>>

\* (A possible bug: the worker accepts calls before its Register returned.)
StartJobEarly(j) ==
    /\ job[j].st = "calling"
    /\ job[j].w \notin stopped
    /\ Goto(j, "running")
    /\ output' = [output EXCEPT ![j] = "partial"]
    /\ UNCHANGED <<mainVars, channelVars, mapVars, killVars, stopped>>

\* The worker accepts the call, which it does only once its own Register
\* returned, and DoMap or DoReduce creates its output files anew.
StartJob(j) ==
    /\ job[j].st = "calling"
    /\ job[j].w \notin stopped \cup recording
    /\ Goto(j, "running")
    /\ output' = [output EXCEPT ![j] = "partial"]
    /\ UNCHANGED <<mainVars, channelVars, mapVars, killVars, stopped>>

MapsComplete == \A m \in MapJob : output[m] = "complete"

\* DoMap or DoReduce returns.  What a reduce job does not find in the files
\* of the map jobs is missing in its result.
FinishJob(j) ==
    /\ job[j].st = "running"
    /\ Goto(j, "ended")
    /\ output' = [output EXCEPT ![j] =
                    IF j \in ReduceJob /\ ~MapsComplete THEN "wrong" ELSE "complete"]
    /\ UNCHANGED <<mainVars, channelVars, mapVars, killVars, stopped>>

\* call() returns true, and the goroutine goes on to send on jobchan.
CallReturns(j) ==
    /\ job[j].st = "ended"
    /\ Goto(j, "ok")
    /\ UNCHANGED <<mainVars, output, channelVars, mapVars, killVars, stopped>>

\* call() returns false: the worker does not accept connections.
CallRefused(j) ==
    /\ job[j].st = "calling" /\ job[j].w \in stopped
    /\ Goto(j, "failed")
    /\ UNCHANGED <<mainVars, output, channelVars, mapVars, killVars, stopped>>

\* A worker stops accepting, because its accept loop used up nRPC or after a
\* Shutdown; the calls it accepted go on.
WorkerStops(w) ==
    /\ w \notin stopped
    /\ stopped' = stopped \cup {w}
    /\ UNCHANGED <<mainVars, jobVars, channelVars, mapVars, killVars>>

\* A worker's process dies in the middle of a call, or after the work and
\* before the reply: the call fails and the files stay as they are.
WorkerCrashes(j) ==
    /\ job[j].st \in {"running", "ended"}
    /\ stopped' = stopped \cup {job[j].w}
    /\ Goto(j, "failed")
    /\ UNCHANGED <<mainVars, output, channelVars, mapVars, killVars>>

-----------------------------------------------------------------------------
(***************************************************************************)
(* RunMaster() receives from jobchan.  The goroutine that sent is then     *)
(* blocked in returning its worker to registerChannel.                     *)
(***************************************************************************)
Expected ==
    IF phase = "map" THEN MapJob ELSE IF phase = "reduce" THEN ReduceJob ELSE {}
Quota == IF phase = "map" THEN nMap ELSE nReduce

\* (A possible bug: RunMaster counts a job whatever its result.)
ReceiveAnything(j) ==
    /\ j \in Expected /\ succ < Quota
    /\ job[j].st \in {"ok", "failed"}
    /\ succ' = succ + 1
    /\ job' = [job EXCEPT ![j] = [st |-> "done", w |-> NoWorker]]
    /\ offered' = offered \cup {job[j].w}
    /\ UNCHANGED <<phase, output, registering, mapVars, killVars, stopped>>

\* (A possible bug: a goroutine that succeeded keeps its worker.)
ReceiveKeepingWorker(j) ==
    /\ j \in Expected /\ succ < Quota
    /\ job[j].st = "ok"
    /\ succ' = succ + 1
    /\ job' = [job EXCEPT ![j] = [st |-> "done", w |-> NoWorker]]
    /\ UNCHANGED <<phase, output, channelVars, mapVars, killVars, stopped>>

ReceiveSuccess(j) ==
    /\ j \in Expected /\ succ < Quota
    /\ job[j].st = "ok"
    /\ succ' = succ + 1
    /\ job' = [job EXCEPT ![j] = [st |-> "done", w |-> NoWorker]]
    /\ offered' = offered \cup {job[j].w}
    /\ UNCHANGED <<phase, output, registering, mapVars, killVars, stopped>>

\* A failed job gets a new goroutine; its worker is offered again as well.
ReceiveFailure(j) ==
    /\ j \in Expected /\ succ < Quota
    /\ job[j].st = "failed"
    /\ job' = [job EXCEPT ![j] = Waiting]
    /\ offered' = offered \cup {job[j].w}
    /\ UNCHANGED <<mainVars, output, registering, mapVars, killVars, stopped>>

StartReduce ==
    /\ phase = "map" /\ succ = nMap
    /\ phase' = "reduce" /\ succ' = 0
    /\ job' = [j \in Job |-> IF j \in ReduceJob THEN Waiting ELSE job[j]]
    /\ UNCHANGED <<output, channelVars, mapVars, killVars, stopped>>

\* Run() goes on to its next part.
Proceed(from, to) ==
    /\ phase = from
    /\ phase' = to
    /\ UNCHANGED <<succ, jobVars, channelVars, mapVars, killVars, stopped>>

StartKill == succ = nReduce /\ Proceed("reduce", "kill")

\* KillWorkers: one Shutdown call per entry of mr.Workers; a worker that
\* stopped does not get it.
KillWorker(w) ==
    /\ phase = "kill" /\ w \in Workers \ shutdown
    /\ shutdown' = shutdown \cup {w}
    /\ told' = told \cup ({w} \ stopped)
    /\ UNCHANGED <<mainVars, jobVars, channelVars, mapVars, stopped>>

EndKill == Workers \subseteq shutdown /\ Proceed("kill", "merge")
Merge   == Proceed("merge", "merged")
Cleanup == Proceed("merged", "cleaned")
Done    == Proceed("cleaned", "done")

Main ==
    \/ StartReduce \/ StartKill
    \/ \E w \in Worker : KillWorker(w)
    \/ EndKill \/ Merge \/ Cleanup \/ Done

JobStep(j) ==
    \/ StartJob(j) \/ FinishJob(j) \/ CallReturns(j) \/ CallRefused(j)
    \/ ReceiveSuccess(j) \/ ReceiveFailure(j)

Next ==
    \/ \E w \in Worker : Register(w) \/ Record(w) \/ WorkerStops(w)
    \/ \E j \in Job, w \in Worker : TakeWorker(j, w)
    \/ \E j \in Job : JobStep(j) \/ WorkerCrashes(j)
    \/ Main
    \/ RaceCaught

Spec == Init /\ [][Next]_vars

\* Every goroutine that can run does.  A worker that is offered waits in the
\* first-in-first-out queue of senders the runtime keeps for a channel, so it
\* is taken if workers are taken again and again: strong fairness.
Fairness ==
    /\ WF_vars(Main)
    /\ \A j \in Job : WF_vars(JobStep(j))
    /\ \A w \in Worker :
          /\ WF_vars(Record(w))
          /\ SF_vars(\E j \in Job : TakeWorker(j, w))

FairSpec == Spec /\ Fairness

-----------------------------------------------------------------------------
(***************************************************************************)
(* Properties.                                                             *)
(***************************************************************************)
Phase   == {"map", "reduce", "kill", "merge", "merged", "cleaned", "done", "fatal"}
JobSt   == {"none", "waiting", "calling", "running", "ended", "ok", "failed", "done"}
Content == {"none", "partial", "wrong", "complete"}

\* The shape of the state.
TypeOK ==
    /\ phase \in Phase /\ succ \in Nat
    /\ job \in [Job -> [st : JobSt, w : Worker \cup {NoWorker}]]
    /\ output \in [Job -> Content]
    /\ offered \subseteq Worker /\ registering \subseteq offered
    /\ recording \subseteq Worker /\ Workers \subseteq Worker
    /\ shutdown \subseteq Workers /\ told \subseteq shutdown
    /\ stopped \subseteq Worker

\* A registered worker is never lost and never doubled: it is on offer, by one
\* goroutine, or with exactly one job, however jobs fail, are retried and return
\* their workers, also when it stopped long ago and when the run has ended.
WorkerInOnePlace ==
    \A w \in Worker :
        LET with == {j \in Job : job[j].w = w}
        IN  /\ w \in Registered \ offered => \E j \in Job : with = {j}
            /\ w \notin Registered \ offered => with = {}

\* The reduce phase starts with every map job's files complete, and they
\* stay so: no map job that was given up writes them any more.
ReducesReadCompleteMaps == phase \notin {"map", "fatal"} => MapsComplete

\* Merge finds the complete result of every reduce job, whichever attempt
\* and whichever worker it came from.
MergesCompleteResults ==
    phase \in {"kill", "merge", "merged", "cleaned", "done"} =>
        \A j \in ReduceJob : output[j] = "complete"

\* A worker that began a job is in mr.Workers, although the handler writes
\* the entry only after it handed the worker to a job: KillWorkers misses
\* nobody who worked.
WorkedIsRecorded ==
    \A j \in Job : job[j].st \in {"running", "ended", "ok"} => job[j].w \in Workers

\* What README.md says: every goroutine of the run ends normally.
MasterNeverDies == phase # "fatal"

\* The goroutines, the two channels, failed attempts and retries do what a run
\* of MapReduceRun may do: a job is counted once, when its files are complete,
\* and no worker that was given up on writes them afterwards.
Run == INSTANCE MapReduceRun WITH
    done  <- {j \in Job : job[j].st = "done"},
    stage <- IF phase = "fatal" THEN "dead"
             ELSE IF phase \in {"merged", "cleaned", "done"} THEN "merged" ELSE "jobs"
ImplementsRun == Run!Spec

\* The run completes, unless the runtime kills it, if one worker registers and
\* lasts until the last reduce job is done, whatever happens to the others.
Completes ==
    (\E w \in Worker :
        <>(w \in Registered) /\ [](w \in stopped => phase \notin {"map", "reduce"}))
    => <>(phase \in {"done", "fatal"})
=============================================================================
