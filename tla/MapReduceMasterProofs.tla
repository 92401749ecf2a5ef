----------------------- MODULE MapReduceMasterProofs -----------------------
(***************************************************************************)
(* Proofs about MapReduceMaster for any workers and any numbers of jobs:   *)
(* whatever workers fail and whenever, the reduce phase reads complete     *)
(* files, the merge finds complete results, a worker is in one place and   *)
(* never lost, and the run implements MapReduceRun.                        *)
(***************************************************************************)
EXTENDS MapReduceMaster, FiniteSetTheorems, TLAPS

\* No worker is with two jobs, or with one and on offer; and none that
\* registered is in no place at all.
Apart ==
    /\ \A w \in offered, j \in Job : job[j].w # w
    /\ \A i, j \in Job : job[i].w = job[j].w /\ job[i].w # NoWorker => i = j
Held == \A w \in Registered \ offered : \E j \in Job : job[j].w = w

\* Every worker that is anywhere came in through Register, and one that began
\* a job left the Register handler: it is in mr.Workers.
Places ==
    /\ \A j \in Job : job[j].w = NoWorker <=>
                        job[j].st \in {"none", "waiting", "done"}
    /\ \A j \in Job : job[j].w # NoWorker => job[j].w \in Registered
    /\ offered \subseteq Registered
    /\ Apart /\ Held
    /\ WorkedIsRecorded

\* A job that came to its end left complete files.
Outputs ==
    \A j \in Job : job[j].st \in {"ended", "ok", "done"} => output[j] = "complete"

\* The phases follow each other: no reduce job before the last map job is
\* done, no KillWorkers before the last reduce job is.
MapsDone    == \A m \in MapJob : job[m].st = "done"
ReducesDone == \A r \in ReduceJob : job[r].st = "done"
Phases ==
    /\ phase = "map" => \A r \in ReduceJob : job[r].st = "none"
    /\ phase \notin {"map", "fatal"} => MapsDone
    /\ \A r \in ReduceJob : job[r].st # "none" => MapsDone
    /\ phase \notin {"map", "reduce", "fatal"} => ReducesDone

\* RunMaster counts exactly the jobs of its phase that are done.
DoneJobs == {j \in Expected : job[j].st = "done"}
Counted  == phase \in {"map", "reduce"} => succ = Cardinality(DoneJobs)

Inv == TypeOK /\ Places /\ Outputs /\ Phases /\ Counted

USE WorkerAssumption, JobsAssumption, RacesAssumption

-----------------------------------------------------------------------------
LEMMA JobsCounted ==
  /\ IsFiniteSet(MapJob) /\ Cardinality(MapJob) = nMap
  /\ IsFiniteSet(ReduceJob) /\ Cardinality(ReduceJob) = nReduce
<1>1. /\ IsFiniteSet(0..nMap-1) /\ Cardinality(0..nMap-1) = nMap
      /\ IsFiniteSet(0..nReduce-1) /\ Cardinality(0..nReduce-1) = nReduce
  BY FS_Interval
<1>2. /\ IsFiniteSet({"map"}) /\ Cardinality({"map"}) = 1
      /\ IsFiniteSet({"reduce"}) /\ Cardinality({"reduce"}) = 1
  BY FS_Singleton
<1>3. /\ IsFiniteSet(MapJob)
      /\ Cardinality(MapJob) = Cardinality({"map"}) * Cardinality(0..nMap-1)
  BY <1>1, <1>2, FS_Product, Zenon DEF MapJob
<1>4. /\ IsFiniteSet(ReduceJob)
      /\ Cardinality(ReduceJob) = Cardinality({"reduce"}) * Cardinality(0..nReduce-1)
  BY <1>1, <1>2, FS_Product, Zenon DEF ReduceJob
<1> QED BY <1>1, <1>2, <1>3, <1>4

\* No job is both a map job and a reduce job.
LEMMA JobsDisjoint ==
  /\ \A j \in MapJob : j \in Job /\ j \notin ReduceJob
  /\ \A j \in ReduceJob : j \in Job /\ j \notin MapJob
  BY DEF MapJob, ReduceJob, Job

\* A subset of a finite set that has as many elements is the whole set.
LEMMA FullSubset ==
  ASSUME NEW S, IsFiniteSet(S), NEW T, T \subseteq S,
         Cardinality(T) = Cardinality(S)
  PROVE  T = S
  BY FS_Subset

LEMMA OnePlaceEach == ASSUME TypeOK, Places PROVE WorkerInOnePlace
<1> SUFFICES ASSUME NEW w \in Worker
             PROVE  LET with == {j \in Job : job[j].w = w}
                    IN  /\ w \in Registered \ offered => \E j \in Job : with = {j}
                        /\ w \notin Registered \ offered => with = {}
  BY DEF WorkerInOnePlace
<1> DEFINE with == {j \in Job : job[j].w = w}
<1>1. ASSUME w \in Registered \ offered PROVE \E j \in Job : with = {j}
  <2>1. PICK j \in Job : job[j].w = w
    BY <1>1 DEF Places, Held
  <2>2. with = {j}
    BY <2>1 DEF Places, Apart
  <2> QED BY <2>2
<1>2. ASSUME w \notin Registered \ offered PROVE with = {}
  BY <1>2 DEF Places, Apart
<1> QED BY <1>1, <1>2

LEMMA InitInv == Init => Inv
<1> SUFFICES ASSUME Init PROVE Inv
  OBVIOUS
<1>1. \A j \in Job : job[j] \in {Waiting, Idle}
                     /\ job[j].st # "done" /\ job[j].w = NoWorker
  BY DEF Init, Waiting, Idle
<1>2. TypeOK
  BY DEF Init, TypeOK, Phase, Content, JobSt, Waiting, Idle
<1>3. Places
  BY <1>1 DEF Init, Places, Apart, Held, WorkedIsRecorded, Registered, Waiting, Idle
<1>4. Outputs /\ Phases
  BY JobsDisjoint DEF Init, Outputs, Phases, Waiting, Idle
<1>5. DoneJobs = {}
  BY <1>1, JobsDisjoint DEF DoneJobs, Expected
<1>6. Counted
  BY <1>5, FS_EmptySet DEF Counted, Init
<1> QED BY <1>2, <1>3, <1>4, <1>6 DEF Inv

-----------------------------------------------------------------------------
(***************************************************************************)
(* Registration and the workers' ends do not touch the jobs.               *)
(***************************************************************************)

LEMMA RegisterInv ==
  ASSUME Inv, NEW w \in Worker, Register(w)
  PROVE  Inv'
<1>1. TypeOK'
  BY DEF Inv, TypeOK, Register, mainVars, jobVars, mapVars, killVars
<1>2. Places'
  BY DEF Inv, TypeOK, Places, Apart, Held, WorkedIsRecorded, Registered,
         Register, jobVars, mapVars
<1>3. Outputs' /\ Phases' /\ Counted'
  BY DEF Inv, Outputs, Phases, MapsDone, ReducesDone, Counted, DoneJobs,
         Expected, Register, mainVars, jobVars
<1> QED BY <1>1, <1>2, <1>3 DEF Inv

LEMMA RecordInv ==
  ASSUME Inv, NEW w \in Worker, Record(w)
  PROVE  Inv'
<1>1. TypeOK'
  BY DEF Inv, TypeOK, Record, mainVars, jobVars, channelVars, killVars
<1>2. Places'
  BY DEF Inv, TypeOK, Places, Apart, Held, WorkedIsRecorded, Registered,
         Record, jobVars, channelVars
<1>3. Outputs' /\ Phases' /\ Counted'
  BY DEF Inv, Outputs, Phases, MapsDone, ReducesDone, Counted, DoneJobs,
         Expected, Record, mainVars, jobVars
<1> QED BY <1>1, <1>2, <1>3 DEF Inv

LEMMA WorkerStopsInv ==
  ASSUME Inv, NEW w \in Worker, WorkerStops(w)
  PROVE  Inv'
<1>1. TypeOK' /\ Places'
  BY DEF Inv, TypeOK, Places, Apart, Held, WorkedIsRecorded, Registered,
         WorkerStops, mainVars, jobVars, channelVars, mapVars, killVars
<1>2. Outputs' /\ Phases' /\ Counted'
  BY DEF Inv, Outputs, Phases, MapsDone, ReducesDone, Counted, DoneJobs,
         Expected, WorkerStops, mainVars, jobVars
<1> QED BY <1>1, <1>2 DEF Inv

-----------------------------------------------------------------------------
(***************************************************************************)
(* A step of one job that is not done and does not become done.            *)
(***************************************************************************)

\* What the phases and the count need of such a step.
LEMMA UndoneJobStep ==
  ASSUME Inv, NEW j \in Job, UNCHANGED mainVars,
         NEW r \in [st : JobSt, w : Worker \cup {NoWorker}],
         job' = [job EXCEPT ![j] = r],
         job[j].st \notin {"none", "done"}, r.st \notin {"none", "done"}
  PROVE  Phases' /\ Counted'
<1>1. \A i \in Job : /\ job'[i].st = "done" <=> job[i].st = "done"
                     /\ job'[i].st = "none" <=> job[i].st = "none"
  BY DEF Inv, TypeOK
<1>2. MapsDone' <=> MapsDone
  BY <1>1, JobsDisjoint DEF MapsDone
<1>3. ReducesDone' <=> ReducesDone
  BY <1>1, JobsDisjoint DEF ReducesDone
<1>4. Phases'
  BY <1>1, <1>2, <1>3, JobsDisjoint DEF Inv, Phases, mainVars
<1>5. DoneJobs' = DoneJobs
  BY <1>1, JobsDisjoint DEF DoneJobs, Expected, mainVars
<1> QED BY <1>4, <1>5 DEF Inv, Counted, mainVars

\* The record that Goto leaves.
LEMMA GotoRecord ==
  ASSUME Inv, NEW j \in Job, NEW st \in JobSt, Goto(j, st)
  PROVE  /\ job' = [job EXCEPT ![j] = [st |-> st, w |-> job[j].w]]
         /\ job' \in [Job -> [st : JobSt, w : Worker \cup {NoWorker}]]
         /\ \A i \in Job : job'[i].w = job[i].w
         /\ \A i \in Job : i # j => job'[i] = job[i]
         /\ job'[j].st = st
         /\ [st |-> st, w |-> job[j].w] \in [st : JobSt, w : Worker \cup {NoWorker}]
<1>1. job[j] \in [st : JobSt, w : Worker \cup {NoWorker}]
  BY DEF Inv, TypeOK
<1>2. job' = [job EXCEPT ![j] = [st |-> st, w |-> job[j].w]]
  BY DEF Goto
<1> QED BY <1>1, <1>2 DEF Inv, TypeOK

LEMMA TakeWorkerInv ==
  ASSUME Inv, NEW j \in Job, NEW w \in Worker, TakeWorker(j, w)
  PROVE  Inv'
<1>1. TypeOK'
  BY DEF Inv, TypeOK, TakeWorker, mainVars, killVars, JobSt
<1>2. \A i \in Job : job'[i] = IF i = j THEN [st |-> "calling", w |-> w]
                                         ELSE job[i]
  BY DEF Inv, TypeOK, TakeWorker
<1>3. Registered' = Registered
  BY DEF Registered, TakeWorker
<1>4. Places'
  <2>1. w \in Registered /\ \A i \in Job : job[i].w # w
    BY DEF Inv, Places, Apart, TakeWorker
  <2>2. w # NoWorker
    OBVIOUS
  <2>3. Apart'
    BY <1>2, <2>1 DEF Inv, Places, Apart, TakeWorker
  <2>4. WorkedIsRecorded'
    BY <1>2 DEF Inv, Places, WorkedIsRecorded, TakeWorker
  <2>5. /\ \A i \in Job : job'[i].w = NoWorker <=>
                            job'[i].st \in {"none", "waiting", "done"}
        /\ \A i \in Job : job'[i].w # NoWorker => job'[i].w \in Registered
    BY <1>2, <2>1, <2>2 DEF Inv, Places
  <2>6. offered' \subseteq Registered
    BY DEF Inv, Places, TakeWorker
  <2>7. Held'
    <3>1. job[j].w = NoWorker
      BY DEF Inv, Places, TakeWorker
    <3>2. offered' = offered \ {w}
      BY DEF TakeWorker
    <3>3. ASSUME NEW v \in Registered \ offered, v # w
          PROVE  \E i \in Job : job'[i].w = v
      <4>1. PICK i \in Job : job[i].w = v
        BY DEF Inv, Places, Held
      <4>2. v # NoWorker
        BY WorkerAssumption DEF Inv, TypeOK, Registered
      <4> QED BY <1>2, <3>1, <4>1, <4>2
    <3>4. job'[j].w = w
      BY <1>2
    <3> QED BY <1>3, <3>2, <3>3, <3>4 DEF Held
  <2> QED BY <1>3, <2>3, <2>4, <2>5, <2>6, <2>7 DEF Places
<1>5. Outputs'
  BY <1>2 DEF Inv, Outputs, TakeWorker
<1>6. Phases' /\ Counted'
  <2>1. [st |-> "calling", w |-> w] \in [st : JobSt, w : Worker \cup {NoWorker}]
    BY DEF JobSt
  <2> QED BY <2>1, UndoneJobStep DEF TakeWorker
<1> QED BY <1>1, <1>4, <1>5, <1>6 DEF Inv

\* A job of a worker in mr.Workers keeps its place while it goes on.
LEMMA GotoPlaces ==
  ASSUME Inv, NEW j \in Job, NEW st \in JobSt, Goto(j, st),
         job[j].st \notin {"none", "waiting", "done"},
         st \notin {"none", "waiting", "done"},
         st \in {"running", "ended", "ok"} => job[j].w \in Workers,
         UNCHANGED <<channelVars, mapVars>>
  PROVE  Places'
<1>1. /\ \A i \in Job : job'[i].w = job[i].w
      /\ \A i \in Job : i # j => job'[i] = job[i]
      /\ job'[j].st = st
  BY GotoRecord
<1>2. Registered' = Registered /\ offered' = offered /\ Workers' = Workers
  BY DEF Registered, channelVars, mapVars
<1>3. Apart'
  BY <1>1, <1>2 DEF Inv, Places, Apart
<1>4. WorkedIsRecorded'
  BY <1>1, <1>2 DEF Inv, Places, WorkedIsRecorded
<1>5. \A i \in Job : job'[i].w = NoWorker <=>
                        job'[i].st \in {"none", "waiting", "done"}
  BY <1>1 DEF Inv, Places
<1>6. \A i \in Job : job'[i].w # NoWorker => job'[i].w \in Registered
  BY <1>1 DEF Inv, Places
<1>7. Held'
  BY <1>1, <1>2 DEF Inv, Places, Held
<1> QED BY <1>2, <1>3, <1>4, <1>5, <1>6, <1>7 DEF Inv, Places

LEMMA StartJobInv ==
  ASSUME Inv, NEW j \in Job, StartJob(j)
  PROVE  Inv'
<1> DEFINE st == "running"
<1>1. st \in JobSt /\ Goto(j, st)
  BY DEF StartJob, JobSt
<1>2. job[j].w \in Workers
  <2>1. job[j].w # NoWorker
    BY DEF Inv, Places, StartJob
  <2>2. job[j].w \in Registered /\ job[j].w \notin offered
    BY <2>1 DEF Inv, Places, Apart, TypeOK
  <2> QED BY <2>2 DEF Inv, TypeOK, Registered, StartJob
<1>3. Places'
  BY <1>1, <1>2, GotoPlaces DEF StartJob
<1>4. Phases' /\ Counted'
  BY <1>1, GotoRecord, UndoneJobStep DEF StartJob
<1>5. TypeOK'
  BY <1>1, GotoRecord DEF Inv, TypeOK, Content, StartJob, mainVars,
     channelVars, mapVars, killVars
<1>6. Outputs'
  BY <1>1, GotoRecord DEF Inv, TypeOK, Outputs, StartJob
<1> QED BY <1>3, <1>4, <1>5, <1>6 DEF Inv

\* A reduce job that runs finds the files of the map jobs complete.
LEMMA FinishJobInv ==
  ASSUME Inv, NEW j \in Job, FinishJob(j)
  PROVE  Inv'
<1> DEFINE st == "ended"
<1>1. st \in JobSt /\ Goto(j, st)
  BY DEF FinishJob, JobSt
<1>2. job[j].w \in Workers
  BY DEF Inv, Places, WorkedIsRecorded, FinishJob
<1>3. Places'
  BY <1>1, <1>2, GotoPlaces DEF FinishJob
<1>4. Phases' /\ Counted'
  BY <1>1, GotoRecord, UndoneJobStep DEF FinishJob
<1>5. TypeOK'
  BY <1>1, GotoRecord DEF Inv, TypeOK, Content, FinishJob, mainVars,
     channelVars, mapVars, killVars
<1>6. j \in ReduceJob => MapsComplete
  BY JobsDisjoint DEF Inv, Phases, MapsDone, Outputs, MapsComplete, FinishJob
<1>7. output' = [output EXCEPT ![j] = "complete"]
  BY <1>6 DEF FinishJob
<1>8. Outputs'
  BY <1>1, <1>7, GotoRecord DEF Inv, TypeOK, Outputs
<1> QED BY <1>3, <1>4, <1>5, <1>8 DEF Inv

LEMMA CallReturnsInv ==
  ASSUME Inv, NEW j \in Job, CallReturns(j)
  PROVE  Inv'
<1> DEFINE st == "ok"
<1>1. st \in JobSt /\ Goto(j, st)
  BY DEF CallReturns, JobSt
<1>2. Places'
  BY <1>1, GotoPlaces DEF Inv, Places, WorkedIsRecorded, CallReturns
<1>3. Phases' /\ Counted'
  BY <1>1, GotoRecord, UndoneJobStep DEF CallReturns
<1>4. TypeOK' /\ Outputs'
  BY <1>1, GotoRecord DEF Inv, TypeOK, Outputs, CallReturns, mainVars,
     channelVars, mapVars, killVars
<1> QED BY <1>2, <1>3, <1>4 DEF Inv

\* A call that fails, because it is refused or the worker crashes.
LEMMA CallFailsInv ==
  ASSUME Inv, NEW j \in Job, CallRefused(j) \/ WorkerCrashes(j)
  PROVE  Inv'
<1> DEFINE st == "failed"
<1>1. /\ st \in JobSt /\ Goto(j, st)
      /\ job[j].st \in {"calling", "running", "ended"}
      /\ UNCHANGED <<mainVars, output, channelVars, mapVars, killVars>>
      /\ stopped' \in {stopped, stopped \cup {job[j].w}}
  BY DEF CallRefused, WorkerCrashes, JobSt
<1>2. job[j].w \in Worker
  BY <1>1 DEF Inv, TypeOK, Places
<1>3. Places'
  BY <1>1, GotoPlaces
<1>4. Phases' /\ Counted'
  BY <1>1, GotoRecord, UndoneJobStep
<1>5. TypeOK' /\ Outputs'
  BY <1>1, <1>2, GotoRecord DEF Inv, TypeOK, Outputs, mainVars,
     channelVars, mapVars, killVars
<1> QED BY <1>3, <1>4, <1>5 DEF Inv

-----------------------------------------------------------------------------
(***************************************************************************)
(* RunMaster: the results of jobs, and from one phase to the next.         *)
(***************************************************************************)

\* The goroutine that reported returns its worker: job j has none any more
\* and the worker is on offer.
LEMMA ReturnPlaces ==
  ASSUME Inv, NEW j \in Job, NEW st \in {"waiting", "done"},
         job[j].st \in {"ok", "failed"},
         job' = [job EXCEPT ![j] = [st |-> st, w |-> NoWorker]],
         offered' = offered \cup {job[j].w}, UNCHANGED <<registering, mapVars>>
  PROVE  /\ Places'
         /\ job[j].w \in Worker
         /\ job' \in [Job -> [st : JobSt, w : Worker \cup {NoWorker}]]
<1>1. \A i \in Job : job'[i] = IF i = j THEN [st |-> st, w |-> NoWorker]
                                         ELSE job[i]
  BY DEF Inv, TypeOK
<1>2. job[j].w # NoWorker /\ job[j].w \in Worker
  BY DEF Inv, TypeOK, Places
<1>3. Registered' = Registered /\ Workers' = Workers
  BY DEF Registered, mapVars
<1>4. Apart'
  BY <1>1, <1>2 DEF Inv, TypeOK, Places, Apart
<1>5. WorkedIsRecorded'
  BY <1>1, <1>3 DEF Inv, Places, WorkedIsRecorded
<1>6. \A i \in Job : job'[i].w = NoWorker <=>
                        job'[i].st \in {"none", "waiting", "done"}
  BY <1>1 DEF Inv, Places
<1>7. \A i \in Job : job'[i].w # NoWorker => job'[i].w \in Registered
  BY <1>1 DEF Inv, Places
<1>8. offered' \subseteq Registered
  BY <1>2 DEF Inv, Places
<1>9. job' \in [Job -> [st : JobSt, w : Worker \cup {NoWorker}]]
  BY DEF Inv, TypeOK, JobSt
<1>10. Held'
  BY <1>1, <1>3 DEF Inv, Places, Held
<1> QED BY <1>2, <1>3, <1>4, <1>5, <1>6, <1>7, <1>8, <1>9, <1>10 DEF Places

LEMMA ReceiveFailureInv ==
  ASSUME Inv, NEW j \in Job, ReceiveFailure(j)
  PROVE  Inv'
<1>1. /\ Places' /\ job[j].w \in Worker
      /\ job' \in [Job -> [st : JobSt, w : Worker \cup {NoWorker}]]
  BY ReturnPlaces DEF ReceiveFailure, Waiting
<1>2. TypeOK'
  BY <1>1 DEF Inv, TypeOK, ReceiveFailure, mainVars, mapVars, killVars
<1>3. Outputs'
  BY DEF Inv, TypeOK, Outputs, ReceiveFailure, Waiting
<1>4. Phases' /\ Counted'
  <2>1. Waiting \in [st : JobSt, w : Worker \cup {NoWorker}]
    BY DEF Waiting, JobSt
  <2>2. Waiting.st = "waiting"
    BY DEF Waiting
  <2> QED BY <2>1, <2>2, UndoneJobStep DEF ReceiveFailure
<1> QED BY <1>1, <1>2, <1>3, <1>4 DEF Inv

LEMMA ReceiveSuccessInv ==
  ASSUME Inv, NEW j \in Job, ReceiveSuccess(j)
  PROVE  Inv'
<1>1. /\ Places' /\ job[j].w \in Worker
      /\ job' \in [Job -> [st : JobSt, w : Worker \cup {NoWorker}]]
  BY ReturnPlaces DEF ReceiveSuccess
<1>2. \A i \in Job : job'[i] = IF i = j THEN [st |-> "done", w |-> NoWorker]
                                         ELSE job[i]
  BY DEF Inv, TypeOK, ReceiveSuccess
<1>3. TypeOK'
  BY <1>1 DEF Inv, TypeOK, ReceiveSuccess, mapVars, killVars
<1>4. Outputs'
  BY <1>2 DEF Inv, Outputs, ReceiveSuccess
<1>5. /\ phase \in {"map", "reduce"} /\ phase' = phase /\ j \in Expected
      /\ Expected' = Expected
  BY DEF ReceiveSuccess, Expected
<1>6. MapsDone => MapsDone'
  BY <1>2, JobsDisjoint DEF MapsDone
<1>7. Phases'
  BY <1>2, <1>5, <1>6, JobsDisjoint DEF Inv, Phases, Expected, ReceiveSuccess
<1>8. Counted'
  <2>1. DoneJobs' = DoneJobs \cup {j} /\ j \notin DoneJobs
    <3>1. Expected \subseteq Job
      BY JobsDisjoint DEF Expected
    <3> QED BY <1>2, <1>5, <3>1 DEF DoneJobs, ReceiveSuccess
  <2>2. IsFiniteSet(Expected) /\ DoneJobs \subseteq Expected
    BY <1>5, JobsCounted DEF Expected, DoneJobs
  <2>3. IsFiniteSet(DoneJobs)
    BY <2>2, FS_Subset
  <2>4. Cardinality(DoneJobs') = Cardinality(DoneJobs) + 1
    BY <2>1, <2>3, FS_AddElement
  <2> QED BY <1>5, <2>4 DEF Inv, Counted, ReceiveSuccess
<1> QED BY <1>1, <1>3, <1>4, <1>7, <1>8 DEF Inv

\* A phase whose count is full has all its jobs done.
LEMMA CountFull ==
  ASSUME Inv
  PROVE  /\ phase = "map" /\ succ = nMap => MapsDone
         /\ phase = "reduce" /\ succ = nReduce => ReducesDone
<1>1. ASSUME phase = "map", succ = nMap PROVE MapsDone
  <2>1. DoneJobs \subseteq MapJob /\ Cardinality(DoneJobs) = Cardinality(MapJob)
    BY <1>1, JobsCounted DEF Inv, Counted, DoneJobs, Expected
  <2>2. DoneJobs = MapJob
    BY <2>1, JobsCounted, FullSubset
  <2> QED BY <2>2 DEF DoneJobs, MapsDone
<1>2. ASSUME phase = "reduce", succ = nReduce PROVE ReducesDone
  <2>1. /\ DoneJobs \subseteq ReduceJob
        /\ Cardinality(DoneJobs) = Cardinality(ReduceJob)
    BY <1>2, JobsCounted DEF Inv, Counted, DoneJobs, Expected
  <2>2. DoneJobs = ReduceJob
    BY <2>1, JobsCounted, FullSubset
  <2> QED BY <2>2 DEF DoneJobs, ReducesDone
<1> QED BY <1>1, <1>2

LEMMA StartReduceInv ==
  ASSUME Inv, StartReduce
  PROVE  Inv'
<1>1. MapsDone /\ \A r \in ReduceJob : job[r].st = "none"
  BY CountFull DEF Inv, Phases, StartReduce
<1>2. /\ \A m \in MapJob : job'[m] = job[m]
      /\ \A r \in ReduceJob : job'[r] = Waiting
      /\ \A i \in Job : job'[i] = job[i] \/ job'[i] = Waiting
  BY JobsDisjoint DEF StartReduce
<1>3. Waiting \in [st : JobSt, w : Worker \cup {NoWorker}]
      /\ Waiting.st = "waiting" /\ Waiting.w = NoWorker
  BY DEF Waiting, JobSt
<1>4. TypeOK'
  BY <1>3 DEF Inv, TypeOK, Phase, StartReduce, channelVars, mapVars, killVars
<1>5. Places'
  <2>1. UNCHANGED <<Registered, offered, Workers>>
    BY DEF StartReduce, Registered, channelVars, mapVars
  <2>2. \A r \in ReduceJob : job[r].w = NoWorker
    BY <1>1, JobsDisjoint DEF Inv, Places
  <2>3. \A i \in Job : job'[i].w = job[i].w
    BY <1>2, <1>3, <2>2 DEF Job
  <2>4. Held' /\ Apart'
    BY <2>1, <2>3 DEF Inv, Places, Held, Apart
  <2> QED
    BY <1>2, <1>3, <2>1, <2>4 DEF Inv, TypeOK, Places, WorkedIsRecorded
<1>6. Outputs'
  BY <1>2, <1>3 DEF Inv, Outputs, StartReduce
<1>7. MapsDone'
  BY <1>1, <1>2 DEF MapsDone
<1>8. phase' = "reduce" /\ succ' = 0
  BY DEF StartReduce
<1>9. Phases'
  BY <1>7, <1>8 DEF Phases
<1>10. DoneJobs' = {}
  BY <1>2, <1>3, <1>8 DEF DoneJobs, Expected
<1>11. Counted'
  BY <1>8, <1>10, FS_EmptySet DEF Counted
<1> QED BY <1>4, <1>5, <1>6, <1>9, <1>11 DEF Inv

\* A step of Run() past the reduce phase, or its end by a data race.
LEMMA LeaveInv ==
  ASSUME Inv, phase' \in Phase \ {"map", "reduce"},
         phase' # "fatal" => MapsDone /\ ReducesDone,
         UNCHANGED <<succ, jobVars, channelVars, mapVars, stopped>>,
         shutdown' \subseteq Workers, told' \subseteq shutdown'
  PROVE  Inv'
<1>1. TypeOK' /\ Places'
  BY DEF Inv, TypeOK, Places, Apart, Held, WorkedIsRecorded, Registered,
         jobVars, channelVars, mapVars
<1>2. Outputs' /\ Phases' /\ Counted'
  BY DEF Inv, Outputs, Phases, MapsDone, ReducesDone, Counted, jobVars
<1> QED BY <1>1, <1>2 DEF Inv

LEMMA MainInv ==
  ASSUME Inv, Main
  PROVE  Inv'
<1> USE DEF Proceed
<1>1. CASE StartReduce
  BY <1>1, StartReduceInv
<1>2. CASE StartKill
  <2>1. MapsDone /\ ReducesDone
    BY <1>2, CountFull DEF StartKill, Inv, Phases
  <2> QED
    BY <1>2, <2>1, LeaveInv DEF StartKill, Phase, Inv, TypeOK, killVars
<1>3. CASE \E w \in Worker : KillWorker(w)
  BY <1>3, LeaveInv DEF KillWorker, Phase, Inv, TypeOK, Phases, mainVars
<1>4. CASE EndKill \/ Merge \/ Cleanup \/ Done
  BY <1>4, LeaveInv DEF EndKill, Merge, Cleanup, Done, Phase, Inv, TypeOK,
                        Phases, killVars
<1> QED BY <1>1, <1>2, <1>3, <1>4 DEF Main

LEMMA NextInv ==
  ASSUME Inv, [Next]_vars
  PROVE  Inv'
<1>1. CASE \E w \in Worker : Register(w) \/ Record(w) \/ WorkerStops(w)
  BY <1>1, RegisterInv, RecordInv, WorkerStopsInv
<1>2. CASE \E j \in Job, w \in Worker : TakeWorker(j, w)
  BY <1>2, TakeWorkerInv
<1>3. CASE \E j \in Job : JobStep(j) \/ WorkerCrashes(j)
  BY <1>3, StartJobInv, FinishJobInv, CallReturnsInv, CallFailsInv,
     ReceiveSuccessInv, ReceiveFailureInv DEF JobStep
<1>4. CASE Main
  BY <1>4, MainInv
<1>5. CASE RaceCaught
  BY <1>5, LeaveInv DEF RaceCaught, Phase, Inv, TypeOK, killVars
<1>6. CASE UNCHANGED vars
  BY <1>6 DEF vars, mainVars, jobVars, channelVars, mapVars, killVars, Inv,
     TypeOK, Places, Apart, Held, WorkedIsRecorded, Registered, Outputs,
     Phases, MapsDone, ReducesDone, Counted, DoneJobs, Expected
<1> QED BY <1>1, <1>2, <1>3, <1>4, <1>5, <1>6 DEF Next

-----------------------------------------------------------------------------
\* The inductive invariant holds in every run.
THEOREM Invariance == Spec => []Inv
<1>1. Inv /\ [Next]_vars => Inv'
  BY NextInv
<1> QED BY InitInv, <1>1, PTL DEF Spec

\* The state has its shape for any number of workers and jobs.
THEOREM TypeCorrect == Spec => []TypeOK
<1>1. Inv => TypeOK BY DEF Inv
<1> QED BY Invariance, <1>1, PTL

\* A registered worker is always either on offer or with exactly one job:
\* none is lost, however many attempts fail.
THEOREM OnePlace == Spec => []WorkerInOnePlace
<1>1. Inv => WorkerInOnePlace BY OnePlaceEach DEF Inv
<1> QED BY Invariance, <1>1, PTL

\* KillWorkers finds everybody who began a job in mr.Workers.
THEOREM Recorded == Spec => []WorkedIsRecorded
<1>1. Inv => WorkedIsRecorded BY DEF Inv, Places
<1> QED BY Invariance, <1>1, PTL

\* The reduce phase works on the complete files of all map jobs.
THEOREM ReducesReadMaps == Spec => []ReducesReadCompleteMaps
<1>1. Inv => ReducesReadCompleteMaps
  BY JobsDisjoint DEF Inv, Phases, MapsDone, Outputs, MapsComplete,
                      ReducesReadCompleteMaps
<1> QED BY Invariance, <1>1, PTL

\* The merge works on the complete results of all reduce jobs.
THEOREM MergesResults == Spec => []MergesCompleteResults
<1>1. Inv => MergesCompleteResults
  BY JobsDisjoint DEF Inv, Phases, ReducesDone, Outputs, MergesCompleteResults
<1> QED BY Invariance, <1>1, PTL

-----------------------------------------------------------------------------
(***************************************************************************)
(* The implementation of MapReduceRun.                                     *)
(***************************************************************************)
DoneSet == {j \in Job : job[j].st = "done"}
Stage   == IF phase = "fatal" THEN "dead"
           ELSE IF phase \in {"merged", "cleaned", "done"} THEN "merged" ELSE "jobs"

\* A job with a goroutine or a worker may be worked on.
LEMMA Opened == ASSUME Inv, NEW j \in Job, job[j].st \notin {"none", "waiting", "done"}
                PROVE  Run!Open(j)
<1>1. j \notin DoneSet
  BY DEF DoneSet
<1>2. j \in ReduceJob => MapJob \subseteq DoneSet
  BY JobsDisjoint DEF Inv, Phases, MapsDone, DoneSet
<1>3. Stage \in {"jobs", "dead"}
  <2>1. phase \notin {"merged", "cleaned", "done"}
    BY DEF Inv, Phases, MapsDone, ReducesDone, Job
  <2> QED BY <2>1 DEF Stage
<1> QED BY <1>1, <1>2, <1>3 DEF Run!Open, DoneSet, Stage

\* A step of a job that is not done, and is not done after it, attempts it or
\* leaves its files alone.
LEMMA GotoAttempts ==
  ASSUME Inv, Inv', NEW j \in Job, job[j].st \notin {"none", "waiting", "done"},
         \A i \in Job : i # j => job'[i] = job[i],
         job'[j].st # "done", phase' = phase,
         \/ output' = output
         \/ \E left \in {"partial", "complete"} : output' = [output EXCEPT ![j] = left]
  PROVE  [Run!Next]_Run!vars
<1>1. DoneSet' = DoneSet /\ Stage' = Stage
  BY DEF DoneSet, Stage
<1>2. CASE output' = output
  BY <1>1, <1>2 DEF Run!vars, DoneSet, Stage
<1>3. CASE \E left \in {"partial", "complete"} : output' = [output EXCEPT ![j] = left]
  <2>1. Run!Attempt(j)
    BY <1>1, <1>3, Opened DEF Run!Attempt, DoneSet, Stage
  <2> QED BY <2>1 DEF Run!Next, Run!Job, Job
<1> QED BY <1>2, <1>3

LEMMA JobStepImplements ==
  ASSUME Inv, Inv', NEW j \in Job, JobStep(j) \/ WorkerCrashes(j)
  PROVE  [Run!Next]_Run!vars
<1>1. \A st \in JobSt : Goto(j, st) => /\ \A i \in Job : i # j => job'[i] = job[i]
                                       /\ job'[j].st = st
  BY GotoRecord
<1>2. CASE StartJob(j)
  BY <1>1, <1>2, GotoAttempts DEF StartJob, JobSt, mainVars
<1>3. CASE FinishJob(j)
  <2>1. j \in ReduceJob => MapsComplete
    BY <1>3, JobsDisjoint DEF Inv, Phases, MapsDone, Outputs, MapsComplete, FinishJob
  <2>2. output' = [output EXCEPT ![j] = "complete"]
    BY <1>3, <2>1 DEF FinishJob
  <2> QED BY <1>1, <1>3, <2>2, GotoAttempts DEF FinishJob, JobSt, mainVars
<1>4. CASE CallReturns(j)
  BY <1>1, <1>4, GotoAttempts DEF CallReturns, JobSt, mainVars
<1>5. CASE CallRefused(j) \/ WorkerCrashes(j)
  BY <1>1, <1>5, GotoAttempts DEF CallRefused, WorkerCrashes, JobSt, mainVars
<1>6. CASE ReceiveFailure(j)
  BY <1>6, GotoAttempts DEF ReceiveFailure, Waiting, mainVars, Inv, TypeOK
<1>7. CASE ReceiveSuccess(j)
  <2>1. /\ job' = [job EXCEPT ![j] = [st |-> "done", w |-> NoWorker]]
        /\ job[j].st = "ok" /\ output' = output /\ phase' = phase
        /\ phase \in {"map", "reduce"}
    BY <1>7 DEF ReceiveSuccess, Expected
  <2>2. DoneSet' = DoneSet \cup {j}
    BY <2>1 DEF DoneSet, Inv, TypeOK
  <2>3. Stage = "jobs" /\ Stage' = Stage
    BY <2>1 DEF Stage
  <2>4. output' = [output EXCEPT ![j] = "complete"]
    BY <2>1 DEF Inv, TypeOK, Outputs
  <2>5. Run!Open(j)
    BY <2>1, Opened
  <2>6. Run!Settle(j)
    BY <2>2, <2>3, <2>4, <2>5 DEF Run!Settle, DoneSet, Stage
  <2> QED BY <2>6 DEF Run!Next, Run!Job, Job
<1> QED BY <1>2, <1>3, <1>4, <1>5, <1>6, <1>7 DEF JobStep

\* The steps that do not change what is done or written.
LEMMA Kept == ASSUME DoneSet' = DoneSet, output' = output, Stage' = Stage
              PROVE  [Run!Next]_Run!vars
  BY DEF Run!vars, DoneSet, Stage

LEMMA MainImplements ==
  ASSUME Inv, Inv', Main
  PROVE  [Run!Next]_Run!vars
<1> USE DEF Proceed, jobVars, mainVars
<1>1. CASE StartReduce
  <2>1. \A r \in ReduceJob : job[r].st = "none"
    BY <1>1 DEF Inv, Phases, StartReduce
  <2>2. \A i \in Job : job'[i].st = "done" <=> job[i].st = "done"
    BY <1>1, <2>1 DEF StartReduce, Waiting
  <2> QED BY <1>1, <2>2, Kept DEF StartReduce, DoneSet, Stage
<1>2. CASE StartKill \/ EndKill \/ Cleanup \/ Done \/ \E w \in Worker : KillWorker(w)
  BY <1>2, Kept DEF StartKill, EndKill, Cleanup, Done, KillWorker, DoneSet, Stage
<1>3. CASE Merge
  <2>1. DoneSet = Job
    BY <1>3 DEF Merge, Inv, Phases, MapsDone, ReducesDone, DoneSet, Job
  <2>2. Run!Merge
    BY <1>3, <2>1 DEF Merge, Run!Merge, Run!Job, Job, DoneSet, Stage
  <2> QED BY <2>2 DEF Run!Next
<1> QED BY <1>1, <1>2, <1>3 DEF Main

LEMMA StepImplements ==
  ASSUME Inv, Inv', [Next]_vars
  PROVE  [Run!Next]_Run!vars
<1>1. CASE \E w \in Worker : Register(w) \/ Record(w) \/ WorkerStops(w)
  BY <1>1, Kept DEF Register, Record, WorkerStops, mainVars, jobVars, DoneSet, Stage
<1>2. ASSUME NEW j \in Job, NEW w \in Worker, TakeWorker(j, w)
      PROVE  [Run!Next]_Run!vars
  <2>1. \A i \in Job : job'[i].st = "done" <=> job[i].st = "done"
    BY <1>2 DEF TakeWorker, Inv, TypeOK
  <2> QED BY <1>2, <2>1, Kept DEF TakeWorker, mainVars, DoneSet, Stage
<1>3. CASE \E j \in Job : JobStep(j) \/ WorkerCrashes(j)
  BY <1>3, JobStepImplements
<1>4. CASE Main
  BY <1>4, MainImplements
<1>5. CASE RaceCaught
  <2>1. Run!Die
    BY <1>5 DEF RaceCaught, jobVars, Run!Die
  <2> QED BY <2>1 DEF Run!Next
<1>6. CASE UNCHANGED vars
  BY <1>6, Kept DEF vars, mainVars, jobVars, DoneSet, Stage
<1> QED BY <1>1, <1>2, <1>3, <1>4, <1>5, <1>6 DEF Next

\* The distributed run, with any workers that crash at any time, is a run of
\* MapReduceRun, for any numbers of jobs.
THEOREM MasterImplementsRun == Spec => ImplementsRun
<1>1. Init => Run!Init
  BY DEF Init, Run!Init, Run!Job, Job, Waiting, Idle
<1>2. Inv /\ Inv' /\ [Next]_vars => [Run!Next]_Run!vars
  BY StepImplements
<1> QED BY <1>1, <1>2, Invariance, PTL DEF Spec, ImplementsRun, Run!Spec
=============================================================================
