# Specifications of mit_distributed_course_homeworks

The repository holds the labs of a distributed-systems course in Go. Two of them
are written out and carry the logic of the program: the **MapReduce** library
and the **view service** of the primary/backup lab. The other labs (paxos,
kvpaxos, pbservice, shardmaster, shardkv, diskv, most of lockservice) are
skeletons whose handlers are empty, around accept loops, `call()`, client retry
loops and a file store that are complete and modelled as well. Paths below are
relative to `src/src/`.

## Inventory

| Part | State | Operations | Interacts by | What is hard | What makes it correct |
|---|---|---|---|---|---|
| View server (`viewservice/server.go`) | `view`, `primaryAck`, `primaryTick`, `backupTick`, `currentTick`, one mutex | `Ping`, `Get`, `tick` | RPC from p/b servers, a goroutine that ticks | Pings and ticks in any order, delayed Pings, roles that move between slots | one view per number, a view's primary comes out of the view before, changes wait for the acknowledgement, prompt failover |
| P/b servers as clients (`viewservice/client.go`, `pbservice/server.go`) | the last view learnt | `Ping`, `Get`, `Primary` | RPC | crashes, restarts, replies that get lost, requests handled late | clients agree on views, at most one acts as primary, the service recovers |
| MapReduce master (`mapreduce/mapreduce.go`, `master.go`) | `registerChannel`, `jobchan`, `Workers`, a goroutine per job attempt | `Run`, `RunMaster`, `KillWorkers`, `Register`, `Shutdown` | channels, RPC to workers | blocking sends, retries, workers that die, an unlocked map | every job's output complete before it is read, no worker used twice at once, the run ends |
| MapReduce worker (`mapreduce/worker.go`) | `nRPC`, `nJobs` | `DoJob`, `Shutdown`, accept loop | RPC from the master | loop and handlers race on both counters | the number reported, the limit, no call left hanging, the loop ends |
| Data pipeline (`mapreduce/mapreduce.go`, `main/wc.go`) | files `mrtmp.*` | `Split`, `DoMap`, `DoReduce`, `Merge`, `RunSingle` | files | chunk boundaries, reruns | the merged result is the reduction of the whole input |
| Clerks (`shardkv/client.go`, `diskv/client.go`, `shardmaster/client.go`) | `mu`, a cached configuration | `Get`, `PutAppend`, `Query`, `Join`, `Leave`, `Move`: retry loops | `call()` | a call that fails although it was handled, requests left behind, a stale configuration, goroutines that share a clerk | an operation returns only when served and is served twice only after a lost call; the configuration gets newer; every operation returns |
| Disk store (`diskv/server.go`) | files per key and shard | `filePut`, `fileGet`, `fileReadShard`, `fileReplaceShard` | file system | a crash between two file operations, an error of any of them (some are ignored, some end the process), files left over | a key's file is old or new, a replaced shard holds its map and beside it only what a failed removal left |
| Accept loops and `call()` (every server and client) | `dead`, `unreliable`, `dying`, the listener, a request counter | accept, drop, serve, `kill()`, the ticker | RPC | requests and replies dropped, `kill()` at any moment, errors of Accept | `call()` answers only for a handler that ran, once; every call returns; a dead server stops |
| Lock service (`lockservice/`) | `locks` | `Lock` | RPC | concurrent requests, a server that dies while it handles one | a lock has one owner; at most one grant is lost |

`Get`, `PutAppend`, `Start`, `Join` and the other handlers of the skeletons have
empty bodies: there is nothing to model in them. A handler that is empty answers with a
reply whose fields are zero; a real `shardkv.Clerk` in front of such servers retries for ever, so
`ShardClerk` puts any answer the clerks know in their place.

## Modules

**`ViewServer`** is `viewservice/server.go`: its five variables and, since each
handler runs as a whole under `vs.mu`, one action per handler. `Ping(name, num)`
is the disjunction of the arms of the handler's switch; each arm carries the
negation of the arms before it, and `PromoteBackup()` is part of the arms (and
of `Tick`) that call it. `Tick` is `tick()`, with the second test made on
the state the first one leaves. The environment is open: anybody may Ping
with 0 or any number handed out, at any time.

**`ViewSequence`** is what `viewservice/common.go` promises, without clocks: a
sequence of views and whether the current one is acknowledged. `ViewServer`
implements it (`acked` is `Acked()`). The abstract specification lets a promotion overtake
the acknowledgement, which the comment in common.go does not: see
*Disagreements*.

**`ViewAges`** is the same server with the two ticks replaced by how long ago they
were, up to `DeadPings`, and without `currentTick`. It has finitely many states
per view number, which the system below needs for liveness. `ViewServer`
implements it; this is proved, so what is shown of the system with
`ViewAges` holds with the server as it is coded.

**`ViewSystem`** composes `ViewAges` with the servers that Ping it. A p/b server
is running or not, knows the last view it learnt and has at most one call in
flight (`Clerk.Ping` is synchronous). `SendPing` is a Ping up to the return of the
handler, `ReceiveReply` and `CallFails` are the two ways the call returns. `Crash`
loses what the server knows and perhaps leaves its request in the socket
(`delayed`), to be handled later. `restarted` is not state of the program: it notes whose
role in the view dates from before a crash, so that properties can speak
of servers that lost their data. `pbservice`'s own `tick()` is empty; that it
Pings with the last view it learnt is what the comments of common.go and pbservice ask of it.

**`MapReduceMaster`** is a distributed run: `Run()`, `RunMaster()` with one
goroutine per job, `Register` handlers, `KillWorkers`, and workers that stop or
crash. A send on an unbuffered channel is one step with its receive. A
goroutine that is blocked in a send is part of the state: `offered` are the
workers somebody sends on `registerChannel`, and a job in state `ok` or `failed` is
blocked in its send on `jobchan`. Files hold nothing, a part, a wrong or the complete
output: a reduce job whose map files are not complete produces a wrong result.

**`MapReduceRun`** is what a run promises, whoever does its jobs: a job may be attempted any number of times, each attempt leaving any part of its
output; it is done once, with complete output, and its files are not touched again; reduce jobs begin when all map jobs are done, and the merge when
all are. `MapReduceMaster` and `MapReduceData` both implement it, the one forgetting what files hold, the other who wrote them. `MapReduceData` allows in
every state every attempt that `MapReduceRun` does, so that its results about words and keys rest on nothing about workers, channels
and crashes but what `MapReduceMaster` is proved to keep. That step from the one to the other is an argument about the text of the two modules, not a theorem.

**`MapReduceWorker`** is one worker in detail: accept loop and handler as two
threads with separate loads and stores of `nJobs`, which they share without a lock. `AcceptFails` is the loop's `break` at
an error of Accept, for which there is no fairness.

**`MapReduceData`** is what is in the files: `Split` line by line, `DoMap`,
`DoReduce`, `Merge` and `CleanupFiles`. An input is where its lines begin and which words
are in them. The `Map` of main/wc.go emits one pair per word, so a pair is named by the
place of its word, and what a file holds is a set of places: that no word is lost or counted twice can
then be told. Files are functions whose domains say which exist. `DoMapFails` and
`DoReduceFails` are attempts that end half way and leave a part of their output (the cases of
`MapReduceMaster`); the jobs of a phase are done in any order, `RunSingle`'s among them. `MapFatal` is DoMap
of a chunk that `Split` did not create: `log.Fatal`. Simplified: lines end in a newline without carriage return,
and there are no files of an earlier run. A place is in a file or not, so that one attempt which wrote a pair twice into the
same file would not show; that a later attempt adds nothing to what an earlier one left is `os.Create`'s doing, which truncates
(`DoMap` and `DoReduce` write each file anew here).

**`RpcCall`** is what a caller may rely on of `call()`: an answer is that of a handler which
ran for this call; without one the handler ran, or will run, or never runs, at most once.

**`RpcServer`** is what surrounds the handlers: the accept loop, its unreliable mode, `kill()`,
the ticker, and `call()` on the other side. The loops of the eight servers
are copies that differ in six things, which a *kind* records (`PaxosPeer`, `ViewServiceServer`, ...):
whether requests are counted, may be dropped, the DeafConn mode exists, an error of Accept kills the
server, there is a ticker, there is a paxos peer. `kind` is chosen in `Init`, so one run
covers all eight. A connection goes through `backlog` (dialled, not accepted), `held` (the
loop has it), and then `served`, `mute` (shut for writing), `deaf` (lock server) or `closed`. With `mute` the caller
sees the end of the stream before its handler has run; with `deaf` it waits until the timer closes
the connection. `RpcServer` implements `RpcCall`; `doomed` is a history variable. `call()`'s comment ("false if call() was not able to
contact the server") says less than what happens: a call may fail although its handler ran, or runs later.

**`LockService`** gives `RpcServer` its handlers: `Lock` for the lock server, nothing for the others. The handler is two
steps, between which anything else may happen: `ReadTable` takes `ls.mu` and reads, `Lock` writes, lets the mutex go and returns. The
clerk calls the primary only and `Unlock` is a stub on both sides, so a lock is never released and one server is enough.

**`ShardOps`** is what a clerk promises: the operations of the goroutines that share it run one at a time; each returns only when it was served,
and is served twice, or after its return, only if a call of it was lost; the configuration the clerk knows is one that was made and never older than before; a
change is made once before it returns. Nothing of rounds, servers, leaders or Queries is left in it. `ShardClerk` implements it.

**`ShardClerk`** is built on `RpcCall`: goroutines that share one `shardkv.Clerk` (that of `diskv` is the same code), each
with a `Get` or a `PutAppend`, whose `Query`s go to the shardmasters, and an administrator with a `shardmaster.Clerk` of its own that
makes the configurations of a given sequence one after the other. What the clerks do is translated line by line: the mutex, a round over the
servers of the shard's group, what ends a round, the Query, the order of the servers. What servers answer is external: a server
that has the shard accepts, another one refuses, and every deviation and every lost call
counts as one of `MaxFaults`. `served`, `lost` and `mark` are history variables.

**`DiskvFiles`** is the file store of one diskv server: `filePut` is `open`, `write`, `rename`;
`fileReplaceShard` removes entry by entry and then puts key by key in any order. Each file operation may fail, with the outcome the
code gives it: `filePut` returns an error (`OpenFails`, `WriteFails`, `RenameFails`), which `fileReplaceShard` ignores;
`fileReplaceShard` ignores the error of `os.RemoveAll` too and fills a shard in which older keys and temporary files are left (`RemoveFails`); a
failing `Mkdir` in `shardDir` and a failing `ReadDir` or `fileGet` in `fileReadShard` end the process by `log.Fatalf`
(`ShardDirFails`, `FileReadShard`; `status` is then `fatal`). The process may be killed between any two
of these steps, and starts again with the files that are there, or with an empty disk. Histories: `may` is what a
key's file may hold, `kept` what the removal of the replacement that runs left if it failed. `DiskvFiles` implements **`DiskvStore`**, which has one map per shard and no files: a put takes effect in one
step or not at all; a replacement takes out keys of its shard, all of them unless the removal fails, and puts or gives up each key once; the end of the process changes nothing stored. `rename` is
the step at which a put takes effect; what is in a temporary file has no counterpart. The callers of these functions do not exist in the repository; they are taken to hold `kv.mu`.
Nobody else writes in the directories, so that every name there that begins with `key-` is one that `encodeKey` made and can be decoded:
the fourth `log.Fatalf`, of a bad file name (diskv/server.go:120), has no step.

`MC*` modules add symmetry and bounds for TLC; the `*Proofs` modules hold the proofs.

Operators marked *(A possible bug: ...)* are variants of the definition after
them. No specification uses them; each shows what a property is there to exclude.

## Runs

| Run | Shows | Instance |
|---|---|---|
| `viewserver` | counters, roles, prompt failover, both refinements of the server | 3 servers, DeadPings 2, 6 ticks, 6 views |
| `view_system` | clients agree with the server, an acknowledgement is truthful, at most one server acts as primary; requests of crashed callers may be handled late, a late Ping(0) excepted | 3 servers, 4 views, 2 crashes or 1 crash that leaves a request behind |
| `view_liveness` | failover, removal of dead backups, recovery | 3 servers, 2 crashes, views unbounded |
| `mapreduce_master` | no worker is lost or doubled, the run implements `MapReduceRun` and completes | 3 workers, 2 map and 2 reduce jobs; 59,917 states |
| `mapreduce_data` | no word or file is lost or doubled, no chunk is one too many; which inputs run to the end; `MapReduceRun` again | every input of up to 4 lines and 8 bytes; 3 map and 2 reduce jobs; 194,636 states |
| `worker` | reported count, limit, no hanging call | limit 3, up to 4 jobs |
| `servers` | all eight servers with `call()`: they implement `RpcCall`, a call that waits has somebody who will end it, calls return, dead servers stop, late dials are not served; a lock is granted once | 2 concurrent calls, 2 locks, 1 error of Accept; 144,937 states |
| `diskv_files` | files are old or new, a replaced shard holds its map and what a failed removal left; `DiskvStore` is implemented | 1 shard, 2 keys and one too long for a file name, 2 contents; 504,950 states |
| `shard_clerk` | operations return, and once unless a call was lost; configurations only get newer and are fresh when a round begins; `ShardOps` is implemented | 2 goroutines, an administrator, 3 configurations with 2 groups, a dead server and a dead master, 4 calls at a time, 1 fault; 44,419 states |

*Bounds.* `DeadPings` is 5 in the code; 2 is the least value for which a server
can be late and still alive. Three servers are primary, backup and an idle one.
`MaxTick` and `MaxView` let a server be declared dead three times in a row and the
view go through promotion, recruiting and removal more than once. `MaxFaults` bounds the crashes of `ViewSystem`; one that leaves a
request behind counts twice. With `Timely` a view only changes after a crash or a restart, so that
`MaxFaults` alone makes the system finite and `MaxView` (7) is never reached there. Three workers for two
jobs at a time leave both idle workers and, after crashes, jobs that wait. In `MapReduceData` three map jobs are the fewest for which it
matters that `nchunk` is rounded up, and eight bytes the fewest for an input of short lines that gives each its chunk; `MaxToken` (4 here,
64 KiB in bufio) makes lines that are too long. Deadlock is not checked for MapReduce, the servers and the clerks, which end.
In `servers` two calls are enough for one to be in the backlog or held while the other is served, and every property
speaks of at most two; the proofs hold for any number of calls. In `shard_clerk` a fifth call at a time cannot be: each of the three callers has one open, and one fault leaves
one more behind. One fault lets an operation run twice or be refused wrongly, and `EveryOpReturns` needs that faults are finitely many.
One shard is enough for `diskv_files`, where no function touches two; symmetry is over contents and the two short keys.

*Fairness.* `FairSpec` of `ViewSystem`: `tick()` runs in a `for` loop with a sleep
(server.go:213-218), and a running p/b server Pings once per interval (common.go:18) and
its call returns: weak fairness of each. Nothing makes a crashed server restart.
Timing is a further assumption of `Timely`: every running server gets one Ping through
between two ticks, as PingInterval and DeadPings suppose. Without it
a live server may be declared dead again and again and nothing recovers.
`FairSpec` of `MapReduceMaster`: every goroutine that can run does. Senders blocked
on a Go channel wait in a first-in-first-out queue, so that a worker on offer
is taken if workers are taken again and again: strong fairness of `TakeWorker` per
worker. `Completes` supposes one worker that registers and does not stop before the last job is done.
`FairSpec` of `MapReduceWorker`: loop and handlers go on; nothing makes the master call or Accept fail.
`FairSpec` of `LockService`: the accept loop, `kill()` once it began, the ticker, the two-second timer, each caller
and each handler go on; nothing makes anybody call, kill or switch a mode. `FairSpec` of `ShardClerk`: a
goroutine that began goes on, and a live server handles an open request; a request left behind may never run, and
nobody has to begin.

## Disagreements between code and documents

Each is a run that ends with a counterexample.

| Run | The code | The document |
|---|---|---|
| `view_two_primaries` | a Ping(0) of an earlier incarnation, handled late, promotes the backup of a primary that is up | common.go:31: at most one p/b primary operating at a time |
| `view_stuck` | the Ping(0) of a restarted backup renews the view while its primary is dead; nobody can acknowledge the new view | viewservice/README.md:13: if the primary fails, the backup is promoted |
| `mapreduce_race` | `mr.Workers` is written by concurrent handlers and read by KillWorkers without a lock | mapreduce/README.md:180: all goroutines end normally |

In passing: the server goes past an unacknowledged view whenever a primary with a backup Pings with 0
(server.go:82, against common.go:29; `Promote` of `ViewSequence` allows it, and it is a step of the
trace of `view_two_primaries`), and the reply to a worker's Shutdown may count that call
(`NjobsNearlyExact` allows it, worker.go:43 does not). A primary without backup that restarts goes on as primary (viewservice/README.md:18
says that it cannot); workers that are not yet in `mr.Workers` get no Shutdown from `KillWorkers` (master.go:16: each one of them);
and `Split` may make fewer chunks than map jobs, also with as many lines as jobs (mapreduce.go:144: nMap files), of which `RegularRuns` says when it does not matter.
`call()` returns false also for a request that was handled (paxos.go:66 "not able to contact the server").
fileReplaceShard does not always "replace an entire shard directory" nor "remove all existing files from shard" (diskv/server.go:132 and 135): if the
removal fails, which nobody looks at, older keys stay next to the new map; `ReplaceComplete` says which.

## Proofs

`ViewServerProofs`, for every set of servers and every positive `DeadPings`
(`ServerAssumption`, `DeadPingsAssumption`). The inductive invariant `Inv` is the
conjunction of `TypeOK`, `CountersOrdered`, `RolesConsistent` and `FailoverInTime`;
none of the last three is inductive alone: promotion moves `backupTick` into
`primaryTick`, so that bound on the one is needed for the other; `TypeOK` of a
promoted primary needs that it is not the empty name. The refinement of `ViewSequence` needs `Inv` to
know that a promoted or joining server is a server and differs from the
primary. The refinement of `ViewAges` rests on two facts about `Age`:
a tick adds one to an age up to `DeadPings`, and a Ping makes it 0.

`MapReduceMasterProofs`, for every set of workers and any numbers of jobs. The
invariant counts: `succ` is the cardinality of the set of jobs of the phase that are
done. At `succ = nMap` that set has the size of the set of all map jobs and so
is all of them (`CountFull`), and a job that is done has complete output,
for a job is done only if its worker's call returned true. `OnePlace` needs in one direction that a
registering worker is on offer and in no job (`Apart`), in the other that a registered one that is not on offer
is with a job (`Held`): so no retry, failed call or end of the run loses a worker, and the goroutines that block for
ever with one in hand when no job is left (master.go:55) are exactly those in `offered`. In `MasterImplementsRun` a
step of a job is an attempt, a count or a stutter, and needs the phase (`Phases`: no reduce job before all map jobs are done) and that a job that ended left complete
files (`Outputs`). `Recorded` holds because the
handler enters the worker in `mr.Workers` before `Register` returns, and a worker
accepts calls only after that.

`MapReduceDataProofs`, for any numbers of jobs, any words and partition of the keys, and any
bounds on the input. The invariant has one part per stage. `Enough` and `Tight` say where the line read last
begins, behind the first m - 1 and within the first m chunks' worth of bytes; the one gives `ChunksWithinJobs`,
for nMap * nchunk exceeds the size (`ChunkSize`), the other `RegularRuns`. `Split` (each line read is in one
chunk), `Jobs` (a job that is done left exactly its output, whatever was there before) and `Merged`
carry `ResultComplete`: a key is found in the file of one reduce job only (`OneJob`), which therefore has all its values.
`TypeOK` is not inductive alone, since that CleanupFiles removes every chunk needs `ChunksWithinJobs`.
`DataImplementsRun` takes a job's files together: what it holds is complete if all its partitions are, nothing if none exists, a part otherwise. That a later
attempt spoils no job that is done is `Jobs` in the phase of the job and the frame of the phases after it.
The proof needs no induction over the lines because the assumption on the input orders
any two of them, not only neighbours.

`ViewSystemProofs`, for any servers, faults, late Pings and bounds, timely or not. Beside the types `SysInv` says what makes an
acknowledgement trustworthy: whoever the current acknowledgement speaks for knows the current view or nothing (`AckTold`), and a late
Ping that could still acknowledge the current view comes from a caller that knows nothing more (`Behind`). A new view has a new number
and is unacknowledged, so both hold of it trivially, and `AckIsKnown` and `ViewsAgree` follow. For `AtMostOneServing`, `Serving` says of
a server that learnt a view as its primary that it is primary of all newer views (`Still`), or that it was replaced, by that view's
backup, and as long as this backup knows the old view every newer one has the backup as its primary (`Follows`); the replaced one needs that
backup to serve and the backup, while it agrees, does not know to be primary. `StepReplaces` is the only place where a late Ping(0) is excluded
(`OnePrimary` assumes it; `view_two_primaries` shows that it must). With the refinement of `ViewAges` by `ViewServer` this holds of the server as coded.

`MapReduceWorkerProofs`, for any limit and any number of jobs: until Shutdown reports, only the loop writes `nRPC` and `nJobs`, so `nRPC` is the
limit minus the accepted calls and `nJobs` lags by at most one (`Counted`); afterwards no call comes.

`RpcServerProofs`, for every kind, any number of calls and of errors. `CallSane` relates where `call()` is to its connection and
request, `LoopSane` the accept loop to the connection it holds, `Deaf` says that a deaf connection is the one of the dying loop. The refinement of
`RpcCall` goes step by step: only `Run` on a connection whose caller has gone becomes `RunLate`, and only a `mute` one allows it. `NobodyStranded` says of every call that waits who will end it: the loop or a `kill()` about to close the listener, if its connection is in the backlog; the loop, if it holds it; its handler, if served; the timer, if deaf. Its inductive form `Tended` follows the connection from the
dial on; the step that could strand a call is the closing of the listener, which fails what is in the backlog. It is the safety half of
`EveryCallReturns`, for any number of calls. The
properties of `LockService` need in addition `Guarded`, that the handler which holds `ls.mu` is the only one and that what it read of the table is still so, and
`Table`: who was granted a lock had its request run, and the lock is entered. `SpecLocks => Spec` carries
the results about `RpcServer` over to `LockService`.

`DiskvFilesProofs`, for any shards, keys, contents and lengths. `OldOrNew` needs what `rename` finds in the temporary file, which is the content being put;
`ReplaceComplete` needs `Progress`: a key that is put has its content, one that is not yet put or whose `filePut` failed has what the removal left of it (`kept`): nothing if it
found the directory empty in the end (`RemoveDir`), what is still there if it failed (`RemoveFails`).
`FilesImplementStore` goes action by action: `rename` is the abstract `Write`, errors of open, write and rename are `Fail`, the removal of an entry is `Clear`, its end, failed or not, is `Cleared`, everything else but the calls, returns and
crashes stutters. `Shape` supplies what the mapping needs: the temporary file holds the content of the put when it is renamed, and a lone put has no map to go on with.

`ShardClerkProofs`, for any goroutines, operations, configurations, masters, dead servers and faults. The central part is what is known of a call by
where it stands: a call that ran has a reply of its own request, a successful reply was counted in `served`, and without a lost call the one open call of an operation is its only one
(`Replied`, `Served`). `FreshRounds` and `ConfigNeverBackward` need that the configuration in a Query's reply is no older than the mark of who asked and than
the stored one (`Replied` again), and that the mutex keeps another goroutine's reply from being stored in between.
`ClerkImplementsOps` maps all places of the retry loop to "running". A handler that runs for an open call of an operation whose calls were not lost must be its first (`Serve`), which is
`Served` again; one that runs late belongs to a caller in `lost` (`Behind`); one that answers a change makes the next configuration or, repeated, none.
For that the masters must be at most one change ahead of the administrator, `Asked`, which is inductive with the rest: the administrator asks for
number `changes + 1` until an answer came, and a request left behind asks for no more.

Only model-checked: liveness (out of the prover's reach): `Failover`, `BackupRemoved`, `Recovers`, `Completes`, `NoCallLeft`,
`EveryCallReturns`, `DeadStops`, `EveryOpReturns`. Every other property of the passing runs is proved.

Only proved, since a run of the other properties shows no more by them: the type invariants of all modules; `NumberNamesView` and `NewViewUnacked` of the view server,
`ReducesReadCompleteMaps` and `MergesCompleteResults` of the master (both follow from `ImplementsRun`), `SplitPartition` of `Split`, `CountsEveryRun` of the
servers' counters, and `ReturnedMeansRun` of the clerk (part of `ImplementsOps`).

## Plan

1. Core: view server, its clients, MapReduce master and worker (done).
2. `MapReduceData`: the files of a run against what it should count, and what
   happens with fewer chunks than `nMap` (done).
3. `DiskvFiles`: the file operations of diskv with a crash between any two (done).
4. `RpcCall`, `RpcServer`, `ShardClerk`: accept loops that drop requests or replies, and the retry
   loops of the shard clerks (done).
5. `LockService`: the lock table, the dying server and its clerk (done).
6. Proofs of the safety of every module (done).
7. Abstract specifications of a run, of the disk store and of the clerk, and proofs that the modules implement
   them (done).

What could follow needs code that the repository does not have: handlers for paxos and the services on it.

## Not modelled

- Handlers and clerks with empty bodies: paxos' Start, Done, Max, Min and Status; Get, PutAppend and tick of pbservice, kvpaxos, shardkv and diskv;
  Join, Leave, Move and Query of the shardmaster; Unlock of the lock service; the clerks of kvpaxos and pbservice.
- Formatting and logging; the command line programs in `main/`, which read arguments and start servers.
- Setup that fails (`log.Fatal` of `net.Listen`), and a write error of `shutdown(SHUT_WR)`, which the loops print and ignore.
- `RpcServer` and `LockService` take two seconds, the timer of the dying lock server, to be long for a handler, and the plain booleans `dead` and `dying` of that server
  to be seen by the loop once they are written: both are data races in Go, which may in theory go unseen.
- Two goroutines that put the same key of diskv at the same time: its callers, which would hold `kv.mu`, are missing.
