--------------------------- MODULE MapReduceData ---------------------------
(***************************************************************************)
(* The files of a MapReduce run (mapreduce/mapreduce.go): Split cuts the   *)
(* input into chunks, DoMap partitions the pairs of a chunk, DoReduce      *)
(* collects the values of each key, Merge puts the results together and    *)
(* CleanupFiles removes it all.  RunSingle and Run differ in the order of  *)
(* the jobs, and in Run a job may be done again after an attempt that      *)
(* failed: here the jobs of a phase are done in any order, after any       *)
(* number of such attempts.                                                *)
(*                                                                         *)
(* An input is a number of lines, where they end and the words in them.    *)
(* Map emits a pair per word (main/wc.go), so that a pair is named by the  *)
(* place of its word, and what Reduce gets for a key is a set of pairs     *)
(* <<map job, place>>: a word counted twice would be in it twice.  The     *)
(* files are functions whose domains are the files that exist.             *)
(***************************************************************************)
EXTENDS Integers, Sequences

CONSTANTS nMap, nReduce,
          Key,       \* the words of the input
          Part,      \* ihash(key) % nreduce
          LineWords, \* what a line may consist of: sequences of words
          MaxToken,  \* the longest line bufio.Scanner returns
          MaxLines, MaxBytes \* bounds on the input

ASSUME JobsAssumption  == nMap \in Nat \ {0} /\ nReduce \in Nat \ {0}
ASSUME WordsAssumption == LineWords \subseteq Seq(Key) /\ Part \in [Key -> 0..nReduce-1]
ASSUME BoundAssumption == MaxLines \in Nat /\ MaxBytes \in Nat /\ MaxToken \in Nat
MapNo    == 0..nMap-1
ReduceNo == 0..nReduce-1

VARIABLES
    n,       \* how many lines the input has
    at,      \* where line l + 1 begins
    words,   \* the words of each line
    size,    \* the size of the input file
    phase,
    scanned, \* how many lines Split has read
    m,       \* how many chunks it has created
    chunk,   \* the chunks: their lines
    part,    \* the files of a map and a reduce job: places of words
    result,  \* the files of a reduce job: for each key its pairs
    merged,  \* what the final file has for each key
    done     \* the jobs of this phase that were done

inputVars == <<n, at, words, size>>
splitVars == <<scanned, m, chunk>>
vars == <<inputVars, phase, splitVars, part, result, merged, done>>

\* Line l is at[l-1]..at[l]-1.  The lines follow each other and have room for
\* their words; only the last one may lack its newline, which Split adds.
Init ==
    /\ n \in 0..MaxLines
    /\ at \in [0..n -> 0..MaxBytes]
    /\ at[0] = 0 /\ \A j, k \in 0..n : j < k => at[j] < at[k]
    /\ size \in {at[n], at[n] - 1} /\ size >= 0 /\ (n > 0 => size > at[n-1])
    /\ words \in [1..n -> LineWords]
    /\ \A l \in 1..n : 2 * Len(words[l]) <= at[l] - at[l-1]
    /\ phase = "split"
    /\ scanned = 0
    /\ m = 1 /\ chunk = [k \in {0} |-> {}]
    /\ part = [j \in {} |-> {}]
    /\ result = [r \in {} |-> {}]
    /\ merged = [key \in {} |-> {}]
    /\ done = {}

-----------------------------------------------------------------------------
(***************************************************************************)
(* Split: per line the loop opens at most one new chunk.                   *)
(***************************************************************************)
TooLong(l) == at[l] - at[l-1] > MaxToken

\* (A possible bug: chunks of size / nMap bytes.)
nchunkExact == size \div nMap

nchunk == size \div nMap + 1

\* (A possible bug: a chunk is opened a chunk too late.)
OpensLate == at[scanned] > nchunk * (m + 1)

Opens == at[scanned] > nchunk * m

\* The line goes to chunk k, which is created if it is the next one.
WriteLine(k, l) ==
    chunk' = [c \in 0..k |-> (IF c < m THEN chunk[c] ELSE {})
                             \cup (IF c = k THEN {l} ELSE {})]

SplitLine ==
    /\ phase = "split"
    /\ scanned < n /\ ~TooLong(scanned + 1)
    /\ m' = IF Opens THEN m + 1 ELSE m
    /\ WriteLine(m' - 1, scanned + 1)
    /\ scanned' = scanned + 1
    /\ UNCHANGED <<inputVars, phase, part, result, merged, done>>

\* The scanner is at its end, or at a line that is too long for it; Split
\* does not tell the two apart.
SplitEnd ==
    /\ phase = "split"
    /\ scanned < n => TooLong(scanned + 1)
    /\ phase' = "map"
    /\ UNCHANGED <<inputVars, splitVars, part, result, merged, done>>

-----------------------------------------------------------------------------
(***************************************************************************)
(* DoMap.                                                                  *)
(***************************************************************************)
Place    == UNION {{l} \X DOMAIN words[l] : l \in 1..n}
KeyAt(p) == words[p[1]][p[2]]

\* What Map makes of chunk i for reduce job r.
Partition(i, r) == {p \in Place : p[1] \in chunk[i] /\ Part[KeyAt(p)] = r}

\* The files for the reduce jobs below k are written, and of that for k a part.
WritePartitions(i, k, cut) ==
    part' = [j \in DOMAIN part \cup ({i} \X (0..k)) |->
                IF j = <<i, k>> THEN cut
                ELSE IF j[1] = i /\ j[2] < k THEN Partition(i, j[2]) ELSE part[j]]

\* Split may not have created the chunk: log.Fatal, by whoever does the job.
MapFatal(i) ==
    /\ phase = "map" /\ i \notin DOMAIN chunk
    /\ phase' = "fatal"
    /\ UNCHANGED <<inputVars, splitVars, part, result, merged, done>>

DoMap(i) ==
    /\ phase = "map" /\ i \notin done /\ i \in DOMAIN chunk
    /\ WritePartitions(i, nReduce - 1, Partition(i, nReduce - 1))
    /\ done' = done \cup {i}
    /\ UNCHANGED <<inputVars, phase, splitVars, result, merged>>

\* (A possible bug: an attempt that was given up still writes.)
DoMapFailsLate(i, k) ==
    /\ phase = "map" /\ i \in DOMAIN chunk
    /\ \E cut \in SUBSET Partition(i, k) : WritePartitions(i, k, cut)
    /\ UNCHANGED <<inputVars, phase, splitVars, result, merged, done>>

\* An attempt that ends with its worker, or whose reply is lost.
DoMapFails(i, k) ==
    /\ phase = "map" /\ i \notin done /\ i \in DOMAIN chunk
    /\ \E cut \in SUBSET Partition(i, k) : WritePartitions(i, k, cut)
    /\ UNCHANGED <<inputVars, phase, splitVars, result, merged, done>>

\* (A possible bug: one map job is not waited for.)
StartReduceEarly ==
    /\ phase = "map" /\ \E i \in MapNo : MapNo \ {i} \subseteq done
    /\ phase' = "reduce" /\ done' = {}
    /\ UNCHANGED <<inputVars, splitVars, part, result, merged>>

StartReduce ==
    /\ phase = "map" /\ done = MapNo
    /\ phase' = "reduce" /\ done' = {}
    /\ UNCHANGED <<inputVars, splitVars, part, result, merged>>

-----------------------------------------------------------------------------
(***************************************************************************)
(* DoReduce, Merge and CleanupFiles.                                       *)
(***************************************************************************)
\* (A possible bug: the values of the last file only.)
ValuesOfLast(r, key) ==
    {v \in MapNo \X Place : v[1] = nMap - 1 /\ v[2] \in part[<<v[1], r>>] /\ KeyAt(v[2]) = key}

\* The values of a key that reduce job r finds in its files.
Values(r, key) ==
    {v \in MapNo \X Place : v[2] \in part[<<v[1], r>>] /\ KeyAt(v[2]) = key}

\* The result for the keys in `written`; the file is created anew.
WriteResult(r, written) ==
    result' = [q \in DOMAIN result \cup {r} |->
                  IF q = r
                  THEN [key \in Key |-> IF key \in written THEN Values(r, key) ELSE {}]
                  ELSE result[q]]

DoReduce(r) ==
    /\ phase = "reduce" /\ r \notin done
    /\ WriteResult(r, Key)
    /\ done' = done \cup {r}
    /\ UNCHANGED <<inputVars, phase, splitVars, part, merged>>

DoReduceFails(r, written) ==
    /\ phase = "reduce" /\ r \notin done
    /\ WriteResult(r, written)
    /\ UNCHANGED <<inputVars, phase, splitVars, part, merged, done>>

StartMerge ==
    /\ phase = "reduce" /\ done = ReduceNo
    /\ phase' = "merge" /\ done' = {}
    /\ UNCHANGED <<inputVars, splitVars, part, result, merged>>

\* kvs[key] is what the last file with that key says.
Found(key)  == {r \in ReduceNo : result[r][key] # {}}
LastOf(key) == CHOOSE r \in Found(key) : \A q \in Found(key) : q <= r

Merge ==
    /\ phase = "merge"
    /\ merged' = [key \in Key |-> IF Found(key) = {} THEN {} ELSE result[LastOf(key)][key]]
    /\ phase' = "merged"
    /\ UNCHANGED <<inputVars, splitVars, part, result, done>>

\* (A possible bug: the results are forgotten.)
CleanupFilesShort ==
    /\ phase = "merged"
    /\ chunk' = [c \in DOMAIN chunk \ MapNo |-> chunk[c]]
    /\ part' = [j \in DOMAIN part \ (MapNo \X ReduceNo) |-> part[j]]
    /\ merged' = [key \in {} |-> {}]
    /\ phase' = "cleaned"
    /\ UNCHANGED <<inputVars, scanned, m, result, done>>

\* CleanupFiles removes what nMap and nReduce name.
CleanupFiles ==
    /\ phase = "merged"
    /\ chunk' = [c \in DOMAIN chunk \ MapNo |-> chunk[c]]
    /\ part' = [j \in DOMAIN part \ (MapNo \X ReduceNo) |-> part[j]]
    /\ result' = [r \in DOMAIN result \ ReduceNo |-> result[r]]
    /\ merged' = [key \in {} |-> {}]
    /\ phase' = "cleaned"
    /\ UNCHANGED <<inputVars, scanned, m, done>>

Next ==
    \/ SplitLine \/ SplitEnd
    \/ \E i \in MapNo : MapFatal(i) \/ DoMap(i)
    \/ \E i \in MapNo, k \in ReduceNo : DoMapFails(i, k)
    \/ StartReduce
    \/ \E r \in ReduceNo : DoReduce(r)
    \/ \E r \in ReduceNo, written \in SUBSET Key : DoReduceFails(r, written)
    \/ StartMerge \/ Merge \/ CleanupFiles

Spec == Init /\ [][Next]_vars

-----------------------------------------------------------------------------
(***************************************************************************)
(* Properties.                                                             *)
(***************************************************************************)
NoLongLine == \A l \in 1..n : ~TooLong(l)

\* Every variable keeps its type: in particular the chunks that exist are those
\* below m, and no file has a name that the jobs do not know.
TypeOK ==
    /\ n \in 0..MaxLines /\ at \in [0..n -> 0..MaxBytes]
    /\ words \in [1..n -> LineWords] /\ size \in 0..MaxBytes
    /\ phase \in {"split", "map", "reduce", "merge", "merged", "cleaned", "fatal"}
    /\ scanned \in 0..n /\ m \in Nat \ {0}
    /\ chunk \in [(IF phase = "cleaned" THEN {} ELSE 0..m-1) -> SUBSET (1..n)]
    /\ part \in [DOMAIN part -> SUBSET Place] /\ DOMAIN part \subseteq MapNo \X ReduceNo
    /\ result \in [DOMAIN result -> [Key -> SUBSET (MapNo \X Place)]]
    /\ DOMAIN result \subseteq ReduceNo
    /\ merged \in [(IF phase = "merged" THEN Key ELSE {}) -> SUBSET (MapNo \X Place)]
    /\ done \subseteq MapNo \cup ReduceNo

\* Split never creates more chunks than there are map jobs (a chunk more would
\* be a part of the input that nobody maps): what nchunk is rounded up for.
ChunksWithinJobs == m <= nMap

\* Split neither loses nor doubles a line, unless it gives up at a long one.
SplitPartition ==
    phase = "map" /\ NoLongLine =>
        \A l \in 1..n : \E c \in DOMAIN chunk :
            l \in chunk[c] /\ \A d \in DOMAIN chunk : l \in chunk[d] => d = c

\* DoReduce, Merge and CleanupFiles call log.Fatal on a file that is missing:
\* whenever one may run, all the files it reads or removes exist.
FilesExist ==
    /\ phase \in {"reduce", "merge", "merged"} =>
          MapNo = DOMAIN chunk /\ DOMAIN part = MapNo \X ReduceNo
    /\ phase \in {"merge", "merged"} => DOMAIN result = ReduceNo

\* Whatever attempts failed on the way, each occurrence of a word is counted
\* once in the merged result, under its key and no other.
ResultComplete ==
    phase = "merged" /\ NoLongLine =>
        \A key \in Key :
            /\ \A v \in merged[key] : KeyAt(v[2]) = key
            /\ \A p \in Place : KeyAt(p) = key =>
                  \E v \in merged[key] : v[2] = p /\ \A w \in merged[key] : w[2] = p => w = v

\* When no line is longer than a chunk, and the last one begins late enough,
\* no map job misses its chunk: the inputs for which nMap jobs do run.
Regular ==
    /\ NoLongLine /\ n > 0
    /\ \A l \in 1..n : at[l] - at[l-1] <= nchunk
    /\ at[n-1] > nchunk * (nMap - 1)
RegularRuns == Regular => phase # "fatal"

\* CleanupFiles leaves no file of the run behind.
NothingLeft ==
    phase = "cleaned" => DOMAIN chunk = {} /\ DOMAIN part = {} /\ DOMAIN result = {}

\* What the files of a job hold when it is done.
MapFiles(i)   == \A r \in ReduceNo : <<i, r>> \in DOMAIN part /\ part[<<i, r>>] = Partition(i, r)
ReduceFile(r) == r \in DOMAIN result /\ result[r] = [key \in Key |-> Values(r, key)]

\* The jobs as MapReduceRun sees them, and what their files hold; what
\* CleanupFiles removes was complete.
MapJob    == {"map"} \X MapNo
ReduceJob == {"reduce"} \X ReduceNo
Held(j) ==
    IF phase = "cleaned" THEN "complete"
    ELSE IF j \in MapJob
    THEN IF \A r \in ReduceNo : <<j[2], r>> \notin DOMAIN part THEN "none"
         ELSE IF MapFiles(j[2]) THEN "complete" ELSE "partial"
    ELSE IF j[2] \notin DOMAIN result THEN "none"
         ELSE IF ReduceFile(j[2]) THEN "complete" ELSE "partial"
Counted ==
    (IF phase \in {"split", "map", "fatal"} THEN {"map"} \X done ELSE MapJob) \cup
    (IF phase \in {"split", "map", "fatal"} THEN {}
     ELSE IF phase = "reduce" THEN {"reduce"} \X done ELSE ReduceJob)

\* The files of a run with any failed attempts are what MapReduceRun allows, as
\* those of MapReduceMaster are: a failed attempt never spoils the files of a
\* job that is done, of its own phase or of the one before.
Run == INSTANCE MapReduceRun WITH
    output <- [j \in MapJob \cup ReduceJob |-> Held(j)],
    done   <- Counted,
    stage  <- IF phase = "fatal" THEN "dead"
              ELSE IF phase \in {"merged", "cleaned"} THEN "merged" ELSE "jobs"
ImplementsRun == Run!Spec
=============================================================================
