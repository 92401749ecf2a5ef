------------------------ MODULE MapReduceDataProofs ------------------------
(***************************************************************************)
(* Proofs about MapReduceData for any numbers of jobs, any words, any      *)
(* partition of the keys and any bounds on the input: what its files hold, *)
(* and that it implements MapReduceRun, as the distributed run does.       *)
(***************************************************************************)
EXTENDS MapReduceData, TLAPS

USE JobsAssumption, BoundAssumption

\* What Init says of the input, which no step changes.
Input ==
    /\ at[0] = 0 /\ \A j, k \in 0..n : j < k => at[j] < at[k]
    /\ n > 0 => size > at[n-1]

\* The lines read so far are each in one chunk; after Split those are all
\* lines, if none is too long.
Split ==
    /\ phase # "cleaned" =>
          \A l \in 1..scanned : \E c \in 0..m-1 :
              l \in chunk[c] /\ \A d \in 0..m-1 : l \in chunk[d] => d = c
    /\ phase # "cleaned" => \A c \in 0..m-1 : chunk[c] \subseteq 1..scanned
    /\ phase # "split" /\ NoLongLine => scanned = n

\* The line read last began behind the first m - 1 chunks' worth of bytes ...
Enough == m > 1 => scanned > 0 /\ at[scanned-1] > nchunk * (m - 1)

\* ... and, if all lines are short, within the first m.
Short == \A l \in 1..n : at[l] - at[l-1] <= nchunk
Tight == Short /\ scanned > 0 => at[scanned-1] <= nchunk * m

\* A job that is done left complete files, and so did those of the phases before.
Jobs ==
    /\ phase = "split" => done = {}
    /\ phase = "map" => done \subseteq MapNo \cap (0..m-1) /\ \A i \in done : MapFiles(i)
    /\ phase \in {"reduce", "merge", "merged"} =>
          MapNo \subseteq 0..m-1 /\ \A i \in MapNo : MapFiles(i)
    /\ phase = "reduce" => done \subseteq ReduceNo /\ \A r \in done : ReduceFile(r)
    /\ phase \in {"merge", "merged"} => \A r \in ReduceNo : ReduceFile(r)
    /\ phase = "fatal" => m < nMap

\* Merge finds a key only in the file of the reduce job that it hashes to.
Merged == phase = "merged" => merged = [key \in Key |-> Values(Part[key], key)]

Inv == TypeOK /\ Input /\ Split /\ Enough /\ Tight /\ Jobs /\ Merged /\ NothingLeft

-----------------------------------------------------------------------------
\* nMap times nchunk is more than the size.
LEMMA ChunkSize == ASSUME NEW s \in Nat, NEW k \in Nat \ {0}
                   PROVE  s \div k \in Nat /\ ((s \div k) + 1) * k > s
<1>1. s = (k * (s \div k)) + (s % k) /\ s % k \in 0..k-1 /\ s \div k \in Nat
  OBVIOUS
<1> DEFINE q == s \div k
<1>2. (q + 1) * k = (k * q) + k
  <2>1. q \in Nat
    BY <1>1
  <2> HIDE DEF q
  <2> QED BY <2>1
<1> QED BY <1>1, <1>2

\* ChunksWithinJobs, from where the line read last begins.
LEMMA Chunks == ASSUME TypeOK, Input, Enough
                PROVE  nchunk \in Nat \ {0} /\ m <= nMap
<1>1. n \in Nat /\ size \in Nat /\ scanned \in 0..n /\ m \in Nat \ {0}
      /\ at \in [0..n -> Nat]
  BY DEF TypeOK
<1>2. nchunk \in Nat \ {0} /\ nchunk * nMap > size
  BY <1>1, ChunkSize DEF nchunk
<1>3. ASSUME m > nMap PROVE FALSE
  <2>1. scanned \in 1..n /\ at[scanned-1] > nchunk * (m - 1)
    BY <1>1, <1>3 DEF Enough
  <2>2. at[scanned-1] <= at[n-1] /\ at[n-1] < size
    <3>1. scanned - 1 \in 0..n /\ n - 1 \in 0..n /\ (scanned - 1 = n - 1 \/ scanned - 1 < n - 1)
      BY <1>1, <2>1
    <3> QED BY <1>1, <2>1, <3>1 DEF Input
  <2> DEFINE x == nchunk * (m - 1)
             y == nchunk * nMap
  <2>3. x >= y /\ x \in Nat /\ y \in Nat
    BY <1>1, <1>2, <1>3
  <2>4. at[scanned-1] \in Nat /\ at[n-1] \in Nat /\ at[scanned-1] > x /\ y > size
    BY <1>1, <1>2, <2>1
  <2> HIDE DEF x, y
  <2> QED BY <1>1, <2>2, <2>3, <2>4
<1> QED BY <1>1, <1>2, <1>3

\* The words of the input are keys, so that the partition knows them.
LEMMA Keys == ASSUME TypeOK PROVE \A p \in Place : KeyAt(p) \in Key
  BY SMTT(20), WordsAssumption DEF TypeOK, Place, KeyAt

-----------------------------------------------------------------------------
LEMMA InitInv == Init => Inv
<1> SUFFICES ASSUME Init PROVE Inv
  OBVIOUS
<1>1. n \in Nat /\ at[n] \in Nat /\ at[n] <= MaxBytes
  BY DEF Init
<1>2. TypeOK
  <2>1. size \in 0..MaxBytes
    BY <1>1 DEF Init
  <2> QED BY <1>1, <2>1 DEF Init, TypeOK
<1>3. Input
  BY DEF Init, Input
<1>4. Split /\ Enough /\ Tight /\ Jobs /\ Merged /\ NothingLeft
  BY <1>1 DEF Init, Split, Enough, Tight, Jobs, Merged, NothingLeft
<1> QED BY <1>2, <1>3, <1>4 DEF Inv

\* The next line begins behind the last one, and no more than nchunk behind.
LEMMA SplitLineInv == ASSUME Inv, SplitLine PROVE Inv'
<1>1. n \in Nat /\ size \in Nat /\ scanned \in 0..n /\ m \in Nat \ {0}
      /\ at \in [0..n -> Nat] /\ nchunk \in Nat \ {0}
  <2>1. TypeOK /\ Input /\ Enough
    BY DEF Inv
  <2>2. nchunk \in Nat \ {0}
    BY <2>1, Chunks
  <2> QED BY <2>1, <2>2 DEF TypeOK
<1>2. /\ phase = "split" /\ scanned < n
      /\ m' = IF Opens THEN m + 1 ELSE m
      /\ chunk' = [c \in 0..m'-1 |-> (IF c < m THEN chunk[c] ELSE {}) \cup (IF c = m' - 1 THEN {scanned + 1} ELSE {})]
      /\ scanned' = scanned + 1
      /\ phase' = phase /\ n' = n /\ at' = at /\ words' = words /\ size' = size
      /\ part' = part /\ result' = result /\ merged' = merged /\ done' = done
  BY DEF SplitLine, WriteLine, inputVars
<1>3. m' \in Nat \ {0}
  BY <1>1, <1>2
<1>k. PICK k \in Nat : k = m' - 1 /\ (k = m \/ k = m - 1)
  <2>1. CASE Opens
    <3>1. m \in Nat /\ m = m' - 1
      BY <1>1, <1>2, <2>1
    <3> QED BY <3>1
  <2>2. CASE ~Opens
    <3>1. m - 1 \in Nat /\ m - 1 = m' - 1
      BY <1>1, <1>2, <2>2
    <3> QED BY <3>1
  <2> QED BY <2>1, <2>2
<1>l. PICK l \in Nat : l = scanned + 1
  BY <1>1
<1>4. chunk \in [0..m-1 -> SUBSET (1..n)] /\ l \in 1..n
  BY SMTT(30), <1>1, <1>2, <1>l DEF Inv, TypeOK
<1>5. chunk' \in [0..m'-1 -> SUBSET (1..n)]
  <2>1. \A c \in 0..k : c < m => c \in 0..m-1
    BY <1>1, <1>k
  <2> QED BY <1>2, <1>4, <1>k, <1>l, <2>1
<1>6. TypeOK'
  <2>1. scanned' \in 0..n
    BY <1>1, <1>2
  <2>2. Place' = Place
    BY <1>2 DEF Place
  <2> QED BY <1>2, <1>3, <1>5, <2>1, <2>2 DEF Inv, TypeOK
<1>7. Input'
  BY <1>2 DEF Inv, Input
<1>8. Split'
  <2>1. \A c \in 0..m-1 : chunk[c] \subseteq 1..scanned
    BY <1>2 DEF Inv, Split
  <2>2. \A c \in 0..k : chunk'[c] = (IF c < m THEN chunk[c] ELSE {}) \cup (IF c = k THEN {l} ELSE {})
    BY <1>2, <1>k, <1>l
  <2>3. \A c \in 0..k : c < m => c \in 0..m-1
    BY <1>1, <1>k
  <2>4. \A c \in 0..k : chunk'[c] \subseteq 1..l
    <3> SUFFICES ASSUME NEW c \in 0..k, NEW x \in chunk'[c] PROVE x \in 1..l
      OBVIOUS
    <3>1. x = l \/ x \in 1..scanned
      BY <2>1, <2>2, <2>3
    <3> QED BY <1>1, <1>l, <3>1
  <2>5. ASSUME NEW x \in 1..scanned
        PROVE  \E c \in 0..k : x \in chunk'[c] /\ \A d \in 0..k : x \in chunk'[d] => d = c
    <3>1. PICK c \in 0..m-1 : x \in chunk[c] /\ \A d \in 0..m-1 : x \in chunk[d] => d = c
      BY <1>2 DEF Inv, Split
    <3>2. c \in 0..k /\ c < m /\ x # l
      BY <1>1, <1>k, <1>l
    <3>3. x \in chunk'[c]
      BY <2>2, <3>1, <3>2
    <3>4. ASSUME NEW d \in 0..k, x \in chunk'[d] PROVE d = c
      BY <2>2, <2>3, <3>1, <3>2, <3>4
    <3> QED BY <3>2, <3>3, <3>4
  <2>6. k \in 0..k /\ l \in chunk'[k] /\ \A d \in 0..k : l \in chunk'[d] => d = k
    <3>1. \A c \in 0..m-1 : l \notin chunk[c]
      BY <1>1, <1>l, <2>1
    <3>2. k \in 0..k
      OBVIOUS
    <3> QED BY <2>2, <2>3, <3>1, <3>2
  <2>7. \A x \in 1..l : x \in 1..scanned \/ x = l
    BY <1>1, <1>l
  <2>8. 1..scanned' = 1..l /\ 0..m'-1 = 0..k /\ phase' = "split"
    BY <1>2, <1>k, <1>l
  <2>9. \A x \in 1..l : \E c \in 0..k : x \in chunk'[c] /\ \A d \in 0..k : x \in chunk'[d] => d = c
    BY <2>5, <2>6, <2>7
  <2> QED BY <2>4, <2>8, <2>9 DEF Split
<1>9. nchunk' = nchunk /\ Short' = Short
  BY <1>2 DEF nchunk, Short
<1>10. Enough'
  <2>1. scanned' > 0 /\ scanned' - 1 = scanned
    BY <1>1, <1>2
  <2>2. CASE Opens
    BY <1>1, <1>2, <1>9, <2>1, <2>2 DEF Opens, Enough
  <2>3. CASE ~Opens
    <3>1. SUFFICES ASSUME m > 1 PROVE at[scanned] > nchunk * (m - 1)
      BY <1>2, <1>9, <2>1, <2>3 DEF Enough
    <3>2. scanned - 1 \in 0..n /\ scanned - 1 < scanned /\ at[scanned-1] > nchunk * (m - 1)
      BY <1>1, <3>1 DEF Inv, Enough
    <3>3. at[scanned-1] < at[scanned]
      BY <1>1, <3>2 DEF Inv, Input
    <3>4. at[scanned-1] \in Nat /\ at[scanned] \in Nat /\ nchunk * (m - 1) \in Nat
      BY <1>1, <3>2
    <3> QED BY <3>2, <3>3, <3>4
  <2> QED BY <2>2, <2>3
<1>11. Tight'
  <2>1. scanned' > 0 /\ scanned' - 1 = scanned
    BY <1>1, <1>2
  <2>2. SUFFICES ASSUME Short PROVE at[scanned] <= nchunk * m'
    BY <1>2, <1>9, <2>1 DEF Tight
  <2>3. CASE Opens
    <3>1. scanned \in 1..n
      <4>1. scanned # 0
        BY <1>1, <2>3 DEF Opens, Inv, Input
      <4> QED BY <1>1, <4>1
    <3>2. at[scanned-1] <= nchunk * m /\ at[scanned] - at[scanned-1] <= nchunk
      BY <1>1, <2>2, <3>1 DEF Inv, Tight, Short
    <3>3. at[scanned-1] \in Nat /\ at[scanned] \in Nat /\ nchunk * m \in Nat
      BY <1>1, <3>1
    <3>4. nchunk * m' = nchunk * m + nchunk
      BY <1>1, <1>2, <2>3
    <3> QED BY <1>1, <3>2, <3>3, <3>4
  <2>4. CASE ~Opens
    <3>1. at[scanned] \in Nat /\ nchunk * m \in Nat
      BY <1>1
    <3> QED BY <1>2, <2>4, <3>1 DEF Opens
  <2> QED BY <2>3, <2>4
<1>12. Jobs' /\ Merged' /\ NothingLeft'
  BY <1>2 DEF Inv, Jobs, Merged, NothingLeft
<1> QED BY <1>6, <1>7, <1>8, <1>10, <1>11, <1>12 DEF Inv

\* What the steps behind Split leave alone.
LEMMA Frame == ASSUME Inv, UNCHANGED <<inputVars, splitVars>>, phase' # "cleaned",
                      phase' = "split" => phase = "split",
                      phase = "split" /\ phase' # "split" => (NoLongLine => scanned = n),
                      phase # "cleaned"
               PROVE  Input' /\ Split' /\ Enough' /\ Tight' /\ Place' = Place
<1> USE DEF inputVars, splitVars
<1>1. Input' /\ Place' = Place /\ nchunk' = nchunk /\ Short' = Short /\ NoLongLine' = NoLongLine
  BY DEF Inv, Input, Place, nchunk, Short, NoLongLine, TooLong
<1>2. Split'
  BY <1>1 DEF Inv, Split
<1>3. Enough' /\ Tight'
  BY <1>1 DEF Inv, Enough, Tight
<1> QED BY <1>1, <1>2, <1>3

LEMMA SplitEndInv == ASSUME Inv, SplitEnd PROVE Inv'
<1>1. /\ phase = "split" /\ phase' = "map" /\ (scanned < n => TooLong(scanned + 1))
      /\ UNCHANGED <<inputVars, splitVars, part, result, merged, done>>
  BY DEF SplitEnd
<1>2. NoLongLine => scanned = n
  <2>1. n \in Nat /\ scanned \in 0..n
    BY DEF Inv, TypeOK
  <2>2. scanned < n => scanned + 1 \in 1..n
    BY <2>1
  <2> QED BY <1>1, <2>1, <2>2 DEF NoLongLine
<1>3. Input' /\ Split' /\ Enough' /\ Tight' /\ Place' = Place
  BY <1>1, <1>2, Frame
<1>4. TypeOK'
  BY <1>1, <1>3 DEF Inv, TypeOK, inputVars, splitVars
<1>5. Jobs' /\ Merged' /\ NothingLeft'
  BY <1>1 DEF Inv, Jobs, Merged, NothingLeft
<1> QED BY <1>3, <1>4, <1>5 DEF Inv

LEMMA MapFatalInv == ASSUME Inv, NEW i \in MapNo, MapFatal(i) PROVE Inv'
<1>1. /\ phase = "map" /\ phase' = "fatal" /\ i \notin DOMAIN chunk
      /\ UNCHANGED <<inputVars, splitVars, part, result, merged, done>>
  BY DEF MapFatal
<1>2. Input' /\ Split' /\ Enough' /\ Tight' /\ Place' = Place
  <2>1. NoLongLine => scanned = n
    BY <1>1 DEF Inv, Split
  <2> QED BY <1>1, <2>1, Frame
<1>3. TypeOK'
  BY <1>1, <1>2 DEF Inv, TypeOK, inputVars, splitVars
<1>4. m < nMap
  <2>1. DOMAIN chunk = 0..m-1 /\ m \in Nat
    BY <1>1 DEF Inv, TypeOK
  <2> QED BY <1>1, <2>1 DEF MapNo
<1>5. Jobs' /\ Merged' /\ NothingLeft'
  BY <1>1, <1>4 DEF Jobs, Merged, NothingLeft, splitVars
<1> QED BY <1>2, <1>3, <1>5 DEF Inv

\* Both kinds of attempts write files of job i only.
LEMMA WriteParts == ASSUME Inv, phase = "map", NEW i \in MapNo, NEW k \in ReduceNo,
                           NEW cut, cut \subseteq Partition(i, k), i \in DOMAIN chunk,
                           WritePartitions(i, k, cut)
                    PROVE  /\ DOMAIN part' \subseteq MapNo \X ReduceNo
                           /\ part' \in [DOMAIN part' -> SUBSET Place]
                           /\ \A j \in DOMAIN part : j[1] # i => j \in DOMAIN part' /\ part'[j] = part[j]
                           /\ \A r \in 0..k : /\ <<i, r>> \in DOMAIN part'
                                              /\ part'[<<i, r>>] = IF r = k THEN cut ELSE Partition(i, r)
<1> DEFINE new == DOMAIN part \cup ({i} \X (0..k))
<1>1. part' = [j \in new |-> IF j = <<i, k>> THEN cut
                             ELSE IF j[1] = i /\ j[2] < k THEN Partition(i, j[2]) ELSE part[j]]
  BY DEF WritePartitions
<1>2. DOMAIN part' = new
  BY <1>1
<1>3. 0..k \subseteq ReduceNo /\ k \in Nat
  BY DEF ReduceNo
<1>4. new \subseteq MapNo \X ReduceNo
  BY <1>3 DEF Inv, TypeOK
<1>5. \A q : Partition(i, q) \subseteq Place
  BY DEF Partition
<1>6. part' \in [new -> SUBSET Place]
  <2>1. ASSUME NEW j \in new PROVE part'[j] \in SUBSET Place
    <3>1. CASE j = <<i, k>> \/ (j[1] = i /\ j[2] < k)
      BY <1>1, <1>5, <3>1
    <3>2. CASE ~(j = <<i, k>> \/ (j[1] = i /\ j[2] < k))
      <4>1. j \in DOMAIN part
        <5> SUFFICES ASSUME j \in {i} \X (0..k) PROVE FALSE
          OBVIOUS
        <5>1. PICK x \in 0..k : j = <<i, x>>
          OBVIOUS
        <5>2. x = k \/ x < k
          BY <1>3
        <5> QED BY <3>2, <5>1, <5>2
      <4> QED BY <1>1, <3>2, <4>1 DEF Inv, TypeOK
    <3> QED BY <3>1, <3>2
  <2> QED BY <1>1, <2>1
<1>7. \A j \in DOMAIN part : j[1] # i => j \in new /\ part'[j] = part[j]
  BY <1>1
<1>8. ASSUME NEW r \in 0..k
      PROVE  <<i, r>> \in new /\ part'[<<i, r>>] = IF r = k THEN cut ELSE Partition(i, r)
  <2>1. <<i, r>> \in new /\ (r = k \/ r < k)
    BY <1>3
  <2>2. r # k => <<i, r>> # <<i, k>>
    OBVIOUS
  <2> QED BY <1>1, <2>1, <2>2
<1> HIDE DEF new
<1> QED BY <1>2, <1>4, <1>6, <1>7, <1>8

\* The jobs that are done keep their files.
LEMMA OthersKept == ASSUME Inv, phase = "map", NEW i \in MapNo, i \notin done,
                           \A j \in DOMAIN part : j[1] # i => j \in DOMAIN part' /\ part'[j] = part[j],
                           UNCHANGED <<inputVars, splitVars>>
                    PROVE  \A h \in done : MapFiles(h)'
<1> SUFFICES ASSUME NEW h \in done, NEW r \in ReduceNo
             PROVE  <<h, r>> \in DOMAIN part' /\ part'[<<h, r>>] = Partition(h, r)'
  BY DEF MapFiles
<1>1. <<h, r>> \in DOMAIN part /\ part[<<h, r>>] = Partition(h, r)
  BY DEF Inv, Jobs, MapFiles
<1>2. Partition(h, r)' = Partition(h, r)
  BY DEF Partition, Place, KeyAt, inputVars, splitVars
<1>3. <<h, r>>[1] # i
  OBVIOUS
<1> QED BY <1>1, <1>2, <1>3

LEMMA DoMapInv == ASSUME Inv, NEW i \in MapNo, DoMap(i) PROVE Inv'
<1> DEFINE k == nReduce - 1
<1>1. /\ phase = "map" /\ i \notin done /\ i \in DOMAIN chunk
      /\ WritePartitions(i, k, Partition(i, k)) /\ done' = done \cup {i}
      /\ UNCHANGED <<inputVars, phase, splitVars, result, merged>>
  BY DEF DoMap
<1>2. Input' /\ Split' /\ Enough' /\ Tight' /\ Place' = Place
  BY <1>1, Frame
<1>3. k \in ReduceNo /\ 0..k = ReduceNo
  BY DEF ReduceNo
<1> HIDE DEF k
<1>4. /\ DOMAIN part' \subseteq MapNo \X ReduceNo
      /\ part' \in [DOMAIN part' -> SUBSET Place]
      /\ \A j \in DOMAIN part : j[1] # i => j \in DOMAIN part' /\ part'[j] = part[j]
      /\ \A r \in ReduceNo : <<i, r>> \in DOMAIN part' /\ part'[<<i, r>>] = Partition(i, r)
  <2>1. PICK cut : cut = Partition(i, k)
    OBVIOUS
  <2>2. cut \subseteq Partition(i, k) /\ WritePartitions(i, k, cut)
    BY <1>1, <2>1
  <2>3. /\ DOMAIN part' \subseteq MapNo \X ReduceNo
        /\ part' \in [DOMAIN part' -> SUBSET Place]
        /\ \A j \in DOMAIN part : j[1] # i => j \in DOMAIN part' /\ part'[j] = part[j]
        /\ \A r \in 0..k : /\ <<i, r>> \in DOMAIN part'
                           /\ part'[<<i, r>>] = IF r = k THEN cut ELSE Partition(i, r)
    BY <1>1, <1>3, <2>2, WriteParts
  <2> QED BY <1>3, <2>1, <2>3
<1>5. TypeOK'
  <2>1. done' \subseteq MapNo \cup ReduceNo
    BY <1>1 DEF Inv, TypeOK
  <2> QED BY <1>1, <1>2, <1>4, <2>1 DEF Inv, TypeOK, inputVars, splitVars
<1>6. \A h \in done' : MapFiles(h)'
  <2>1. MapFiles(i)'
    BY <1>1, <1>4 DEF MapFiles, Partition, Place, KeyAt, inputVars, splitVars
  <2>2. \A h \in done : MapFiles(h)'
    BY <1>1, <1>4, OthersKept
  <2> QED BY <1>1, <2>1, <2>2
<1>7. done' \subseteq MapNo \cap (0..m'-1)
  <2>1. DOMAIN chunk = 0..m-1
    BY <1>1 DEF Inv, TypeOK
  <2> QED BY <1>1, <2>1 DEF Inv, Jobs, splitVars
<1>8. Jobs' /\ Merged' /\ NothingLeft'
  BY <1>1, <1>6, <1>7 DEF Jobs, Merged, NothingLeft
<1> QED BY <1>2, <1>5, <1>8 DEF Inv

LEMMA DoMapFailsInv == ASSUME Inv, NEW i \in MapNo, NEW k \in ReduceNo, DoMapFails(i, k)
                       PROVE  Inv'
<1>1. /\ phase = "map" /\ i \notin done /\ i \in DOMAIN chunk
      /\ UNCHANGED <<inputVars, phase, splitVars, result, merged, done>>
  BY DEF DoMapFails
<1>2. Input' /\ Split' /\ Enough' /\ Tight' /\ Place' = Place
  BY <1>1, Frame
<1>3. PICK cut \in SUBSET Partition(i, k) : WritePartitions(i, k, cut)
  BY DEF DoMapFails
<1>4. /\ DOMAIN part' \subseteq MapNo \X ReduceNo
      /\ part' \in [DOMAIN part' -> SUBSET Place]
      /\ \A j \in DOMAIN part : j[1] # i => j \in DOMAIN part' /\ part'[j] = part[j]
  BY <1>1, <1>3, WriteParts
<1>5. TypeOK'
  BY <1>1, <1>2, <1>4 DEF Inv, TypeOK, inputVars, splitVars
<1>6. \A h \in done' : MapFiles(h)'
  <2>1. \A h \in done : MapFiles(h)'
    BY <1>1, <1>4, OthersKept
  <2> QED BY <1>1, <2>1
<1>7. done' \subseteq MapNo \cap (0..m'-1)
  BY <1>1 DEF Inv, Jobs, splitVars
<1>8. Jobs' /\ Merged' /\ NothingLeft'
  BY <1>1, <1>6, <1>7 DEF Jobs, Merged, NothingLeft
<1> QED BY <1>2, <1>5, <1>8 DEF Inv

\* What was complete stays so while its files are left alone.
LEMMA Kept == ASSUME UNCHANGED <<inputVars, splitVars, part>>
              PROVE  /\ \A i \in MapNo : MapFiles(i)' = MapFiles(i)
                     /\ \A r, key : Values(r, key)' = Values(r, key)
<1>1. ASSUME NEW i, NEW r PROVE Partition(i, r)' = Partition(i, r)
  BY DEF Partition, Place, KeyAt, inputVars, splitVars
<1>2. ASSUME NEW r, NEW key PROVE Values(r, key)' = Values(r, key)
  BY DEF Values, Place, KeyAt, inputVars
<1> QED BY <1>1, <1>2 DEF MapFiles

LEMMA StartReduceInv == ASSUME Inv, StartReduce PROVE Inv'
<1>1. /\ phase = "map" /\ phase' = "reduce" /\ done = MapNo /\ done' = {}
      /\ UNCHANGED <<inputVars, splitVars, part, result, merged>>
  BY DEF StartReduce
<1>2. Input' /\ Split' /\ Enough' /\ Tight' /\ Place' = Place
  <2>1. NoLongLine => scanned = n
    BY <1>1 DEF Inv, Split
  <2> QED BY <1>1, <2>1, Frame
<1>3. TypeOK'
  BY <1>1, <1>2 DEF Inv, TypeOK, inputVars, splitVars
<1>4. MapNo \subseteq 0..m'-1 /\ \A i \in MapNo : MapFiles(i)'
  BY <1>1, Kept DEF Inv, Jobs, splitVars
<1>5. Jobs' /\ Merged' /\ NothingLeft'
  BY <1>1, <1>4 DEF Jobs, Merged, NothingLeft
<1> QED BY <1>2, <1>3, <1>5 DEF Inv

\* A reduce job writes its own file only.
LEMMA WriteReduce == ASSUME Inv, phase = "reduce", NEW r \in ReduceNo, r \notin done,
                            NEW written, WriteResult(r, written),
                            UNCHANGED <<inputVars, splitVars, part>>
                     PROVE  /\ DOMAIN result' \subseteq ReduceNo
                            /\ result' \in [DOMAIN result' -> [Key -> SUBSET (MapNo \X Place)]]
                            /\ \A q \in done : ReduceFile(q)'
                            /\ Key \subseteq written => ReduceFile(r)'
<1> DEFINE file == [key \in Key |-> IF key \in written THEN Values(r, key) ELSE {}]
<1>1. result' = [q \in DOMAIN result \cup {r} |-> IF q = r THEN file ELSE result[q]]
  BY DEF WriteResult
<1>2. file \in [Key -> SUBSET (MapNo \X Place)]
  BY DEF Values
<1>3. Key \subseteq written => file = [key \in Key |-> Values(r, key)]
  OBVIOUS
<1> HIDE DEF file
<1>4. \A q, key : Values(q, key)' = Values(q, key)
  BY Kept
<1>5. ASSUME NEW q \in done PROVE ReduceFile(q)'
  <2>1. q \in DOMAIN result /\ q # r /\ result[q] = [key \in Key |-> Values(q, key)]
    BY DEF Inv, Jobs, ReduceFile
  <2> QED BY <1>1, <1>4, <2>1 DEF ReduceFile
<1>6. ASSUME Key \subseteq written PROVE ReduceFile(r)'
  BY <1>1, <1>3, <1>4, <1>6 DEF ReduceFile
<1>7. DOMAIN result' \subseteq ReduceNo
      /\ result' \in [DOMAIN result' -> [Key -> SUBSET (MapNo \X Place)]]
  BY <1>1, <1>2 DEF Inv, TypeOK
<1> QED BY <1>5, <1>6, <1>7

\* What a job of the reduce phase leaves alone, whether it fails or not.
LEMMA ReduceFrame == ASSUME Inv, phase = "reduce", UNCHANGED <<inputVars, phase, splitVars, part, merged>>,
                            DOMAIN result' \subseteq ReduceNo,
                            result' \in [DOMAIN result' -> [Key -> SUBSET (MapNo \X Place)]],
                            done' \subseteq ReduceNo, \A q \in done' : ReduceFile(q)'
                     PROVE  Inv'
<1>1. Input' /\ Split' /\ Enough' /\ Tight' /\ Place' = Place
  BY Frame
<1>2. TypeOK'
  BY <1>1 DEF Inv, TypeOK, inputVars, splitVars
<1>3. MapNo \subseteq 0..m'-1 /\ \A i \in MapNo : MapFiles(i)'
  BY Kept DEF Inv, Jobs, splitVars
<1>4. Jobs' /\ Merged' /\ NothingLeft'
  BY <1>3 DEF Jobs, Merged, NothingLeft
<1> QED BY <1>1, <1>2, <1>4 DEF Inv

LEMMA DoReduceInv == ASSUME Inv, NEW r \in ReduceNo, DoReduce(r) PROVE Inv'
<1>1. /\ phase = "reduce" /\ r \notin done /\ WriteResult(r, Key) /\ done' = done \cup {r}
      /\ UNCHANGED <<inputVars, phase, splitVars, part, merged>>
  BY DEF DoReduce
<1>2. /\ DOMAIN result' \subseteq ReduceNo
      /\ result' \in [DOMAIN result' -> [Key -> SUBSET (MapNo \X Place)]]
      /\ \A q \in done : ReduceFile(q)'
      /\ ReduceFile(r)'
  BY <1>1, WriteReduce
<1>3. done' \subseteq ReduceNo /\ \A q \in done' : ReduceFile(q)'
  BY <1>1, <1>2 DEF Inv, Jobs
<1> QED BY <1>1, <1>2, <1>3, ReduceFrame

LEMMA DoReduceFailsInv == ASSUME Inv, NEW r \in ReduceNo, NEW written \in SUBSET Key,
                                 DoReduceFails(r, written)
                          PROVE  Inv'
<1>1. /\ phase = "reduce" /\ r \notin done /\ WriteResult(r, written)
      /\ UNCHANGED <<inputVars, phase, splitVars, part, merged, done>>
  BY DEF DoReduceFails
<1>2. /\ DOMAIN result' \subseteq ReduceNo
      /\ result' \in [DOMAIN result' -> [Key -> SUBSET (MapNo \X Place)]]
      /\ \A q \in done : ReduceFile(q)'
  BY <1>1, WriteReduce
<1>3. done' \subseteq ReduceNo /\ \A q \in done' : ReduceFile(q)'
  BY <1>1, <1>2 DEF Inv, Jobs
<1> QED BY <1>1, <1>2, <1>3, ReduceFrame

LEMMA StartMergeInv == ASSUME Inv, StartMerge PROVE Inv'
<1>1. /\ phase = "reduce" /\ phase' = "merge" /\ done = ReduceNo /\ done' = {}
      /\ UNCHANGED <<inputVars, splitVars, part, result, merged>>
  BY DEF StartMerge
<1>2. Input' /\ Split' /\ Enough' /\ Tight' /\ Place' = Place
  <2>1. NoLongLine => scanned = n
    BY <1>1 DEF Inv, Split
  <2> QED BY <1>1, <2>1, Frame
<1>3. TypeOK'
  BY <1>1, <1>2 DEF Inv, TypeOK, inputVars, splitVars
<1>4. MapNo \subseteq 0..m'-1 /\ \A i \in MapNo : MapFiles(i)'
  BY <1>1, Kept DEF Inv, Jobs, splitVars
<1>5. \A r \in ReduceNo : ReduceFile(r)'
  BY <1>1, Kept DEF Inv, Jobs, ReduceFile
<1>6. Jobs' /\ Merged' /\ NothingLeft'
  BY <1>1, <1>4, <1>5 DEF Jobs, Merged, NothingLeft
<1> QED BY <1>2, <1>3, <1>6 DEF Inv

\* Only one reduce job finds values of a key.
LEMMA OneJob == ASSUME \A i \in MapNo : MapFiles(i), NEW r \in ReduceNo, NEW key, Values(r, key) # {}
                PROVE  r = Part[key]
<1>1. PICK v \in MapNo \X Place : v[2] \in part[<<v[1], r>>] /\ KeyAt(v[2]) = key
  BY DEF Values
<1>2. v[1] \in MapNo
  OBVIOUS
<1>3. part[<<v[1], r>>] = Partition(v[1], r)
  BY <1>2 DEF MapFiles
<1> QED BY <1>1, <1>3 DEF Partition

LEMMA MergeInv == ASSUME Inv, Merge PROVE Inv'
<1>1. /\ phase = "merge" /\ phase' = "merged"
      /\ merged' = [key \in Key |-> IF Found(key) = {} THEN {} ELSE result[LastOf(key)][key]]
      /\ UNCHANGED <<inputVars, splitVars, part, result, done>>
  BY DEF Merge
<1>2. Input' /\ Split' /\ Enough' /\ Tight' /\ Place' = Place
  <2>1. NoLongLine => scanned = n
    BY <1>1 DEF Inv, Split
  <2> QED BY <1>1, <2>1, Frame
<1>3. /\ \A i \in MapNo : MapFiles(i)
      /\ \A r \in ReduceNo : ReduceFile(r)
  BY <1>1 DEF Inv, Jobs
<1>4. ASSUME NEW key \in Key
      PROVE  (IF Found(key) = {} THEN {} ELSE result[LastOf(key)][key]) = Values(Part[key], key)
  <2>1. Part[key] \in ReduceNo
    BY WordsAssumption DEF ReduceNo
  <2>2. \A r \in ReduceNo : result[r][key] = Values(r, key)
    BY <1>3 DEF ReduceFile
  <2>3. \A r \in ReduceNo : Values(r, key) # {} => r = Part[key]
    BY <1>3, OneJob
  <2>4. CASE Values(Part[key], key) = {}
    <3>1. Found(key) = {}
      BY <2>2, <2>3, <2>4 DEF Found
    <3> QED BY <2>4, <3>1
  <2>5. CASE Values(Part[key], key) # {}
    <3>1. Found(key) = {Part[key]}
      BY <2>1, <2>2, <2>3, <2>5 DEF Found
    <3>2. Part[key] <= Part[key]
      BY <2>1 DEF ReduceNo
    <3>3. LastOf(key) = Part[key]
      BY <3>1, <3>2 DEF LastOf
    <3> QED BY <2>1, <2>2, <3>1, <3>3
  <2> QED BY <2>4, <2>5
<1>5. merged' = [key \in Key |-> Values(Part[key], key)]
  BY <1>1, <1>4
<1>6. TypeOK'
  <2>1. \A key \in Key : Values(Part[key], key) \subseteq MapNo \X Place
    BY DEF Values
  <2>2. merged' \in [Key -> SUBSET (MapNo \X Place)]
    BY <1>5, <2>1
  <2> QED BY <1>1, <1>2, <2>2 DEF Inv, TypeOK, inputVars, splitVars
<1>7. Merged'
  <2>1. \A r, key : Values(r, key)' = Values(r, key)
    BY <1>1, Kept
  <2> QED BY <1>5, <2>1 DEF Merged
<1>8. MapNo \subseteq 0..m'-1 /\ \A i \in MapNo : MapFiles(i)'
  BY <1>1, Kept DEF Inv, Jobs, splitVars
<1>9. \A r \in ReduceNo : ReduceFile(r)'
  BY <1>1, <1>3, Kept DEF ReduceFile
<1>10. Jobs' /\ NothingLeft'
  BY <1>1, <1>8, <1>9 DEF Jobs, NothingLeft
<1> QED BY <1>2, <1>6, <1>7, <1>10 DEF Inv

LEMMA CleanupFilesInv == ASSUME Inv, CleanupFiles PROVE Inv'
<1>1. /\ phase = "merged" /\ phase' = "cleaned"
      /\ chunk' = [c \in DOMAIN chunk \ MapNo |-> chunk[c]]
      /\ part' = [j \in DOMAIN part \ (MapNo \X ReduceNo) |-> part[j]]
      /\ result' = [r \in DOMAIN result \ ReduceNo |-> result[r]]
      /\ merged' = [key \in {} |-> {}]
      /\ UNCHANGED <<n, at, words, size, scanned, m, done>>
  BY DEF CleanupFiles, inputVars
<1>2. DOMAIN chunk \ MapNo = {}
  <2>1. DOMAIN chunk = 0..m-1 /\ m \in Nat
    BY <1>1 DEF Inv, TypeOK
  <2>2. m <= nMap
    BY Chunks DEF Inv
  <2> QED BY <2>1, <2>2 DEF MapNo
<1>3. DOMAIN part \ (MapNo \X ReduceNo) = {} /\ DOMAIN result \ ReduceNo = {}
  BY DEF Inv, TypeOK
<1>4. DOMAIN chunk' = {} /\ DOMAIN part' = {} /\ DOMAIN result' = {}
  BY <1>1, <1>2, <1>3
<1>5. TypeOK'
  <2>1. Place' = Place
    BY <1>1 DEF Place
  <2>2. chunk' \in [{} -> SUBSET (1..n)]
    BY <1>1, <1>2
  <2>3. part' \in [{} -> SUBSET Place]
    BY <1>1, <1>3
  <2>4. result' \in [{} -> [Key -> SUBSET (MapNo \X Place)]]
    BY <1>1, <1>3
  <2>5. merged' \in [{} -> SUBSET (MapNo \X Place)]
    BY <1>1
  <2> QED BY <1>1, <1>4, <2>1, <2>2, <2>3, <2>4, <2>5 DEF Inv, TypeOK
<1>6. Input' /\ nchunk' = nchunk /\ Short' = Short /\ NoLongLine' = NoLongLine
  BY <1>1 DEF Inv, Input, nchunk, Short, NoLongLine, TooLong
<1>7. Split' /\ Enough' /\ Tight'
  BY <1>1, <1>6 DEF Inv, Split, Enough, Tight
<1>8. Jobs' /\ Merged' /\ NothingLeft'
  BY <1>1, <1>4 DEF Jobs, Merged, NothingLeft
<1> QED BY <1>5, <1>6, <1>7, <1>8 DEF Inv

LEMMA StutterInv == ASSUME Inv, UNCHANGED vars PROVE Inv'
<1>1. UNCHANGED <<inputVars, phase, splitVars, part, result, merged, done>>
  BY DEF vars
<1>2. Place' = Place /\ nchunk' = nchunk /\ Short' = Short /\ NoLongLine' = NoLongLine
  BY <1>1 DEF Place, nchunk, Short, NoLongLine, TooLong, inputVars
<1>3. TypeOK' /\ Input' /\ Split' /\ Enough' /\ Tight'
  BY <1>1, <1>2 DEF Inv, TypeOK, Input, Split, Enough, Tight, inputVars, splitVars
<1>4. /\ \A i \in MapNo : MapFiles(i)' = MapFiles(i)
      /\ \A r \in ReduceNo : ReduceFile(r)' = ReduceFile(r)
      /\ \A r, key : Values(r, key)' = Values(r, key)
  BY <1>1, Kept DEF ReduceFile
<1>5. Jobs'
  BY <1>1, <1>4 DEF Inv, Jobs, splitVars
<1>6. Merged' /\ NothingLeft'
  BY <1>1, <1>4 DEF Inv, Merged, NothingLeft, splitVars
<1> QED BY <1>3, <1>5, <1>6 DEF Inv

LEMMA NextInv == Inv /\ [Next]_vars => Inv'
  BY SplitLineInv, SplitEndInv, MapFatalInv, DoMapInv, DoMapFailsInv, StartReduceInv,
     DoReduceInv, DoReduceFailsInv, StartMergeInv, MergeInv, CleanupFilesInv, StutterInv
     DEF Next

THEOREM Invariance == Spec => []Inv
  BY InitInv, NextInv, PTL DEF Spec

-----------------------------------------------------------------------------
\* The files keep their types: no job writes one that no job reads.
THEOREM TypeCorrect == Spec => []TypeOK
<1>1. Inv => TypeOK
  BY DEF Inv
<1> QED BY <1>1, Invariance, PTL

\* Split creates no more chunks than there are map jobs, for any input.
THEOREM EnoughJobs == Spec => []ChunksWithinJobs
<1>1. Inv => ChunksWithinJobs
  BY Chunks DEF Inv, ChunksWithinJobs
<1> QED BY <1>1, Invariance, PTL

\* Split puts each line into one chunk, unless a line is too long.
LEMMA SplitComplete == Inv /\ phase # "cleaned" /\ phase # "split" /\ NoLongLine =>
                          \A l \in 1..n : \E c \in DOMAIN chunk :
                              l \in chunk[c] /\ \A d \in DOMAIN chunk : l \in chunk[d] => d = c
<1> SUFFICES ASSUME Inv, phase # "cleaned", phase # "split", NoLongLine
             PROVE  \A l \in 1..n : \E c \in DOMAIN chunk :
                        l \in chunk[c] /\ \A d \in DOMAIN chunk : l \in chunk[d] => d = c
  OBVIOUS
<1>1. DOMAIN chunk = 0..m-1 /\ scanned = n
  BY DEF Inv, TypeOK, Split
<1> QED BY <1>1 DEF Inv, Split

THEOREM LinesInOneChunk == Spec => []SplitPartition
<1>1. Inv => SplitPartition
  BY SplitComplete DEF SplitPartition
<1> QED BY <1>1, Invariance, PTL

\* DoReduce, Merge and CleanupFiles never stop for a missing file.
THEOREM AllFilesExist == Spec => []FilesExist
<1>1. ASSUME Inv, phase \in {"reduce", "merge", "merged"}
      PROVE  MapNo = DOMAIN chunk /\ DOMAIN part = MapNo \X ReduceNo
  <2>1. DOMAIN chunk = 0..m-1 /\ m \in Nat /\ m <= nMap
    BY <1>1, Chunks DEF Inv, TypeOK
  <2>2. MapNo \subseteq 0..m-1 /\ \A i \in MapNo : MapFiles(i)
    BY <1>1 DEF Inv, Jobs
  <2>3. DOMAIN part = MapNo \X ReduceNo
    <3>1. DOMAIN part \subseteq MapNo \X ReduceNo
      BY <1>1 DEF Inv, TypeOK
    <3>2. \A i \in MapNo, r \in ReduceNo : <<i, r>> \in DOMAIN part
      BY <2>2 DEF MapFiles
    <3> QED BY <3>1, <3>2
  <2> QED BY <2>1, <2>2, <2>3 DEF MapNo
<1>2. ASSUME Inv, phase \in {"merge", "merged"} PROVE DOMAIN result = ReduceNo
  BY <1>2 DEF Inv, Jobs, ReduceFile, TypeOK
<1>3. Inv => FilesExist
  BY <1>1, <1>2 DEF FilesExist
<1> QED BY <1>3, Invariance, PTL

\* The merged result counts every word once, whatever attempts failed before.
THEOREM Complete == Spec => []ResultComplete
<1>1. ASSUME Inv, phase = "merged", NoLongLine, NEW key \in Key
      PROVE  /\ \A v \in merged[key] : KeyAt(v[2]) = key
             /\ \A p \in Place : KeyAt(p) = key =>
                   \E v \in merged[key] : v[2] = p /\ \A w \in merged[key] : w[2] = p => w = v
  <2>1. merged[key] = Values(Part[key], key)
    BY <1>1 DEF Inv, Merged
  <2>2. DOMAIN chunk = MapNo /\ \A i \in MapNo : MapFiles(i)
    <3>1. DOMAIN chunk = 0..m-1 /\ m \in Nat /\ m <= nMap
      BY <1>1, Chunks DEF Inv, TypeOK
    <3> QED BY <1>1, <3>1 DEF Inv, Jobs, MapNo
  <2>3. \A i \in MapNo : part[<<i, Part[key]>>] = Partition(i, Part[key])
    <3>1. Part[key] \in ReduceNo
      BY WordsAssumption DEF ReduceNo
    <3> QED BY <2>2, <3>1 DEF MapFiles
  <2>4. ASSUME NEW v
        PROVE  v \in merged[key] <=>
                 v \in MapNo \X Place /\ v[2][1] \in chunk[v[1]] /\ KeyAt(v[2]) = key
    BY <2>1, <2>3 DEF Values, Partition
  <2>5. ASSUME NEW p \in Place, KeyAt(p) = key
        PROVE  \E v \in merged[key] : v[2] = p /\ \A w \in merged[key] : w[2] = p => w = v
    <3>1. p[1] \in 1..n
      BY DEF Place
    <3>2. PICK c \in MapNo : p[1] \in chunk[c] /\ \A d \in MapNo : p[1] \in chunk[d] => d = c
      BY <1>1, <2>2, <3>1, SplitComplete
    <3>3. <<c, p>> \in merged[key]
      BY <2>4, <2>5, <3>2
    <3>4. ASSUME NEW w \in merged[key], w[2] = p PROVE w = <<c, p>>
      BY <2>4, <3>2, <3>4
    <3> QED BY <3>3, <3>4
  <2> QED BY <2>4, <2>5
<1>2. Inv => ResultComplete
  BY <1>1 DEF ResultComplete
<1> QED BY <1>2, Invariance, PTL

\* With short lines, of which the last begins late enough, no chunk is missing.
THEOREM RegularInputsRun == Spec => []RegularRuns
<1>1. ASSUME Inv, Regular, phase = "fatal" PROVE FALSE
  <2>1. n \in Nat \ {0} /\ m \in Nat \ {0} /\ at \in [0..n -> Nat] /\ nchunk \in Nat \ {0}
    <3>1. TypeOK /\ Input /\ Enough
      BY <1>1 DEF Inv
    <3>2. nchunk \in Nat \ {0}
      BY <3>1, Chunks
    <3> QED BY SMTT(30), <1>1, <3>1, <3>2 DEF TypeOK, Regular
  <2>2. scanned = n
    BY <1>1 DEF Inv, Split, Regular
  <2>3. at[n-1] <= nchunk * m
    BY <1>1, <2>1, <2>2 DEF Inv, Tight, Short, Regular
  <2>4. m < nMap
    BY <1>1 DEF Inv, Jobs
  <2>5. nchunk * m <= nchunk * (nMap - 1)
    BY <2>1, <2>4
  <2>6. at[n-1] \in Nat /\ nchunk * m \in Nat /\ nchunk * (nMap - 1) \in Nat
    BY <2>1
  <2> QED BY <1>1, <2>3, <2>5, <2>6 DEF Regular
<1>2. Inv => RegularRuns
  BY <1>1 DEF RegularRuns
<1> QED BY <1>2, Invariance, PTL

\* CleanupFiles leaves no file of the run behind.
THEOREM AllRemoved == Spec => []NothingLeft
<1>1. Inv => NothingLeft
  BY DEF Inv
<1> QED BY <1>1, Invariance, PTL

-----------------------------------------------------------------------------
(***************************************************************************)
(* The implementation of MapReduceRun.                                     *)
(***************************************************************************)
\* No job has begun before its phase.
Fresh ==
    /\ phase = "split" => DOMAIN part = {}
    /\ phase \in {"split", "map", "fatal"} => DOMAIN result = {}

LEMMA FreshAlways == Spec => []Fresh
<1>1. Init => Fresh
  BY DEF Init, Fresh
<1>2. Fresh /\ [Next]_vars => Fresh'
  BY DEF Fresh, Next, vars, SplitLine, SplitEnd, MapFatal, DoMap, DoMapFails, StartReduce,
         DoReduce, DoReduceFails, StartMerge, Merge, CleanupFiles
<1> QED BY <1>1, <1>2, PTL DEF Spec

Output == [j \in MapJob \cup ReduceJob |-> Held(j)]
Stage  == IF phase = "fatal" THEN "dead"
          ELSE IF phase \in {"merged", "cleaned"} THEN "merged" ELSE "jobs"

LEMMA JobNames == /\ \A j \in MapJob : j \notin ReduceJob /\ j[2] \in MapNo /\ j = <<"map", j[2]>>
                  /\ \A j \in ReduceJob : j \notin MapJob /\ j[2] \in ReduceNo /\ j = <<"reduce", j[2]>>
                  /\ 0 \in ReduceNo
  BY DEF MapJob, ReduceJob, ReduceNo

\* The files of a job that a step does not touch hold what they held.
LEMMA MapHeld == ASSUME NEW j \in MapJob, phase # "cleaned", phase' # "cleaned",
                        \A r \in ReduceNo : /\ <<j[2], r>> \in DOMAIN part' <=> <<j[2], r>> \in DOMAIN part
                                            /\ <<j[2], r>> \in DOMAIN part => part'[<<j[2], r>>] = part[<<j[2], r>>],
                        UNCHANGED <<inputVars, chunk>>
                 PROVE  Held(j)' = Held(j)
<1>1. \A r \in ReduceNo : Partition(j[2], r)' = Partition(j[2], r)
  BY DEF Partition, Place, KeyAt, inputVars
<1>2. MapFiles(j[2])' <=> MapFiles(j[2])
  BY <1>1 DEF MapFiles
<1> QED BY <1>2 DEF Held

LEMMA ReduceHeld == ASSUME NEW j \in ReduceJob, phase # "cleaned", phase' # "cleaned",
                           \/ DOMAIN result = {} /\ DOMAIN result' = {}
                           \/ /\ j[2] \in DOMAIN result' <=> j[2] \in DOMAIN result
                              /\ j[2] \in DOMAIN result => result'[j[2]] = result[j[2]]
                              /\ UNCHANGED <<inputVars, part>>
                    PROVE  Held(j)' = Held(j)
<1>1. j \notin MapJob
  BY JobNames
<1>2. CASE DOMAIN result = {} /\ DOMAIN result' = {}
  BY <1>1, <1>2 DEF Held
<1>3. CASE /\ j[2] \in DOMAIN result' <=> j[2] \in DOMAIN result
           /\ j[2] \in DOMAIN result => result'[j[2]] = result[j[2]]
           /\ UNCHANGED <<inputVars, part>>
  <2>1. \A key : Values(j[2], key)' = Values(j[2], key)
    BY <1>3 DEF Values, Place, KeyAt, inputVars
  <2>2. ReduceFile(j[2])' <=> ReduceFile(j[2])
    BY <1>3, <2>1 DEF ReduceFile
  <2> QED BY <1>1, <1>3, <2>2 DEF Held
<1> QED BY <1>2, <1>3

\* The files of a job that is done are complete.
LEMMA DoneHeld == /\ \A i \in MapNo : MapFiles(i) => Held(<<"map", i>>) = "complete"
                  /\ \A r \in ReduceNo : ReduceFile(r) => Held(<<"reduce", r>>) = "complete"
<1>1. ASSUME NEW i \in MapNo, MapFiles(i) PROVE Held(<<"map", i>>) = "complete"
  BY <1>1, JobNames DEF Held, MapFiles, MapJob
<1>2. ASSUME NEW r \in ReduceNo, ReduceFile(r) PROVE Held(<<"reduce", r>>) = "complete"
  <2>1. <<"reduce", r>> \notin MapJob
    BY DEF MapJob
  <2> QED BY <1>2, <2>1 DEF Held, ReduceFile
<1> QED BY <1>1, <1>2

\* Nothing of this is to be seen by MapReduceRun.
LEMMA Unseen == ASSUME \A j \in MapJob \cup ReduceJob : Held(j)' = Held(j),
                       Counted' = Counted, Stage' = Stage
                PROVE  UNCHANGED <<Output, Counted, Stage>>
  BY DEF Output, MapJob, ReduceJob, MapNo, ReduceNo

\* A step that writes the files of one job is an attempt; if the job counts
\* after it, its files are complete.
LEMMA Writes == ASSUME NEW j \in MapJob \cup ReduceJob, Stage = "jobs", Stage' = "jobs",
                       j \notin Counted, j \in ReduceJob => MapJob \subseteq Counted,
                       \A i \in MapJob \cup ReduceJob : i # j => Held(i)' = Held(i),
                       \/ Held(j)' \in {"partial", "complete"} /\ Counted' = Counted
                       \/ Held(j)' = "complete" /\ Counted' = Counted \cup {j}
                PROVE  Run!Next
<1>1. Output' = [Output EXCEPT ![j] = Held(j)']
  BY DEF Output, MapJob, ReduceJob, MapNo, ReduceNo
<1>2. Run!Open(j)
  BY DEF Run!Open, Stage
<1>3. CASE Held(j)' \in {"partial", "complete"} /\ Counted' = Counted
  BY <1>1, <1>2, <1>3 DEF Run!Next, Run!Attempt, Run!Job, Output, Stage
<1>4. CASE Held(j)' = "complete" /\ Counted' = Counted \cup {j}
  BY <1>1, <1>2, <1>4 DEF Run!Next, Run!Settle, Run!Job, Output, Stage
<1> QED BY <1>3, <1>4

\* Steps before the map phase ends and the ends of phases.
LEMMA SplitStep == ASSUME Inv, Fresh, SplitLine \/ SplitEnd
                   PROVE  UNCHANGED <<Output, Counted, Stage>>
<1>1. /\ phase = "split" /\ phase' \in {"split", "map"} /\ UNCHANGED <<part, result, done>>
      /\ DOMAIN part = {} /\ DOMAIN result = {}
  BY DEF SplitLine, SplitEnd, Fresh
<1>2. \A j \in MapJob \cup ReduceJob : Held(j) = "none" /\ Held(j)' = "none"
  BY <1>1 DEF Held
<1> QED BY <1>1, <1>2, Unseen DEF Counted, Stage

LEMMA HeldKept == ASSUME phase # "cleaned", phase' # "cleaned", UNCHANGED <<inputVars, chunk, part, result>>
                  PROVE  \A j \in MapJob \cup ReduceJob : Held(j)' = Held(j)
  BY MapHeld, ReduceHeld

LEMMA MapFatalStep == ASSUME NEW i \in MapNo, MapFatal(i) PROVE Run!Die
<1>1. phase = "map" /\ phase' = "fatal" /\ UNCHANGED <<inputVars, chunk, part, result, done>>
  BY DEF MapFatal, splitVars
<1>2. Output' = Output
  BY <1>1, HeldKept DEF Output, MapJob, ReduceJob, MapNo, ReduceNo
<1> QED BY <1>1, <1>2 DEF Run!Die, Output, Counted

\* An attempt writes the files of its own map job only.
LEMMA MapAttempt == ASSUME Inv, Fresh, phase = "map", phase' = "map", NEW i \in MapNo, i \notin done,
                           NEW k \in ReduceNo, NEW cut, WritePartitions(i, k, cut),
                           UNCHANGED <<inputVars, splitVars, result>>,
                           \/ done' = done
                           \/ MapFiles(i)' /\ done' = done \cup {i}
                    PROVE  Run!Next
<1> DEFINE j == <<"map", i>>
           new == DOMAIN part \cup ({i} \X (0..k))
<1>1. j \in MapJob /\ j \notin Counted /\ j[2] = i
  BY DEF MapJob, Counted
<1>2. part' = [q \in new |-> IF q = <<i, k>> THEN cut
                             ELSE IF q[1] = i /\ q[2] < k THEN Partition(i, q[2]) ELSE part[q]]
  BY DEF WritePartitions
<1>3. ASSUME NEW h \in MapJob, h # j PROVE Held(h)' = Held(h)
  <2>1. h[2] # i
    BY <1>3, JobNames
  <2>2. \A r : <<h[2], r>> # <<i, k>> /\ <<h[2], r>>[1] # i /\ <<h[2], r>> \notin {i} \X (0..k)
    BY <2>1
  <2>3. \A r \in ReduceNo : /\ <<h[2], r>> \in DOMAIN part' <=> <<h[2], r>> \in DOMAIN part
                            /\ <<h[2], r>> \in DOMAIN part => part'[<<h[2], r>>] = part[<<h[2], r>>]
    BY <1>2, <2>2
  <2>4. phase # "cleaned" /\ phase' # "cleaned" /\ UNCHANGED <<inputVars, chunk>>
    BY DEF splitVars
  <2> HIDE DEF new
  <2> QED BY <2>3, <2>4, MapHeld
<1>4. ASSUME NEW h \in ReduceJob PROVE Held(h)' = Held(h)
  BY ReduceHeld DEF Fresh
<1>5. Held(j)' \in {"partial", "complete"}
  <2>1. <<i, 0>> \in DOMAIN part' /\ 0 \in ReduceNo
    <3>1. 0 \in 0..k /\ 0 \in ReduceNo
      BY DEF ReduceNo
    <3> QED BY <1>2, <3>1
  <2> QED BY <1>1, <2>1 DEF Held
<1>6. MapFiles(i)' => Held(j)' = "complete"
  BY <1>1, JobNames DEF Held, MapFiles
<1>7. done' = done => Counted' = Counted
  BY DEF Counted
<1>8. done' = done \cup {i} => Counted' = Counted \cup {j}
  BY DEF Counted
<1>9. Stage = "jobs" /\ Stage' = "jobs" /\ j \notin ReduceJob
  BY <1>1, JobNames DEF Stage
<1> QED
  <2> HIDE DEF j, new
  <2>1. \A h \in MapJob \cup ReduceJob : h # j => Held(h)' = Held(h)
    BY <1>3, <1>4
  <2>2. j \in MapJob \cup ReduceJob
    BY <1>1
  <2> QED BY <1>1, <1>5, <1>6, <1>7, <1>8, <1>9, <2>1, <2>2, Writes

LEMMA MapStep == ASSUME Inv, Inv', Fresh, NEW i \in MapNo,
                        DoMap(i) \/ \E k \in ReduceNo : DoMapFails(i, k)
                 PROVE  Run!Next
<1>1. CASE DoMap(i)
  <2>1. nReduce - 1 \in ReduceNo
    BY DEF ReduceNo
  <2>2. i \in done' /\ phase' = "map"
    BY <1>1 DEF DoMap
  <2>3. MapFiles(i)'
    BY <2>2 DEF Inv, Jobs
  <2> QED BY <1>1, <2>1, <2>3, MapAttempt DEF DoMap
<1>2. CASE \E k \in ReduceNo : DoMapFails(i, k)
  BY <1>2, MapAttempt DEF DoMapFails
<1> QED BY <1>1, <1>2

LEMMA ReduceAttempt == ASSUME Inv, phase = "reduce", phase' = "reduce", NEW r \in ReduceNo, r \notin done,
                              NEW written, WriteResult(r, written),
                              UNCHANGED <<inputVars, splitVars, part>>,
                              \/ done' = done
                              \/ ReduceFile(r)' /\ done' = done \cup {r}
                       PROVE  Run!Next
<1> DEFINE j == <<"reduce", r>>
<1>1. j \in ReduceJob /\ j \notin MapJob /\ j \notin Counted /\ MapJob \subseteq Counted /\ j[2] = r
  BY DEF MapJob, ReduceJob, Counted
<1>2. /\ DOMAIN result' = DOMAIN result \cup {r}
      /\ \A q \in DOMAIN result : q # r => result'[q] = result[q]
  BY DEF WriteResult
<1>3. ASSUME NEW h \in MapJob PROVE Held(h)' = Held(h)
  BY MapHeld DEF splitVars
<1>4. ASSUME NEW h \in ReduceJob, h # j PROVE Held(h)' = Held(h)
  <2>1. h[2] # r
    BY <1>4, JobNames
  <2> QED BY <1>2, <2>1, ReduceHeld
<1>5. Held(j)' \in {"partial", "complete"}
  BY <1>1, <1>2 DEF Held
<1>6. ReduceFile(r)' => Held(j)' = "complete"
  BY <1>1, <1>2 DEF Held
<1>7. done' = done => Counted' = Counted
  BY DEF Counted
<1>8. done' = done \cup {r} => Counted' = Counted \cup {j}
  BY DEF Counted
<1>9. Stage = "jobs" /\ Stage' = "jobs"
  BY DEF Stage
<1> QED
  <2> HIDE DEF j
  <2>1. \A h \in MapJob \cup ReduceJob : h # j => Held(h)' = Held(h)
    BY <1>3, <1>4
  <2>2. j \in MapJob \cup ReduceJob
    BY <1>1
  <2> QED BY <1>1, <1>5, <1>6, <1>7, <1>8, <1>9, <2>1, <2>2, Writes

LEMMA ReduceStep == ASSUME Inv, Inv', NEW r \in ReduceNo,
                           DoReduce(r) \/ \E written \in SUBSET Key : DoReduceFails(r, written)
                    PROVE  Run!Next
<1>1. CASE DoReduce(r)
  <2>1. ReduceFile(r)'
    BY <1>1 DEF Inv, Jobs, DoReduce
  <2> QED BY <1>1, <2>1, ReduceAttempt DEF DoReduce
<1>2. CASE \E written \in SUBSET Key : DoReduceFails(r, written)
  BY <1>2, ReduceAttempt DEF DoReduceFails
<1> QED BY <1>1, <1>2

\* The ends of phases count what is done already; CleanupFiles removes what
\* was complete.
LEMMA PhaseStep == ASSUME Inv, StartReduce \/ StartMerge \/ CleanupFiles
                   PROVE  UNCHANGED <<Output, Counted, Stage>>
<1>1. CASE StartReduce
  <2>1. \A j \in MapJob \cup ReduceJob : Held(j)' = Held(j)
    BY <1>1, HeldKept DEF StartReduce, splitVars
  <2> QED BY <1>1, <2>1, Unseen DEF StartReduce, Counted, Stage, MapJob
<1>2. CASE StartMerge
  <2>1. \A j \in MapJob \cup ReduceJob : Held(j)' = Held(j)
    BY <1>2, HeldKept DEF StartMerge, splitVars
  <2> QED BY <1>2, <2>1, Unseen DEF StartMerge, Counted, Stage, ReduceJob
<1>3. CASE CleanupFiles
  <2>1. phase = "merged" /\ phase' = "cleaned"
    BY <1>3 DEF CleanupFiles
  <2>2. \A j \in MapJob \cup ReduceJob : Held(j) = "complete"
    BY <2>1, DoneHeld, JobNames DEF Inv, Jobs
  <2>3. \A j \in MapJob \cup ReduceJob : Held(j)' = "complete"
    BY <2>1 DEF Held
  <2> QED BY <2>1, <2>2, <2>3, Unseen DEF Counted, Stage
<1> QED BY <1>1, <1>2, <1>3

LEMMA MergeStep == ASSUME Merge PROVE Run!Merge
<1>1. phase = "merge" /\ phase' = "merged" /\ UNCHANGED <<inputVars, chunk, part, result, done>>
  BY DEF Merge, splitVars
<1>2. Output' = Output
  BY <1>1, HeldKept DEF Output, MapJob, ReduceJob, MapNo, ReduceNo
<1> QED BY <1>1, <1>2 DEF Run!Merge, Run!Job, Output, Counted

LEMMA StepImplements == ASSUME Inv, Inv', Fresh, [Next]_vars
                        PROVE  Run!Next \/ UNCHANGED <<Output, Counted, Stage>>
<1>1. CASE UNCHANGED vars
  <2>1. \A j : Held(j)' = Held(j)
    BY <1>1 DEF vars, inputVars, splitVars, Held, MapFiles, ReduceFile, Partition, Values, Place, KeyAt
  <2> QED BY <1>1, <2>1, Unseen DEF vars, Counted, Stage
<1>2. CASE \E i \in MapNo : MapFatal(i)
  BY <1>2, MapFatalStep DEF Run!Next
<1>3. CASE Merge
  BY <1>3, MergeStep DEF Run!Next
<1> QED BY <1>1, <1>2, <1>3, SplitStep, MapStep, ReduceStep, PhaseStep DEF Next

\* The files of a run, whatever any attempts leave of theirs, go through the
\* states that MapReduceRun allows, for any input and any numbers of jobs.
THEOREM DataImplementsRun == Spec => ImplementsRun
<1>1. Init => Run!Init
  <2> SUFFICES ASSUME Init PROVE Run!Init
    OBVIOUS
  <2>1. \A j \in MapJob \cup ReduceJob : Held(j) = "none"
    BY DEF Init, Held
  <2> QED BY <2>1 DEF Init, Run!Init, Run!Job, Counted
<1>2. Inv /\ Inv' /\ Fresh /\ [Next]_vars => [Run!Next]_Run!vars
  BY StepImplements DEF Run!vars, Output, Stage
<1> QED BY <1>1, <1>2, Invariance, FreshAlways, PTL DEF Spec, ImplementsRun, Run!Spec
=============================================================================
