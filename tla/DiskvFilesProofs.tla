-------------------------- MODULE DiskvFilesProofs --------------------------
(***************************************************************************)
(* What DiskvFiles promises, proved for every number of shards, keys and   *)
(* contents and every length of names: the type invariant, that no file is *)
(* torn or lost (OldOrNew), what a replacement leaves (ReplaceComplete),   *)
(* and that the files implement DiskvStore, where a put is one step;       *)
(* whichever operations of the file system fail, and wherever the process  *)
(* ends.                                                                   *)
(***************************************************************************)
EXTENDS DiskvFiles, TLAPS

(***************************************************************************)
(* The inductive invariant.  Shape adds to TypeOK what a function that     *)
(* runs has done so far; Files is OldOrNew without the content of a        *)
(* filePut that has not renamed its file; Progress says of each key how    *)
(* far a fileReplaceShard is with it.                                      *)
(***************************************************************************)
Shape ==
    /\ status # "up" => pc = "idle"
    /\ pc = "idle" => ~replacing
    /\ ~replacing => failed = {} /\ rest = Empty
    /\ ~replacing \/ pc = "remove" => kept = Empty
    /\ pc \in {"remove", "fill"} => replacing
    /\ pc \notin {"idle", "fill"} => shard \in dirs
    /\ pc = "rename" => temp[shard][key] = content
    /\ pc = "renamed" => file[shard][key] = content

NowAllowed(s, k) ==
    may[s][k] \cup
    (IF pc = "renamed" /\ s = shard /\ k = key THEN {content} ELSE {}) \cup
    (IF pc = "remove" /\ s = shard THEN {Missing} ELSE {})

Files == \A s \in Shards, k \in Keys : file[s][k] \in NowAllowed(s, k)

Running(k) == Putting /\ k = key

Ahead(k) == /\ rest[k] = target[k] /\ file[shard][k] = kept[k]
            /\ k \notin failed /\ ~Running(k)
Now(k)   == /\ content = target[k] /\ k \notin failed
            /\ pc # "renamed" => file[shard][k] = kept[k]
Done(k)  == file[shard][k] = IF target[k] # Missing /\ k \notin failed THEN target[k]
                             ELSE kept[k]

Progress ==
    /\ pc = "remove" => rest = target /\ failed = {}
    /\ replacing /\ pc # "remove" => \A k \in Keys :
         /\ rest[k] # Missing => Ahead(k)
         /\ rest[k] = Missing /\ Running(k) => Now(k)
         /\ rest[k] = Missing /\ ~Running(k) => Done(k)

IInv == TypeOK /\ Shape /\ Files /\ Progress

LEMMA InitIInv == Init => IInv
<1> SUFFICES ASSUME Init PROVE IInv
    OBVIOUS
<1>1. TypeOK
    BY DiskAssumption DEF Init, TypeOK, Putting, Map, Empty
<1>2. Shape /\ Progress
    BY DEF Init, Shape, Progress
<1>3. Files
    BY DEF Init, Files, NowAllowed, Empty
<1> QED
    BY <1>1, <1>2, <1>3 DEF IInv

-----------------------------------------------------------------------------
(***************************************************************************)
(* Every step preserves the type invariant, with Shape.                    *)
(***************************************************************************)
LEMMA TypePreserved == TypeOK /\ Shape /\ [Next]_vars => TypeOK'
<1> SUFFICES ASSUME TypeOK, Shape, [Next]_vars
             PROVE  TypeOK'
    OBVIOUS
<1> USE DiskAssumption DEF TypeOK, Shape, Putting, Map
<1>1. ASSUME NEW s \in Shards, NEW k \in Keys, NEW v \in Contents, FilePut(s, k, v)
      PROVE  TypeOK'
      BY <1>1 DEF FilePut, Idle, ShardDir
<1>2. ASSUME NEW s \in Shards, NEW m \in Map, FileReplaceShard(s, m)
      PROVE  TypeOK'
      BY <1>2 DEF FileReplaceShard, Idle, ShardDir
<1>3. ASSUME NEW s \in Shards, FileGet(s) \/ FileReadShard(s)
      PROVE  TypeOK'
      BY <1>3 DEF FileGet, FileReadShard, Idle, ShardDir, argVars
<1>4. CASE OpenTemp
      BY <1>4 DEF OpenTemp, argVars
<1>5. CASE OpenFails
      BY <1>5 DEF OpenFails, PutReturns
<1>6. CASE WriteTemp
      BY <1>6 DEF WriteTemp, argVars
<1>7. CASE WriteFails
      BY <1>7 DEF WriteFails, PutReturns
<1>8. CASE Rename
      BY <1>8 DEF Rename, argVars
<1>9. CASE RenameFails
      BY <1>9 DEF RenameFails, PutReturns
<1>10. CASE PutSucceeds
      BY <1>10 DEF PutSucceeds, PutReturns
<1>11. CASE RemoveEntry
  <2>1. PICK k \in Keys :
          \/ file' = [file EXCEPT ![shard][k] = Missing] /\ temp' = temp
          \/ temp' = [temp EXCEPT ![shard][k] = Missing] /\ file' = file
        BY <1>11 DEF RemoveEntry
  <2>2. shard \in Shards /\ shard \in dirs /\ pc = "remove"
        BY <1>11 DEF RemoveEntry
  <2>3. /\ file' \in [Shards -> Map] /\ temp' \in [Shards -> [Keys -> Contents \cup {Missing, Partial}]]
        /\ \A s \in Shards \ dirs : file'[s] = Empty /\ temp'[s] = Empty
    <3>1. CASE file' = [file EXCEPT ![shard][k] = Missing] /\ temp' = temp
          BY <2>2, <3>1
    <3>2. CASE temp' = [temp EXCEPT ![shard][k] = Missing] /\ file' = file
          BY <2>2, <3>2
    <3> QED
          BY <2>1, <3>1, <3>2
  <2> QED
        BY <1>11, <2>2, <2>3 DEF RemoveEntry, argVars
<1>12. CASE RemoveDir \/ RemoveFails
  <2>1. shard \in Shards /\ kept' \in Map
        BY <1>12 DEF RemoveDir, RemoveFails
  <2>2. may' \in [Shards -> [Keys -> SUBSET (Contents \cup {Missing})]]
    <3>1. CASE RemoveDir
          BY <2>1, <3>1 DEF RemoveDir
    <3>2. CASE RemoveFails
      <4>1. [k \in Keys |-> may[shard][k] \cup {Missing}]
              \in [Keys -> SUBSET (Contents \cup {Missing})]
            BY <2>1
      <4> QED
            BY <2>1, <3>2, <4>1 DEF RemoveFails
    <3> QED
          BY <1>12, <3>1, <3>2
  <2> QED
        BY <1>12, <2>1, <2>2 DEF RemoveDir, RemoveFails, argVars, diskVars
<1>13. CASE FillKey
      BY <1>13 DEF FillKey, ShardDir
<1>14. CASE ReplaceReturns
      BY <1>14 DEF ReplaceReturns, Forget, diskVars, Empty
<1>15. CASE Crash \/ ShardDirFails
  <2>0. (Ends("down") \/ Ends("fatal")) /\ status' \in {"down", "fatal"}
        BY <1>15 DEF Crash, ShardDirFails, Ends
  <2>1. \A s \in Shards, k \in Keys : Allowed(s, k) \in SUBSET (Contents \cup {Missing})
        BY DEF Allowed
  <2>2. may' \in [Shards -> [Keys -> SUBSET (Contents \cup {Missing})]]
        BY <2>0, <2>1 DEF Ends
  <2>3. Empty \in Map
        BY DEF Empty
  <2> QED
        BY <2>0, <2>2, <2>3 DEF Ends, Forget, diskVars
<1>16. CASE DiskLost
      BY <1>16 DEF DiskLost, argVars, Empty
<1>17. CASE Restart
      BY <1>17 DEF Restart, argVars, diskVars
<1>18. CASE UNCHANGED vars
      BY <1>18 DEF vars, argVars, diskVars
<1> QED
    BY <1>1, <1>2, <1>3, <1>4, <1>5, <1>6, <1>7, <1>8, <1>9, <1>10, <1>11, <1>12,
       <1>13, <1>14, <1>15, <1>16, <1>17, <1>18 DEF Next, Put, Replace, Process, Call

LEMMA ShapePreserved == TypeOK /\ Shape /\ [Next]_vars => Shape'
<1> SUFFICES ASSUME TypeOK, Shape, [Next]_vars
             PROVE  Shape'
    OBVIOUS
<1> USE DiskAssumption DEF TypeOK, Shape, Putting, Map
<1>1. ASSUME NEW s \in Shards, NEW k \in Keys, NEW v \in Contents, FilePut(s, k, v)
      PROVE  Shape'
      BY <1>1 DEF FilePut, Idle, ShardDir
<1>2. ASSUME NEW s \in Shards, NEW m \in Map, FileReplaceShard(s, m)
      PROVE  Shape'
      BY <1>2 DEF FileReplaceShard, Idle, ShardDir
<1>3. ASSUME NEW s \in Shards, FileGet(s) \/ FileReadShard(s)
      PROVE  Shape'
      BY <1>3 DEF FileGet, FileReadShard, Idle, ShardDir, argVars
<1>4. CASE OpenTemp
      BY <1>4 DEF OpenTemp, argVars
<1>5. CASE OpenFails \/ WriteFails \/ RenameFails \/ PutSucceeds
  <2>1. /\ pc' = (IF replacing THEN "fill" ELSE "idle")
        /\ ~replacing => failed' = failed
        /\ UNCHANGED <<replacing, rest, kept, status>> /\ status = "up"
        BY <1>5 DEF OpenFails, WriteFails, RenameFails, PutSucceeds, PutReturns
  <2> QED
        BY <2>1
<1>6. CASE WriteTemp
      BY <1>6 DEF WriteTemp, argVars
<1>7. CASE Rename
      BY <1>7 DEF Rename, argVars
<1>8. CASE RemoveEntry \/ RemoveDir \/ RemoveFails
      BY <1>8 DEF RemoveEntry, RemoveDir, RemoveFails, argVars
<1>9. CASE FillKey
      BY <1>9 DEF FillKey, ShardDir
<1>10. CASE ReplaceReturns \/ Crash \/ ShardDirFails
      BY <1>10 DEF ReplaceReturns, Crash, ShardDirFails, Ends, Forget, diskVars
<1>11. CASE DiskLost \/ Restart
      BY <1>11 DEF DiskLost, Restart, argVars, diskVars
<1>12. CASE UNCHANGED vars
      BY <1>12 DEF vars, argVars, diskVars
<1> QED
    BY <1>1, <1>2, <1>3, <1>4, <1>5, <1>6, <1>7, <1>8, <1>9, <1>10, <1>11, <1>12
       DEF Next, Put, Replace, Process, Call

-----------------------------------------------------------------------------
(***************************************************************************)
(* Only three steps write a key's file, and those that leave the files     *)
(* alone may only widen what is allowed in them, or drop from it what is   *)
(* not there.                                                              *)
(***************************************************************************)
LEMMA FilesPreserved == TypeOK /\ Shape /\ Files /\ [Next]_vars => Files'
<1> SUFFICES ASSUME TypeOK, Shape, Files, [Next]_vars
             PROVE  Files'
    OBVIOUS
<1> USE DEF Files, NowAllowed
<1>1. ASSUME NEW s \in Shards, NEW k \in Keys, NEW v \in Contents, FilePut(s, k, v)
      PROVE  Files'
      BY <1>1 DEF FilePut, Idle
<1>2. ASSUME NEW s \in Shards, NEW m \in Map, FileReplaceShard(s, m)
      PROVE  Files'
      BY <1>2 DEF FileReplaceShard, Idle
<1>3. ASSUME NEW s \in Shards, FileGet(s) \/ FileReadShard(s)
      PROVE  Files'
      BY <1>3 DEF FileGet, FileReadShard, Idle, argVars
<1>4. CASE OpenTemp \/ WriteTemp
      BY <1>4 DEF OpenTemp, WriteTemp, argVars
<1>5. CASE OpenFails \/ WriteFails \/ RenameFails
      BY <1>5 DEF OpenFails, WriteFails, RenameFails, PutReturns
<1>6. CASE Rename
      BY <1>6 DEF Rename, argVars, Shape, TypeOK, Putting, Map
<1>7. CASE PutSucceeds
      BY <1>7 DEF PutSucceeds, PutReturns, Shape, TypeOK, Putting, Map
<1>8. CASE RemoveEntry
  <2>1. PICK k \in Keys : file' \in {file, [file EXCEPT ![shard][k] = Missing]}
        BY <1>8 DEF RemoveEntry
  <2> QED
        BY <1>8, <2>1 DEF RemoveEntry, argVars, TypeOK, Map
<1>9. CASE RemoveDir \/ RemoveFails
      BY <1>9 DEF RemoveDir, RemoveFails, argVars, diskVars, Empty, TypeOK
<1>10. CASE FillKey \/ ReplaceReturns
      BY <1>10 DEF FillKey, ReplaceReturns, diskVars
<1>11. CASE Crash \/ ShardDirFails
      BY <1>11 DEF Crash, ShardDirFails, Ends, diskVars, Allowed, Putting
<1>12. CASE DiskLost
      BY <1>12 DEF DiskLost, Empty
<1>13. CASE Restart
      BY <1>13 DEF Restart, argVars, diskVars
<1>14. CASE UNCHANGED vars
      BY <1>14 DEF vars, argVars, diskVars
<1> QED
    BY <1>1, <1>2, <1>3, <1>4, <1>5, <1>6, <1>7, <1>8, <1>9, <1>10, <1>11, <1>12,
       <1>13, <1>14 DEF Next, Put, Replace, Process, Call

-----------------------------------------------------------------------------
(***************************************************************************)
(* A replacement goes on key by key: nothing but its own steps writes the  *)
(* files of its shard.                                                     *)
(***************************************************************************)
LEMMA ProgressPreserved == TypeOK /\ Shape /\ Progress /\ [Next]_vars => Progress'
<1> SUFFICES ASSUME TypeOK, Shape, Progress, [Next]_vars
             PROVE  Progress'
    OBVIOUS
<1> USE DEF Progress, Ahead, Now, Done, Running, Putting
<1>1. ASSUME NEW s \in Shards, NEW k \in Keys, NEW v \in Contents, FilePut(s, k, v)
      PROVE  Progress'
      BY <1>1 DEF FilePut, Idle, Shape
<1>2. ASSUME NEW s \in Shards, NEW m \in Map, FileReplaceShard(s, m)
      PROVE  Progress'
      BY <1>2 DEF FileReplaceShard, Idle, Shape
<1>3. ASSUME NEW s \in Shards, FileGet(s) \/ FileReadShard(s)
      PROVE  Progress'
      BY <1>3 DEF FileGet, FileReadShard, Idle, Shape, argVars
<1>4. CASE OpenTemp \/ WriteTemp
      BY <1>4 DEF OpenTemp, WriteTemp, argVars
<1>5. CASE OpenFails \/ WriteFails \/ RenameFails
      BY <1>5 DEF OpenFails, WriteFails, RenameFails, PutReturns
<1>6. CASE Rename
      BY <1>6 DEF Rename, argVars, TypeOK, Map
<1>7. CASE PutSucceeds
  <2>1. content \in Contents /\ content # Missing
        BY <1>7, DiskAssumption DEF PutSucceeds, TypeOK
  <2> QED
        BY <1>7, <2>1 DEF PutSucceeds, PutReturns, Shape
<1>8. CASE RemoveEntry
      BY <1>8 DEF RemoveEntry, argVars
<1>9. CASE RemoveDir \/ RemoveFails
      BY <1>9 DEF RemoveDir, RemoveFails, argVars, diskVars, Empty, Shape, TypeOK, Map
<1>10. CASE FillKey
      BY <1>10 DEF FillKey, TypeOK, Map
<1>11. CASE ReplaceReturns \/ Crash \/ ShardDirFails
      BY <1>11 DEF ReplaceReturns, Crash, ShardDirFails, Ends, Forget
<1>12. CASE DiskLost \/ Restart
      BY <1>12 DEF DiskLost, Restart, argVars, Shape
<1>13. CASE UNCHANGED vars
      BY <1>13 DEF vars, argVars, diskVars
<1> QED
    BY <1>1, <1>2, <1>3, <1>4, <1>5, <1>6, <1>7, <1>8, <1>9, <1>10, <1>11, <1>12,
       <1>13 DEF Next, Put, Replace, Process, Call

LEMMA StepIInv == IInv /\ [Next]_vars => IInv'
BY TypePreserved, ShapePreserved, FilesPreserved, ProgressPreserved DEF IInv

LEMMA InvIInv == Spec => []IInv
BY InitIInv, StepIInv, PTL DEF Spec

-----------------------------------------------------------------------------
\* Files are only in directories that exist and never hold a part of a content,
\* at every moment of filePut and fileReplaceShard and after every crash.
THEOREM TypeInvariant == Spec => []TypeOK
BY InvIInv, PTL DEF IInv

\* A key's file holds what the last filePut that succeeded wrote, or the old or
\* the new content of one that a crash cut short.
THEOREM FilesAreOldOrNew == Spec => []OldOrNew
<1>1. IInv => OldOrNew
  <2> SUFFICES ASSUME IInv, NEW s \in Shards, NEW k \in Keys
               PROVE  file[s][k] \in Allowed(s, k)
      BY DEF OldOrNew
  <2>1. file[s][k] \in NowAllowed(s, k)
      BY DEF IInv, Files
  <2>2. NowAllowed(s, k) \subseteq Allowed(s, k)
      BY DEF NowAllowed, Allowed, Putting
  <2> QED
      BY <2>1, <2>2
<1> QED
    BY <1>1, InvIInv, PTL

\* A fileReplaceShard that returns has put its map, but for the keys whose filePut
\* failed, over nothing, or over what its failed removal left.
THEOREM ReplacementsComplete == Spec => ReplaceComplete
<1>1. IInv /\ [Next]_vars =>
        [pc = "fill" /\ pc' = "idle" /\ status' = "up" =>
            \A k \in Keys :
                file[shard][k] = IF target[k] # Missing /\ k \notin failed THEN target[k]
                                 ELSE kept[k]]_vars
  <2> SUFFICES ASSUME IInv, Next, pc = "fill", pc' = "idle", status' = "up", NEW k \in Keys
               PROVE  file[shard][k] = IF target[k] # Missing /\ k \notin failed
                                       THEN target[k] ELSE kept[k]
      BY DEF vars
  <2>1. ReplaceReturns
    <3>1. ~Put /\ ~RemoveEntry /\ ~RemoveDir /\ ~RemoveFails /\ ~FillKey
          BY DEF Put, OpenTemp, OpenFails, WriteTemp, WriteFails, Rename, RenameFails,
             PutSucceeds, RemoveEntry, RemoveDir, RemoveFails, FillKey
    <3>2. ~Process
          BY DEF Process, Crash, ShardDirFails, Ends, DiskLost, Restart
    <3>3. \A s \in Shards : ~Call(s)
          BY DEF Call, FilePut, FileReplaceShard, FileGet, FileReadShard, Idle
    <3> QED
          BY <3>1, <3>2, <3>3 DEF Next, Replace
  <2>2. rest[k] = Missing /\ ~Running(k) /\ replacing
        BY <2>1 DEF ReplaceReturns, Empty, Running, Putting, IInv, Shape
  <2> QED
        BY <2>2 DEF IInv, Progress, Done
<1> QED
    BY <1>1, InvIInv, PTL DEF Spec, ReplaceComplete

-----------------------------------------------------------------------------
(***************************************************************************)
(* The file functions implement DiskvStore.  What a function has yet to    *)
(* put, and what runs, are functions of its place in the code.             *)
(***************************************************************************)
Op == IF pc = "idle" THEN "none" ELSE IF pc = "remove" THEN "clear"
      ELSE IF replacing THEN "fill" ELSE "put"
Left == IF pc \in {"open", "write", "rename"} THEN [rest EXCEPT ![key] = content] ELSE rest

LEMMA InitImplements == Init => Store!Init
BY DEF Init, Store!Init, Empty, Store!Empty

\* filePut begins; opening and writing the temporary file are not seen.
LEMMA BeginImplements ==
    ASSUME IInv,
           \/ \E s \in Shards, k \in Keys, v \in Contents : FilePut(s, k, v)
           \/ \E s \in Shards, m \in Map : FileReplaceShard(s, m)
           \/ \E s \in Shards : FileGet(s) \/ FileReadShard(s)
    PROVE  [Store!Next]_(Store!vars)
<1>1. ASSUME NEW s \in Shards, NEW k \in Keys, NEW v \in Contents, FilePut(s, k, v)
      PROVE  Store!Put(s, k, v)
  <2>1. rest = Empty /\ ~replacing
        BY <1>1 DEF FilePut, Idle, IInv, Shape
  <2>2. rest' = rest /\ replacing' = replacing
        BY <1>1 DEF FilePut
  <2> QED
      BY <1>1, <2>1, <2>2 DEF FilePut, Idle, Store!Put, Empty, Store!Empty
<1>2. ASSUME NEW s \in Shards, NEW m \in Map, FileReplaceShard(s, m)
      PROVE  Store!Replace(s, m)
      BY <1>2 DEF FileReplaceShard, Idle, Store!Replace
<1>3. ASSUME NEW s \in Shards, FileGet(s)
      PROVE  UNCHANGED Store!vars
      BY <1>3 DEF FileGet, argVars, Store!vars
<1>4. ASSUME NEW s \in Shards, FileReadShard(s)
      PROVE  UNCHANGED Store!vars \/ Store!Crash
      BY <1>4 DEF FileReadShard, Idle, argVars, Store!vars, Store!Crash,
                  IInv, TypeOK, Shape, Putting, Empty, Store!Empty
<1>5. Map = Store!Map
      BY DEF Map, Store!Map
<1> QED
    BY <1>1, <1>2, <1>3, <1>4, <1>5 DEF Store!Next

\* The rename is the step in which a filePut takes effect.
LEMMA RenameImplements == ASSUME IInv, Rename PROVE Store!Write(key)
<1> USE DEF IInv, TypeOK, Shape, Putting
<1>1. key \in Keys /\ content \in Contents /\ content # Missing /\ shard \in Shards
      BY DiskAssumption DEF Rename
<1>2. rest \in Map /\ rest[key] = Missing
      BY <1>1 DEF Rename, Progress, Ahead, Running, Empty
<1>3. Left = [rest EXCEPT ![key] = content] /\ Left' = rest
      BY DEF Rename, Left
<1>4. Left[key] = content /\ Left' = [Left EXCEPT ![key] = Missing]
      BY <1>1, <1>2, <1>3 DEF Map
<1>5. Op \in {"put", "fill"} /\ Op' = Op
      BY DEF Rename, Op
<1>6. file' = [file EXCEPT ![shard][key] = Left[key]]
      BY <1>4 DEF Rename
<1> QED
    BY <1>1, <1>4, <1>5, <1>6 DEF Rename, argVars, Store!Write, Left, Op

\* An error of a filePut comes before that step.
LEMMA FailImplements ==
    ASSUME IInv, OpenFails \/ WriteFails \/ RenameFails
    PROVE  Store!Fail(key)
<1> USE DEF IInv, TypeOK, Shape, Putting
<1>1. pc \in {"open", "write", "rename"} /\ PutReturns(TRUE) /\ UNCHANGED file
      BY DEF OpenFails, WriteFails, RenameFails
<1>2. key \in Keys /\ content \in Contents /\ content # Missing
      BY <1>1, DiskAssumption
<1>3. rest \in Map /\ rest[key] = Missing
      BY <1>1, <1>2 DEF Progress, Ahead, Running, Empty
<1>4. Left = [rest EXCEPT ![key] = content] /\ Left' = rest
      BY <1>1 DEF PutReturns, Left
<1>5. Left[key] = content /\ Left' = [Left EXCEPT ![key] = Missing]
      BY <1>2, <1>3, <1>4 DEF Map
<1>6. /\ Op \in {"put", "fill"}
      /\ Op' = (IF Op = "put" THEN "none" ELSE Op)
      /\ shard' = (IF Op = "put" THEN None ELSE shard)
      BY <1>1 DEF PutReturns, Op
<1> QED
    BY <1>1, <1>2, <1>5, <1>6 DEF PutReturns, Store!Fail, Left, Op

LEMMA PutImplements == ASSUME IInv, Put PROVE [Store!Next]_(Store!vars)
<1>1. ASSUME OpenTemp \/ WriteTemp
      PROVE  UNCHANGED Store!vars
      BY <1>1 DEF OpenTemp, WriteTemp, argVars, Store!vars
<1>2. ASSUME Rename \/ OpenFails \/ WriteFails \/ RenameFails
      PROVE  \E k \in Keys : Store!Write(k) \/ Store!Fail(k)
  <2>1. key \in Keys
        BY <1>2 DEF Rename, OpenFails, WriteFails, RenameFails, IInv, TypeOK, Putting
  <2> QED
        BY <1>2, <2>1, RenameImplements, FailImplements
<1>3. ASSUME PutSucceeds, replacing
      PROVE  UNCHANGED Store!vars
      BY <1>3 DEF PutSucceeds, PutReturns, Store!vars
<1>4. ASSUME PutSucceeds, ~replacing
      PROVE  Store!Return
      BY <1>4 DEF PutSucceeds, PutReturns, IInv, Shape, Empty, Store!Empty, Store!Return
<1> QED
    BY <1>1, <1>2, <1>3, <1>4 DEF Put, Store!Next

LEMMA ReplaceImplements == ASSUME IInv, Replace PROVE [Store!Next]_(Store!vars)
<1>1. ASSUME RemoveEntry
      PROVE  (\E k \in Keys : Store!Clear(k)) \/ UNCHANGED Store!vars
      BY <1>1 DEF RemoveEntry, argVars, Store!Clear, Store!vars
<1>2. ASSUME RemoveDir \/ RemoveFails
      PROVE  Store!Cleared
      BY <1>2 DEF RemoveDir, RemoveFails, argVars, diskVars, IInv, Shape, Store!Cleared
<1>3. ASSUME FillKey
      PROVE  UNCHANGED Store!vars
  <2>1. PICK k \in Keys : /\ rest[k] # Missing
                          /\ key' = k /\ content' = rest[k]
                          /\ rest' = [rest EXCEPT ![k] = Missing]
        BY <1>3 DEF FillKey
  <2>2. [rest' EXCEPT ![key'] = content'] = rest
        BY <2>1 DEF IInv, TypeOK, Map
  <2> QED
        BY <1>3, <2>2 DEF FillKey, Store!vars
<1>4. ASSUME ReplaceReturns
      PROVE  Store!Return
      BY <1>4 DEF ReplaceReturns, Forget, diskVars, IInv, Shape, Empty, Store!Empty, Store!Return
<1> QED
    BY <1>1, <1>2, <1>3, <1>4 DEF Replace, Store!Next

LEMMA ProcessImplements == ASSUME IInv, Process PROVE Store!Next
<1>1. ASSUME Crash \/ ShardDirFails
      PROVE  Store!Crash
      BY <1>1 DEF Crash, ShardDirFails, Ends, Forget, diskVars, Empty, Store!Empty, Store!Crash
<1>2. ASSUME DiskLost
      PROVE  Store!DiskLost
      BY <1>2 DEF DiskLost, argVars, Empty, Store!Empty, Store!DiskLost
<1>3. ASSUME Restart
      PROVE  Store!Restart
      BY <1>3 DEF Restart, argVars, diskVars, Store!Restart
<1> QED
    BY <1>1, <1>2, <1>3 DEF Process, Store!Next

LEMMA StepImplements == IInv /\ [Next]_vars => [Store!Next]_(Store!vars)
<1> SUFFICES ASSUME IInv, [Next]_vars
             PROVE  [Store!Next]_(Store!vars)
    OBVIOUS
<1>1. CASE \E s \in Shards : Call(s)
      BY <1>1, BeginImplements DEF Call
<1>2. CASE Put \/ Replace \/ Process
      BY <1>2, PutImplements, ReplaceImplements, ProcessImplements
<1>3. CASE UNCHANGED vars
      BY <1>3 DEF vars, argVars, diskVars, Store!vars
<1> QED
    BY <1>1, <1>2, <1>3 DEF Next

\* Whatever the crashes, errors and left-over temporary files, what is stored is
\* that of a store whose puts are single steps: rename() is that step.
THEOREM FilesImplementStore == Spec => ImplementsStore
BY InitImplements, StepImplements, InvIInv, PTL DEF Spec, ImplementsStore, Store!Spec
=============================================================================
