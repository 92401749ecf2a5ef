----------------------------- MODULE DiskvFiles -----------------------------
(***************************************************************************)
(* The file store of one diskv server (diskv/server.go:51-139): a          *)
(* directory per shard and in it one file per key, written under a         *)
(* temporary name first.  The process may be killed between any two file   *)
(* operations (the machine goes on, so that what was written stays), and a *)
(* test may delete its files while it is down.  Any of these operations    *)
(* may fail: what the code then returns, ignores or ends the process for   *)
(* is modelled.  The functions run one at a time, as under kv.mu; their    *)
(* callers are not in the repository, so any function may be called with   *)
(* any arguments.                                                          *)
(***************************************************************************)
EXTENDS Naturals

CONSTANTS Shards, Keys, Contents,
          KeyLen,  \* key -> its length in bytes
          NameMax  \* the longest name of a file; 255 on most file systems

Missing == "missing"
None    == "none"     \* no argument: nothing runs
Partial == "partial"  \* a file created or truncated and not yet written

ASSUME DiskAssumption ==
    /\ Missing \notin Contents /\ Partial \notin Contents
    /\ None \notin Shards \cup Keys \cup Contents
    /\ KeyLen \in [Keys -> Nat] /\ NameMax \in Nat

VARIABLES
    dirs,      \* the shards that have a directory
    file,      \* shard -> key -> content of key-<key>
    temp,      \* shard -> key -> content of temp-<key>
    status,    \* of the process: "up", "down", "fatal" (log.Fatalf)
    pc,        \* where the running function is
    shard, key, content,  \* its arguments
    replacing, \* whether it is called by fileReplaceShard
    rest,      \* the map of fileReplaceShard without what is put already
    target,    \* history: the whole map
    failed,    \* history: its keys whose filePut returned an error
    kept,      \* history: key -> what a removal that failed left of the shard
    may        \* history: shard -> key -> what may be in the file: what the
               \* last filePut wrote, or more if it was cut short by a crash

diskVars == <<dirs, file, temp>>
argVars  == <<shard, key, content>>
vars     == <<diskVars, argVars, status, pc, replacing, rest, target, failed, kept, may>>

Map == [Keys -> Contents \cup {Missing}]
Empty == [k \in Keys |-> Missing]

Init ==
    /\ dirs = {} /\ file = [s \in Shards |-> Empty] /\ temp = [s \in Shards |-> Empty]
    /\ status = "up" /\ pc = "idle"
    /\ shard = None /\ key = None /\ content = None
    /\ replacing = FALSE /\ rest = Empty /\ target = Empty /\ failed = {}
    /\ kept = Empty
    /\ may = [s \in Shards |-> [k \in Keys |-> {Missing}]]

\* encodeKey: base32 makes eight characters of every five bytes begun.
EncodedLen(n) == 8 * ((n + 4) \div 5)
NameTooLong(k) == 5 + EncodedLen(KeyLen[k]) > NameMax  \* temp-<encoded key>

Idle == status = "up" /\ pc = "idle"

\* What a function knows is gone when it returns or the process dies.
Forget ==
    /\ shard' = None /\ key' = None /\ content' = None
    /\ replacing' = FALSE /\ rest' = Empty /\ target' = Empty /\ failed' = {}
    /\ kept' = Empty

\* shardDir creates the directory if needed; ShardDirFails is below.
ShardDir(s) == dirs' = dirs \cup {s}

-----------------------------------------------------------------------------
(***************************************************************************)
(* filePut: shardDir, ioutil.WriteFile of the temporary file, os.Rename.   *)
(***************************************************************************)
FilePut(s, k, v) ==
    /\ Idle
    /\ ShardDir(s)
    /\ shard' = s /\ key' = k /\ content' = v
    /\ pc' = "open"
    /\ UNCHANGED <<file, temp, status, replacing, rest, target, failed, kept, may>>

\* filePut returns to its caller; fileReplaceShard does not look at the error.
PutReturns(error) ==
    /\ pc' = IF replacing THEN "fill" ELSE "idle"
    /\ shard' = IF replacing THEN shard ELSE None
    /\ key' = None /\ content' = None
    /\ failed' = IF error /\ replacing THEN failed \cup {key} ELSE failed
    /\ may' = IF error THEN may ELSE [may EXCEPT ![shard][key] = {content}]
    /\ UNCHANGED <<dirs, status, replacing, rest, target, kept>>

\* (A possible bug: the key's file is written in place.)
OpenInPlace ==
    /\ pc = "open" /\ ~NameTooLong(key)
    /\ file' = [file EXCEPT ![shard][key] = Partial]
    /\ pc' = "write"
    /\ UNCHANGED <<dirs, temp, argVars, status, replacing, rest, target, failed, kept, may>>

\* The file is created, or an old one truncated.
OpenTemp ==
    /\ pc = "open" /\ ~NameTooLong(key)
    /\ temp' = [temp EXCEPT ![shard][key] = Partial]
    /\ pc' = "write"
    /\ UNCHANGED <<dirs, file, argVars, status, replacing, rest, target, failed, kept, may>>

OpenFails ==
    /\ pc = "open"  \* always if NameTooLong(key); also without a file descriptor
    /\ PutReturns(TRUE)
    /\ UNCHANGED <<file, temp>>

\* (A possible bug: the old file is removed, to make place for the rename.)
WriteTempRemoving ==
    /\ pc = "write"
    /\ temp' = [temp EXCEPT ![shard][key] = content]
    /\ file' = [file EXCEPT ![shard][key] = Missing]
    /\ pc' = "rename"
    /\ UNCHANGED <<dirs, argVars, status, replacing, rest, target, failed, kept, may>>

WriteTemp ==
    /\ pc = "write"
    /\ temp' = [temp EXCEPT ![shard][key] = content]
    /\ pc' = "rename"
    /\ UNCHANGED <<dirs, file, argVars, status, replacing, rest, target, failed, kept, may>>

\* The disk is full: the temporary file stays.
WriteFails ==
    /\ pc = "write"
    /\ PutReturns(TRUE)
    /\ UNCHANGED <<file, temp>>

Rename ==
    /\ pc = "rename"
    /\ file' = [file EXCEPT ![shard][key] = temp[shard][key]]
    /\ temp' = [temp EXCEPT ![shard][key] = Missing]
    /\ pc' = "renamed"
    /\ UNCHANGED <<dirs, argVars, status, replacing, rest, target, failed, kept, may>>

RenameFails ==
    /\ pc = "rename"
    /\ PutReturns(TRUE)
    /\ UNCHANGED <<file, temp>>

PutSucceeds ==
    /\ pc = "renamed"
    /\ PutReturns(FALSE)
    /\ UNCHANGED <<file, temp>>

-----------------------------------------------------------------------------
(***************************************************************************)
(* fileReplaceShard: os.RemoveAll of the directory, entry by entry and     *)
(* perhaps not of all, then a filePut per key of the map, in any order.    *)
(***************************************************************************)
FileReplaceShard(s, m) ==
    /\ Idle
    /\ ShardDir(s)
    /\ shard' = s
    /\ replacing' = TRUE /\ rest' = m /\ target' = m
    /\ pc' = "remove"
    /\ UNCHANGED <<file, temp, status, key, content, failed, kept, may>>

RemoveEntry ==
    /\ pc = "remove"
    /\ \E k \in Keys :
         \/ /\ file[shard][k] # Missing
            /\ file' = [file EXCEPT ![shard][k] = Missing]
            /\ UNCHANGED temp
         \/ /\ temp[shard][k] # Missing
            /\ temp' = [temp EXCEPT ![shard][k] = Missing]
            /\ UNCHANGED file
    /\ UNCHANGED <<dirs, argVars, status, pc, replacing, rest, target, failed, kept, may>>

\* (A possible bug: the files are overwritten and not removed first.)
RemoveNothing ==
    /\ pc = "remove"
    /\ pc' = "fill"
    /\ UNCHANGED <<diskVars, argVars, status, replacing, rest, target, failed, kept, may>>

\* The empty directory goes as well.
RemoveDir ==
    /\ pc = "remove" /\ file[shard] = Empty /\ temp[shard] = Empty
    /\ dirs' = dirs \ {shard}
    /\ may' = [may EXCEPT ![shard] = [k \in Keys |-> {Missing}]]
    /\ pc' = "fill"
    /\ UNCHANGED <<file, temp, argVars, status, replacing, rest, target, failed, kept>>

\* Nobody looks at the error of RemoveAll: what it did not remove stays.
RemoveFails ==
    /\ pc = "remove"
    /\ kept' = file[shard]
    /\ may' = [may EXCEPT ![shard] = [k \in Keys |-> @[k] \cup {Missing}]]
    /\ pc' = "fill"
    /\ UNCHANGED <<diskVars, argVars, status, replacing, rest, target, failed>>

FillKey ==
    /\ pc = "fill"
    /\ \E k \in Keys :
         /\ rest[k] # Missing
         /\ key' = k /\ content' = rest[k]
         /\ rest' = [rest EXCEPT ![k] = Missing]
    /\ ShardDir(shard)
    /\ pc' = "open"
    /\ UNCHANGED <<file, temp, shard, status, replacing, target, failed, kept, may>>

ReplaceReturns ==
    /\ pc = "fill" /\ rest = Empty
    /\ pc' = "idle"
    /\ Forget
    /\ UNCHANGED <<diskVars, status, may>>

-----------------------------------------------------------------------------
(***************************************************************************)
(* fileGet and fileReadShard.  What they return is what the files hold:    *)
(* only that they create the directory, and that an error of ReadDir or of *)
(* a fileGet ends the process in fileReadShard, changes state.  Every name *)
(* that begins with key- can be decoded: filePut alone makes them.         *)
(***************************************************************************)
FileGet(s) ==
    /\ Idle
    /\ ShardDir(s)
    /\ UNCHANGED <<file, temp, argVars, status, pc, replacing, rest, target, failed, kept, may>>

FileReadShard(s) ==
    /\ Idle
    /\ ShardDir(s)
    /\ status' \in {"up", "fatal"}
    /\ UNCHANGED <<file, temp, argVars, pc, replacing, rest, target, failed, kept, may>>

-----------------------------------------------------------------------------
Putting == pc \in {"open", "write", "rename", "renamed"}

\* What a file may hold while a function runs.
Allowed(s, k) ==
    may[s][k] \cup
    (IF Putting /\ s = shard /\ k = key THEN {content} ELSE {}) \cup
    (IF pc = "remove" /\ s = shard THEN {Missing} ELSE {})

\* The process ends, wherever it is.
Ends(how) ==
    /\ status = "up"
    /\ status' = how /\ pc' = "idle"
    /\ Forget
    /\ may' = [s \in Shards |-> [k \in Keys |-> Allowed(s, k)]]
    /\ UNCHANGED diskVars

\* The process is killed.
Crash == Ends("down")

\* Mkdir fails, perhaps since a failing Stat called for it although the
\* directory exists.  Every function calls shardDir first, filePut twice.
ShardDirFails ==
    /\ pc \in {"idle", "open"} \/ (pc = "fill" /\ rest # Empty)
    /\ Ends("fatal")

DiskLost ==
    /\ status # "up"
    /\ dirs' = {} /\ file' = [s \in Shards |-> Empty] /\ temp' = [s \in Shards |-> Empty]
    /\ may' = [s \in Shards |-> [k \in Keys |-> {Missing}]]
    /\ UNCHANGED <<argVars, status, pc, replacing, rest, target, failed, kept>>

Restart ==
    /\ status # "up"
    /\ status' = "up"
    /\ UNCHANGED <<diskVars, argVars, pc, replacing, rest, target, failed, kept, may>>

Put     == \/ OpenTemp \/ OpenFails \/ WriteTemp \/ WriteFails
           \/ Rename \/ RenameFails \/ PutSucceeds
Replace == RemoveEntry \/ RemoveDir \/ RemoveFails \/ FillKey \/ ReplaceReturns
Process == Crash \/ ShardDirFails \/ DiskLost \/ Restart

Call(s) ==
    \/ \E k \in Keys, v \in Contents : FilePut(s, k, v)
    \/ \E m \in Map : FileReplaceShard(s, m)
    \/ FileGet(s) \/ FileReadShard(s)

Next == Put \/ Replace \/ Process \/ \E s \in Shards : Call(s)

Spec == Init /\ [][Next]_vars

-----------------------------------------------------------------------------
\* The shape of the state: files are only in directories that exist, and a
\* file of a key never holds a part of a content.
TypeOK ==
    /\ dirs \subseteq Shards
    /\ file \in [Shards -> Map]
    /\ temp \in [Shards -> [Keys -> Contents \cup {Missing, Partial}]]
    /\ status \in {"up", "down", "fatal"}
    /\ pc \in {"idle", "open", "write", "rename", "renamed", "remove", "fill"}
    /\ IF pc = "idle" THEN shard = None ELSE shard \in Shards
    /\ IF Putting
         THEN key \in Keys /\ content \in Contents
         ELSE key = None /\ content = None
    /\ replacing \in BOOLEAN /\ rest \in Map /\ target \in Map /\ failed \subseteq Keys
    /\ kept \in Map
    /\ may \in [Shards -> [Keys -> SUBSET (Contents \cup {Missing})]]
    /\ \A s \in Shards \ dirs : file[s] = Empty /\ temp[s] = Empty

\* Whatever the order of calls, failures and crashes: a key's file holds what
\* the last filePut that returned without an error wrote, or else the old or the
\* new content of one that a crash cut short; nothing is lost but by a
\* replacement of the shard or with the disk.
OldOrNew == \A s \in Shards, k \in Keys : file[s][k] \in Allowed(s, k)

\* When fileReplaceShard returns, the shard holds its map, but for keys whose
\* filePut failed, and nothing else: unless the removal failed, when all that it
\* left and no filePut replaced is still there.  The caller hears of neither.
ReplaceComplete ==
    [][pc = "fill" /\ pc' = "idle" /\ status' = "up" =>
         \A k \in Keys :
             file[shard][k] = IF target[k] # Missing /\ k \notin failed THEN target[k]
                              ELSE kept[k]]_vars

\* filePut is atomic, as its comment says of crashes, and also with respect to
\* errors, at its rename(); what fileReplaceShard leaves when it is cut short is
\* what its removal did not reach with a part of its map, and nothing later.
Store == INSTANCE DiskvStore WITH
    store <- file,
    op    <- IF pc = "idle" THEN "none" ELSE IF pc = "remove" THEN "clear"
             ELSE IF replacing THEN "fill" ELSE "put",
    left  <- IF pc \in {"open", "write", "rename"} THEN [rest EXCEPT ![key] = content]
             ELSE rest,
    status <- IF status = "up" THEN "up" ELSE "down"
ImplementsStore == Store!Spec
=============================================================================
