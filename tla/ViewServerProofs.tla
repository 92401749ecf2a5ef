-------------------------- MODULE ViewServerProofs --------------------------
(***************************************************************************)
(* Proofs about ViewServer for every set of servers, every DeadPings and   *)
(* an unbounded clock: the invariants, how views may change, and that the  *)
(* server implements the abstract ViewSequence.                            *)
(***************************************************************************)
EXTENDS ViewServer, TLAPS

\* The inductive invariant.  FailoverInTime needs CountersOrdered (a view
\* that changes is unacknowledged, since primaryAck is at most its number),
\* and that needs RolesConsistent for the first view's number.
Inv ==
    /\ TypeOK
    /\ CountersOrdered
    /\ RolesConsistent
    /\ FailoverInTime

USE ServerAssumption, DeadPingsAssumption

LEMMA InitInv == Init => Inv
  BY DEF Init, Inv, TypeOK, View, CountersOrdered, RolesConsistent,
         FailoverInTime, Acked, HasBackup

\* A promotion keeps the invariant when the clock does not run backwards.
LEMMA PromoteInv ==
  ASSUME Inv, HasBackup, PromoteBackup, UNCHANGED backupTick,
         currentTick' \in Nat, currentTick' >= currentTick
  PROVE  Inv' /\ ~Acked'
  BY DEF Inv, TypeOK, View, CountersOrdered, RolesConsistent,
         FailoverInTime, Acked, HasBackup, PromoteBackup

\* The next view, spelt out as a record.
LEMMA NextBackupRecord ==
  ASSUME TypeOK, NEW name \in Server \cup {NoServer}, NextBackup(name)
  PROVE  view' = [Viewnum |-> view.Viewnum + 1,
                  Primary |-> view.Primary, Backup |-> name]
  BY DEF NextBackup, TypeOK, View

\* So does naming another backup, or none, for a primary that stays.
LEMMA NextBackupInv ==
  ASSUME Inv, view.Viewnum # 0, UNCHANGED <<primaryAck, primaryTick>>,
         NEW name \in Server \cup {NoServer}, name # view.Primary,
         NextBackup(name),
         backupTick' \in Nat, backupTick' <= currentTick',
         currentTick' \in Nat, currentTick' >= currentTick
  PROVE  Inv' /\ ~Acked'
<1>1. view' = [Viewnum |-> view.Viewnum + 1,
               Primary |-> view.Primary, Backup |-> name]
  BY NextBackupRecord DEF Inv
<1>2. TypeOK'
  BY <1>1 DEF Inv, TypeOK, View
<1>3. CountersOrdered' /\ ~Acked'
  BY <1>1 DEF Inv, TypeOK, View, CountersOrdered, Acked
<1>4. RolesConsistent'
  BY <1>1 DEF Inv, TypeOK, View, RolesConsistent, HasBackup
<1> QED BY <1>2, <1>3, <1>4 DEF Inv, FailoverInTime

\* Every Ping keeps the invariant, and one that changes the view leaves the
\* new one unacknowledged.
LEMMA PingInv ==
  ASSUME Inv, NEW name \in Server, NEW num \in 0..view.Viewnum,
         Ping(name, num)
  PROVE  Inv' /\ (view' # view => ~Acked')
<1>1. CASE PingFirst(name)
  <2>1. view' = [Viewnum |-> 1, Primary |-> name, Backup |-> view.Backup]
    BY <1>1 DEF PingFirst
  <2>2. view.Backup = NoServer
    BY <1>1 DEF PingFirst, IsUninitialized, Inv, RolesConsistent, HasBackup
  <2>3. TypeOK'
    BY <1>1, <2>1 DEF PingFirst, Inv, TypeOK, View
  <2>4. CountersOrdered' /\ ~Acked'
    BY <1>1, <2>1 DEF PingFirst, Inv, TypeOK, CountersOrdered, Acked
  <2>5. RolesConsistent'
    BY <2>1, <2>2 DEF RolesConsistent, HasBackup
  <2> QED BY <2>3, <2>4, <2>5 DEF Inv, FailoverInTime
<1>2. CASE PingPrimaryRestarted(name, num)
  <2>1. CASE HasBackup /\ PromoteBackup
    BY <1>2, <2>1, PromoteInv DEF PingPrimaryRestarted, Inv, TypeOK
  <2>2. CASE ~HasBackup /\ UNCHANGED <<view, primaryAck, primaryTick>>
    BY <1>2, <2>2 DEF PingPrimaryRestarted, Inv, TypeOK, CountersOrdered,
                      RolesConsistent, FailoverInTime, Acked, HasBackup
  <2> QED BY <1>2, <2>1, <2>2 DEF PingPrimaryRestarted
<1>3. CASE PingPrimaryAlive(name, num)
  BY <1>3 DEF PingPrimaryAlive, Inv, TypeOK, View, CountersOrdered,
              RolesConsistent, FailoverInTime, Acked, HasBackup
<1>4. CASE PingJoinsAsBackup(name)
  <2>1. view.Viewnum # 0 /\ name # view.Primary
    BY <1>4 DEF PingJoinsAsBackup, IsUninitialized, IsPrimary, Inv,
                RolesConsistent
  <2> QED
    BY <1>4, <2>1, NextBackupInv DEF PingJoinsAsBackup, Inv, TypeOK
<1>5. CASE PingBackupRestarted(name, num)
  <2>1. view.Viewnum # 0 /\ name # view.Primary
    BY <1>5 DEF PingBackupRestarted, IsUninitialized, IsPrimary, Inv,
                RolesConsistent
  <2> QED
    BY <1>5, <2>1, NextBackupInv DEF PingBackupRestarted, Inv, TypeOK
<1>6. CASE PingBackupAlive(name, num)
  BY <1>6 DEF PingBackupAlive, Inv, TypeOK, CountersOrdered,
              RolesConsistent, FailoverInTime, Acked, HasBackup
<1>7. CASE PingIgnored(name, num)
  BY <1>7 DEF PingIgnored, vars, Inv, TypeOK, CountersOrdered,
              RolesConsistent, FailoverInTime, Acked, HasBackup
<1> QED
  BY <1>1, <1>2, <1>3, <1>4, <1>5, <1>6, <1>7 DEF Ping

\* So does tick().  When it leaves an acknowledged view with a backup alone,
\* the primary was not silent too long.
LEMMA TickInv ==
  ASSUME Inv, Tick
  PROVE  Inv' /\ (view' # view => ~Acked')
<1>1. /\ currentTick' \in Nat /\ currentTick' = currentTick + 1
      /\ UNCHANGED backupTick
  BY DEF Tick, Inv, TypeOK
<1>2. CASE PrimaryDead /\ PromoteBackup
  BY <1>1, <1>2, PromoteInv DEF PrimaryDead, Inv, TypeOK
<1>3. CASE /\ BackupDead
           /\ NextBackup(NoServer)
           /\ UNCHANGED <<primaryAck, primaryTick>>
  <2>1. view.Viewnum # 0 /\ NoServer # view.Primary
    BY <1>3 DEF BackupDead, Inv, TypeOK, View, RolesConsistent
  <2>2. backupTick' \in Nat /\ backupTick' <= currentTick'
    BY <1>1 DEF Inv, TypeOK, CountersOrdered
  <2> QED
    BY <1>1, <1>3, <2>1, <2>2, NextBackupInv DEF Inv, TypeOK
<1>4. CASE ~PrimaryDead /\ UNCHANGED <<view, primaryAck, primaryTick>>
  <2>1. TypeOK' /\ CountersOrdered' /\ RolesConsistent'
    BY <1>1, <1>4 DEF Inv, TypeOK, CountersOrdered, RolesConsistent, HasBackup
  <2>2. FailoverInTime'
    BY <1>1, <1>4 DEF PrimaryDead, SilentSince, Inv, TypeOK, FailoverInTime,
                      Acked, HasBackup
  <2> QED BY <1>4, <2>1, <2>2 DEF Inv
<1> QED BY <1>2, <1>3, <1>4 DEF Tick

\* One step of the server, or none.
LEMMA NextInv ==
  ASSUME Inv, [Next]_vars
  PROVE  Inv' /\ (view' # view => ~Acked')
<1>1. CASE Tick
  BY <1>1, TickInv
<1>2. CASE \E name \in Server, num \in 0..view.Viewnum : Ping(name, num)
  BY <1>2, PingInv
<1>3. CASE UNCHANGED vars
  BY <1>3 DEF vars, Inv, TypeOK, CountersOrdered, RolesConsistent,
              FailoverInTime, Acked, HasBackup
<1> QED BY <1>1, <1>2, <1>3 DEF Next

\* ViewServer keeps its inductive invariant whatever Pings and ticks come.
THEOREM Invariance == Spec => []Inv
<1>1. Inv /\ [Next]_vars => Inv'
  BY NextInv
<1> QED BY InitInv, <1>1, PTL DEF Spec

\* Every variable keeps the type server.go declares for it.
THEOREM TypeCorrect == Spec => []TypeOK
<1>1. Inv => TypeOK BY DEF Inv
<1> QED BY Invariance, <1>1, PTL

\* The unsigned subtractions in tick() never wrap around and primaryAck never
\* runs ahead of the view.
THEOREM CountersCorrect == Spec => []CountersOrdered
<1>1. Inv => CountersOrdered BY DEF Inv
<1> QED BY Invariance, <1>1, PTL

\* No server ever holds both roles of a view.
THEOREM RolesCorrect == Spec => []RolesConsistent
<1>1. Inv => RolesConsistent BY DEF Inv
<1> QED BY Invariance, <1>1, PTL

\* In an acknowledged view with a backup the primary is never silent for
\* DeadPings ticks.
THEOREM FailoverPrompt == Spec => []FailoverInTime
<1>1. Inv => FailoverInTime BY DEF Inv
<1> QED BY Invariance, <1>1, PTL

\* Every new view waits for its own acknowledgement.
THEOREM NewViewsUnacked == Spec => NewViewUnacked
<1>1. Inv /\ [Next]_vars => [view' # view => ~Acked']_vars
  BY NextInv
<1> QED BY Invariance, <1>1, PTL DEF Spec, NewViewUnacked

\* A step that changes the view gives it the next number.
LEMMA NextNumber ==
  ASSUME TypeOK, [Next]_vars, view' # view
  PROVE  view'.Viewnum = view.Viewnum + 1
<1>1. ASSUME NEW name, NextBackup(name) PROVE view'.Viewnum = view.Viewnum + 1
  BY <1>1 DEF NextBackup, TypeOK, View
<1>2. PromoteBackup => view'.Viewnum = view.Viewnum + 1
  BY DEF PromoteBackup
<1>3. ASSUME NEW name \in Server, NEW num \in 0..view.Viewnum, Ping(name, num)
      PROVE  view'.Viewnum = view.Viewnum + 1
  <2>1. CASE PingFirst(name)
    BY <2>1 DEF PingFirst, IsUninitialized
  <2>2. CASE PingPrimaryRestarted(name, num)
    BY <1>2, <2>2 DEF PingPrimaryRestarted
  <2>3. CASE PingJoinsAsBackup(name)
    BY <1>1, <2>3 DEF PingJoinsAsBackup
  <2>4. CASE PingBackupRestarted(name, num)
    BY <1>1, <2>4 DEF PingBackupRestarted
  <2>5. CASE PingPrimaryAlive(name, num) \/ PingBackupAlive(name, num)
             \/ PingIgnored(name, num)
    BY <2>5 DEF PingPrimaryAlive, PingBackupAlive, PingIgnored, vars
  <2> QED BY <1>3, <2>1, <2>2, <2>3, <2>4, <2>5 DEF Ping
<1>4. Tick => view'.Viewnum = view.Viewnum + 1
  BY <1>1, <1>2 DEF Tick
<1> QED BY <1>3, <1>4 DEF Next, vars

\* No two views share a number, and none is skipped: a number names one view.
THEOREM NumbersNameViews == Spec => NumberNamesView
<1>1. Inv /\ [Next]_vars => [view' # view => view'.Viewnum = view.Viewnum + 1]_view
  BY NextNumber DEF Inv
<1> QED BY Invariance, <1>1, PTL DEF Spec, NumberNamesView

-----------------------------------------------------------------------------
(***************************************************************************)
(* ViewServer implements ViewSequence.                                     *)
(***************************************************************************)

LEMMA InitRefines == Init => Sequence!Init
  BY DEF Init, Acked, Sequence!Init, Sequence!NoView

\* Any view with the next number that nobody acknowledged yet is a step to
\* the abstract next view.
LEMMA ProceedRefines ==
  ASSUME NEW primary, NEW backup, ~Acked',
         view' = [Viewnum |-> view.Viewnum + 1,
                  Primary |-> primary, Backup |-> backup]
  PROVE  Sequence!Proceed(primary, backup)
<1>1. Acked' = FALSE
  BY DEF Acked
<1> QED BY <1>1 DEF Sequence!Proceed

\* A promotion is the abstract one.
LEMMA PromoteRefines ==
  ASSUME Inv, HasBackup, PromoteBackup
  PROVE  Sequence!Promote
<1>1. ~Acked'
  BY DEF PromoteBackup, Acked, Inv, TypeOK, View
<1>2. Sequence!Proceed(view.Backup, NoServer)
  BY <1>1, ProceedRefines, Zenon DEF PromoteBackup
<1> QED
  BY <1>2 DEF HasBackup, Sequence!Promote, Sequence!HasBackup

\* Naming a server backup is the abstract NameBackup.
LEMMA NameBackupRefines ==
  ASSUME Inv, NEW name \in Server, ~IsUninitialized, ~IsPrimary(name),
         view.Backup \in {NoServer, name}, Acked, NextBackup(name), ~Acked'
  PROVE  Sequence!NameBackup
<1>1. view.Primary # NoServer /\ name # view.Primary
  BY DEF IsUninitialized, IsPrimary, Inv, RolesConsistent
<1>2. Sequence!Proceed(view.Primary, name)
  BY NextBackupRecord, ProceedRefines DEF Inv
<1> QED
  BY <1>1, <1>2 DEF Sequence!NameBackup, Sequence!HasPrimary

\* Every Ping is an abstract step or leaves the abstract state alone.
LEMMA PingRefines ==
  ASSUME Inv, NEW name \in Server, NEW num \in 0..view.Viewnum,
         Ping(name, num)
  PROVE  Sequence!Next \/ UNCHANGED <<view, Acked>>
<1>0. view' # view => ~Acked'
  BY PingInv
<1>1. CASE PingFirst(name)
  <2>1. view.Viewnum = 0 /\ view.Primary = NoServer /\ view.Backup = NoServer
    BY <1>1 DEF PingFirst, IsUninitialized, Inv, RolesConsistent, HasBackup
  <2>2. view' = [Viewnum |-> view.Viewnum + 1,
                 Primary |-> name, Backup |-> NoServer]
    BY <1>1, <2>1 DEF PingFirst
  <2>3. Sequence!Proceed(name, NoServer)
    BY <1>0, <2>1, <2>2, ProceedRefines
  <2> QED
    BY <2>1, <2>3 DEF Sequence!Next, Sequence!First, Sequence!HasPrimary
<1>2. CASE PingPrimaryRestarted(name, num)
  <2>1. CASE HasBackup /\ PromoteBackup
    BY <2>1, PromoteRefines DEF Sequence!Next
  <2>2. CASE UNCHANGED <<view, primaryAck, primaryTick>>
    BY <2>2 DEF Acked
  <2> QED BY <1>2, <2>1, <2>2 DEF PingPrimaryRestarted
<1>3. CASE PingPrimaryAlive(name, num)
  <2>1. view' = view /\ Acked' \in BOOLEAN /\ view.Primary # NoServer
    BY <1>3 DEF PingPrimaryAlive, IsPrimary, Acked
  <2> QED
    BY <2>1 DEF Sequence!Next, Sequence!Acknowledge, Sequence!HasPrimary
<1>4. CASE PingJoinsAsBackup(name)
  <2>1. view' # view
    BY <1>4, NextBackupRecord DEF PingJoinsAsBackup, Inv, TypeOK, View
  <2> QED
    BY <1>0, <1>4, <2>1, NameBackupRefines
    DEF PingJoinsAsBackup, HasBackup, Sequence!Next
<1>5. CASE PingBackupRestarted(name, num)
  <2>1. view' # view
    BY <1>5, NextBackupRecord DEF PingBackupRestarted, Inv, TypeOK, View
  <2> QED
    BY <1>0, <1>5, <2>1, NameBackupRefines
    DEF PingBackupRestarted, IsBackup, Sequence!Next
<1>6. CASE PingBackupAlive(name, num)
  BY <1>6 DEF PingBackupAlive, Acked
<1>7. CASE PingIgnored(name, num)
  BY <1>7 DEF PingIgnored, vars, Acked
<1> QED
  BY <1>1, <1>2, <1>3, <1>4, <1>5, <1>6, <1>7 DEF Ping

\* So is every tick.
LEMMA TickRefines ==
  ASSUME Inv, Tick
  PROVE  Sequence!Next \/ UNCHANGED <<view, Acked>>
<1>1. CASE PrimaryDead /\ PromoteBackup
  BY <1>1, PromoteRefines DEF PrimaryDead, Sequence!Next
<1>2. CASE /\ BackupDead
           /\ NextBackup(NoServer)
           /\ UNCHANGED <<primaryAck, primaryTick>>
  <2>1. view' # view
    BY <1>2, NextBackupRecord DEF Inv, TypeOK, View
  <2>2. Sequence!Proceed(view.Primary, NoServer)
    BY <1>2, <2>1, TickInv, NextBackupRecord, ProceedRefines DEF Inv
  <2> QED
    BY <1>2, <2>2 DEF BackupDead, HasBackup, Sequence!Next,
                      Sequence!DropBackup, Sequence!HasBackup
<1>3. CASE UNCHANGED <<view, primaryAck, primaryTick>>
  BY <1>3 DEF Acked
<1> QED BY <1>1, <1>2, <1>3 DEF Tick

\* ViewServer implements the abstract sequence of views: without an
\* acknowledgement only a promotion changes the view, and every primary was
\* primary or backup of the view before.
THEOREM Refinement == Spec => ImplementsViewSequence
<1>1. Inv /\ [Next]_vars => [Sequence!Next]_(Sequence!vars)
  <2> SUFFICES ASSUME Inv, [Next]_vars
               PROVE  Sequence!Next \/ UNCHANGED <<view, Acked>>
    BY DEF Sequence!vars
  <2>1. CASE Tick
    BY <2>1, TickRefines
  <2>2. CASE \E name \in Server, num \in 0..view.Viewnum : Ping(name, num)
    BY <2>2, PingRefines
  <2>3. CASE UNCHANGED vars
    BY <2>3 DEF vars, Acked
  <2> QED BY <2>1, <2>2, <2>3 DEF Next
<1> QED
  BY InitRefines, Invariance, <1>1, PTL
  DEF Spec, ImplementsViewSequence, Sequence!Spec

-----------------------------------------------------------------------------
(***************************************************************************)
(* ViewServer implements ViewAges.                                         *)
(***************************************************************************)

LEMMA AgesInit == Init => Ages!InitAges
  BY DEF Init, Age, Ages!InitAges, Ages!NoView

\* A server heard of in the current tick has age 0.
LEMMA AgeNow ==
  ASSUME Inv
  PROVE  /\ primaryTick' = currentTick' /\ currentTick' = currentTick
              => Age(primaryTick)' = 0
         /\ backupTick' = currentTick' /\ currentTick' = currentTick
              => Age(backupTick)' = 0
  BY DEF Inv, TypeOK, Age

\* Between two ticks a recorded tick that stays keeps its age.
LEMMA AgeKept ==
  ASSUME UNCHANGED currentTick
  PROVE  /\ primaryTick' = primaryTick => Age(primaryTick)' = Age(primaryTick)
         /\ backupTick' = backupTick => Age(backupTick)' = Age(backupTick)
         /\ primaryTick' = backupTick => Age(primaryTick)' = Age(backupTick)
  BY DEF Age

\* With a tick it grows until it reaches DeadPings, which is when tick()
\* takes the server for dead.
LEMMA AgeGrows ==
  ASSUME Inv, currentTick' = currentTick + 1
  PROVE  /\ primaryTick' = primaryTick =>
              Age(primaryTick)' = Ages!Older(Age(primaryTick))
         /\ backupTick' = backupTick =>
              Age(backupTick)' = Ages!Older(Age(backupTick))
         /\ primaryTick' = backupTick =>
              Age(primaryTick)' = Ages!Older(Age(backupTick))
         /\ SilentSince(primaryTick) <=> Ages!Silent(Age(primaryTick))
         /\ SilentSince(backupTick) <=> Ages!Silent(Age(backupTick))
<1>1. /\ currentTick \in Nat /\ primaryTick \in Nat /\ backupTick \in Nat
      /\ primaryTick <= currentTick /\ backupTick <= currentTick
  BY DEF Inv, TypeOK, CountersOrdered
<1>2. /\ SilentSince(primaryTick) <=> Ages!Silent(Age(primaryTick))
      /\ SilentSince(backupTick) <=> Ages!Silent(Age(backupTick))
  BY <1>1 DEF Age, Ages!Older, Ages!Silent, SilentSince
<1>3. primaryTick' = primaryTick =>
        Age(primaryTick)' = Ages!Older(Age(primaryTick))
  BY <1>1 DEF Age, Ages!Older
<1>4. backupTick' = backupTick =>
        Age(backupTick)' = Ages!Older(Age(backupTick))
  BY <1>1 DEF Age, Ages!Older
<1>5. primaryTick' = backupTick =>
        Age(primaryTick)' = Ages!Older(Age(backupTick))
  BY <1>1 DEF Age, Ages!Older
<1> QED BY <1>2, <1>3, <1>4, <1>5

\* The same Ping, on ages.
LEMMA AgesPing ==
  ASSUME Inv, NEW name \in Server, NEW num \in 0..view.Viewnum,
         Ping(name, num)
  PROVE  Ages!Ping(name, num)
<1>1. UNCHANGED currentTick
  BY DEF Ping, PingFirst, PingPrimaryRestarted, PingPrimaryAlive,
         PingJoinsAsBackup, PingBackupRestarted, PingBackupAlive,
         PingIgnored, vars
<1> USE AgeNow, AgeKept DEF IsUninitialized, IsPrimary, IsBackup, HasBackup,
        Acked, Ages!IsUninitialized, Ages!IsPrimary, Ages!IsBackup,
        Ages!HasBackup, Ages!Acked
<1>2. CASE PingFirst(name)
  BY <1>1, <1>2 DEF PingFirst, Ages!PingFirst, Ages!Ping
<1>3. CASE PingPrimaryRestarted(name, num)
  BY <1>1, <1>3 DEF PingPrimaryRestarted, PromoteBackup,
     Ages!PingPrimaryRestarted, Ages!PromoteWithAge, Ages!Ping
<1>4. CASE PingPrimaryAlive(name, num)
  BY <1>1, <1>4 DEF PingPrimaryAlive, Ages!PingPrimaryAlive, Ages!Ping
<1>5. CASE PingJoinsAsBackup(name)
  BY <1>1, <1>5, NextBackupRecord
  DEF PingJoinsAsBackup, Inv, Ages!PingNamesBackup, Ages!NextBackup, Ages!Ping
<1>6. CASE PingBackupRestarted(name, num)
  BY <1>1, <1>6, NextBackupRecord
  DEF PingBackupRestarted, Inv, Ages!PingNamesBackup, Ages!NextBackup,
      Ages!Ping
<1>7. CASE PingBackupAlive(name, num)
  BY <1>1, <1>7 DEF PingBackupAlive, Ages!PingBackupAlive, Ages!Ping
<1>8. CASE PingIgnored(name, num)
  BY <1>1, <1>8 DEF PingIgnored, vars, Ages!PingIgnored, Ages!ageVars,
                    Ages!Ping
<1> QED
  BY <1>2, <1>3, <1>4, <1>5, <1>6, <1>7, <1>8 DEF Ping

\* The same tick, on ages.
LEMMA AgesTick ==
  ASSUME Inv, Tick
  PROVE  Ages!Tick
<1>1. currentTick' = currentTick + 1 /\ UNCHANGED backupTick
  BY DEF Tick
<1>2. Age(backupTick)' = Ages!Older(Age(backupTick))
  BY <1>1, AgeGrows
<1>3. (PrimaryDead <=> Ages!PrimaryDead) /\ (BackupDead <=> Ages!BackupDead)
  BY <1>1, AgeGrows DEF PrimaryDead, BackupDead, Ages!PrimaryDead,
     Ages!BackupDead, Acked, HasBackup, Ages!Acked, Ages!HasBackup
<1>4. CASE PrimaryDead /\ PromoteBackup
  BY <1>1, <1>2, <1>3, <1>4, AgeGrows
  DEF PromoteBackup, Ages!PromoteWithAge, Ages!Tick
<1>5. CASE /\ ~PrimaryDead /\ BackupDead
           /\ NextBackup(NoServer)
           /\ UNCHANGED <<primaryAck, primaryTick>>
  BY <1>1, <1>2, <1>3, <1>5, AgeGrows, NextBackupRecord
  DEF Inv, Ages!NextBackup, Ages!Tick
<1>6. CASE /\ ~PrimaryDead /\ ~BackupDead
           /\ UNCHANGED <<view, primaryAck, primaryTick>>
  BY <1>1, <1>2, <1>3, <1>6, AgeGrows DEF Ages!Tick
<1> QED BY <1>4, <1>5, <1>6 DEF Tick

\* Everything the server does depends on how long ago the last Pings were,
\* up to DeadPings ticks: on ages instead of ticks it behaves alike.
THEOREM AgesRefinement == Spec => ImplementsViewAges
<1>1. Inv /\ [Next]_vars => [Ages!NextAges]_(Ages!ageVars)
  <2>1. ASSUME Inv, UNCHANGED vars
        PROVE  UNCHANGED Ages!ageVars
    BY <2>1 DEF vars, Age, Ages!ageVars
  <2> QED
    BY <2>1, AgesPing, AgesTick DEF Next, Ages!NextAges
<1> QED
  BY AgesInit, Invariance, <1>1, PTL
  DEF Spec, ImplementsViewAges, Ages!SpecAges
=============================================================================
