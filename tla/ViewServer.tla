----------------------------- MODULE ViewServer -----------------------------
(***************************************************************************)
(* The view server of viewservice/server.go: the state of ViewServer and   *)
(* its two handlers that change it, Ping and tick, each of which runs as a *)
(* whole under vs.mu.  Get only reads the view.  The environment is open:  *)
(* any server may Ping with 0 or with any view number handed out so far,   *)
(* in any order, which covers delayed, repeated and reordered Pings.       *)
(***************************************************************************)
EXTENDS Integers

CONSTANTS Server,      \* the names p/b servers Ping with
          NoServer,    \* the empty name "" of an unfilled role
          DeadPings    \* ticks of silence after which a server is dead

ASSUME ServerAssumption    == NoServer \notin Server
ASSUME DeadPingsAssumption == DeadPings \in Nat \ {0}

VARIABLES view,        \* the current View: Viewnum, Primary, Backup
          primaryAck,  \* the last view number the primary Pinged with
          primaryTick, \* the tick of the primary's last Ping
          backupTick,  \* the tick of the backup's last Ping
          currentTick  \* how often tick() ran

vars == <<view, primaryAck, primaryTick, backupTick, currentTick>>

View == [Viewnum : Nat,
         Primary : Server \cup {NoServer},
         Backup  : Server \cup {NoServer}]

Init ==
    /\ view = [Viewnum |-> 0, Primary |-> NoServer, Backup |-> NoServer]
    /\ primaryAck = 0
    /\ primaryTick = 0
    /\ backupTick = 0
    /\ currentTick = 0

-----------------------------------------------------------------------------
Acked           == view.Viewnum = primaryAck
IsUninitialized == view.Viewnum = 0 /\ view.Primary = NoServer
HasBackup       == view.Backup # NoServer
IsPrimary(name) == view.Primary = name
IsBackup(name)  == view.Backup = name

\* The body of PromoteBackup() when there is a backup: it becomes primary of
\* the next view, which nobody has acknowledged yet.
PromoteBackup ==
    /\ view' = [Viewnum |-> view.Viewnum + 1,
                Primary |-> view.Backup,
                Backup  |-> NoServer]
    /\ primaryAck' = 0
    /\ primaryTick' = backupTick

\* The next view with `name` as backup (NoServer: without one).
NextBackup(name) ==
    view' = [view EXCEPT !.Viewnum = @ + 1, !.Backup = name]

(***************************************************************************)
(* Ping(name, num): the arms of the handler's switch, in its order.        *)
(***************************************************************************)
PingFirst(name) ==
    /\ IsUninitialized
    /\ view' = [Viewnum |-> 1, Primary |-> name, Backup |-> view.Backup]
    /\ primaryTick' = currentTick
    /\ primaryAck' = 0
    /\ UNCHANGED <<backupTick, currentTick>>

\* The primary restarted: promote the backup if there is one, and otherwise
\* change nothing.
PingPrimaryRestarted(name, num) ==
    /\ ~IsUninitialized /\ IsPrimary(name) /\ num = 0
    /\ \/ HasBackup /\ PromoteBackup
       \/ ~HasBackup /\ UNCHANGED <<view, primaryAck, primaryTick>>
    /\ UNCHANGED <<backupTick, currentTick>>

\* (A possible bug: the Ping of a live primary only acknowledges.)
PingPrimaryAckOnly(name, num) ==
    /\ ~IsUninitialized /\ IsPrimary(name) /\ num # 0
    /\ primaryAck' = num
    /\ UNCHANGED <<view, primaryTick, backupTick, currentTick>>

PingPrimaryAlive(name, num) ==
    /\ ~IsUninitialized /\ IsPrimary(name) /\ num # 0
    /\ primaryAck' = num
    /\ primaryTick' = currentTick
    /\ UNCHANGED <<view, backupTick, currentTick>>

\* (A possible bug: this arm of the switch before that of the primary.)
PingAnyoneJoins(name) ==
    /\ ~IsUninitialized
    /\ ~HasBackup /\ Acked
    /\ NextBackup(name)
    /\ backupTick' = currentTick
    /\ UNCHANGED <<primaryAck, primaryTick, currentTick>>

PingJoinsAsBackup(name) ==
    /\ ~IsUninitialized /\ ~IsPrimary(name)
    /\ ~HasBackup /\ Acked
    /\ NextBackup(name)
    /\ backupTick' = currentTick
    /\ UNCHANGED <<primaryAck, primaryTick, currentTick>>

\* (A possible bug: the restarted backup need not wait for the primary.)
PingBackupRestartedEager(name, num) ==
    /\ ~IsUninitialized /\ ~IsPrimary(name) /\ IsBackup(name)
    /\ num = 0
    /\ NextBackup(name)
    /\ backupTick' = currentTick
    /\ UNCHANGED <<primaryAck, primaryTick, currentTick>>

\* The backup restarted and the view may change: the same server is the
\* backup of a new view.
PingBackupRestarted(name, num) ==
    /\ ~IsUninitialized /\ ~IsPrimary(name) /\ IsBackup(name)
    /\ num = 0 /\ Acked
    /\ NextBackup(name)
    /\ backupTick' = currentTick
    /\ UNCHANGED <<primaryAck, primaryTick, currentTick>>

\* (A possible bug: the backup is credited with the coming tick already.)
PingBackupCredited(name, num) ==
    /\ ~IsUninitialized /\ ~IsPrimary(name) /\ IsBackup(name)
    /\ num # 0
    /\ backupTick' = currentTick + 1
    /\ UNCHANGED <<view, primaryAck, primaryTick, currentTick>>

PingBackupAlive(name, num) ==
    /\ ~IsUninitialized /\ ~IsPrimary(name) /\ IsBackup(name)
    /\ num # 0
    /\ backupTick' = currentTick
    /\ UNCHANGED <<view, primaryAck, primaryTick, currentTick>>

\* No arm applies: an idle server that cannot join, or a backup that
\* restarted while the view is not acknowledged.
PingIgnored(name, num) ==
    /\ ~IsUninitialized /\ ~IsPrimary(name)
    /\ HasBackup \/ ~Acked
    /\ ~IsBackup(name) \/ (num = 0 /\ ~Acked)
    /\ UNCHANGED vars

Ping(name, num) ==
    \/ PingFirst(name)
    \/ PingPrimaryRestarted(name, num)
    \/ PingPrimaryAlive(name, num)
    \/ PingJoinsAsBackup(name)
    \/ PingBackupRestarted(name, num)
    \/ PingBackupAlive(name, num)
    \/ PingIgnored(name, num)

(***************************************************************************)
(* tick().  The subtraction is on unsigned integers: a tick in the future  *)
(* would wrap around to a huge number and pass the test.                   *)
(***************************************************************************)
\* (A possible bug: > where the code has >=.)
SilentSinceLonger(t) == t > currentTick' \/ currentTick' - t > DeadPings

SilentSince(t) == t > currentTick' \/ currentTick' - t >= DeadPings

PrimaryDead == SilentSince(primaryTick) /\ Acked /\ HasBackup
BackupDead  == HasBackup /\ SilentSince(backupTick) /\ Acked

Tick ==
    /\ currentTick' = currentTick + 1
    /\ \/ PrimaryDead /\ PromoteBackup
       \/ /\ ~PrimaryDead /\ BackupDead
          /\ NextBackup(NoServer)
          /\ UNCHANGED <<primaryAck, primaryTick>>
       \/ /\ ~PrimaryDead /\ ~BackupDead
          /\ UNCHANGED <<view, primaryAck, primaryTick>>
    /\ UNCHANGED backupTick

\* A caller's view number is 0 or one it was handed in a reply.
Next ==
    \/ \E name \in Server, num \in 0..view.Viewnum : Ping(name, num)
    \/ Tick

Spec == Init /\ [][Next]_vars

-----------------------------------------------------------------------------
(***************************************************************************)
(* Properties.                                                             *)
(***************************************************************************)

\* Every variable of ViewServer has the type server.go declares.
TypeOK ==
    /\ view \in View
    /\ primaryAck \in Nat
    /\ primaryTick \in Nat
    /\ backupTick \in Nat
    /\ currentTick \in Nat

\* The unsigned subtractions in tick() never wrap around, and no view is
\* acknowledged in advance: a recorded tick, also one that moved from the
\* backup's to the primary's slot in PromoteBackup, is never later than the
\* current one, and primaryAck never runs ahead of the view number.
CountersOrdered ==
    /\ primaryTick <= currentTick
    /\ backupTick <= currentTick
    /\ primaryAck <= view.Viewnum

\* However Pings and promotions follow each other, no server is primary and
\* backup at once, and the roles are filled exactly when views exist: Ping
\* relies for this on the order in which its switch tries the arms.
RolesConsistent ==
    /\ view.Primary = NoServer <=> view.Viewnum = 0
    /\ HasBackup => view.Viewnum >= 2 /\ view.Backup # view.Primary

\* Failover is prompt: while the view is acknowledged and has a backup, the
\* primary was heard of less than DeadPings ticks ago, whatever the order of
\* Pings, promotions and ticks (tick() replaced one that was silent longer).
FailoverInTime ==
    Acked /\ HasBackup => currentTick - primaryTick < DeadPings

\* A view number names one view: two different views never share a number,
\* and no number is skipped or reused.
NumberNamesView ==
    [][view' # view => view'.Viewnum = view.Viewnum + 1]_view

\* A new view starts unacknowledged, also when the primary it promotes had
\* acknowledged an earlier one: what Acked() compares is not left over.
NewViewUnacked == [][view' # view => ~Acked']_vars

\* The promise of viewservice/common.go: this server implements the abstract
\* sequence of views, in which only a promotion overtakes the primary's
\* acknowledgement and every primary comes out of the previous view.
Sequence == INSTANCE ViewSequence WITH acked <- Acked
ImplementsViewSequence == Sequence!Spec

\* tick() decides by how long ago the last Pings were, and not by when: with
\* the ticks replaced by ages of at most DeadPings the server behaves alike.
Age(t) == IF currentTick - t < DeadPings THEN currentTick - t ELSE DeadPings
Ages == INSTANCE ViewAges WITH primaryAge <- Age(primaryTick),
                               backupAge <- Age(backupTick)
ImplementsViewAges == Ages!SpecAges
=============================================================================
