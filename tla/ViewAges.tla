------------------------------ MODULE ViewAges ------------------------------
(***************************************************************************)
(* The view server with a clock that does not count: instead of the ticks  *)
(* at which primary and backup were last heard of it keeps how many ticks  *)
(* ago that was, up to DeadPings.  Everything tick() decides depends on    *)
(* that alone, so ViewServer implements this specification (ViewServerProofs *)
(* proves it), and a system built on it has finitely many states.          *)
(***************************************************************************)
EXTENDS Integers

CONSTANTS Server, NoServer, DeadPings

VARIABLES view, primaryAck,
          primaryAge,  \* ticks since the primary's last Ping, at most DeadPings
          backupAge    \* the same for the backup

ageVars == <<view, primaryAck, primaryAge, backupAge>>

NoView == [Viewnum |-> 0, Primary |-> NoServer, Backup |-> NoServer]

InitAges ==
    /\ view = NoView
    /\ primaryAck = 0
    /\ primaryAge = 0
    /\ backupAge = 0

-----------------------------------------------------------------------------
Acked           == view.Viewnum = primaryAck
IsUninitialized == view.Viewnum = 0 /\ view.Primary = NoServer
HasBackup       == view.Backup # NoServer
IsPrimary(name) == view.Primary = name
IsBackup(name)  == view.Backup = name

\* (A possible bug: the promoted server counts as having acknowledged.)
PromoteAcked(age) ==
    /\ view' = [Viewnum |-> view.Viewnum + 1,
                Primary |-> view.Backup,
                Backup  |-> NoServer]
    /\ primaryAck' = view.Viewnum + 1
    /\ primaryAge' = age

\* The backup becomes primary of the next view, with the age it has.
PromoteWithAge(age) ==
    /\ view' = [Viewnum |-> view.Viewnum + 1,
                Primary |-> view.Backup,
                Backup  |-> NoServer]
    /\ primaryAck' = 0
    /\ primaryAge' = age

\* (A possible bug: the view changes under its old number.)
NextBackupSameNumber(name) == view' = [view EXCEPT !.Backup = name]

NextBackup(name) ==
    view' = [Viewnum |-> view.Viewnum + 1,
             Primary |-> view.Primary, Backup |-> name]

(***************************************************************************)
(* Ping(name, num): its arms in their order, PromoteBackup() included.     *)
(***************************************************************************)
PingFirst(name) ==
    /\ IsUninitialized
    /\ view' = [Viewnum |-> 1, Primary |-> name, Backup |-> view.Backup]
    /\ primaryAge' = 0
    /\ primaryAck' = 0
    /\ UNCHANGED backupAge

PingPrimaryRestarted(name, num) ==
    /\ ~IsUninitialized /\ IsPrimary(name) /\ num = 0
    /\ \/ HasBackup /\ PromoteWithAge(backupAge)
       \/ ~HasBackup /\ UNCHANGED <<view, primaryAck, primaryAge>>
    /\ UNCHANGED backupAge

\* (A possible bug: a primary acknowledges its first view only.)
PingPrimaryAckOnce(name, num) ==
    /\ ~IsUninitialized /\ IsPrimary(name) /\ num # 0
    /\ primaryAck' = IF primaryAck = 0 THEN num ELSE primaryAck
    /\ primaryAge' = 0
    /\ UNCHANGED <<view, backupAge>>

PingPrimaryAlive(name, num) ==
    /\ ~IsUninitialized /\ IsPrimary(name) /\ num # 0
    /\ primaryAck' = num
    /\ primaryAge' = 0
    /\ UNCHANGED <<view, backupAge>>

\* An idle server becomes backup, or the backup restarted: either way a view
\* with that backup follows once the current one is acknowledged.
PingNamesBackup(name, num) ==
    /\ ~IsUninitialized /\ ~IsPrimary(name) /\ Acked
    /\ ~HasBackup \/ (IsBackup(name) /\ num = 0)
    /\ NextBackup(name)
    /\ backupAge' = 0
    /\ UNCHANGED <<primaryAck, primaryAge>>

PingBackupAlive(name, num) ==
    /\ ~IsUninitialized /\ ~IsPrimary(name) /\ IsBackup(name)
    /\ num # 0
    /\ backupAge' = 0
    /\ UNCHANGED <<view, primaryAck, primaryAge>>

PingIgnored(name, num) ==
    /\ ~IsUninitialized /\ ~IsPrimary(name)
    /\ HasBackup \/ ~Acked
    /\ ~IsBackup(name) \/ (num = 0 /\ ~Acked)
    /\ UNCHANGED ageVars

Ping(name, num) ==
    \/ PingFirst(name)
    \/ PingPrimaryRestarted(name, num)
    \/ PingPrimaryAlive(name, num)
    \/ PingNamesBackup(name, num)
    \/ PingBackupAlive(name, num)
    \/ PingIgnored(name, num)

-----------------------------------------------------------------------------
Older(age) == IF age < DeadPings THEN age + 1 ELSE DeadPings

Silent(age) == Older(age) = DeadPings

\* (Possible bugs: a primary is replaced without waiting for it to know the
\* view, and a server is judged by the other one's Pings.)
PrimaryDeadEager == Silent(primaryAge) /\ HasBackup
PrimaryDeadWrongSlot == Silent(backupAge) /\ Acked /\ HasBackup
BackupDeadWrongSlot == HasBackup /\ Silent(primaryAge) /\ Acked

PrimaryDead == Silent(primaryAge) /\ Acked /\ HasBackup
BackupDead  == HasBackup /\ Silent(backupAge) /\ Acked

\* tick(): everybody is one tick older, the promoted backup included.
Tick ==
    /\ backupAge' = Older(backupAge)
    /\ \/ PrimaryDead /\ PromoteWithAge(Older(backupAge))
       \/ /\ ~PrimaryDead /\ BackupDead
          /\ NextBackup(NoServer)
          /\ primaryAge' = Older(primaryAge)
          /\ UNCHANGED primaryAck
       \/ /\ ~PrimaryDead /\ ~BackupDead
          /\ primaryAge' = Older(primaryAge)
          /\ UNCHANGED <<view, primaryAck>>

NextAges ==
    \/ \E name \in Server, num \in 0..view.Viewnum : Ping(name, num)
    \/ Tick

SpecAges == InitAges /\ [][NextAges]_ageVars
=============================================================================
