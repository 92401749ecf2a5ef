---------------------------- MODULE ViewSequence ----------------------------
(***************************************************************************)
(* What the view service promises (viewservice/common.go): one numbered    *)
(* view after another, each with a primary and, if possible, a backup, and *)
(* for the current one whether its primary acknowledged it.  How the       *)
(* service finds out who is dead, idle or restarted is left open.          *)
(***************************************************************************)
EXTENDS Naturals

CONSTANTS Server, NoServer

VARIABLES view, acked

vars == <<view, acked>>

NoView == [Viewnum |-> 0, Primary |-> NoServer, Backup |-> NoServer]

Init == view = NoView /\ acked = TRUE

\* Proceed to the next view, which its primary has yet to acknowledge.
Proceed(primary, backup) ==
    /\ view' = [Viewnum |-> view.Viewnum + 1,
                Primary |-> primary, Backup |-> backup]
    /\ acked' = FALSE

HasPrimary == view.Primary # NoServer
HasBackup  == view.Backup # NoServer

First == \E s \in Server : ~HasPrimary /\ Proceed(s, NoServer)

\* The primary reports which view it operates in: this one, or by a Ping that
\* was delayed an earlier one.
Acknowledge == HasPrimary /\ acked' \in BOOLEAN /\ UNCHANGED view

\* Somebody joins in the backup's place, which is free or whose holder
\* restarted.
NameBackup ==
    \E s \in Server :
        /\ HasPrimary /\ acked
        /\ s # view.Primary
        /\ view.Backup \in {NoServer, s}
        /\ Proceed(view.Primary, s)

DropBackup == HasBackup /\ acked /\ Proceed(view.Primary, NoServer)

\* The backup becomes primary; the only step that does not wait for the
\* acknowledgement, because the primary that should send it is gone.
Promote == HasBackup /\ Proceed(view.Backup, NoServer)

Next == First \/ Acknowledge \/ NameBackup \/ DropBackup \/ Promote

Spec == Init /\ [][Next]_vars
=============================================================================
