----------------------------- MODULE ViewSystem -----------------------------
(***************************************************************************)
(* The view server together with the servers that Ping it.  A server       *)
(* (a PBServer with a viewservice.Clerk) Pings once per interval with the  *)
(* number of the last view it learnt, one call at a time; it may crash and *)
(* restart with nothing, which it announces by a Ping(0).  A call can fail *)
(* after the view server handled it, and a Ping whose caller crashed can   *)
(* still be waiting in the view server's socket.                           *)
(***************************************************************************)
EXTENDS ViewAges

CONSTANTS NoReply,      \* no answer to this server's Ping is on its way
          MaxFaults,    \* bound: crashes, those that leave a Ping behind twice
          MaxView,      \* bound: views
          LatePings,    \* which Pings of crashed callers may arrive later: those
                        \* with 0 ("zero"), those with a view ("numbered")
          Timely        \* does every live server get one Ping through per tick?

Views == [Viewnum : Nat,
          Primary : Server \cup {NoServer}, Backup : Server \cup {NoServer}]

ASSUME SystemAssumption ==
    /\ NoServer \notin Server /\ DeadPings \in Nat \ {0} /\ NoReply \notin Views
    /\ MaxFaults \in Nat /\ MaxView \in Nat
    /\ LatePings \subseteq {"zero", "numbered"}
    /\ Timely \in BOOLEAN

VARIABLES up,        \* which servers run
          known,     \* the last view each of them learnt
          reply,     \* the view in the answer on its way to each, or NoReply
          delayed,   \* Pings <<name, num>> of crashed callers, not yet handled
          pinged,    \* the servers heard of since the last tick (if Timely)
          restarted, \* those whose role in the view dates from before a crash
          faults     \* crashes that happened, counted as for MaxFaults

clientVars == <<up, known, reply, delayed, pinged, restarted, faults>>
vars == <<ageVars, clientVars>>

InitSystem ==
    /\ InitAges
    /\ up = Server
    /\ known = [s \in Server |-> NoView]
    /\ reply = [s \in Server |-> NoReply]
    /\ delayed = {}
    /\ pinged = {}
    /\ restarted = {}
    /\ faults = 0

-----------------------------------------------------------------------------
Bounded == view'.Viewnum <= MaxView

Roles(v) == {v.Primary, v.Backup} \ {NoServer}

\* Clerk.Ping(viewnum) up to the handler's return: the answer is the view
\* after the handler ran.  A role that this Ping earns is the caller's own.
SendPing(s) ==
    /\ s \in up /\ reply[s] = NoReply
    /\ Timely => s \notin pinged
    /\ Ping(s, known[s].Viewnum) /\ Bounded
    /\ reply' = [reply EXCEPT ![s] = view']
    /\ pinged' = IF Timely THEN pinged \cup {s} ELSE {}
    /\ restarted' = Roles(view') \cap
                      (IF view' = view THEN restarted ELSE restarted \ {s})
    /\ UNCHANGED <<up, known, delayed, faults>>

\* The call returns, and the server operates in the view it learnt.
ReceiveReply(s) ==
    /\ reply[s] # NoReply
    /\ known' = [known EXCEPT ![s] = reply[s]]
    /\ reply' = [reply EXCEPT ![s] = NoReply]
    /\ UNCHANGED <<ageVars, up, delayed, pinged, restarted, faults>>

\* The call fails although the view server handled it, and the server stays
\* in the view it knows.
CallFails(s) ==
    /\ ~Timely
    /\ reply[s] # NoReply
    /\ reply' = [reply EXCEPT ![s] = NoReply]
    /\ UNCHANGED <<ageVars, up, known, delayed, pinged, restarted, faults>>

Kind(num) == IF num = 0 THEN "zero" ELSE "numbered"

\* A crash loses what the server knows and the answer it waits for.  A
\* request it had already sent may still be handled.
Crash(s) ==
    /\ s \in up /\ faults < MaxFaults
    /\ up' = up \ {s}
    /\ known' = [known EXCEPT ![s] = NoView]
    /\ reply' = [reply EXCEPT ![s] = NoReply]
    /\ \/ faults' = faults + 1 /\ UNCHANGED delayed
       \/ /\ faults' = faults + 2 /\ faults' <= MaxFaults
          /\ reply[s] = NoReply /\ Kind(known[s].Viewnum) \in LatePings
          /\ delayed' = delayed \cup {<<s, known[s].Viewnum>>}
    /\ UNCHANGED <<ageVars, pinged, restarted>>

Restart(s) ==
    /\ s \notin up
    /\ up' = up \cup {s}
    /\ restarted' = restarted \cup ({s} \cap Roles(view))
    /\ pinged' = pinged \ {s}
    /\ UNCHANGED <<ageVars, known, reply, delayed, faults>>

\* A delayed Ping is handled; a role that it earns belongs to an incarnation
\* of the server that is gone.
HandleDelayed(name, num) ==
    /\ <<name, num>> \in delayed
    /\ Ping(name, num) /\ Bounded
    /\ delayed' = delayed \ {<<name, num>>}
    /\ restarted' = Roles(view') \cap
                      (IF view' = view THEN restarted ELSE restarted \cup {name})
    /\ UNCHANGED <<up, known, reply, pinged, faults>>

TickStep ==
    /\ Timely => up \subseteq pinged
    /\ Tick /\ Bounded
    /\ pinged' = {}
    /\ restarted' = restarted \cap Roles(view')
    /\ UNCHANGED <<up, known, reply, delayed, faults>>

HandleLate == \E d \in delayed : HandleDelayed(d[1], d[2])

NextSystem ==
    \/ \E s \in Server :
          SendPing(s) \/ ReceiveReply(s) \/ CallFails(s) \/ Crash(s) \/ Restart(s)
    \/ HandleLate
    \/ TickStep

SpecSystem == InitSystem /\ [][NextSystem]_vars

\* tick() runs forever in its goroutine, and a running server goes on
\* Pinging and gets answers; nothing makes a crashed server return.
Fairness ==
    /\ WF_vars(TickStep)
    /\ \A s \in Server : WF_vars(SendPing(s)) /\ WF_vars(ReceiveReply(s))

FairSpec == SpecSystem /\ Fairness

-----------------------------------------------------------------------------
(***************************************************************************)
(* Properties.                                                             *)
(***************************************************************************)
\* The shape of the composed state.
TypeOK ==
    /\ view \in Views /\ primaryAck \in Nat
    /\ primaryAge \in 0..DeadPings /\ backupAge \in 0..DeadPings
    /\ up \subseteq Server /\ pinged \subseteq Server
    /\ restarted \subseteq Roles(view)
    /\ known \in [Server -> Views]
    /\ reply \in [Server -> Views \cup {NoReply}]
    /\ delayed \subseteq Server \X Nat
    /\ faults \in 0..MaxFaults

\* What a server learnt is never ahead of the view server, it never goes
\* back, and two servers that know a view by the same number mean the same
\* primary and backup.
Learnt == {known[s] : s \in Server} \cup
          {reply[s] : s \in {t \in Server : reply[t] # NoReply}} \cup {view}
ViewsAgree ==
    /\ \A v \in Learnt : v.Viewnum <= view.Viewnum
    /\ \A v, w \in Learnt : v.Viewnum = w.Viewnum => v = w
    /\ \A s \in Server : reply[s] # NoReply =>
                            known[s].Viewnum <= reply[s].Viewnum

\* An acknowledgement means something: in an acknowledged view the primary,
\* unless it crashed since, operates in this very view.
AckIsKnown ==
    Acked /\ view.Viewnum > 0 /\ view.Primary \in up =>
        known[view.Primary] = view \/ view.Primary \in restarted

\* A server serves clients as primary while it believes to be primary and
\* its backup, if it believes to have one, agrees and takes part.
CanServe(s) ==
    /\ s \in up /\ known[s].Primary = s
    /\ known[s].Backup # NoServer =>
          known[s].Backup \in up /\ known[known[s].Backup] = known[s]

\* Whatever is lost or crashes, no two servers serve as primary at the same
\* time: what common.go introduces the acknowledgements for.
AtMostOneServing ==
    \A s, t \in Server : CanServe(s) /\ CanServe(t) => s = t

-----------------------------------------------------------------------------
\* Failover: a primary that crashed and stays away from an acknowledged view
\* does not stay primary, if the backup kept its role without a crash.
Failover ==
    \A s \in Server :
        Acked /\ HasBackup /\ IsPrimary(s) /\ s \notin up
              /\ view.Backup \in up \ restarted
            ~> s \in up \/ ~IsPrimary(s) \/ view.Backup \notin up

\* What README.md says: if the primary fails, the service promotes the
\* backup; it names a primary that failed before it acknowledged its view as
\* the only exception.
FailoverUnlessUnacked ==
    \A s \in Server :
        Acked /\ HasBackup /\ IsPrimary(s) /\ s \notin up
            ~> s \in up \/ ~IsPrimary(s) \/ view.Backup \notin up

\* A dead backup is removed from the view, unless the primary dies first.
BackupRemoved ==
    \A s \in Server :
        IsBackup(s) /\ s \notin up
            ~> s \in up \/ ~IsBackup(s) \/ view.Primary \notin up

\* Recovery: as long as the primary stays up and another server is running,
\* the service gets to an acknowledged view whose backup is running and
\* knows the view.
Replicated ==
    /\ Acked /\ HasBackup /\ view.Backup \in up
    /\ known[view.Primary] = view /\ known[view.Backup] = view
Recovers ==
    <>[](view.Primary \in up /\ \E s \in up : ~IsPrimary(s)) => <>[]Replicated
=============================================================================
