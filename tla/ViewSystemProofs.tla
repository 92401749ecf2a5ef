-------------------------- MODULE ViewSystemProofs --------------------------
(***************************************************************************)
(* Proofs about ViewSystem: the view server and its clients, for every set *)
(* of servers, every DeadPings, any numbers of views and crashes, timely   *)
(* or not.                                                                 *)
(***************************************************************************)
EXTENDS ViewSystem, TLAPS

(***************************************************************************)
(* The inductive invariant.  Numbers and Agree are about views, Down about *)
(* servers that do not run.  Behind says of a Ping of a crashed caller     *)
(* that, while its view is the current one, the caller has restarted with  *)
(* nothing since; AckTold that whoever an acknowledgement speaks for knows *)
(* the current view or nothing.                                            *)
(***************************************************************************)
Numbers ==
    /\ primaryAck <= view.Viewnum
    /\ view.Viewnum > 0 => view.Primary \in Server
    /\ view.Viewnum = 0 => view.Backup = NoServer

LearntBy(s) == {known[s]} \cup (IF reply[s] = NoReply THEN {} ELSE {reply[s]})

Agree ==
    /\ \A v \in Learnt : /\ v \in Views /\ v.Viewnum <= view.Viewnum
                         /\ v.Viewnum = 0 => v = NoView
    /\ \A v, w \in Learnt : v.Viewnum = w.Viewnum => v = w
    /\ \A s \in Server : reply[s] # NoReply => known[s].Viewnum <= reply[s].Viewnum

Down == \A s \in Server \ up : known[s] = NoView /\ reply[s] = NoReply

Current(s) == \A v \in LearntBy(s) : v.Viewnum \in {0, view.Viewnum}

Behind == \A d \in delayed :
    /\ d[2] <= view.Viewnum /\ Kind(d[2]) \in LatePings
    /\ d[2] = view.Viewnum /\ d[1] \in up =>
           Current(d[1]) /\ (d[1] \in Roles(view) => d[1] \in restarted)

AckTold == Acked /\ view.Primary \in up => Current(view.Primary)

(***************************************************************************)
(* For AtMostOneServing.  Who learnt a view as its primary is primary      *)
(* still, and of all newer views, or it was replaced: then by the backup   *)
(* of that view, as long as this knows nothing but the view.               *)
(***************************************************************************)
Still(s, v) == view.Primary = s /\ \A w \in Learnt : w.Viewnum >= v.Viewnum => w.Primary = s

Follows(b, v) ==
    /\ b # NoServer /\ v.Viewnum < view.Viewnum
    /\ b \in up /\ v \in LearntBy(b) =>
          view.Primary = b /\ \A w \in Learnt : w.Viewnum > v.Viewnum => w.Primary = b

Serving == \A s \in up : \A v \in LearntBy(s) :
    v.Primary = s => Still(s, v) \/ Follows(v.Backup, v)

SysInv == TypeOK /\ Numbers /\ Agree /\ Down /\ Behind /\ AckTold /\ AckIsKnown

USE SystemAssumption

LEMMA NoViewIs == NoView \in Views /\ NoView.Viewnum = 0 /\ NoView.Primary = NoServer
                    /\ NoView.Backup = NoServer
BY DEF NoView, Views

LEMMA InitSysInv == InitSystem => SysInv
<1> SUFFICES ASSUME InitSystem PROVE SysInv
    OBVIOUS
<1>1. /\ view = NoView /\ primaryAck = 0 /\ primaryAge = 0 /\ backupAge = 0
      /\ up = Server /\ known = [s \in Server |-> NoView] /\ reply = [s \in Server |-> NoReply]
      /\ delayed = {} /\ pinged = {} /\ restarted = {} /\ faults = 0
      BY DEF InitSystem, InitAges
<1>2. TypeOK
      BY <1>1, NoViewIs DEF TypeOK
<1>3. Learnt = {NoView}
      BY <1>1 DEF Learnt
<1>4. Numbers /\ Agree /\ Down /\ Behind
      BY <1>1, <1>3, NoViewIs DEF Numbers, Agree, Down, Behind
<1>5. AckTold /\ AckIsKnown
      BY <1>1, NoViewIs DEF AckTold, AckIsKnown, Current, LearntBy
<1> QED
    BY <1>2, <1>4, <1>5 DEF SysInv

-----------------------------------------------------------------------------
(***************************************************************************)
(* What a Ping and a tick do to the view, once and for all.                *)
(***************************************************************************)
Ages == primaryAge \in 0..DeadPings /\ backupAge \in 0..DeadPings

\* The next view, if there is one, waits for its acknowledgement.
Advances ==
    /\ view' \in Views /\ primaryAck' \in Nat /\ Ages' /\ Numbers'
    /\ \/ view' = view
       \/ view'.Viewnum = view.Viewnum + 1 /\ primaryAck' # view'.Viewnum

LEMMA PingAdvances ==
    ASSUME view \in Views, primaryAck \in Nat, Ages, Numbers,
           NEW name \in Server, NEW num \in Nat, num <= view.Viewnum, Ping(name, num)
    PROVE  /\ Advances
           /\ view' = view => \/ primaryAck' = primaryAck
                              \/ view.Primary = name /\ primaryAck' = num
           /\ \/ view'.Primary = view.Primary \/ view.Viewnum = 0
              \/ view.Primary = name /\ num = 0
<1> USE DEF Views, Ages, Numbers, Advances
<1>1. CASE PingFirst(name)
      BY <1>1 DEF PingFirst, IsUninitialized
<1>2. CASE PingPrimaryRestarted(name, num)
  <2>1. CASE HasBackup /\ PromoteWithAge(backupAge)
        BY <1>2, <2>1 DEF PingPrimaryRestarted, PromoteWithAge, HasBackup, IsPrimary
  <2>2. CASE UNCHANGED <<view, primaryAck, primaryAge>>
        BY <1>2, <2>2 DEF PingPrimaryRestarted
  <2> QED
        BY <1>2, <2>1, <2>2 DEF PingPrimaryRestarted
<1>3. CASE PingPrimaryAlive(name, num)
      BY <1>3 DEF PingPrimaryAlive, IsPrimary
<1>4. CASE PingNamesBackup(name, num)
  <2>1. /\ view' = [Viewnum |-> view.Viewnum + 1, Primary |-> view.Primary, Backup |-> name]
        /\ primaryAck' = view.Viewnum /\ primaryAge' = primaryAge /\ backupAge' = 0
        /\ view.Viewnum # 0 \/ view.Primary # NoServer
        BY <1>4 DEF PingNamesBackup, NextBackup, Acked, IsUninitialized
  <2>2. view.Primary \in Server
        BY <2>1
  <2> QED
        BY <2>1, <2>2
<1>5. CASE PingBackupAlive(name, num)
      BY <1>5 DEF PingBackupAlive
<1>6. CASE PingIgnored(name, num)
      BY <1>6 DEF PingIgnored, ageVars
<1> QED
    BY <1>1, <1>2, <1>3, <1>4, <1>5, <1>6 DEF Ping

LEMMA OlderAge == \A a \in 0..DeadPings : Older(a) \in 0..DeadPings
BY DEF Older

LEMMA TickAdvances ==
    ASSUME view \in Views, primaryAck \in Nat, Ages, Numbers, Tick
    PROVE  /\ Advances
           /\ view' = view => primaryAck' = primaryAck
           /\ \/ view'.Primary = view.Primary
              \/ /\ Acked /\ HasBackup
                 /\ view'.Primary = view.Backup /\ view'.Viewnum = view.Viewnum + 1
<1> USE DEF Views, Ages, Numbers, Advances
<1>0. Older(primaryAge) \in 0..DeadPings /\ Older(backupAge) \in 0..DeadPings
      BY OlderAge
<1>1. CASE PrimaryDead /\ PromoteWithAge(Older(backupAge))
  <2>1. Acked /\ HasBackup /\ view.Backup \in Server
        BY <1>1 DEF PrimaryDead, HasBackup
  <2>2. /\ view' = [Viewnum |-> view.Viewnum + 1, Primary |-> view.Backup, Backup |-> NoServer]
        /\ primaryAck' = 0 /\ primaryAge' = Older(backupAge) /\ backupAge' = Older(backupAge)
        BY <1>1 DEF PromoteWithAge, Tick
  <2> QED
        BY <1>0, <2>1, <2>2
<1>2. CASE BackupDead /\ NextBackup(NoServer) /\ primaryAge' = Older(primaryAge)
             /\ UNCHANGED primaryAck
  <2>1. /\ view' = [Viewnum |-> view.Viewnum + 1, Primary |-> view.Primary, Backup |-> NoServer]
        /\ primaryAck' = view.Viewnum /\ primaryAge' = Older(primaryAge)
        /\ backupAge' = Older(backupAge) /\ view.Viewnum \in Nat /\ view.Viewnum > 0
        BY <1>2 DEF BackupDead, NextBackup, HasBackup, Acked, Tick
  <2> QED
        BY <1>0, <2>1
<1>3. CASE primaryAge' = Older(primaryAge) /\ UNCHANGED <<view, primaryAck>>
      BY <1>0, <1>3 DEF Tick
<1> QED
    BY <1>1, <1>2, <1>3 DEF Tick

-----------------------------------------------------------------------------
(***************************************************************************)
(* What any step does to the servers: each learns at most the next view,   *)
(* or ends up with nothing.                                                *)
(***************************************************************************)
Blank(s) == known[s] = NoView /\ reply[s] = NoReply

Moves == \A s \in Server :
    \/ s \in up /\ s \in up' /\ LearntBy(s)' \subseteq LearntBy(s) \cup {view'}
    \/ Blank(s)'

Ordered == \A s \in Server : reply[s] # NoReply => known[s].Viewnum <= reply[s].Viewnum

LEMMA LearntIs ==
    /\ view \in Learnt
    /\ \A s \in Server : LearntBy(s) \subseteq Learnt
    /\ \A v \in Learnt : v = view \/ \E s \in Server : v \in LearntBy(s)
BY DEF Learnt, LearntBy

LEMMA BlankLearnt == \A s \in Server : Blank(s) => LearntBy(s) = {NoView}
BY DEF Blank, LearntBy

LEMMA LearntMoves ==
    ASSUME Moves
    PROVE  Learnt' \subseteq Learnt \cup {view', NoView}
<1> SUFFICES ASSUME NEW v \in Learnt' PROVE v \in Learnt \cup {view', NoView}
    OBVIOUS
<1>1. CASE v = view'
      BY <1>1
<1>2. ASSUME NEW s \in Server, v \in LearntBy(s)' PROVE v \in Learnt \cup {view', NoView}
  <2>1. CASE LearntBy(s)' \subseteq LearntBy(s) \cup {view'}
        BY <1>2, <2>1, LearntIs
  <2>2. CASE Blank(s)'
        BY <1>2, <2>2 DEF Blank, LearntBy
  <2> QED
      BY <2>1, <2>2 DEF Moves
<1>3. v = view' \/ \E s \in Server : v \in LearntBy(s)'
      BY DEF Learnt, LearntBy
<1> QED
    BY <1>1, <1>2, <1>3

LEMMA AgreeKept ==
    ASSUME view \in Views, Agree, Advances, Moves, Ordered'
    PROVE  Agree'
<1>1. view'.Viewnum \in Nat /\ view.Viewnum \in Nat /\ view.Viewnum <= view'.Viewnum
      BY DEF Advances, Views
<1>2. ASSUME NEW v \in Learnt'
      PROVE  /\ v \in Views /\ v.Viewnum <= view'.Viewnum
             /\ v.Viewnum = 0 => v = NoView
             /\ (v \in Learnt /\ v.Viewnum <= view.Viewnum) \/ v = NoView \/ v = view'
  <2>1. CASE v \in Learnt
    <3>1. v \in Views /\ v.Viewnum <= view.Viewnum /\ (v.Viewnum = 0 => v = NoView)
          BY <2>1 DEF Agree
    <3>2. v.Viewnum \in Nat
          BY <3>1 DEF Views
    <3> QED
        BY <1>1, <2>1, <3>1, <3>2
  <2>2. CASE v = NoView
        BY <1>1, <2>2, NoViewIs
  <2>3. CASE v = view'
    <3>1. v.Viewnum = 0 => view' = view
          BY <1>1, <2>3 DEF Advances
    <3>2. v.Viewnum = 0 => v = NoView
          BY <2>3, <3>1, LearntIs DEF Agree
    <3> QED
        BY <1>1, <2>3, <3>2 DEF Advances
  <2> QED
      BY <2>1, <2>2, <2>3, LearntMoves
<1>3. ASSUME NEW v \in Learnt', NEW w \in Learnt', v.Viewnum = w.Viewnum
      PROVE  v = w
  <2>1. CASE v.Viewnum = 0
        BY <1>2, <1>3, <2>1
  <2>2. CASE v.Viewnum # 0 /\ view' = view
    <3>1. v \in Learnt /\ w \in Learnt
          BY <1>2, <1>3, <2>2, LearntIs, NoViewIs
    <3> QED
        BY <1>3, <3>1 DEF Agree
  <2>3. CASE v.Viewnum # 0 /\ view'.Viewnum = view.Viewnum + 1
    <3>1. v.Viewnum \in Nat
          BY <1>2 DEF Views
    <3>2. CASE v.Viewnum = view'.Viewnum
      <4>1. ~(v.Viewnum <= view.Viewnum)
            BY <1>1, <2>3, <3>2
      <4> QED
          BY <1>2, <1>3, <2>3, <4>1, NoViewIs
    <3>3. CASE v.Viewnum # view'.Viewnum
      <4>1. v \in Learnt /\ w \in Learnt
            BY <1>2, <1>3, <2>3, <3>3, NoViewIs
      <4> QED
          BY <1>3, <4>1 DEF Agree
    <3> QED
        BY <3>2, <3>3
  <2> QED
      BY <2>1, <2>2, <2>3 DEF Advances
<1> QED
    BY <1>2, <1>3 DEF Agree, Ordered

LEMMA CurrentKept ==
    ASSUME NEW s \in Server, view' = view,
           \/ Current(s) /\ LearntBy(s)' \subseteq LearntBy(s) \cup {view'}
           \/ Blank(s)'
    PROVE  Current(s)'
<1>1. CASE Current(s) /\ LearntBy(s)' \subseteq LearntBy(s) \cup {view'}
      BY <1>1 DEF Current
<1>2. CASE Blank(s)'
  <2>1. LearntBy(s)' = {NoView}
        BY <1>2 DEF Blank, LearntBy, NoView
  <2> QED
      BY <2>1, NoViewIs DEF Current
<1> QED
    BY <1>1, <1>2

-----------------------------------------------------------------------------
(***************************************************************************)
(* What the steps have in common while the view stays: nobody loses a mark *)
(* of a restart, who runs keeps what it knew, or learns its answer, or     *)
(* restarts with a mark, an acknowledgement comes from a server that knows *)
(* the view or restarted, and a new late Ping has a caller that is down.   *)
(***************************************************************************)
MarksStay == view' = view => restarted \subseteq restarted'

KnowsStay == view' = view => \A s \in Server \cap up' :
    \/ s \in up /\ (known'[s] = known[s] \/ (reply[s] # NoReply /\ known'[s] = reply[s]))
    \/ s \in Roles(view) => s \in restarted'

TruthfulAck == view' = view =>
    \/ primaryAck' = primaryAck
    \/ Acked' /\ view.Primary \in up' =>
          Current(view.Primary)' /\ (known'[view.Primary] = view \/ view.Primary \in restarted')

LateFromDown == \A d \in delayed' :
    d \in delayed \/ (d[2] <= view.Viewnum /\ Kind(d[2]) \in LatePings /\ d[1] \notin up')

Steady == MarksStay /\ KnowsStay /\ TruthfulAck /\ LateFromDown

LEMMA BehindKept ==
    ASSUME SysInv, TypeOK', Advances, Moves, Steady
    PROVE  Behind'
<1>1. view'.Viewnum \in Nat /\ view.Viewnum \in Nat /\ view.Viewnum <= view'.Viewnum
      BY DEF Advances, Views, SysInv, TypeOK
<1> SUFFICES ASSUME NEW d \in delayed'
             PROVE  /\ d[2] <= view'.Viewnum /\ Kind(d[2]) \in LatePings
                    /\ d[2] = view'.Viewnum /\ d[1] \in up' =>
                        Current(d[1])' /\ (d[1] \in Roles(view') => d[1] \in restarted')
    BY DEF Behind
<1>2. d[1] \in Server /\ d[2] \in Nat
      BY DEF TypeOK
<1>3. d[2] <= view.Viewnum /\ Kind(d[2]) \in LatePings
      BY DEF Steady, LateFromDown, SysInv, Behind
<1>4. d[2] <= view'.Viewnum
      BY <1>1, <1>2, <1>3
<1>5. ASSUME d[2] = view'.Viewnum, d[1] \in up'
      PROVE  Current(d[1])' /\ (d[1] \in Roles(view') => d[1] \in restarted')
  <2>1. view' = view
        BY <1>1, <1>3, <1>5 DEF Advances
  <2>2. d \in delayed
        BY <1>5 DEF Steady, LateFromDown
  <2>3. d[1] \in up => Current(d[1]) /\ (d[1] \in Roles(view) => d[1] \in restarted)
        BY <1>5, <2>1, <2>2 DEF SysInv, Behind
  <2>4. Current(d[1])'
        BY <1>2, <2>1, <2>3, CurrentKept DEF Moves
  <2>5. d[1] \in Roles(view) => d[1] \in restarted'
        BY <1>2, <1>5, <2>1, <2>3 DEF Steady, MarksStay, KnowsStay
  <2> QED
      BY <2>1, <2>4, <2>5
<1> QED
    BY <1>3, <1>4, <1>5

LEMMA AcksKept ==
    ASSUME SysInv, TypeOK', Advances, Moves, Steady, Agree'
    PROVE  AckTold' /\ AckIsKnown'
<1> SUFFICES ASSUME Acked', view'.Primary \in up'
             PROVE  AckTold' /\ AckIsKnown'
    BY DEF AckTold, AckIsKnown
<1>1. view' = view
      BY DEF Acked, Advances
<1>2. PICK P \in Server : P = view.Primary /\ P = view'.Primary /\ P \in up'
      BY <1>1 DEF TypeOK
<1> SUFFICES /\ Current(P)'
             /\ view.Viewnum > 0 => known'[P] = view \/ P \in restarted'
    <2>1. view'.Primary = P /\ view'.Viewnum = view.Viewnum
          BY <1>1, <1>2
    <2> QED
        BY <1>1, <2>1 DEF AckTold, AckIsKnown
<1>3. CASE primaryAck' = primaryAck
  <2>1. Acked
        BY <1>1, <1>3 DEF Acked
  <2>2. P \in up => Current(P)
        BY <1>2, <2>1 DEF SysInv, AckTold
  <2>3. Current(P)'
        BY <1>1, <1>2, <2>2, CurrentKept DEF Moves
  <2>4. ASSUME view.Viewnum > 0 PROVE known'[P] = view \/ P \in restarted'
    <3>1. P \in up => known[P] = view \/ P \in restarted
          BY <1>2, <2>1, <2>4 DEF SysInv, AckIsKnown
    <3>2. CASE P \in Roles(view) => P \in restarted'
      <4>1. P # NoServer
            BY <1>2
      <4> QED
          BY <1>2, <3>2, <4>1 DEF Roles
    <3>3. CASE P \in up /\ P \in restarted
          BY <1>1, <3>3 DEF Steady, MarksStay
    <3>4. CASE P \in up /\ known[P] = view /\ known'[P] = known[P]
          BY <3>4
    <3>5. CASE P \in up /\ known[P] = view /\ reply[P] # NoReply /\ known'[P] = reply[P]
      <4>1. reply[P] \in Learnt /\ view \in Learnt
            BY <1>2, <3>5, LearntIs DEF LearntBy
      <4>2. /\ reply[P] \in Views /\ reply[P].Viewnum <= view.Viewnum
            /\ view.Viewnum <= reply[P].Viewnum
            BY <1>2, <3>5, <4>1 DEF SysInv, Agree
      <4>3. reply[P].Viewnum \in Nat /\ view.Viewnum \in Nat
            BY <4>2 DEF Views, SysInv, TypeOK
      <4>4. reply[P].Viewnum = view.Viewnum
            BY <4>2, <4>3
      <4>5. reply[P] = view
            BY <4>1, <4>4 DEF SysInv, Agree
      <4> QED
          BY <3>5, <4>5
    <3> QED
        BY <1>1, <1>2, <3>1, <3>2, <3>3, <3>4, <3>5 DEF Steady, KnowsStay
  <2> QED
      BY <1>1, <2>3, <2>4
<1>4. CASE primaryAck' # primaryAck
  <2>1. Acked' /\ view.Primary \in up' =>
          Current(view.Primary)' /\ (known'[view.Primary] = view \/ view.Primary \in restarted')
        BY <1>1, <1>4 DEF Steady, TruthfulAck
  <2>2. known'[P] = view \/ P \in restarted'
        BY <1>2, <2>1
  <2>3. Current(P)'
        BY <1>1, <1>2, <2>1 DEF Current, LearntBy
  <2> QED
      BY <2>2, <2>3
<1> QED
    BY <1>3, <1>4

LEMMA SysKept ==
    ASSUME SysInv, TypeOK', Advances, Moves, Ordered', Down', Steady
    PROVE  SysInv'
<1>1. Agree'
      BY AgreeKept DEF SysInv, TypeOK
<1> QED
    BY <1>1, BehindKept, AcksKept DEF SysInv, Advances

-----------------------------------------------------------------------------
(***************************************************************************)
(* The actions one by one.                                                 *)
(***************************************************************************)
Sound == TypeOK' /\ Advances /\ Moves /\ Ordered' /\ Down' /\ Steady

LEMMA NothingAdvances ==
    ASSUME SysInv, UNCHANGED ageVars
    PROVE  Advances /\ view' = view /\ primaryAck' = primaryAck
BY DEF SysInv, TypeOK, Numbers, Advances, Ages, ageVars

LEMMA KnownTypes ==
    ASSUME SysInv, NEW s \in Server
    PROVE  /\ known[s] \in Views /\ known[s].Viewnum \in Nat /\ known[s].Viewnum <= view.Viewnum
           /\ known[s].Viewnum = 0 => known[s] = NoView
           /\ known[s].Viewnum = view.Viewnum => known[s] = view
<1>1. known[s] \in Learnt /\ view \in Learnt
      BY LearntIs DEF LearntBy
<1> QED
    BY <1>1 DEF SysInv, Agree, Views

LEMMA SendPingSound ==
    ASSUME SysInv, NEW s \in Server, SendPing(s)
    PROVE  Sound
<1> DEFINE num == known[s].Viewnum
<1>1. /\ s \in up /\ reply[s] = NoReply /\ Ping(s, num)
      /\ reply' = [reply EXCEPT ![s] = view']
      /\ pinged' = IF Timely THEN pinged \cup {s} ELSE {}
      /\ restarted' = Roles(view') \cap (IF view' = view THEN restarted ELSE restarted \ {s})
      /\ up' = up /\ known' = known /\ delayed' = delayed /\ faults' = faults
      BY DEF SendPing
<1>2. /\ Advances
      /\ view' = view => primaryAck' = primaryAck \/ (view.Primary = s /\ primaryAck' = num)
      BY <1>1, KnownTypes, PingAdvances DEF SysInv, TypeOK, Ages
<1>3. view' \in Views /\ reply'[s] = view' /\ view' # NoReply
      BY <1>1, <1>2 DEF SysInv, TypeOK, Advances
<1>4. ASSUME NEW t \in Server, t # s
      PROVE  known'[t] = known[t] /\ reply'[t] = reply[t]
      BY <1>1, <1>4 DEF SysInv, TypeOK
<1>5. TypeOK'
      BY <1>1, <1>2 DEF SysInv, TypeOK, Advances, Ages
<1>6. Moves
  <2> SUFFICES ASSUME NEW t \in Server
               PROVE  \/ t \in up /\ t \in up' /\ LearntBy(t)' \subseteq LearntBy(t) \cup {view'}
                      \/ Blank(t)'
      BY DEF Moves
  <2>1. CASE t = s
        BY <1>1, <1>3, <2>1 DEF LearntBy
  <2>2. CASE t # s
        BY <1>1, <1>4, <2>2 DEF SysInv, Down, LearntBy, Blank
  <2> QED
      BY <2>1, <2>2
<1>7. Ordered'
  <2> SUFFICES ASSUME NEW t \in Server, reply'[t] # NoReply
               PROVE  known'[t].Viewnum <= reply'[t].Viewnum
      BY DEF Ordered
  <2>1. CASE t = s
    <3>1. known[s].Viewnum \in Nat /\ known[s].Viewnum <= view.Viewnum
          BY KnownTypes
    <3>2. view.Viewnum \in Nat /\ view'.Viewnum \in Nat /\ view.Viewnum <= view'.Viewnum
          BY <1>2 DEF SysInv, TypeOK, Views, Advances
    <3> QED
        BY <1>1, <1>3, <2>1, <3>1, <3>2
  <2>2. CASE t # s
        BY <1>4, <2>2 DEF SysInv, Agree
  <2> QED
      BY <2>1, <2>2
<1>8. Down'
      BY <1>1, <1>4 DEF SysInv, Down
<1>9. Steady
  <2>1. MarksStay
        BY <1>1 DEF SysInv, TypeOK, MarksStay
  <2>2. KnowsStay /\ LateFromDown
        BY <1>1 DEF KnowsStay, LateFromDown
  <2>3. TruthfulAck
    <3> SUFFICES ASSUME view' = view, view.Primary = s, primaryAck' = num, Acked'
                 PROVE  /\ Current(view.Primary)'
                        /\ known'[view.Primary] = view \/ view.Primary \in restarted'
        BY <1>2 DEF TruthfulAck
    <3>1. known[s] = view
          BY KnownTypes DEF Acked
    <3>2. known'[view'.Primary] = view' /\ reply'[view'.Primary] = view'
          BY <1>1, <1>3, <3>1
    <3> QED
        BY <1>1, <3>1, <3>2 DEF Current, LearntBy
  <2> QED
      BY <2>1, <2>2, <2>3 DEF Steady
<1> QED
    BY <1>2, <1>5, <1>6, <1>7, <1>8, <1>9 DEF Sound

LEMMA ReplyEndsSound ==
    ASSUME SysInv, NEW s \in Server, ReceiveReply(s) \/ CallFails(s)
    PROVE  Sound
<1>1. /\ reply[s] # NoReply /\ reply' = [reply EXCEPT ![s] = NoReply]
      /\ known' = [known EXCEPT ![s] = reply[s]] \/ known' = known
      /\ UNCHANGED ageVars /\ up' = up /\ delayed' = delayed /\ pinged' = pinged
      /\ restarted' = restarted /\ faults' = faults
      BY DEF ReceiveReply, CallFails
<1>2. Advances /\ view' = view /\ primaryAck' = primaryAck
      BY <1>1, NothingAdvances
<1>3. reply'[s] = NoReply /\ (known'[s] = reply[s] \/ known'[s] = known[s])
      BY <1>1 DEF SysInv, TypeOK
<1>4. ASSUME NEW t \in Server, t # s
      PROVE  known'[t] = known[t] /\ reply'[t] = reply[t]
      BY <1>1, <1>4 DEF SysInv, TypeOK
<1>5. s \in up
      BY <1>1 DEF SysInv, Down
<1>6. TypeOK'
  <2>1. known' \in [Server -> Views] /\ reply' \in [Server -> Views \cup {NoReply}]
        BY <1>1 DEF SysInv, TypeOK
  <2> QED
      BY <1>1, <1>2, <2>1 DEF SysInv, TypeOK, Advances, Ages
<1>7. Moves
  <2> SUFFICES ASSUME NEW t \in Server
               PROVE  \/ t \in up /\ t \in up' /\ LearntBy(t)' \subseteq LearntBy(t) \cup {view'}
                      \/ Blank(t)'
      BY DEF Moves
  <2>1. CASE t = s
        BY <1>1, <1>3, <1>5, <2>1 DEF LearntBy
  <2>2. CASE t # s
        BY <1>1, <1>4, <2>2 DEF SysInv, Down, LearntBy, Blank
  <2> QED
      BY <2>1, <2>2
<1>8. Ordered'
      BY <1>3, <1>4 DEF SysInv, Agree, Ordered
<1>9. Down'
      BY <1>1, <1>4, <1>5 DEF SysInv, Down
<1>10. Steady
  <2>1. KnowsStay
    <3> SUFFICES ASSUME NEW t \in Server \cap up'
                 PROVE  /\ t \in up
                        /\ known'[t] = known[t] \/ (reply[t] # NoReply /\ known'[t] = reply[t])
        BY DEF KnowsStay
    <3> QED
        BY <1>1, <1>3, <1>4
  <2> QED
      BY <1>1, <1>2, <2>1 DEF Steady, MarksStay, TruthfulAck, LateFromDown
<1> QED
    BY <1>2, <1>6, <1>7, <1>8, <1>9, <1>10 DEF Sound

LEMMA CrashSound ==
    ASSUME SysInv, NEW s \in Server, Crash(s)
    PROVE  Sound
<1>1. /\ s \in up /\ up' = up \ {s} /\ faults' \in {faults + 1, faults + 2}
      /\ known' = [known EXCEPT ![s] = NoView] /\ reply' = [reply EXCEPT ![s] = NoReply]
      /\ UNCHANGED ageVars /\ pinged' = pinged /\ restarted' = restarted /\ faults < MaxFaults
      BY DEF Crash
<1>2. Advances /\ view' = view /\ primaryAck' = primaryAck
      BY <1>1, NothingAdvances
<1>3. /\ faults' <= MaxFaults
      /\ \/ delayed' = delayed
         \/ /\ delayed' = delayed \cup {<<s, known[s].Viewnum>>}
            /\ Kind(known[s].Viewnum) \in LatePings
  <2>1. CASE faults' = faults + 1 /\ delayed' = delayed
        BY <1>1, <2>1 DEF SysInv, TypeOK
  <2> QED
      BY <2>1 DEF Crash
<1>4. known'[s] = NoView /\ reply'[s] = NoReply
      BY <1>1 DEF SysInv, TypeOK
<1>5. ASSUME NEW t \in Server, t # s
      PROVE  known'[t] = known[t] /\ reply'[t] = reply[t]
      BY <1>1, <1>5 DEF SysInv, TypeOK
<1>6. TypeOK'
  <2>1. /\ known' \in [Server -> Views] /\ reply' \in [Server -> Views \cup {NoReply}]
        /\ up' \subseteq Server /\ pinged' \subseteq Server /\ restarted' \subseteq Roles(view)
        BY <1>1, NoViewIs DEF SysInv, TypeOK
  <2>2. delayed' \subseteq Server \X Nat
        BY <1>3, KnownTypes DEF SysInv, TypeOK
  <2>3. faults' \in 0..MaxFaults
        BY <1>1, <1>3 DEF SysInv, TypeOK
  <2> QED
      BY <1>2, <2>1, <2>2, <2>3 DEF SysInv, TypeOK, Advances, Ages
<1>7. Moves
      BY <1>1, <1>4, <1>5 DEF Moves, LearntBy, Blank, SysInv, Down
<1>8. Ordered'
      BY <1>4, <1>5 DEF SysInv, Agree, Ordered
<1>9. Down'
      BY <1>1, <1>4, <1>5 DEF SysInv, Down
<1>10. Steady
  <2>1. KnowsStay
        BY <1>1, <1>5 DEF KnowsStay
  <2>2. LateFromDown
        BY <1>1, <1>3, KnownTypes DEF LateFromDown
  <2> QED
      BY <1>1, <1>2, <2>1, <2>2 DEF Steady, MarksStay, TruthfulAck
<1> QED
    BY <1>2, <1>6, <1>7, <1>8, <1>9, <1>10 DEF Sound

LEMMA RestartSound ==
    ASSUME SysInv, NEW s \in Server, Restart(s)
    PROVE  Sound
<1>1. /\ s \notin up /\ up' = up \cup {s} /\ UNCHANGED ageVars
      /\ restarted' = restarted \cup ({s} \cap Roles(view)) /\ pinged' = pinged \ {s}
      /\ known' = known /\ reply' = reply /\ delayed' = delayed /\ faults' = faults
      BY DEF Restart
<1>2. Advances /\ view' = view /\ primaryAck' = primaryAck
      BY <1>1, NothingAdvances
<1>3. TypeOK'
      BY <1>1, <1>2 DEF SysInv, TypeOK, Advances, Ages
<1>4. Moves
      BY <1>1 DEF Moves, LearntBy, Blank, SysInv, Down
<1>5. Ordered' /\ Down'
      BY <1>1 DEF SysInv, Agree, Ordered, Down
<1>6. KnowsStay
      BY <1>1 DEF KnowsStay
<1>7. Steady
      BY <1>1, <1>2, <1>6 DEF Steady, MarksStay, TruthfulAck, LateFromDown
<1> QED
    BY <1>2, <1>3, <1>4, <1>5, <1>7 DEF Sound

\* Of the clients only delayed and restarted change.
LEMMA ClientsStand ==
    ASSUME SysInv, up' = up, known' = known, reply' = reply
    PROVE  Moves /\ Ordered' /\ Down' /\ KnowsStay
<1>1. Moves
      BY DEF Moves, LearntBy, Blank, SysInv, Down
<1> QED
    BY <1>1 DEF SysInv, Agree, Ordered, Down, KnowsStay

LEMMA HandleDelayedSound ==
    ASSUME SysInv, NEW d \in delayed, HandleDelayed(d[1], d[2])
    PROVE  Sound
<1>1. d[1] \in Server /\ d[2] \in Nat /\ d = <<d[1], d[2]>>
      BY DEF SysInv, TypeOK
<1>2. PICK name \in Server, num \in Nat : name = d[1] /\ num = d[2]
      BY <1>1
<1>3. /\ Ping(name, num) /\ delayed' = delayed \ {d}
      /\ restarted' = Roles(view') \cap
                        (IF view' = view THEN restarted ELSE restarted \cup {name})
      /\ up' = up /\ known' = known /\ reply' = reply /\ pinged' = pinged /\ faults' = faults
      BY <1>1, <1>2 DEF HandleDelayed
<1>4. /\ num <= view.Viewnum
      /\ num = view.Viewnum /\ name \in up =>
            Current(name) /\ (name \in Roles(view) => name \in restarted)
      BY <1>2 DEF SysInv, Behind
<1>5. /\ Advances
      /\ view' = view => primaryAck' = primaryAck \/ (view.Primary = name /\ primaryAck' = num)
      BY <1>3, <1>4, PingAdvances DEF SysInv, TypeOK, Ages
<1>6. TypeOK'
      BY <1>3, <1>5 DEF SysInv, TypeOK, Advances, Ages
<1>7. MarksStay
      BY <1>3 DEF SysInv, TypeOK, MarksStay
<1>8. TruthfulAck
  <2> SUFFICES ASSUME view' = view, view.Primary = name, primaryAck' = num, Acked',
                      view.Primary \in up'
               PROVE  /\ Current(view.Primary)'
                      /\ known'[view.Primary] = view \/ view.Primary \in restarted'
      BY <1>5 DEF TruthfulAck
  <2>1. num = view.Viewnum /\ name \in up
        BY <1>3 DEF Acked
  <2>2. Current(name) /\ name \in restarted
    <3>1. name \in Roles(view)
          BY DEF Roles
    <3> QED
        BY <1>4, <2>1, <3>1
  <2>3. Current(name)'
        BY <1>3, <2>2 DEF Current, LearntBy
  <2>4. Current(view.Primary)'
        BY <1>3, <2>3 DEF Current, LearntBy
  <2> QED
      BY <1>7, <2>2, <2>4 DEF MarksStay
<1>9. LateFromDown
      BY <1>3 DEF LateFromDown
<1> QED
    BY <1>3, <1>5, <1>6, <1>7, <1>8, <1>9, ClientsStand DEF Sound, Steady

LEMMA TickSound ==
    ASSUME SysInv, TickStep
    PROVE  Sound
<1>1. /\ Tick /\ pinged' = {} /\ restarted' = restarted \cap Roles(view')
      /\ up' = up /\ known' = known /\ reply' = reply /\ delayed' = delayed /\ faults' = faults
      BY DEF TickStep
<1>2. Advances /\ (view' = view => primaryAck' = primaryAck)
      BY <1>1, TickAdvances DEF SysInv, TypeOK, Ages
<1>3. TypeOK'
      BY <1>1, <1>2 DEF SysInv, TypeOK, Advances, Ages
<1>4. MarksStay
      BY <1>1 DEF SysInv, TypeOK, MarksStay
<1>5. Steady
      BY <1>1, <1>2, <1>4, ClientsStand DEF Steady, TruthfulAck, LateFromDown
<1> QED
    BY <1>1, <1>2, <1>3, <1>5, ClientsStand DEF Sound

LEMMA StutterSound ==
    ASSUME SysInv, UNCHANGED vars
    PROVE  Sound
<1>1. /\ UNCHANGED ageVars /\ up' = up /\ known' = known /\ reply' = reply
      /\ delayed' = delayed /\ pinged' = pinged /\ restarted' = restarted /\ faults' = faults
      BY DEF vars, clientVars
<1>2. Advances /\ view' = view /\ primaryAck' = primaryAck
      BY <1>1, NothingAdvances
<1>3. TypeOK'
      BY <1>1, <1>2 DEF SysInv, TypeOK, Advances, Ages
<1> QED
    BY <1>1, <1>2, <1>3, ClientsStand DEF Sound, Steady, MarksStay, TruthfulAck, LateFromDown

LEMMA StepSound ==
    ASSUME SysInv, [NextSystem]_vars
    PROVE  Sound
<1>1. ASSUME NEW s \in Server,
             SendPing(s) \/ ReceiveReply(s) \/ CallFails(s) \/ Crash(s) \/ Restart(s)
      PROVE  Sound
      BY <1>1, SendPingSound, ReplyEndsSound, CrashSound, RestartSound
<1>2. CASE HandleLate
      BY <1>2, HandleDelayedSound DEF HandleLate
<1>3. CASE TickStep
      BY <1>3, TickSound
<1>4. CASE UNCHANGED vars
      BY <1>4, StutterSound
<1> QED
    BY <1>1, <1>2, <1>3, <1>4 DEF NextSystem

LEMMA SysInvStep == SysInv /\ [NextSystem]_vars => SysInv'
BY StepSound, SysKept DEF Sound

LEMMA SysInvariant == SpecSystem => []SysInv
<1>1. InitSystem => SysInv
      BY InitSysInv
<1>2. SysInv /\ [NextSystem]_vars => SysInv'
      BY SysInvStep
<1> QED
    BY <1>1, <1>2, PTL DEF SpecSystem

\* The composed state keeps its types, for any servers, faults and late Pings.
THEOREM SystemTypeCorrect == SpecSystem => []TypeOK
<1>1. SysInv => TypeOK
      BY DEF SysInv
<1> QED
    BY <1>1, SysInvariant, PTL

\* No server is ahead of the view server, or disagrees with another one on what
\* a number means, whatever replies are lost and whoever crashes.
THEOREM ServersAgree == SpecSystem => []ViewsAgree
<1>1. SysInv => ViewsAgree
      BY DEF SysInv, Agree, ViewsAgree
<1> QED
    BY <1>1, SysInvariant, PTL

\* An acknowledgement that the view server believes in is true: the primary
\* operates in this very view, or it crashed since.
THEOREM AcksAreTrue == SpecSystem => []AckIsKnown
<1>1. SysInv => AckIsKnown
      BY DEF SysInv
<1> QED
    BY <1>1, SysInvariant, PTL

-----------------------------------------------------------------------------
(***************************************************************************)
(* At most one primary, if no Ping(0) arrives after its caller crashed.    *)
(* Then a view's primary is replaced by its own Ping(0), when it knows     *)
(* nothing, or by tick(), when it knows this view or nothing.              *)
(***************************************************************************)
Replaces ==
    \/ view'.Primary = view.Primary
    \/ view.Viewnum = 0
    \/ /\ Acked /\ HasBackup
       /\ view'.Primary = view.Backup /\ view'.Viewnum = view.Viewnum + 1
    \/ view.Primary \in Server /\ Blank(view.Primary)

LEMMA StepReplaces ==
    ASSUME SysInv, "zero" \notin LatePings, [NextSystem]_vars
    PROVE  Replaces
<1>1. ASSUME NEW s \in Server, SendPing(s)
      PROVE  Replaces
  <2>1. Ping(s, known[s].Viewnum) /\ reply[s] = NoReply
        BY <1>1 DEF SendPing
  <2>2. \/ view'.Primary = view.Primary \/ view.Viewnum = 0
        \/ view.Primary = s /\ known[s].Viewnum = 0
        BY <2>1, KnownTypes, PingAdvances DEF SysInv, TypeOK, Ages
  <2> QED
      BY <2>1, <2>2, KnownTypes DEF Replaces, Blank
<1>2. ASSUME NEW d \in delayed, HandleDelayed(d[1], d[2])
      PROVE  Replaces
  <2>1. /\ d[1] \in Server /\ d[2] \in Nat /\ d[2] <= view.Viewnum /\ Kind(d[2]) # "zero"
        BY DEF SysInv, TypeOK, Behind
  <2>2. PICK name \in Server, num \in Nat : name = d[1] /\ num = d[2]
        BY <2>1
  <2>3. num # 0 /\ num <= view.Viewnum /\ Ping(name, num)
        BY <1>2, <2>1, <2>2 DEF Kind, HandleDelayed
  <2> QED
      BY <2>3, PingAdvances DEF SysInv, TypeOK, Ages, Replaces
<1>3. CASE TickStep
      BY <1>3, TickAdvances DEF TickStep, SysInv, TypeOK, Ages, Replaces
<1>4. CASE UNCHANGED ageVars
      BY <1>4 DEF ageVars, Replaces
<1>5. ASSUME NEW s \in Server, ReceiveReply(s) \/ CallFails(s) \/ Crash(s) \/ Restart(s)
      PROVE  UNCHANGED ageVars
      BY <1>5 DEF ReceiveReply, CallFails, Crash, Restart
<1>6. UNCHANGED vars => UNCHANGED ageVars
      BY DEF vars
<1> QED
    BY <1>1, <1>2, <1>3, <1>4, <1>5, <1>6 DEF NextSystem, HandleLate

\* A server that knows a view has not gone blank.
LEMMA LearntAsPrimary ==
    ASSUME SysInv, NEW s \in Server, NEW b \in Server, NEW v \in LearntBy(b), v.Primary = s
    PROVE  /\ v \in Learnt /\ v \in Views /\ v.Viewnum \in Nat /\ v.Viewnum > 0
           /\ v.Viewnum <= view.Viewnum /\ ~Blank(b)
<1>1. v # NoView
      BY NoViewIs
<1>2. v \in Learnt /\ v \in Views /\ v.Viewnum <= view.Viewnum /\ v.Viewnum # 0
      BY <1>1, LearntIs DEF SysInv, Agree
<1> QED
    BY <1>1, <1>2, BlankLearnt DEF Views

\* Learning goes on: a newer view than one that somebody has is not NoView.
LEMMA NewerLearnt ==
    ASSUME Moves, NEW n \in Nat, NEW w \in Learnt', w.Viewnum > n
    PROVE  w \in Learnt \/ w = view'
<1>1. w # NoView
      BY NoViewIs
<1> QED
    BY <1>1, LearntMoves

LEMMA StillKept ==
    ASSUME SysInv, Sound, Agree', Replaces, NEW s \in Server, s \in up,
           NEW v \in LearntBy(s), v.Primary = s, Still(s, v)
    PROVE  Still(s, v)' \/ Follows(v.Backup, v)'
<1>1. /\ v \in Learnt /\ v \in Views /\ v.Viewnum \in Nat /\ v.Viewnum > 0
      /\ v.Viewnum <= view.Viewnum /\ ~Blank(s)
      BY LearntAsPrimary
<1>2. view.Primary = s /\ view.Viewnum \in Nat /\ view.Viewnum # 0
      BY <1>1 DEF Still, SysInv, TypeOK, Views
<1>3. \A w \in Learnt' : w.Viewnum \in Nat
      BY DEF Agree, Views
<1>4. CASE view'.Primary = view.Primary
  <2>1. ASSUME NEW w \in Learnt', w.Viewnum >= v.Viewnum PROVE w.Primary = s
    <3>1. w # NoView
          BY <1>1, <2>1, NoViewIs
    <3>2. w \in Learnt \/ w = view'
          BY <3>1, LearntMoves DEF Sound
    <3> QED
        BY <1>2, <1>4, <2>1, <3>2 DEF Still
  <2> QED
      BY <1>2, <1>4, <2>1 DEF Still
<1>5. CASE /\ Acked /\ HasBackup
           /\ view'.Primary = view.Backup /\ view'.Viewnum = view.Viewnum + 1
  <2>1. Current(s)
        BY <1>2, <1>5 DEF SysInv, AckTold
  <2>2. v.Viewnum = view.Viewnum
        BY <1>1, <2>1 DEF Current
  <2>3. v = view
        BY <1>1, <2>2, LearntIs DEF SysInv, Agree
  <2>4. v.Backup # NoServer /\ v.Viewnum < view'.Viewnum /\ view'.Primary = v.Backup
        BY <1>2, <1>5, <2>3 DEF HasBackup
  <2>5. ASSUME NEW w \in Learnt', w.Viewnum > v.Viewnum PROVE w.Primary = v.Backup
    <3>1. w \in Learnt \/ w = view'
          BY <1>1, <2>5, NewerLearnt DEF Sound
    <3>2. w \in Learnt => w.Viewnum <= view.Viewnum
          BY DEF SysInv, Agree
    <3>3. w.Viewnum \in Nat
          BY <1>3
    <3> QED
        BY <1>2, <2>2, <2>4, <2>5, <3>1, <3>2, <3>3
  <2> QED
      BY <2>4, <2>5 DEF Follows
<1> QED
    BY <1>1, <1>2, <1>4, <1>5 DEF Replaces

LEMMA FollowsKept ==
    ASSUME SysInv, Sound, Agree', Replaces, NEW s \in Server, s \in up,
           NEW v \in LearntBy(s), v.Primary = s, Follows(v.Backup, v)
    PROVE  Follows(v.Backup, v)'
<1>1. /\ v \in Learnt /\ v \in Views /\ v.Viewnum \in Nat /\ v.Viewnum > 0
      /\ v.Viewnum < view.Viewnum /\ v.Backup # NoServer
      BY LearntAsPrimary DEF Follows
<1>2. PICK b \in Server : b = v.Backup
      BY <1>1 DEF Views
<1>3. view.Viewnum \in Nat /\ view'.Viewnum \in Nat /\ view.Viewnum <= view'.Viewnum
      BY DEF SysInv, TypeOK, Sound, Advances, Views
<1> SUFFICES ASSUME b \in up', v \in LearntBy(b)'
             PROVE  view'.Primary = b /\ \A w \in Learnt' : w.Viewnum > v.Viewnum => w.Primary = b
    BY <1>1, <1>2, <1>3 DEF Follows
<1>4. b \in up /\ v \in LearntBy(b)
  <2>1. v # NoView /\ v # view'
        BY <1>1, <1>3, NoViewIs
  <2>2. ~Blank(b)'
        BY <2>1 DEF Blank, LearntBy
  <2> QED
      BY <2>1, <2>2 DEF Sound, Moves
<1>5. view.Primary = b /\ \A w \in Learnt : w.Viewnum > v.Viewnum => w.Primary = b
      BY <1>2, <1>4 DEF Follows
<1>6. ~Blank(b)
      BY <1>4, LearntAsPrimary
<1>7. ~Acked
  <2> SUFFICES ASSUME Acked PROVE FALSE
      OBVIOUS
  <2>1. Current(b)
        BY <1>4, <1>5 DEF SysInv, AckTold
  <2> QED
      BY <1>1, <1>3, <1>4, <2>1 DEF Current
<1>8. view'.Primary = b
      BY <1>1, <1>3, <1>5, <1>6, <1>7 DEF Replaces
<1>9. ASSUME NEW w \in Learnt', w.Viewnum > v.Viewnum PROVE w.Primary = b
  <2>1. w \in Learnt \/ w = view'
        BY <1>1, <1>9, NewerLearnt DEF Sound
  <2> QED
      BY <1>5, <1>8, <1>9, <2>1
<1> QED
    BY <1>8, <1>9

LEMMA ServingKept ==
    ASSUME SysInv, Serving, Sound, Agree', Replaces
    PROVE  Serving'
<1> SUFFICES ASSUME NEW s \in up', NEW v \in LearntBy(s)', v.Primary = s
             PROVE  Still(s, v)' \/ Follows(v.Backup, v)'
    BY DEF Serving
<1>1. s \in Server
      BY DEF Sound, TypeOK
<1>2. s \in up /\ (v \in LearntBy(s) \/ v = view')
  <2>1. v # NoView
        BY <1>1, NoViewIs
  <2>2. ~Blank(s)'
        BY <2>1 DEF Blank, LearntBy
  <2> QED
      BY <1>1, <2>2 DEF Sound, Moves
<1>3. CASE v = view'
  <2>1. ASSUME NEW w \in Learnt', w.Viewnum >= v.Viewnum PROVE w.Primary = s
    <3>1. w.Viewnum <= view'.Viewnum /\ w \in Views /\ view' \in Views /\ view' \in Learnt'
          BY LearntIs DEF Agree, Learnt
    <3>2. w.Viewnum = view'.Viewnum
          BY <1>3, <2>1, <3>1 DEF Views
    <3> QED
        BY <1>3, <3>1, <3>2 DEF Agree
  <2> QED
      BY <1>3, <2>1 DEF Still
<1>4. CASE v \in LearntBy(s)
      BY <1>1, <1>2, <1>4, StillKept, FollowsKept DEF Serving
<1> QED
    BY <1>2, <1>3, <1>4

LEMMA ServingInvariant ==
    ASSUME "zero" \notin LatePings
    PROVE  SpecSystem => []Serving
<1>1. InitSystem => Serving
  <2> SUFFICES ASSUME InitSystem PROVE Serving
      OBVIOUS
  <2>1. \A s \in up : s \in Server /\ LearntBy(s) = {NoView}
        BY BlankLearnt DEF InitSystem, Blank
  <2> QED
      BY <2>1, NoViewIs DEF Serving
<1>2. SysInv /\ Serving /\ [NextSystem]_vars => Serving'
      BY StepSound, StepReplaces, SysInvStep, ServingKept DEF SysInv
<1> QED
    BY <1>1, <1>2, SysInvariant, PTL DEF SpecSystem

LEMMA NewerPrimary ==
    ASSUME SysInv, Serving, NEW s \in Server, NEW t \in Server, CanServe(s), CanServe(t),
           known[s].Viewnum <= known[t].Viewnum
    PROVE  s = t
<1> DEFINE v == known[s]
           w == known[t]
<1>1. /\ s \in up /\ v \in LearntBy(s) /\ v.Primary = s /\ w \in Learnt /\ v \in Learnt
      /\ w.Primary = t /\ v.Viewnum \in Nat /\ w.Viewnum \in Nat
      BY KnownTypes, LearntIs DEF CanServe, LearntBy
<1>2. CASE Still(s, v)
      BY <1>1, <1>2 DEF Still
<1>3. CASE Follows(v.Backup, v)
  <2>1. v.Backup \in up /\ known[v.Backup] = v
        BY <1>3 DEF Follows, CanServe
  <2>2. v \in LearntBy(v.Backup)
        BY <2>1 DEF LearntBy
  <2>3. w.Viewnum > v.Viewnum => w.Primary = v.Backup
        BY <1>1, <1>3, <2>1, <2>2 DEF Follows
  <2>4. CASE w.Viewnum > v.Viewnum
        BY <1>1, <2>1, <2>3, <2>4
  <2>5. CASE w.Viewnum = v.Viewnum
        BY <1>1, <2>5 DEF SysInv, Agree
  <2> QED
      BY <1>1, <2>4, <2>5
<1> QED
    BY <1>1, <1>2, <1>3 DEF Serving

\* No two servers serve clients as primary at the same time, for any servers and
\* any crashes, restarts and lost replies, unless a Ping(0) arrives after its
\* caller crashed.
THEOREM OnePrimary ==
    ASSUME "zero" \notin LatePings
    PROVE  SpecSystem => []AtMostOneServing
<1>1. SysInv /\ Serving => AtMostOneServing
  <2> SUFFICES ASSUME SysInv, Serving, NEW s \in Server, NEW t \in Server,
                      CanServe(s), CanServe(t)
               PROVE  s = t
      BY DEF AtMostOneServing
  <2>1. known[s].Viewnum \in Nat /\ known[t].Viewnum \in Nat
        BY KnownTypes
  <2> QED
      BY <2>1, NewerPrimary
<1> QED
    BY <1>1, SysInvariant, ServingInvariant, PTL
=============================================================================
