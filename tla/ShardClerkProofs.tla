-------------------------- MODULE ShardClerkProofs --------------------------
(***************************************************************************)
(* Proofs about ShardClerk for any number of goroutines, servers,          *)
(* configurations, calls and faults, and whichever servers are dead: its   *)
(* safety properties, and that it implements ShardOps.                     *)
(***************************************************************************)
EXTENDS ShardClerk, TLAPS

(***************************************************************************)
(* The inductive invariant.  Waits and Owned tie a caller that waits to    *)
(* its call; Behind bounds what calls left behind can still do; Replied    *)
(* says what a reply that has not been read yet stands for; Newest and     *)
(* Marks that no number is newer than what the masters have.               *)
(***************************************************************************)
Waits(p) ==
    /\ pc[p] \notin {"wait", "qwait"} => slot[p] = NoSlot
    /\ pc[p] \in {"wait", "qwait"} => /\ slot[p] \in Slots
                                      /\ call[slot[p]] \in {"open", "ran"}
                                      /\ msg[slot[p]].from = p
    /\ pc[p] = "wait" => p \in Threads /\ msg[slot[p]].what = "op"
    /\ pc[p] = "qwait" => IF p = Admin THEN /\ msg[slot[p]].what = "change"
                                            /\ msg[slot[p]].n = changes + 1
                                       ELSE msg[slot[p]].what = "query"
    /\ p = Admin => pc[p] \in {"idle", "query", "qwait"}

Owned(s) ==
    call[s] \in {"open", "ran"} => msg[s].from \in Callers /\ slot[msg[s].from] = s

Behind(s) ==
    call[s] \in {"open", "ran", "left"} =>
        /\ msg[s].n \in Nat
        /\ msg[s].what = "op" => msg[s].from \in Threads
        /\ msg[s].what = "op" /\ call[s] = "left" => msg[s].from \in lost
        /\ msg[s].what = "change" => msg[s].n <= changes + 1 /\ msg[s].n < Len(Configs)

\* A thread whose operation had no call lost, and was served n times so far.
Served(p, n) == p \notin lost => served[p] = n

Replied(s) ==
    call[s] = "ran" =>
        /\ msg[s].srv \notin Dead
        /\ msg[s].what = "op" => IF reply[s].err \in Success(msg[s].from)
                                   THEN served[msg[s].from] >= 1 /\ Served(msg[s].from, 1)
                                   ELSE Served(msg[s].from, 0)
        /\ msg[s].what = "query" => /\ mark[msg[s].from] <= reply[s].config
                                    /\ config <= reply[s].config
                                    /\ reply[s].config <= latest
        /\ msg[s].what = "change" => msg[s].n <= latest

Newest ==
    /\ config <= latest /\ changes <= latest
    /\ pc[Admin] # "idle" => changes + 1 < Len(Configs)

Marks(p) ==
    /\ mark[p] <= latest
    /\ pc[p] \in {"idle", "mutex"} => mark[p] = 0
    /\ pc[p] \in {"round", "call", "wait"} => mark[p] <= config
    /\ pc[p] = "done" => served[p] >= 1 /\ Served(p, 1)
    /\ pc[p] \notin {"done", "wait"} => Served(p, 0)
    /\ pc[p] = "wait" /\ call[slot[p]] = "open" => Served(p, 0)

CallInv == \A s \in Slots : Owned(s) /\ Behind(s) /\ Replied(s)

IInv == /\ TypeOK
        /\ \A p \in Callers : Waits(p)
        /\ CallInv
        /\ Newest
        /\ \A p \in Threads : Marks(p)

\* What the proofs need of the constants.
LEMMA Constants ==
    /\ Admin \notin Threads /\ None \notin Threads \cup {Admin} /\ MaxFaults \in Nat
    /\ Slots \subseteq Nat \ {0} /\ Len(Configs) \in Nat \ {0}
BY ClerkAssumption DEF Callers

USE Constants DEF Callers, Numbers, NoSlot

LEMMA InitIInv == Init => IInv
<1> SUFFICES ASSUME Init PROVE IInv
    OBVIOUS
<1>1. TypeOK
      BY DEF Init, TypeOK, Rpc!Init, Rpc!TypeOK, NoReply, InLoop, Errs
<1>2. (\A p \in Callers : Waits(p)) /\ CallInv /\ Newest /\ \A p \in Threads : Marks(p)
      BY DEF Init, Rpc!Init, Waits, CallInv, Owned, Behind, Replied, Newest, Marks, Served
<1> QED
    BY <1>1, <1>2 DEF IInv

-----------------------------------------------------------------------------
(***************************************************************************)
(* What the beginning and the end of a call change, once and for all.      *)
(***************************************************************************)
RpcTypes == /\ Rpc!TypeOK /\ DOMAIN msg = Slots
            /\ reply \in [Slots -> [err : Errs, config : Numbers]]
            /\ slot \in [Callers -> Slots \cup {NoSlot}]

Only(p, s) ==
    /\ \A t \in Slots \ {s} : call'[t] = call[t] /\ msg'[t] = msg[t] /\ reply'[t] = reply[t]
    /\ \A q \in Callers \ {p} : slot'[q] = slot[q]

Opened(p, s, what, n) ==
    /\ call[s] \notin {"open", "ran", "left"} /\ call'[s] = "open"
    /\ msg'[s].from = p /\ msg'[s].what = what /\ msg'[s].n = n
    /\ slot'[p] = s
    /\ Only(p, s)

Closed(p, s) ==
    /\ slot'[p] = NoSlot
    /\ call'[s] \in {"idle", "left"}
    /\ call'[s] = "left" => msg'[s] = msg[s] /\ msg[s].srv \notin Dead
    /\ Only(p, s)

LEMMA OpenCallOpens ==
    ASSUME RpcTypes, NEW p \in Callers, NEW list, NEW what, NEW n, OpenCall(p, list, what, n)
    PROVE  RpcTypes' /\ \E s \in Slots : Opened(p, s, what, n)
<1> USE DEF RpcTypes, Rpc!TypeOK
<1>1. PICK s \in Slots :
        /\ call[s] \in {"idle", "answered", "failed"} /\ call' = [call EXCEPT ![s] = "open"]
        /\ msg' = [msg EXCEPT ![s] = [from |-> p, srv |-> list[idx[p]], what |-> what, n |-> n]]
        /\ slot' = [slot EXCEPT ![p] = s]
      BY DEF OpenCall, FreeSlots, Rpc!Open, Rpc!Move, Rpc!Free
<1>2. reply' = reply
      BY DEF OpenCall
<1>3. RpcTypes'
      BY <1>1, <1>2
<1>4. Opened(p, s, what, n)
      BY <1>1, <1>2 DEF Opened, Only
<1> QED
    BY <1>3, <1>4

LEMMA NoReplyType == NoReply \in [err : Errs, config : Numbers]
BY DEF NoReply, Errs

LEMMA CallTrueCloses ==
    ASSUME RpcTypes, NEW p \in Callers, slot[p] \in Slots, CallTrue(p)
    PROVE  RpcTypes' /\ Closed(p, slot[p]) /\ call[slot[p]] = "ran" /\ call'[slot[p]] = "idle"
<1> USE NoReplyType DEF RpcTypes, Rpc!TypeOK, CallTrue, Over, Rpc!Move
<1>1. RpcTypes'
      OBVIOUS
<1>2. Closed(p, slot[p]) /\ call[slot[p]] = "ran" /\ call'[slot[p]] = "idle"
      BY DEF Closed, Only
<1> QED
    BY <1>1, <1>2

LEMMA CallFalseCloses ==
    ASSUME RpcTypes, NEW p \in Callers, slot[p] \in Slots, CallFalse(p), faults \in 0..MaxFaults
    PROVE  RpcTypes' /\ Closed(p, slot[p]) /\ faults' \in 0..MaxFaults
<1> USE NoReplyType DEF RpcTypes, Rpc!TypeOK
<1>1. faults' \in 0..MaxFaults
      BY DEF CallFalse
<1>2. \/ /\ call' = [call EXCEPT ![slot[p]] = "idle"]
         /\ msg' = [msg EXCEPT ![slot[p]] = NoMsg]
      \/ /\ call' = [call EXCEPT ![slot[p]] = "left"] /\ msg' = msg
         /\ msg[slot[p]].srv \notin Dead
      BY DEF CallFalse, Over, Rpc!Leave, Rpc!Move
<1>3. /\ reply' = [reply EXCEPT ![slot[p]] = NoReply]
      /\ slot' = [slot EXCEPT ![p] = NoSlot]
      BY DEF CallFalse
<1>4. RpcTypes'
      BY <1>2, <1>3
<1>5. Closed(p, slot[p])
      BY <1>2, <1>3 DEF Closed, Only
<1> QED
    BY <1>1, <1>4, <1>5

LEMMA TypesRpc == TypeOK => RpcTypes
BY DEF TypeOK, RpcTypes

\* TypeOK of the next state, from its parts.
LEMMA TypesFrom ==
    ASSUME RpcTypes', \A q \in Callers : Waits(q)',
           pc' \in [Callers -> {"idle", "mutex", "done"} \cup InLoop],
           idx' \in [Callers -> Nat],
           holder' \in Threads \cup {None}, \A q \in Threads : holder' = q <=> pc'[q] \in InLoop,
           config' \in Numbers, latest' \in Numbers, changes' \in Numbers,
           faults' \in 0..MaxFaults,
           served' \in [Threads -> 0..2], lost' \subseteq Threads, mark' \in [Threads -> Numbers]
    PROVE  TypeOK'
<1>1. \A q \in Callers : pc'[q] \in {"wait", "qwait"} <=>
         slot'[q] # NoSlot /\ call'[slot'[q]] \in {"open", "ran"} /\ msg'[slot'[q]].from = q
      BY DEF Waits
<1> QED
    BY <1>1 DEF TypeOK, RpcTypes

-----------------------------------------------------------------------------
(***************************************************************************)
(* Steps of a caller that are not about a call.                            *)
(***************************************************************************)
LEMMA PcType == TypeOK => /\ pc \in [Callers -> {"idle", "mutex", "done"} \cup InLoop]
                          /\ idx \in [Callers -> Nat]
BY DEF TypeOK

LEMMA NumberTypes == TypeOK => /\ latest \in Nat /\ changes \in Nat /\ config \in Nat
                               /\ \A q \in Threads : mark[q] \in Nat /\ served[q] \in Nat
<1> SUFFICES ASSUME TypeOK PROVE latest \in Nat /\ changes \in Nat /\ config \in Nat
                                 /\ \A q \in Threads : mark[q] \in Nat /\ served[q] \in Nat
    OBVIOUS
<1>1. Numbers \subseteq Nat /\ 0..2 \subseteq Nat
      OBVIOUS
<1>2. latest \in Numbers /\ changes \in Numbers /\ config \in Numbers
      BY DEF TypeOK
<1>3. mark \in [Threads -> Numbers] /\ served \in [Threads -> 0..2]
      BY DEF TypeOK
<1>4. \A q \in Threads : mark[q] \in Numbers /\ served[q] \in 0..2
      BY <1>3
<1> QED
    BY <1>1, <1>2, <1>4

LEMMA QuietKeeps ==
    ASSUME IInv, NEW p \in Callers,
           \A q \in Callers \ {p} : pc'[q] = pc[q],
           {pc[p], pc'[p]} \cap {"wait", "qwait"} = {},
           p = Admin => pc'[p] \in {"idle", "query"},
           UNCHANGED <<call, msg, reply, slot, config, latest, changes>>,
           UNCHANGED <<served, lost, mark>>
    PROVE  /\ \A q \in Callers : Waits(q)'
           /\ CallInv' /\ RpcTypes'
<1>1. ASSUME NEW q \in Callers PROVE Waits(q)'
  <2>1. Waits(q)
        BY DEF IInv
  <2> QED
        BY <2>1 DEF Waits
<1>2. CallInv'
      BY DEF IInv, CallInv, Owned, Behind, Replied, Served
<1>3. RpcTypes'
      BY TypesRpc DEF IInv, RpcTypes, Rpc!TypeOK
<1> QED
    BY <1>1, <1>2, <1>3

LEMMA BeginKeeps ==
    ASSUME IInv, NEW p \in Threads, Begin(p)
    PROVE  IInv'
<1>1. TypeOK /\ Newest /\ \A q \in Threads : Marks(q)
      BY DEF IInv
<1>2. /\ pc[p] = "idle"
      /\ pc' = [pc EXCEPT ![p] = "mutex"] /\ holder' = holder
      /\ UNCHANGED <<call, msg, reply, slot, config, latest, changes>>
      /\ UNCHANGED <<served, lost, mark>> /\ faults' = faults
      BY PcType, <1>1 DEF Begin, Goto, rpcVars, history
<1>i. idx' \in [Callers -> Nat]
      BY PcType, <1>1 DEF Begin, Server
<1>p. /\ p \in Callers /\ pc'[p] = "mutex"
      /\ \A q \in Callers \ {p} : pc'[q] = pc[q]
      /\ pc' \in [Callers -> {"idle", "mutex", "done"} \cup InLoop]
      BY PcType, <1>1, <1>2 DEF InLoop
<1>3. (\A q \in Callers : Waits(q)') /\ CallInv' /\ RpcTypes'
      BY <1>2, <1>p, QuietKeeps
<1>4. TypeOK'
      BY <1>1, <1>2, <1>i, <1>p, <1>3, TypesFrom DEF TypeOK, InLoop
<1>5. Newest' /\ \A q \in Threads : Marks(q)'
      BY NumberTypes, <1>1, <1>2, <1>p DEF Newest, Marks, Served
<1> QED
    BY <1>3, <1>4, <1>5 DEF IInv

LEMMA LockMuKeeps ==
    ASSUME IInv, NEW p \in Threads, LockMu(p)
    PROVE  IInv'
<1>1. TypeOK /\ Newest /\ \A q \in Threads : Marks(q)
      BY DEF IInv
<1>2. /\ pc[p] = "mutex" /\ holder = None
      /\ pc' = [pc EXCEPT ![p] = "round"] /\ holder' = p
      /\ UNCHANGED <<call, msg, reply, slot, config, latest, changes>>
      /\ UNCHANGED <<served, lost, mark>> /\ faults' = faults
      BY PcType, <1>1 DEF LockMu, Goto, rpcVars, history
<1>i. idx' \in [Callers -> Nat]
      BY PcType, <1>1 DEF LockMu, Server
<1>p. /\ p \in Callers /\ pc'[p] = "round"
      /\ \A q \in Callers \ {p} : pc'[q] = pc[q]
      /\ pc' \in [Callers -> {"idle", "mutex", "done"} \cup InLoop]
      BY PcType, <1>1, <1>2 DEF InLoop
<1>3. (\A q \in Callers : Waits(q)') /\ CallInv' /\ RpcTypes'
      BY <1>2, <1>p, QuietKeeps
<1>4. TypeOK'
  <2>1. \A q \in Threads : holder' = q <=> pc'[q] \in InLoop
        BY <1>1, <1>2, <1>p DEF TypeOK, InLoop
  <2> QED
        BY <1>1, <1>2, <1>i, <1>p, <1>3, <2>1, TypesFrom DEF TypeOK
<1>5. Newest' /\ \A q \in Threads : Marks(q)'
      BY NumberTypes, <1>1, <1>2, <1>p DEF Newest, Marks, Served
<1> QED
    BY <1>3, <1>4, <1>5 DEF IInv

LEMMA RoundKeeps ==
    ASSUME IInv, NEW p \in Threads, Round(p)
    PROVE  IInv'
<1>1. TypeOK /\ Newest /\ \A q \in Threads : Marks(q)
      BY DEF IInv
<1>2. /\ pc[p] = "round"
      /\ pc' = [pc EXCEPT ![p] = "call"] /\ holder' = holder
      /\ UNCHANGED <<call, msg, reply, slot, config, latest, changes>>
      /\ UNCHANGED <<served, lost, mark>> /\ faults' = faults
      BY PcType, <1>1 DEF Round, Goto, rpcVars, history
<1>i. idx' \in [Callers -> Nat]
      BY PcType, <1>1 DEF Round, Server
<1>p. /\ p \in Callers /\ pc'[p] = "call"
      /\ \A q \in Callers \ {p} : pc'[q] = pc[q]
      /\ pc' \in [Callers -> {"idle", "mutex", "done"} \cup InLoop]
      BY PcType, <1>1, <1>2 DEF InLoop
<1>3. (\A q \in Callers : Waits(q)') /\ CallInv' /\ RpcTypes'
      BY <1>2, <1>p, QuietKeeps
<1>4. TypeOK'
      BY <1>1, <1>2, <1>i, <1>p, <1>3, TypesFrom DEF TypeOK, InLoop
<1>5. Newest' /\ \A q \in Threads : Marks(q)'
      BY NumberTypes, <1>1, <1>2, <1>p DEF Newest, Marks, Served
<1> QED
    BY <1>3, <1>4, <1>5 DEF IInv

LEMMA ChangeKeeps ==
    ASSUME IInv, Change
    PROVE  IInv'
<1>1. TypeOK /\ Newest /\ \A q \in Threads : Marks(q)
      BY DEF IInv
<1>2. /\ pc[Admin] = "idle" /\ changes + 1 < Len(Configs)
      /\ pc' = [pc EXCEPT ![Admin] = "query"] /\ holder' = holder
      /\ UNCHANGED <<call, msg, reply, slot, config, latest, changes>>
      /\ UNCHANGED <<served, lost, mark>> /\ faults' = faults
      BY PcType, <1>1 DEF Change, Goto, rpcVars, history
<1>i. idx' \in [Callers -> Nat]
      BY PcType, <1>1 DEF Change, Server
<1>p. /\ Admin \in Callers /\ pc'[Admin] = "query"
      /\ \A q \in Callers \ {Admin} : pc'[q] = pc[q]
      /\ pc' \in [Callers -> {"idle", "mutex", "done"} \cup InLoop]
      BY PcType, <1>1, <1>2 DEF InLoop
<1>3. (\A q \in Callers : Waits(q)') /\ CallInv' /\ RpcTypes'
      BY <1>2, <1>p, QuietKeeps
<1>4. TypeOK'
      BY <1>1, <1>2, <1>i, <1>p, <1>3, TypesFrom DEF TypeOK, InLoop
<1>5. Newest' /\ \A q \in Threads : Marks(q)'
      BY NumberTypes, <1>1, <1>2, <1>p DEF Newest, Marks, Served
<1> QED
    BY <1>3, <1>4, <1>5 DEF IInv

LEMMA NoMasterLeftKeeps ==
    ASSUME IInv, NEW p \in Callers, NoMasterLeft(p)
    PROVE  IInv'
<1>1. TypeOK /\ Newest /\ \A q \in Threads : Marks(q)
      BY DEF IInv
<1>2. /\ pc[p] = "query"
      /\ pc' = [pc EXCEPT ![p] = "query"] /\ holder' = holder
      /\ UNCHANGED <<call, msg, reply, slot, config, latest, changes>>
      /\ UNCHANGED <<served, lost, mark>> /\ faults' = faults
      BY PcType, <1>1 DEF NoMasterLeft, Goto, rpcVars, history
<1>i. idx' \in [Callers -> Nat]
      BY PcType, <1>1 DEF NoMasterLeft, Server
<1>p. /\ p \in Callers /\ pc'[p] = "query"
      /\ \A q \in Callers \ {p} : pc'[q] = pc[q]
      /\ pc' \in [Callers -> {"idle", "mutex", "done"} \cup InLoop]
      BY PcType, <1>1, <1>2 DEF InLoop
<1>3. (\A q \in Callers : Waits(q)') /\ CallInv' /\ RpcTypes'
      BY <1>2, <1>p, QuietKeeps
<1>4. TypeOK'
      BY <1>1, <1>2, <1>i, <1>p, <1>3, TypesFrom DEF TypeOK, InLoop
<1>5. Newest' /\ \A q \in Threads : Marks(q)'
      BY NumberTypes, <1>1, <1>2, <1>p DEF Newest, Marks, Served
<1> QED
    BY <1>3, <1>4, <1>5 DEF IInv

LEMMA NoServerLeftKeeps ==
    ASSUME IInv, NEW p \in Threads, NoServerLeft(p)
    PROVE  IInv'
<1> USE DEF IInv, TypeOK, InLoop
<1>1. /\ pc[p] = "call" /\ pc' = [pc EXCEPT ![p] = "query"] /\ idx' = [idx EXCEPT ![p] = 1]
      /\ mark' = [mark EXCEPT ![p] = latest]
      /\ UNCHANGED <<rpcVars, slot, holder, config, latest, changes, faults, served, lost>>
      BY DEF NoServerLeft, EndRound, OutOfScope, Goto, Server
<1>2. \A q \in Callers : Waits(q)'
      BY <1>1 DEF Waits, rpcVars
<1>3. TypeOK'
      BY <1>1, <1>2 DEF Rpc!TypeOK, rpcVars
<1>4. CallInv'
  <2> SUFFICES ASSUME NEW t \in Slots PROVE (Owned(t) /\ Behind(t) /\ Replied(t))'
      BY DEF CallInv
  <2>1. Owned(t) /\ Behind(t) /\ Replied(t) /\ Waits(p)
        BY DEF CallInv
  <2>2. call[t] = "ran" => msg[t].from # p
        BY <1>1, <2>1 DEF Owned, Waits
  <2>3. call[t] = "ran" /\ msg[t].what = "query" => mark'[msg[t].from] = mark[msg[t].from]
        BY <1>1, <2>2
  <2> QED
        BY <1>1, <2>1, <2>3 DEF Owned, Behind, Replied, Served, rpcVars
<1>5. Newest' /\ \A q \in Threads : Marks(q)'
      BY <1>1 DEF Newest, Marks, Served, rpcVars
<1> QED
    BY <1>2, <1>3, <1>4, <1>5

-----------------------------------------------------------------------------
(***************************************************************************)
(* Calls begin.                                                            *)
(***************************************************************************)
LEMMA CallServerKeeps ==
    ASSUME IInv, NEW p \in Threads, CallServer(p)
    PROVE  IInv'
<1>1. /\ pc[p] = "call" /\ pc' = [pc EXCEPT ![p] = "wait"]
      /\ UNCHANGED <<idx, servers, holder, config, latest, changes, faults, served, lost, mark>>
      BY DEF CallServer, Goto, history
<1>2. RpcTypes' /\ \E s \in Slots : Opened(p, s, "op", 0)
      BY OpenCallOpens, TypesRpc DEF CallServer, IInv
<1>3. PICK s \in Slots : Opened(p, s, "op", 0)
      BY <1>2
<1>4. \A q \in Callers : Waits(q)'
  <2> SUFFICES ASSUME NEW q \in Callers PROVE Waits(q)'
      OBVIOUS
  <2>1. CASE q = p
        BY <1>1, <1>3, <2>1 DEF IInv, TypeOK, Waits, Opened
  <2>2. CASE q # p
    <3>1. Waits(q) /\ pc'[q] = pc[q] /\ slot'[q] = slot[q] /\ changes' = changes
          BY <1>1, <1>3, <2>2 DEF IInv, TypeOK, Opened, Only
    <3>2. pc[q] \in {"wait", "qwait"} => /\ call'[slot[q]] = call[slot[q]]
                                         /\ msg'[slot[q]] = msg[slot[q]]
          BY <1>3, <3>1 DEF Waits, Opened, Only
    <3> QED
          BY <3>1, <3>2 DEF Waits
  <2> QED
        BY <2>1, <2>2
<1>5. TypeOK'
  <2>1. /\ pc' \in [Callers -> {"idle", "mutex", "done"} \cup InLoop]
        /\ \A q \in Threads : pc'[q] \in InLoop <=> pc[q] \in InLoop
        BY <1>1 DEF IInv, TypeOK, InLoop
  <2> QED
        BY <1>1, <1>2, <1>4, <2>1, TypesFrom DEF IInv, TypeOK
<1>6. CallInv'
  <2> SUFFICES ASSUME NEW t \in Slots PROVE (Owned(t) /\ Behind(t) /\ Replied(t))'
      BY DEF CallInv
  <2>1. CASE t = s
        BY <1>3, <2>1 DEF Owned, Behind, Replied, Opened
  <2>2. CASE t # s
    <3>1. call'[t] = call[t] /\ msg'[t] = msg[t] /\ reply'[t] = reply[t]
          BY <1>3, <2>2 DEF Opened, Only
    <3>2. Owned(t)'
          BY <1>1, <1>3, <3>1 DEF IInv, CallInv, Owned, Waits, Opened, Only
    <3> QED
          BY <1>1, <3>1, <3>2 DEF IInv, CallInv, Behind, Replied, Served
  <2> QED
        BY <2>1, <2>2
<1>7. Newest' /\ \A q \in Threads : Marks(q)'
  <2>1. Newest'
        BY <1>1 DEF IInv, TypeOK, Newest
  <2>2. ASSUME NEW q \in Threads PROVE Marks(q)'
    <3>1. CASE q = p
          BY <1>1, <1>3, <3>1 DEF IInv, TypeOK, Marks, Served
    <3>2. CASE q # p
      <4>1. Marks(q) /\ Waits(q) /\ pc'[q] = pc[q] /\ slot'[q] = slot[q]
            BY <1>1, <1>3, <3>2 DEF IInv, TypeOK, Opened, Only
      <4>2. pc[q] = "wait" => call'[slot[q]] = call[slot[q]]
            BY <1>3, <4>1 DEF Waits, Opened, Only
      <4> QED
            BY <1>1, <4>1, <4>2 DEF Marks, Served
    <3> QED
          BY <3>1, <3>2
  <2> QED
        BY <2>1, <2>2
<1> QED
    BY <1>4, <1>5, <1>6, <1>7 DEF IInv

LEMMA CallMasterKeeps ==
    ASSUME IInv, NEW p \in Callers, CallMaster(p)
    PROVE  IInv'
<1> DEFINE what == IF p = Admin THEN "change" ELSE "query"
           n == IF p = Admin THEN changes + 1 ELSE 0
<1>1. /\ pc[p] = "query" /\ pc' = [pc EXCEPT ![p] = "qwait"]
      /\ UNCHANGED <<idx, servers, holder, config, latest, changes, faults, served, lost, mark>>
      BY DEF CallMaster, Goto, history
<1>2. RpcTypes' /\ \E s \in Slots : Opened(p, s, what, n)
  <2>1. OpenCall(p, Masters, what, n)
        BY DEF CallMaster
  <2> HIDE DEF what, n
  <2> QED
        BY <2>1, OpenCallOpens, TypesRpc DEF IInv
<1>3. PICK s \in Slots : Opened(p, s, what, n)
      BY <1>2
<1>4. \A q \in Callers : Waits(q)'
  <2> SUFFICES ASSUME NEW q \in Callers PROVE Waits(q)'
      OBVIOUS
  <2>1. CASE q = p
        BY <1>1, <1>3, <2>1 DEF IInv, TypeOK, Waits, Opened
  <2>2. CASE q # p
    <3>1. Waits(q) /\ pc'[q] = pc[q] /\ slot'[q] = slot[q] /\ changes' = changes
          BY <1>1, <1>3, <2>2 DEF IInv, TypeOK, Opened, Only
    <3>2. pc[q] \in {"wait", "qwait"} => /\ call'[slot[q]] = call[slot[q]]
                                         /\ msg'[slot[q]] = msg[slot[q]]
          BY <1>3, <3>1 DEF Waits, Opened, Only
    <3> QED
          BY <3>1, <3>2 DEF Waits
  <2> QED
        BY <2>1, <2>2
<1>5. TypeOK'
  <2>1. /\ pc' \in [Callers -> {"idle", "mutex", "done"} \cup InLoop]
        /\ \A q \in Threads : pc'[q] \in InLoop <=> pc[q] \in InLoop
        BY <1>1 DEF IInv, TypeOK, InLoop
  <2> QED
        BY <1>1, <1>2, <1>4, <2>1, TypesFrom DEF IInv, TypeOK
<1>6. CallInv'
  <2> SUFFICES ASSUME NEW t \in Slots PROVE (Owned(t) /\ Behind(t) /\ Replied(t))'
      BY DEF CallInv
  <2>1. CASE t = s
    <3>1. p = Admin => changes + 1 < Len(Configs)
          BY <1>1 DEF IInv, Newest
    <3>2. /\ call'[t] = "open" /\ slot'[p] = t
          /\ msg'[t].from = p /\ msg'[t].what = what /\ msg'[t].n = n
          BY <1>3, <2>1 DEF Opened
    <3>3. what # "op" /\ n \in Nat /\ (what = "change" => n = changes + 1 /\ n < Len(Configs))
          BY <3>1 DEF IInv, TypeOK
    <3>4. changes' = changes
          BY <1>1
    <3> HIDE DEF what, n
    <3> QED
          BY <3>2, <3>3, <3>4 DEF Owned, Behind, Replied
  <2>2. CASE t # s
    <3>1. call'[t] = call[t] /\ msg'[t] = msg[t] /\ reply'[t] = reply[t]
          BY <1>3, <2>2 DEF Opened, Only
    <3>2. Owned(t)'
          BY <1>1, <1>3, <3>1 DEF IInv, CallInv, Owned, Waits, Opened, Only
    <3> QED
          BY <1>1, <3>1, <3>2 DEF IInv, CallInv, Behind, Replied, Served
  <2> QED
        BY <2>1, <2>2
<1>7. Newest' /\ \A q \in Threads : Marks(q)'
  <2>1. Newest'
        BY <1>1 DEF IInv, TypeOK, Newest
  <2>2. ASSUME NEW q \in Threads PROVE Marks(q)'
    <3>1. CASE q = p
          BY <1>1, <1>3, <3>1 DEF IInv, TypeOK, Marks, Served
    <3>2. CASE q # p
      <4>1. Marks(q) /\ Waits(q) /\ pc'[q] = pc[q] /\ slot'[q] = slot[q]
            BY <1>1, <1>3, <3>2 DEF IInv, TypeOK, Opened, Only
      <4>2. pc[q] = "wait" => call'[slot[q]] = call[slot[q]]
            BY <1>3, <4>1 DEF Waits, Opened, Only
      <4> QED
            BY <1>1, <4>1, <4>2 DEF Marks, Served
    <3> QED
          BY <3>1, <3>2
  <2> QED
        BY <2>1, <2>2
<1> QED
    BY <1>4, <1>5, <1>6, <1>7 DEF IInv

-----------------------------------------------------------------------------
(***************************************************************************)
(* Calls end.  Nobody else's call is touched.                              *)
(***************************************************************************)
LEMMA ClosedWaits ==
    ASSUME IInv, NEW p \in Callers, pc[p] \in {"wait", "qwait"}, Closed(p, slot[p]),
           NEW q \in Callers, q # p, pc'[q] = pc[q], q = Admin => changes' = changes
    PROVE  Waits(q)' /\ (pc[q] = "wait" => call'[slot'[q]] = call[slot[q]])
<1>1. Waits(p) /\ Waits(q) /\ slot'[q] = slot[q]
      BY DEF IInv, Closed, Only
<1>2. pc[q] \in {"wait", "qwait"} => slot[q] \in Slots \ {slot[p]}
      BY <1>1 DEF Waits
<1>3. pc[q] \in {"wait", "qwait"} => call'[slot[q]] = call[slot[q]] /\ msg'[slot[q]] = msg[slot[q]]
      BY <1>2 DEF Closed, Only
<1> QED
    BY <1>1, <1>2, <1>3 DEF Waits

LEMMA ClosedCalls ==
    ASSUME IInv, NEW p \in Callers, pc[p] \in {"wait", "qwait"}, Closed(p, slot[p]),
           changes \in Nat, changes' \in Nat, changes <= changes', lost \subseteq lost',
           call'[slot[p]] = "left" /\ msg[slot[p]].what = "op" => p \in lost',
           NEW t \in Slots
    PROVE  /\ Owned(t)' /\ Behind(t)'
           /\ call'[t] = "ran" => /\ call[t] = "ran" /\ Replied(t)
                                  /\ msg[t].from \in Callers \ {p} /\ slot[msg[t].from] = t
                                  /\ reply'[t] = reply[t] /\ msg'[t] = msg[t]
<1>1. /\ Waits(p) /\ Owned(t) /\ Behind(t) /\ Replied(t)
      /\ slot[p] \in Slots /\ msg[slot[p]].from = p /\ Owned(slot[p]) /\ Behind(slot[p])
      /\ call[slot[p]] \in {"open", "ran"}
      BY DEF IInv, CallInv, Waits
<1>2. CASE t = slot[p]
  <2>1. call'[t] \in {"idle", "left"} /\ (call'[t] = "left" => msg'[t] = msg[t])
        BY <1>2 DEF Closed
  <2>2. call'[t] = "left" => /\ msg[t].n \in Nat
                             /\ msg[t].what = "op" => msg[t].from \in Threads
                             /\ msg[t].what = "change" => msg[t].n <= changes + 1 /\ msg[t].n < Len(Configs)
        BY <1>1, <1>2 DEF Behind
  <2>3. Behind(t)'
        BY <1>1, <1>2, <2>1, <2>2 DEF Behind
  <2> QED
        BY <2>1, <2>3 DEF Owned
<1>3. CASE t # slot[p]
  <2>1. call'[t] = call[t] /\ msg'[t] = msg[t] /\ reply'[t] = reply[t]
        BY <1>3 DEF Closed, Only
  <2>2. call[t] \in {"open", "ran"} => /\ msg[t].from \in Callers \ {p} /\ slot[msg[t].from] = t
                                       /\ slot'[msg[t].from] = t
        BY <1>1, <1>3 DEF Owned, Closed, Only
  <2>3. Behind(t)'
        BY <1>1, <2>1 DEF Behind
  <2> QED
        BY <1>1, <2>1, <2>2, <2>3 DEF Owned
<1> QED
    BY <1>2, <1>3

LEMMA ServerAnswersKeeps ==
    ASSUME IInv, NEW p \in Threads, ServerAnswers(p)
    PROVE  IInv'
<1>0. TypeOK /\ Waits(p) /\ Marks(p) /\ pc[p] = "wait" /\ slot[p] \in Slots
      BY DEF IInv, ServerAnswers, Waits
<1>1. RpcTypes' /\ Closed(p, slot[p]) /\ call[slot[p]] = "ran" /\ call'[slot[p]] = "idle"
      BY <1>0, CallTrueCloses, TypesRpc DEF ServerAnswers
<1>2. UNCHANGED <<config, latest, changes, faults, served, lost>>
      BY DEF ServerAnswers
<1>3. \/ /\ pc' = [pc EXCEPT ![p] = "done"] /\ holder' = None
         /\ idx' = [idx EXCEPT ![p] = 1] /\ mark' = mark
         /\ reply[slot[p]].err \in Success(p)
      \/ /\ pc' = [pc EXCEPT ![p] = "query"] /\ holder' = holder
         /\ idx' = [idx EXCEPT ![p] = 1] /\ mark' = [mark EXCEPT ![p] = latest]
         /\ reply[slot[p]].err \notin Success(p)
      \/ /\ pc' = [pc EXCEPT ![p] = "call"] /\ holder' = holder
         /\ idx' = [idx EXCEPT ![p] = idx[p] + 1] /\ mark' = mark
         /\ reply[slot[p]].err \notin Success(p)
      BY DEF ServerAnswers, Unlock, EndRound, NextServer, OutOfScope, Goto, Server, Accepted, Success
<1>3a. mark' = mark \/ mark' = [mark EXCEPT ![p] = latest]
      BY <1>3
<1>3b. \A q \in Threads \ {p} : mark'[q] = mark[q]
      BY <1>0, <1>3a DEF TypeOK
<1>4. /\ \A q \in Callers \ {p} : pc'[q] = pc[q]
      /\ pc'[p] \in {"done", "query", "call"}
      BY <1>0, <1>3 DEF TypeOK
<1>5. \A q \in Callers : Waits(q)'
  <2>1. Waits(p)'
        BY <1>1, <1>4 DEF Waits, Closed
  <2> QED
        BY <1>0, <1>1, <1>2, <1>4, <2>1, ClosedWaits
<1>6. TypeOK'
  <2>1. \A q \in Threads : holder' = q <=> pc'[q] \in InLoop
        BY <1>0, <1>3 DEF TypeOK, InLoop
  <2>2. PICK at \in {"done", "query", "call"}, i \in Nat :
             pc' = [pc EXCEPT ![p] = at] /\ idx' = [idx EXCEPT ![p] = i]
    <3>1. 1 \in Nat /\ idx[p] + 1 \in Nat
          BY <1>0 DEF TypeOK
    <3> QED
          BY <1>3, <3>1, Zenon
  <2>3. pc' \in [Callers -> {"idle", "mutex", "done"} \cup InLoop] /\ idx' \in [Callers -> Nat]
        BY <1>0, <2>2 DEF TypeOK, InLoop
  <2>4. holder' \in Threads \cup {None}
        BY <1>0, <1>3 DEF TypeOK
  <2>5. CASE mark' = mark
        BY <1>0, <1>1, <1>2, <1>5, <2>1, <2>3, <2>4, <2>5, TypesFrom DEF TypeOK
  <2>6. CASE mark' = [mark EXCEPT ![p] = latest]
    <3>1. mark' \in [Threads -> 0..(Len(Configs) - 1)]
          BY <1>0, <2>6 DEF TypeOK
    <3> QED
          BY <1>0, <1>1, <1>2, <1>5, <2>1, <2>3, <2>4, <3>1, TypesFrom DEF TypeOK
  <2> QED
        BY <1>3a, <2>5, <2>6
<1>7. CallInv'
  <2> SUFFICES ASSUME NEW t \in Slots PROVE (Owned(t) /\ Behind(t) /\ Replied(t))'
      BY DEF CallInv
  <2>1. changes \in Nat
        BY <1>0 DEF TypeOK
  <2>2. /\ Owned(t)' /\ Behind(t)'
        /\ call'[t] = "ran" => /\ call[t] = "ran" /\ Replied(t)
                               /\ msg[t].from \in Callers \ {p} /\ slot[msg[t].from] = t
                               /\ reply'[t] = reply[t] /\ msg'[t] = msg[t]
        BY <1>0, <1>1, <1>2, <2>1, ClosedCalls
  <2>3. call'[t] = "ran" /\ msg[t].what = "query" => msg[t].from \in Threads \ {p}
        BY <2>2 DEF IInv, Waits
  <2>4. call'[t] = "ran" /\ msg[t].what = "query" => mark'[msg[t].from] = mark[msg[t].from]
        BY <1>3b, <2>3
  <2> QED
        BY <1>2, <2>2, <2>4 DEF Replied, Served
<1>8. Newest'
      BY <1>0, <1>2, <1>4 DEF IInv, Newest
<1>9. \A q \in Threads : Marks(q)'
  <2>1. Marks(p)'
    <3>0. Replied(slot[p]) /\ msg[slot[p]].from = p /\ msg[slot[p]].what = "op"
          BY <1>0 DEF IInv, CallInv, Waits
    <3>1. IF reply[slot[p]].err \in Success(p) THEN served[p] >= 1 /\ Served(p, 1) ELSE Served(p, 0)
          BY <1>1, <3>0 DEF Replied
    <3>2. mark[p] <= latest /\ mark[p] <= config /\ latest \in Nat /\ mark \in [Threads -> Nat]
          BY <1>0 DEF TypeOK, Marks
    <3> QED
          BY <1>0, <1>2, <1>3, <3>1, <3>2 DEF TypeOK, Marks, Served
  <2>2. ASSUME NEW q \in Threads, q # p PROVE Marks(q)'
    <3>1. pc[q] = "wait" => call'[slot'[q]] = call[slot[q]]
          BY <1>0, <1>1, <1>2, <1>4, <2>2, ClosedWaits
    <3>2. Marks(q) /\ mark'[q] = mark[q] /\ pc'[q] = pc[q]
          BY <1>3b, <1>4, <2>2 DEF IInv
    <3> QED
          BY <1>2, <3>1, <3>2 DEF Marks, Served
  <2> QED
        BY <2>1, <2>2
<1> QED
    BY <1>5, <1>6, <1>7, <1>8, <1>9 DEF IInv

LEMMA ServerFailsKeeps ==
    ASSUME IInv, NEW p \in Threads, ServerFails(p)
    PROVE  IInv'
<1>0. TypeOK /\ Waits(p) /\ Marks(p) /\ pc[p] = "wait" /\ slot[p] \in Slots
      BY DEF IInv, ServerFails, Waits
<1>1. RpcTypes' /\ Closed(p, slot[p]) /\ faults' \in 0..MaxFaults
      BY <1>0, CallFalseCloses, TypesRpc DEF ServerFails, TypeOK
<1>2. /\ UNCHANGED <<holder, config, latest, changes, served, mark>>
      /\ pc' = [pc EXCEPT ![p] = "call"] /\ idx' = [idx EXCEPT ![p] = idx[p] + 1]
      /\ lost' = IF msg[slot[p]].srv \in Dead THEN lost ELSE lost \cup {p}
      BY DEF ServerFails, NextServer, Goto, Server
<1>3. (\A q \in Callers \ {p} : pc'[q] = pc[q]) /\ pc'[p] = "call"
      BY <1>0, <1>2 DEF TypeOK
<1>4. call'[slot[p]] = "left" => p \in lost'
      BY <1>1, <1>2 DEF Closed
<1>5. \A q \in Callers : Waits(q)'
  <2>1. Waits(p)'
        BY <1>1, <1>3 DEF Waits, Closed
  <2> QED
        BY <1>0, <1>1, <1>2, <1>3, <2>1, ClosedWaits
<1>6. TypeOK'
  <2>1. /\ pc' \in [Callers -> {"idle", "mutex", "done"} \cup InLoop] /\ idx' \in [Callers -> Nat]
        /\ \A q \in Threads : holder' = q <=> pc'[q] \in InLoop
        BY <1>0, <1>2 DEF TypeOK, InLoop
  <2>2. lost' \subseteq Threads
        BY <1>0, <1>2 DEF TypeOK
  <2> QED
        BY <1>0, <1>1, <1>2, <1>5, <2>1, <2>2, TypesFrom DEF TypeOK
<1>7. CallInv'
  <2> SUFFICES ASSUME NEW t \in Slots PROVE (Owned(t) /\ Behind(t) /\ Replied(t))'
      BY DEF CallInv
  <2>1. changes \in Nat
        BY <1>0 DEF TypeOK
  <2>2. /\ Owned(t)' /\ Behind(t)'
        /\ call'[t] = "ran" => /\ call[t] = "ran" /\ Replied(t)
                               /\ msg[t].from \in Callers \ {p} /\ slot[msg[t].from] = t
                               /\ reply'[t] = reply[t] /\ msg'[t] = msg[t]
        BY <1>0, <1>1, <1>2, <1>4, <2>1, ClosedCalls
  <2> QED
        BY <1>2, <2>2 DEF Replied, Served
<1>8. Newest'
      BY <1>0, <1>2, <1>3 DEF IInv, Newest
<1>9. \A q \in Threads : Marks(q)'
  <2>1. Marks(p)'
    <3>1. ASSUME p \notin lost' PROVE served[p] = 0
      <4>1. msg[slot[p]].srv \in Dead /\ p \notin lost
            BY <1>2, <3>1
      <4>2. call[slot[p]] = "open" => served[p] = 0
            BY <1>0, <4>1 DEF Marks, Served
      <4>3. call[slot[p]] # "ran"
            BY <1>0, <4>1 DEF IInv, CallInv, Replied
      <4> QED
            BY <1>0, <4>2, <4>3 DEF Waits
    <3> QED
          BY <1>0, <1>2, <1>3, <3>1 DEF Marks, Served
  <2>2. ASSUME NEW q \in Threads, q # p PROVE Marks(q)'
    <3>1. pc[q] = "wait" => call'[slot'[q]] = call[slot[q]]
          BY <1>0, <1>1, <1>2, <1>3, <2>2, ClosedWaits
    <3>2. Marks(q) /\ pc'[q] = pc[q]
          BY <1>3, <2>2 DEF IInv
    <3> QED
          BY <1>2, <2>2, <3>1, <3>2 DEF Marks, Served
  <2> QED
        BY <2>1, <2>2
<1> QED
    BY <1>5, <1>6, <1>7, <1>8, <1>9 DEF IInv

LEMMA MasterFailsKeeps ==
    ASSUME IInv, NEW p \in Callers, MasterFails(p)
    PROVE  IInv'
<1>0. TypeOK /\ Waits(p) /\ pc[p] = "qwait" /\ slot[p] \in Slots
      BY DEF IInv, MasterFails, Waits
<1>1. RpcTypes' /\ Closed(p, slot[p]) /\ faults' \in 0..MaxFaults
      BY <1>0, CallFalseCloses, TypesRpc DEF MasterFails, TypeOK
<1>2. /\ UNCHANGED <<holder, config, latest, changes, served, lost, mark>>
      /\ pc' = [pc EXCEPT ![p] = "query"] /\ idx' = [idx EXCEPT ![p] = idx[p] + 1]
      BY DEF MasterFails, Goto, Server, history
<1>3. (\A q \in Callers \ {p} : pc'[q] = pc[q]) /\ pc'[p] = "query"
      BY <1>0, <1>2 DEF TypeOK
<1>4. msg[slot[p]].what # "op"
      BY <1>0 DEF Waits
<1>5. \A q \in Callers : Waits(q)'
  <2>1. Waits(p)'
        BY <1>1, <1>3 DEF Waits, Closed
  <2> QED
        BY <1>0, <1>1, <1>2, <1>3, <2>1, ClosedWaits
<1>6. TypeOK'
  <2>1. /\ pc' \in [Callers -> {"idle", "mutex", "done"} \cup InLoop] /\ idx' \in [Callers -> Nat]
        BY PcType, <1>0, <1>2 DEF InLoop
  <2>2. \A q \in Threads : holder' = q <=> pc'[q] \in InLoop
        BY <1>0, <1>2, <1>3 DEF TypeOK, InLoop
  <2> QED
        BY <1>0, <1>1, <1>2, <1>5, <2>1, <2>2, TypesFrom DEF TypeOK
<1>7. CallInv'
  <2> SUFFICES ASSUME NEW t \in Slots PROVE (Owned(t) /\ Behind(t) /\ Replied(t))'
      BY DEF CallInv
  <2>1. changes \in Nat
        BY <1>0 DEF TypeOK
  <2>2. /\ Owned(t)' /\ Behind(t)'
        /\ call'[t] = "ran" => /\ call[t] = "ran" /\ Replied(t)
                               /\ msg[t].from \in Callers \ {p} /\ slot[msg[t].from] = t
                               /\ reply'[t] = reply[t] /\ msg'[t] = msg[t]
        BY <1>0, <1>1, <1>2, <1>4, <2>1, ClosedCalls
  <2> QED
        BY <1>2, <2>2 DEF Replied, Served
<1>8. Newest'
      BY <1>0, <1>2, <1>3 DEF IInv, Newest
<1>9. \A q \in Threads : Marks(q)'
  <2>1. p \in Threads => Marks(p)'
        BY <1>0, <1>2, <1>3 DEF IInv, Marks, Served
  <2>2. ASSUME NEW q \in Threads, q # p PROVE Marks(q)'
    <3>1. pc[q] = "wait" => call'[slot'[q]] = call[slot[q]]
          BY <1>0, <1>1, <1>2, <1>3, <2>2, ClosedWaits
    <3>2. Marks(q) /\ pc'[q] = pc[q]
          BY <1>3, <2>2 DEF IInv
    <3> QED
          BY <1>2, <2>2, <3>1, <3>2 DEF Marks, Served
  <2> QED
        BY <2>1, <2>2
<1> QED
    BY <1>5, <1>6, <1>7, <1>8, <1>9 DEF IInv

LEMMA MasterAnswersKeeps ==
    ASSUME IInv, NEW p \in Callers, MasterAnswers(p)
    PROVE  IInv'
<1>0. TypeOK /\ Waits(p) /\ pc[p] = "qwait" /\ slot[p] \in Slots
      BY DEF IInv, MasterAnswers, Waits
<1>1. RpcTypes' /\ Closed(p, slot[p]) /\ call[slot[p]] = "ran" /\ call'[slot[p]] = "idle"
      BY <1>0, CallTrueCloses, TypesRpc DEF MasterAnswers
<1>2. /\ UNCHANGED <<holder, latest, faults, served, lost, mark>>
      /\ idx' = [idx EXCEPT ![p] = 1]
      /\ IF p = Admin THEN /\ changes' = changes + 1 /\ pc' = [pc EXCEPT ![p] = "idle"]
                           /\ config' = config
                      ELSE /\ config' = reply[slot[p]].config /\ pc' = [pc EXCEPT ![p] = "round"]
                           /\ changes' = changes
      BY DEF MasterAnswers, Goto, Server, history
<1>3. /\ \A q \in Callers \ {p} : pc'[q] = pc[q] /\ (q = Admin => changes' = changes)
      /\ pc'[p] = IF p = Admin THEN "idle" ELSE "round"
      BY <1>0, <1>2 DEF TypeOK
<1>4. /\ Replied(slot[p]) /\ msg[slot[p]].from = p
      /\ p = Admin => changes + 1 <= latest
      /\ p # Admin => /\ mark[p] <= config' /\ config <= config' /\ config' <= latest
                      /\ config' \in 0..(Len(Configs) - 1)
  <2>1. Replied(slot[p]) /\ msg[slot[p]].from = p
        BY <1>0 DEF IInv, CallInv, Waits
  <2>2. ASSUME p = Admin PROVE changes + 1 <= latest
        BY <1>0, <1>1, <2>1, <2>2 DEF Replied, Waits
  <2>3. ASSUME p # Admin PROVE /\ mark[p] <= config' /\ config <= config' /\ config' <= latest
                               /\ config' \in 0..(Len(Configs) - 1)
    <3>1. config' = reply[slot[p]].config /\ msg[slot[p]].what = "query"
          BY <1>0, <1>2, <2>3 DEF Waits
    <3>2. reply[slot[p]].config \in 0..(Len(Configs) - 1)
          BY <1>0 DEF TypeOK
    <3> QED
          BY <1>1, <2>1, <3>1, <3>2 DEF Replied
  <2> QED
        BY <2>1, <2>2, <2>3
<1>5. \A q \in Callers : Waits(q)'
  <2>1. Waits(p)'
        BY <1>1, <1>3 DEF Waits, Closed
  <2> QED
        BY <1>0, <1>1, <1>3, <2>1, ClosedWaits
<1>6. changes' \in 0..(Len(Configs) - 1) /\ changes \in Nat /\ changes <= changes'
      BY <1>0, <1>2, <1>4 DEF TypeOK
<1>7. TypeOK'
  <2>1. PICK at \in {"idle", "round"} : pc' = [pc EXCEPT ![p] = at]
        BY <1>2
  <2>1a. pc' \in [Callers -> {"idle", "mutex", "done"} \cup InLoop]
        BY <1>0, <2>1 DEF TypeOK, InLoop
  <2>1b. idx' \in [Callers -> Nat]
        BY <1>0, <1>2 DEF TypeOK
  <2>0. config' \in 0..(Len(Configs) - 1)
        BY <1>0, <1>2, <1>4 DEF TypeOK
  <2>2. \A q \in Threads : holder' = q <=> pc'[q] \in InLoop
        BY <1>0, <1>2, <1>3 DEF TypeOK, InLoop
  <2> QED
        BY <1>0, <1>1, <1>2, <1>5, <1>6, <2>0, <2>1a, <2>1b, <2>2, TypesFrom DEF TypeOK
<1>8. CallInv'
  <2> SUFFICES ASSUME NEW t \in Slots PROVE (Owned(t) /\ Behind(t) /\ Replied(t))'
      BY DEF CallInv
  <2>1. msg[slot[p]].what # "op"
        BY <1>0 DEF Waits
  <2>2. /\ Owned(t)' /\ Behind(t)'
        /\ call'[t] = "ran" => /\ call[t] = "ran" /\ Replied(t)
                               /\ msg[t].from \in Callers \ {p} /\ slot[msg[t].from] = t
                               /\ reply'[t] = reply[t] /\ msg'[t] = msg[t]
        BY <1>0, <1>1, <1>2, <1>6, <2>1, ClosedCalls
  <2>3. call'[t] = "ran" /\ msg[t].what = "query" => config' = config
    <3> SUFFICES ASSUME call'[t] = "ran", msg[t].what = "query", p # Admin
                 PROVE  FALSE
        BY <1>2
    <3>1. PICK q \in Callers \ {p} : q = msg[t].from /\ slot[q] = t
          BY <2>2
    <3>2. Waits(q)
          BY DEF IInv
    <3>3. pc[q] = "qwait" /\ q \in Threads
          BY <3>1, <3>2 DEF Waits
    <3>4. holder = q /\ holder = p
          BY <1>0, <3>3 DEF TypeOK, InLoop
    <3> QED
        BY <3>4
  <2> QED
        BY <1>2, <2>2, <2>3 DEF Replied, Served
<1>9. Newest'
      BY <1>0, <1>2, <1>3, <1>4 DEF IInv, Newest, TypeOK
<1>10. \A q \in Threads : Marks(q)'
  <2>1. p \in Threads => Marks(p)'
        BY <1>0, <1>2, <1>3, <1>4 DEF IInv, Marks, Served
  <2>2. ASSUME NEW q \in Threads, q # p PROVE Marks(q)'
    <3>1. pc[q] = "wait" => call'[slot'[q]] = call[slot[q]]
          BY <1>0, <1>1, <1>3, <2>2, ClosedWaits
    <3>2. Marks(q) /\ pc'[q] = pc[q] /\ mark[q] \in Nat /\ config \in Nat /\ config' \in Nat
          BY <1>0, <1>3, <1>7, <2>2 DEF IInv, TypeOK
    <3>3. config <= config'
          BY <1>2, <1>4, <3>2
    <3> QED
          BY <1>2, <3>1, <3>2, <3>3 DEF Marks, Served
  <2> QED
        BY <2>1, <2>2
<1> QED
    BY <1>5, <1>7, <1>8, <1>9, <1>10 DEF IInv

-----------------------------------------------------------------------------
(***************************************************************************)
(* Handlers run, in time or late.                                          *)
(***************************************************************************)
LEMMA HandleChanges ==
    ASSUME IInv, NEW s \in Slots, call[s] \in {"open", "left"}, Handle(s)
    PROVE  /\ msg[s].srv \notin Dead
           /\ UNCHANGED <<pc, idx, servers, slot, holder, config, changes, lost, mark>>
           /\ faults' \in 0..MaxFaults
           /\ latest' \in 0..(Len(Configs) - 1) /\ latest <= latest'
           /\ served' \in [Threads -> 0..2]
           /\ \A q \in Threads : /\ served[q] <= served'[q]
                                 /\ served'[q] # served[q] => msg[s].what = "op" /\ q = msg[s].from
           /\ reply' \in [Slots -> [err : Errs, config : Numbers]]
           /\ \A t \in Slots \ {s} : reply'[t] = reply[t]
<1> USE NoReplyType
<1>0. /\ TypeOK /\ Behind(s)
      /\ reply \in [Slots -> [err : Errs, config : Numbers]] /\ served \in [Threads -> 0..2]
      /\ latest \in 0..(Len(Configs) - 1) /\ faults \in 0..MaxFaults
      BY DEF IInv, CallInv, TypeOK
<1>0a. latest \in Nat /\ latest <= latest /\ \A q \in Threads : served[q] <= served[q]
      BY <1>0
<1>1. /\ msg[s].srv \notin Dead
      /\ UNCHANGED <<pc, idx, servers, slot, holder, config, changes, lost, mark>>
      BY DEF Handle, clerkVars
<1>2. CASE HandleOp(s)
  <2>1. PICK err \in Success(msg[s].from) \cup {"ErrWrongGroup", "other"} :
          /\ faults' \in {faults, faults + 1} /\ (faults' = faults \/ faults < MaxFaults)
          /\ Replies(s, [NoReply EXCEPT !.err = err])
          /\ served' = IF err \in Success(msg[s].from)
                         THEN [served EXCEPT ![msg[s].from] = IF @ < 2 THEN @ + 1 ELSE @]
                         ELSE served
        BY <1>2 DEF HandleOp
  <2>2. latest' = latest /\ msg[s].what = "op" /\ msg[s].from \in Threads
        BY <1>0, <1>2 DEF HandleOp, Behind
  <2>3. faults' \in 0..MaxFaults
        BY <1>0, <2>1
  <2>4. [NoReply EXCEPT !.err = err] \in [err : Errs, config : Numbers]
        BY DEF Success, NoReply, Errs
  <2>5. PICK r \in [err : Errs, config : Numbers] : reply' = [reply EXCEPT ![s] = r]
        BY <2>1, <2>4 DEF Replies
  <2>6. /\ served' \in [Threads -> 0..2]
        /\ \A q \in Threads : served[q] <= served'[q] /\ (served'[q] # served[q] => q = msg[s].from)
    <3>1. CASE served' = served
          BY <1>0, <1>0a, <3>1
    <3>2. CASE served' = [served EXCEPT ![msg[s].from] = IF @ < 2 THEN @ + 1 ELSE @]
          BY <1>0, <2>2, <3>2
    <3> QED
          BY <2>1, <3>1, <3>2
  <2> QED
        BY <1>0, <1>0a, <1>1, <2>2, <2>3, <2>5, <2>6
<1>3. CASE HandleQuery(s)
  <2>1. PICK r \in [err : Errs, config : Numbers] : reply' = [reply EXCEPT ![s] = r]
    <3>1. [NoReply EXCEPT !.config = latest] \in [err : Errs, config : Numbers]
          BY <1>0 DEF NoReply, Errs
    <3> QED
          BY <1>3, <3>1 DEF HandleQuery, Replies
  <2>2. UNCHANGED <<latest, faults, served>>
        BY <1>3 DEF HandleQuery
  <2> QED
        BY <1>0, <1>0a, <1>1, <2>1, <2>2
<1>4. CASE HandleChange(s)
  <2>1. UNCHANGED <<reply, faults, served>> /\ msg[s].what = "change"
        BY <1>4 DEF HandleChange
  <2>2. latest' \in 0..(Len(Configs) - 1) /\ latest <= latest'
        BY <1>0, <1>0a, <1>4, <2>1 DEF HandleChange, Behind
  <2> QED
        BY <1>0, <1>0a, <1>1, <2>1, <2>2
<1> QED
    BY <1>2, <1>3, <1>4 DEF Handle

LEMMA RunKeeps ==
    ASSUME IInv, NEW s \in Slots, Run(s)
    PROVE  IInv'
<1>0. TypeOK /\ Owned(s) /\ Behind(s)
      BY DEF IInv, CallInv
<1>1. /\ call[s] = "open" /\ call' = [call EXCEPT ![s] = "ran"] /\ msg' = msg /\ Handle(s)
      /\ call'[s] = "ran" /\ \A t \in Slots \ {s} : call'[t] = call[t]
      BY <1>0 DEF Run, Rpc!Run, Rpc!Move, TypeOK, Rpc!TypeOK
<1>2. /\ msg[s].srv \notin Dead
      /\ UNCHANGED <<pc, idx, servers, slot, holder, config, changes, lost, mark>>
      /\ faults' \in 0..MaxFaults
      /\ latest' \in 0..(Len(Configs) - 1) /\ latest <= latest'
      /\ served' \in [Threads -> 0..2]
      /\ \A q \in Threads : /\ served[q] <= served'[q]
                            /\ served'[q] # served[q] => msg[s].what = "op" /\ q = msg[s].from
      /\ reply' \in [Slots -> [err : Errs, config : Numbers]]
      /\ \A t \in Slots \ {s} : reply'[t] = reply[t]
      BY <1>1, HandleChanges
<1>3. \E q \in Callers : msg[s].from = q /\ slot[q] = s /\ Waits(q)
      BY <1>0, <1>1 DEF IInv, Owned
<1>4. PICK p \in Callers : msg[s].from = p /\ slot[p] = s /\ Waits(p)
      BY <1>3
<1>5. pc[p] \in {"wait", "qwait"}
      BY <1>4 DEF Waits
<1>6. RpcTypes'
      BY <1>0, <1>1, <1>2 DEF TypeOK, RpcTypes, Rpc!TypeOK
<1>7. \A q \in Callers : Waits(q)'
  <2> SUFFICES ASSUME NEW q \in Callers PROVE Waits(q)'
      OBVIOUS
  <2>1. Waits(q) /\ (call[slot[q]] \in {"open", "ran"} /\ slot[q] \in Slots
                       => call'[slot[q]] \in {"open", "ran"})
        BY <1>1 DEF IInv
  <2> QED
        BY <1>1, <1>2, <2>1 DEF Waits
<1>8. TypeOK'
      BY <1>0, <1>2, <1>6, <1>7, TypesFrom DEF TypeOK
<1>9. /\ latest \in Nat /\ latest' \in Nat /\ changes \in Nat /\ config \in Nat
      /\ \A q \in Threads : mark[q] \in Nat /\ served[q] \in Nat /\ served'[q] \in Nat
  <2>1. latest' \in Nat /\ \A q \in Threads : served'[q] \in 0..2
        BY <1>2
  <2> QED
        BY <1>0, <2>1, NumberTypes
<1>10. Replied(s)'
  <2>1. CASE msg[s].what = "op"
    <3>1. pc[p] = "wait" /\ p \in Threads
          BY <1>4, <1>5, <2>1 DEF Waits
    <3>2. Served(p, 0)
          BY <1>1, <1>4, <3>1 DEF IInv, Marks
    <3>3. PICK err \in Success(p) \cup {"ErrWrongGroup", "other"} :
            /\ reply' = [reply EXCEPT ![s] = [NoReply EXCEPT !.err = err]]
            /\ served' = IF err \in Success(p)
                           THEN [served EXCEPT ![p] = IF @ < 2 THEN @ + 1 ELSE @]
                           ELSE served
          BY <1>1, <1>4, <2>1 DEF Handle, HandleOp, HandleQuery, HandleChange, Replies
    <3>4. reply'[s].err = err
          BY <1>0, <3>3 DEF TypeOK, NoReply
    <3>5. IF err \in Success(p) THEN served'[p] >= 1 /\ (p \notin lost => served'[p] = 1)
                                ELSE p \notin lost => served'[p] = 0
      <4>1. CASE err \in Success(p)
        <5>1. served'[p] = IF served[p] < 2 THEN served[p] + 1 ELSE served[p]
              BY <1>0, <3>1, <3>3, <4>1 DEF TypeOK
        <5> QED
              BY <1>9, <3>1, <3>2, <4>1, <5>1 DEF Served
      <4>2. CASE err \notin Success(p)
            BY <3>2, <3>3, <4>2 DEF Served
      <4> QED
            BY <4>1, <4>2
    <3>6. Success(p)' = Success(p)
          BY DEF Success
    <3> QED
          BY <1>1, <1>2, <1>4, <2>1, <3>4, <3>5, <3>6 DEF Replied, Served
  <2>2. CASE msg[s].what = "query"
    <3>1. p \in Threads
          BY <1>4, <1>5, <2>2 DEF Waits
    <3>2. reply' = [reply EXCEPT ![s] = [NoReply EXCEPT !.config = latest]] /\ latest' = latest
          BY <1>1, <2>2 DEF Handle, HandleOp, HandleQuery, HandleChange, Replies
    <3>3. reply'[s].config = latest
          BY <1>0, <3>2 DEF TypeOK, NoReply
    <3>4. mark[p] <= latest /\ config <= latest
          BY <3>1 DEF IInv, Marks, Newest
    <3> QED
          BY <1>1, <1>2, <1>4, <1>9, <2>2, <3>1, <3>2, <3>3, <3>4 DEF Replied
  <2>3. CASE msg[s].what = "change"
    <3>1. latest' = IF msg[s].n = latest + 1 THEN msg[s].n ELSE latest
          BY <1>1, <2>3 DEF Handle, HandleOp, HandleQuery, HandleChange
    <3>2. msg[s].n \in Nat /\ msg[s].n <= changes + 1 /\ changes <= latest
          BY <1>0, <1>1, <2>3 DEF IInv, Behind, Newest
    <3>3. msg[s].n <= latest'
          BY <1>9, <3>1, <3>2
    <3> QED
          BY <1>1, <1>2, <2>3, <3>3 DEF Replied
  <2> QED
        BY <1>1, <2>1, <2>2, <2>3 DEF Handle, HandleOp, HandleQuery, HandleChange
<1>11. CallInv'
  <2> SUFFICES ASSUME NEW t \in Slots PROVE (Owned(t) /\ Behind(t) /\ Replied(t))'
      BY DEF CallInv
  <2>1. Owned(t) /\ Behind(t) /\ Replied(t)
        BY DEF IInv, CallInv
  <2>2. CASE t = s
        BY <1>0, <1>1, <1>2, <1>10, <2>2 DEF Owned, Behind
  <2>3. CASE t # s
    <3>1. call'[t] = call[t] /\ msg' = msg /\ reply'[t] = reply[t]
          BY <1>1, <1>2, <2>3
    <3>2. Owned(t)' /\ Behind(t)'
          BY <1>2, <2>1, <3>1 DEF Owned, Behind
    <3>3. call[t] = "ran" /\ msg[t].what = "op" => /\ msg[t].from \in Threads \ {p}
                                                   /\ served'[msg[t].from] = served[msg[t].from]
          BY <1>2, <1>4, <2>1, <2>3 DEF Owned, Behind
    <3>4. call[t] = "ran" /\ msg[t].what = "query" => /\ reply[t].config <= latest'
      <4>1. reply[t].config \in Nat
            BY <1>0 DEF TypeOK
      <4> QED
            BY <1>2, <1>9, <2>1, <4>1 DEF Replied
    <3>5. call[t] = "ran" /\ msg[t].what = "change" => msg[t].n <= latest'
          BY <1>2, <1>9, <2>1 DEF Replied, Behind
    <3>6. Replied(t)'
          BY <1>2, <2>1, <3>1, <3>3, <3>4, <3>5 DEF Replied, Served, Success
    <3> QED
          BY <3>2, <3>6
  <2> QED
        BY <2>2, <2>3
<1>12. Newest'
      BY <1>2, <1>9 DEF IInv, Newest
<1>13. \A q \in Threads : Marks(q)'
  <2> SUFFICES ASSUME NEW q \in Threads PROVE Marks(q)'
      OBVIOUS
  <2>1. Marks(q) /\ Waits(q) /\ mark[q] <= latest'
        BY <1>2, <1>9 DEF IInv, Marks
  <2>2. CASE q = p
    <3>1. CASE pc[p] = "wait"
          BY <1>1, <1>2, <1>4, <2>1, <2>2, <3>1 DEF Marks
    <3>2. CASE pc[p] = "qwait"
      <4>1. msg[s].what # "op"
            BY <1>4, <3>2 DEF Waits
      <4>2. served'[p] = served[p]
            BY <1>2, <2>2, <4>1
      <4> QED
            BY <1>2, <2>1, <2>2, <3>2, <4>2 DEF Marks, Served
    <3> QED
          BY <1>5, <3>1, <3>2
  <2>3. CASE q # p
    <3>1. served'[q] = served[q]
          BY <1>2, <1>4, <2>3
    <3>2. pc[q] = "wait" => call'[slot[q]] = call[slot[q]]
          BY <1>1, <1>4, <2>1, <2>3 DEF Waits
    <3> QED
          BY <1>2, <2>1, <3>1, <3>2 DEF Marks, Served
  <2> QED
        BY <2>2, <2>3
<1> QED
    BY <1>7, <1>8, <1>11, <1>12, <1>13 DEF IInv

LEMMA RunLateKeeps ==
    ASSUME IInv, NEW s \in Slots, RunLate(s)
    PROVE  IInv'
<1>0. TypeOK /\ Behind(s)
      BY DEF IInv, CallInv
<1>1. /\ call[s] = "left" /\ call' = [call EXCEPT ![s] = "idle"] /\ Handle(s)
      /\ msg' = [msg EXCEPT ![s] = NoMsg]
      BY DEF RunLate, Over, Rpc!Move
<1>2. /\ call'[s] = "idle"
      /\ \A t \in Slots \ {s} : call'[t] = call[t] /\ msg'[t] = msg[t]
      BY <1>0, <1>1 DEF TypeOK, Rpc!TypeOK
<1>3. /\ UNCHANGED <<pc, idx, servers, slot, holder, config, changes, lost, mark>>
      /\ faults' \in 0..MaxFaults
      /\ latest' \in 0..(Len(Configs) - 1) /\ latest <= latest'
      /\ served' \in [Threads -> 0..2]
      /\ \A q \in Threads : /\ served[q] <= served'[q]
                            /\ served'[q] # served[q] => msg[s].what = "op" /\ q = msg[s].from
      /\ reply' \in [Slots -> [err : Errs, config : Numbers]]
      /\ \A t \in Slots \ {s} : reply'[t] = reply[t]
      BY <1>1, HandleChanges
<1>4. \A q \in Threads : served'[q] # served[q] => q \in lost
      BY <1>0, <1>1, <1>3 DEF Behind
<1>5. latest' \in Nat /\ \A q \in Threads : served'[q] \in 0..2
      BY <1>3
<1>6. /\ latest \in Nat /\ latest' \in Nat /\ changes \in Nat /\ config \in Nat
      /\ \A q \in Threads : mark[q] \in Nat /\ served[q] \in Nat /\ served'[q] \in Nat
      BY <1>0, <1>5, NumberTypes
<1>7. RpcTypes'
      BY <1>0, <1>1, <1>3 DEF TypeOK, RpcTypes, Rpc!TypeOK
<1>8. \A q \in Callers : Waits(q)'
  <2> SUFFICES ASSUME NEW q \in Callers PROVE Waits(q)'
      OBVIOUS
  <2>1. Waits(q)
        BY DEF IInv
  <2>2. pc[q] \in {"wait", "qwait"} => slot[q] \in Slots \ {s}
        BY <1>1, <2>1 DEF Waits
  <2> QED
        BY <1>2, <1>3, <2>1, <2>2 DEF Waits
<1>9. TypeOK'
      BY <1>0, <1>3, <1>7, <1>8, TypesFrom DEF TypeOK
<1>10. CallInv'
  <2> SUFFICES ASSUME NEW t \in Slots PROVE (Owned(t) /\ Behind(t) /\ Replied(t))'
      BY DEF CallInv
  <2>1. Owned(t) /\ Behind(t) /\ Replied(t)
        BY DEF IInv, CallInv
  <2>2. CASE t = s
        BY <1>2, <2>2 DEF Owned, Behind, Replied
  <2>3. CASE t # s
    <3>1. call'[t] = call[t] /\ msg'[t] = msg[t] /\ reply'[t] = reply[t]
          BY <1>2, <1>3, <2>3
    <3>2. Owned(t)' /\ Behind(t)'
          BY <1>3, <2>1, <3>1 DEF Owned, Behind
    <3>3. call[t] = "ran" /\ msg[t].what = "op" =>
            /\ msg[t].from \in Threads /\ served[msg[t].from] <= served'[msg[t].from]
            /\ msg[t].from \notin lost => served'[msg[t].from] = served[msg[t].from]
          BY <1>3, <1>4, <2>1 DEF Behind
    <3>4. call[t] = "ran" /\ msg[t].what = "query" => reply[t].config <= latest'
      <4>1. reply[t].config \in Nat
            BY <1>0 DEF TypeOK
      <4> QED
            BY <1>3, <1>6, <2>1, <4>1 DEF Replied
    <3>5. call[t] = "ran" /\ msg[t].what = "change" => msg[t].n <= latest'
          BY <1>3, <1>6, <2>1 DEF Replied, Behind
    <3>6. call[t] = "ran" /\ msg[t].what = "op" /\ reply[t].err \in Success(msg[t].from)
            => served'[msg[t].from] >= 1
          BY <1>6, <2>1, <3>3 DEF Replied
    <3>7. Replied(t)'
          BY <1>3, <2>1, <3>1, <3>3, <3>4, <3>5, <3>6 DEF Replied, Served, Success
    <3> QED
          BY <3>2, <3>7
  <2> QED
        BY <2>2, <2>3
<1>11. Newest'
      BY <1>3, <1>6 DEF IInv, Newest
<1>12. \A q \in Threads : Marks(q)'
  <2> SUFFICES ASSUME NEW q \in Threads PROVE Marks(q)'
      OBVIOUS
  <2>1. Marks(q) /\ Waits(q)
        BY DEF IInv
  <2>2. mark[q] <= latest' /\ (pc[q] = "done" => served'[q] >= 1)
        BY <1>3, <1>6, <2>1 DEF Marks
  <2>3. \A n : Served(q, n) => Served(q, n)'
        BY <1>3, <1>4 DEF Served
  <2>4. pc[q] = "wait" => call'[slot[q]] = call[slot[q]]
        BY <1>1, <1>2, <2>1 DEF Waits
  <2> QED
        BY <1>3, <2>1, <2>2, <2>3, <2>4 DEF Marks
<1> QED
    BY <1>8, <1>9, <1>10, <1>11, <1>12 DEF IInv

-----------------------------------------------------------------------------
(***************************************************************************)
(* The theorems.                                                           *)
(***************************************************************************)
LEMMA StutterKeeps == ASSUME IInv, UNCHANGED vars PROVE IInv'
<1>1. UNCHANGED <<call, msg, reply, pc, idx, servers, slot, holder, config, latest, changes,
                  faults, served, lost, mark>>
      BY DEF vars, rpcVars, clerkVars, history
<1> QED
    BY <1>1 DEF IInv, TypeOK, Rpc!TypeOK, Waits, CallInv, Owned, Behind, Replied, Newest,
                Marks, Served, Success

LEMMA StepIInv == IInv /\ [Next]_vars => IInv'
<1> SUFFICES ASSUME IInv, [Next]_vars PROVE IInv'
    OBVIOUS
<1>1. CASE Change
      BY <1>1, ChangeKeeps
<1>2. ASSUME NEW p \in Callers, Ask(p) PROVE IInv'
      BY <1>2, CallMasterKeeps, MasterAnswersKeeps, MasterFailsKeeps, NoMasterLeftKeeps DEF Ask
<1>3. ASSUME NEW p \in Threads, Begin(p) \/ Thread(p) PROVE IInv'
      BY <1>2, <1>3, BeginKeeps, LockMuKeeps, RoundKeeps, NoServerLeftKeeps, CallServerKeeps,
         ServerAnswersKeeps, ServerFailsKeeps DEF Thread
<1>4. ASSUME NEW s \in Slots, Run(s) \/ RunLate(s) PROVE IInv'
      BY <1>4, RunKeeps, RunLateKeeps
<1>5. CASE UNCHANGED vars
      BY <1>5, StutterKeeps
<1> QED
    BY <1>1, <1>2, <1>3, <1>4, <1>5 DEF Next

LEMMA Inductive == Spec => []IInv
BY InitIInv, StepIInv, PTL DEF Spec

\* A caller waits exactly for the call it opened, and the mutex is held exactly
\* by the goroutine in the retry loop.
THEOREM ClerkTypeInvariant == Spec => []TypeOK
<1>1. IInv => TypeOK
      BY DEF IInv
<1> QED
    BY <1>1, Inductive, PTL

\* Get, PutAppend, Join, Leave and Move return only when what they asked for has
\* been done, whichever calls are lost, late or answered wrongly.
THEOREM ReturnsAreTrue == Spec => []ReturnedMeansRun
<1>1. IInv => ReturnedMeansRun
      BY DEF IInv, Marks, Newest, ReturnedMeansRun
<1> QED
    BY <1>1, Inductive, PTL

\* An operation of which no call to a live server failed has been served at most
\* once: the retry loop alone never makes it happen twice.
THEOREM ServedOnceUnlessLost == Spec => []OnceUnlessLost
<1>1. IInv => OnceUnlessLost
  <2> SUFFICES ASSUME IInv, NEW p \in Threads, served[p] > 1, p \notin lost PROVE FALSE
      BY DEF OnceUnlessLost
  <2>1. Marks(p) /\ Waits(p) /\ (pc[p] = "wait" => Replied(slot[p]))
        BY DEF IInv, CallInv, Waits
  <2>2. served[p] # 0 /\ served[p] # 1
        OBVIOUS
  <2>3. pc[p] = "wait" /\ call[slot[p]] = "ran"
        BY <2>1, <2>2 DEF Marks, Served, Waits
  <2> QED
        BY <2>1, <2>2, <2>3 DEF Replied, Served, Waits
<1> QED
    BY <1>1, Inductive, PTL

\* No round of the retry loop uses a configuration that was older than the newest
\* one when the round before it failed.
THEOREM RoundsAreFresh == Spec => []FreshRounds
<1>1. IInv => FreshRounds
      BY DEF IInv, TypeOK, Marks, FreshRounds
<1> QED
    BY <1>1, Inductive, PTL

\* The configuration of a clerk that goroutines share never goes backward.
THEOREM ConfigGrows == Spec => ConfigNeverBackward
<1>1. ASSUME IInv, [Next]_vars PROVE [config' >= config]_vars
  <2>1. config \in Nat
        BY <1>1 DEF IInv, TypeOK
  <2>2. ASSUME NEW p \in Threads, MasterAnswers(p) PROVE config' >= config
    <3>1. Waits(p) /\ pc[p] = "qwait" /\ slot[p] \in Slots /\ RpcTypes
          BY <1>1, <2>2, TypesRpc DEF IInv, MasterAnswers, Waits
    <3>2. call[slot[p]] = "ran" /\ config' = reply[slot[p]].config
      <4>1. p # Admin /\ CallTrue(p) /\ p \in Callers
            BY <2>2 DEF MasterAnswers
      <4>2. config' = reply[slot[p]].config
            BY <2>2, <4>1 DEF MasterAnswers
      <4>3. call[slot[p]] = "ran"
            BY <3>1, <4>1, CallTrueCloses
      <4> QED
            BY <4>2, <4>3
    <3>3. Replied(slot[p]) /\ msg[slot[p]].what = "query"
      <4>1. CallInv
            BY <1>1 DEF IInv
      <4>2. Replied(slot[p])
            BY <3>1, <4>1 DEF CallInv
      <4>3. p # Admin
            BY <2>2
      <4> QED
            BY <3>1, <4>2, <4>3 DEF Waits
    <3>4. config' \in Nat
      <4>1. config' \in Numbers
            BY <3>1, <3>2 DEF RpcTypes
      <4> QED
            BY <4>1
    <3> QED
          BY <2>1, <3>2, <3>3, <3>4 DEF Replied
  <2>3. CASE \E p \in Threads : MasterAnswers(p)
        BY <2>2, <2>3
  <2>4. CASE Next /\ ~\E p \in Threads : MasterAnswers(p)
    <3>1. UNCHANGED config
          BY <2>4 DEF Next, Change, Ask, CallMaster, MasterAnswers, MasterFails, NoMasterLeft,
             Begin, Thread, LockMu, Round, NoServerLeft, CallServer, ServerAnswers, ServerFails,
             Run, RunLate, Handle, clerkVars
    <3> QED
          BY <2>1, <3>1
  <2>5. CASE UNCHANGED vars
        BY <2>5
  <2> QED
        BY <1>1, <2>3, <2>4, <2>5
<1> QED
    BY <1>1, Inductive, PTL DEF Spec, ConfigNeverBackward

-----------------------------------------------------------------------------
(***************************************************************************)
(* The clerk implements ShardOps.  The state of an operation is all that   *)
(* is seen of its goroutine's place in the loop.                           *)
(***************************************************************************)
State == [q \in Threads |-> Seen(pc[q])]

\* No more than one change is made that has not returned.
Asked == latest <= changes + 1

LEMMA Moved ==
    ASSUME NEW p \in Threads, \A q \in Threads \ {p} : pc'[q] = pc[q]
    PROVE  State' = [State EXCEPT ![p] = Seen(pc'[p])]
BY DEF State

LEMMA Still ==
    ASSUME \A q \in Threads : pc'[q] = pc[q] \/ {pc[q], pc'[q]} \subseteq InLoop
    PROVE  State' = State
BY DEF State, Seen, InLoop

LEMMA LoopSeen ==
    /\ Seen("idle") = "idle" /\ Seen("mutex") = "waiting" /\ Seen("done") = "done"
    /\ \A at \in InLoop : Seen(at) = "running"
BY DEF InLoop, Seen

LEMMA StateOf == \A q \in Threads : State[q] = Seen(pc[q])
BY DEF State

LEMMA OpsUnseen ==
    ASSUME State' = State, UNCHANGED <<served, lost, config, latest, changes>>
    PROVE  UNCHANGED Ops!vars
BY DEF Ops!vars, State

LEMMA InitOps == Init => Ops!Init
BY DEF Init, Ops!Init, Seen

\* Steps that a caller makes between its calls, and those that begin one.
LEMMA LoopStepImplements ==
    ASSUME IInv, NEW p \in Callers,
           \/ p \in Threads /\ (Round(p) \/ NoServerLeft(p) \/ CallServer(p))
           \/ CallMaster(p) \/ NoMasterLeft(p) \/ MasterFails(p)
           \/ p = Admin /\ Change
    PROVE  UNCHANGED Ops!vars
<1>1. UNCHANGED <<served, lost, config, latest, changes>>
      BY DEF Round, NoServerLeft, CallServer, CallMaster, NoMasterLeft, MasterFails, Change,
             EndRound, history
<1>2. \/ pc' = pc
      \/ \E at \in InLoop : pc' = [pc EXCEPT ![p] = at] /\ (p = Admin \/ pc[p] \in InLoop)
      BY DEF Round, NoServerLeft, CallServer, CallMaster, NoMasterLeft, MasterFails, Change,
             EndRound, Goto, InLoop
<1>3. \A q \in Threads : pc'[q] = pc[q] \/ {pc[q], pc'[q]} \subseteq InLoop
      BY <1>2 DEF IInv, TypeOK
<1>4. State' = State
      BY <1>3, Still
<1> QED
    BY <1>1, <1>4, OpsUnseen

LEMMA EnterImplements ==
    ASSUME IInv, NEW p \in Threads
    PROVE  (Begin(p) => Ops!Call(p)) /\ (LockMu(p) => Ops!Enter(p))
<1>0. TypeOK
      BY DEF IInv
<1>1. ASSUME Begin(p) PROVE Ops!Call(p)
  <2>0. pc[p] = "idle" /\ pc'[p] = "mutex" /\ \A q \in Threads \ {p} : pc'[q] = pc[q]
        BY <1>0, <1>1 DEF Begin, Goto, TypeOK
  <2>1. State[p] = "idle" /\ State' = [State EXCEPT ![p] = "waiting"]
        BY <2>0, Moved, LoopSeen, StateOf
  <2> QED
        BY <1>1, <2>1 DEF Begin, history, Ops!Call, Ops!Moves, State
<1>2. ASSUME LockMu(p) PROVE Ops!Enter(p)
  <2>0. pc[p] = "mutex" /\ pc'[p] = "round" /\ \A q \in Threads \ {p} : pc'[q] = pc[q]
        BY <1>0, <1>2 DEF LockMu, Goto, TypeOK
  <2>1. State[p] = "waiting" /\ State' = [State EXCEPT ![p] = "running"]
        BY <2>0, Moved, LoopSeen, StateOf DEF InLoop
  <2>2. ASSUME NEW q \in Threads PROVE State[q] # "running"
    <3>1. pc[q] \in {"idle", "mutex", "done"}
          BY <1>0, <1>2 DEF TypeOK, LockMu
    <3> QED
          BY <3>1, LoopSeen, StateOf
  <2> QED
        BY <1>2, <2>1, <2>2 DEF LockMu, history, Ops!Enter, Ops!Moves, State
<1> QED
    BY <1>1, <1>2

\* Only an accepted reply ends the loop, and what it stands for was served.
LEMMA ServerAnswersImplements ==
    ASSUME IInv, NEW p \in Threads, ServerAnswers(p)
    PROVE  Ops!Return(p) \/ UNCHANGED Ops!vars
<1>0. TypeOK /\ Waits(p) /\ pc[p] = "wait" /\ slot[p] \in Slots
      BY DEF IInv, ServerAnswers, Waits
<1>1. call[slot[p]] = "ran"
      BY <1>0, CallTrueCloses, TypesRpc DEF ServerAnswers
<1>2. UNCHANGED <<served, lost, config, latest, changes>>
      BY DEF ServerAnswers
<1>3. \/ pc' = [pc EXCEPT ![p] = "done"] /\ reply[slot[p]].err \in Success(p)
      \/ \E at \in {"query", "call"} : pc' = [pc EXCEPT ![p] = at]
      BY DEF ServerAnswers, Unlock, EndRound, NextServer, Goto, Accepted, Success
<1>4. ASSUME pc' = [pc EXCEPT ![p] = "done"], reply[slot[p]].err \in Success(p)
      PROVE  Ops!Return(p)
  <2>1. served[p] > 0
    <3>1. Replied(slot[p]) /\ msg[slot[p]].from = p /\ msg[slot[p]].what = "op"
          BY <1>0 DEF IInv, CallInv, Waits
    <3>2. served[p] >= 1
          BY <1>1, <1>4, <3>1 DEF Replied
    <3>3. served[p] \in Nat
          BY <1>0, NumberTypes
    <3> QED
          BY <3>2, <3>3
  <2>2. pc'[p] = "done" /\ \A q \in Threads \ {p} : pc'[q] = pc[q]
        BY <1>0, <1>4 DEF TypeOK
  <2>3. State[p] = "running" /\ State' = [State EXCEPT ![p] = "done"]
        BY <1>0, <2>2, Moved, LoopSeen, StateOf DEF InLoop
  <2> QED
        BY <1>2, <2>1, <2>3 DEF Ops!Return, Ops!Moves, State
<1>5. ASSUME NEW at \in {"query", "call"}, pc' = [pc EXCEPT ![p] = at]
      PROVE  UNCHANGED Ops!vars
  <2>1. \A q \in Threads : pc'[q] = pc[q] \/ {pc[q], pc'[q]} \subseteq InLoop
        BY <1>0, <1>5 DEF TypeOK, InLoop
  <2> QED
        BY <1>2, <2>1, Still, OpsUnseen
<1> QED
    BY <1>3, <1>4, <1>5

LEMMA ServerFailsImplements ==
    ASSUME IInv, NEW p \in Threads, ServerFails(p)
    PROVE  Ops!Lose(p) \/ UNCHANGED Ops!vars
<1>1. TypeOK /\ pc[p] = "wait" /\ pc' = [pc EXCEPT ![p] = "call"]
      BY DEF IInv, ServerFails, NextServer, Goto
<1>1a. \A q \in Threads : pc'[q] = pc[q] \/ {pc[q], pc'[q]} \subseteq InLoop
      BY <1>1 DEF TypeOK, InLoop
<1>2. State[p] = "running" /\ State' = State
      BY <1>1, <1>1a, Still, LoopSeen, StateOf DEF InLoop
<1>3. /\ UNCHANGED <<served, config, latest, changes>>
      /\ lost' = lost \/ lost' = lost \cup {p}
      BY DEF ServerFails
<1>4. CASE lost' = lost
      BY <1>2, <1>3, <1>4, OpsUnseen
<1>5. CASE lost' = lost \cup {p}
      BY <1>2, <1>3, <1>5 DEF Ops!Lose, State
<1> QED
    BY <1>3, <1>4, <1>5

\* The answer of a Query is as new as what the clerk knew; that of a change comes
\* when the change is made.
LEMMA MasterAnswersImplements ==
    ASSUME IInv, NEW p \in Callers, MasterAnswers(p)
    PROVE  Ops!ChangeReturns \/ \E q \in Threads : Ops!Learn(q)
<1>0. TypeOK /\ Waits(p) /\ pc[p] = "qwait" /\ slot[p] \in Slots
      BY DEF IInv, MasterAnswers, Waits
<1>1. call[slot[p]] = "ran"
      BY <1>0, CallTrueCloses, TypesRpc DEF MasterAnswers
<1>2. Replied(slot[p]) /\ msg[slot[p]].from = p
      BY <1>0 DEF IInv, CallInv, Waits
<1>3. UNCHANGED <<served, lost, latest>>
      BY DEF MasterAnswers, history
<1>4. latest \in Nat /\ changes \in Nat /\ config \in Nat
      BY <1>0, NumberTypes
<1>5. CASE p = Admin
  <2>1. changes' = changes + 1 /\ config' = config /\ pc' = [pc EXCEPT ![p] = "idle"]
        BY <1>5 DEF MasterAnswers, Goto
  <2>2. changes + 1 <= latest
        BY <1>0, <1>1, <1>2, <1>5 DEF Waits, Replied
  <2>3. State' = State
    <3>1. \A q \in Threads : pc'[q] = pc[q]
          BY <1>0, <1>5, <2>1 DEF TypeOK
    <3> QED
          BY <3>1, Still
  <2>4. Ops!ChangeReturns
        BY <1>3, <1>4, <2>1, <2>2, <2>3 DEF Ops!ChangeReturns, State
  <2> QED
        BY <2>4
<1>6. CASE p # Admin
  <2>1. /\ p \in Threads /\ changes' = changes /\ config' = reply[slot[p]].config
        /\ pc' = [pc EXCEPT ![p] = "round"]
        BY <1>6 DEF MasterAnswers, Goto
  <2>2. config <= config' /\ config' <= latest
    <3>1. msg[slot[p]].what = "query"
          BY <1>0, <1>6 DEF Waits
    <3>2. config <= reply[slot[p]].config /\ reply[slot[p]].config <= latest
          BY <1>1, <1>2, <3>1 DEF Replied
    <3> QED
          BY <2>1, <3>2
  <2>3. config' \in 0..(Len(Configs) - 1)
    <3>1. reply[slot[p]].config \in 0..(Len(Configs) - 1)
          BY <1>0, TypesRpc DEF RpcTypes
    <3> QED
          BY <2>1, <3>1
  <2>4. config' \in config..latest
        BY <1>4, <2>2, <2>3
  <2>4a. \A q \in Threads : pc'[q] = pc[q] \/ {pc[q], pc'[q]} \subseteq InLoop
        BY <1>0, <2>1 DEF TypeOK, InLoop
  <2>5. State[p] = "running" /\ State' = State
        BY <1>0, <2>1, <2>4a, Still, LoopSeen, StateOf DEF InLoop
  <2>6. Ops!Learn(p)
        BY <1>3, <2>1, <2>4, <2>5 DEF Ops!Learn, State
  <2> QED
        BY <2>1, <2>6
<1> QED
    BY <1>5, <1>6

\* A handler serves an operation that runs, or one of which a call was lost.
LEMMA HandleImplements ==
    ASSUME IInv, Asked, NEW s \in Slots, call[s] \in {"open", "left"}, Handle(s)
    PROVE  Ops!Change \/ (\E p \in Threads : Ops!Serve(p)) \/ UNCHANGED Ops!vars
<1>0. TypeOK /\ Behind(s) /\ Owned(s)
      BY DEF IInv, CallInv
<1>1. UNCHANGED <<pc, config, changes, lost>>
      BY DEF Handle, clerkVars
<1>2. State' = State
      BY <1>1 DEF State
<1>3. CASE HandleOp(s)
  <2> DEFINE p == msg[s].from
  <2>1. p \in Threads /\ msg[s].what = "op" /\ latest' = latest
        BY <1>0, <1>3 DEF HandleOp, Behind
  <2>2. \/ served' = served
        \/ served' = [served EXCEPT ![p] = IF @ < 2 THEN @ + 1 ELSE @]
        BY <1>3 DEF HandleOp
  <2>3. p \in lost \/ (State[p] = "running" /\ served[p] = 0)
    <3>1. CASE call[s] = "left"
          BY <1>0, <2>1, <3>1 DEF Behind
    <3>2. CASE call[s] = "open"
      <4>1. slot[p] = s /\ Waits(p) /\ Marks(p)
            BY <1>0, <2>1, <3>2 DEF IInv, Owned
      <4>2. pc[p] = "wait"
            BY <2>1, <4>1 DEF Waits
      <4>3. State[p] = "running" /\ Served(p, 0)
            BY <2>1, <3>2, <4>1, <4>2, LoopSeen, StateOf DEF InLoop, Marks
      <4> QED
            BY <4>3 DEF Served
    <3> QED
          BY <3>1, <3>2
  <2>4. CASE served' = served
        BY <1>1, <1>2, <2>1, <2>4, OpsUnseen
  <2>5. CASE served' = [served EXCEPT ![p] = IF @ < 2 THEN @ + 1 ELSE @]
    <3>1. Ops!Serve(p)
          BY <1>1, <1>2, <2>1, <2>3, <2>5 DEF Ops!Serve, State
    <3> QED
          BY <2>1, <3>1
  <2> QED
        BY <2>2, <2>4, <2>5
<1>4. CASE HandleQuery(s)
      BY <1>1, <1>2, <1>4, OpsUnseen DEF HandleQuery
<1>5. CASE HandleChange(s)
  <2>1. served' = served /\ msg[s].what = "change"
        BY <1>5 DEF HandleChange
  <2>2. latest' = latest \/ (msg[s].n = latest + 1 /\ latest' = latest + 1)
        BY <1>5 DEF HandleChange
  <2>3. CASE latest' = latest
        BY <1>1, <1>2, <2>1, <2>3, OpsUnseen
  <2>4. CASE msg[s].n = latest + 1 /\ latest' = latest + 1
    <3>1. /\ latest \in Nat /\ changes \in Nat /\ changes <= latest
          /\ msg[s].n <= changes + 1 /\ msg[s].n < Len(Configs)
          BY <1>0, <2>1, NumberTypes DEF IInv, Newest, Behind
    <3>2. latest = changes /\ latest < Len(Configs) - 1
          BY <2>4, <3>1
    <3> QED
          BY <1>1, <1>2, <2>1, <2>4, <3>2 DEF Ops!Change, State
  <2> QED
        BY <2>2, <2>3, <2>4
<1> QED
    BY <1>3, <1>4, <1>5 DEF Handle

LEMMA StepOps == IInv /\ Asked /\ [Next]_vars => [Ops!Next]_(Ops!vars)
<1> SUFFICES ASSUME IInv, Asked, [Next]_vars PROVE [Ops!Next]_(Ops!vars)
    OBVIOUS
<1>1. CASE Change
      BY <1>1, LoopStepImplements
<1>2. ASSUME NEW p \in Callers, Ask(p) PROVE [Ops!Next]_(Ops!vars)
      BY <1>2, LoopStepImplements, MasterAnswersImplements DEF Ask, Ops!Next
<1>3. ASSUME NEW p \in Threads, Begin(p) \/ Thread(p) PROVE [Ops!Next]_(Ops!vars)
  <2>1. CASE Begin(p) \/ LockMu(p)
        BY <2>1, EnterImplements DEF Ops!Next
  <2>2. CASE Round(p) \/ NoServerLeft(p) \/ CallServer(p)
        BY <2>2, LoopStepImplements
  <2>3. CASE ServerAnswers(p) \/ ServerFails(p)
        BY <2>3, ServerAnswersImplements, ServerFailsImplements DEF Ops!Next
  <2> QED
        BY <1>2, <1>3, <2>1, <2>2, <2>3 DEF Thread
<1>4. ASSUME NEW s \in Slots, Run(s) \/ RunLate(s) PROVE [Ops!Next]_(Ops!vars)
  <2>1. call[s] \in {"open", "left"} /\ Handle(s)
        BY <1>4 DEF Run, RunLate, Rpc!Run, Over, Rpc!Move
  <2> QED
        BY <2>1, HandleImplements DEF Ops!Next
<1>5. CASE UNCHANGED vars
      BY <1>5, OpsUnseen DEF vars, clerkVars, history, State
<1> QED
    BY <1>1, <1>2, <1>3, <1>4, <1>5 DEF Next

LEMMA AskedPreserved == IInv /\ Asked /\ [Next]_vars => Asked'
<1> SUFFICES ASSUME IInv, Asked, [Next]_vars PROVE Asked'
    OBVIOUS
<1>1. latest \in Nat /\ changes \in Nat
      BY NumberTypes DEF IInv
<1>2. ASSUME NEW s \in Slots, Run(s) \/ RunLate(s) PROVE Asked'
  <2>1. call[s] \in {"open", "left"} /\ Handle(s) /\ Behind(s) /\ changes' = changes
        BY <1>2 DEF Run, RunLate, Rpc!Run, Over, Rpc!Move, Handle, IInv, CallInv
  <2>2. latest' = latest \/ (msg[s].what = "change" /\ latest' = msg[s].n)
        BY <2>1 DEF Handle, HandleOp, HandleQuery, HandleChange
  <2> QED
        BY <1>1, <2>1, <2>2 DEF Asked, Behind
<1>3. ASSUME NEW p \in Callers, Ask(p) PROVE Asked'
      BY <1>1, <1>3 DEF Asked, Ask, CallMaster, MasterAnswers, MasterFails, NoMasterLeft
<1>4. CASE Change \/ UNCHANGED vars
      BY <1>4 DEF Asked, Change, vars
<1>5. ASSUME NEW p \in Threads, Begin(p) \/ Thread(p) PROVE Asked'
      BY <1>3, <1>5 DEF Asked, Begin, Thread, LockMu, Round, NoServerLeft, CallServer,
         ServerAnswers, ServerFails
<1> QED
    BY <1>2, <1>3, <1>4, <1>5 DEF Next

\* The clerk's mutex, retries and refreshes make of calls that may be lost, late
\* or refused a serial service that runs an operation at least once before it
\* returns, and exactly once while none of its calls is lost.
THEOREM ClerkImplementsOps == Spec => ImplementsOps
<1>1. Init => Asked
      BY DEF Init, Asked
<1>2. Spec => []Asked
      BY <1>1, AskedPreserved, Inductive, PTL DEF Spec
<1> QED
    BY <1>2, InitOps, StepOps, Inductive, PTL DEF Spec, ImplementsOps, Ops!Spec
=============================================================================
