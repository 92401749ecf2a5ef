--------------------------- MODULE RpcServerProofs ---------------------------
(***************************************************************************)
(* Proofs about RpcServer, for every number of calls and every choice of   *)
(* servers: its type invariant, the safety properties, that a call which   *)
(* waits has somebody who will end it (NobodyStranded, by Tended), and     *)
(* that it implements RpcCall.  Then about LockService, for every number   *)
(* of locks: it is RpcServer with handlers, so that all this holds of it,  *)
(* and the lock table needs in addition what Table says.                   *)
(***************************************************************************)
EXTENDS LockService, FiniteSetTheorems, TLAPS

\* Where call() is tells how far its request and its connection can be.
CallSane(c) ==
    /\ client[c] = "idle" => conn[c] = "none" /\ req[c] = "none"
    /\ client[c] = "dialled" => conn[c] # "none" /\ req[c] = "none"
    /\ client[c] = "waits" => conn[c] # "none" /\ req[c] # "none"
    /\ client[c] = "true" => req[c] = "ran"
    /\ client[c] = "false" => conn[c] \in {"none", "closed", "mute"}
    /\ conn[c] \in {"none", "backlog", "held"} => req[c] # "ran"
    /\ conn[c] = "backlog" => listening
    /\ conn[c] = "mute" => kind["unreliable"]

\* The connection the loop holds is as the loop left it, unless the timer fired.
LoopSane ==
    /\ loop = "got" => conn[cur] = "held"
    /\ loop = "hush" => conn[cur] \in {"held", "closed"} /\ dying
    /\ loop = "deaf" => conn[cur] \in {"deaf", "closed"} /\ dying /\ ~listening
    /\ timer => loop \in {"hush", "deaf"} /\ conn[cur] # "closed"
    /\ unreliable => kind["unreliable"]
    /\ dying => kind["dying"]

\* Calls dialled too late do not get past the test after Accept.
Doomed ==
    /\ doomed # {} => dead
    /\ \A c \in doomed : /\ client[c] # "idle"
                         /\ conn[c] \in {"none", "backlog", "held", "closed"}
                         /\ req[c] # "ran"
    /\ loop \in {"hush", "deaf"} => cur \notin doomed

\* There is one deaf connection, and after it no other.
Deaf == \A c \in Calls :
    conn[c] = "deaf" \/ (conn[c] = "closed" /\ req[c] = "ran") =>
        c = cur /\ ~listening /\ loop \notin {"got", "hush"} /\ dying

Served == {c \in Calls : conn[c] \in {"served", "mute"}}

Counted == kind["counts"] => IsFiniteSet(Served) /\ Cardinality(Served) = rpcCount

Sane == (\A c \in Calls : CallSane(c)) /\ LoopSane

IInv == TypeOK /\ Sane /\ Doomed /\ Deaf /\ Counted

LEMMA WithFlags ==
    ASSUME NEW flags
    PROVE  /\ With(flags) \in [Flag -> BOOLEAN]
           /\ \A f \in Flag : /\ f \in flags => With(flags)[f]
                              /\ f \notin flags => ~With(flags)[f]
<1>1. With(flags) \in [Flag -> BOOLEAN]
      BY SMT DEF With
<1>2. \A f \in Flag : /\ f \in flags => With(flags)[f]
                      /\ f \notin flags => ~With(flags)[f]
      BY DEF With
<1> QED
    BY <1>1, <1>2, Zenon

LEMMA Flags == \A k \in AllKinds : /\ k \in [Flag -> BOOLEAN]
                                   /\ k["counts"] => ~k["dying"]
                                   /\ k["dying"] => ~k["unreliable"]
<1> USE WithFlags DEF Flag
<1>1. PaxosPeer \in [Flag -> BOOLEAN] /\ ~PaxosPeer["dying"]
      BY DEF PaxosPeer
<1>2. ViewServiceServer \in [Flag -> BOOLEAN] /\ ~ViewServiceServer["dying"]
      BY DEF ViewServiceServer
<1>3. PBServer \in [Flag -> BOOLEAN] /\ ~PBServer["dying"]
      BY DEF PBServer
<1>4. KVPaxosServer \in [Flag -> BOOLEAN] /\ ~KVPaxosServer["dying"]
      BY DEF KVPaxosServer
<1>5. ShardMasterServer \in [Flag -> BOOLEAN] /\ ~ShardMasterServer["dying"]
      BY DEF ShardMasterServer
<1>6. ShardKVServer \in [Flag -> BOOLEAN] /\ ~ShardKVServer["dying"]
      BY DEF ShardKVServer
<1>7. DisKVServer \in [Flag -> BOOLEAN] /\ ~DisKVServer["dying"]
      BY DEF DisKVServer
<1>8. LockServer \in [Flag -> BOOLEAN] /\ ~LockServer["counts"] /\ ~LockServer["unreliable"]
      BY DEF LockServer
<1> QED
    BY <1>1, <1>2, <1>3, <1>4, <1>5, <1>6, <1>7, <1>8 DEF AllKinds

LEMMA KindsFlags == \A k \in Kinds : k \in [Flag -> BOOLEAN]
BY Flags, KindsAssumption

LEMMA InitIInv == Init => IInv
<1> SUFFICES ASSUME Init PROVE IInv
    OBVIOUS
<1>1. TypeOK
  <2>1. kind["ticks"] \in BOOLEAN
        BY KindsFlags DEF Init, Flag
  <2>2. ticking \in BOOLEAN /\ kind \in Kinds
        BY <2>1, Zenon DEF Init
  <2>3. /\ client \in [Calls -> {"idle", "dialled", "waits", "true", "false"}]
        /\ conn \in [Calls -> {"none", "backlog", "held", "served", "mute", "deaf", "closed"}]
        /\ req \in [Calls -> {"none", "sent", "ran"}]
        BY DEF Init
  <2>4. /\ unreliable \in BOOLEAN /\ dying \in BOOLEAN /\ dead \in BOOLEAN
        /\ listening \in BOOLEAN /\ peerDead \in BOOLEAN /\ timer \in BOOLEAN
        BY Zenon DEF Init
  <2>5. /\ errors \in 0..MaxErrors
        /\ killing \in {"no", "close", "peer", "done"}
        /\ loop \in {"test", "accept", "got", "error", "kills", "hush", "deaf", "ended"}
        /\ cur \in Calls \cup {Nobody}
        /\ (timer \/ loop \in {"got", "hush", "deaf"}) => cur \in Calls
        /\ rpcCount \in Nat /\ doomed \subseteq Calls
        BY KindsAssumption DEF Init
  <2> QED
        BY <2>2, <2>3, <2>4, <2>5, Zenon DEF TypeOK
<1>2. Sane /\ Doomed /\ Deaf
      BY DEF Init, Sane, CallSane, LoopSane, Doomed, Deaf
<1>3. Served = {} /\ rpcCount = 0
      BY DEF Init, Served
<1> QED
    BY <1>1, <1>2, <1>3, FS_EmptySet DEF IInv, Counted

-----------------------------------------------------------------------------
(***************************************************************************)
(* Every step preserves the shape of the state.                            *)
(***************************************************************************)
LEMMA TypePreserved == TypeOK /\ LoopSane /\ [Next]_rpcVars => TypeOK'
<1> SUFFICES ASSUME TypeOK, LoopSane, [Next]_rpcVars
             PROVE  TypeOK'
    OBVIOUS
<1> USE DEF TypeOK, modeVars, stopVars, loopVars, callVars
<1>1. ASSUME NEW c \in Calls, Dial(c) PROVE TypeOK'
      BY <1>1 DEF Dial, Returns
<1>2. ASSUME NEW c \in Calls, Run(c) \/ Send(c) PROVE TypeOK'
      BY <1>2 DEF Run, Runs, Send
<1>3. ASSUME NEW c \in Calls, CallReturns(c) \/ CallFails(c) PROVE TypeOK'
      BY <1>3 DEF CallReturns, CallFails, Returns
<1>4. CASE Test \/ AcceptClosed
      BY <1>4, LoopSane DEF Test, AcceptClosed, LoopSane
<1>5. CASE Accept
      BY <1>5 DEF Accept
<1>6. CASE AcceptError
      BY <1>6, KindsAssumption DEF AcceptError, LoopSane
<1>14. CASE LoopError
      BY <1>14 DEF LoopError, StartKill, LoopSane
<1>7. CASE Refuse \/ Discard \/ ServeMute \/ Serve
      BY <1>7 DEF Refuse, Discard, ServeMute, Serve, Becomes, Count, LoopSane
<1>8. CASE StartTimer
      BY <1>8 DEF StartTimer
<1>15. CASE TimerFires
  <2>1. ~timer' /\ cur' = cur /\ loop' = loop /\ conn' = [conn EXCEPT ![cur] = "closed"]
        BY <1>15 DEF TimerFires
  <2>2. timer' \in BOOLEAN
        BY <1>15, Zenon DEF TimerFires
  <2> QED
        BY <1>15, <2>1, <2>2 DEF TimerFires
<1>9. CASE CloseAndListen
      BY <1>9 DEF CloseAndListen, Reset
<1>10. CASE DeafEnds
      BY <1>10 DEF DeafEnds
<1>11. CASE CloseListener
  <2>1. killing' \in {"peer", "done"}
        BY <1>11, Zenon DEF CloseListener
  <2>2. conn' \in [Calls -> {"none", "backlog", "held", "served", "mute", "deaf", "closed"}]
        BY <1>11 DEF CloseListener, Reset
  <2>3. listening' \in BOOLEAN
        BY <1>11, Zenon DEF CloseListener
  <2> QED
        BY <1>11, <2>1, <2>2, <2>3 DEF CloseListener
<1>16. CASE KillPeer
      BY <1>16 DEF KillPeer
<1>12. CASE Kill
      BY <1>12 DEF Kill, StartKill
<1>17. CASE SetUnreliable
  <2>1. (~unreliable) \in BOOLEAN
        BY Zenon
  <2> QED
        BY <1>17, <2>1 DEF SetUnreliable
<1>18. CASE SetDying
      BY <1>18 DEF SetDying
<1>19. CASE TickerEnds
  <2>1. ticking' \in BOOLEAN
        BY <1>19, Zenon DEF TickerEnds
  <2> QED
        BY <1>19, <2>1 DEF TickerEnds
<1>13. CASE UNCHANGED rpcVars
      BY <1>13 DEF rpcVars
<1> QED
    BY <1>1, <1>2, <1>3, <1>4, <1>5, <1>6, <1>7, <1>8, <1>9, <1>10, <1>11, <1>12, <1>13,
       <1>14, <1>15, <1>16, <1>17, <1>18, <1>19 DEF Next, Background, Killing, Loop, Environment, Caller

-----------------------------------------------------------------------------
(***************************************************************************)
(* Every step preserves what calls and the loop know of each other.        *)
(***************************************************************************)
LEMMA SanePreserved == TypeOK /\ Sane /\ [Next]_rpcVars => Sane'
<1> SUFFICES ASSUME TypeOK, Sane, [Next]_rpcVars
             PROVE  Sane'
    OBVIOUS
<1> USE DEF Sane, CallSane, LoopSane, TypeOK, modeVars, stopVars, loopVars, callVars
<1>1. ASSUME NEW c \in Calls, Dial(c) PROVE Sane'
      BY <1>1 DEF Dial, Returns
<1>2. ASSUME NEW c \in Calls, Send(c) PROVE Sane'
      BY <1>2 DEF Send
<1>3. ASSUME NEW c \in Calls, CallReturns(c) PROVE Sane'
      BY <1>3 DEF CallReturns, Returns
<1>4. ASSUME NEW c \in Calls, CallFails(c) PROVE Sane'
      BY <1>4 DEF CallFails, Returns
<1>5. ASSUME NEW c \in Calls, Run(c) PROVE Sane'
      BY <1>5 DEF Run, Runs
<1>6. CASE Test \/ AcceptClosed \/ AcceptError
      BY <1>6 DEF Test, AcceptClosed, AcceptError
<1>7. CASE Accept
      BY <1>7 DEF Accept
<1>8. CASE Refuse \/ Discard
      BY <1>8 DEF Refuse, Discard, Becomes
<1>9. CASE ServeMute
      BY <1>9 DEF ServeMute, Becomes
<1>10. CASE Serve
      BY <1>10 DEF Serve, Becomes
<1>11. CASE StartTimer
      BY <1>11 DEF StartTimer
<1>12. CASE CloseAndListen
      BY <1>12 DEF CloseAndListen, Reset
<1>13. CASE TimerFires
      BY <1>13 DEF TimerFires
<1>14. CASE DeafEnds
      BY <1>14 DEF DeafEnds
<1>15. CASE CloseListener
      BY <1>15 DEF CloseListener, Reset
<1>16. CASE KillPeer \/ TickerEnds
      BY <1>16 DEF KillPeer, TickerEnds
<1>17. CASE Kill \/ LoopError
      BY <1>17 DEF Kill, LoopError, StartKill
<1>18. CASE SetUnreliable \/ SetDying
      BY <1>18 DEF SetUnreliable, SetDying
<1>19. CASE UNCHANGED rpcVars
      BY <1>19 DEF rpcVars
<1> QED
    BY <1>1, <1>2, <1>3, <1>4, <1>5, <1>6, <1>7, <1>8, <1>9, <1>10, <1>11, <1>12, <1>13,
       <1>14, <1>15, <1>16, <1>17, <1>18, <1>19
       DEF Next, Background, Killing, Loop, Environment, Caller

LEMMA DoomedPreserved == TypeOK /\ Sane /\ Doomed /\ [Next]_rpcVars => Doomed'
<1> SUFFICES ASSUME TypeOK, Sane, Doomed, [Next]_rpcVars
             PROVE  Doomed'
    OBVIOUS
<1> USE DEF Sane, CallSane, LoopSane, TypeOK, Doomed, modeVars, stopVars, loopVars, callVars
<1>1. ASSUME NEW c \in Calls, Dial(c) PROVE Doomed'
      BY <1>1 DEF Dial, Returns
<1>2. ASSUME NEW c \in Calls, Send(c) PROVE Doomed'
      BY <1>2 DEF Send
<1>3. ASSUME NEW c \in Calls, CallReturns(c) \/ CallFails(c) PROVE Doomed'
      BY <1>3 DEF CallReturns, CallFails, Returns
<1>4. ASSUME NEW c \in Calls, Run(c) PROVE Doomed'
      BY <1>4 DEF Run, Runs
<1>5. CASE Test \/ AcceptClosed \/ AcceptError
      BY <1>5 DEF Test, AcceptClosed, AcceptError
<1>6. CASE Accept
      BY <1>6 DEF Accept
<1>7. CASE Refuse \/ Discard \/ ServeMute \/ Serve
      BY <1>7 DEF Refuse, Discard, ServeMute, Serve, Becomes
<1>8. CASE StartTimer \/ DeafEnds
      BY <1>8 DEF StartTimer, DeafEnds
<1>9. CASE CloseAndListen
      BY <1>9 DEF CloseAndListen, Reset
<1>10. CASE TimerFires
      BY <1>10 DEF TimerFires
<1>11. CASE CloseListener
      BY <1>11 DEF CloseListener, Reset
<1>12. CASE KillPeer \/ TickerEnds \/ SetUnreliable \/ SetDying
      BY <1>12 DEF KillPeer, TickerEnds, SetUnreliable, SetDying
<1>13. CASE Kill \/ LoopError
      BY <1>13 DEF Kill, LoopError, StartKill
<1>14. CASE UNCHANGED rpcVars
      BY <1>14 DEF rpcVars
<1> QED
    BY <1>1, <1>2, <1>3, <1>4, <1>5, <1>6, <1>7, <1>8, <1>9, <1>10, <1>11, <1>12, <1>13,
       <1>14 DEF Next, Background, Killing, Loop, Environment, Caller

LEMMA DeafPreserved == TypeOK /\ Sane /\ Deaf /\ [Next]_rpcVars => Deaf'
<1> SUFFICES ASSUME TypeOK, Sane, Deaf, [Next]_rpcVars
             PROVE  Deaf'
    OBVIOUS
<1> USE DEF Sane, CallSane, LoopSane, TypeOK, Deaf, modeVars, stopVars, loopVars, callVars
<1>1. ASSUME NEW c \in Calls, Dial(c) PROVE Deaf'
      BY <1>1 DEF Dial, Returns
<1>2. ASSUME NEW c \in Calls, Send(c) PROVE Deaf'
      BY <1>2 DEF Send
<1>3. ASSUME NEW c \in Calls, CallReturns(c) \/ CallFails(c) PROVE Deaf'
      BY <1>3 DEF CallReturns, CallFails, Returns
<1>4. ASSUME NEW c \in Calls, Run(c) PROVE Deaf'
      BY <1>4 DEF Run, Runs
<1>5. CASE Test \/ AcceptClosed \/ AcceptError
      BY <1>5 DEF Test, AcceptClosed, AcceptError
<1>6. CASE Accept
      BY <1>6 DEF Accept
<1>7. CASE Refuse \/ Discard \/ ServeMute \/ Serve
      BY <1>7 DEF Refuse, Discard, ServeMute, Serve, Becomes
<1>8. CASE StartTimer \/ DeafEnds
      BY <1>8 DEF StartTimer, DeafEnds
<1>9. CASE CloseAndListen
      BY <1>9 DEF CloseAndListen, Reset
<1>10. CASE TimerFires
      BY <1>10 DEF TimerFires
<1>11. CASE CloseListener
      BY <1>11 DEF CloseListener, Reset
<1>12. CASE KillPeer \/ TickerEnds \/ SetUnreliable \/ SetDying
      BY <1>12 DEF KillPeer, TickerEnds, SetUnreliable, SetDying
<1>13. CASE Kill \/ LoopError
      BY <1>13 DEF Kill, LoopError, StartKill
<1>14. CASE UNCHANGED rpcVars
      BY <1>14 DEF rpcVars
<1> QED
    BY <1>1, <1>2, <1>3, <1>4, <1>5, <1>6, <1>7, <1>8, <1>9, <1>10, <1>11, <1>12, <1>13,
       <1>14 DEF Next, Background, Killing, Loop, Environment, Caller

-----------------------------------------------------------------------------
(***************************************************************************)
(* rpcCount counts the connections that are served, unless one is deaf,    *)
(* and the servers that count have no deaf ones.                           *)
(***************************************************************************)
LEMMA KindStays == [Next]_rpcVars => kind' = kind
<1> SUFFICES ASSUME [Next]_rpcVars PROVE kind' = kind
    OBVIOUS
<1> USE DEF modeVars
<1>1. ASSUME NEW c \in Calls, Dial(c) \/ Run(c) \/ Caller(c) PROVE kind' = kind
      BY <1>1 DEF Dial, Run, Runs, Caller, Send, CallReturns, CallFails
<1>2. CASE Loop
  <2>1. ASSUME Refuse \/ Discard \/ ServeMute \/ Serve PROVE kind' = kind
        BY <2>1 DEF Refuse, Discard, ServeMute, Serve, Becomes
  <2>2. ASSUME Test \/ Accept \/ AcceptClosed \/ LoopError PROVE kind' = kind
        BY <2>2 DEF Test, Accept, AcceptClosed, LoopError
  <2>3. ASSUME StartTimer \/ CloseAndListen \/ DeafEnds PROVE kind' = kind
        BY <2>3 DEF StartTimer, CloseAndListen, DeafEnds
  <2> QED
        BY <1>2, <2>1, <2>2, <2>3 DEF Loop
<1>3. CASE Killing \/ TimerFires \/ TickerEnds
      BY <1>3 DEF Killing, CloseListener, KillPeer, TimerFires, TickerEnds
<1>4. CASE Environment
      BY <1>4 DEF Environment, Kill, AcceptError, SetUnreliable, SetDying
<1> QED
    BY <1>1, <1>2, <1>3, <1>4 DEF Next, Background, rpcVars

LEMMA CountedPreserved == TypeOK /\ Sane /\ Counted /\ [Next]_rpcVars => Counted'
<1> SUFFICES ASSUME TypeOK, Sane, Counted, [Next]_rpcVars
             PROVE  Counted'
    OBVIOUS
<1>11. kind' = kind
       BY KindStays
<1> SUFFICES ASSUME kind["counts"]
             PROVE  (IsFiniteSet(Served) /\ Cardinality(Served) = rpcCount)'
    BY <1>11 DEF Counted
<1>0. ~kind["dying"]
      BY Flags, KindsAssumption DEF TypeOK
<1>1. IsFiniteSet(Served) /\ Cardinality(Served) = rpcCount /\ rpcCount \in Nat
      BY DEF Counted, TypeOK
<1>2. ASSUME Served' = Served, rpcCount' = rpcCount
      PROVE  (IsFiniteSet(Served) /\ Cardinality(Served) = rpcCount)'
      BY <1>1, <1>2
<1>3. ASSUME cur \notin Served, Served' = Served \cup {cur}, rpcCount' = rpcCount + 1
      PROVE  (IsFiniteSet(Served) /\ Cardinality(Served) = rpcCount)'
      BY <1>1, <1>3, FS_AddElement
<1> USE DEF Sane, CallSane, LoopSane, TypeOK, modeVars, stopVars, loopVars, callVars
<1>4. ASSUME NEW c \in Calls, Dial(c)
      PROVE  Served' = Served /\ rpcCount' = rpcCount
      BY <1>4 DEF Dial, Returns, Served
<1>5. ASSUME NEW c \in Calls, Caller(c) \/ Run(c)
      PROVE  Served' = Served /\ rpcCount' = rpcCount
      BY <1>5 DEF Caller, Send, CallReturns, CallFails, Run, Runs, Returns, Served
<1>6. ASSUME Accept \/ Refuse \/ Discard
      PROVE  Served' = Served /\ rpcCount' = rpcCount
      BY <1>6 DEF Accept, Refuse, Discard, Becomes, Served
<1>7. ASSUME ServeMute \/ Serve
      PROVE  cur \notin Served /\ Served' = Served \cup {cur} /\ rpcCount' = rpcCount + 1
      BY <1>7 DEF ServeMute, Serve, Becomes, Count, Served
<1>8. ~StartTimer /\ ~CloseAndListen /\ ~TimerFires /\ ~DeafEnds
      BY <1>0 DEF StartTimer, CloseAndListen, TimerFires, DeafEnds
<1>9. ASSUME Test \/ AcceptClosed \/ LoopError \/ Environment \/ TickerEnds \/ UNCHANGED rpcVars
      PROVE  Served' = Served /\ rpcCount' = rpcCount
      BY <1>9 DEF Test, AcceptClosed, LoopError, Environment, Kill, AcceptError, SetUnreliable,
         SetDying, TickerEnds, StartKill, rpcVars, Served
<1>10. ASSUME Killing
       PROVE  Served' = Served /\ rpcCount' = rpcCount
       BY <1>10 DEF Killing, CloseListener, KillPeer, Reset, Served
<1> HIDE DEF Sane, CallSane, LoopSane, TypeOK, modeVars, stopVars, loopVars, callVars
<1> QED
    BY <1>2, <1>3, <1>4, <1>5, <1>6, <1>7, <1>8, <1>9, <1>10 DEF Next, Background, Loop

LEMMA StepIInv == IInv /\ [Next]_rpcVars => IInv'
BY TypePreserved, SanePreserved, DoomedPreserved, DeafPreserved, CountedPreserved
   DEF IInv, Sane

LEMMA InvIInv == Spec => []IInv
BY InitIInv, StepIInv, PTL DEF Spec

-----------------------------------------------------------------------------
\* The shape of the state.
THEOREM RpcTypeInvariant == Spec => []TypeOK
BY InvIInv, PTL DEF IInv

\* A request whose caller dialled a dead server is never handled.
THEOREM LateDialsNeverRun == Spec => []DoomedNeverRun
<1>1. IInv => DoomedNeverRun
      BY DEF IInv, Doomed, DoomedNeverRun
<1> QED
    BY <1>1, InvIInv, PTL

\* The counters miss no request that was handled.
THEOREM CountsAreComplete == Spec => []CountsEveryRun
<1>1. IInv => CountsEveryRun
  <2> SUFFICES ASSUME IInv, kind["counts"]
               PROVE  rpcCount >= Cardinality({c \in Calls : req[c] = "ran"})
      BY DEF CountsEveryRun
  <2>1. {c \in Calls : req[c] = "ran"} \subseteq Served
    <3> SUFFICES ASSUME NEW c \in Calls, req[c] = "ran"
                 PROVE  conn[c] \in {"served", "mute"}
        BY DEF Served
    <3>1. ~dying
          BY Flags, KindsAssumption DEF IInv, TypeOK, Sane, LoopSane
    <3> QED
        BY <3>1 DEF IInv, TypeOK, Sane, CallSane, Deaf
  <2>2. IsFiniteSet(Served) /\ Cardinality(Served) = rpcCount /\ rpcCount \in Nat
        BY DEF IInv, Counted, TypeOK
  <2>3. Cardinality({c \in Calls : req[c] = "ran"}) <= Cardinality(Served)
        BY <2>1, <2>2, FS_Subset
  <2>4. Cardinality({c \in Calls : req[c] = "ran"}) \in Nat
    <3>1. IsFiniteSet({c \in Calls : req[c] = "ran"})
          BY <2>1, <2>2, FS_Subset
    <3> QED
        BY <3>1, FS_CardinalityType
  <2> QED
      BY <2>2, <2>3, <2>4
<1> QED
    BY <1>1, InvIInv, PTL

\* Only in the unreliable mode is a request handled after its call failed.
THEOREM LateRunsAreUnreliable == Spec => LateRunsOnlyUnreliable
<1>1. IInv /\ [Next]_rpcVars =>
        [\A c \in Calls : client[c] = "false" /\ req[c] # req'[c] => kind["unreliable"]]_rpcVars
  <2> SUFFICES ASSUME IInv, Next, NEW c \in Calls, client[c] = "false", req[c] # req'[c]
               PROVE  kind["unreliable"]
      BY DEF rpcVars
  <2>1. conn[c] = "mute" \/ ~Run(c)
        BY DEF IInv, Sane, CallSane, Run, Runs
  <2>2. \A d \in Calls : Run(d) \/ Send(d) => d = c
        BY DEF IInv, TypeOK, Run, Runs, Send
  <2>3. ~Send(c)
        BY DEF Send
  <2>4. \E d \in Calls : Run(d) \/ Send(d)
        BY DEF Next, Background, Loop, Killing, Environment, Caller, Dial, CallReturns,
           CallFails, Test, AcceptClosed, AcceptError, Accept, Refuse, Discard,
           ServeMute, Serve, Becomes, StartTimer, CloseAndListen, TimerFires, DeafEnds,
           CloseListener, KillPeer, TickerEnds, Kill, LoopError, SetUnreliable, SetDying,
           callVars
  <2> QED
      BY <2>1, <2>2, <2>3, <2>4 DEF IInv, Sane, CallSane
<1> QED
    BY <1>1, InvIInv, PTL DEF Spec, LateRunsOnlyUnreliable

-----------------------------------------------------------------------------
(***************************************************************************)
(* The refinement.  A step of a caller or a handler is one of RpcCall;     *)
(* what the loop does to a connection is none, because it makes mute only  *)
(* the connection it holds, and nobody has given up on that one.           *)
(***************************************************************************)
LEMMA CallStateIs ==
    /\ callState = [c \in Calls |-> callState[c]]
    /\ callState' = [c \in Calls |-> callState'[c]]
BY DEF callState

LEMMA AbstractStays ==
    ASSUME UNCHANGED <<client, req>>,
           client \in [Calls -> {"idle", "dialled", "waits", "true", "false"}],
           \A c \in Calls : client[c] = "false" => (conn'[c] = "mute" <=> conn[c] = "mute")
    PROVE  UNCHANGED callState
<1>1. ASSUME NEW c \in Calls PROVE callState'[c] = callState[c]
  <2>1. client'[c] = client[c] /\ req'[c] = req[c]
        OBVIOUS
  <2>2. CASE client[c] \in {"idle", "dialled", "waits", "true"}
        BY <2>1, <2>2 DEF callState
  <2>3. CASE client[c] = "false"
        BY <2>1, <2>3 DEF callState
  <2> QED
        BY <2>2, <2>3
<1> QED
    BY <1>1, CallStateIs

LEMMA AbstractMoves ==
    ASSUME NEW c \in Calls,
           \A d \in Calls \ {c} :
               client'[d] = client[d] /\ req'[d] = req[d] /\ conn'[d] = conn[d]
    PROVE  callState' = [callState EXCEPT ![c] = callState'[c]]
<1>1. \A d \in Calls \ {c} : callState'[d] = callState[d]
      BY DEF callState
<1> QED
    BY <1>1, CallStateIs

LEMMA AbstractStep == IInv /\ [Next]_rpcVars => [Abstract!Next]_callState
<1> SUFFICES ASSUME IInv, [Next]_rpcVars
             PROVE  Abstract!Next \/ UNCHANGED callState
    OBVIOUS
<1>0. TypeOK /\ LoopSane /\ \A c \in Calls : CallSane(c)
      BY DEF IInv, Sane
<1>1. ASSUME NEW c \in Calls, Dial(c) PROVE Abstract!Next
  <2>1. callState' = [callState EXCEPT ![c] = callState'[c]]
        BY <1>0, <1>1, AbstractMoves DEF Dial, Returns, TypeOK, callVars
  <2>2. callState[c] = "idle" /\ callState'[c] \in {"open", "failed"}
        BY <1>0, <1>1 DEF Dial, Returns, TypeOK, CallSane, callState
  <2>3. Abstract!Open(c) \/ Abstract!Refuse(c)
        BY <2>1, <2>2 DEF Abstract!Open, Abstract!Refuse, Abstract!Move, Abstract!Free
  <2> QED
        BY <2>3 DEF Abstract!Next
<1>2. ASSUME NEW c \in Calls, Send(c) PROVE UNCHANGED callState
  <2>1. callState' = [callState EXCEPT ![c] = callState'[c]]
        BY <1>0, <1>2, AbstractMoves DEF Send, TypeOK
  <2>2. callState[c] = "open"
        BY <1>0, <1>2 DEF Send, CallSane, callState
  <2>3. callState'[c] = "open"
        BY <1>0, <1>2 DEF Send, TypeOK, callState
  <2> QED
        BY <2>1, <2>2, <2>3, CallStateIs
<1>3. ASSUME NEW c \in Calls, CallReturns(c) PROVE Abstract!Next
  <2>1. callState' = [callState EXCEPT ![c] = callState'[c]]
        BY <1>0, <1>3, AbstractMoves DEF CallReturns, Returns, TypeOK
  <2>2. callState[c] = "ran" /\ callState'[c] = "answered"
        BY <1>0, <1>3 DEF CallReturns, Returns, TypeOK, callState
  <2> QED
        BY <2>1, <2>2 DEF Abstract!Next, Abstract!Answer, Abstract!Move
<1>4. ASSUME NEW c \in Calls, CallFails(c) PROVE Abstract!Next
  <2>1. callState' = [callState EXCEPT ![c] = callState'[c]]
        BY <1>0, <1>4, AbstractMoves DEF CallFails, Returns, TypeOK
  <2>2. \/ callState[c] \in {"open", "ran"} /\ callState'[c] = "failed"
        \/ callState[c] = "open" /\ callState'[c] = "left"
        BY <1>0, <1>4 DEF CallFails, Returns, TypeOK, callState
  <2> QED
        BY <2>1, <2>2 DEF Abstract!Next, Abstract!Lose, Abstract!Leave, Abstract!Move
<1>5. ASSUME NEW c \in Calls, Run(c) PROVE Abstract!Next
  <2>1. callState' = [callState EXCEPT ![c] = callState'[c]]
        BY <1>0, <1>5, AbstractMoves DEF Run, Runs, TypeOK
  <2>2. \/ callState[c] = "open" /\ callState'[c] = "ran"
        \/ callState[c] = "left" /\ callState'[c] = "failed"
        BY <1>0, <1>5 DEF Run, Runs, TypeOK, CallSane, callState
  <2> QED
        BY <2>1, <2>2 DEF Abstract!Next, Abstract!Run, Abstract!RunLate, Abstract!Move
<1>6. CASE Loop
  <2>1. UNCHANGED <<client, req>>
    <3>1. ASSUME Refuse \/ Discard \/ ServeMute \/ Serve PROVE UNCHANGED <<client, req>>
          BY <3>1 DEF Refuse, Discard, ServeMute, Serve, Becomes
    <3>2. ASSUME Test \/ Accept \/ AcceptClosed \/ LoopError PROVE UNCHANGED <<client, req>>
          BY <3>2 DEF Test, Accept, AcceptClosed, LoopError, callVars
    <3>3. ASSUME StartTimer \/ CloseAndListen \/ DeafEnds PROVE UNCHANGED <<client, req>>
          BY <3>3 DEF StartTimer, CloseAndListen, DeafEnds, callVars
    <3> QED
          BY <1>6, <3>1, <3>2, <3>3 DEF Loop
  <2>2. \A c \in Calls : client[c] = "false" => (conn'[c] = "mute" <=> conn[c] = "mute")
    <3> SUFFICES ASSUME NEW c \in Calls, client[c] = "false"
                 PROVE  conn'[c] = "mute" <=> conn[c] = "mute"
        OBVIOUS
    <3> USE <1>0 DEF TypeOK, CallSane, LoopSane
    <3>1. ASSUME Refuse \/ Discard \/ ServeMute \/ Serve PROVE conn'[c] = conn[c]
          BY <3>1 DEF Refuse, Discard, ServeMute, Serve, Becomes
    <3>2. ASSUME Test \/ AcceptClosed \/ LoopError \/ StartTimer \/ DeafEnds
          PROVE conn'[c] = conn[c]
          BY <3>2 DEF Test, AcceptClosed, LoopError, StartTimer, DeafEnds, callVars
    <3>3. ASSUME Accept PROVE conn'[c] = conn[c]
          BY <3>3 DEF Accept
    <3>4. ASSUME CloseAndListen PROVE conn'[c] = "mute" <=> conn[c] = "mute"
          BY <3>4 DEF CloseAndListen, Reset
    <3> QED
          BY <1>6, <3>1, <3>2, <3>3, <3>4 DEF Loop
  <2> QED
        BY <1>0, <2>1, <2>2, AbstractStays DEF TypeOK
<1>7. CASE Killing \/ TimerFires
  <2>1. UNCHANGED <<client, req>>
        BY <1>7 DEF Killing, CloseListener, KillPeer, TimerFires, callVars
  <2>2. \A c \in Calls : client[c] = "false" => (conn'[c] = "mute" <=> conn[c] = "mute")
    <3>1. CASE Killing
          BY <1>0, <3>1 DEF TypeOK, CallSane, Killing, CloseListener, KillPeer, Reset, callVars
    <3>2. CASE TimerFires
          BY <1>0, <3>2 DEF TypeOK, CallSane, LoopSane, TimerFires
    <3> QED
          BY <1>7, <3>1, <3>2
  <2> QED
        BY <1>0, <2>1, <2>2, AbstractStays DEF TypeOK
<1>8. CASE TickerEnds \/ Environment \/ UNCHANGED rpcVars
  <2>1. UNCHANGED callVars
        BY <1>8 DEF TickerEnds, Environment, Kill, AcceptError, SetUnreliable, SetDying, rpcVars
  <2> QED
        BY <1>0, <2>1, AbstractStays DEF TypeOK, callVars
<1> QED
    BY <1>1, <1>2, <1>3, <1>4, <1>5, <1>6, <1>7, <1>8 DEF Next, Background, Caller

\* Every server gives its callers what RpcCall promises.
THEOREM ServersImplementRpcCall == Spec => ImplementsRpcCall
<1>1. Init => Abstract!Init
      BY DEF Init, Abstract!Init, callState
<1> QED
    BY <1>1, AbstractStep, InvIInv, PTL DEF Spec, ImplementsRpcCall, Abstract!Spec

-----------------------------------------------------------------------------
(***************************************************************************)
(* Nobody waits for what nobody will do: the state that every call and     *)
(* every goroutine of a dead server gets out of.                           *)
(***************************************************************************)
\* The loop has one connection at a time, of which it or the timer takes care;
\* who is dead is being killed, or was a dying server and closed its listener.
Tended ==
    /\ \A c \in Calls : /\ conn[c] = "held" => c = cur /\ loop \in {"got", "hush"}
                        /\ conn[c] = "deaf" => c = cur /\ loop = "deaf"
    /\ loop \in {"hush", "deaf"} => timer \/ conn[cur] = "closed"
    /\ loop = "kills" => killing # "no"
    /\ loop = "ended" \/ killing # "no" => dead
    /\ listening /\ dead => killing = "close"
    /\ dead /\ killing \in {"no", "done"} => (kind["peer"] => peerDead)

LEMMA DyingHasNoPeer == \A k \in Kinds : k["dying"] => ~k["peer"]
<1> USE WithFlags DEF Flag
<1>1. ~PaxosPeer["dying"]
      BY DEF PaxosPeer
<1>2. ~ViewServiceServer["dying"]
      BY DEF ViewServiceServer
<1>3. ~PBServer["dying"]
      BY DEF PBServer
<1>4. ~KVPaxosServer["dying"]
      BY DEF KVPaxosServer
<1>5. ~ShardMasterServer["dying"]
      BY DEF ShardMasterServer
<1>6. ~ShardKVServer["dying"]
      BY DEF ShardKVServer
<1>7. ~DisKVServer["dying"]
      BY DEF DisKVServer
<1>8. ~LockServer["peer"]
      BY DEF LockServer
<1> QED
    BY <1>1, <1>2, <1>3, <1>4, <1>5, <1>6, <1>7, <1>8, KindsAssumption DEF AllKinds

LEMMA TendedPreserved == TypeOK /\ Sane /\ Tended /\ [Next]_rpcVars => Tended'
<1> SUFFICES ASSUME TypeOK, Sane, Tended, [Next]_rpcVars
             PROVE  Tended'
    OBVIOUS
<1> USE DEF Sane, CallSane, LoopSane, TypeOK, Tended, modeVars, stopVars, loopVars, callVars
<1>1. ASSUME NEW c \in Calls, Dial(c) PROVE Tended'
      BY <1>1 DEF Dial, Returns
<1>2. ASSUME NEW c \in Calls, Send(c) \/ Run(c) PROVE Tended'
      BY <1>2 DEF Send, Run, Runs
<1>3. ASSUME NEW c \in Calls, CallReturns(c) \/ CallFails(c) PROVE Tended'
      BY <1>3 DEF CallReturns, CallFails, Returns
<1>4. CASE Test \/ AcceptClosed \/ AcceptError
      BY <1>4 DEF Test, AcceptClosed, AcceptError
<1>5. CASE Accept
      BY <1>5 DEF Accept
<1>6. CASE Refuse \/ Discard
      BY <1>6 DEF Refuse, Discard, Becomes
<1>7. CASE ServeMute \/ Serve
      BY <1>7 DEF ServeMute, Serve, Becomes
<1>8. CASE StartTimer
      BY <1>8 DEF StartTimer
<1>9. CASE CloseAndListen
      BY <1>9 DEF CloseAndListen, Reset
<1>10. CASE TimerFires
      BY <1>10 DEF TimerFires
<1>11. CASE DeafEnds
  <2>1. kind["dying"] /\ ~kind["peer"]
        BY <1>11, DyingHasNoPeer DEF DeafEnds
  <2> QED
        BY <1>11, <2>1 DEF DeafEnds
<1>12. CASE CloseListener
      BY <1>12 DEF CloseListener, Reset
<1>13. CASE KillPeer \/ TickerEnds
      BY <1>13 DEF KillPeer, TickerEnds
<1>14. CASE Kill \/ LoopError
      BY <1>14 DEF Kill, LoopError, StartKill
<1>15. CASE SetUnreliable \/ SetDying
      BY <1>15 DEF SetUnreliable, SetDying
<1>16. CASE UNCHANGED rpcVars
      BY <1>16 DEF rpcVars
<1> QED
    BY <1>1, <1>2, <1>3, <1>4, <1>5, <1>6, <1>7, <1>8, <1>9, <1>10, <1>11, <1>12, <1>13,
       <1>14, <1>15, <1>16
       DEF Next, Background, Killing, Loop, Environment, Caller

LEMMA InvTended == Spec => []Tended
<1>1. Init => Tended
      BY DEF Init, Tended
<1>2. IInv /\ Tended /\ [Next]_rpcVars => Tended'
      BY TendedPreserved DEF IInv
<1> QED
    BY <1>1, <1>2, InvIInv, PTL DEF Spec

\* No caller and no goroutine waits for what nobody is going to do, however
\* many calls there are and whoever is killed: under the fairness of FairSpec
\* this is what every call returns for.
THEOREM NobodyIsStranded == Spec => []NobodyStranded
<1>1. IInv /\ Tended => NobodyStranded
  <2> SUFFICES ASSUME IInv, Tended PROVE NobodyStranded
      OBVIOUS
  <2>1. ASSUME NEW c \in Calls, client[c] \in {"dialled", "waits"}
        PROVE  \/ conn[c] \in {"served", "mute", "closed"}
               \/ conn[c] = "held" /\ c = cur /\ loop \in {"got", "hush"}
               \/ conn[c] = "deaf" /\ c = cur /\ timer
               \/ conn[c] = "backlog" /\ listening /\ (loop # "ended" \/ killing = "close")
    <3>1. conn[c] \in {"backlog", "held", "served", "mute", "deaf", "closed"}
          BY <2>1 DEF IInv, TypeOK, Sane, CallSane
    <3>2. conn[c] = "backlog" => listening
          BY DEF IInv, Sane, CallSane
    <3> QED
        BY <3>1, <3>2 DEF Tended
  <2>2. dead => killing \in {"close", "peer"} \/ (~listening /\ (kind["peer"] => peerDead))
        BY DEF IInv, TypeOK, Tended
  <2>3. loop = "deaf" => timer \/ conn[cur] = "closed"
        BY DEF Tended
  <2>4. loop = "kills" => killing # "no"
        BY DEF Tended
  <2> QED
      BY <2>1, <2>2, <2>3, <2>4 DEF NobodyStranded
<1> QED
    BY <1>1, InvIInv, InvTended, PTL

-----------------------------------------------------------------------------
(***************************************************************************)
(* LockService.                                                            *)
(***************************************************************************)
\* Who holds ls.mu is alone, and what it read is still so.
Guarded == \A c \in inside :
    /\ inside = {c} /\ kind = LockServer /\ client[c] # "idle"
    /\ locked[c] <=> name[c] \in locks

\* Only a handler that ran grants, once per lock, and enters what it grants.
Table == \A c \in Calls :
    /\ client[c] = "idle" => name[c] = Nothing
    /\ client[c] # "idle" /\ kind = LockServer => name[c] \in Names
    /\ granted[c] => /\ req[c] = "ran" /\ kind = LockServer
                     /\ name[c] \in locks
                     /\ \A d \in Calls : granted[d] /\ name[d] = name[c] => d = c

Shape == /\ locks \subseteq Names
         /\ name \in [Calls -> Names \cup {Nothing}]
         /\ inside \subseteq Calls
         /\ locked \in [Calls -> BOOLEAN]
         /\ granted \in [Calls -> BOOLEAN]

LockInv == IInv /\ Shape /\ Guarded /\ Table

LEMMA LockServerDies == ~LockServer["unreliable"]
BY WithFlags DEF LockServer, Flag

LEMMA LocksAreServers == [NextLocks]_vars => [Next]_rpcVars
BY DEF NextLocks, Surroundings, AskLock, AskOther, ReadTable, Lock, HandleOther, Next, vars

\* The lock server and its handler are a server, and so is each of the others.
THEOREM SpecLocksIsSpec == SpecLocks => Spec
<1>1. InitLocks => Init
      BY DEF InitLocks
<1> QED
    BY <1>1, LocksAreServers, PTL DEF SpecLocks, Spec

LEMMA LockInvInit == InitLocks => LockInv
<1> SUFFICES ASSUME InitLocks PROVE LockInv
    OBVIOUS
<1>1. IInv
      BY InitIInv DEF InitLocks
<1>2. Shape /\ Guarded /\ Table
      BY DEF InitLocks, Init, Shape, Guarded, Table
<1> QED
    BY <1>1, <1>2 DEF LockInv

LEMMA BackgroundKeeps ==
    ASSUME TypeOK, \A c \in Calls : CallSane(c), Background
    PROVE  \A c \in Calls : /\ req[c] = "ran" <=> req'[c] = "ran"
                            /\ client[c] = "idle" <=> client'[c] = "idle"
<1> USE DEF TypeOK
<1>1. CASE Loop
  <2>1. ASSUME Refuse \/ Discard \/ ServeMute \/ Serve PROVE UNCHANGED <<client, req>>
        BY <2>1 DEF Refuse, Discard, ServeMute, Serve, Becomes
  <2>2. ASSUME Test \/ Accept \/ AcceptClosed \/ LoopError PROVE UNCHANGED <<client, req>>
        BY <2>2 DEF Test, Accept, AcceptClosed, LoopError, callVars
  <2>3. ASSUME StartTimer \/ CloseAndListen \/ DeafEnds PROVE UNCHANGED <<client, req>>
        BY <2>3 DEF StartTimer, CloseAndListen, DeafEnds, callVars
  <2> QED
        BY <1>1, <2>1, <2>2, <2>3 DEF Loop
<1>2. CASE Killing \/ TimerFires \/ TickerEnds
      BY <1>2 DEF Killing, CloseListener, KillPeer, TimerFires, TickerEnds, callVars
<1>3. CASE Environment
      BY <1>3 DEF Environment, Kill, AcceptError, SetUnreliable, SetDying, callVars
<1>4. ASSUME NEW c \in Calls, Caller(c)
      PROVE  \A d \in Calls : /\ req[d] = "ran" <=> req'[d] = "ran"
                              /\ client[d] = "idle" <=> client'[d] = "idle"
  <2>1. CASE Send(c)
        BY <2>1 DEF Send, CallSane
  <2>2. CASE CallReturns(c) \/ CallFails(c)
        BY <2>2 DEF CallReturns, CallFails, Returns
  <2> QED
        BY <1>4, <2>1, <2>2 DEF Caller
<1> QED
    BY <1>1, <1>2, <1>3, <1>4 DEF Background

LEMMA LockInvStep == LockInv /\ [NextLocks]_vars => LockInv'
<1> SUFFICES ASSUME LockInv, [NextLocks]_vars
             PROVE  LockInv'
    OBVIOUS
<1>1. IInv /\ IInv' /\ TypeOK /\ kind' = kind /\ \A c \in Calls : CallSane(c)
      BY LocksAreServers, StepIInv, KindStays DEF LockInv, IInv, Sane
<1>2. Shape /\ Guarded /\ Table
      BY DEF LockInv
<1>3. ASSUME NEW c \in Calls, NEW n \in Names, AskLock(c, n)
      PROVE  Shape' /\ Guarded' /\ Table'
      BY <1>1, <1>2, <1>3, NamesAssumption
         DEF AskLock, Dial, Returns, CallSane, TypeOK, Shape, Guarded, Table
<1>4. ASSUME NEW c \in Calls, AskOther(c) PROVE Shape' /\ Guarded' /\ Table'
      BY <1>1, <1>2, <1>4
         DEF AskOther, Dial, Returns, lockVars, TypeOK, Shape, Guarded, Table
<1>5. ASSUME NEW c \in Calls, ReadTable(c) PROVE Shape' /\ Guarded' /\ Table'
  <2>1. /\ UNCHANGED <<req, client, locks, name, granted>> /\ kind = LockServer
        /\ client[c] # "idle" /\ inside' = {c}
        /\ locked' = [locked EXCEPT ![c] = name[c] \in locks]
        BY <1>1, <1>5 DEF ReadTable, Runs, CallSane, rpcVars, callVars
  <2>2. (name[c] \in locks) \in BOOLEAN
    <3>1. CASE name[c] \in locks
          BY <3>1
    <3>2. CASE name[c] \notin locks
          BY <3>2
    <3> QED
          BY <3>1, <3>2
  <2>3. Shape'
        BY <1>2, <2>1, <2>2 DEF Shape
  <2>4. locked'[c] <=> name[c] \in locks
        BY <1>2, <2>1 DEF Shape
  <2> QED
        BY <1>1, <1>2, <2>1, <2>3, <2>4 DEF Guarded, Table
<1>6. ASSUME NEW c \in Calls, Lock(c) PROVE Shape' /\ Guarded' /\ Table'
  <2>1. /\ req[c] = "sent" /\ ~granted[c] /\ client' = client /\ name' = name
        /\ req' = [req EXCEPT ![c] = "ran"] /\ name[c] \in Names /\ kind = LockServer
        /\ inside' = {} /\ locked' = locked
        BY <1>1, <1>2, <1>6 DEF Lock, Run, Runs, CallSane, TypeOK, Guarded, Table
  <2>2. locked[c] <=> name[c] \in locks
        BY <1>2, <1>6 DEF Lock, Guarded
  <2>3. locks' = locks \cup {name[c]}
        BY <1>6, <2>2 DEF Lock
  <2>4. (~locked[c]) \in BOOLEAN
        BY Zenon
  <2>5. granted' = [granted EXCEPT ![c] = ~locked[c]]
        BY <1>6 DEF Lock
  <2>6. Shape' /\ Guarded'
        BY <1>2, <2>1, <2>3, <2>4, <2>5 DEF Shape, Guarded
  <2>7. \A d \in Calls : IF d = c THEN granted'[d] <=> name[c] \notin locks
                                  ELSE granted'[d] <=> granted[d]
        BY <1>2, <2>2, <2>5 DEF Shape
  <2> QED
        BY <1>1, <1>2, <2>1, <2>3, <2>6, <2>7 DEF Table, TypeOK
<1>7. ASSUME NEW c \in Calls, HandleOther(c) PROVE Shape' /\ Guarded' /\ Table'
  <2>1. UNCHANGED lockVars /\ UNCHANGED client /\ \A d \in Calls : ~granted[d]
        BY <1>2, <1>7 DEF HandleOther, Run, Runs, Table
  <2> QED
        BY <1>1, <1>2, <2>1 DEF lockVars, Shape, Guarded, Table
<1>8. CASE Surroundings
  <2>1. \A c \in Calls : (req[c] = "ran" <=> req'[c] = "ran")
                            /\ (client[c] = "idle" <=> client'[c] = "idle")
        BY <1>1, <1>8, BackgroundKeeps DEF Surroundings
  <2>2. Shape' /\ Guarded'
        BY <1>1, <1>2, <1>8, <2>1 DEF Surroundings, lockVars, Shape, Guarded
  <2>3. Table'
        BY <1>1, <1>2, <1>8, <2>1 DEF Surroundings, lockVars, Shape, Table
  <2> QED
        BY <1>1, <2>2, <2>3 DEF LockInv
<1>9. CASE UNCHANGED vars
  <2>1. Shape' /\ Guarded' /\ Table'
        BY <1>2, <1>9 DEF vars, rpcVars, modeVars, callVars, lockVars, Shape, Guarded, Table
  <2> QED
        BY <1>1, <2>1 DEF LockInv
<1> QED
    BY <1>1, <1>3, <1>4, <1>5, <1>6, <1>7, <1>8, <1>9 DEF NextLocks, LockInv

LEMMA InvLockInv == SpecLocks => []LockInv
BY LockInvInit, LockInvStep, PTL DEF SpecLocks

-----------------------------------------------------------------------------
\* The shape of the state.
THEOREM LockTypeInvariant == SpecLocks => []LockTypeOK
<1>1. LockInv => LockTypeOK
      BY DEF LockInv, IInv, Shape, LockTypeOK
<1> QED
    BY <1>1, InvLockInv, PTL

\* No lock is granted twice, whatever is killed, dropped or handled late.
THEOREM LocksGrantedOnce == SpecLocks => []OneGrant
<1>1. LockInv => OneGrant
      BY DEF LockInv, Table, OneGrant
<1> QED
    BY <1>1, InvLockInv, PTL

\* A dying server grants at most one lock whose owner does not hear of it.
THEOREM OneLockIsLost == SpecLocks => []OneLostGrant
<1>1. LockInv => OneLostGrant
  <2> SUFFICES ASSUME LockInv PROVE OneLostGrant
      OBVIOUS
  <2>1. ASSUME NEW c \in LostGrants PROVE c = cur /\ dying
    <3>1. /\ c \in Calls /\ client[c] = "false" /\ req[c] = "ran" /\ kind = LockServer
          BY DEF LostGrants, LockInv, Table
    <3>2. ~kind["unreliable"]
          BY <3>1, LockServerDies
    <3>3. conn[c] = "closed"
          BY <3>1, <3>2 DEF LockInv, IInv, Sane, CallSane
    <3> QED
        BY <3>1, <3>3 DEF LockInv, IInv, Deaf
  <2>2. LostGrants \subseteq {cur}
        BY <2>1
  <2>3. IsFiniteSet({cur}) /\ Cardinality({cur}) = 1
        BY FS_Singleton
  <2>4. IsFiniteSet(LostGrants) /\ Cardinality(LostGrants) <= 1
        BY <2>2, <2>3, FS_Subset
  <2> QED
      BY <2>1, <2>4 DEF OneLostGrant
<1> QED
    BY <1>1, InvLockInv, PTL
=============================================================================
