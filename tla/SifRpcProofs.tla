---------------------------- MODULE SifRpcProofs ----------------------------
(***************************************************************************)
(* Proofs about SifRpc, for any number of threads, clients, packets and    *)
(* semaphores, any width of the request id, and sends that may fail.       *)
(***************************************************************************)
EXTENDS SifRpc, TLAPS

-----------------------------------------------------------------------------
(* Type correctness                                                        *)

LEMMA IdType == pid \in Pid => NextRpcId \in Pid /\ NextPid \in Pid
BY PidModAssumption DEF NextRpcId, NextPid, Pid

TypeInv == TypeOK /\ HoldsPacket

LEMMA GotoType ==
    ASSUME th \in [Thread -> ThreadState], NEW t \in Thread,
           NEW label \in {"idle", "fill", "create", "send", "wait", "blocked", "delete"}
    PROVE  Goto(t, label) \in [Thread -> ThreadState]
BY DEF Goto, ThreadState

LEMMA ReturnType ==
    ASSUME th \in [Thread -> ThreadState], NEW t \in Thread
    PROVE  Return(t) \in [Thread -> ThreadState]
<1>1. Idle \in ThreadState
  BY ClientAssumption DEF Idle, ThreadState, Op, Mode
<1> QED
  BY <1>1 DEF Return

LEMMA FreedType ==
    ASSUME pkt \in [Pkt -> Packet], NEW p PROVE Freed(p) \in [Pkt -> Packet]
<1>1. CASE p \in Pkt
  <2> DEFINE new == [pkt[p] EXCEPT !.alloc = FALSE, !.rpcId = 0]
  <2>1. 0 \in Pid
    BY PidModAssumption DEF Pid
  <2>2. new \in Packet
    BY <1>1, <2>1 DEF Packet
  <2>3. Freed(p) = [pkt EXCEPT ![p] = new]
    BY <1>1 DEF Freed
  <2> QED
    BY <1>1, <2>2, <2>3
<1> QED
  BY <1>1 DEF Freed

\* Every step keeps every variable in its type: ids wrap within the width of
\* rpc_data.pid, a semaphore of max_count 1 never counts higher.
LEMMA TypeStep == TypeInv /\ [Next]_vars => TypeInv'
<1> SUFFICES ASSUME TypeInv, [Next]_vars PROVE TypeInv'
  OBVIOUS
<1> USE DEF TypeInv, TypeOK, HoldsPacket, Holding
<1>1. ASSUME NEW t \in Thread, NEW c \in Client, NEW op \in Op, NEW mode \in Modes,
             GetPacket(t, c, op, mode)
      PROVE  TypeInv'
  <2> PICK rid \in Pkt :
         /\ pkt' = [pkt EXCEPT ![rid].alloc = TRUE, ![rid].rpcId = NextRpcId]
         /\ pid' = NextPid
         /\ th' = [th EXCEPT ![t] = [pc |-> "fill", client |-> c, op |-> op,
                                     mode |-> mode, pkt |-> rid,
                                     sema |-> NULL]]
    BY <1>1 DEF GetPacket
  <2>1. pkt' \in [Pkt -> Packet]
    BY IdType DEF Packet
  <2>2. th' \in [Thread -> ThreadState]
    BY ModesAssumption DEF ThreadState
  <2>3. pid' \in Pid
    BY IdType
  <2> QED
    BY <1>1, <2>1, <2>2, <2>3 DEF GetPacket
<1>2. ASSUME NEW t \in Thread, NoPacket(t) PROVE TypeInv'
  BY <1>2 DEF NoPacket, vars
<1>3. ASSUME NEW t \in Thread, Fill(t) PROVE TypeInv'
  <2>1. th[t].client \in Client /\ th[t].pkt \in Pkt /\ th[t].op \in Op
    BY <1>3 DEF Fill, ThreadState
  <2>2. pkt[th[t].pkt].rpcId \in Pid /\ cd[th[t].client].server \in BOOLEAN
    BY <2>1 DEF Packet, ClientData
  <2>3. cd' \in [Client -> ClientData]
    BY <1>3, <2>1, <2>2 DEF Fill, ClientData
  <2>4. th' \in [Thread -> ThreadState]
    BY <1>3, GotoType DEF Fill
  <2> QED
    BY <1>3, <2>1, <2>3, <2>4 DEF Fill, Goto, ThreadState
<1>4. ASSUME NEW t \in Thread, CreateSema(t) PROVE TypeInv'
  <2> PICK s \in Sema : /\ sema' = [sema EXCEPT ![s] = 0]
                        /\ cd' = [cd EXCEPT ![th[t].client].sema = s]
    BY <1>4 DEF CreateSema
  <2>1. cd' \in [Client -> ClientData]
    BY DEF ClientData
  <2>2. th' \in [Thread -> ThreadState]
    BY <1>4, GotoType DEF CreateSema
  <2> QED
    BY <1>4, <2>1, <2>2 DEF CreateSema, Goto, ThreadState
<1>5. ASSUME NEW t \in Thread, CreateSemaFails(t) PROVE TypeInv'
  <2>1. cd' \in [Client -> ClientData]
    BY <1>5 DEF CreateSemaFails, ClientData
  <2> QED
    BY <1>5, <2>1, ReturnType DEF CreateSemaFails, Return, Idle
<1>6. ASSUME NEW t \in Thread, Send(t) PROVE TypeInv'
  <2>1. toIop' \subseteq Request
    <3>1. th[t].pkt \in Pkt /\ th[t].client \in Client /\ th[t].op \in Op
      BY <1>6 DEF Send, ThreadState
    <3>2. Rmode(th[t].op, th[t].mode) \in BOOLEAN
      BY DEF Rmode
    <3> QED
      BY <1>6, <3>1, <3>2 DEF Send, Request
  <2>2. th' \in [Thread -> ThreadState]
    BY <1>6, GotoType, ReturnType DEF Send
  <2> QED
    BY <1>6, <2>1, <2>2 DEF Send, Goto, Return, Idle
<1>7. ASSUME NEW t \in Thread, SendFails(t) PROVE TypeInv'
  BY <1>7, ReturnType DEF SendFails, Return, Idle
<1>8. ASSUME NEW t \in Thread, WaitSema(t) PROVE TypeInv'
  <2>1. th' \in [Thread -> ThreadState]
    <3>1. th[t].client \in Client
      BY DEF ThreadState
    <3>2. cd[th[t].client].sema \in Sema \cup {NULL}
      BY <3>1 DEF ClientData
    <3> DEFINE new == [th[t] EXCEPT !.pc = "blocked",
                                    !.sema = cd[th[t].client].sema]
    <3>3. new \in ThreadState
      BY <3>2 DEF ThreadState
    <3>4. th' = [th EXCEPT ![t] = new]
      BY <1>8 DEF WaitSema
    <3> QED
      BY <3>3, <3>4
  <2> QED
    BY <1>8, <2>1 DEF WaitSema
<1>9. ASSUME NEW t \in Thread, WakeUp(t) PROVE TypeInv'
  <2>1. th' \in [Thread -> ThreadState]
    BY <1>9, GotoType DEF WakeUp
  <2> QED
    BY <1>9, <2>1 DEF WakeUp, Goto
<1>10. ASSUME NEW t \in Thread, DeleteSema(t) PROVE TypeInv'
  BY <1>10, ReturnType DEF DeleteSema, Return, Idle
<1>11. ASSUME NEW m \in toEe, RequestEnd(m) PROVE TypeInv'
  <2>1. m.client \in Client /\ m.server \in BOOLEAN
    BY DEF Reply
  <2>2. cd' \in [Client -> ClientData]
    <3> DEFINE found == IF m.cid = "bind" THEN m.server ELSE cd[m.client].server
    <3>1. found \in BOOLEAN
      BY <2>1 DEF ClientData
    <3>2. cd' = [cd EXCEPT ![m.client].pkt = NULL, ![m.client].server = found]
      BY <1>11 DEF RequestEnd
    <3> HIDE DEF found
    <3> QED
      BY <2>1, <3>1, <3>2 DEF ClientData
  <2>3. pkt' \in [Pkt -> Packet]
    BY <1>11, FreedType DEF RequestEnd
  <2>4. sema' \in [Sema -> {Deleted, 0, 1}]
    BY <1>11 DEF RequestEnd, Signalled
  <2> QED
    BY <1>11, <2>2, <2>3, <2>4 DEF RequestEnd
<1>12. ASSUME NEW m \in toEe, RendDma(m) PROVE TypeInv'
  <2>1. pkt' \in [Pkt -> Packet]
    BY <1>12, FreedType DEF RendDma
  <2> QED
    BY <1>12, <2>1 DEF RendDma
<1>13. ASSUME NEW m \in toIop, PeerReply(m) PROVE TypeInv'
  <2>1. toEe' \subseteq Reply
    BY <1>13 DEF PeerReply, Request, Reply
  <2> QED
    BY <1>13, <2>1 DEF PeerReply
<1>14. CASE UNCHANGED vars
  BY <1>14 DEF vars
<1> QED
  BY <1>1, <1>2, <1>3, <1>4, <1>5, <1>6, <1>7, <1>8, <1>9, <1>10, <1>11, <1>12,
     <1>13, <1>14 DEF Next, Start, Continue

\* Init gives every variable a value of its type.
LEMMA TypeInit == Init => TypeInv
<1> SUFFICES ASSUME Init PROVE TypeInv
  OBVIOUS
<1>1. Idle \in ThreadState
  BY ClientAssumption DEF Idle, ThreadState, Op, Mode
<1>2. 1 \in Pid /\ 0 \in Pid
  BY PidModAssumption DEF Pid
<1> QED
  BY <1>1, <1>2 DEF Init, TypeInv, TypeOK, HoldsPacket, Holding, Packet, ClientData,
     Idle

\* The type invariant of the RPC client holds for every value of the constants.
THEOREM TypeCorrect == Spec => []TypeOK
<1>1. Spec => []TypeInv
  BY TypeInit, TypeStep, PTL DEF Spec
<1>2. TypeInv => TypeOK
  BY DEF TypeInv
<1> QED
  BY <1>1, <1>2, PTL

-----------------------------------------------------------------------------
(* The inductive invariant, action by action                               *)

LEMMA RequestIsNoReply == \A m \in Request : m \notin Reply
<1> SUFFICES ASSUME NEW m \in Request, m \in Reply PROVE FALSE
  OBVIOUS
<1>1. DOMAIN m = {"pkt", "client", "cid", "rmode"}
  BY DEF Request
<1>2. DOMAIN m = {"pkt", "client", "cid", "rmode", "server"}
  BY DEF Reply
<1> QED
  BY <1>1, <1>2

LEMMA GetPacketStep ==
    ASSUME IInv, TypeInv', NEW t \in Thread, NEW c \in Client, NEW op \in Op, NEW mode \in Modes,
             ClientFree(c), GetPacket(t, c, op, mode)
    PROVE  IInv'
<1> USE DEF IInv, TypeInv, TypeOK, Holding, Messages, Packet, ClientData, ThreadState, Request, Reply, NULL, Deleted, Pkt, Sema
<1>a. PICK rid \in Pkt :
        /\ ~pkt[rid].alloc
        /\ pkt' = [pkt EXCEPT ![rid].alloc = TRUE, ![rid].rpcId = NextRpcId]
        /\ th' = [th EXCEPT ![t] = [pc |-> "fill", client |-> c, op |-> op,
                                    mode |-> mode, pkt |-> rid, sema |-> NULL]]
        /\ UNCHANGED <<cd, sema, toIop, toEe>>
  BY DEF GetPacket, FirstFree
<1>b. /\ pkt'[rid].alloc
      /\ \A p \in Pkt \ {rid} : pkt'[p] = pkt[p]
      /\ th'[t].pc = "fill" /\ th'[t].pkt = rid /\ th'[t].client = c
      /\ \A u \in Thread \ {t} : th'[u] = th[u]
  BY <1>a
<1>1. PacketOwnership'
  <2>1. Messages' = Messages /\ \A n \in Messages : n.pkt \in Pkt
    BY <1>a
  <2>2. /\ \A u \in Thread \ {t}, p \in Pkt : Holds(u, p)' <=> Holds(u, p)
        /\ \A p \in Pkt : Holds(t, p)' <=> p = rid
        /\ \A p \in Pkt : pkt'[p].alloc <=> (pkt[p].alloc \/ p = rid)
    BY <1>a, <1>b DEF Holds
  <2>3. /\ \A u \in Thread : ~Holds(u, rid)
        /\ \A n \in Messages : n.pkt # rid
    BY <1>a DEF PacketOwnership
  <2> HIDE DEF Messages
  <2>4. /\ \A u \in Thread, p \in Pkt : Holds(u, p)' => pkt'[p].alloc
        /\ \A n \in Messages' : pkt'[n.pkt].alloc
    BY <2>1, <2>2 DEF PacketOwnership
  <2>5. \A u, v \in Thread, p \in Pkt : Holds(u, p)' /\ Holds(v, p)' => u = v
    <3> SUFFICES ASSUME NEW u \in Thread, NEW v \in Thread, NEW p \in Pkt,
                        Holds(u, p)', Holds(v, p)', u # v
                 PROVE  FALSE
      OBVIOUS
    <3>1. CASE p = rid
      BY <2>2, <2>3, <3>1
    <3>2. CASE p # rid
      BY <2>2, <3>2 DEF PacketOwnership
    <3> QED
      BY <3>1, <3>2
  <2>6. \A u \in Thread, p \in Pkt, n \in Messages : ~(Holds(u, p)' /\ n.pkt = p)
    <3> SUFFICES ASSUME NEW u \in Thread, NEW p \in Pkt, NEW n \in Messages,
                        Holds(u, p)', n.pkt = p
                 PROVE  FALSE
      OBVIOUS
    <3>1. u # t /\ Holds(u, p)
      BY <2>2, <2>3
    <3> QED
      BY <3>1 DEF PacketOwnership, Names
  <2> QED
    BY <2>1, <2>4, <2>5, <2>6 DEF PacketOwnership, Names
<1>2. Exclusive'
  BY DEF GetPacket, ClientFree, FirstFree, Exclusive, Active
<1>3. LastRequest'
  BY DEF GetPacket, ClientFree, FirstFree, LastRequest, PacketOwnership, NoOtherRequest, Holds, Names
<1>4. NoOtherRequest'
  BY DEF GetPacket, ClientFree, FirstFree, NoOtherRequest, Exclusive, Active
<1>5. CallInProgress'
  <2>1. \A u \in Thread : th[u].pc \in {"create", "send"} =>
         th[u].pkt \in Pkt \ {rid}
    BY <1>a DEF PacketOwnership, Holds, HoldsPacket
  <2> QED
    BY <1>a, <1>b, <2>1 DEF CallInProgress, SemaOf, Waiting
<1>6. SemaOwnership'
  BY DEF GetPacket, ClientFree, FirstFree, SemaOwnership, OwnsSema, SemaOf, CallInProgress, Waiting, Exclusive, Active
<1>7. Awaited'
  <2>1. \A u \in Thread : th[u].pc \in Waiting => th'[u] = th[u]
    BY <1>b DEF GetPacket, Active, Waiting
  <2> QED
    BY <1>a, <2>1 DEF Awaited
<1>8. SignalledMeansDone'
  BY DEF GetPacket, ClientFree, FirstFree, SignalledMeansDone, SemaOwnership, OwnsSema, SemaOf, Waiting, NoOtherRequest, CallInProgress, Exclusive, Active, Awaited, LastRequest, PacketOwnership, Holds, Names
<1>9. NoEarlyReturn'
  BY DEF GetPacket, ClientFree, FirstFree, NoEarlyReturn, SignalledMeansDone, Exclusive, Active, SemaOwnership, OwnsSema, SemaOf, CallInProgress, Waiting
<1> QED
  BY <1>1, <1>2, <1>3, <1>4, <1>5, <1>6, <1>7, <1>8, <1>9

LEMMA FillStep ==
    ASSUME IInv, TypeInv', NEW t \in Thread, Fill(t)
    PROVE  IInv'
<1> USE DEF IInv, TypeInv, TypeOK, Holding, Messages, Packet, ClientData, ThreadState, Request, Reply, NULL, Deleted, Pkt, Sema
<1>1. PacketOwnership'
  BY DEF Fill, Goto, PacketOwnership, Holds, Names
<1>2. Exclusive'
  BY DEF Fill, Goto, Exclusive, Active
<1>3. LastRequest'
  BY DEF Fill, Goto, LastRequest, PacketOwnership, NoOtherRequest, Holds, Names
<1>4. NoOtherRequest'
  BY DEF Fill, Goto, NoOtherRequest, Exclusive, Active
<1>5. CallInProgress'
  BY DEF Fill, Goto, CallInProgress, Exclusive, Active, SemaOwnership, OwnsSema, SemaOf, Waiting, PacketOwnership, Holds, Names, NoOtherRequest
<1>6. SemaOwnership'
  BY DEF Fill, Goto, SemaOwnership, OwnsSema, SemaOf, CallInProgress, Waiting, Exclusive, Active
<1>7. Awaited'
  BY DEF Fill, Goto, Awaited, SemaOf, CallInProgress, Exclusive, Active, Waiting, NoOtherRequest
<1>8. SignalledMeansDone'
  BY DEF Fill, Goto, SignalledMeansDone, SemaOwnership, OwnsSema, SemaOf, Waiting, NoOtherRequest, CallInProgress, Exclusive, Active, Awaited, LastRequest, PacketOwnership, Holds, Names
<1>9. NoEarlyReturn'
  BY DEF Fill, Goto, NoEarlyReturn, SignalledMeansDone, Exclusive, Active, SemaOwnership, OwnsSema, SemaOf, CallInProgress, Waiting
<1> QED
  BY <1>1, <1>2, <1>3, <1>4, <1>5, <1>6, <1>7, <1>8, <1>9

LEMMA CreateSemaStep ==
    ASSUME IInv, TypeInv', NEW t \in Thread, CreateSema(t)
    PROVE  IInv'
<1> USE DEF IInv, TypeInv, TypeOK, Holding, Messages, Packet, ClientData, ThreadState, Request, Reply, NULL, Deleted, Pkt, Sema
<1>1. PacketOwnership'
  BY DEF CreateSema, Goto, PacketOwnership, Holds, Names
<1>2. Exclusive'
  BY DEF CreateSema, Goto, Exclusive, Active
<1>3. LastRequest'
  BY DEF CreateSema, Goto, LastRequest, PacketOwnership, NoOtherRequest, Holds, Names
<1>4. NoOtherRequest'
  BY DEF CreateSema, Goto, NoOtherRequest, Exclusive, Active
<1>5. CallInProgress'
  BY DEF CreateSema, Goto, CallInProgress, Exclusive, Active, SemaOwnership, OwnsSema, SemaOf, Waiting, PacketOwnership, Holds, Names, NoOtherRequest
<1>6. SemaOwnership'
  BY DEF CreateSema, Goto, SemaOwnership, OwnsSema, SemaOf, CallInProgress, Waiting, Exclusive, Active
<1>7. Awaited'
  BY DEF CreateSema, Goto, Awaited, SemaOf, CallInProgress, Exclusive, Active, Waiting, NoOtherRequest
<1>8. SignalledMeansDone'
  BY DEF CreateSema, Goto, SignalledMeansDone, SemaOwnership, OwnsSema, SemaOf, Waiting, NoOtherRequest, CallInProgress, Exclusive, Active, Awaited, LastRequest, PacketOwnership, Holds, Names
<1>9. NoEarlyReturn'
  BY DEF CreateSema, Goto, NoEarlyReturn, SignalledMeansDone, Exclusive, Active, SemaOwnership, OwnsSema, SemaOf, CallInProgress, Waiting
<1> QED
  BY <1>1, <1>2, <1>3, <1>4, <1>5, <1>6, <1>7, <1>8, <1>9

LEMMA CreateSemaFailsStep ==
    ASSUME IInv, TypeInv', NEW t \in Thread, CreateSemaFails(t)
    PROVE  IInv'
<1> USE DEF IInv, TypeInv, TypeOK, Holding, Messages, Packet, ClientData, ThreadState, Request, Reply, NULL, Deleted, Pkt, Sema
<1>1. PacketOwnership'
  BY DEF CreateSemaFails, Return, Idle, PacketOwnership, Holds, Names
<1>2. Exclusive'
  BY DEF CreateSemaFails, Return, Idle, Exclusive, Active
<1>3. LastRequest'
  BY DEF CreateSemaFails, Return, Idle, LastRequest, PacketOwnership, NoOtherRequest, Holds, Names
<1>4. NoOtherRequest'
  BY DEF CreateSemaFails, Return, Idle, NoOtherRequest, Exclusive, Active
<1>5. CallInProgress'
  BY DEF CreateSemaFails, Return, Idle, CallInProgress, Exclusive, Active, SemaOwnership, OwnsSema, SemaOf, Waiting, PacketOwnership, Holds, Names, NoOtherRequest
<1>6. SemaOwnership'
  BY DEF CreateSemaFails, Return, Idle, SemaOwnership, OwnsSema, SemaOf, CallInProgress, Waiting, Exclusive, Active
<1>7. Awaited'
  <2> SUFFICES ASSUME NEW m \in Messages, m.rmode
               PROVE  \/ cd'[m.client].sema = NULL
                      \/ \E u \in Thread : th'[u].pc \in Waiting /\ th'[u].client = m.client
    BY DEF CreateSemaFails, Awaited
  <2>1. m.client \in Client /\ th[t].client \in Client /\ m.client # th[t].client
    BY DEF CreateSemaFails, NoOtherRequest
  <2>2. cd'[m.client] = cd[m.client]
    BY <2>1 DEF CreateSemaFails
  <2>3. \A u \in Thread : th[u].pc \in Waiting => th'[u] = th[u]
    BY DEF CreateSemaFails, Return, Waiting
  <2> QED
    BY <2>2, <2>3 DEF Awaited
<1>8. SignalledMeansDone'
  BY DEF CreateSemaFails, Return, Idle, SignalledMeansDone, SemaOwnership, OwnsSema, SemaOf, Waiting, NoOtherRequest, CallInProgress, Exclusive, Active, Awaited, LastRequest, PacketOwnership, Holds, Names
<1>9. NoEarlyReturn'
  BY DEF CreateSemaFails, Return, Idle, NoEarlyReturn, SignalledMeansDone, Exclusive, Active, SemaOwnership, OwnsSema, SemaOf, CallInProgress, Waiting
<1> QED
  BY <1>1, <1>2, <1>3, <1>4, <1>5, <1>6, <1>7, <1>8, <1>9

LEMMA SendStep ==
    ASSUME IInv, TypeInv', NEW t \in Thread, Send(t)
    PROVE  IInv'
<1> USE DEF IInv, TypeInv, TypeOK, Holding, Messages, Packet, ClientData, ThreadState, Request, Reply, NULL, Deleted, Pkt, Sema
<1>a. PICK m \in Request :
        /\ m = [pkt |-> th[t].pkt, client |-> th[t].client, cid |-> th[t].op,
                rmode |-> Rmode(th[t].op, th[t].mode)]
        /\ toIop' = toIop \cup {m}
  BY DEF Send, Rmode
<1>b. /\ \A u \in Thread \ {t} : th'[u] = th[u]
      /\ th'[t].pc = IF th[t].mode = "wait" THEN "wait" ELSE "idle"
      /\ th[t].mode = "wait" => th'[t].client = th[t].client
      /\ UNCHANGED <<pkt, cd, sema, toEe>>
      /\ th[t].pc = "send"
  BY DEF Send, Goto, Return, Idle
<1>1. PacketOwnership'
  BY DEF Send, Goto, Return, Idle, Rmode, PacketOwnership, Holds, Names
<1>2. Exclusive'
  BY DEF Send, Goto, Return, Idle, Rmode, Exclusive, Active
<1>3. LastRequest'
  <2>1. m.rmode => cd[m.client].pkt = m.pkt /\ cd[m.client].rpcId = pkt[m.pkt].rpcId
    BY <1>a, <1>b DEF CallInProgress
  <2> QED
    BY <1>a, <1>b, <2>1 DEF LastRequest
<1>4. NoOtherRequest'
  <2>1. \A u \in Thread : th'[u].pc \in Holding =>
           th[u].pc \in Holding /\ th'[u] = th[u] /\ u # t
    BY <1>b
  <2>2. \A u \in Thread \ {t} : th[u].pc \in Holding => th[u].client # m.client
    BY <1>a, <1>b DEF Exclusive, Active
  <2> QED
    BY <1>a, <1>b, <2>1, <2>2 DEF NoOtherRequest
<1>5. CallInProgress'
  BY DEF Send, Goto, Return, Idle, Rmode, CallInProgress, Exclusive, Active, SemaOwnership, OwnsSema, SemaOf, Waiting, PacketOwnership, Holds, Names, NoOtherRequest
<1>6. SemaOwnership'
  BY DEF Send, Goto, Return, Idle, Rmode, SemaOwnership, OwnsSema, SemaOf, CallInProgress, Waiting, Exclusive, Active
<1>7. Awaited'
  <2>1. m.rmode => \/ cd[m.client].sema = NULL
                   \/ \E u \in Thread : th'[u].pc \in Waiting /\ th'[u].client = m.client
    <3>1. CASE th[t].mode = "wait"
      BY <1>a, <1>b, <3>1 DEF Waiting
    <3>2. CASE th[t].mode # "wait"
      BY <1>a, <1>b, <3>2 DEF CallInProgress, SemaOf
    <3> QED
      BY <3>1, <3>2
  <2>2. \A u \in Thread : th[u].pc \in Waiting => u # t
    BY <1>b DEF Waiting
  <2> QED
    BY <1>a, <1>b, <2>1, <2>2 DEF Awaited
<1>8. SignalledMeansDone'
  BY DEF Send, Goto, Return, Idle, Rmode, SignalledMeansDone, SemaOwnership, OwnsSema, SemaOf, Waiting, NoOtherRequest, CallInProgress, Exclusive, Active, Awaited, LastRequest, PacketOwnership, Holds, Names
<1>9. NoEarlyReturn'
  BY DEF Send, Goto, Return, Idle, Rmode, NoEarlyReturn, SignalledMeansDone, Exclusive, Active, SemaOwnership, OwnsSema, SemaOf, CallInProgress, Waiting
<1> QED
  BY <1>1, <1>2, <1>3, <1>4, <1>5, <1>6, <1>7, <1>8, <1>9

LEMMA SendFailsStep ==
    ASSUME IInv, TypeInv', NEW t \in Thread, SendFails(t)
    PROVE  IInv'
<1> USE DEF IInv, TypeInv, TypeOK, Holding, Messages, Packet, ClientData, ThreadState, Request, Reply, NULL, Deleted, Pkt, Sema
<1>1. PacketOwnership'
  BY DEF SendFails, Return, Idle, PacketOwnership, Holds, Names
<1>2. Exclusive'
  BY DEF SendFails, Return, Idle, Exclusive, Active
<1>3. LastRequest'
  BY DEF SendFails, Return, Idle, LastRequest, PacketOwnership, NoOtherRequest, Holds, Names
<1>4. NoOtherRequest'
  BY DEF SendFails, Return, Idle, NoOtherRequest, Exclusive, Active
<1>5. CallInProgress'
  BY DEF SendFails, Return, Idle, CallInProgress, Exclusive, Active, SemaOwnership, OwnsSema, SemaOf, Waiting, PacketOwnership, Holds, Names, NoOtherRequest
<1>6. SemaOwnership'
  BY DEF SendFails, Return, Idle, SemaOwnership, OwnsSema, SemaOf, CallInProgress, Waiting, Exclusive, Active
<1>7. Awaited'
  BY DEF SendFails, Return, Idle, Awaited, SemaOf, CallInProgress, Exclusive, Active, Waiting, NoOtherRequest
<1>8. SignalledMeansDone'
  BY DEF SendFails, Return, Idle, SignalledMeansDone, SemaOwnership, OwnsSema, SemaOf, Waiting, NoOtherRequest, CallInProgress, Exclusive, Active, Awaited, LastRequest, PacketOwnership, Holds, Names
<1>9. NoEarlyReturn'
  BY DEF SendFails, Return, Idle, NoEarlyReturn, SignalledMeansDone, Exclusive, Active, SemaOwnership, OwnsSema, SemaOf, CallInProgress, Waiting
<1> QED
  BY <1>1, <1>2, <1>3, <1>4, <1>5, <1>6, <1>7, <1>8, <1>9

LEMMA WaitSemaStep ==
    ASSUME IInv, TypeInv', NEW t \in Thread, WaitSema(t)
    PROVE  IInv'
<1> USE DEF IInv, TypeInv, TypeOK, Holding, Messages, Packet, ClientData, ThreadState, Request, Reply, NULL, Deleted, Pkt, Sema
<1>b. /\ \A u \in Thread \ {t} : th'[u] = th[u]
      /\ th[t].pc = "wait" /\ th'[t].pc = "blocked"
      /\ th'[t].client = th[t].client /\ th'[t].mode = th[t].mode
      /\ th'[t].sema = cd[th[t].client].sema
      /\ UNCHANGED <<pkt, cd, sema, toIop, toEe>>
  BY DEF WaitSema
<1>1. PacketOwnership'
  <2>1. Messages' = Messages /\ pkt' = pkt
    BY <1>b
  <2>2. \A u \in Thread, p \in Pkt : Holds(u, p)' <=> Holds(u, p)
    BY <1>b DEF Holds
  <2> HIDE DEF Messages
  <2> QED
    BY <2>1, <2>2 DEF PacketOwnership, Names
<1>2. Exclusive'
  BY DEF WaitSema, Exclusive, Active
<1>3. LastRequest'
  BY DEF WaitSema, LastRequest, PacketOwnership, NoOtherRequest, Holds, Names
<1>4. NoOtherRequest'
  BY DEF WaitSema, NoOtherRequest, Exclusive, Active
<1>5. CallInProgress'
  BY <1>b DEF CallInProgress, SemaOf, Waiting
<1>6. SemaOwnership'
  BY <1>b DEF SemaOwnership, OwnsSema, SemaOf, Waiting
<1>7. Awaited'
  <2>1. \A u \in Thread : th[u].pc \in Waiting => th'[u].pc \in Waiting /\ th'[u].client = th[u].client
    BY <1>b DEF Waiting
  <2> QED
    BY <1>b, <2>1 DEF Awaited
<1>8. SignalledMeansDone'
  BY <1>b DEF SignalledMeansDone, SemaOf, Waiting
<1>9. NoEarlyReturn'
  BY DEF WaitSema, NoEarlyReturn, SignalledMeansDone, Exclusive, Active, SemaOwnership, OwnsSema, SemaOf, CallInProgress, Waiting
<1> QED
  BY <1>1, <1>2, <1>3, <1>4, <1>5, <1>6, <1>7, <1>8, <1>9

LEMMA WakeUpStep ==
    ASSUME IInv, TypeInv', NEW t \in Thread, WakeUp(t)
    PROVE  IInv'
<1> USE DEF IInv, TypeInv, TypeOK, Holding, Messages, Packet, ClientData, ThreadState, Request, Reply, NULL, Deleted, Pkt, Sema
<1>1. PacketOwnership'
  BY DEF WakeUp, Goto, PacketOwnership, Holds, Names
<1>2. Exclusive'
  BY DEF WakeUp, Goto, Exclusive, Active
<1>3. LastRequest'
  BY DEF WakeUp, Goto, LastRequest, PacketOwnership, NoOtherRequest, Holds, Names
<1>4. NoOtherRequest'
  BY DEF WakeUp, Goto, NoOtherRequest, Exclusive, Active
<1>5. CallInProgress'
  BY DEF WakeUp, Goto, CallInProgress, Exclusive, Active, SemaOwnership, OwnsSema, SemaOf, Waiting, PacketOwnership, Holds, Names, NoOtherRequest
<1>6. SemaOwnership'
  BY DEF WakeUp, Goto, SemaOwnership, OwnsSema, SemaOf, CallInProgress, Waiting, Exclusive, Active
<1>7. Awaited'
  <2> SUFFICES ASSUME NEW m \in Messages, m.rmode
               PROVE  \/ cd[m.client].sema = NULL
                      \/ \E u \in Thread : th'[u].pc \in Waiting /\ th'[u].client = m.client
    BY DEF WakeUp, Awaited
  <2>1. m.client # th[t].client
    BY DEF WakeUp, CallInProgress, SemaOwnership, OwnsSema, SemaOf, SignalledMeansDone, Waiting
  <2>2. \A u \in Thread \ {t} : th'[u] = th[u]
    BY DEF WakeUp, Goto
  <2>3. CASE cd[m.client].sema = NULL
    BY <2>3
  <2>4. CASE cd[m.client].sema # NULL
    <3>1. PICK u \in Thread : th[u].pc \in Waiting /\ th[u].client = m.client
      BY <2>4 DEF Awaited
    <3> QED
      BY <2>1, <2>2, <3>1
  <2> QED
    BY <2>3, <2>4
<1>8. SignalledMeansDone'
  BY DEF WakeUp, Goto, SignalledMeansDone, SemaOwnership, OwnsSema, SemaOf, Waiting, NoOtherRequest, CallInProgress, Exclusive, Active, Awaited, LastRequest, PacketOwnership, Holds, Names
<1>9. NoEarlyReturn'
  BY DEF WakeUp, Goto, NoEarlyReturn, SignalledMeansDone, Exclusive, Active, SemaOwnership, OwnsSema, SemaOf, CallInProgress, Waiting
<1> QED
  BY <1>1, <1>2, <1>3, <1>4, <1>5, <1>6, <1>7, <1>8, <1>9

LEMMA DeleteSemaStep ==
    ASSUME IInv, TypeInv', NEW t \in Thread, DeleteSema(t)
    PROVE  IInv'
<1> USE DEF IInv, TypeInv, TypeOK, Holding, Messages, Packet, ClientData, ThreadState, Request, Reply, NULL, Deleted, Pkt, Sema
<1>1. PacketOwnership'
  BY DEF DeleteSema, Return, Idle, PacketOwnership, Holds, Names
<1>2. Exclusive'
  BY DEF DeleteSema, Return, Idle, Exclusive, Active
<1>3. LastRequest'
  BY DEF DeleteSema, Return, Idle, LastRequest, PacketOwnership, NoOtherRequest, Holds, Names
<1>4. NoOtherRequest'
  BY DEF DeleteSema, Return, Idle, NoOtherRequest, Exclusive, Active
<1>5. CallInProgress'
  BY DEF DeleteSema, Return, Idle, CallInProgress, Exclusive, Active, SemaOwnership, OwnsSema, SemaOf, Waiting, PacketOwnership, Holds, Names, NoOtherRequest
<1>6. SemaOwnership'
  BY DEF DeleteSema, Return, Idle, SemaOwnership, OwnsSema, SemaOf, CallInProgress, Waiting, Exclusive, Active
<1>7. Awaited'
  BY DEF DeleteSema, Return, Idle, Awaited, SemaOf, CallInProgress, Exclusive, Active, Waiting, NoOtherRequest
<1>8. SignalledMeansDone'
  BY DEF DeleteSema, Return, Idle, SignalledMeansDone, SemaOwnership, OwnsSema, SemaOf, Waiting, NoOtherRequest, CallInProgress, Exclusive, Active, Awaited, LastRequest, PacketOwnership, Holds, Names
<1>9. NoEarlyReturn'
  BY DEF DeleteSema, Return, Idle, NoEarlyReturn, SignalledMeansDone, Exclusive, Active, SemaOwnership, OwnsSema, SemaOf, CallInProgress, Waiting
<1> QED
  BY <1>1, <1>2, <1>3, <1>4, <1>5, <1>6, <1>7, <1>8, <1>9

LEMMA RequestEndStep ==
    ASSUME IInv, TypeInv', NEW m \in toEe, RequestEnd(m)
    PROVE  IInv'
<1> USE DEF IInv, TypeInv, TypeOK, Holding, Messages, Packet, ClientData, ThreadState, Request, Reply, NULL, Deleted, Pkt, Sema
<1>a. /\ m \in Reply /\ m \in Messages /\ m.rmode
      /\ Messages' = Messages \ {m}
      /\ UNCHANGED th
  BY RequestIsNoReply DEF RequestEnd
<1>b. /\ cd[m.client].pkt = m.pkt
      /\ pkt' = [pkt EXCEPT ![m.pkt].alloc = FALSE, ![m.pkt].rpcId = 0]
  BY <1>a DEF RequestEnd, Freed, LastRequest
<1>c. /\ \A p \in Pkt \ {m.pkt} : pkt'[p] = pkt[p]
      /\ \A n \in Messages' : n.pkt # m.pkt
  BY <1>a, <1>b DEF PacketOwnership
<1>d. /\ \A c \in Client \ {m.client} : cd'[c] = cd[c]
      /\ cd'[m.client].sema = cd[m.client].sema
      /\ \A n \in Messages' : n.rmode => n.client # m.client
  BY <1>a, <1>b, <1>c DEF RequestEnd, LastRequest
<1>1. PacketOwnership'
  <2>1. \A t \in Thread : th[t].pc \in Holding => th[t].pkt # m.pkt
    BY <1>a DEF PacketOwnership, Holds, Names
  <2>2. \A n \in Messages' : n \in Messages /\ n.pkt \in Pkt \ {m.pkt}
    BY <1>a, <1>c
  <2>3. \A t \in Thread, p \in Pkt : Holds(t, p)' <=> Holds(t, p)
    BY <1>a DEF Holds
  <2> HIDE DEF Messages
  <2>4. /\ \A t \in Thread, p \in Pkt : Holds(t, p)' => pkt'[p].alloc
        /\ \A n \in Messages' : pkt'[n.pkt].alloc
    BY <1>c, <2>1, <2>2, <2>3 DEF PacketOwnership, Holds
  <2> QED
    BY <2>2, <2>3, <2>4 DEF PacketOwnership, Names
<1>2. Exclusive'
  BY DEF RequestEnd, Freed, Signalled, Exclusive, Active
<1>3. LastRequest'
  <2>1. \A n \in Messages' : n \in Messages /\ n.pkt \in Pkt \ {m.pkt} /\ n.client \in Client
    BY <1>a, <1>c
  <2> QED
    BY <1>c, <1>d, <2>1 DEF LastRequest
<1>4. NoOtherRequest'
  BY DEF RequestEnd, Freed, Signalled, NoOtherRequest, Exclusive, Active
<1>5. CallInProgress'
  <2>1. \A t \in Thread : th[t].pc \in Holding =>
           th[t].pkt \in Pkt \ {m.pkt} /\ th[t].client \in Client \ {m.client}
    BY <1>a DEF PacketOwnership, Holds, Names, NoOtherRequest, HoldsPacket
  <2>2. \A t \in Thread : SemaOf(t)' = SemaOf(t)
    BY <1>a, <1>d DEF SemaOf
  <2>3. \A t \in Thread : th[t].pc = "send" /\ th[t].mode = "wait" => sema'[SemaOf(t)] = 0
    <3> SUFFICES ASSUME NEW t \in Thread, th[t].pc = "send", th[t].mode = "wait"
                 PROVE  sema'[SemaOf(t)] = 0
      OBVIOUS
    <3>1. sema[SemaOf(t)] = 0 /\ SemaOf(t) \in Sema
      BY DEF CallInProgress, SemaOwnership, OwnsSema
    <3>2. cd[m.client].sema # SemaOf(t)
      <4> SUFFICES ASSUME cd[m.client].sema = SemaOf(t) PROVE FALSE
        OBVIOUS
      <4>1. PICK u \in Thread : th[u].pc \in Waiting /\ th[u].client = m.client
        BY <1>a, <3>1 DEF Awaited
      <4>2. u # t /\ OwnsSema(u) /\ OwnsSema(t) /\ SemaOf(u) = SemaOf(t)
        BY <4>1 DEF OwnsSema, SemaOf, CallInProgress, Waiting
      <4> QED
        BY <4>2 DEF SemaOwnership
    <3> QED
      BY <3>1, <3>2 DEF RequestEnd, Signalled
  <2> QED
    BY <1>a, <1>c, <1>d, <2>1, <2>2, <2>3 DEF CallInProgress
<1>6. SemaOwnership'
  <2>1. \A t \in Thread : SemaOf(t)' = SemaOf(t) /\ OwnsSema(t)' = OwnsSema(t)
    BY <1>a, <1>d DEF SemaOf, OwnsSema
  <2>2. \A s \in Sema : sema[s] # Deleted => sema'[s] # Deleted
    BY DEF RequestEnd, Signalled
  <2> QED
    BY <2>1, <2>2 DEF SemaOwnership
<1>7. Awaited'
  <2>1. \A n \in Messages' : n \in Messages /\ n.client \in Client
    BY <1>a
  <2> QED
    BY <1>a, <1>d, <2>1 DEF Awaited
<1>8. SignalledMeansDone'
  <2> SUFFICES ASSUME NEW t \in Thread, th[t].pc \in Waiting, sema'[SemaOf(t)'] = 1,
                      NEW n \in Messages', n.client = th[t].client, n.rmode
               PROVE  FALSE
    BY <1>a DEF SignalledMeansDone
  <2>1. n \in Messages /\ n.client # m.client
    BY <1>a, <1>d
  <2>2. SemaOf(t)' = SemaOf(t)
    BY <1>a, <1>d DEF SemaOf
  <2>3. SemaOf(t) \in Sema /\ sema[SemaOf(t)] # 1
    BY <2>1 DEF SignalledMeansDone, SemaOwnership, OwnsSema, CallInProgress, Waiting
  <2>4. cd[m.client].sema = SemaOf(t)
    BY <2>2, <2>3 DEF RequestEnd, Signalled
  <2>5. PICK u \in Thread : th[u].pc \in Waiting /\ th[u].client = m.client
    BY <1>a, <2>3, <2>4 DEF Awaited
  <2>6. u # t /\ OwnsSema(u) /\ OwnsSema(t) /\ SemaOf(u) = SemaOf(t)
    BY <2>1, <2>4, <2>5 DEF OwnsSema, CallInProgress, SemaOf, Waiting
  <2> QED
    BY <2>6 DEF SemaOwnership
<1>9. NoEarlyReturn'
  BY DEF RequestEnd, Freed, Signalled, NoEarlyReturn, SignalledMeansDone, Exclusive, Active, SemaOwnership, OwnsSema, SemaOf, CallInProgress, Waiting
<1> QED
  BY <1>1, <1>2, <1>3, <1>4, <1>5, <1>6, <1>7, <1>8, <1>9

LEMMA RendDmaStep ==
    ASSUME IInv, TypeInv', NEW m \in toEe, RendDma(m)
    PROVE  IInv'
<1> USE DEF IInv, TypeInv, TypeOK, Holding, Messages, Packet, ClientData, ThreadState, Request, Reply, NULL, Deleted, Pkt, Sema
<1>b. m \in Reply /\ m.pkt \in Pkt /\ m \notin toIop
  BY RequestIsNoReply
<1>a. /\ m \in Reply /\ m \in Messages /\ ~m.rmode
      /\ Messages' = Messages \ {m}
      /\ pkt' = [pkt EXCEPT ![m.pkt].alloc = FALSE, ![m.pkt].rpcId = 0]
      /\ UNCHANGED <<cd, sema, th>>
  BY <1>b DEF RendDma, Freed
<1>c. /\ \A p \in Pkt \ {m.pkt} : pkt'[p] = pkt[p]
      /\ \A n \in Messages' : n.pkt # m.pkt
      /\ \A t \in Thread : th[t].pc \in Holding => th[t].pkt # m.pkt
  BY <1>a DEF PacketOwnership, Holds, Names
<1>1. PacketOwnership'
  <2>1. \A n \in Messages' : n \in Messages /\ n.pkt \in Pkt \ {m.pkt}
    BY <1>a, <1>c
  <2> QED
    BY <1>a, <1>c, <2>1 DEF PacketOwnership, Holds, Names
<1>2. Exclusive'
  BY DEF RendDma, Freed, Exclusive, Active
<1>3. LastRequest'
  BY DEF RendDma, Freed, LastRequest, PacketOwnership, NoOtherRequest, Holds, Names
<1>4. NoOtherRequest'
  BY DEF RendDma, Freed, NoOtherRequest, Exclusive, Active
<1>5. CallInProgress'
  <2>1. \A t \in Thread : th[t].pc \in Holding => th[t].pkt \in Pkt \ {m.pkt}
    BY <1>c DEF HoldsPacket
  <2> QED
    BY <1>a, <1>c, <2>1 DEF CallInProgress, SemaOf, RendDma
<1>6. SemaOwnership'
  BY DEF RendDma, Freed, SemaOwnership, OwnsSema, SemaOf, CallInProgress, Waiting, Exclusive, Active
<1>7. Awaited'
  BY DEF RendDma, Freed, Awaited, SemaOf, CallInProgress, Exclusive, Active, Waiting, NoOtherRequest
<1>8. SignalledMeansDone'
  BY DEF RendDma, Freed, SignalledMeansDone, SemaOwnership, OwnsSema, SemaOf, Waiting, NoOtherRequest, CallInProgress, Exclusive, Active, Awaited, LastRequest, PacketOwnership, Holds, Names
<1>9. NoEarlyReturn'
  BY DEF RendDma, Freed, NoEarlyReturn, SignalledMeansDone, Exclusive, Active, SemaOwnership, OwnsSema, SemaOf, CallInProgress, Waiting
<1> QED
  BY <1>1, <1>2, <1>3, <1>4, <1>5, <1>6, <1>7, <1>8, <1>9

LEMMA PeerReplyStep ==
    ASSUME IInv, TypeInv', NEW m \in toIop, PeerReply(m)
    PROVE  IInv'
<1> USE DEF IInv, TypeInv, TypeOK, Holding, Messages, Packet, ClientData, ThreadState, Request, Reply, NULL, Deleted, Pkt, Sema
<1>b. PICK found \in BOOLEAN :
        toEe' = toEe \cup {[pkt |-> m.pkt, client |-> m.client, cid |-> m.cid,
                             rmode |-> m.rmode, server |-> found]}
  BY DEF PeerReply
<1>a. PICK r \in Reply :
        /\ r.pkt = m.pkt /\ r.client = m.client /\ r.rmode = m.rmode
        /\ Messages' = (Messages \ {m}) \cup {r}
        /\ UNCHANGED <<pkt, cd, sema, th>>
  <2> DEFINE r == [pkt |-> m.pkt, client |-> m.client, cid |-> m.cid,
                   rmode |-> m.rmode, server |-> found]
  <2>1. r \in Reply
    OBVIOUS
  <2>2. toEe' = toEe \cup {r} /\ toIop' = toIop \ {m} /\ m \notin toEe
    BY <1>b, RequestIsNoReply DEF PeerReply
  <2>3. Messages' = (Messages \ {m}) \cup {r}
    BY <2>2
  <2>4. r.pkt = m.pkt /\ r.client = m.client /\ r.rmode = m.rmode
    OBVIOUS
  <2> HIDE DEF r
  <2> QED
    BY <2>1, <2>3, <2>4 DEF PeerReply
<1>1. PacketOwnership'
  BY <1>a DEF PacketOwnership, Holds, Names
<1>2. Exclusive'
  BY DEF PeerReply, Exclusive, Active
<1>3. LastRequest'
  BY DEF PeerReply, LastRequest, PacketOwnership, NoOtherRequest, Holds, Names
<1>4. NoOtherRequest'
  BY DEF PeerReply, NoOtherRequest, Exclusive, Active
<1>5. CallInProgress'
  BY DEF PeerReply, CallInProgress, Exclusive, Active, SemaOwnership, OwnsSema, SemaOf, Waiting, PacketOwnership, Holds, Names, NoOtherRequest
<1>6. SemaOwnership'
  BY DEF PeerReply, SemaOwnership, OwnsSema, SemaOf, CallInProgress, Waiting, Exclusive, Active
<1>7. Awaited'
  BY DEF PeerReply, Awaited, SemaOf, CallInProgress, Exclusive, Active, Waiting, NoOtherRequest
<1>8. SignalledMeansDone'
  BY DEF PeerReply, SignalledMeansDone, SemaOwnership, OwnsSema, SemaOf, Waiting, NoOtherRequest, CallInProgress, Exclusive, Active, Awaited, LastRequest, PacketOwnership, Holds, Names
<1>9. NoEarlyReturn'
  BY DEF PeerReply, NoEarlyReturn, SignalledMeansDone, Exclusive, Active, SemaOwnership, OwnsSema, SemaOf, CallInProgress, Waiting
<1> QED
  BY <1>1, <1>2, <1>3, <1>4, <1>5, <1>6, <1>7, <1>8, <1>9

LEMMA UnchangedStep == ASSUME IInv, UNCHANGED vars PROVE IInv'
<1> USE DEF IInv, vars, SemaOf, OwnsSema, Holds, Names, Messages, Active
<1>1. TypeOK' /\ HoldsPacket' /\ PacketOwnership' /\ Exclusive'
  BY DEF TypeOK, HoldsPacket, PacketOwnership, Exclusive
<1>2. LastRequest' /\ NoOtherRequest' /\ CallInProgress'
  BY DEF LastRequest, NoOtherRequest, CallInProgress
<1>3. SemaOwnership' /\ Awaited' /\ SignalledMeansDone' /\ NoEarlyReturn'
  BY DEF SemaOwnership, Awaited, SignalledMeansDone, NoEarlyReturn
<1> QED
  BY <1>1, <1>2, <1>3

LEMMA InvInit == Init => IInv
<1> SUFFICES ASSUME Init PROVE IInv
  OBVIOUS
<1>1. TypeOK /\ HoldsPacket
  BY TypeInit DEF TypeInv
<1>2. /\ \A t \in Thread : th[t].pc = "idle"
      /\ Messages = {}
      /\ \A p \in Pkt : ~pkt[p].alloc
  BY DEF Init, Idle, Messages
<1>3. PacketOwnership /\ Exclusive /\ LastRequest /\ NoOtherRequest
  BY <1>2 DEF PacketOwnership, Exclusive, LastRequest, NoOtherRequest, Holds, Names,
     Holding, Active
<1>4. CallInProgress /\ SemaOwnership /\ Awaited /\ SignalledMeansDone /\ NoEarlyReturn
  BY <1>2 DEF CallInProgress, SemaOwnership, Awaited, SignalledMeansDone,
     NoEarlyReturn, OwnsSema, Waiting
<1> QED
  BY <1>1, <1>3, <1>4 DEF IInv

LEMMA InvStep == IInv /\ [Next]_vars => IInv'
<1> SUFFICES ASSUME IInv, [Next]_vars PROVE IInv'
  OBVIOUS
<1>1. TypeInv'
  BY TypeStep DEF IInv, TypeInv
<1>2. ASSUME NEW t \in Thread, Start(t) PROVE IInv'
  BY <1>1, <1>2, GetPacketStep DEF Start
<1>3. ASSUME NEW t \in Thread, NoPacket(t) PROVE IInv'
  BY <1>3, UnchangedStep DEF NoPacket
<1>4. ASSUME NEW t \in Thread, Continue(t) PROVE IInv'
  BY <1>1, <1>4, FillStep, CreateSemaStep, CreateSemaFailsStep, SendStep,
     SendFailsStep, WaitSemaStep, WakeUpStep, DeleteSemaStep DEF Continue
<1>5. ASSUME NEW m \in toEe, RequestEnd(m) \/ RendDma(m) PROVE IInv'
  BY <1>1, <1>5, RequestEndStep, RendDmaStep
<1>6. ASSUME NEW m \in toIop, PeerReply(m) PROVE IInv'
  BY <1>1, <1>6, PeerReplyStep
<1>7. CASE UNCHANGED vars
  BY <1>7, UnchangedStep
<1> QED
  BY <1>2, <1>3, <1>4, <1>5, <1>6, <1>7 DEF Next

LEMMA Invariance == Spec => []IInv
BY InvInit, InvStep, PTL DEF Spec

-----------------------------------------------------------------------------
(* Theorems                                                                *)

\* A packet of pkt_table serves one call at a time, whatever sends fail and
\* whichever servers answer first.
THEOREM PacketsOwned == Spec => []PacketOwnership
<1>1. IInv => PacketOwnership
  BY DEF IInv
<1> QED
  BY <1>1, Invariance, PTL

\* SifBindRpc and SifCallRpc do not return from WaitSema before the answer.
THEOREM CallsReturnAfterAnswer == Spec => []NoEarlyReturn
<1>1. IInv => NoEarlyReturn
  BY DEF IInv
<1> QED
  BY <1>1, Invariance, PTL

\* A waiting call has a semaphore of its own until it deletes it.
THEOREM SemaphoresOwned == Spec => []SemaOwnership
<1>1. IInv => SemaOwnership
  BY DEF IInv
<1> QED
  BY <1>1, Invariance, PTL

\* SifCheckStatRpc does not report a request done before its end command.
THEOREM CheckStatCorrect == Spec => []CheckStatNeverEarly
<1>1. IInv => CheckStatNeverEarly
  BY DEF IInv, CheckStatNeverEarly, SifCheckStatRpc, LastRequest, PacketOwnership,
     TypeOK, Messages, Request, Reply, Pkt, NULL
<1> QED
  BY <1>1, Invariance, PTL

\* Only a call that fails keeps a packet from the pool.
THEOREM PacketsLostOnlyByFailure == Spec => PacketLostOnlyByFailure
<1> DEFINE Step == \A p \in Pkt : ~Lost(p) /\ Lost(p)' =>
                     \E t \in Thread : SendFails(t) \/ CreateSemaFails(t)
<1>1. IInv /\ [Next]_vars => [Step]_vars
  <2> SUFFICES ASSUME IInv, [Next]_vars, NEW p \in Pkt, ~Lost(p), Lost(p)',
                      \A t \in Thread : ~SendFails(t) /\ ~CreateSemaFails(t)
               PROVE  FALSE
    OBVIOUS
  <2> USE DEF Lost, Holds, Holding
  <2>1. ASSUME NEW t \in Thread, NEW c \in Client, NEW op \in Op, NEW mode \in Modes,
               GetPacket(t, c, op, mode)
        PROVE  FALSE
    BY <2>1 DEF GetPacket, Active, Messages, IInv, TypeOK, Packet
  <2>2. ASSUME NEW t \in Thread, Fill(t) \/ CreateSema(t) \/ WaitSema(t) \/ WakeUp(t)
        PROVE  FALSE
    <3>1. pkt' = pkt /\ Messages' = Messages
      BY <2>2 DEF Fill, CreateSema, WaitSema, WakeUp, Messages
    <3>2. \A u \in Thread : th[u].pc \in Holding =>
            th'[u].pc \in Holding /\ th'[u].pkt = th[u].pkt
      BY <2>2 DEF Fill, CreateSema, WaitSema, WakeUp, Goto, IInv, TypeOK, ThreadState
    <3> QED
      BY <3>1, <3>2
  <2>3. ASSUME NEW t \in Thread, Send(t) PROVE FALSE
    <3>1. PICK m \in Messages' : m.pkt = th[t].pkt /\ Messages' = Messages \cup {m}
      <4> DEFINE new == [pkt |-> th[t].pkt, client |-> th[t].client,
                         cid |-> th[t].op, rmode |-> Rmode(th[t].op, th[t].mode)]
      <4>1. Messages' = Messages \cup {new} /\ new.pkt = th[t].pkt
        BY <2>3 DEF Send, Messages
      <4> HIDE DEF new
      <4> QED
        BY <4>1
    <3>2. pkt' = pkt /\ \A u \in Thread \ {t} : th'[u] = th[u]
      BY <2>3 DEF Send, Goto, Return, IInv, TypeOK
    <3> QED
      BY <3>1, <3>2
  <2>4. ASSUME NEW t \in Thread, DeleteSema(t) PROVE FALSE
    <3>1. pkt' = pkt /\ Messages' = Messages
      BY <2>4 DEF DeleteSema, Messages
    <3>2. \A u \in Thread : th[u].pc \in Holding => th'[u] = th[u]
      BY <2>4 DEF DeleteSema, Return, IInv, TypeOK
    <3> QED
      BY <3>1, <3>2
  <2>5. ASSUME NEW m \in toEe, RequestEnd(m) \/ RendDma(m) PROVE FALSE
    <3>1. PICK q : pkt' = Freed(q) /\ q = m.pkt
      BY <2>5 DEF RequestEnd, RendDma, IInv, LastRequest, Messages
    <3>2. q \in Pkt /\ p # q /\ pkt'[p] = pkt[p]
      BY <3>1 DEF Freed, IInv, TypeOK, Reply, Packet
    <3>3. th' = th /\ \A n \in Messages : n \in Messages' \/ n = m
      BY <2>5 DEF RequestEnd, RendDma, Messages
    <3> QED
      BY <3>1, <3>2, <3>3
  <2>6. ASSUME NEW m \in toIop, PeerReply(m) PROVE FALSE
    <3>1. th' = th /\ pkt' = pkt
      BY <2>6 DEF PeerReply
    <3>2. \A n \in Messages : \E r \in Messages' : r.pkt = n.pkt
      <4>1. PICK r \in toEe' : r.pkt = m.pkt
        <5>1. PICK found \in BOOLEAN :
                toEe' = toEe \cup
                  {[pkt |-> m.pkt, client |-> m.client, cid |-> m.cid,
                    rmode |-> m.rmode, server |-> found]}
          BY <2>6 DEF PeerReply
        <5> DEFINE r == [pkt |-> m.pkt, client |-> m.client, cid |-> m.cid,
                         rmode |-> m.rmode, server |-> found]
        <5>2. r \in toEe' /\ r.pkt = m.pkt
          BY <5>1
        <5> HIDE DEF r
        <5> QED
          BY <5>2
      <4>2. \A n \in Messages : n = m \/ n \in Messages'
        BY <2>6 DEF PeerReply, Messages
      <4> QED
        BY <4>1, <4>2 DEF Messages
    <3> QED
      BY <3>1, <3>2
  <2>7. CASE UNCHANGED vars
    BY <2>7 DEF vars, Messages
  <2>8. ASSUME NEW t \in Thread, NoPacket(t) PROVE FALSE
    BY <2>8 DEF vars, Messages, NoPacket
  <2> QED
    BY <2>1, <2>2, <2>3, <2>4, <2>5, <2>6, <2>7, <2>8 DEF Next, Start, Continue
<1> QED
  BY <1>1, Invariance, PTL DEF Spec, PacketLostOnlyByFailure

-----------------------------------------------------------------------------
(* SifRpc implements RpcService: initial states map to initial states, and *)
(* every step to a step of the abstract specification or to a stutter.     *)

\* A request of the client is on its way, and its end command will come.
Pending(c) == \E m \in Messages : m.client = c /\ m.rmode

LEMMA StatusUnfold ==
    ASSUME NEW t \in Thread, NEW c \in Client, th[t].client = c
    PROVE  StatusOf(t) =
             IF th[t].pc = "idle" THEN "idle"
             ELSE IF th[t].pc \in Holding THEN "invoked"
             ELSE IF Pending(c) THEN "submitted" ELSE "answered"
BY DEF StatusOf, Active, Pending, Holding

LEMMA StatusUnfoldNext ==
    ASSUME NEW t \in Thread, NEW c \in Client, th'[t].client = c
    PROVE  StatusOf(t)' =
             IF th'[t].pc = "idle" THEN "idle"
             ELSE IF th'[t].pc \in Holding THEN "invoked"
             ELSE IF Pending(c)' THEN "submitted" ELSE "answered"
BY DEF StatusOf, Active, Pending, Holding

LEMMA BeforeSending ==
    ASSUME NEW t \in Thread
    PROVE  /\ th[t].pc = "idle" => StatusOf(t) = "idle"
           /\ th'[t].pc = "idle" => StatusOf(t)' = "idle"
           /\ th[t].pc \in Holding => StatusOf(t) = "invoked"
           /\ th'[t].pc \in Holding => StatusOf(t)' = "invoked"
BY DEF StatusOf, Active, Holding

\* One thread moves, the others keep their status: an abstract step.
LEMMA OneMoves ==
    ASSUME NEW t \in Thread, NEW from, NEW to,
           StatusOf(t) = from, StatusOf(t)' = to,
           \A u \in Thread \ {t} : StatusOf(u)' = StatusOf(u)
    PROVE  Promise!Step(t, from, to)
BY DEF Promise!Step

LEMMA NoneMoves ==
    ASSUME \A u \in Thread : StatusOf(u)' = StatusOf(u)
    PROVE  [u \in Thread |-> StatusOf(u)]' = [u \in Thread |-> StatusOf(u)]
OBVIOUS

\* A thread keeps its status if neither it nor its client's request moves.
LEMMA Keeps ==
    ASSUME NEW u \in Thread, NEW c \in Client,
           th[u].client = c, th'[u].client = c,
           \/ th'[u].pc = th[u].pc
           \/ th[u].pc \in Holding /\ th'[u].pc \in Holding
           \/ th[u].pc \in {"wait", "blocked", "delete"}
              /\ th'[u].pc \in {"wait", "blocked", "delete"},
           \/ th[u].pc = "idle" \/ th[u].pc \in Holding
           \/ Pending(c)' <=> Pending(c)
    PROVE  StatusOf(u)' = StatusOf(u)
BY StatusUnfold, StatusUnfoldNext DEF Holding

LEMMA MapStep ==
    ASSUME IInv, IInv', Next
    PROVE  [Promise!Next]_([t \in Thread |-> StatusOf(t)])
<1> DEFINE Status == [t \in Thread |-> StatusOf(t)]
<1> USE DEF IInv
<1>1. ASSUME NEW t \in Thread, NEW c \in Client, NEW op \in Op, NEW mode \in Modes,
             GetPacket(t, c, op, mode)
      PROVE  Promise!Next
  <2>1. /\ th[t].pc = "idle" /\ th'[t].pc = "fill"
        /\ \A u \in Thread \ {t} : th'[u] = th[u]
    BY <1>1 DEF GetPacket, Active, TypeOK
  <2>2. \A d \in Client : Pending(d)' <=> Pending(d)
    BY <1>1 DEF GetPacket, Pending, Messages
  <2>3. \A u \in Thread \ {t} : StatusOf(u)' = StatusOf(u)
    BY <2>1, <2>2, Keeps DEF TypeOK, ThreadState
  <2>4. StatusOf(t) = "idle" /\ StatusOf(t)' = "invoked"
    BY <2>1, BeforeSending DEF Holding
  <2> QED
    BY <2>3, <2>4, OneMoves DEF Promise!Next, Promise!Invoke
<1>2. ASSUME NEW t \in Thread,
             Fill(t) \/ CreateSema(t) \/ WaitSema(t) \/ WakeUp(t)
      PROVE  Status' = Status
  <2>1. /\ \A u \in Thread \ {t} : th'[u] = th[u]
        /\ th'[t].client = th[t].client
        /\ \/ th[t].pc \in Holding /\ th'[t].pc \in Holding
           \/ th[t].pc \in {"wait", "blocked", "delete"}
              /\ th'[t].pc \in {"wait", "blocked", "delete"}
    BY <1>2 DEF Fill, CreateSema, WaitSema, WakeUp, Goto, Holding, TypeOK, ThreadState
  <2>2. \A d \in Client : Pending(d)' <=> Pending(d)
    BY <1>2 DEF Fill, CreateSema, WaitSema, WakeUp, Pending, Messages
  <2>3. \A u \in Thread : StatusOf(u)' = StatusOf(u)
    BY <2>1, <2>2, Keeps DEF TypeOK, ThreadState
  <2> QED
    BY <2>3, NoneMoves
<1>3. ASSUME NEW t \in Thread, CreateSemaFails(t) \/ SendFails(t)
      PROVE  Promise!Next
  <2>1. /\ th[t].pc \in Holding /\ th'[t].pc = "idle"
        /\ \A u \in Thread \ {t} : th'[u] = th[u]
    BY <1>3 DEF CreateSemaFails, SendFails, Return, Idle, Holding, TypeOK
  <2>2. \A d \in Client : Pending(d)' <=> Pending(d)
    BY <1>3 DEF CreateSemaFails, SendFails, Pending, Messages
  <2>3. \A u \in Thread \ {t} : StatusOf(u)' = StatusOf(u)
    BY <2>1, <2>2, Keeps DEF TypeOK, ThreadState
  <2>4. StatusOf(t) = "invoked" /\ StatusOf(t)' = "idle"
    BY <2>1, BeforeSending DEF Holding
  <2> QED
    BY <2>3, <2>4, OneMoves DEF Promise!Next, Promise!Fail
<1>4. ASSUME NEW t \in Thread, Send(t) PROVE Promise!Next
  <2> DEFINE m == [pkt |-> th[t].pkt, client |-> th[t].client, cid |-> th[t].op,
                   rmode |-> Rmode(th[t].op, th[t].mode)]
  <2>1. /\ m.client = th[t].client
        /\ th[t].mode = "wait" => m.rmode
        /\ Messages' = Messages \cup {m}
    BY <1>4 DEF Send, Rmode, Messages
  <2> HIDE DEF m
  <2>2. /\ th[t].pc = "send"
        /\ th[t].mode = "wait" => th'[t].pc = "wait" /\ th'[t].client = th[t].client
        /\ th[t].mode # "wait" => th'[t].pc = "idle"
        /\ \A u \in Thread \ {t} : th'[u] = th[u]
    BY <1>4 DEF Send, Goto, Return, Idle, TypeOK, ThreadState
  <2>3. \A d \in Client : d # th[t].client => (Pending(d)' <=> Pending(d))
    BY <2>1 DEF Pending
  <2>4. \A u \in Thread \ {t} : th[u].pc = "idle" \/ th[u].client # th[t].client
    BY <2>2 DEF Exclusive, Active
  <2>5. \A u \in Thread \ {t} : StatusOf(u)' = StatusOf(u)
    BY <2>2, <2>3, <2>4, Keeps DEF TypeOK, ThreadState
  <2>6. StatusOf(t) = "invoked"
    BY <2>2, BeforeSending DEF Holding
  <2>7. CASE th[t].mode = "wait"
    <3>1. PICK c \in Client : c = th[t].client
      BY DEF TypeOK, ThreadState
    <3>2. Pending(c)'
      BY <2>1, <2>7, <3>1 DEF Pending
    <3>3. StatusOf(t)' = "submitted"
      BY <2>2, <2>7, <3>1, <3>2, StatusUnfoldNext DEF Holding
    <3> QED
      BY <2>5, <2>6, <3>3, OneMoves DEF Promise!Next, Promise!Submit
  <2>8. CASE th[t].mode # "wait"
    <3>1. StatusOf(t)' = "idle"
      BY <2>2, <2>8, BeforeSending
    <3> QED
      BY <2>5, <2>6, <3>1, OneMoves DEF Promise!Next, Promise!Fail
  <2> QED
    BY <2>7, <2>8
<1>5. ASSUME NEW t \in Thread, DeleteSema(t) PROVE Promise!Next
  <2>1. /\ th[t].pc = "delete" /\ th'[t].pc = "idle"
        /\ \A u \in Thread \ {t} : th'[u] = th[u]
    BY <1>5 DEF DeleteSema, Return, Idle, TypeOK
  <2>2. \A d \in Client : Pending(d)' <=> Pending(d)
    BY <1>5 DEF DeleteSema, Pending, Messages
  <2>3. \A u \in Thread \ {t} : StatusOf(u)' = StatusOf(u)
    BY <2>1, <2>2, Keeps DEF TypeOK, ThreadState
  <2> PICK c \in Client : c = th[t].client
    BY DEF TypeOK, ThreadState
  <2>4. ~Pending(c)
    BY <2>1 DEF NoEarlyReturn, Pending
  <2>5. StatusOf(t) = "answered" /\ StatusOf(t)' = "idle"
    BY <2>1, <2>4, StatusUnfold, BeforeSending DEF Holding
  <2> QED
    BY <2>3, <2>5, OneMoves DEF Promise!Next, Promise!Return
<1>6. ASSUME NEW m \in toEe, RequestEnd(m)
      PROVE  Promise!Next \/ Status' = Status
  <2>1. /\ m \in Messages /\ m.rmode /\ th' = th
        /\ Messages' = Messages \ {m}
    BY <1>6, RequestIsNoReply DEF RequestEnd, Messages, TypeOK
  <2>2. \A d \in Client : d # m.client => (Pending(d)' <=> Pending(d))
    BY <2>1 DEF Pending
  <2>3. Pending(m.client) /\ ~Pending(m.client)'
    <3>1. \A n \in Messages : n.rmode /\ n.client = m.client => n = m
      BY <2>1 DEF LastRequest, PacketOwnership
    <3> QED
      BY <2>1, <3>1 DEF Pending
  <2>4. CASE \E t \in Thread : th[t].pc \in {"wait", "blocked", "delete"}
                               /\ th[t].client = m.client
    <3>1. PICK t \in Thread : th[t].pc \in {"wait", "blocked", "delete"}
                              /\ th[t].client = m.client
      BY <2>4
    <3>2. \A u \in Thread \ {t} : th[u].pc = "idle" \/ th[u].client # m.client
      BY <3>1 DEF Exclusive, Active
    <3>3. \A u \in Thread \ {t} : StatusOf(u)' = StatusOf(u)
      BY <2>1, <2>2, <3>2, Keeps DEF TypeOK, ThreadState
    <3>4. StatusOf(t) = "submitted" /\ StatusOf(t)' = "answered"
      <4>1. m.client \in Client
        BY DEF TypeOK, Reply
      <4> QED
        BY <2>1, <2>3, <3>1, <4>1, StatusUnfold, StatusUnfoldNext DEF Holding
    <3> QED
      BY <3>3, <3>4, OneMoves DEF Promise!Next, Promise!Answer
  <2>5. CASE \A t \in Thread : th[t].pc \in {"wait", "blocked", "delete"}
                               => th[t].client # m.client
    <3>1. \A u \in Thread : \/ th[u].pc = "idle" \/ th[u].pc \in Holding
                            \/ th[u].client # m.client
      BY <2>5 DEF TypeOK, ThreadState, Holding
    <3>2. \A u \in Thread : StatusOf(u)' = StatusOf(u)
      BY <2>1, <2>2, <3>1, Keeps DEF TypeOK, ThreadState
    <3> QED
      BY <3>2, NoneMoves
  <2> QED
    BY <2>4, <2>5
<1>7. ASSUME NEW m \in toEe, RendDma(m) PROVE Status' = Status
  <2>1. /\ ~m.rmode /\ th' = th /\ Messages' = Messages \ {m}
    BY <1>7, RequestIsNoReply DEF RendDma, Messages, TypeOK
  <2>2. \A d \in Client : Pending(d)' <=> Pending(d)
    BY <2>1 DEF Pending
  <2>3. \A u \in Thread : StatusOf(u)' = StatusOf(u)
    BY <2>1, <2>2, Keeps DEF TypeOK, ThreadState
  <2> QED
    BY <2>3, NoneMoves
<1>8. ASSUME NEW m \in toIop, PeerReply(m) PROVE Status' = Status
  <2>1. PICK found \in BOOLEAN :
          toEe' = toEe \cup
            {[pkt |-> m.pkt, client |-> m.client, cid |-> m.cid,
              rmode |-> m.rmode, server |-> found]}
    BY <1>8 DEF PeerReply
  <2> DEFINE r == [pkt |-> m.pkt, client |-> m.client, cid |-> m.cid,
                   rmode |-> m.rmode, server |-> found]
  <2>2. r.client = m.client /\ r.rmode = m.rmode
    OBVIOUS
  <2>3. Messages' = (Messages \ {m}) \cup {r} /\ m \in Messages /\ th' = th
    BY <1>8, <2>1, RequestIsNoReply DEF PeerReply, Messages, TypeOK
  <2> HIDE DEF r
  <2>4. \A d \in Client : Pending(d)' <=> Pending(d)
    BY <2>2, <2>3 DEF Pending
  <2>5. \A u \in Thread : StatusOf(u)' = StatusOf(u)
    BY <2>3, <2>4, Keeps DEF TypeOK, ThreadState
  <2> QED
    BY <2>5, NoneMoves
<1>9. ASSUME NEW t \in Thread, NoPacket(t) PROVE Status' = Status
  <2>1. th' = th /\ Messages' = Messages
    BY <1>9 DEF NoPacket, vars, Messages
  <2>2. \A u \in Thread : StatusOf(u)' = StatusOf(u)
    BY <2>1, Keeps DEF Pending, TypeOK, ThreadState
  <2> QED
    BY <2>2, NoneMoves
<1> QED
  BY <1>1, <1>2, <1>3, <1>4, <1>5, <1>6, <1>7, <1>8, <1>9 DEF Next, Start, Continue

\* The RPC library keeps its promise, for any number of threads: a call moves
\* from invoked to submitted to answered, and returns from answered only.
THEOREM Refinement == Spec => Promise!Spec
<1> DEFINE Status == [t \in Thread |-> StatusOf(t)]
<1>1. Init => Promise!Init
  <2> SUFFICES ASSUME Init PROVE Status = [t \in Thread |-> "idle"]
    BY DEF Promise!Init
  <2> QED
    BY BeforeSending DEF Init, Idle
<1>2. IInv /\ IInv' /\ [Next]_vars => [Promise!Next]_Status
  <2>1. CASE UNCHANGED vars
    BY <2>1 DEF vars, StatusOf, Active, Messages
  <2> QED
    BY <2>1, MapStep
<1> QED
  BY <1>1, <1>2, Invariance, PTL DEF Spec, Promise!Spec
=============================================================================
