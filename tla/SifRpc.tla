------------------------------- MODULE SifRpc -------------------------------
(***************************************************************************)
(* The client half of the EE SIF RPC library (src/src/ps2/sifrpc.c):       *)
(* threads that bind to a server or call one, the pool of packets they     *)
(* share, the handler of the end command, and SifCheckStatRpc.             *)
(*                                                                         *)
(* The IOP that answers the requests is not in the repository: PeerReply   *)
(* and RendDma model it  from the way this code uses it.  A request     *)
(* with rmode = 0 is answered by a DMA onto the packet (RendDma), every    *)
(* other one by the end command (RequestEnd).  Several servers answer in   *)
(* any order, so the two directions of the SIF are sets of messages.       *)
(*                                                                         *)
(* Handlers run in the DMAC interrupt of a single-core CPU: RequestEnd is  *)
(* one step.  A thread can be interrupted, or preempted, wherever          *)
(* interrupts are enabled: each thread step below is the code between two  *)
(* such places.                                                            *)
(***************************************************************************)
EXTENDS Integers, FiniteSets

CONSTANTS
    Thread,        \* EE threads that use the library
    Client,        \* client structures (SifRpcClientData_t), one per library
    PktLen,        \* pkt_table_len, 32 in the program
    NSema,         \* semaphores the EE kernel can create
    PidMod,        \* width of rpc_data.pid: 2^32 in the program
    Modes,         \* the ways the callers use it, see Mode
    SendMayFail    \* whether the EE kernel may refuse a DMA (SifSetDma = 0)

ASSUME ClientAssumption == Client # {}
ASSUME PktLenAssumption == PktLen \in Nat
ASSUME NSemaAssumption == NSema \in Nat
ASSUME PidModAssumption == PidMod \in Nat /\ PidMod > 2
ASSUME SendMayFailAssumption == SendMayFail \in BOOLEAN

Pkt == 0 .. PktLen - 1
Sema == 0 .. NSema - 1
NULL == -1            \* a NULL packet pointer, and the semaphore id "none"
Deleted == -1         \* the count of a semaphore that does not exist
Pid == 0 .. PidMod - 1

Op == {"bind", "call"}
\* The three ways the program calls the library: waiting for the answer,
\* not waiting but with an end function, neither waiting nor notified.
Mode == {"wait", "nowait", "nowaitNoEnd"}

ASSUME ModesAssumption == Modes \subseteq Mode

VARIABLES
    pid,      \* rpc_data.pid, the id given to the last request
    pkt,      \* the packet table
    cd,       \* the client structures
    sema,     \* count of each semaphore of the kernel
    th,       \* where each thread is in SifBindRpc or SifCallRpc
    toIop,    \* requests sent and not answered yet
    toEe      \* answers sent and not handled yet

vars == <<pid, pkt, cd, sema, th, toIop, toEe>>

Packet == [alloc : BOOLEAN, rpcId : Pid]
ClientData == [pkt : Pkt \cup {NULL}, rpcId : Pid, sema : Sema \cup {NULL},
               server : BOOLEAN]
ThreadState == [pc : {"idle", "fill", "create", "send", "wait", "blocked",
                      "delete"},
                client : Client, op : Op, mode : Mode, pkt : Pkt \cup {NULL},
                sema : Sema \cup {NULL}]
Request == [pkt : Pkt, client : Client, cid : Op, rmode : BOOLEAN]
Reply == [pkt : Pkt, client : Client, cid : Op, rmode : BOOLEAN,
          server : BOOLEAN]

TypeOK ==
    /\ pid \in Pid
    /\ pkt \in [Pkt -> Packet]
    /\ cd \in [Client -> ClientData]
    /\ sema \in [Sema -> {Deleted, 0, 1}]
    /\ th \in [Thread -> ThreadState]
    /\ toIop \subseteq Request
    /\ toEe \subseteq Reply

\* A thread outside the library: its locals hold nothing.
Idle == [pc |-> "idle", client |-> CHOOSE c \in Client : TRUE, op |-> "bind",
         mode |-> "wait", pkt |-> NULL, sema |-> NULL]

Init ==
    /\ pid = 1
    /\ pkt = [p \in Pkt |-> [alloc |-> FALSE, rpcId |-> 0]]
    /\ cd = [c \in Client |-> [pkt |-> NULL, rpcId |-> 0, sema |-> NULL,
                               server |-> FALSE]]
    /\ sema = [s \in Sema |-> Deleted]
    /\ th = [t \in Thread |-> Idle]
    /\ toIop = {}
    /\ toEe = {}

-----------------------------------------------------------------------------
(* Operators                                                               *)

Active(t) == th[t].pc # "idle"
Messages == toIop \cup toEe

\* Mutant: a library that starts its next call once the end function has run.
ClientFreeAfterEnd(c) ==
    \A m \in Messages : m.client = c => ~m.rmode

\* The discipline of the callers: a library uses its client structure for one
\* call at a time, and starts no other before the end function of the last
\* one has run.  A call with neither wait nor end function (MOD_PAUSE) is
\* never waited for.
ClientFree(c) ==
    /\ \A t \in Thread : Active(t) => th[t].client # c
    /\ \A m \in Messages : m.client = c => ~m.rmode

\* SifCheckStatRpc: 1 while the last request of the client is outstanding.
SifCheckStatRpc(c) ==
    /\ cd[c].pkt # NULL
    /\ cd[c].rpcId = pkt[cd[c].pkt].rpcId
    /\ pkt[cd[c].pkt].alloc

\* The id a request gets, and the pid kept for the next one.
NextRpcId == IF pid = 0 THEN 1 ELSE (pid + 1) % PidMod
NextPidNoWrap == IF pid = 0 THEN 2 ELSE pid + 1     \* mutant: no wrap
NextPid == IF pid = 0 THEN 2 ELSE (pid + 1) % PidMod

\* rmode of a request: 0 asks the server for no end command.
Rmode(op, mode) == ~(op = "call" /\ mode = "nowaitNoEnd")

Return(t) == [th EXCEPT ![t] = Idle]
Goto(t, label) == [th EXCEPT ![t].pc = label]

FirstFreeRing(rid) == rid = pid % PktLen             \* mutant: rdata_table's way
FirstFree(rid) == ~pkt[rid].alloc /\ \A r \in 0 .. rid - 1 : pkt[r].alloc

-----------------------------------------------------------------------------
(* Threads: SifBindRpc and SifCallRpc                                      *)

\* _rpc_get_packet, the first thing a call does, with interrupts disabled.
GetPacket(t, c, op, mode) ==
    /\ ~Active(t)
    /\ \E rid \in Pkt :
         /\ FirstFree(rid)
         /\ pkt' = [pkt EXCEPT ![rid].alloc = TRUE, ![rid].rpcId = NextRpcId]
         /\ pid' = NextPid
         /\ th' = [th EXCEPT ![t] = [pc |-> "fill", client |-> c, op |-> op,
                                     mode |-> mode, pkt |-> rid,
                                     sema |-> NULL]]
    /\ UNCHANGED <<cd, sema, toIop, toEe>>

\* The table is full: the call returns E_SIF_PKT_ALLOC and has changed nothing.
NoPacket(t) ==
    /\ ~Active(t)
    /\ \A rid \in Pkt : pkt[rid].alloc
    /\ UNCHANGED vars

\* Mutant: cd->hdr.sema_id keeps the semaphore of the call before.
FillKeepsSema(t) ==
    LET c == th[t].client
        p == th[t].pkt
    IN  /\ th[t].pc = "fill"
        /\ cd' = [cd EXCEPT ![c].pkt = p, ![c].rpcId = pkt[p].rpcId,
                            ![c].server = th[t].op = "call" /\ @]
        /\ th' = Goto(t, IF th[t].mode = "wait" THEN "create" ELSE "send")
        /\ UNCHANGED <<pid, pkt, sema, toIop, toEe>>

\* Mutant: the id is read again from rpc_data, with interrupts enabled.
FillRacyId(t) ==
    LET c == th[t].client
        p == th[t].pkt
    IN  /\ th[t].pc = "fill"
        /\ cd' = [cd EXCEPT ![c] = [pkt |-> p, rpcId |-> pid, sema |-> NULL,
                                    server |-> th[t].op = "call" /\ cd[c].server]]
        /\ th' = Goto(t, IF th[t].mode = "wait" THEN "create" ELSE "send")
        /\ UNCHANGED <<pid, pkt, sema, toIop, toEe>>

\* The client structure is filled in (and the packet, from the same locals).
Fill(t) ==
    LET c == th[t].client
        p == th[t].pkt
    IN  /\ th[t].pc = "fill"
        /\ cd' = [cd EXCEPT ![c] =
                    [pkt    |-> p,
                     rpcId  |-> pkt[p].rpcId,
                     sema   |-> NULL,
                     server |-> th[t].op = "call" /\ cd[c].server]]
        /\ th' = Goto(t, IF th[t].mode = "wait" THEN "create" ELSE "send")
        /\ UNCHANGED <<pid, pkt, sema, toIop, toEe>>

\* Mutant: init_count = 1, as in SifRpcGetOtherData.
CreateSemaSignalled(t) ==
    /\ th[t].pc = "create"
    /\ \E s \in Sema :
         /\ sema[s] = Deleted
         /\ sema' = [sema EXCEPT ![s] = 1]
         /\ cd' = [cd EXCEPT ![th[t].client].sema = s]
    /\ th' = Goto(t, "send")
    /\ UNCHANGED <<pid, pkt, toIop, toEe>>

\* CreateSema with init_count = 0.
CreateSema(t) ==
    /\ th[t].pc = "create"
    /\ \E s \in Sema :
         /\ sema[s] = Deleted
         /\ sema' = [sema EXCEPT ![s] = 0]
         /\ cd' = [cd EXCEPT ![th[t].client].sema = s]
    /\ th' = Goto(t, "send")
    /\ UNCHANGED <<pid, pkt, toIop, toEe>>

\* No semaphore left: the call returns, and its packet stays allocated.
CreateSemaFails(t) ==
    /\ th[t].pc = "create"
    /\ \A s \in Sema : sema[s] # Deleted
    /\ cd' = [cd EXCEPT ![th[t].client].sema = NULL]
    /\ th' = Return(t)
    /\ UNCHANGED <<pid, pkt, sema, toIop, toEe>>

\* SifSendCmd queues the DMA of the packet to the IOP.
Send(t) ==
    /\ th[t].pc = "send"
    /\ toIop' = toIop \cup {[pkt   |-> th[t].pkt, client |-> th[t].client,
                             cid   |-> th[t].op,
                             rmode |-> Rmode(th[t].op, th[t].mode)]}
    /\ th' = IF th[t].mode = "wait" THEN Goto(t, "wait") ELSE Return(t)
    /\ UNCHANGED <<pid, pkt, cd, sema, toEe>>

\* SifSendCmd returns 0: the call returns, packet and semaphore stay allocated.
SendFails(t) ==
    /\ SendMayFail
    /\ th[t].pc = "send"
    /\ th' = Return(t)
    /\ UNCHANGED <<pid, pkt, cd, sema, toIop, toEe>>

\* WaitSema reads its argument when it is called ...
WaitSema(t) ==
    /\ th[t].pc = "wait"
    /\ th' = [th EXCEPT ![t].pc = "blocked",
                        ![t].sema = cd[th[t].client].sema]
    /\ UNCHANGED <<pid, pkt, cd, sema, toIop, toEe>>

\* ... and returns once it can decrement the count (or fails on a bad id).
WakeUp(t) ==
    LET s == th[t].sema
    IN  /\ th[t].pc = "blocked"
        /\ \/ s \in Sema /\ sema[s] = 1 /\ sema' = [sema EXCEPT ![s] = 0]
           \/ (s \in Sema => sema[s] = Deleted) /\ UNCHANGED sema
        /\ th' = Goto(t, "delete")
        /\ UNCHANGED <<pid, pkt, cd, toIop, toEe>>

\* DeleteSema reads the client structure again.
DeleteSema(t) ==
    LET s == cd[th[t].client].sema
    IN  /\ th[t].pc = "delete"
        /\ sema' = IF s \in Sema THEN [sema EXCEPT ![s] = Deleted] ELSE sema
        /\ th' = Return(t)
        /\ UNCHANGED <<pid, pkt, cd, toIop, toEe>>

-----------------------------------------------------------------------------
(* The interrupt handler                                                   *)

\* Mutant: a signal nobody waits for yet is lost.
SignalledIfWaiting(s) ==
    IF s \in Sema /\ \E t \in Thread : th[t].pc = "blocked" /\ th[t].sema = s
    THEN [sema EXCEPT ![s] = 1] ELSE sema

\* iSignalSema of a semaphore whose max_count is 1.
Signalled(s) ==
    IF s \in Sema /\ sema[s] = 0 THEN [sema EXCEPT ![s] = 1] ELSE sema

\* Mutant: the ALLOC flag is not cleared.
FreedNoFlag(p) ==
    IF p \in Pkt THEN [pkt EXCEPT ![p].rpcId = 0] ELSE pkt

\* rpc_packet_free (a NULL packet is no packet of the table)
Freed(p) ==
    IF p \in Pkt THEN [pkt EXCEPT ![p].alloc = FALSE, ![p].rpcId = 0] ELSE pkt

\* _request_end, the handler of command 0x80000008.
RequestEnd(m) ==
    /\ m \in toEe
    /\ m.rmode
    /\ toEe' = toEe \ {m}
    /\ sema' = Signalled(cd[m.client].sema)
    /\ pkt' = Freed(cd[m.client].pkt)
    /\ cd' = [cd EXCEPT ![m.client].pkt = NULL,
                        ![m.client].server =
                            IF m.cid = "bind" THEN m.server ELSE @]
    /\ UNCHANGED <<pid, th, toIop>>

\* The answer to a request with rmode = 0: the server's DMA overwrites the
\* packet, which frees it; no command, and no handler.
RendDma(m) ==
    /\ m \in toEe
    /\ ~m.rmode
    /\ toEe' = toEe \ {m}
    /\ pkt' = Freed(m.pkt)
    /\ UNCHANGED <<pid, cd, sema, th, toIop>>

-----------------------------------------------------------------------------
(* The IOP                                                                 *)

\* A server answers a request: a bind with what it finds registered then.
PeerReply(m) ==
    /\ m \in toIop
    /\ toIop' = toIop \ {m}
    /\ \E found \in BOOLEAN :
         /\ m.cid = "call" => ~found
         /\ toEe' = toEe \cup
              {[pkt |-> m.pkt, client |-> m.client, cid |-> m.cid,
                rmode |-> m.rmode, server |-> found]}
    /\ UNCHANGED <<pid, pkt, cd, sema, th>>

-----------------------------------------------------------------------------
Start(t) ==
    \E c \in Client, op \in Op, mode \in Modes :
        /\ ClientFree(c)
        /\ op = "call" => cd[c].server          \* callers bind until they are bound
        /\ op = "bind" => mode # "nowaitNoEnd"   \* a bind has no end function
        /\ GetPacket(t, c, op, mode)

Continue(t) ==
    \/ Fill(t)
    \/ CreateSema(t)
    \/ CreateSemaFails(t)
    \/ Send(t)
    \/ SendFails(t)
    \/ WaitSema(t)
    \/ WakeUp(t)
    \/ DeleteSema(t)

Next ==
    \/ \E t \in Thread : Start(t) \/ NoPacket(t) \/ Continue(t)
    \/ \E m \in toEe : RequestEnd(m) \/ RendDma(m)
    \/ \E m \in toIop : PeerReply(m)

Spec == Init /\ [][Next]_vars

\* A thread in the library goes on when it can (the EE kernel schedules it),
\* a pending DMAC interrupt is taken, a DMA completes, and the IOP answers
\* every request.  Nothing obliges a thread to start a call.
Fairness ==
    /\ \A t \in Thread : WF_vars(Continue(t))
    /\ \A p \in Pkt : WF_vars(\E m \in toEe : m.pkt = p /\ (RequestEnd(m) \/ RendDma(m)))
    /\ \A p \in Pkt : WF_vars(\E m \in toIop : m.pkt = p /\ PeerReply(m))

FairSpec == Spec /\ Fairness

-----------------------------------------------------------------------------
(* Properties                                                              *)

Holding == {"fill", "create", "send"}    \* the call owns its packet, unsent
Waiting == {"wait", "blocked"}           \* the request is sent and awaited

\* What is true while a thread has the packet, or a message names it.
Holds(t, p) == th[t].pc \in Holding /\ th[t].pkt = p
Names(m, p) == m \in Messages /\ m.pkt = p

\* A packet of the table serves one call at a time: what a call in progress or
\* an unanswered request uses is marked allocated, and nothing else uses it.
\* _request_end frees whatever the client points to, not what was answered.
PacketOwnership ==
    /\ \A t \in Thread, p \in Pkt : Holds(t, p) => pkt[p].alloc
    /\ \A m \in Messages : pkt[m.pkt].alloc
    /\ \A t, u \in Thread, p \in Pkt : Holds(t, p) /\ Holds(u, p) => t = u
    /\ \A m, n \in Messages : m.pkt = n.pkt => m = n
    /\ \A t \in Thread, p \in Pkt, m \in Messages : ~(Holds(t, p) /\ Names(m, p))

\* A call that waits goes past WaitSema only when its own request is answered:
\* the semaphore of the client is never signalled for another request.
NoEarlyReturn ==
    \A t \in Thread : th[t].pc = "delete" =>
        \A m \in Messages : m.client = th[t].client => ~m.rmode

\* The semaphore a thread waits on is its own, from CreateSema to DeleteSema:
\* no other call deletes it or waits on it, and no count is lost.
SemaOf(t) == cd[th[t].client].sema
OwnsSema(t) == th[t].mode = "wait" /\ th[t].pc \in {"send", "delete"} \cup Waiting
SemaOwnership ==
    \A t \in Thread : OwnsSema(t) =>
        /\ SemaOf(t) \in Sema
        /\ sema[SemaOf(t)] # Deleted
        /\ \A u \in Thread \ {t} : OwnsSema(u) => SemaOf(u) # SemaOf(t)

\* SifCheckStatRpc never reports a request done that the server still has, or
\* whose answer is not handled yet: the packet and its id stay the request's.
CheckStatNeverEarly ==
    \A m \in Messages : m.rmode => SifCheckStatRpc(m.client)

\* The inductive invariant: besides what it is to show, who a message and a
\* semaphore belong to, and what the client structure says meanwhile.
HoldsPacket == \A t \in Thread : th[t].pc \in Holding => th[t].pkt \in Pkt

\* One thread at a time is in a call on a client.
Exclusive ==
    \A t, u \in Thread :
        Active(t) /\ Active(u) /\ th[t].client = th[u].client => t = u

\* The client structure describes the last request that will be answered ...
LastRequest ==
    \A m \in Messages : m.rmode =>
        cd[m.client].pkt = m.pkt /\ cd[m.client].rpcId = pkt[m.pkt].rpcId

\* ... and a call that has not sent its request finds no other one.
NoOtherRequest ==
    \A t \in Thread, m \in Messages :
        th[t].pc \in Holding /\ m.rmode => m.client # th[t].client

CallInProgress ==
    \A t \in Thread :
        /\ th[t].pc \in {"create", "send"} =>
               /\ cd[th[t].client].pkt = th[t].pkt
               /\ cd[th[t].client].rpcId = pkt[th[t].pkt].rpcId
        /\ th[t].pc \in {"create", "delete"} \cup Waiting => th[t].mode = "wait"
        /\ th[t].pc = "create" => SemaOf(t) = NULL
        /\ th[t].pc = "send" /\ th[t].mode # "wait" => SemaOf(t) = NULL
        /\ th[t].pc = "send" /\ th[t].mode = "wait" => sema[SemaOf(t)] = 0
        /\ th[t].pc = "blocked" => th[t].sema = SemaOf(t)

\* Only the answer to the request of a waiting thread signals its semaphore.
Awaited ==
    \A m \in Messages : m.rmode =>
        \/ cd[m.client].sema = NULL
        \/ \E t \in Thread : th[t].pc \in Waiting /\ th[t].client = m.client
SignalledMeansDone ==
    \A t \in Thread : th[t].pc \in Waiting /\ sema[SemaOf(t)] = 1 =>
        \A m \in Messages : m.client = th[t].client => ~m.rmode

IInv ==
    /\ TypeOK
    /\ HoldsPacket
    /\ PacketOwnership
    /\ Exclusive
    /\ LastRequest
    /\ NoOtherRequest
    /\ CallInProgress
    /\ SemaOwnership
    /\ Awaited
    /\ SignalledMeansDone
    /\ NoEarlyReturn

\* An allocated packet is in use, or was lost by a call that failed: no other
\* step takes a packet from the pool for good.
Lost(p) ==
    /\ pkt[p].alloc
    /\ \A t \in Thread : ~Holds(t, p)
    /\ \A m \in Messages : m.pkt # p
PacketLostOnlyByFailure ==
    [][\A p \in Pkt : ~Lost(p) /\ Lost(p)' =>
          \E t \in Thread : SendFails(t) \/ CreateSemaFails(t)]_vars

\* A call that waits always returns.
CallsReturn == \A t \in Thread : Active(t) ~> ~Active(t)

\* A call keeps its promise: see RpcService.
StatusOf(t) ==
    CASE ~Active(t) -> "idle"
      [] th[t].pc \in Holding -> "invoked"
      [] OTHER -> IF \E m \in Messages : m.client = th[t].client /\ m.rmode
                  THEN "submitted" ELSE "answered"
Promise == INSTANCE RpcService WITH status <- [t \in Thread |-> StatusOf(t)]
RpcServiceImplemented == Promise!FairSpec
=============================================================================
