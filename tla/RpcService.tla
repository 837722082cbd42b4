----------------------------- MODULE RpcService -----------------------------
(***************************************************************************)
(* What the RPC library promises a thread: a call that was accepted is     *)
(* answered, and a call that waits returns after its answer, never before. *)
(* SifRpc implements it (RpcServiceImplemented there).                     *)
(***************************************************************************)
CONSTANT Thread

VARIABLE status   \* what each thread's call has reached

Status == {"idle", "invoked", "submitted", "answered"}

TypeOK == status \in [Thread -> Status]

Init == status = [t \in Thread |-> "idle"]

Step(t, from, to) ==
    /\ status[t] = from
    /\ status' = [status EXCEPT ![t] = to]

Invoke(t) == Step(t, "idle", "invoked")
Fail(t) == Step(t, "invoked", "idle")       \* an error, or a call nobody awaits
Submit(t) == Step(t, "invoked", "submitted")
Answer(t) == Step(t, "submitted", "answered")
Return(t) == Step(t, "answered", "idle")

Next ==
    \E t \in Thread :
        Invoke(t) \/ Fail(t) \/ Submit(t) \/ Answer(t) \/ Return(t)

Fairness ==
    \A t \in Thread :
        /\ WF_status(Fail(t) \/ Submit(t))
        /\ WF_status(Answer(t))
        /\ WF_status(Return(t))

Spec == Init /\ [][Next]_status
FairSpec == Spec /\ Fairness
=============================================================================
