---------------------------- MODULE EeLocalScan ----------------------------
(***************************************************************************)
(* The older, block-local constant propagation                             *)
(* (scan_body of src/tools/unnamed_data.py), whose claims the recovery     *)
(* takes beside those of EeDataflow (scan_function).                       *)
(*                                                                         *)
(* It goes over the words once, in the order of their addresses, and       *)
(* forgets everything wherever it sees that control may arrive from        *)
(* elsewhere.  It is a pure function of the body, so it has no variables:  *)
(* its claims are held against the runs of EeDataflow's processor.         *)
(*                                                                         *)
(* Of Word it needs one more distinction: fn is "other" in a "write" or    *)
(* "none" that is not of opcode 0 (partial loads and stores, multimedia    *)
(* and coprocessor words), at which it forgets everything.  Of the words   *)
(* of opcode 0 only syscall and break have that effect: at the others that *)
(* the flow analysis does not know (Odd) it goes on.  An "invalid"         *)
(* word is one of the malformed branches.  mtsab and mtsah, which it takes *)
(* for branches, are left out.                                             *)
(***************************************************************************)
EXTENDS EeDataflow

CONSTANT LocalTrace     \* the longest trace it keeps: 8

ASSUME LocalTraceAssumption == LocalTrace \in Nat /\ MaxTrace \in Nat /\ LocalTrace <= MaxTrace

\* Mutant: a call is not taken to change what is known.
BoundariesKeptByCalls(p) ==
    {0} \cup {p[pc].target : pc \in {q \in Controls(p) : p[q].kind \in {"branch", "jump", "call"}}}
        \cup {pc + 2 : pc \in {q \in Controls(p) : p[q].kind # "call"}}

\* Where it forgets: the entry, targets, and after every delay word.
Boundaries(p) ==
    {0} \cup {p[pc].target : pc \in {q \in Controls(p) : p[q].kind \in {"branch", "jump", "call"}}}
        \cup {pc + 2 : pc \in Controls(p)}

\* It follows additions and what has their shape, not the other arithmetic;
\* of that, the comparisons with an immediate are not of opcode 0.
Followed(w) == w.kind \in {"alui", "alu"} /\ w.fn = "add"
Forgets(w) ==
    \/ w.kind = "barrier" /\ ~Odd(w)
    \/ w.kind = "alui" /\ w.fn \in {"slti", "sltiu"}
    \/ w.kind \in {"write", "none"} /\ w.fn = "other"

\* The unused bits of an addition are not looked at.
LocalDerived(s, w, pc) ==
    LET fact == Derived(s, Understood(w), pc)
    IN  IF Followed(Understood(w)) /\ Cardinality(fact.trace) <= LocalTrace
        THEN fact ELSE Absent

\* Any REGIMM branch is taken to write $31; a link branch and a call do.
LocalPrior(s, w) ==
    IF w.fn \in {"bltz", "bgez"} THEN [Prior(s, w) EXCEPT ![LastLink] = Absent] ELSE Prior(s, w)

\* The facts after a word.
LocalAfter(s, w, pc) ==
    CASE w.kind \in Control -> LocalPrior(s, w)
      [] w.kind \in Plain /\ Forgets(w) -> ZERO
      [] w.kind \in {"store", "none"} /\ ~Forgets(w) -> Assign(s, 0, ZeroFact)
      [] OTHER -> Assign(s, w.rd, LocalDerived(s, w, pc))

\* The facts before each word of a body.
LocalFacts(p) ==
    LET before[pc \in DOMAIN p] ==
          IF pc \in Boundaries(p) THEN ZERO
          ELSE LocalAfter(before[pc - 1], p[pc - 1], pc - 1)
    IN  before

\* The claims of a word: about its own access, and for a call about the
\* memory function, with the facts after its delay word.
LocalCall(s, w, pc) ==
    {h \in MemoryCall(s, w, pc) :
       Cardinality(s[h.base].trace \cup s[CountReg].trace \cup {pc}) <= LocalTrace}
LocalHitsAt(p, facts, pc) ==
    AccessHit(facts[pc], p[pc], pc)
      \cup IF p[pc].kind = "call" /\ pc + 1 \in DOMAIN p /\ p[pc + 1].kind \in Plain
           THEN LocalCall(LocalAfter(facts[pc + 1], p[pc + 1], pc + 1), p[pc], pc)
           ELSE {}
LocalHits(p) ==
    LET facts == LocalFacts(p)
    IN  UNION {LocalHitsAt(p, facts, pc) : pc \in DOMAIN p}

-----------------------------------------------------------------------------
(* Properties                                                              *)

\* A jr that is not a return may arrive at any word.
NoIndirect(p) == \A pc \in DOMAIN p : p[pc].kind # "indirect"

\* A claim of the local scan holds in every run of the function, in whatever
\* way control comes to the word, but for functions with an indirect jump,
\* whose targets the scan does not see.
LocalHitsSound ==
    \A a \in access :
        NoIndirect(prog) =>
            \A h \in LocalHits(prog) :
                a.pc = h.pc /\ a.base = h.base /\ a.callee = h.callee =>
                    a.address = h.address /\ a.width = h.width

\* There is a word between the last boundary and the word at pc at which the
\* flow analysis forgets everything and the local scan does not.
OddSince(p, pc) ==
    \E q \in DOMAIN p : q < pc /\ Odd(p[q]) /\ \A b \in q + 1 .. pc : b \notin Boundaries(p)

\* Where the flow analysis has finished, it claims whatever the local scan
\* does about the words that can be reached.  The exception are claims that
\* rest on what was known before an odd word of opcode 0, or on what that
\* word computes: these only the local scan makes.
FlowCoversLocal ==
    phase = "prefix" /\ visits > 0 /\ work = << >> =>
        \A h \in LocalHits(prog) :
            /\ h.pc \in reached \/ h.pc - 1 \in reached
            /\ ~Odd(prog[h.pc]) /\ ~OddSince(prog, h.pc)
            => h \in hits
=============================================================================
