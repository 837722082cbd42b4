----------------------------- MODULE EeDataflow -----------------------------
(***************************************************************************)
(* The must-constant analysis of R5900 code (src/tools/ee_dataflow.py),    *)
(* with which the recovery proves the addresses a function accesses, and   *)
(* the processor it makes claims about.                                    *)
(*                                                                         *)
(* A behaviour analyses one function body: the worklist of scan_body, one  *)
(* visit a step, then scan_prefix, one instruction a step.  Then the       *)
(* processor runs that body, from any registers, with any memory, any      *)
(* callees and any inputs.  A claim of either scan is right when no run    *)
(* contradicts it.                                                         *)
(*                                                                         *)
(* Instructions are kept by what they do to registers: see Word.  A program *)
(* counter is a word index from the start of the body.                     *)
(***************************************************************************)
EXTENDS Integers, Sequences, FiniteSets

CONSTANTS
    Reg,              \* general registers; 0 is the register that reads 0
    LastLink,         \* the register jal and the link branches write ($31)
    CountReg,         \* the register of a memory function's count ($6)
    Callees,          \* the arguments memory functions access, by entry point
    Limit,            \* values from here on are not tracked: 2^31 in the code
    MaxCount,         \* the longest extent believed: 3304936
    MaxTrace,         \* MAX_TRACE, 24
    MaxPrefixSteps,   \* MAX_PREFIX_STEPS, 4096
    VisitsPerWord,    \* 128
    Programs,         \* the function bodies analysed
    Inputs,           \* what registers and memory may hold
    MaxRun            \* bound of the model: instructions a run executes

ASSUME RegAssumption == 0 \in Reg /\ Reg \subseteq Nat /\ LastLink \in Reg /\ CountReg \in Reg
ASSUME LimitAssumption == Limit \in Nat /\ Limit > 1
ASSUME InputsAssumption == Inputs \subseteq Int
ASSUME BudgetAssumption == MaxTrace \in Nat /\ MaxPrefixSteps \in Nat /\ VisitsPerWord \in Nat

Addr == 0 .. Limit - 1
NoReg == -1

(***************************************************************************)
(* Words.  "alui" and "alu" compute rd from rs and an immediate or rt, a   *)
(* lui being an "alui" of register 0; "mov" is movz or movn; "write" is an *)
(* instruction known to write rd, with a result that is not followed;      *)
(* "none" writes no register; "barrier" is an instruction that the         *)
(* analysis does not know at all.                                          *)
(*                                                                         *)
(* A barrier may be a word of opcode 0 that is only odd; its fn says so.   *)
(* "alui" and "alu" are additions with bits set where the plain encoding   *)
(* has none (lui with rs, add with sa), which the processor ignores;       *)
(* "trap" is a trap, a reserved function or another odd encoding, which    *)
(* changes rd at most if the program goes on after it.                     *)
(***************************************************************************)
Plain == {"alui", "alu", "mov", "load", "store", "write", "none", "barrier"}
Control == {"branch", "jump", "call", "return", "indirect", "invalid"}
Fn == {"add", "sub", "mul", "slti", "sltiu", "movz", "movn", "other", ""}
      \cup {"trap", "alui", "alu"}
      \cup {"beq", "bne", "blez", "bgtz", "bltz", "bgez", "bc"}
Word == [kind : Plain \cup Control,
         fn : Fn,                          \* the operation, or the condition
         rd : Reg, rs : Reg, rt : Reg,
         imm : Int,                        \* immediate, or displacement
         width : Nat \ {0},                \* bytes of an access
         target : Int,                     \* Elsewhere when it is not known
         likely : BOOLEAN,
         link : Reg \cup {NoReg}]          \* register that gets the return address

Odd(w) == w.kind = "barrier" /\ w.fn \in {"trap", "alui", "alu"}

\* What a word does, whatever bits its encoding leaves unused.
Understood(w) ==
    IF Odd(w) /\ w.fn # "trap" THEN [w EXCEPT !.kind = w.fn, !.fn = "add"] ELSE w

ASSUME ProgramsAssumption ==
    \A p \in Programs :
        /\ IsFiniteSet(DOMAIN p) /\ DOMAIN p = 0 .. Cardinality(DOMAIN p) - 1
        /\ \A pc \in DOMAIN p : p[pc] \in Word /\ p[pc].imm \in -Limit .. Limit - 1
ASSUME CalleesAssumption == \A t \in DOMAIN Callees : Callees[t] \subseteq Reg

VARIABLES
    prog,       \* the body: a function from word indexes to words
    phase,      \* "scan", "prefix", "run" or "done"
    reached,    \* the keys of incoming
    incoming,   \* facts before each reached word
    work,       \* words to visit
    queued,     \* the same, as a set
    visits,
    hits,       \* what scan_body claims
    prefix,     \* pc, steps and state of scan_prefix
    found,      \* what scan_prefix has found so far
    claims,     \* what scan_prefix claims
    cpu,        \* pc, registers and instructions executed of the processor
    access      \* the accesses of its last step

scanVars == <<reached, incoming, work, queued, visits, hits>>
prefixVars == <<prefix, found, claims>>
vars == <<prog, phase, scanVars, prefixVars, cpu, access>>

-----------------------------------------------------------------------------
(* Facts                                                                   *)

\* A register is known to hold val, computed by the words of trace; or it is
\* not in the dictionary.
Absent == [val |-> -1, trace |-> {}]
ZeroFact == [val |-> 0, trace |-> {}]
Fact == [val : Addr, trace : SUBSET Nat]
State == [Reg -> Fact \cup {Absent}]

ZERO == [r \in Reg |-> IF r = 0 THEN ZeroFact ELSE Absent]

Known(s, r) == s[r] # Absent

\* assign: a value out of range, or a trace that is too long, is not kept.
NewFact(v, trace) ==
    IF v \in Addr /\ Cardinality(trace) <= MaxTrace
    THEN [val |-> v, trace |-> trace] ELSE Absent

Assign(s, r, fact) ==
    [q \in Reg |-> IF q = 0 THEN ZeroFact ELSE IF q = r THEN fact ELSE s[q]]

MeetFactOfEither(f, g) ==       \* mutant: a fact of one predecessor survives
    IF g = Absent THEN f ELSE IF f = Absent THEN g
    ELSE IF f.val = g.val THEN NewFact(f.val, f.trace \cup g.trace) ELSE Absent
MeetFactOfSame(f, g) ==         \* mutant: the traces must agree too
    IF f = g THEN f ELSE Absent
MeetFact(f, g) ==
    IF f # Absent /\ g # Absent /\ f.val = g.val
    THEN NewFact(f.val, f.trace \cup g.trace) ELSE Absent
Meet(left, right) ==
    [r \in Reg |-> IF r = 0 THEN ZeroFact ELSE MeetFact(left[r], right[r])]

-----------------------------------------------------------------------------
(* transfer                                                                *)

\* What the analysis computes, on values of Addr and an immediate.
Alu(fn, a, b) ==
    CASE fn = "add" -> a + b
      [] fn = "sub" -> a - b
      [] fn = "mul" -> a * b
      [] fn = "slti" -> IF a < b THEN 1 ELSE 0
      [] fn = "sltiu" -> IF b < 0 \/ a < b THEN 1 ELSE 0
      [] OTHER -> -1

\* The fact about rd after the word.
Derived(s, w, pc) ==
    CASE w.kind = "alui" /\ Known(s, w.rs) ->
            NewFact(Alu(w.fn, s[w.rs].val, w.imm), s[w.rs].trace \cup {pc})
      [] w.kind = "alu" /\ Known(s, w.rs) /\ Known(s, w.rt) ->
            NewFact(Alu(w.fn, s[w.rs].val, s[w.rt].val),
                    s[w.rs].trace \cup s[w.rt].trace \cup {pc})
      [] w.kind = "mov" /\ Known(s, w.rt) ->
            LET selected == IF (s[w.rt].val = 0) = (w.fn = "movz") THEN w.rs ELSE w.rd
            IN  IF Known(s, selected)
                THEN NewFact(s[selected].val,
                             s[selected].trace \cup s[w.rt].trace \cup {pc})
                ELSE Absent
      [] w.kind = "mov" /\ ~Known(s, w.rt) /\ Known(s, w.rs) /\ Known(s, w.rd)
                        /\ s[w.rs].val = s[w.rd].val ->
            NewFact(s[w.rd].val, s[w.rs].trace \cup s[w.rd].trace \cup {pc})
      [] OTHER -> Absent

Transfer(s, w, pc) ==
    CASE w.kind = "barrier" -> ZERO
      [] w.kind \in {"store", "none"} -> Assign(s, 0, ZeroFact)
      [] OTHER -> Assign(s, w.rd, Derived(s, w, pc))

\* A claim about the access of a load or store; callee is FALSE.
AccessHit(s, w, pc) ==
    LET address == s[w.rs].val + w.imm
    IN  IF /\ w.kind \in {"load", "store"}
           /\ Known(s, w.rs)
           /\ s[w.rs].trace # {}
           /\ address \in Addr
           /\ address % w.width = 0
        THEN {[pc |-> pc, base |-> w.rs, address |-> address, width |-> w.width,
               callee |-> FALSE]}
        ELSE {}

\* memory_call: claims about what a memory function accesses, made for the
\* delay word with the facts after it.
MemoryCall(s, w, pc) ==
    IF /\ w.target \in DOMAIN Callees
       /\ Known(s, CountReg)
       /\ s[CountReg].val \in 1 .. MaxCount
    THEN {[pc |-> pc + 1, base |-> a, address |-> s[a].val,
           width |-> s[CountReg].val, callee |-> TRUE] :
             a \in {a \in Callees[w.target] :
                      /\ Known(s, a)
                      /\ s[a].trace # {}
                      /\ Cardinality(s[a].trace \cup s[CountReg].trace \cup {pc}) <= MaxTrace}}
    ELSE {}

-----------------------------------------------------------------------------
(* The control flow of a body                                              *)

Controls(p) == {pc \in DOMAIN p : p[pc].kind \in Control}
Delays(p) == {pc + 1 : pc \in Controls(p)}
Direct(p) == {pc \in DOMAIN p : p[pc].kind \in {"branch", "jump"}}

\* What both scans require: a control word has a plain delay word in the
\* body, and nothing branches to a delay word.
DelaysWellFormed(p) ==
    /\ \A d \in Delays(p) : d \in DOMAIN p /\ d \notin Controls(p)
    /\ \A pc \in Direct(p) : p[pc].target \notin Delays(p)

\* What scan_body requires besides: nothing enters the body in the middle.
Accepted(p) ==
    /\ DelaysWellFormed(p)
    /\ \A pc \in DOMAIN p : p[pc].kind \notin {"invalid", "indirect"}
    /\ \A pc \in DOMAIN p : p[pc].kind = "call" => p[pc].target \notin DOMAIN p
    /\ \A pc \in DOMAIN p :
         p[pc].kind = "branch" /\ p[pc].link # NoReg => p[pc].target \notin DOMAIN p

\* The state in which the delay word executes: the link register is written.
Prior(s, w) == IF w.link # NoReg THEN [s EXCEPT ![w.link] = Absent] ELSE s

Edge(to, s) == [to |-> to, state |-> s]

\* outgoing: where control goes after a word (and its delay word), with facts.
Outgoing(p, pc, s) ==
    LET w == p[pc]
        prior == Prior(s, w)
        after == Transfer(prior, p[pc + 1], pc + 1)
    IN  CASE w.kind \in Plain -> <<Edge(pc + 1, Transfer(s, w, pc))>>
          [] w.kind = "call" -> <<Edge(pc + 2, ZERO)>>
          [] w.kind = "branch" /\ w.link # NoReg -> <<Edge(pc + 2, ZERO)>>
          [] w.kind = "jump" -> <<Edge(w.target, after)>>
          [] w.kind = "branch" /\ w.link = NoReg ->
                <<Edge(w.target, after), Edge(pc + 2, IF w.likely THEN prior ELSE after)>>
          [] OTHER -> << >>

HitsAtWithoutDelay(p, pc, s) ==      \* mutant: delay words make no claims
    IF p[pc].kind \in Plain THEN AccessHit(s, p[pc], pc)
    ELSE IF p[pc].kind = "call"
         THEN MemoryCall(Transfer(Prior(s, p[pc]), p[pc + 1], pc + 1), p[pc], pc)
         ELSE {}

\* ... and the claims made on the way.
HitsAt(p, pc, s) ==
    LET w == p[pc]
        prior == Prior(s, w)
        after == Transfer(prior, p[pc + 1], pc + 1)
    IN  IF w.kind \in Plain THEN AccessHit(s, w, pc)
        ELSE AccessHit(prior, p[pc + 1], pc + 1)
               \cup (IF w.kind = "call" THEN MemoryCall(after, w, pc) ELSE {})

-----------------------------------------------------------------------------
(* scan_body: the worklist                                                 *)

ScanBounds(p) == VisitsPerWord * Cardinality(DOMAIN p)

Init ==
    /\ prog \in Programs
    /\ phase = IF DOMAIN prog # {} /\ Accepted(prog) THEN "scan" ELSE "prefix"
    /\ reached = {0}
    /\ incoming = [pc \in DOMAIN prog |-> ZERO]
    /\ work = <<0>>
    /\ queued = {0}
    /\ visits = 0
    /\ hits = {}
    /\ prefix = [pc |-> 0, steps |-> 0, state |-> ZERO]
    /\ found = {}
    /\ claims = {}
    /\ cpu = [pc |-> 0, steps |-> 0, regs |-> [r \in Reg |-> 0]]
    /\ access = {}

\* One edge of the word visited, on a record of the worklist's variables: a
\* word whose facts change is visited again.
Merged(b, e) ==
    IF e.to \in b.reached THEN Meet(b.incoming[e.to], e.state) ELSE e.state
Changes(b, e) ==
    /\ e.to \in DOMAIN prog \ Delays(prog)
    /\ e.to \in b.reached => Merged(b, e) # b.incoming[e.to]

EnqueuedAgain(b, pc) == Append(b.work, pc)      \* mutant: not looked up in queued
Enqueued(b, pc) == IF pc \in b.queued THEN b.work ELSE Append(b.work, pc)

Flow(b, e) ==
    IF Changes(b, e)
    THEN [reached  |-> b.reached \cup {e.to},
          incoming |-> [b.incoming EXCEPT ![e.to] = Merged(b, e)],
          work     |-> Enqueued(b, e.to),
          queued   |-> b.queued \cup {e.to}]
    ELSE b

FlowAll(b, edges) ==
    CASE Len(edges) = 0 -> b
      [] Len(edges) = 1 -> Flow(b, edges[1])
      [] OTHER -> Flow(Flow(b, edges[1]), edges[2])

Visit ==
    LET pc == Head(work)
        popped == [reached |-> reached, incoming |-> incoming,
                   work |-> Tail(work), queued |-> queued \ {pc}]
        board == FlowAll(popped, Outgoing(prog, pc, incoming[pc]))
    IN  /\ phase = "scan"
        /\ work # << >>
        /\ visits < ScanBounds(prog)
        /\ visits' = visits + 1
        /\ reached' = board.reached
        /\ incoming' = board.incoming
        /\ work' = board.work
        /\ queued' = board.queued
        /\ UNCHANGED <<prog, phase, hits, prefixVars, cpu, access>>

\* Too many visits: the scan ends without a claim.
GiveUp ==
    /\ phase = "scan"
    /\ work # << >>
    /\ visits >= ScanBounds(prog)
    /\ phase' = "prefix"
    /\ UNCHANGED <<prog, scanVars, prefixVars, cpu, access>>

\* The fixed point is reached, and only now claims are made.
Emit ==
    /\ phase = "scan"
    /\ work = << >>
    /\ hits' = UNION {HitsAt(prog, pc, incoming[pc]) : pc \in reached}
    /\ phase' = "prefix"
    /\ UNCHANGED <<prog, reached, incoming, work, queued, visits, prefixVars, cpu, access>>

-----------------------------------------------------------------------------
(* scan_prefix: what every run does first                                  *)

BranchTakenUnsigned(w, s) ==     \* mutant: the sign of a value is not looked at
    LET a == s[w.rs].val
    IN  IF w.kind # "branch" THEN {TRUE}
        ELSE CASE w.fn \in {"beq", "bne"} /\ Known(s, w.rs) /\ Known(s, w.rt) ->
                    {(a = s[w.rt].val) = (w.fn = "beq")}
               [] w.fn \in {"blez", "bgez"} /\ Known(s, w.rs) -> {TRUE}
               [] w.fn \in {"bgtz", "bltz"} /\ Known(s, w.rs) -> {FALSE}
               [] OTHER -> BOOLEAN

\* branch_taken: the outcomes the facts leave open.
BranchTaken(w, s) ==
    LET a == s[w.rs].val
    IN  IF w.kind # "branch" THEN {TRUE}
        ELSE CASE w.fn \in {"beq", "bne"} /\ Known(s, w.rs) /\ Known(s, w.rt) ->
                    {(a = s[w.rt].val) = (w.fn = "beq")}
               [] w.fn = "blez" /\ Known(s, w.rs) -> {a = 0}
               [] w.fn = "bgtz" /\ Known(s, w.rs) -> {a > 0}
               [] w.fn = "bltz" /\ Known(s, w.rs) -> {FALSE}
               [] w.fn = "bgez" /\ Known(s, w.rs) -> {TRUE}
               [] OTHER -> BOOLEAN

\* A claim of the prefix names the step of the run it is about.
AtStep(h, n) == [pc |-> h.pc, base |-> h.base, address |-> h.address,
                 width |-> h.width, callee |-> h.callee, step |-> n]
AllAtStep(H, n) == {AtStep(h, n) : h \in H}

PrefixEnds(result) ==
    /\ claims' = result
    /\ phase' = "run"
    /\ UNCHANGED <<prefix, found>>

PrefixGoesOn(pc, n, s, result) ==
    /\ prefix' = [pc |-> pc, steps |-> n, state |-> s]
    /\ found' = result
    /\ UNCHANGED <<phase, claims>>

\* The budget: a loop that may not end proves nothing.
PrefixExhausted == prefix.steps >= MaxPrefixSteps

PrefixPlain ==
    LET pc == prefix.pc
        s == prefix.state
        n == prefix.steps + 1
    IN  /\ prog[pc].kind \in Plain
        /\ IF prog[pc].kind = "barrier" THEN PrefixEnds(found)
           ELSE PrefixGoesOn(pc + 1, n, Transfer(s, prog[pc], pc),
                             found \cup AllAtStep(AccessHit(s, prog[pc], pc), n))

\* A branch whose outcome the facts do not decide, and what is not followed.
PrefixStops(w) ==
    \/ w.kind \in {"invalid", "indirect"}
    \/ w.kind = "branch" /\ w.link # NoReg
    \/ BranchTaken(w, prefix.state) = BOOLEAN

\* A likely branch that is not taken skips its delay word.
PrefixAnnuls(w) ==
    /\ w.kind = "branch" /\ ~PrefixStops(w)
    /\ w.likely /\ BranchTaken(w, prefix.state) = {FALSE}
    /\ PrefixGoesOn(prefix.pc + 2, prefix.steps + 1, prefix.state, found)

PrefixControl(w) ==
    LET pc == prefix.pc
        d == prog[pc + 1]
        n == prefix.steps + 2
        taken == BranchTaken(w, prefix.state) = {TRUE}
        prior == Prior(prefix.state, w)
        after == Transfer(prior, d, pc + 1)
        seen == found \cup AllAtStep(AccessHit(prior, d, pc + 1), n)
    IN  /\ ~PrefixStops(w)
        /\ ~(w.likely /\ ~taken)
        /\ CASE n > MaxPrefixSteps -> PrefixEnds({})
             [] n <= MaxPrefixSteps /\ d.kind = "barrier" -> PrefixEnds(found)
             [] OTHER ->
                  CASE w.kind = "call" -> PrefixEnds(seen \cup AllAtStep(MemoryCall(after, w, pc), n))
                    [] w.kind = "return" -> PrefixEnds(seen)
                    [] OTHER -> PrefixGoesOn(IF taken THEN w.target ELSE pc + 2, n, after, seen)

Prefix ==
    /\ phase = "prefix"
    /\ UNCHANGED <<prog, scanVars, cpu, access>>
    /\ LET pc == prefix.pc
       IN CASE ~DelaysWellFormed(prog) -> PrefixEnds({})
            [] DelaysWellFormed(prog) /\ pc \notin DOMAIN prog -> PrefixEnds(found)
            [] OTHER ->
                 IF PrefixExhausted THEN PrefixEnds({})
                 ELSE \/ PrefixPlain
                      \/ /\ prog[pc].kind \in Control
                         /\ \/ PrefixStops(prog[pc]) /\ PrefixEnds(found)
                            \/ PrefixAnnuls(prog[pc])
                            \/ PrefixControl(prog[pc])

-----------------------------------------------------------------------------
(* The processor.  A register holds a 32-bit value, sign-extended.         *)

Wrap(x) == IF x \in -Limit .. Limit - 1 THEN x ELSE ((x + Limit) % (2 * Limit)) - Limit
Unsigned(x) == IF x < 0 THEN x + 2 * Limit ELSE x

Result(fn, a, b) ==
    IF fn = "sltiu" THEN IF Unsigned(a) < Unsigned(b) THEN 1 ELSE 0
    ELSE Wrap(Alu(fn, a, b))

AnyRegs == {r \in [Reg -> Inputs \cup {0}] : r[0] = 0}

SetReg(regs, r, v) == [q \in Reg |-> IF q = 0 THEN 0 ELSE IF q = r THEN v ELSE regs[q]]

\* What the word may write to rd.
Written(regs, w) ==
    CASE w.kind = "alui" -> {Result(w.fn, regs[w.rs], w.imm)}
      [] w.kind = "alu" -> {Result(w.fn, regs[w.rs], regs[w.rt])}
      [] w.kind = "mov" -> {IF (regs[w.rt] = 0) = (w.fn = "movz") THEN regs[w.rs] ELSE regs[w.rd]}
      [] OTHER -> Inputs

Execute(regs, w) ==
    CASE w.kind = "barrier" /\ ~Odd(w) -> AnyRegs
      [] Odd(w) /\ w.fn = "trap" ->
            {regs} \cup {SetReg(regs, w.rd, v) : v \in Inputs}
      [] w.kind \in {"store", "none"} -> {regs}
      [] OTHER -> {SetReg(regs, w.rd, v) : v \in Written(regs, Understood(w))}

Access(regs, w, pc, n) ==
    IF w.kind \in {"load", "store"}
    THEN {[pc |-> pc, base |-> w.rs, address |-> Unsigned(Wrap(regs[w.rs] + w.imm)),
           width |-> w.width, callee |-> FALSE, step |-> n]}
    ELSE {}

\* A memory function accesses as many bytes as its count says.
CalleeAccess(regs, w, pc, n) ==
    IF w.target \in DOMAIN Callees
    THEN {[pc |-> pc + 1, base |-> a, address |-> regs[a], width |-> regs[CountReg],
           callee |-> TRUE, step |-> n] : a \in Callees[w.target]}
    ELSE {}

\* The outcomes of a condition; a floating point one may be either.
Condition(regs, w) ==
    IF w.kind # "branch" THEN {TRUE}
    ELSE CASE w.fn = "beq" -> {regs[w.rs] = regs[w.rt]}
           [] w.fn = "bne" -> {regs[w.rs] # regs[w.rt]}
           [] w.fn = "blez" -> {regs[w.rs] <= 0}
           [] w.fn = "bgtz" -> {regs[w.rs] > 0}
           [] w.fn = "bltz" -> {regs[w.rs] < 0}
           [] w.fn = "bgez" -> {regs[w.rs] >= 0}
           [] OTHER -> BOOLEAN

\* The registers once the return address, which may be any, is written.
Linked(regs, w) ==
    IF w.link = NoReg THEN {regs} ELSE {SetReg(regs, w.link, v) : v \in Inputs}

\* The analysis is over and the function is called: its registers are any.
Start ==
    /\ phase = "run"
    /\ \E regs \in AnyRegs : cpu' = [pc |-> 0, steps |-> 0, regs |-> regs]
    /\ phase' = "running"
    /\ UNCHANGED <<prog, scanVars, prefixVars, access>>

Running == phase = "running" /\ cpu.pc \in DOMAIN prog /\ cpu.steps < MaxRun

CpuPlain ==
    LET pc == cpu.pc
        w == prog[pc]
        n == cpu.steps + 1
    IN  /\ Running
        /\ w.kind \in Plain
        /\ \E regs \in Execute(cpu.regs, w) : cpu' = [pc |-> pc + 1, steps |-> n, regs |-> regs]
        /\ access' = Access(cpu.regs, w, pc, n)
        /\ UNCHANGED <<prog, phase, scanVars, prefixVars>>

\* A likely branch that falls through does not execute its delay word.
CpuAnnul ==
    LET w == prog[cpu.pc]
    IN  /\ Running
        /\ w.kind = "branch"
        /\ w.likely
        /\ FALSE \in Condition(cpu.regs, w)
        /\ \E regs \in Linked(cpu.regs, w) :
             cpu' = [pc |-> cpu.pc + 2, steps |-> cpu.steps + 1, regs |-> regs]
        /\ access' = {}
        /\ UNCHANGED <<prog, phase, scanVars, prefixVars>>

\* Where control goes after the delay word, and with which registers: to the
\* callee, or to the word after it, where the callee may have changed them all.
Leave == -1
At(pc, regs) == [pc |-> pc, regs |-> regs]
NextPoints(w, pc, taken, regs) ==
    CASE w.kind = "jump" -> {At(w.target, regs)}
      [] w.kind = "branch" /\ ~taken -> {At(pc + 2, regs)}
      [] w.kind = "branch" /\ taken /\ w.link = NoReg -> {At(w.target, regs)}
      [] w.kind = "call" \/ (w.kind = "branch" /\ taken /\ w.link # NoReg) ->
            {At(w.target, regs)} \cup {At(pc + 2, r) : r \in AnyRegs}
      [] w.kind = "indirect" -> {At(to, regs) : to \in DOMAIN prog}
      [] OTHER -> {At(Leave, regs)}

\* A control word and its delay word.
CpuControl ==
    LET pc == cpu.pc
        w == prog[pc]
        n == cpu.steps + 2
    IN  /\ Running
        /\ w.kind \in Control
        /\ pc + 1 \in DOMAIN prog /\ prog[pc + 1].kind \in Plain
        /\ \E taken \in Condition(cpu.regs, w), linked \in Linked(cpu.regs, w) :
             /\ ~(w.likely /\ ~taken)
             /\ \E after \in Execute(linked, prog[pc + 1]) :
                  /\ \E next \in NextPoints(w, pc, taken, after) :
                       cpu' = [pc |-> next.pc, steps |-> n, regs |-> next.regs]
                  /\ access' = Access(linked, prog[pc + 1], pc + 1, n)
                        \cup (IF w.kind = "call" THEN CalleeAccess(after, w, pc, n) ELSE {})
        /\ UNCHANGED <<prog, phase, scanVars, prefixVars>>

-----------------------------------------------------------------------------
Next ==
    \/ Visit \/ GiveUp \/ Emit
    \/ Prefix
    \/ Start \/ CpuPlain \/ CpuAnnul \/ CpuControl

Spec == Init /\ [][Next]_vars

-----------------------------------------------------------------------------
(* Properties                                                              *)

Hit == [pc : Int, base : Reg, address : Int, width : Int, callee : BOOLEAN]

\* The variables have their types, and work is queued, without duplicates.
TypeOK ==
    /\ \A pc \in DOMAIN prog : prog[pc] \in Word
    /\ phase \in {"scan", "prefix", "run", "running"}
    /\ reached \subseteq DOMAIN prog \cup {0}
    /\ incoming \in [DOMAIN prog -> [Reg -> Fact \cup {Absent}]]
    /\ work \in Seq(Nat)
    /\ queued = {work[i] : i \in DOMAIN work} /\ Cardinality(queued) = Len(work)
    /\ visits \in 0 .. ScanBounds(prog)
    /\ \A h \in hits : h \in Hit
    /\ \A h \in found \cup claims : h.step \in 1 .. MaxPrefixSteps

\* A claim of scan_body holds in every run: whenever the word a claim names
\* accesses memory, it is at the claimed address, and as long as claimed,
\* whichever way control came there.
HitsSound ==
    \A a \in access, h \in hits :
        a.pc = h.pc /\ a.base = h.base /\ a.callee = h.callee =>
            a.address = h.address /\ a.width = h.width

\* A claim of scan_prefix holds in every run: its step is the access claimed.
PrefixSound ==
    phase = "running" =>
        \A h \in claims : h.step = cpu.steps => h \in access

\* What all the ways into a word agree on.
Into(t) == {e \in UNION {{Outgoing(prog, pc, incoming[pc])[i] :
                             i \in DOMAIN Outgoing(prog, pc, incoming[pc])} : pc \in reached} :
              e.to = t}
Arriving(t) == {e.state : e \in Into(t)} \cup (IF t = 0 THEN {ZERO} ELSE {})
Agreed(S, r) ==
    IF /\ \A s \in S : Known(s, r)
       /\ \A s, u \in S : s[r].val = u[r].val
    THEN NewFact((CHOOSE s \in S : TRUE)[r].val, UNION {s[r].trace : s \in S})
    ELSE Absent

\* u knows what s knows, and from no other words.
NoMore(s, u) ==
    \A r \in Reg : Known(s, r) =>
        Known(u, r) /\ u[r].val = s[r].val /\ u[r].trace \subseteq s[r].trace

\* A conditional move can depend on fewer words when less is known, so that
\* what it gave on an earlier visit may be lost.
Monotone(p) == \A pc \in DOMAIN p : p[pc].kind # "mov"

\* When the scan ends, a word's facts are not more than all the ways into it
\* agree on, which would be wrong; nor are they less, whatever the order of
\* the visits was, in a body without conditional moves.
FixedPoint ==
    phase = "prefix" /\ visits > 0 /\ work = << >> =>
        \A t \in reached :
            LET agreed == [r \in Reg |-> Agreed(Arriving(t), r)]
            IN  /\ NoMore(incoming[t], agreed)
                /\ Monotone(prog) => incoming[t] = agreed
=============================================================================
