------------------------- MODULE EeDataflowProofs -------------------------
(***************************************************************************)
(* What scan_body claims holds in every run, for every body, every file of *)
(* registers and every input: Spec => []HitsSound.                         *)
(*                                                                         *)
(* The worklist keeps the facts before each word below the facts of every  *)
(* edge into it from a word that is not queued (Settled); when the queue   *)
(* is empty that is a post-fixed point, which is all that soundness needs. *)
(* The processor's registers then agree with the facts of the word it is   *)
(* at (RunAgrees), since the analysis follows every edge it can take.      *)
(*                                                                         *)
(* Spec => []FixedPoint: besides, the facts stay above all that lies below *)
(* what arrives (ExactBoard), which makes it the greatest fixed point.     *)
(* Spec => []TypeOK: the queue has each waiting word once (Queue).         *)
(***************************************************************************)
EXTENDS EeDataflow, FiniteSetTheorems, TLAPS

\* A state, as words leave it: $0 reads 0, or is not known for a moment when
\* it is the link register of a call.
Good == {s \in State : s[0] \in {ZeroFact, Absent}}

\* u knows what s knows.
Below(s, u) == \A r \in Reg \ {0} : Known(s, r) => Known(u, r) /\ u[r].val = s[r].val

\* The registers hold what s knows.
Agrees(regs, s) == \A r \in Reg \ {0} : Known(s, r) => regs[r] = s[r].val
RegsOK(regs) == regs \in [Reg -> Int] /\ regs[0] = 0

Edges(pc, s) == {Outgoing(prog, pc, s)[i] : i \in DOMAIN Outgoing(prog, pc, s)}

Entry == DOMAIN prog \ Delays(prog)

BoardType == [reached : SUBSET Entry, incoming : [DOMAIN prog -> Good],
              work : Seq(Entry), queued : SUBSET Entry]

Board == [reached |-> reached, incoming |-> incoming, work |-> work, queued |-> queued]

BoardOK(b) ==
    /\ b \in BoardType
    /\ 0 \in b.reached
    /\ Below(b.incoming[0], ZERO)
    /\ \A i \in DOMAIN b.work : b.work[i] \in b.reached
    /\ \A q \in b.queued : \E i \in DOMAIN b.work : b.work[i] = q

\* The facts that leave a word have arrived where it leads.
Arrived(b, e) ==
    e.to \in Entry => e.to \in b.reached /\ Below(b.incoming[e.to], e.state)
Closed(b, pc) == \A e \in Edges(pc, b.incoming[pc]) : Arrived(b, e)
Settled(b, waiting) == \A pc \in b.reached \ waiting : Closed(b, pc)

Phases == {"scan", "prefix", "run", "running"}

ScanInv ==
    phase = "scan" =>
        /\ Accepted(prog)
        /\ hits = {}
        /\ BoardOK(Board)
        /\ Settled(Board, queued)

ClaimInv ==
    phase # "scan" /\ hits # {} =>
        /\ Accepted(prog)
        /\ BoardOK(Board)
        /\ Settled(Board, {})
        /\ \A h \in hits : \E pc \in reached : h \in HitsAt(prog, pc, incoming[pc])

RunAgrees ==
    phase = "running" =>
        /\ RegsOK(cpu.regs)
        /\ hits # {} /\ cpu.pc \in DOMAIN prog =>
              cpu.pc \in reached /\ Agrees(cpu.regs, incoming[cpu.pc])

IInv ==
    /\ prog \in Programs
    /\ phase \in Phases
    /\ phase # "running" => access = {}
    /\ ScanInv
    /\ ClaimInv
    /\ RunAgrees
    /\ HitsSound

-----------------------------------------------------------------------------
(* Facts and registers                                                     *)

LEMMA NewFactType ==
    ASSUME NEW v \in Int, NEW trace \in SUBSET Nat
    PROVE  /\ NewFact(v, trace) \in Fact \cup {Absent}
           /\ NewFact(v, trace) # Absent => v \in Addr /\ NewFact(v, trace).val = v
BY DEF NewFact, Fact, Absent

LEMMA FactFields ==
    ASSUME NEW f \in Fact \cup {Absent}
    PROVE  /\ f.val \in Int /\ f.trace \in SUBSET Nat
           /\ f # Absent => f.val \in Addr
BY LimitAssumption DEF Fact, Absent, Addr

LEMMA ZeroGood == ZeroFact \in Fact /\ ZeroFact # Absent /\ ZeroFact.val = 0 /\ ZERO \in Good
<1>1. ZeroFact \in Fact /\ ZeroFact.val = 0 /\ ZeroFact # Absent
  BY LimitAssumption DEF ZeroFact, Fact, Addr, Absent
<1>2. ZERO \in [Reg -> Fact \cup {Absent}]
  BY <1>1 DEF ZERO
<1>3. ZERO[0] = ZeroFact
  BY RegAssumption DEF ZERO
<1> QED
  BY <1>1, <1>2, <1>3 DEF Good, State

LEMMA AgreesZero ==
    ASSUME NEW regs
    PROVE  Agrees(regs, ZERO)
BY DEF Agrees, ZERO, Known, Absent

\* What a known register holds, register 0 included.
LEMMA Lookup ==
    ASSUME NEW regs, RegsOK(regs), NEW s \in Good, Agrees(regs, s),
           NEW r \in Reg, Known(s, r)
    PROVE  regs[r] = s[r].val /\ s[r].val \in Addr /\ s[r].trace \in SUBSET Nat
<1>1. s[r] \in Fact
  BY DEF Good, State, Known
<1>2. s[r].val \in Addr /\ s[r].trace \in SUBSET Nat
  BY <1>1 DEF Fact
<1>3. CASE r = 0
  BY <1>2, <1>3, ZeroGood DEF Good, Known, RegsOK
<1>4. CASE r # 0
  BY <1>2, <1>4 DEF Agrees
<1> QED
  BY <1>3, <1>4

LEMMA AssignGood ==
    ASSUME NEW s \in Good, NEW r \in Reg, NEW fact \in Fact \cup {Absent}
    PROVE  Assign(s, r, fact) \in Good /\ Assign(s, r, fact)[0] = ZeroFact
<1>1. Assign(s, r, fact) \in [Reg -> Fact \cup {Absent}]
  BY ZeroGood DEF Assign, Good, State
<1>2. Assign(s, r, fact)[0] = ZeroFact
  BY RegAssumption DEF Assign
<1> QED
  BY <1>1, <1>2 DEF Good, State

\* Writing to a register what is known of it keeps the agreement.
LEMMA AssignAgrees ==
    ASSUME NEW regs, RegsOK(regs), NEW s \in Good, Agrees(regs, s), NEW r \in Reg,
           NEW v \in Int, NEW fact \in Fact \cup {Absent},
           fact # Absent => fact.val = v
    PROVE  /\ RegsOK(SetReg(regs, r, v))
           /\ Agrees(SetReg(regs, r, v), Assign(s, r, fact))
<1>1. RegsOK(SetReg(regs, r, v))
  <2>1. SetReg(regs, r, v) \in [Reg -> Int]
    BY DEF RegsOK, SetReg
  <2>2. SetReg(regs, r, v)[0] = 0
    BY RegAssumption DEF SetReg
  <2> QED
    BY <2>1, <2>2 DEF RegsOK
<1>2. ASSUME NEW q \in Reg \ {0}, Known(Assign(s, r, fact), q)
      PROVE  SetReg(regs, r, v)[q] = Assign(s, r, fact)[q].val
  BY <1>2 DEF Assign, SetReg, Known, Agrees
<1> QED
  BY <1>1, <1>2 DEF Agrees

LEMMA MeetGood ==
    ASSUME NEW l \in Good, NEW u \in Good
    PROVE  Meet(l, u) \in Good
<1>1. ASSUME NEW r \in Reg PROVE MeetFact(l[r], u[r]) \in Fact \cup {Absent}
  <2>1. l[r] \in Fact \cup {Absent} /\ u[r] \in Fact \cup {Absent}
    BY DEF Good, State
  <2>2. l[r].val \in Int /\ l[r].trace \cup u[r].trace \in SUBSET Nat
    BY <2>1, FactFields
  <2> QED
    BY <2>2, NewFactType DEF MeetFact
<1>2. Meet(l, u) \in [Reg -> Fact \cup {Absent}]
  BY <1>1, ZeroGood DEF Meet
<1>3. Meet(l, u)[0] = ZeroFact
  BY RegAssumption DEF Meet
<1> QED
  BY <1>2, <1>3 DEF Good, State

\* A join knows only what both sides know.
LEMMA MeetBelow ==
    ASSUME NEW l \in Good, NEW u \in Good
    PROVE  Below(Meet(l, u), l) /\ Below(Meet(l, u), u)
<1> SUFFICES ASSUME NEW r \in Reg \ {0}, Known(Meet(l, u), r)
             PROVE  /\ Known(l, r) /\ l[r].val = Meet(l, u)[r].val
                    /\ Known(u, r) /\ u[r].val = Meet(l, u)[r].val
  BY DEF Below
<1>1. Meet(l, u)[r] = MeetFact(l[r], u[r])
  BY DEF Meet
<1>2. l[r] \in Fact \cup {Absent} /\ u[r] \in Fact \cup {Absent}
  BY DEF Good, State
<1>3. l[r] # Absent /\ u[r] # Absent /\ l[r].val = u[r].val
  BY <1>1 DEF MeetFact, Known
<1>4. MeetFact(l[r], u[r]) = NewFact(l[r].val, l[r].trace \cup u[r].trace)
  BY <1>3 DEF MeetFact
<1>5. l[r].val \in Int /\ l[r].trace \cup u[r].trace \in SUBSET Nat
  BY <1>2, FactFields
<1>6. MeetFact(l[r], u[r]).val = l[r].val
  BY <1>1, <1>4, <1>5, NewFactType DEF Known
<1> QED
  BY <1>1, <1>3, <1>6 DEF Known

LEMMA BelowRefl == ASSUME NEW s PROVE Below(s, s)
BY DEF Below

LEMMA BelowTrans ==
    ASSUME NEW s, NEW u, NEW v, Below(s, u), Below(u, v)
    PROVE  Below(s, v)
BY DEF Below

LEMMA BelowAgrees ==
    ASSUME NEW regs, NEW s, NEW u, Below(s, u), Agrees(regs, u)
    PROVE  Agrees(regs, s)
BY DEF Below, Agrees

-----------------------------------------------------------------------------
(* Transfer follows the processor                                          *)

\* Words of a body: the immediate is one the encoding can hold.
BodyWord == {w \in Word : w.imm \in -Limit .. Limit - 1}

LEMMA WrapSmall ==
    ASSUME NEW x \in Addr
    PROVE  x \in Int /\ Wrap(x) = x /\ Unsigned(Wrap(x)) = x
BY LimitAssumption DEF Addr, Wrap, Unsigned

LEMMA AluInt ==
    ASSUME NEW fn, NEW a \in Int, NEW b \in Int
    PROVE  Alu(fn, a, b) \in Int /\ Result(fn, a, b) \in Int
<1>1. Alu(fn, a, b) \in Int
  BY DEF Alu
<1>2. ASSUME NEW x \in Int PROVE Wrap(x) \in Int
  BY LimitAssumption DEF Wrap
<1> QED
  BY <1>1, <1>2 DEF Result

\* A result that is tracked did not wrap.
LEMMA ResultSound ==
    ASSUME NEW fn, NEW a \in Addr, NEW b \in -Limit .. Limit - 1, Alu(fn, a, b) \in Addr
    PROVE  Result(fn, a, b) = Alu(fn, a, b)
<1>1. CASE fn = "sltiu"
  BY <1>1, LimitAssumption DEF Result, Alu, Unsigned, Addr
<1>2. CASE fn # "sltiu"
  BY <1>2, WrapSmall DEF Result
<1> QED
  BY <1>1, <1>2

\* A value that can be written by a word that writes rd, and what is derived.
LEMMA DerivedSound ==
    ASSUME NEW regs, RegsOK(regs), NEW s \in Good, Agrees(regs, s),
           NEW w \in BodyWord, NEW pc \in Nat,
           w.kind \in {"alui", "alu", "mov", "load", "write"},
           NEW v \in Written(regs, w)
    PROVE  /\ v \in Int
           /\ Derived(s, w, pc) \in Fact \cup {Absent}
           /\ Derived(s, w, pc) # Absent => Derived(s, w, pc).val = v
<1> DEFINE D == Derived(s, w, pc)
<1>1. w.rd \in Reg /\ w.rs \in Reg /\ w.rt \in Reg /\ w.imm \in -Limit .. Limit - 1
  BY DEF BodyWord, Word
<1>2. regs[w.rs] \in Int /\ regs[w.rt] \in Int /\ regs[w.rd] \in Int /\ w.imm \in Int
  BY <1>1, LimitAssumption DEF RegsOK
<1>3. Absent \in Fact \cup {Absent}
  OBVIOUS
<1>4. ASSUME NEW r \in Reg, Known(s, r)
      PROVE  regs[r] = s[r].val /\ s[r].val \in Addr /\ s[r].val \in Int /\ s[r].trace \in SUBSET Nat
  BY <1>4, Lookup, WrapSmall
<1>5. CASE w.kind = "alui"
  <2>1. v = Result(w.fn, regs[w.rs], w.imm)
    BY <1>5 DEF Written
  <2>2. CASE Known(s, w.rs)
    <3> DEFINE val == Alu(w.fn, s[w.rs].val, w.imm)
               trace == s[w.rs].trace \cup {pc}
    <3>1. D = NewFact(val, trace)
      BY <1>5, <2>2 DEF Derived
    <3>2. regs[w.rs] = s[w.rs].val /\ s[w.rs].val \in Addr /\ s[w.rs].val \in Int
          /\ trace \in SUBSET Nat
      BY <1>1, <1>4, <2>2
    <3>3. val \in Int
      BY <1>2, <3>2, AluInt
    <3>4. val \in Addr => v = val
      BY <1>1, <2>1, <3>2, ResultSound
    <3> HIDE DEF val, trace, D
    <3> QED
      BY <1>2, <2>1, <3>1, <3>2, <3>3, <3>4, NewFactType, AluInt DEF D
  <2>3. CASE ~Known(s, w.rs)
    BY <1>2, <1>5, <2>1, <2>3, AluInt DEF Derived
  <2> QED
    BY <2>2, <2>3
<1>6. CASE w.kind = "alu"
  <2>1. v = Result(w.fn, regs[w.rs], regs[w.rt])
    BY <1>6 DEF Written
  <2>2. CASE Known(s, w.rs) /\ Known(s, w.rt)
    <3> DEFINE val == Alu(w.fn, s[w.rs].val, s[w.rt].val)
               trace == s[w.rs].trace \cup s[w.rt].trace \cup {pc}
    <3>1. D = NewFact(val, trace)
      BY <1>6, <2>2 DEF Derived
    <3>2. regs[w.rs] = s[w.rs].val /\ s[w.rs].val \in Addr /\ s[w.rs].val \in Int
          /\ regs[w.rt] = s[w.rt].val /\ s[w.rt].val \in Addr /\ s[w.rt].val \in Int
          /\ trace \in SUBSET Nat
      BY <1>1, <1>4, <2>2
    <3>3. val \in Int
      BY <3>2, AluInt
    <3>4. s[w.rt].val \in -Limit .. Limit - 1
      BY <3>2, LimitAssumption DEF Addr
    <3>5. val \in Addr => v = val
      BY <2>1, <3>2, <3>4, ResultSound
    <3> HIDE DEF val, trace, D
    <3> QED
      BY <1>2, <2>1, <3>1, <3>2, <3>3, <3>5, NewFactType, AluInt DEF D
  <2>3. CASE ~(Known(s, w.rs) /\ Known(s, w.rt))
    BY <1>2, <1>6, <2>1, <2>3, AluInt DEF Derived
  <2> QED
    BY <2>2, <2>3
<1>7. CASE w.kind = "mov"
  <2>1. v = IF (regs[w.rt] = 0) = (w.fn = "movz") THEN regs[w.rs] ELSE regs[w.rd]
    BY <1>7 DEF Written
  <2>2. CASE Known(s, w.rt)
    <3> DEFINE selected == IF (s[w.rt].val = 0) = (w.fn = "movz") THEN w.rs ELSE w.rd
               trace == s[selected].trace \cup s[w.rt].trace \cup {pc}
    <3>1. selected \in Reg /\ v = regs[selected] /\ s[w.rt].trace \in SUBSET Nat
      BY <1>1, <1>4, <2>1, <2>2
    <3>2. D = IF Known(s, selected) THEN NewFact(s[selected].val, trace) ELSE Absent
      BY <1>7, <2>2 DEF Derived
    <3> HIDE DEF selected, D
    <3>3. v \in Int
      BY <3>1 DEF RegsOK
    <3>4. CASE Known(s, selected)
      <4>1. s[selected].val \in Int /\ trace \in SUBSET Nat /\ regs[selected] = s[selected].val
        BY <1>4, <3>1, <3>4
      <4> HIDE DEF trace
      <4> QED
        BY <3>1, <3>2, <3>3, <3>4, <4>1, NewFactType DEF D
    <3>5. CASE ~Known(s, selected)
      BY <3>2, <3>3, <3>5 DEF D
    <3> QED
      BY <3>4, <3>5
  <2>3. CASE ~Known(s, w.rt) /\ Known(s, w.rs) /\ Known(s, w.rd) /\ s[w.rs].val = s[w.rd].val
    <3> DEFINE trace == s[w.rs].trace \cup s[w.rd].trace \cup {pc}
    <3>1. D = NewFact(s[w.rd].val, trace)
      BY <1>7, <2>3 DEF Derived
    <3>2. regs[w.rs] = s[w.rs].val /\ regs[w.rd] = s[w.rd].val /\ s[w.rd].val \in Int
          /\ trace \in SUBSET Nat
      BY <1>1, <1>4, <2>3
    <3>3. v = s[w.rd].val
      BY <2>1, <2>3, <3>2
    <3> HIDE DEF trace, D
    <3> QED
      BY <3>1, <3>2, <3>3, NewFactType DEF D
  <2>4. CASE ~Known(s, w.rt) /\ ~(Known(s, w.rs) /\ Known(s, w.rd) /\ s[w.rs].val = s[w.rd].val)
    <3>1. D = Absent
      BY <1>7, <2>4 DEF Derived
    <3>2. v \in Int
      BY <1>2, <2>1
    <3> QED
      BY <3>1, <3>2
  <2> QED
    BY <2>2, <2>3, <2>4
<1>8. CASE w.kind \in {"load", "write"}
  <2>1. v \in Inputs
    BY <1>8 DEF Written
  <2>2. D = Absent
    BY <1>8 DEF Derived
  <2> QED
    BY <2>1, <2>2, InputsAssumption
<1> QED
  BY <1>5, <1>6, <1>7, <1>8

LEMMA AnyRegsOK ==
    ASSUME NEW regs \in AnyRegs
    PROVE  RegsOK(regs)
<1>1. regs \in [Reg -> Inputs \cup {0}] /\ regs[0] = 0
  BY DEF AnyRegs
<1>2. Inputs \cup {0} \subseteq Int
  BY InputsAssumption
<1>3. regs \in [Reg -> Int]
  BY <1>1, <1>2
<1> QED
  BY <1>1, <1>3 DEF RegsOK

\* A plain encoding is what it looks like.
LEMMA PlainEncoding ==
    ASSUME NEW w, ~Odd(w)
    PROVE  Understood(w) = w
BY DEF Understood

\* An odd addition is executed as the plain one is.
LEMMA OddAddition ==
    ASSUME NEW w \in BodyWord, Odd(w), w.fn # "trap"
    PROVE  /\ Understood(w) \in BodyWord
           /\ Understood(w).kind \in {"alui", "alu"} /\ Understood(w).fn = "add"
           /\ Understood(w).rd = w.rd
           /\ ~Odd(Understood(w))
           /\ \A regs : Execute(regs, w) = Execute(regs, Understood(w))
<1> DEFINE u == Understood(w)
<1>1. u = [w EXCEPT !.kind = w.fn, !.fn = "add"] /\ w.fn \in {"alui", "alu"} /\ w.kind = "barrier"
  BY DEF Understood, Odd
<1>2. /\ u \in BodyWord /\ u.kind = w.fn /\ u.fn = "add" /\ u.rd = w.rd
  <2>1. w \in Word /\ w.imm \in -Limit .. Limit - 1 /\ w.fn \in Plain \cup Control
    BY <1>1 DEF BodyWord, Plain
  <2>2. "add" \in Fn
    BY DEF Fn
  <2> HIDE DEF u
  <2>3. u \in Word /\ u.kind = w.fn /\ u.fn = "add" /\ u.rd = w.rd /\ u.imm = w.imm
    BY <1>1, <2>1, <2>2 DEF Word
  <2> QED
    BY <2>1, <2>3 DEF BodyWord
<1> HIDE DEF u
<1>3. ~Odd(u) /\ Understood(u) = u
  BY <1>1, <1>2, PlainEncoding DEF Odd
<1>4. ASSUME NEW regs PROVE Execute(regs, w) = Execute(regs, u)
  <2>1. Execute(regs, w) = {SetReg(regs, w.rd, v) : v \in Written(regs, u)}
    BY <1>1 DEF Execute, u
  <2>2. Execute(regs, u) = {SetReg(regs, u.rd, v) : v \in Written(regs, u)}
    BY <1>1, <1>2, <1>3 DEF Execute
  <2> QED
    BY <1>2, <2>1, <2>2
<1> QED
  BY <1>1, <1>2, <1>3, <1>4 DEF u

\* A trap changes one register, or none.
LEMMA TrapSound ==
    ASSUME NEW regs, RegsOK(regs), NEW s \in Good, Agrees(regs, s),
           NEW w \in BodyWord, Odd(w), w.fn = "trap", NEW next \in Execute(regs, w)
    PROVE  RegsOK(next) /\ Agrees(next, Assign(s, w.rd, Absent))
<1>1. w.rd \in Reg /\ w.kind = "barrier"
  BY DEF BodyWord, Word, Odd
<1>2. next \in {regs} \cup {SetReg(regs, w.rd, v) : v \in Inputs}
  BY <1>1 DEF Execute
<1>3. CASE next = regs
  BY <1>3 DEF Agrees, Assign, Known
<1>4. ASSUME NEW v \in Inputs, next = SetReg(regs, w.rd, v)
      PROVE  RegsOK(next) /\ Agrees(next, Assign(s, w.rd, Absent))
  BY <1>1, <1>4, AssignAgrees, InputsAssumption
<1> QED
  BY <1>2, <1>3, <1>4

LEMMA BarrierRegs ==
    ASSUME NEW regs, RegsOK(regs), NEW w \in BodyWord, w.kind = "barrier",
           NEW next \in Execute(regs, w)
    PROVE  RegsOK(next)
<1>1. CASE ~Odd(w)
  BY <1>1, AnyRegsOK DEF Execute
<1>2. CASE Odd(w) /\ w.fn = "trap"
  BY <1>2, TrapSound, ZeroGood, AgreesZero
<1>3. CASE Odd(w) /\ w.fn # "trap"
  <2> DEFINE u == Understood(w)
  <2>1. /\ u \in BodyWord /\ u.kind \in {"alui", "alu"} /\ u.rd \in Reg /\ ~Odd(u)
        /\ next \in Execute(regs, u)
    BY <1>3, OddAddition DEF BodyWord, Word
  <2> HIDE DEF u
  <2>2. PICK v \in Written(regs, u) : next = SetReg(regs, u.rd, v)
    BY <2>1, PlainEncoding DEF Execute
  <2>3. v \in Int
    <3>1. 0 \in Nat
      OBVIOUS
    <3> QED
      BY <2>1, <2>2, <3>1, ZeroGood, AgreesZero, DerivedSound
  <2> QED
    BY <2>1, <2>2, <2>3, ZeroGood, AgreesZero, AssignAgrees
<1> QED
  BY <1>1, <1>2, <1>3

\* Executing a word keeps the agreement with the facts after it.
LEMMA TransferSound ==
    ASSUME NEW regs, RegsOK(regs), NEW s \in Good, Agrees(regs, s),
           NEW w \in BodyWord, w.kind \in Plain, NEW pc \in Nat,
           NEW next \in Execute(regs, w)
    PROVE  RegsOK(next) /\ Agrees(next, Transfer(s, w, pc))
<1>1. CASE w.kind = "barrier"
  BY <1>1, BarrierRegs, AgreesZero DEF Transfer
<1>2. CASE w.kind \in {"store", "none"}
  <2>1. next = regs /\ Transfer(s, w, pc) = Assign(s, 0, ZeroFact)
    BY <1>2 DEF Execute, Transfer
  <2>2. Agrees(regs, Assign(s, 0, ZeroFact))
    BY DEF Agrees, Assign, Known
  <2> QED
    BY <2>1, <2>2
<1>3. CASE w.kind \in {"alui", "alu", "mov", "load", "write"}
  <2>1. PICK v \in Written(regs, w) : next = SetReg(regs, w.rd, v)
    BY <1>3, PlainEncoding DEF Execute, Odd
  <2>2. Transfer(s, w, pc) = Assign(s, w.rd, Derived(s, w, pc))
    BY <1>3 DEF Transfer
  <2>3. w.rd \in Reg
    BY DEF BodyWord, Word
  <2>4. /\ v \in Int
        /\ Derived(s, w, pc) \in Fact \cup {Absent}
        /\ Derived(s, w, pc) # Absent => Derived(s, w, pc).val = v
    BY <1>3, DerivedSound
  <2> QED
    BY <2>1, <2>2, <2>3, <2>4, AssignAgrees
<1> QED
  BY <1>1, <1>2, <1>3 DEF Plain

LEMMA TransferGood ==
    ASSUME NEW s \in Good, NEW w \in BodyWord, w.kind \in Plain, NEW pc \in Nat
    PROVE  Transfer(s, w, pc) \in Good
<1>1. CASE w.kind = "barrier"
  BY <1>1, ZeroGood DEF Transfer
<1>2. CASE w.kind \in {"store", "none"}
  BY <1>2, AssignGood, ZeroGood, RegAssumption DEF Transfer
<1>3. CASE w.kind \in {"alui", "alu", "mov", "load", "write"}
  <2>1. Transfer(s, w, pc) = Assign(s, w.rd, Derived(s, w, pc)) /\ w.rd \in Reg
    BY <1>3 DEF Transfer, BodyWord, Word
  <2>2. Derived(s, w, pc) \in Fact \cup {Absent}
    <3> DEFINE regs == [r \in Reg |-> IF r # 0 /\ Known(s, r) THEN s[r].val ELSE 0]
    <3>1. RegsOK(regs) /\ Agrees(regs, s)
      <4>1. ASSUME NEW r \in Reg PROVE regs[r] \in Int
        BY FactFields DEF Good, State
      <4>2. regs \in [Reg -> Int] /\ regs[0] = 0
        BY <4>1, RegAssumption
      <4> QED
        BY <4>2 DEF RegsOK, Agrees
    <3> HIDE DEF regs
    <3>2. CASE w.kind \in {"alui", "alu", "mov"}
      <4>1. Written(regs, w) # {}
        BY <3>2 DEF Written
      <4> QED
        BY <1>3, <3>1, <4>1, DerivedSound
    <3>3. CASE w.kind \in {"load", "write"}
      BY <3>3 DEF Derived
    <3> QED
      BY <1>3, <3>2, <3>3
  <2> QED
    BY <2>1, <2>2, AssignGood
<1> QED
  BY <1>1, <1>2, <1>3 DEF Plain

LEMMA PriorGood ==
    ASSUME NEW s \in Good, NEW w \in BodyWord
    PROVE  Prior(s, w) \in Good
<1>1. CASE w.link = NoReg
  BY <1>1 DEF Prior
<1>2. CASE w.link # NoReg
  <2>1. w.link \in Reg /\ Prior(s, w) = [s EXCEPT ![w.link] = Absent]
    BY <1>2 DEF BodyWord, Word, Prior
  <2>2. s \in [Reg -> Fact \cup {Absent}] /\ s[0] \in {ZeroFact, Absent}
    BY DEF Good, State
  <2> QED
    BY <2>1, <2>2, RegAssumption DEF Good, State
<1> QED
  BY <1>1, <1>2

\* The return address, which may be any, is not known.
LEMMA PriorSound ==
    ASSUME NEW regs, RegsOK(regs), NEW s \in Good, Agrees(regs, s), NEW w \in BodyWord,
           NEW linked \in Linked(regs, w)
    PROVE  RegsOK(linked) /\ Agrees(linked, Prior(s, w))
<1>1. CASE w.link = NoReg
  BY <1>1 DEF Prior, Linked
<1>2. CASE w.link # NoReg
  <2>1. w.link \in Reg /\ Prior(s, w) = [s EXCEPT ![w.link] = Absent]
    BY <1>2 DEF BodyWord, Word, Prior
  <2>2. PICK v \in Inputs : linked = SetReg(regs, w.link, v)
    BY <1>2 DEF Linked
  <2>3. RegsOK(linked) /\ Agrees(linked, Assign(s, w.link, Absent))
    BY <2>1, <2>2, InputsAssumption, AssignAgrees
  <2>4. ASSUME NEW r \in Reg \ {0}
        PROVE  Prior(s, w)[r] = Assign(s, w.link, Absent)[r]
    BY <2>1 DEF Assign, Good, State
  <2> QED
    BY <2>3, <2>4 DEF Agrees, Known
<1> QED
  BY <1>1, <1>2

-----------------------------------------------------------------------------
(* Edges                                                                   *)

LEMMA ProgramFacts ==
    ASSUME prog \in Programs
    PROVE  /\ DOMAIN prog \subseteq Nat
           /\ \A pc \in DOMAIN prog : prog[pc] \in BodyWord
           /\ DOMAIN prog # {} => 0 \in Entry
<1>1. IsFiniteSet(DOMAIN prog) /\ DOMAIN prog = 0 .. Cardinality(DOMAIN prog) - 1
  BY ProgramsAssumption
<1>2. \A pc \in DOMAIN prog : prog[pc] \in BodyWord
  BY ProgramsAssumption DEF BodyWord
<1>3. Cardinality(DOMAIN prog) \in Nat
  BY <1>1, FS_CardinalityType
<1>4. DOMAIN prog \subseteq Nat
  BY <1>1, <1>3
<1>5. 0 \notin Delays(prog)
  BY <1>4 DEF Delays, Controls
<1>6. DOMAIN prog # {} => 0 \in DOMAIN prog
  BY <1>1, <1>3
<1> QED
  BY <1>2, <1>4, <1>5, <1>6 DEF Entry

\* The words a word at an entry may be, in an accepted body, and its delay word.
LEMMA Kinds ==
    ASSUME prog \in Programs, Accepted(prog), NEW pc \in Entry
    PROVE  /\ prog[pc].kind \in Plain \cup {"branch", "jump", "call", "return"}
           /\ prog[pc].kind \in {"branch", "jump", "call", "return"} =>
                 /\ pc + 1 \in DOMAIN prog
                 /\ prog[pc + 1].kind \in Plain
                 /\ prog[pc + 1] \in BodyWord
                 /\ pc + 2 \notin Delays(prog)
           /\ prog[pc].kind \in Plain => pc + 1 \notin Delays(prog)
           /\ prog[pc] \in BodyWord /\ pc \in Nat
<1>1. pc \in Nat /\ prog[pc] \in BodyWord /\ DOMAIN prog \subseteq Nat
  BY ProgramFacts DEF Entry
<1>2. prog[pc].kind \in Plain \cup {"branch", "jump", "call", "return"}
  BY <1>1 DEF Accepted, Entry, BodyWord, Word, Control
<1>3. Plain \cap Control = {}
  BY DEF Plain, Control
<1>4. ASSUME prog[pc].kind \in {"branch", "jump", "call", "return"}
      PROVE  /\ pc + 1 \in DOMAIN prog
             /\ prog[pc + 1].kind \in Plain
             /\ prog[pc + 1] \in BodyWord
             /\ pc + 2 \notin Delays(prog)
  <2>1. pc \in Controls(prog)
    BY <1>4 DEF Controls, Control, Entry
  <2>2. pc + 1 \in DOMAIN prog /\ pc + 1 \notin Controls(prog)
    BY <2>1 DEF Delays, Accepted, DelaysWellFormed
  <2>3. prog[pc + 1] \in BodyWord
    BY <2>2, ProgramFacts
  <2>4. prog[pc + 1].kind \in Plain
    BY <2>2, <2>3 DEF Controls, BodyWord, Word
  <2>5. pc + 2 \notin Delays(prog)
    BY <1>1, <2>2 DEF Delays, Controls
  <2> QED
    BY <2>2, <2>3, <2>4, <2>5
<1>5. ASSUME prog[pc].kind \in Plain PROVE pc + 1 \notin Delays(prog)
  BY <1>1, <1>3, <1>5 DEF Delays, Controls
<1> QED
  BY <1>1, <1>2, <1>4, <1>5

After(pc, s) == Transfer(Prior(s, prog[pc]), prog[pc + 1], pc + 1)

\* The edges of each kind of word.
LEMMA EdgesOf ==
    ASSUME NEW pc, NEW s
    PROVE  /\ prog[pc].kind \in Plain =>
                 Edges(pc, s) = {Edge(pc + 1, Transfer(s, prog[pc], pc))}
           /\ prog[pc].kind = "call" => Edges(pc, s) = {Edge(pc + 2, ZERO)}
           /\ prog[pc].kind = "branch" /\ prog[pc].link # NoReg =>
                 Edges(pc, s) = {Edge(pc + 2, ZERO)}
           /\ prog[pc].kind = "jump" => Edges(pc, s) = {Edge(prog[pc].target, After(pc, s))}
           /\ prog[pc].kind = "branch" /\ prog[pc].link = NoReg =>
                 Edges(pc, s) = {Edge(prog[pc].target, After(pc, s)),
                                 Edge(pc + 2, IF prog[pc].likely THEN Prior(s, prog[pc])
                                              ELSE After(pc, s))}
           /\ prog[pc].kind = "return" => Edges(pc, s) = {}
<1> DEFINE w == prog[pc]
           out == Outgoing(prog, pc, s)
<1>0. Edges(pc, s) = {out[i] : i \in DOMAIN out}
  BY DEF Edges
<1>1. ASSUME w.kind \in Plain PROVE out = <<Edge(pc + 1, Transfer(s, w, pc))>>
  BY <1>1 DEF Outgoing, Plain
<1>2. ASSUME w.kind = "call" PROVE out = <<Edge(pc + 2, ZERO)>>
  BY <1>2 DEF Outgoing, Plain
<1>3. ASSUME w.kind = "branch", w.link # NoReg PROVE out = <<Edge(pc + 2, ZERO)>>
  BY <1>3 DEF Outgoing, Plain
<1>4. ASSUME w.kind = "jump" PROVE out = <<Edge(w.target, After(pc, s))>>
  BY <1>4 DEF Outgoing, Plain, After
<1>5. ASSUME w.kind = "branch", w.link = NoReg
      PROVE  out = <<Edge(w.target, After(pc, s)),
                     Edge(pc + 2, IF w.likely THEN Prior(s, w) ELSE After(pc, s))>>
  BY <1>5 DEF Outgoing, Plain, After
<1>6. ASSUME w.kind = "return" PROVE out = << >>
  BY <1>6 DEF Outgoing, Plain
<1> HIDE DEF out, w
<1>7. ASSUME NEW x PROVE out = <<x>> => {out[i] : i \in DOMAIN out} = {x}
  OBVIOUS
<1>8. ASSUME NEW x, NEW y PROVE out = <<x, y>> => {out[i] : i \in DOMAIN out} = {x, y}
  <2>1. SUFFICES ASSUME out = <<x, y>> PROVE {out[i] : i \in DOMAIN out} = {x, y}
    OBVIOUS
  <2>2. DOMAIN out = {1, 2} /\ out[1] = x /\ out[2] = y
    BY <2>1
  <2> QED
    BY <2>2
<1>9. out = << >> => {out[i] : i \in DOMAIN out} = {}
  OBVIOUS
<1>10. CASE w.kind \in Plain
  BY <1>0, <1>1, <1>7, <1>10 DEF w, Plain
<1>11. CASE w.kind = "call"
  BY <1>0, <1>2, <1>7, <1>11 DEF w, Plain
<1>12. CASE w.kind = "jump"
  BY <1>0, <1>4, <1>7, <1>12 DEF w, Plain
<1>13. CASE w.kind = "branch" /\ w.link # NoReg
  BY <1>0, <1>3, <1>7, <1>13 DEF w, Plain
<1>14. CASE w.kind = "branch" /\ w.link = NoReg
  BY <1>0, <1>5, <1>8, <1>14 DEF w, Plain
<1>15. CASE w.kind = "return"
  BY <1>0, <1>6, <1>9, <1>15 DEF w, Plain
<1> QED
  BY <1>10, <1>11, <1>12, <1>13, <1>14, <1>15 DEF w

LEMMA EdgeFields == ASSUME NEW to, NEW s PROVE Edge(to, s).to = to /\ Edge(to, s).state = s
BY DEF Edge

\* The facts on the edges of a word are facts.
LEMMA EdgesGood ==
    ASSUME prog \in Programs, Accepted(prog), NEW pc \in Entry, NEW s \in Good,
           NEW e \in Edges(pc, s)
    PROVE  e.state \in Good
<1> DEFINE w == prog[pc]
<1>1. /\ w \in BodyWord /\ pc \in Nat
      /\ w.kind \in Plain \cup {"branch", "jump", "call", "return"}
  BY Kinds
<1>2. Prior(s, w) \in Good
  BY <1>1, PriorGood
<1>3. CASE w.kind \in Plain
  <2>1. Transfer(s, w, pc) \in Good
    BY <1>1, <1>3, TransferGood
  <2> QED
    BY <1>3, <2>1, EdgesOf, EdgeFields
<1>4. CASE w.kind = "call" \/ (w.kind = "branch" /\ w.link # NoReg)
  BY <1>4, EdgesOf, EdgeFields, ZeroGood
<1>5. CASE w.kind = "jump" \/ (w.kind = "branch" /\ w.link = NoReg)
  <2>1. pc + 1 \in Nat /\ prog[pc + 1] \in BodyWord /\ prog[pc + 1].kind \in Plain
    BY <1>1, <1>5, Kinds
  <2>2. After(pc, s) \in Good
    BY <1>2, <2>1, TransferGood DEF After
  <2> QED
    BY <1>2, <1>5, <2>2, EdgesOf, EdgeFields
<1>6. CASE w.kind = "return"
  BY <1>6, EdgesOf
<1> QED
  BY <1>1, <1>3, <1>4, <1>5, <1>6

LEMMA OutgoingShape ==
    ASSUME prog \in Programs, Accepted(prog), NEW pc \in Entry, NEW s
    PROVE  \/ Outgoing(prog, pc, s) = << >>
           \/ \E x : Outgoing(prog, pc, s) = <<x>>
           \/ \E x, y : Outgoing(prog, pc, s) = <<x, y>>
<1> DEFINE w == prog[pc]
<1>1. w.kind \in Plain \cup {"branch", "jump", "call", "return"}
  BY Kinds
<1>2. CASE w.kind \in Plain \cup {"jump", "call"}
  BY <1>2 DEF Outgoing, Plain
<1>3. CASE w.kind = "branch" /\ w.link # NoReg
  BY <1>3 DEF Outgoing, Plain
<1>4. CASE w.kind = "branch" /\ w.link = NoReg
  BY <1>4 DEF Outgoing, Plain
<1>5. CASE w.kind = "return"
  BY <1>5 DEF Outgoing, Plain
<1> QED
  BY <1>1, <1>2, <1>3, <1>4, <1>5

-----------------------------------------------------------------------------
(* The worklist                                                            *)

\* What flowing an edge does to a board: facts only fall, and a word that is
\* not queued is as it was.
Grows(b, c) ==
    /\ b.reached \subseteq c.reached
    /\ b.queued \subseteq c.queued
    /\ \A q \in b.reached : Below(c.incoming[q], b.incoming[q])
    /\ \A q \in c.reached \ c.queued : q \in b.reached /\ c.incoming[q] = b.incoming[q]

LEMMA GrowsRefl == ASSUME NEW b PROVE Grows(b, b)
BY BelowRefl DEF Grows

LEMMA GrowsTrans ==
    ASSUME NEW b, NEW c, NEW d, Grows(b, c), Grows(c, d)
    PROVE  Grows(b, d)
BY BelowTrans DEF Grows

LEMMA ArrivedGrows ==
    ASSUME NEW b, NEW c, NEW e, Grows(b, c), Arrived(b, e)
    PROVE  Arrived(c, e)
BY BelowTrans DEF Grows, Arrived

LEMMA FlowSound ==
    ASSUME prog \in Programs, NEW b, BoardOK(b), NEW e, e.state \in Good
    PROVE  BoardOK(Flow(b, e)) /\ Grows(b, Flow(b, e)) /\ Arrived(Flow(b, e), e)
<1> DEFINE m == Merged(b, e)
<1>1. b \in BoardType /\ b.reached \subseteq Entry /\ b.incoming \in [DOMAIN prog -> Good]
      /\ b.work \in Seq(Entry) /\ b.queued \subseteq Entry /\ Entry \subseteq DOMAIN prog
  BY DEF BoardOK, BoardType, Entry
<1>2. m \in Good /\ Below(m, e.state) /\ (e.to \in b.reached => Below(m, b.incoming[e.to]))
  <2>1. CASE e.to \in b.reached
    <3>1. b.incoming[e.to] \in Good
      BY <1>1, <2>1
    <3> QED
      BY <2>1, <3>1, MeetGood, MeetBelow DEF Merged
  <2>2. CASE e.to \notin b.reached
    BY <2>2, BelowRefl DEF Merged
  <2> QED
    BY <2>1, <2>2
<1> HIDE DEF m
<1>3. CASE Changes(b, e)
  <2> DEFINE R == b.reached \cup {e.to}
             I == [b.incoming EXCEPT ![e.to] = m]
             W == IF e.to \in b.queued THEN b.work ELSE Append(b.work, e.to)
             Q == b.queued \cup {e.to}
             c == [reached |-> R, incoming |-> I, work |-> W, queued |-> Q]
  <2>1. Flow(b, e) = c
    BY <1>3 DEF Flow, Enqueued, m
  <2>2. e.to \in Entry /\ e.to \in DOMAIN prog
    BY <1>3 DEF Changes, Entry
  <2>3. /\ I \in [DOMAIN prog -> Good]
        /\ I[e.to] = m
        /\ \A q \in DOMAIN prog : q # e.to => I[q] = b.incoming[q]
    BY <1>1, <1>2, <2>2
  <2>4. W \in Seq(Entry)
    BY <1>1, <2>2
  <2>5. c \in BoardType
    BY <1>1, <2>2, <2>3, <2>4 DEF BoardType
  <2>6. \A i \in DOMAIN W : W[i] \in R
    BY <1>1, <2>2 DEF BoardOK
  <2>7. \A q \in Q : \E i \in DOMAIN W : W[i] = q
    <3> SUFFICES ASSUME NEW q \in Q PROVE \E i \in DOMAIN W : W[i] = q
      OBVIOUS
    <3>1. CASE q \in b.queued
      <4>1. PICK i \in DOMAIN b.work : b.work[i] = q
        BY <3>1 DEF BoardOK
      <4>2. i \in DOMAIN W /\ W[i] = q
        BY <1>1, <2>2, <4>1
      <4> QED
        BY <4>2
    <3>2. CASE q = e.to /\ q \notin b.queued
      <4>1. Len(W) \in DOMAIN W /\ W[Len(W)] = q
        BY <1>1, <2>2, <3>2
      <4> QED
        BY <4>1
    <3> QED
      BY <3>1, <3>2
  <2>8. 0 \in b.reached /\ Below(b.incoming[0], ZERO) /\ 0 \in DOMAIN prog
    BY <1>1 DEF BoardOK
  <2>9. Below(I[0], ZERO)
    <3>1. CASE e.to = 0
      BY <1>2, <2>3, <2>8, <3>1, BelowTrans
    <3>2. CASE e.to # 0
      BY <2>3, <2>8, <3>2
    <3> QED
      BY <3>1, <3>2
  <2>10. ASSUME NEW q \in b.reached PROVE Below(I[q], b.incoming[q])
    <3>1. CASE q = e.to
      BY <1>2, <2>3, <3>1
    <3>2. CASE q # e.to
      BY <1>1, <2>3, <3>2, BelowRefl
    <3> QED
      BY <3>1, <3>2
  <2>11. ASSUME NEW q \in R \ Q PROVE q \in b.reached /\ I[q] = b.incoming[q]
    BY <1>1, <2>3
  <2>12. c.reached = R /\ c.incoming = I /\ c.work = W /\ c.queued = Q
    OBVIOUS
  <2> HIDE DEF R, I, W, Q, c
  <2>13. BoardOK(c)
    BY <2>5, <2>6, <2>7, <2>8, <2>9, <2>12 DEF BoardOK, R
  <2>14. Grows(b, c)
    BY <2>10, <2>11, <2>12 DEF Grows, R, Q
  <2>15. Arrived(c, e)
    BY <1>2, <2>3, <2>12 DEF Arrived, R
  <2> QED
    BY <2>1, <2>13, <2>14, <2>15
<1>4. CASE ~Changes(b, e)
  <2>1. Flow(b, e) = b
    BY <1>4 DEF Flow
  <2>2. ASSUME e.to \in Entry
        PROVE  e.to \in b.reached /\ m = b.incoming[e.to]
    BY <1>4, <2>2 DEF Changes, Entry, m
  <2>3. Arrived(b, e)
    BY <1>2, <2>2 DEF Arrived
  <2> QED
    BY <2>1, <2>3, GrowsRefl
<1> QED
  BY <1>3, <1>4

LEMMA FlowAllSound ==
    ASSUME prog \in Programs, Accepted(prog), NEW b, BoardOK(b), NEW pc \in Entry, NEW s \in Good
    PROVE  LET c == FlowAll(b, Outgoing(prog, pc, s))
           IN  BoardOK(c) /\ Grows(b, c) /\ \A e \in Edges(pc, s) : Arrived(c, e)
<1> DEFINE out == Outgoing(prog, pc, s)
           c == FlowAll(b, out)
<1>1. \A i \in DOMAIN out : out[i].state \in Good
  BY EdgesGood DEF Edges
<1>2. Edges(pc, s) = {out[i] : i \in DOMAIN out}
  BY DEF Edges
<1>3. out = << >> \/ (\E x : out = <<x>>) \/ (\E x, y : out = <<x, y>>)
  BY OutgoingShape
<1> SUFFICES BoardOK(c) /\ Grows(b, c) /\ \A i \in DOMAIN out : Arrived(c, out[i])
  BY <1>2
<1> HIDE DEF out
<1>4. CASE out = << >>
  BY <1>4, GrowsRefl DEF FlowAll
<1>5. ASSUME NEW x, out = <<x>>
      PROVE  BoardOK(c) /\ Grows(b, c) /\ \A i \in DOMAIN out : Arrived(c, out[i])
  <2>1. Len(out) = 1 /\ DOMAIN out = {1} /\ out[1] = x
    BY <1>5
  <2>2. c = Flow(b, out[1])
    BY <2>1 DEF FlowAll
  <2>3. BoardOK(c) /\ Grows(b, c) /\ Arrived(c, out[1])
    BY <1>1, <2>1, <2>2, FlowSound
  <2> QED
    BY <2>1, <2>3
<1>6. ASSUME NEW x, NEW y, out = <<x, y>>
      PROVE  BoardOK(c) /\ Grows(b, c) /\ \A i \in DOMAIN out : Arrived(c, out[i])
  <2>1. Len(out) = 2 /\ DOMAIN out = {1, 2}
    BY <1>6
  <2> DEFINE d == Flow(b, out[1])
  <2>2. c = Flow(d, out[2])
    BY <2>1 DEF FlowAll
  <2>3. BoardOK(d) /\ Grows(b, d) /\ Arrived(d, out[1])
    BY <1>1, <2>1, FlowSound
  <2> HIDE DEF d, c
  <2>4. BoardOK(c) /\ Grows(d, c) /\ Arrived(c, out[2])
    BY <1>1, <2>1, <2>2, <2>3, FlowSound
  <2> QED
    BY <2>1, <2>3, <2>4, GrowsTrans, ArrivedGrows
<1> QED
  BY <1>3, <1>4, <1>5, <1>6

\* A board from whose queue the first word has been taken.
LEMMA BoardPopped ==
    ASSUME NEW b, BoardOK(b), b.work # << >>,
           NEW popped, popped = [reached |-> b.reached, incoming |-> b.incoming,
                                 work |-> Tail(b.work), queued |-> b.queued \ {Head(b.work)}]
    PROVE  BoardOK(popped)
<1> DEFINE pc == Head(b.work)
<1>1. b \in BoardType /\ b.work \in Seq(Entry) /\ b.queued \subseteq Entry
  BY DEF BoardOK, BoardType
<1>2. pc = b.work[1] /\ Tail(b.work) \in Seq(Entry)
      /\ \A i \in DOMAIN Tail(b.work) : i + 1 \in DOMAIN b.work /\ Tail(b.work)[i] = b.work[i + 1]
  BY <1>1
<1>3. popped \in BoardType
  BY <1>1, <1>2 DEF BoardType
<1>4. \A i \in DOMAIN popped.work : popped.work[i] \in popped.reached
  BY <1>2 DEF BoardOK
<1>5. ASSUME NEW q \in popped.queued
      PROVE  \E i \in DOMAIN popped.work : popped.work[i] = q
  <2>1. q \in b.queued /\ q # pc
    OBVIOUS
  <2>2. PICK j \in DOMAIN b.work : b.work[j] = q
    BY <2>1 DEF BoardOK
  <2>3. j - 1 \in DOMAIN Tail(b.work) /\ Tail(b.work)[j - 1] = q
    BY <1>1, <1>2, <2>1, <2>2
  <2> QED
    BY <2>3
<1> QED
  BY <1>3, <1>4, <1>5 DEF BoardOK

\* A visit: the word popped is settled again unless it has been queued.
LEMMA VisitSound ==
    ASSUME prog \in Programs, Accepted(prog), NEW b, BoardOK(b), Settled(b, b.queued),
           b.work # << >>,
           NEW popped, popped = [reached |-> b.reached, incoming |-> b.incoming,
                                 work |-> Tail(b.work), queued |-> b.queued \ {Head(b.work)}],
           NEW c, c = FlowAll(popped, Outgoing(prog, Head(b.work), b.incoming[Head(b.work)]))
    PROVE  BoardOK(c) /\ Settled(c, c.queued)
<1> DEFINE pc == Head(b.work)
<1>1. b \in BoardType /\ b.reached \subseteq Entry /\ b.incoming \in [DOMAIN prog -> Good]
      /\ b.work \in Seq(Entry) /\ b.queued \subseteq Entry /\ Entry \subseteq DOMAIN prog
  BY DEF BoardOK, BoardType, Entry
<1>2. pc \in b.reached /\ pc \in Entry /\ pc = b.work[1] /\ Tail(b.work) \in Seq(Entry)
      /\ \A i \in DOMAIN Tail(b.work) : i + 1 \in DOMAIN b.work /\ Tail(b.work)[i] = b.work[i + 1]
  BY <1>1 DEF BoardOK
<1>3. BoardOK(popped)
  BY BoardPopped
<1>4. b.incoming[pc] \in Good
  BY <1>1, <1>2
<1>5. BoardOK(c) /\ Grows(popped, c) /\ \A e \in Edges(pc, b.incoming[pc]) : Arrived(c, e)
  BY <1>2, <1>3, <1>4, FlowAllSound
<1>6. ASSUME NEW q \in c.reached \ c.queued PROVE Closed(c, q)
  <2>1. q \in b.reached /\ c.incoming[q] = b.incoming[q]
    BY <1>5, <1>6 DEF Grows
  <2>2. CASE q = pc
    BY <1>5, <2>1, <2>2 DEF Closed
  <2>3. CASE q # pc
    <3>1. q \notin b.queued
      BY <1>5, <2>3 DEF Grows
    <3>2. Closed(popped, q)
      BY <2>1, <3>1 DEF Settled, Closed, Arrived
    <3> QED
      BY <1>5, <2>1, <3>2, ArrivedGrows DEF Closed
  <2> QED
    BY <2>2, <2>3
<1> QED
  BY <1>5, <1>6 DEF Settled

-----------------------------------------------------------------------------
(* Claims                                                                  *)

\* Claims about a load or store, against what the processor accesses.
LEMMA AccessSound ==
    ASSUME NEW regs, RegsOK(regs), NEW s \in Good, Agrees(regs, s),
           NEW w \in BodyWord, NEW pc, NEW n,
           NEW a \in Access(regs, w, pc, n), NEW h \in AccessHit(s, w, pc)
    PROVE  a.address = h.address /\ a.width = h.width
<1> DEFINE address == s[w.rs].val + w.imm
<1>1. w.rs \in Reg /\ Known(s, w.rs) /\ address \in Addr /\ h.address = address /\ h.width = w.width
  BY DEF AccessHit, BodyWord, Word
<1>2. regs[w.rs] = s[w.rs].val
  BY <1>1, Lookup
<1>3. a.address = Unsigned(Wrap(regs[w.rs] + w.imm)) /\ a.width = w.width
  BY DEF Access
<1>4. Unsigned(Wrap(address)) = address
  BY <1>1, WrapSmall
<1> QED
  BY <1>1, <1>2, <1>3, <1>4

LEMMA MemoryCallFields ==
    ASSUME NEW s, NEW w, NEW pc, NEW h \in MemoryCall(s, w, pc)
    PROVE  /\ w.target \in DOMAIN Callees /\ Known(s, CountReg)
           /\ h.pc = pc + 1
           /\ h.base \in Callees[w.target] /\ Known(s, h.base)
           /\ h.address = s[h.base].val /\ h.width = s[CountReg].val
<1> DEFINE claim(r) == [pc |-> pc + 1, base |-> r, address |-> s[r].val,
                        width |-> s[CountReg].val, callee |-> TRUE]
           args == {a \in Callees[w.target] :
                      /\ Known(s, a)
                      /\ s[a].trace # {}
                      /\ Cardinality(s[a].trace \cup s[CountReg].trace \cup {pc}) <= MaxTrace}
<1>1. w.target \in DOMAIN Callees /\ Known(s, CountReg)
  BY DEF MemoryCall
<1>2. h \in {claim(r) : r \in args}
  BY DEF MemoryCall
<1>3. PICK r \in args : h = claim(r)
  BY <1>2
<1> QED
  BY <1>1, <1>3

LEMMA MemoryCallMark ==
    ASSUME NEW s, NEW w, NEW pc, NEW h \in MemoryCall(s, w, pc)
    PROVE  h.callee = TRUE
<1>1. PICK r : h = [pc |-> pc + 1, base |-> r, address |-> s[r].val,
                    width |-> s[CountReg].val, callee |-> TRUE]
  <2> DEFINE claim(r) == [pc |-> pc + 1, base |-> r, address |-> s[r].val,
                          width |-> s[CountReg].val, callee |-> TRUE]
             args == {a \in Callees[w.target] :
                      /\ Known(s, a)
                      /\ s[a].trace # {}
                      /\ Cardinality(s[a].trace \cup s[CountReg].trace \cup {pc}) <= MaxTrace}
  <2>1. h \in {claim(r) : r \in args}
    BY DEF MemoryCall
  <2> QED
    BY <2>1
<1> QED
  BY <1>1

\* Claims about a memory function, against what it accesses.
LEMMA CalleeSound ==
    ASSUME NEW regs, RegsOK(regs), NEW s \in Good, Agrees(regs, s),
           NEW w, NEW pc, NEW n,
           NEW a \in CalleeAccess(regs, w, pc, n), NEW h \in MemoryCall(s, w, pc),
           a.base = h.base
    PROVE  a.address = h.address /\ a.width = h.width
<1>1. /\ w.target \in DOMAIN Callees /\ Known(s, CountReg) /\ CountReg \in Reg
      /\ h.base \in Callees[w.target] /\ Known(s, h.base)
      /\ h.address = s[h.base].val /\ h.width = s[CountReg].val
  BY MemoryCallFields, RegAssumption
<1>2. PICK q \in Callees[w.target] :
        a.base = q /\ a.address = regs[q] /\ a.width = regs[CountReg]
  BY DEF CalleeAccess
<1>3. h.base \in Reg
  BY <1>1, CalleesAssumption
<1> QED
  BY <1>1, <1>2, <1>3, Lookup

\* Which claims a word makes.
LEMMA HitsOf ==
    ASSUME prog \in Programs, Accepted(prog), NEW q \in Entry, NEW s,
           NEW h \in HitsAt(prog, q, s)
    PROVE  \/ /\ prog[q].kind \in Plain
              /\ h \in AccessHit(s, prog[q], q) /\ h.pc = q /\ h.callee = FALSE
           \/ /\ q + 1 \in Delays(prog)
              /\ h \in AccessHit(Prior(s, prog[q]), prog[q + 1], q + 1)
              /\ h.pc = q + 1 /\ h.callee = FALSE
           \/ /\ q + 1 \in Delays(prog) /\ prog[q].kind = "call"
              /\ h \in MemoryCall(After(q, s), prog[q], q)
              /\ h.pc = q + 1 /\ h.callee = TRUE
<1> DEFINE w == prog[q]
<1>1. CASE w.kind \in Plain
  <2>1. h \in AccessHit(s, w, q)
    BY <1>1 DEF HitsAt
  <2>2. h.pc = q /\ h.callee = FALSE
    BY <2>1 DEF AccessHit
  <2> QED
    BY <1>1, <2>1, <2>2
<1>2. CASE w.kind \notin Plain
  <2>1. q + 1 \in Delays(prog)
    BY <1>2, Kinds DEF Delays, Controls, Control, Entry
  <2>2. \/ h \in AccessHit(Prior(s, w), prog[q + 1], q + 1)
        \/ w.kind = "call" /\ h \in MemoryCall(After(q, s), w, q)
    BY <1>2 DEF HitsAt, After
  <2>3. CASE h \in AccessHit(Prior(s, w), prog[q + 1], q + 1)
    <3>1. h.pc = q + 1 /\ h.callee = FALSE
      BY <2>3 DEF AccessHit
    <3> QED
      BY <2>1, <2>3, <3>1
  <2>4. CASE w.kind = "call" /\ h \in MemoryCall(After(q, s), w, q)
    <3>1. h.pc = q + 1
      BY <2>4, MemoryCallFields
    <3>2. h.callee = TRUE
      BY <2>4, MemoryCallMark
    <3> QED
      BY <2>1, <2>4, <3>1, <3>2
  <2> QED
    BY <2>2, <2>3, <2>4
<1> QED
  BY <1>1, <1>2

\* Following an edge of a settled board.
LEMMA Follow ==
    ASSUME BoardOK(Board), Settled(Board, {}), NEW pc \in reached,
           NEW e \in Edges(pc, incoming[pc]), e.to \in Entry,
           NEW regs, Agrees(regs, e.state)
    PROVE  e.to \in reached /\ Agrees(regs, incoming[e.to])
<1>1. Board.reached = reached /\ Board.incoming = incoming
  BY DEF Board
<1>2. Arrived(Board, e)
  BY <1>1 DEF Settled, Closed
<1> QED
  BY <1>1, <1>2, BelowAgrees DEF Arrived

-----------------------------------------------------------------------------
(* The invariant is inductive                                              *)

LEMMA BoardFields ==
    ASSUME BoardOK(Board)
    PROVE  /\ reached \subseteq Entry /\ 0 \in reached
           /\ incoming \in [DOMAIN prog -> Good]
           /\ \A pc \in reached : incoming[pc] \in Good
           /\ Below(incoming[0], ZERO)
BY DEF BoardOK, BoardType, Board, Entry

LEMMA InitInv == Init => IInv
<1> SUFFICES ASSUME Init PROVE IInv
  OBVIOUS
<1>1. prog \in Programs /\ phase \in {"scan", "prefix"} /\ hits = {} /\ access = {}
  BY DEF Init
<1>2. ScanInv
  <2> SUFFICES ASSUME phase = "scan"
               PROVE  Accepted(prog) /\ BoardOK(Board) /\ Settled(Board, queued)
    BY <1>1 DEF ScanInv
  <2>1. DOMAIN prog # {} /\ Accepted(prog)
    BY DEF Init
  <2>2. 0 \in Entry
    BY <1>1, <2>1, ProgramFacts
  <2>3. reached = {0} /\ incoming = [pc \in DOMAIN prog |-> ZERO] /\ work = <<0>> /\ queued = {0}
    BY DEF Init
  <2>4. Board \in BoardType
    BY <2>2, <2>3, ZeroGood DEF Board, BoardType
  <2>5. 0 \in DOMAIN prog
    BY <2>2 DEF Entry
  <2>6. Below(incoming[0], ZERO)
    BY <2>3, <2>5, BelowRefl
  <2>7. BoardOK(Board)
    BY <2>3, <2>4, <2>6 DEF BoardOK, Board
  <2>8. Settled(Board, queued)
    BY <2>3 DEF Settled, Board
  <2> QED
    BY <2>1, <2>7, <2>8
<1>3. ClaimInv /\ RunAgrees /\ HitsSound
  BY <1>1 DEF ClaimInv, RunAgrees, HitsSound
<1> QED
  BY <1>1, <1>2, <1>3 DEF IInv, Phases

\* Steps that change neither the board nor the claims.
LEMMA BoardKept ==
    ASSUME UNCHANGED <<prog, scanVars>>
    PROVE  /\ BoardOK(Board)' <=> BoardOK(Board)
           /\ Settled(Board, {})' <=> Settled(Board, {})
           /\ Accepted(prog)' <=> Accepted(prog)
           /\ (\A h \in hits : \E pc \in reached : h \in HitsAt(prog, pc, incoming[pc]))'
                 <=> \A h \in hits : \E pc \in reached : h \in HitsAt(prog, pc, incoming[pc])
<1>1. /\ prog' = prog /\ reached' = reached /\ incoming' = incoming
      /\ work' = work /\ queued' = queued /\ hits' = hits
  BY DEF scanVars
<1> QED
  BY <1>1 DEF Board, BoardOK, BoardType, Entry, Settled, Closed, Edges, Arrived

LEMMA VisitInv == IInv /\ Visit => IInv'
<1> SUFFICES ASSUME IInv, Visit PROVE IInv'
  OBVIOUS
<1>1. /\ prog \in Programs /\ phase = "scan" /\ phase' = "scan" /\ prog' = prog
      /\ hits' = hits /\ access' = access /\ work # << >> /\ access = {}
  BY DEF IInv, Visit
<1>2. Accepted(prog) /\ hits = {} /\ BoardOK(Board) /\ Settled(Board, queued)
  BY <1>1 DEF IInv, ScanInv
<1> DEFINE pc == Head(work)
           popped == [reached |-> reached, incoming |-> incoming,
                      work |-> Tail(work), queued |-> queued \ {pc}]
           c == FlowAll(popped, Outgoing(prog, pc, incoming[pc]))
<1>3. /\ reached' = c.reached /\ incoming' = c.incoming
      /\ work' = c.work /\ queued' = c.queued
  BY DEF Visit
<1>4. /\ Board.reached = reached /\ Board.incoming = incoming
      /\ Board.work = work /\ Board.queued = queued
  BY DEF Board
<1>5. BoardOK(c) /\ Settled(c, c.queued)
  BY <1>1, <1>2, <1>4, VisitSound
<1> HIDE DEF c
<1>6. Board' = c
  BY <1>3, <1>5 DEF Board, BoardOK, BoardType
<1>7. BoardOK(Board)' /\ Settled(Board, queued)'
  BY <1>1, <1>3, <1>5, <1>6 DEF BoardOK, BoardType, Entry, Settled, Closed, Edges, Arrived
<1>8. ScanInv'
  BY <1>1, <1>2, <1>7 DEF ScanInv
<1> QED
  BY <1>1, <1>2, <1>8 DEF IInv, ClaimInv, RunAgrees, HitsSound, Phases

LEMMA EmitInv == IInv /\ Emit => IInv'
<1> SUFFICES ASSUME IInv, Emit PROVE IInv'
  OBVIOUS
<1>1. /\ prog \in Programs /\ phase = "scan" /\ phase' = "prefix" /\ prog' = prog
      /\ access' = access /\ work = << >> /\ access = {}
      /\ hits' = UNION {HitsAt(prog, pc, incoming[pc]) : pc \in reached}
      /\ reached' = reached /\ incoming' = incoming /\ work' = work /\ queued' = queued
  BY DEF IInv, Emit
<1>2. Accepted(prog) /\ BoardOK(Board) /\ Settled(Board, queued)
  BY <1>1 DEF IInv, ScanInv
<1>3. queued = {}
  BY <1>1, <1>2 DEF BoardOK, Board
<1>4. BoardOK(Board)' /\ Settled(Board, {})'
  BY <1>1, <1>2, <1>3 DEF Board, BoardOK, BoardType, Entry, Settled, Closed, Edges, Arrived
<1>5. ClaimInv'
  BY <1>1, <1>2, <1>4 DEF ClaimInv
<1> QED
  BY <1>1, <1>5 DEF IInv, ScanInv, RunAgrees, HitsSound, Phases

\* Giving up, the prefix and the start of a run leave board and claims alone.
LEMMA QuietInv == IInv /\ (GiveUp \/ Prefix \/ Start) => IInv'
<1> SUFFICES ASSUME IInv, GiveUp \/ Prefix \/ Start PROVE IInv'
  OBVIOUS
<1>1. UNCHANGED <<prog, scanVars>> /\ access' = access
  BY DEF GiveUp, Prefix, Start, scanVars
<1>2. hits' = hits /\ prog' = prog /\ reached' = reached /\ incoming' = incoming
  BY <1>1 DEF scanVars
<1>3. phase' \in Phases /\ phase' # "scan" /\ access = {}
  <2>1. CASE GiveUp
    BY <2>1 DEF GiveUp, IInv, Phases
  <2>2. CASE Prefix
    <3>1. phase = "prefix" /\ phase' \in {"prefix", "run"}
      BY <2>2 DEF Prefix, PrefixEnds, PrefixGoesOn, PrefixPlain, PrefixAnnuls, PrefixControl
    <3> QED
      BY <3>1 DEF IInv, Phases
  <2>3. CASE Start
    BY <2>3 DEF Start, IInv, Phases
  <2> QED
    BY <2>1, <2>2, <2>3
<1>4. phase = "scan" => hits = {}
  BY DEF IInv, ScanInv
<1>5. ClaimInv'
  <2> SUFFICES ASSUME hits # {}
               PROVE  /\ Accepted(prog)' /\ BoardOK(Board)' /\ Settled(Board, {})'
                      /\ (\A h \in hits : \E pc \in reached : h \in HitsAt(prog, pc, incoming[pc]))'
    BY <1>2 DEF ClaimInv
  <2> QED
    BY <1>1, <1>4, BoardKept DEF IInv, ClaimInv
<1>6. RunAgrees'
  <2> SUFFICES ASSUME phase' = "running" PROVE RunAgrees'
    BY DEF RunAgrees
  <2>1. Start
    BY DEF GiveUp, Prefix, PrefixEnds, PrefixGoesOn, PrefixPlain, PrefixAnnuls, PrefixControl
  <2>2. PICK regs \in AnyRegs : cpu' = [pc |-> 0, steps |-> 0, regs |-> regs]
    BY <2>1 DEF Start
  <2>3. cpu'.pc = 0 /\ cpu'.regs = regs /\ RegsOK(regs)
    BY <2>2, AnyRegsOK
  <2>4. phase = "run"
    BY <2>1 DEF Start
  <2>5. hits # {} => 0 \in reached /\ Agrees(regs, incoming[0])
    BY <2>4, BoardFields, AgreesZero, BelowAgrees DEF IInv, ClaimInv
  <2> QED
    BY <1>2, <2>3, <2>5 DEF RunAgrees
<1>7. HitsSound'
  BY <1>1, <1>3 DEF HitsSound
<1> QED
  BY <1>1, <1>2, <1>3, <1>5, <1>6, <1>7 DEF IInv, ScanInv

-----------------------------------------------------------------------------
(* The processor                                                           *)

\* What any step of the processor starts from.
LEMMA RunFacts ==
    ASSUME IInv, Running
    PROVE  /\ prog \in Programs /\ phase = "running" /\ cpu.pc \in DOMAIN prog
           /\ prog[cpu.pc] \in BodyWord /\ cpu.pc \in Nat
           /\ RegsOK(cpu.regs)
           /\ hits # {} =>
                 /\ Accepted(prog) /\ BoardOK(Board) /\ Settled(Board, {})
                 /\ cpu.pc \in reached /\ cpu.pc \in Entry
                 /\ incoming[cpu.pc] \in Good
                 /\ Agrees(cpu.regs, incoming[cpu.pc])
BY ProgramFacts, BoardFields DEF IInv, Running, RunAgrees, ClaimInv

\* ... and what has to be shown of it.
LEMMA RunStep ==
    ASSUME IInv, Running, prog' = prog, phase' = phase, UNCHANGED scanVars,
           RegsOK(cpu.regs)',
           hits # {} /\ cpu'.pc \in DOMAIN prog =>
               cpu'.pc \in reached /\ Agrees(cpu'.regs, incoming[cpu'.pc]),
           HitsSound'
    PROVE  IInv'
<1>1. /\ hits' = hits /\ reached' = reached /\ incoming' = incoming
      /\ phase = "running" /\ phase' = "running" /\ prog' = prog
  BY DEF scanVars, Running
<1>2. ClaimInv'
  <2> SUFFICES ASSUME hits # {}
               PROVE  /\ Accepted(prog)' /\ BoardOK(Board)' /\ Settled(Board, {})'
                      /\ (\A h \in hits : \E pc \in reached : h \in HitsAt(prog, pc, incoming[pc]))'
    BY <1>1 DEF ClaimInv
  <2> QED
    BY <1>1, BoardKept DEF IInv, ClaimInv
<1>3. RunAgrees'
  BY <1>1 DEF RunAgrees
<1> QED
  BY <1>1, <1>2, <1>3 DEF IInv, ScanInv, Phases

LEMMA ZeroSound ==
    ASSUME NEW regs, RegsOK(regs), NEW w \in BodyWord, NEW pc \in Nat
    PROVE  /\ \A linked \in Linked(regs, w) : RegsOK(linked)
           /\ w.kind \in Plain => \A next \in Execute(regs, w) : RegsOK(next)
BY ZeroGood, AgreesZero, PriorSound, TransferSound

LEMMA PlainInv == IInv /\ CpuPlain => IInv'
<1> SUFFICES ASSUME IInv, CpuPlain PROVE IInv'
  OBVIOUS
<1> DEFINE pc == cpu.pc
           w == prog[pc]
           n == cpu.steps + 1
<1>1. /\ Running /\ w.kind \in Plain /\ access' = Access(cpu.regs, w, pc, n)
      /\ prog' = prog /\ phase' = phase /\ UNCHANGED scanVars
  BY DEF CpuPlain
<1>2. PICK next \in Execute(cpu.regs, w) : cpu' = [pc |-> pc + 1, steps |-> n, regs |-> next]
  BY DEF CpuPlain
<1>3. cpu'.pc = pc + 1 /\ cpu'.regs = next
  BY <1>2
<1>4. /\ prog \in Programs /\ w \in BodyWord /\ pc \in Nat /\ RegsOK(cpu.regs)
      /\ pc \in DOMAIN prog
  BY <1>1, RunFacts
<1>5. RegsOK(cpu.regs)'
  BY <1>1, <1>2, <1>3, <1>4, ZeroSound
<1>6. ASSUME hits # {}
      PROVE  /\ cpu'.pc \in DOMAIN prog =>
                   cpu'.pc \in reached /\ Agrees(cpu'.regs, incoming[cpu'.pc])
             /\ HitsSound'
  <2> DEFINE s == incoming[pc]
             e == Edge(pc + 1, Transfer(s, w, pc))
  <2>1. /\ Accepted(prog) /\ BoardOK(Board) /\ Settled(Board, {})
        /\ pc \in reached /\ pc \in Entry /\ s \in Good /\ Agrees(cpu.regs, s)
    BY <1>1, <1>6, RunFacts
  <2>2. Agrees(next, Transfer(s, w, pc))
    BY <1>1, <1>2, <1>4, <2>1, TransferSound
  <2>3. e \in Edges(pc, s) /\ e.to = pc + 1 /\ e.state = Transfer(s, w, pc)
    BY <1>1, EdgesOf, EdgeFields
  <2>4. pc + 1 \in DOMAIN prog => pc + 1 \in Entry
    BY <1>1, <1>4, <2>1, Kinds DEF Entry
  <2>5. pc + 1 \in DOMAIN prog => pc + 1 \in reached /\ Agrees(next, incoming[pc + 1])
    BY <2>1, <2>2, <2>3, <2>4, Follow
  <2>6. ASSUME NEW a \in access', NEW h \in hits,
               a.pc = h.pc, a.base = h.base, a.callee = h.callee
        PROVE  a.address = h.address /\ a.width = h.width
    <3>1. a \in Access(cpu.regs, w, pc, n) /\ a.pc = pc
      BY <1>1, <2>6 DEF Access
    <3>2. PICK q \in reached : h \in HitsAt(prog, q, incoming[q])
      BY <1>1, <1>6 DEF IInv, ClaimInv, Running
    <3>3. q \in Entry
      BY <2>1, <3>2, BoardFields
    <3>4. pc \notin Delays(prog)
      BY <2>1 DEF Entry
    <3>5. h.pc = pc
      BY <2>6, <3>1
    <3>6. h \in AccessHit(s, w, pc)
      BY <1>4, <2>1, <3>2, <3>3, <3>4, <3>5, HitsOf
    <3> QED
      BY <1>4, <2>1, <3>1, <3>6, AccessSound
  <2>7. HitsSound'
    BY <1>1, <2>6 DEF HitsSound, scanVars
  <2> QED
    BY <1>3, <2>5, <2>7
<1>7. hits = {} => HitsSound'
  BY <1>1 DEF HitsSound, scanVars
<1> QED
  BY <1>1, <1>5, <1>6, <1>7, RunStep

LEMMA AnnulInv == IInv /\ CpuAnnul => IInv'
<1> SUFFICES ASSUME IInv, CpuAnnul PROVE IInv'
  OBVIOUS
<1> DEFINE pc == cpu.pc
           w == prog[pc]
<1>1. /\ Running /\ w.kind = "branch" /\ w.likely /\ access' = {}
      /\ prog' = prog /\ phase' = phase /\ UNCHANGED scanVars
  BY DEF CpuAnnul
<1>2. PICK linked \in Linked(cpu.regs, w) :
        cpu' = [pc |-> pc + 2, steps |-> cpu.steps + 1, regs |-> linked]
  BY DEF CpuAnnul
<1>3. cpu'.pc = pc + 2 /\ cpu'.regs = linked
  BY <1>2
<1>4. /\ prog \in Programs /\ w \in BodyWord /\ pc \in Nat /\ RegsOK(cpu.regs)
  BY <1>1, RunFacts
<1>5. RegsOK(cpu.regs)'
  BY <1>2, <1>3, <1>4, ZeroSound
<1>6. ASSUME hits # {}, pc + 2 \in DOMAIN prog
      PROVE  pc + 2 \in reached /\ Agrees(linked, incoming[pc + 2])
  <2> DEFINE s == incoming[pc]
             state == IF w.link = NoReg THEN Prior(s, w) ELSE ZERO
  <2>1. /\ Accepted(prog) /\ BoardOK(Board) /\ Settled(Board, {})
        /\ pc \in reached /\ pc \in Entry /\ s \in Good /\ Agrees(cpu.regs, s)
    BY <1>1, <1>6, RunFacts
  <2>2. Agrees(linked, state)
    BY <1>2, <1>4, <2>1, PriorSound, AgreesZero
  <2>3. Edge(pc + 2, state) \in Edges(pc, s)
    BY <1>1, EdgesOf
  <2>4. pc + 2 \in Entry
    BY <1>1, <1>4, <1>6, <2>1, Kinds DEF Entry
  <2> QED
    BY <2>1, <2>2, <2>3, <2>4, EdgeFields, Follow
<1>7. HitsSound'
  BY <1>1 DEF HitsSound
<1> QED
  BY <1>1, <1>3, <1>5, <1>6, <1>7, RunStep

\* Where a control word leads, and with which registers, is on its edges.
LEMMA NextFollows ==
    ASSUME prog \in Programs, Accepted(prog), BoardOK(Board), Settled(Board, {}),
           NEW pc \in reached, pc \in Entry, prog[pc].kind \in Control,
           NEW taken, ~(prog[pc].likely /\ ~taken),
           NEW after, Agrees(after, After(pc, incoming[pc])),
           NEW next \in NextPoints(prog[pc], pc, taken, after),
           next.pc \in DOMAIN prog
    PROVE  next.pc \in reached /\ Agrees(next.regs, incoming[next.pc])
<1> DEFINE w == prog[pc]
           s == incoming[pc]
<1>1. /\ w.kind \in {"branch", "jump", "call", "return"}
      /\ w \in BodyWord /\ pc \in Nat
      /\ pc + 2 \notin Delays(prog) /\ DOMAIN prog \subseteq Nat /\ pc \in DOMAIN prog
  BY Kinds, ProgramFacts DEF Control, Plain, Entry
<1>2. CASE w.kind = "jump" \/ (w.kind = "branch" /\ taken /\ w.link = NoReg)
  <2>1. next = At(w.target, after)
    BY <1>2 DEF NextPoints
  <2>2. next.pc = w.target /\ next.regs = after
    BY <2>1 DEF At
  <2>3. Edge(w.target, After(pc, s)) \in Edges(pc, s)
    BY <1>2, EdgesOf
  <2>4. w.target \in Entry
    BY <1>1, <1>2, <2>2 DEF Accepted, DelaysWellFormed, Direct, Entry
  <2> QED
    BY <2>2, <2>3, <2>4, EdgeFields, Follow
<1>3. CASE w.kind = "branch" /\ ~taken
  <2> DEFINE state == IF w.link = NoReg THEN After(pc, s) ELSE ZERO
  <2>1. next = At(pc + 2, after)
    BY <1>3 DEF NextPoints
  <2>2. next.pc = pc + 2 /\ next.regs = after
    BY <2>1 DEF At
  <2>3. Edge(pc + 2, state) \in Edges(pc, s)
    BY <1>3, EdgesOf
  <2>4. Agrees(after, state)
    BY AgreesZero
  <2>5. pc + 2 \in Entry
    BY <1>1, <2>2 DEF Entry
  <2> QED
    BY <2>2, <2>3, <2>4, <2>5, EdgeFields, Follow
<1>4. CASE w.kind = "call" \/ (w.kind = "branch" /\ taken /\ w.link # NoReg)
  <2>1. w.target \notin DOMAIN prog
    BY <1>1, <1>4 DEF Accepted
  <2>2. next \in {At(w.target, after)} \cup {At(pc + 2, r) : r \in AnyRegs}
    BY <1>4 DEF NextPoints
  <2>3. next.pc = pc + 2
    BY <2>1, <2>2 DEF At
  <2>4. Edge(pc + 2, ZERO) \in Edges(pc, s)
    BY <1>4, EdgesOf
  <2>5. pc + 2 \in Entry
    BY <1>1, <2>3 DEF Entry
  <2> QED
    BY <2>3, <2>4, <2>5, EdgeFields, AgreesZero, Follow
<1>5. CASE w.kind = "return"
  <2>1. next = At(Leave, after)
    BY <1>5 DEF NextPoints
  <2>2. next.pc = -1
    BY <2>1 DEF At, Leave
  <2> QED
    BY <1>1, <2>2
<1> QED
  BY <1>1, <1>2, <1>3, <1>4, <1>5

LEMMA ControlInv == IInv /\ CpuControl => IInv'
<1> SUFFICES ASSUME IInv, CpuControl PROVE IInv'
  OBVIOUS
<1> DEFINE pc == cpu.pc
           w == prog[pc]
           d == prog[pc + 1]
           n == cpu.steps + 2
<1>1. /\ Running /\ w.kind \in Control
      /\ pc + 1 \in DOMAIN prog /\ d.kind \in Plain
      /\ prog' = prog /\ phase' = phase /\ UNCHANGED scanVars
  BY DEF CpuControl
<1>2. PICK taken \in Condition(cpu.regs, w), linked \in Linked(cpu.regs, w) :
        /\ ~(w.likely /\ ~taken)
        /\ \E after \in Execute(linked, d) :
              /\ \E next \in NextPoints(w, pc, taken, after) :
                   cpu' = [pc |-> next.pc, steps |-> n, regs |-> next.regs]
              /\ access' = Access(linked, d, pc + 1, n)
                    \cup (IF w.kind = "call" THEN CalleeAccess(after, w, pc, n) ELSE {})
  BY DEF CpuControl
<1>3. PICK after \in Execute(linked, d) :
        /\ \E next \in NextPoints(w, pc, taken, after) :
             cpu' = [pc |-> next.pc, steps |-> n, regs |-> next.regs]
        /\ access' = Access(linked, d, pc + 1, n)
              \cup (IF w.kind = "call" THEN CalleeAccess(after, w, pc, n) ELSE {})
  BY <1>2
<1>4. PICK next \in NextPoints(w, pc, taken, after) :
        cpu' = [pc |-> next.pc, steps |-> n, regs |-> next.regs]
  BY <1>3
<1>5. cpu'.pc = next.pc /\ cpu'.regs = next.regs
  BY <1>4
<1>6. /\ prog \in Programs /\ w \in BodyWord /\ pc \in Nat /\ RegsOK(cpu.regs)
      /\ d \in BodyWord /\ pc + 1 \in Nat
  BY <1>1, RunFacts, ProgramFacts
<1>7. RegsOK(linked) /\ RegsOK(after)
  BY <1>1, <1>2, <1>3, <1>6, ZeroSound
<1>8. RegsOK(next.regs)
  <2>1. \/ \E to : next = At(to, after)
        \/ \E to : next \in {At(to, r) : r \in AnyRegs}
    BY <1>4 DEF NextPoints
  <2> QED
    BY <1>7, <2>1, AnyRegsOK DEF At
<1>9. ASSUME hits # {}
      PROVE  /\ next.pc \in DOMAIN prog =>
                   next.pc \in reached /\ Agrees(next.regs, incoming[next.pc])
             /\ HitsSound'
  <2> DEFINE s == incoming[pc]
             prior == Prior(s, w)
  <2>1. /\ Accepted(prog) /\ BoardOK(Board) /\ Settled(Board, {})
        /\ pc \in reached /\ pc \in Entry /\ s \in Good /\ Agrees(cpu.regs, s)
    BY <1>1, <1>9, RunFacts
  <2>2. prior \in Good /\ Agrees(linked, prior)
    BY <1>2, <1>6, <2>1, PriorGood, PriorSound
  <2>3. Agrees(after, After(pc, s)) /\ After(pc, s) \in Good
    BY <1>1, <1>3, <1>6, <1>7, <2>2, TransferSound, TransferGood DEF After
  <2>4. next.pc \in DOMAIN prog =>
          next.pc \in reached /\ Agrees(next.regs, incoming[next.pc])
    BY <1>1, <1>2, <1>4, <1>6, <2>1, <2>3, NextFollows
  <2>5. ASSUME NEW a \in access', NEW h \in hits,
               a.pc = h.pc, a.base = h.base, a.callee = h.callee
        PROVE  a.address = h.address /\ a.width = h.width
    <3>1. PICK q \in reached : h \in HitsAt(prog, q, incoming[q])
      BY <1>1, <1>9 DEF IInv, ClaimInv, Running
    <3>2. q \in Entry /\ q \in Nat
      BY <2>1, <3>1, BoardFields, <1>6, ProgramFacts DEF Entry
    <3>3. pc + 1 \in Delays(prog) /\ q \notin Delays(prog)
      BY <1>1, <3>2, RunFacts DEF Delays, Controls, Entry
    <3>4. CASE a \in Access(linked, d, pc + 1, n)
      <4>1. a.pc = pc + 1 /\ a.callee = FALSE
        BY <3>4 DEF Access
      <4>2. h.pc = pc + 1 /\ h.callee # TRUE
        BY <2>5, <4>1
      <4>3. h \in AccessHit(Prior(incoming[q], prog[q]), prog[q + 1], q + 1) /\ h.pc = q + 1
        BY <1>6, <2>1, <3>1, <3>2, <3>3, <4>2, HitsOf, Zenon
      <4>4. q = pc
        BY <1>6, <3>2, <4>2, <4>3
      <4>5. h \in AccessHit(prior, d, pc + 1)
        BY <4>3, <4>4
      <4> QED
        BY <1>6, <1>7, <2>2, <3>4, <4>5, AccessSound
    <3>5. CASE w.kind = "call" /\ a \in CalleeAccess(after, w, pc, n)
      <4>1. a.pc = pc + 1 /\ a.callee = TRUE
        BY <3>5 DEF CalleeAccess
      <4>2. h.pc = pc + 1 /\ h.callee # FALSE
        BY <2>5, <4>1
      <4>3. h \in MemoryCall(After(q, incoming[q]), prog[q], q) /\ h.pc = q + 1
        BY <1>6, <2>1, <3>1, <3>2, <3>3, <4>2, HitsOf, Zenon
      <4>4. q = pc
        BY <1>6, <3>2, <4>2, <4>3
      <4>5. h \in MemoryCall(After(pc, s), w, pc)
        BY <4>3, <4>4
      <4> QED
        BY <1>7, <2>3, <2>5, <3>5, <4>5, CalleeSound
    <3> QED
      BY <1>3, <2>5, <3>4, <3>5
  <2>6. HitsSound'
    BY <1>1, <2>5 DEF HitsSound, scanVars
  <2> QED
    BY <2>4, <2>6
<1>10. hits = {} => HitsSound'
  BY <1>1 DEF HitsSound, scanVars
<1> QED
  BY <1>1, <1>5, <1>8, <1>9, <1>10, RunStep

-----------------------------------------------------------------------------
\* The invariant holds in every behaviour.
THEOREM Invariant == Spec => []IInv
<1>1. IInv /\ [Next]_vars => IInv'
  <2> SUFFICES ASSUME IInv, [Next]_vars PROVE IInv'
    OBVIOUS
  <2>1. CASE Visit
    BY <2>1, VisitInv
  <2>2. CASE Emit
    BY <2>2, EmitInv
  <2>3. CASE GiveUp \/ Prefix \/ Start
    BY <2>3, QuietInv
  <2>4. CASE CpuPlain
    BY <2>4, PlainInv
  <2>5. CASE CpuAnnul
    BY <2>5, AnnulInv
  <2>6. CASE CpuControl
    BY <2>6, ControlInv
  <2>7. CASE UNCHANGED vars
    <3>1. UNCHANGED <<prog, scanVars>> /\ phase' = phase /\ access' = access /\ cpu' = cpu
      BY <2>7 DEF vars
    <3> QED
      BY <3>1 DEF IInv, ScanInv, ClaimInv, RunAgrees, HitsSound, scanVars, Board, BoardOK,
                  BoardType, Entry, Settled, Closed, Edges, Arrived
  <2> QED
    BY <2>1, <2>2, <2>3, <2>4, <2>5, <2>6, <2>7 DEF Next
<1> QED
  BY <1>1, InitInv, PTL DEF Spec

\* A claim of scan_body (ee_dataflow.py:308) about the address or the extent
\* of an access holds in every run of the function, however it gets there.
THEOREM HitsAreSound == Spec => []HitsSound
<1>1. IInv => HitsSound
  BY DEF IInv
<1> QED
  BY <1>1, Invariant, PTL

-----------------------------------------------------------------------------
(* The facts are exactly what the ways into a word agree on                *)

\* Facts that the scan can have: their words are words of the body.
FactOK(f) ==
    f = Absent \/ (f \in Fact /\ f.trace \subseteq DOMAIN prog /\ Cardinality(f.trace) <= MaxTrace)
Traced == {s \in Good : \A r \in Reg : FactOK(s[r])}
Full == {s \in Traced : s[0] = ZeroFact}

\* NoMore, of one fact.
Less(f, g) == f # Absent => g # Absent /\ g.val = f.val /\ g.trace \subseteq f.trace

LEMMA NoMoreLess ==
    ASSUME NEW s, NEW u
    PROVE  NoMore(s, u) <=> \A r \in Reg : Less(s[r], u[r])
BY DEF NoMore, Less, Known

LEMMA NoMoreRefl == ASSUME NEW s PROVE NoMore(s, s)
BY DEF NoMore

LEMMA NoMoreTrans ==
    ASSUME NEW s, NEW u, NEW v, NoMore(s, u), NoMore(u, v)
    PROVE  NoMore(s, v)
<1> SUFFICES ASSUME NEW r \in Reg, Known(s, r)
             PROVE  Known(v, r) /\ v[r].val = s[r].val /\ v[r].trace \subseteq s[r].trace
  BY DEF NoMore
<1>1. Known(u, r) /\ u[r].val = s[r].val /\ u[r].trace \subseteq s[r].trace
  BY DEF NoMore
<1>2. Known(v, r) /\ v[r].val = u[r].val /\ v[r].trace \subseteq u[r].trace
  BY <1>1 DEF NoMore
<1> QED
  BY <1>1, <1>2

\* Traces are finite.
LEMMA TraceSize ==
    ASSUME prog \in Programs, NEW A \in SUBSET DOMAIN prog, NEW B \in SUBSET A
    PROVE  /\ Cardinality(A) \in Nat /\ Cardinality(B) \in Nat
           /\ Cardinality(B) <= Cardinality(A)
           /\ A \in SUBSET Nat
<1>1. IsFiniteSet(DOMAIN prog)
  BY ProgramsAssumption
<1>2. IsFiniteSet(A)
  BY <1>1, FS_Subset
<1>3. IsFiniteSet(B) /\ Cardinality(B) <= Cardinality(A)
  BY <1>2, FS_Subset
<1> QED
  BY <1>2, <1>3, FS_CardinalityType, ProgramFacts

LEMMA NewFactOK ==
    ASSUME prog \in Programs, NEW v \in Int, NEW A \in SUBSET DOMAIN prog
    PROVE  /\ FactOK(NewFact(v, A))
           /\ NewFact(v, A) # Absent => NewFact(v, A) = [val |-> v, trace |-> A]
           /\ v \in Addr /\ Cardinality(A) <= MaxTrace => NewFact(v, A) # Absent
<1>1. A \in SUBSET Nat
  BY TraceSize
<1> QED
  BY <1>1, LimitAssumption DEF NewFact, FactOK, Fact, Absent, Addr

LEMMA NewFactLess ==
    ASSUME prog \in Programs, NEW v \in Int, NEW A \in SUBSET DOMAIN prog, NEW B \in SUBSET A
    PROVE  Less(NewFact(v, A), NewFact(v, B))
<1> SUFFICES ASSUME NewFact(v, A) # Absent PROVE Less(NewFact(v, A), NewFact(v, B))
  BY DEF Less
<1>1. v \in Addr /\ Cardinality(A) <= MaxTrace
  BY DEF NewFact
<1>2. Cardinality(B) <= MaxTrace
  BY <1>1, TraceSize, BudgetAssumption
<1>3. NewFact(v, A) = [val |-> v, trace |-> A] /\ NewFact(v, B) = [val |-> v, trace |-> B]
  BY <1>1, <1>2 DEF NewFact
<1>4. NewFact(v, B) # Absent
  BY <1>1, <1>2, NewFactOK
<1> QED
  BY <1>3, <1>4 DEF Less

LEMMA TracedFields ==
    ASSUME NEW s \in Traced, NEW r \in Reg
    PROVE  /\ s \in Good /\ FactOK(s[r])
           /\ Known(s, r) => s[r].val \in Addr /\ s[r].val \in Int /\ s[r].trace \in SUBSET DOMAIN prog
<1>1. s \in Good /\ FactOK(s[r])
  BY DEF Traced
<1> QED
  BY <1>1, LimitAssumption DEF FactOK, Fact, Known, Addr

LEMMA ZeroFull ==
    ASSUME prog \in Programs
    PROVE  FactOK(Absent) /\ FactOK(ZeroFact) /\ ZERO \in Full
<1>1. ZeroFact.trace = {}
  BY DEF ZeroFact
<1>2. FactOK(ZeroFact)
  BY <1>1, ZeroGood, FS_EmptySet, BudgetAssumption DEF FactOK
<1>3. FactOK(Absent)
  BY DEF FactOK
<1>4. \A r \in Reg : FactOK(ZERO[r])
  BY <1>2, <1>3 DEF ZERO
<1>5. ZERO[0] = ZeroFact
  BY RegAssumption DEF ZERO
<1> QED
  BY <1>2, <1>3, <1>4, <1>5, ZeroGood DEF Traced, Full

\* What a word derives, and that it derives no more from less.
LEMMA DerivedOK ==
    ASSUME prog \in Programs, NEW s \in Traced, NEW w \in BodyWord, NEW pc \in DOMAIN prog
    PROVE  FactOK(Derived(s, w, pc))
<1> DEFINE D == Derived(s, w, pc)
<1>1. w.rd \in Reg /\ w.rs \in Reg /\ w.rt \in Reg /\ w.imm \in Int
  BY LimitAssumption DEF BodyWord, Word
<1>2. CASE w.kind = "alui" /\ Known(s, w.rs)
  <2> DEFINE v == Alu(w.fn, s[w.rs].val, w.imm)
             A == s[w.rs].trace \cup {pc}
  <2>1. D = NewFact(v, A)
    BY <1>2 DEF Derived
  <2>2. v \in Int /\ A \in SUBSET DOMAIN prog
    BY <1>1, <1>2, TracedFields, AluInt
  <2> HIDE DEF v, A, D
  <2> QED
    BY <2>1, <2>2, NewFactOK DEF D
<1>3. CASE w.kind = "alu" /\ Known(s, w.rs) /\ Known(s, w.rt)
  <2> DEFINE v == Alu(w.fn, s[w.rs].val, s[w.rt].val)
             A == s[w.rs].trace \cup s[w.rt].trace \cup {pc}
  <2>1. D = NewFact(v, A)
    BY <1>3 DEF Derived
  <2>2. v \in Int /\ A \in SUBSET DOMAIN prog
    BY <1>1, <1>3, TracedFields, AluInt
  <2> HIDE DEF v, A, D
  <2> QED
    BY <2>1, <2>2, NewFactOK DEF D
<1>4. CASE w.kind = "mov" /\ Known(s, w.rt)
  <2> DEFINE q == IF (s[w.rt].val = 0) = (w.fn = "movz") THEN w.rs ELSE w.rd
             A == s[q].trace \cup s[w.rt].trace \cup {pc}
  <2>1. D = IF Known(s, q) THEN NewFact(s[q].val, A) ELSE Absent
    BY <1>4 DEF Derived
  <2>2. q \in Reg
    BY <1>1
  <2> HIDE DEF q, D
  <2>3. Known(s, q) => s[q].val \in Int /\ A \in SUBSET DOMAIN prog
    BY <1>1, <1>4, <2>2, TracedFields
  <2> HIDE DEF A
  <2> QED
    BY <2>1, <2>3, NewFactOK, ZeroFull DEF D
<1>5. CASE w.kind = "mov" /\ ~Known(s, w.rt) /\ Known(s, w.rs) /\ Known(s, w.rd)
           /\ s[w.rs].val = s[w.rd].val
  <2> DEFINE A == s[w.rs].trace \cup s[w.rd].trace \cup {pc}
  <2>1. D = NewFact(s[w.rd].val, A)
    BY <1>5 DEF Derived
  <2>2. s[w.rd].val \in Int /\ A \in SUBSET DOMAIN prog
    BY <1>1, <1>5, TracedFields
  <2> HIDE DEF A, D
  <2> QED
    BY <2>1, <2>2, NewFactOK DEF D
<1>6. CASE ~(w.kind = "alui" /\ Known(s, w.rs)) /\ ~(w.kind = "alu" /\ Known(s, w.rs) /\ Known(s, w.rt))
           /\ ~(w.kind = "mov" /\ Known(s, w.rt))
           /\ ~(w.kind = "mov" /\ ~Known(s, w.rt) /\ Known(s, w.rs) /\ Known(s, w.rd)
                  /\ s[w.rs].val = s[w.rd].val)
  <2>1. D = Absent
    BY <1>6 DEF Derived
  <2> QED
    BY <2>1, ZeroFull
<1> QED
  BY <1>2, <1>3, <1>4, <1>5, <1>6

LEMMA DerivedLess ==
    ASSUME prog \in Programs, NEW s \in Traced, NEW u \in Traced, NoMore(s, u),
           NEW w \in BodyWord, NEW pc \in DOMAIN prog, w.kind # "mov"
    PROVE  Less(Derived(s, w, pc), Derived(u, w, pc))
<1>1. w.rd \in Reg /\ w.rs \in Reg /\ w.rt \in Reg /\ w.imm \in Int
  BY LimitAssumption DEF BodyWord, Word
<1>2. \A r \in Reg : Known(s, r) =>
         /\ Known(u, r) /\ u[r].val = s[r].val /\ u[r].trace \subseteq s[r].trace
         /\ s[r].val \in Int /\ s[r].trace \in SUBSET DOMAIN prog
  BY TracedFields DEF NoMore
<1>3. CASE w.kind = "alui" /\ Known(s, w.rs)
  <2> DEFINE v == Alu(w.fn, s[w.rs].val, w.imm)
             A == s[w.rs].trace \cup {pc}
             B == u[w.rs].trace \cup {pc}
  <2>1. Derived(s, w, pc) = NewFact(v, A)
    BY <1>3 DEF Derived
  <2>2. Derived(u, w, pc) = NewFact(v, B)
    BY <1>1, <1>2, <1>3 DEF Derived
  <2>3. v \in Int /\ A \in SUBSET DOMAIN prog /\ B \in SUBSET A
    BY <1>1, <1>2, <1>3, AluInt
  <2> HIDE DEF v, A, B
  <2> QED
    BY <2>1, <2>2, <2>3, NewFactLess
<1>4. CASE w.kind = "alu" /\ Known(s, w.rs) /\ Known(s, w.rt)
  <2> DEFINE v == Alu(w.fn, s[w.rs].val, s[w.rt].val)
             A == s[w.rs].trace \cup s[w.rt].trace \cup {pc}
             B == u[w.rs].trace \cup u[w.rt].trace \cup {pc}
  <2>1. Derived(s, w, pc) = NewFact(v, A)
    BY <1>4 DEF Derived
  <2>2. Derived(u, w, pc) = NewFact(v, B)
    BY <1>1, <1>2, <1>4 DEF Derived
  <2>3. v \in Int /\ A \in SUBSET DOMAIN prog /\ B \in SUBSET A
    BY <1>1, <1>2, <1>4, AluInt
  <2> HIDE DEF v, A, B
  <2> QED
    BY <2>1, <2>2, <2>3, NewFactLess
<1>5. CASE ~(w.kind = "alui" /\ Known(s, w.rs)) /\ ~(w.kind = "alu" /\ Known(s, w.rs) /\ Known(s, w.rt))
  <2>1. Derived(s, w, pc) = Absent
    BY <1>5 DEF Derived
  <2> QED
    BY <2>1 DEF Less
<1> QED
  BY <1>3, <1>4, <1>5

LEMMA AssignOK ==
    ASSUME prog \in Programs, NEW s \in Traced, NEW r \in Reg, NEW f, FactOK(f)
    PROVE  Assign(s, r, f) \in Full
<1>1. f \in Fact \cup {Absent}
  BY DEF FactOK
<1>2. Assign(s, r, f) \in Good /\ Assign(s, r, f)[0] = ZeroFact
  BY <1>1, TracedFields, RegAssumption, AssignGood
<1>3. ASSUME NEW q \in Reg PROVE FactOK(Assign(s, r, f)[q])
  <2>1. FactOK(s[q]) /\ FactOK(ZeroFact)
    BY TracedFields, ZeroFull
  <2> QED
    BY <2>1 DEF Assign
<1> QED
  BY <1>2, <1>3 DEF Traced, Full

LEMMA AssignLess ==
    ASSUME NEW s, NEW u, NoMore(s, u), NEW r \in Reg, NEW f, NEW g, Less(f, g)
    PROVE  NoMore(Assign(s, r, f), Assign(u, r, g))
<1>1. ASSUME NEW q \in Reg PROVE Less(Assign(s, r, f)[q], Assign(u, r, g)[q])
  <2>1. Less(s[q], u[q])
    BY NoMoreLess
  <2>2. Less(ZeroFact, ZeroFact)
    BY DEF Less
  <2> QED
    BY <2>1, <2>2 DEF Assign
<1> QED
  BY <1>1, NoMoreLess

LEMMA TransferOK ==
    ASSUME prog \in Programs, NEW s \in Traced, NEW w \in BodyWord, w.kind \in Plain,
           NEW pc \in DOMAIN prog
    PROVE  Transfer(s, w, pc) \in Full
<1>1. CASE w.kind = "barrier"
  BY <1>1, ZeroFull DEF Transfer
<1>2. CASE w.kind \in {"store", "none"}
  BY <1>2, AssignOK, ZeroFull, RegAssumption DEF Transfer
<1>3. CASE w.kind \notin {"barrier", "store", "none"}
  <2>1. Transfer(s, w, pc) = Assign(s, w.rd, Derived(s, w, pc)) /\ w.rd \in Reg
    BY <1>3 DEF Transfer, BodyWord, Word
  <2> QED
    BY <2>1, DerivedOK, AssignOK
<1> QED
  BY <1>1, <1>2, <1>3

\* From less a word computes no more.
LEMMA TransferLess ==
    ASSUME prog \in Programs, NEW s \in Traced, NEW u \in Traced, NoMore(s, u),
           NEW w \in BodyWord, NEW pc \in DOMAIN prog, w.kind # "mov"
    PROVE  NoMore(Transfer(s, w, pc), Transfer(u, w, pc))
<1>1. CASE w.kind = "barrier"
  BY <1>1, NoMoreRefl DEF Transfer
<1>2. CASE w.kind \in {"store", "none"}
  <2>1. Less(ZeroFact, ZeroFact)
    BY DEF Less
  <2> QED
    BY <1>2, <2>1, AssignLess, RegAssumption DEF Transfer
<1>3. CASE w.kind \notin {"barrier", "store", "none"}
  <2>1. /\ Transfer(s, w, pc) = Assign(s, w.rd, Derived(s, w, pc))
        /\ Transfer(u, w, pc) = Assign(u, w.rd, Derived(u, w, pc))
        /\ w.rd \in Reg
    BY <1>3 DEF Transfer, BodyWord, Word
  <2> QED
    BY <2>1, DerivedLess, AssignLess
<1> QED
  BY <1>1, <1>2, <1>3

LEMMA PriorOK ==
    ASSUME prog \in Programs, NEW s \in Traced, NEW w \in BodyWord
    PROVE  Prior(s, w) \in Traced
<1>1. Prior(s, w) \in Good
  BY TracedFields, RegAssumption, PriorGood
<1>2. ASSUME NEW r \in Reg PROVE FactOK(Prior(s, w)[r])
  <2>1. s \in [Reg -> Fact \cup {Absent}] /\ FactOK(s[r]) /\ FactOK(Absent)
    BY ZeroFull DEF Traced, Good, State
  <2> QED
    BY <2>1 DEF Prior
<1> QED
  BY <1>1, <1>2 DEF Traced

LEMMA PriorLess ==
    ASSUME NEW s \in Traced, NEW u \in Traced, NoMore(s, u), NEW w
    PROVE  NoMore(Prior(s, w), Prior(u, w))
<1>1. ASSUME NEW r \in Reg PROVE Less(Prior(s, w)[r], Prior(u, w)[r])
  <2>1. s \in [Reg -> Fact \cup {Absent}] /\ u \in [Reg -> Fact \cup {Absent}]
    BY DEF Traced, Good, State
  <2>2. Less(s[r], u[r])
    BY NoMoreLess
  <2> QED
    BY <2>1, <2>2 DEF Prior, Less
<1> QED
  BY <1>1, NoMoreLess

LEMMA AfterOK ==
    ASSUME prog \in Programs, NEW s \in Traced, NEW pc \in DOMAIN prog,
           pc + 1 \in DOMAIN prog, prog[pc + 1].kind \in Plain
    PROVE  After(pc, s) \in Full
<1>1. prog[pc] \in BodyWord /\ prog[pc + 1] \in BodyWord
  BY ProgramFacts
<1> QED
  BY <1>1, PriorOK, TransferOK DEF After

LEMMA AfterLess ==
    ASSUME prog \in Programs, Monotone(prog), NEW s \in Traced, NEW u \in Traced, NoMore(s, u),
           NEW pc \in DOMAIN prog, pc + 1 \in DOMAIN prog
    PROVE  NoMore(After(pc, s), After(pc, u))
<1>1. prog[pc] \in BodyWord /\ prog[pc + 1] \in BodyWord /\ prog[pc + 1].kind # "mov"
  BY ProgramFacts DEF Monotone
<1>2. Prior(s, prog[pc]) \in Traced /\ Prior(u, prog[pc]) \in Traced
  BY <1>1, PriorOK
<1>3. NoMore(Prior(s, prog[pc]), Prior(u, prog[pc]))
  BY PriorLess
<1> QED
  BY <1>1, <1>2, <1>3, TransferLess DEF After

\* The facts on the edges of a word.
LEMMA EdgesFull ==
    ASSUME prog \in Programs, Accepted(prog), NEW pc \in Entry, NEW s \in Full,
           NEW e \in Edges(pc, s)
    PROVE  e.state \in Full
<1> DEFINE w == prog[pc]
<1>1. /\ w \in BodyWord /\ pc \in DOMAIN prog /\ s \in Traced
      /\ w.kind \in Plain \cup {"branch", "jump", "call", "return"}
  BY Kinds DEF Entry, Full
<1>2. CASE w.kind \in Plain
  <2>1. Transfer(s, w, pc) \in Full
    BY <1>1, <1>2, TransferOK
  <2> QED
    BY <1>2, <2>1, EdgesOf, EdgeFields
<1>3. CASE w.kind = "call" \/ (w.kind = "branch" /\ w.link # NoReg)
  BY <1>3, EdgesOf, EdgeFields, ZeroFull
<1>4. CASE w.kind = "jump" \/ (w.kind = "branch" /\ w.link = NoReg)
  <2>1. pc + 1 \in DOMAIN prog /\ prog[pc + 1].kind \in Plain
    BY <1>4, Kinds
  <2>2. After(pc, s) \in Full
    BY <1>1, <2>1, AfterOK
  <2>3. w.link = NoReg => Prior(s, w) = s
    BY DEF Prior
  <2> QED
    BY <1>4, <2>2, <2>3, EdgesOf, EdgeFields
<1>5. CASE w.kind = "return"
  BY <1>5, EdgesOf
<1> QED
  BY <1>1, <1>2, <1>3, <1>4, <1>5

\* Where the edges lead does not depend on the facts.
LEMMA EdgesTo ==
    ASSUME prog \in Programs, Accepted(prog), NEW pc \in Entry, NEW s, NEW u,
           NEW e \in Edges(pc, u)
    PROVE  \E d \in Edges(pc, s) : d.to = e.to
<1> DEFINE w == prog[pc]
<1>1. w.kind \in Plain \cup {"branch", "jump", "call", "return"}
  BY Kinds
<1>2. CASE w.kind \in Plain
  BY <1>2, EdgesOf, EdgeFields
<1>3. CASE w.kind = "call" \/ (w.kind = "branch" /\ w.link # NoReg)
  BY <1>3, EdgesOf, EdgeFields
<1>4. CASE w.kind = "jump"
  BY <1>4, EdgesOf, EdgeFields
<1>5. CASE w.kind = "branch" /\ w.link = NoReg
  <2> DEFINE S(x) == IF w.likely THEN Prior(x, w) ELSE After(pc, x)
  <2>1. Edges(pc, u) = {Edge(w.target, After(pc, u)), Edge(pc + 2, S(u))}
    BY <1>5, EdgesOf
  <2>2. Edges(pc, s) = {Edge(w.target, After(pc, s)), Edge(pc + 2, S(s))}
    BY <1>5, EdgesOf
  <2> HIDE DEF S, w
  <2> QED
    BY <2>1, <2>2, EdgeFields
<1>6. CASE w.kind = "return"
  BY <1>6, EdgesOf
<1> QED
  BY <1>1, <1>2, <1>3, <1>4, <1>5, <1>6

\* With less before a word, no more is on its edges.
LEMMA EdgesLess ==
    ASSUME prog \in Programs, Accepted(prog), Monotone(prog), NEW pc \in Entry,
           NEW s \in Full, NEW u \in Full, NoMore(s, u), NEW e \in Edges(pc, u)
    PROVE  \E d \in Edges(pc, s) : d.to = e.to /\ NoMore(d.state, e.state)
<1> DEFINE w == prog[pc]
<1>1. /\ w \in BodyWord /\ pc \in DOMAIN prog /\ s \in Traced /\ u \in Traced
      /\ w.kind \in Plain \cup {"branch", "jump", "call", "return"}
      /\ w.kind # "mov"
  BY Kinds DEF Entry, Full, Monotone
<1>2. CASE w.kind \in Plain
  <2>1. NoMore(Transfer(s, w, pc), Transfer(u, w, pc))
    BY <1>1, TransferLess
  <2> QED
    BY <1>2, <2>1, EdgesOf, EdgeFields
<1>3. CASE w.kind = "call" \/ (w.kind = "branch" /\ w.link # NoReg)
  BY <1>3, EdgesOf, EdgeFields, NoMoreRefl
<1>4. CASE w.kind = "jump"
  <2>1. NoMore(After(pc, s), After(pc, u))
    BY <1>1, <1>4, Kinds, AfterLess
  <2> QED
    BY <1>4, <2>1, EdgesOf, EdgeFields
<1>5. CASE w.kind = "branch" /\ w.link = NoReg
  <2> DEFINE S(x) == IF w.likely THEN Prior(x, w) ELSE After(pc, x)
  <2>1. Edges(pc, u) = {Edge(w.target, After(pc, u)), Edge(pc + 2, S(u))}
    BY <1>5, EdgesOf
  <2>2. Edges(pc, s) = {Edge(w.target, After(pc, s)), Edge(pc + 2, S(s))}
    BY <1>5, EdgesOf
  <2>3. NoMore(After(pc, s), After(pc, u))
    BY <1>1, <1>5, Kinds, AfterLess
  <2>4. NoMore(S(s), S(u))
    BY <1>1, <2>3, PriorLess
  <2> HIDE DEF S, w
  <2> QED
    BY <2>1, <2>2, <2>3, <2>4, EdgeFields
<1>6. CASE w.kind = "return"
  BY <1>6, EdgesOf
<1> QED
  BY <1>1, <1>2, <1>3, <1>4, <1>5, <1>6

\* A join is the most that is no more than either side.
LEMMA MeetFull ==
    ASSUME prog \in Programs, NEW l \in Full, NEW u \in Full
    PROVE  /\ Meet(l, u) \in Full
           /\ NoMore(Meet(l, u), l) /\ NoMore(Meet(l, u), u)
           /\ \A m \in Full : NoMore(m, l) /\ NoMore(m, u) => NoMore(m, Meet(l, u))
<1>1. l \in Traced /\ u \in Traced /\ l \in Good /\ u \in Good /\ l[0] = ZeroFact /\ u[0] = ZeroFact
  BY DEF Full, Traced
<1>2. Meet(l, u)[0] = ZeroFact /\ Meet(l, u) \in Good
  BY <1>1, MeetGood, RegAssumption DEF Meet
<1>3. ASSUME NEW r \in Reg, l[r] # Absent, u[r] # Absent, l[r].val = u[r].val
      PROVE  /\ l[r].val \in Int /\ l[r].val \in Addr
             /\ l[r].trace \cup u[r].trace \in SUBSET DOMAIN prog
             /\ MeetFact(l[r], u[r]) = NewFact(l[r].val, l[r].trace \cup u[r].trace)
  BY <1>1, <1>3, TracedFields DEF Known, MeetFact
<1>4. ASSUME NEW r \in Reg
      PROVE  /\ FactOK(Meet(l, u)[r])
             /\ Less(Meet(l, u)[r], l[r]) /\ Less(Meet(l, u)[r], u[r])
  <2>1. CASE r = 0
    BY <1>1, <1>2, <2>1, ZeroFull DEF Less
  <2>2. CASE r # 0 /\ l[r] # Absent /\ u[r] # Absent /\ l[r].val = u[r].val
    <3> DEFINE v == l[r].val
               A == l[r].trace \cup u[r].trace
    <3>1. Meet(l, u)[r] = NewFact(v, A)
      BY <1>3, <2>2 DEF Meet
    <3>2. v \in Int /\ A \in SUBSET DOMAIN prog
      BY <1>3, <2>2
    <3>3. NewFact(v, A) # Absent => NewFact(v, A) = [val |-> v, trace |-> A]
      BY <3>2, NewFactOK
    <3>4. FactOK(NewFact(v, A))
      BY <3>2, NewFactOK
    <3>5. NewFact(v, A) # Absent => NewFact(v, A).val = v /\ NewFact(v, A).trace = A
      BY <3>3
    <3> QED
      BY <2>2, <3>1, <3>4, <3>5 DEF Less
  <2>3. CASE r # 0 /\ ~(l[r] # Absent /\ u[r] # Absent /\ l[r].val = u[r].val)
    <3>1. Meet(l, u)[r] = Absent
      BY <2>3 DEF Meet, MeetFact
    <3> QED
      BY <3>1, ZeroFull DEF Less
  <2> QED
    BY <2>1, <2>2, <2>3
<1>5. ASSUME NEW m \in Full, NoMore(m, l), NoMore(m, u), NEW r \in Reg
      PROVE  Less(m[r], Meet(l, u)[r])
  <2>1. Less(m[r], l[r]) /\ Less(m[r], u[r])
    BY <1>5, NoMoreLess
  <2>2. FactOK(m[r]) /\ m[0] = ZeroFact
    BY DEF Full, Traced
  <2>3. CASE r = 0
    BY <1>2, <2>2, <2>3 DEF Less
  <2>4. CASE r # 0 /\ m[r] # Absent
    <3> DEFINE v == l[r].val
               A == l[r].trace \cup u[r].trace
               M == m[r].trace
    <3>1. l[r] # Absent /\ u[r] # Absent /\ l[r].val = m[r].val /\ u[r].val = m[r].val
          /\ l[r].trace \subseteq M /\ u[r].trace \subseteq M
      BY <2>1, <2>4 DEF Less
    <3>2. Meet(l, u)[r] = NewFact(v, A) /\ v \in Int /\ v \in Addr
      BY <1>3, <2>4, <3>1 DEF Meet
    <3>3. A \in SUBSET M /\ M \in SUBSET DOMAIN prog /\ Cardinality(M) <= MaxTrace
      BY <2>2, <2>4, <3>1 DEF FactOK
    <3>4. Cardinality(A) <= MaxTrace
      BY <3>3, TraceSize, BudgetAssumption
    <3>5. NewFact(v, A) # Absent /\ NewFact(v, A) = [val |-> v, trace |-> A]
      BY <3>2, <3>3, <3>4, NewFactOK
    <3>6. NewFact(v, A).val = v /\ NewFact(v, A).trace = A
      BY <3>5
    <3> QED
      BY <3>1, <3>2, <3>3, <3>5, <3>6 DEF Less
  <2>5. CASE m[r] = Absent
    BY <2>5 DEF Less
  <2> QED
    BY <2>3, <2>4, <2>5
<1>6. \A m \in Full : NoMore(m, l) /\ NoMore(m, u) => NoMore(m, Meet(l, u))
  BY <1>5, NoMoreLess
<1> QED
  BY <1>2, <1>4, <1>6, NoMoreLess DEF Full, Traced

-----------------------------------------------------------------------------
(* The worklist keeps the facts exact                                      *)

\* The facts that have left a reached word have arrived, with their traces.
Met(b, e) == e.to \in Entry => e.to \in b.reached /\ NoMore(b.incoming[e.to], e.state)
Stable(b, waiting) ==
    \A pc \in b.reached \ waiting : \A e \in Edges(pc, b.incoming[pc]) : Met(b, e)

\* m is no more than what arrives at t.
Under(b, m, t) ==
    /\ t = 0 => NoMore(m, ZERO)
    /\ \A pc \in b.reached : \A e \in Edges(pc, b.incoming[pc]) : e.to = t => NoMore(m, e.state)
Greatest(b) ==
    \A t \in b.reached, m \in Full : Under(b, m, t) => NoMore(m, b.incoming[t])

\* A word is reached from another one.
Led(b) ==
    \A t \in b.reached :
        t = 0 \/ \E pc \in b.reached : \E e \in Edges(pc, b.incoming[pc]) : e.to = t

ExactBoard(b) ==
    /\ \A t \in b.reached : b.incoming[t] \in Full
    /\ NoMore(b.incoming[0], ZERO)
    /\ Led(b)
    /\ Monotone(prog) => Greatest(b)

\* The facts of c are those of b or less.
Falls(b, c) ==
    /\ b.reached \subseteq c.reached
    /\ \A q \in b.reached : NoMore(c.incoming[q], b.incoming[q])

LEMMA FallsTrans ==
    ASSUME NEW b, NEW c, NEW d, Falls(b, c), Falls(c, d)
    PROVE  Falls(b, d)
<1>1. b.reached \subseteq d.reached
  BY DEF Falls
<1>2. ASSUME NEW q \in b.reached PROVE NoMore(d.incoming[q], b.incoming[q])
  <2>1. NoMore(c.incoming[q], b.incoming[q]) /\ NoMore(d.incoming[q], c.incoming[q])
    BY DEF Falls
  <2> QED
    BY <2>1, NoMoreTrans
<1> QED
  BY <1>1, <1>2 DEF Falls

LEMMA MetFalls ==
    ASSUME NEW b, NEW c, NEW e, Falls(b, c), Met(b, e)
    PROVE  Met(c, e)
<1> SUFFICES ASSUME e.to \in Entry
             PROVE  e.to \in c.reached /\ NoMore(c.incoming[e.to], e.state)
  BY DEF Met
<1>1. e.to \in b.reached /\ NoMore(b.incoming[e.to], e.state)
  BY DEF Met
<1>2. e.to \in c.reached /\ NoMore(c.incoming[e.to], b.incoming[e.to])
  BY <1>1 DEF Falls
<1> QED
  BY <1>1, <1>2, NoMoreTrans

\* What is under a fallen board was under the board.
LEMMA UnderFalls ==
    ASSUME prog \in Programs, Accepted(prog), Monotone(prog), NEW b, NEW c, Falls(b, c),
           b.reached \subseteq Entry, \A q \in b.reached : b.incoming[q] \in Full,
           \A q \in c.reached : c.incoming[q] \in Full,
           NEW m, NEW t, Under(c, m, t)
    PROVE  Under(b, m, t)
<1>1. ASSUME NEW q \in b.reached, NEW e \in Edges(q, b.incoming[q]), e.to = t
      PROVE  NoMore(m, e.state)
  <2>1. q \in c.reached /\ q \in Entry /\ NoMore(c.incoming[q], b.incoming[q])
    BY DEF Falls
  <2>2. PICK d \in Edges(q, c.incoming[q]) : d.to = e.to /\ NoMore(d.state, e.state)
    BY <2>1, EdgesLess
  <2>3. NoMore(m, d.state)
    BY <1>1, <2>1, <2>2 DEF Under
  <2> QED
    BY <2>2, <2>3, NoMoreTrans
<1> QED
  BY <1>1 DEF Under

LEMMA FlowExact ==
    ASSUME prog \in Programs, Accepted(prog), NEW b, BoardOK(b), ExactBoard(b),
           NEW pc \in b.reached, NEW s \in Full, NoMore(b.incoming[pc], s), NEW e \in Edges(pc, s)
    PROVE  /\ BoardOK(Flow(b, e)) /\ ExactBoard(Flow(b, e)) /\ Grows(b, Flow(b, e))
           /\ Falls(b, Flow(b, e)) /\ Met(Flow(b, e), e)
<1> DEFINE c == Flow(b, e)
           x == Merged(b, e)
           I == [b.incoming EXCEPT ![e.to] = x]
<1>1. b.reached \subseteq Entry /\ b.incoming \in [DOMAIN prog -> Good] /\ 0 \in b.reached
  BY DEF BoardOK, BoardType
<1>2. e.state \in Full /\ e.state \in Good
  BY <1>1, EdgesFull DEF Full, Traced
<1>3. BoardOK(c) /\ Grows(b, c)
  BY <1>2, FlowSound
<1>4. /\ x \in Full /\ NoMore(x, e.state)
      /\ e.to \in b.reached => NoMore(x, b.incoming[e.to])
      /\ \A m \in Full : NoMore(m, e.state) /\ (e.to \in b.reached => NoMore(m, b.incoming[e.to]))
            => NoMore(m, x)
  <2>1. CASE e.to \in b.reached
    <3>1. b.incoming[e.to] \in Full
      BY <2>1 DEF ExactBoard
    <3>2. x = Meet(b.incoming[e.to], e.state)
      BY <2>1 DEF Merged
    <3> HIDE DEF x
    <3> QED
      BY <1>2, <2>1, <3>1, <3>2, MeetFull
  <2>2. CASE e.to \notin b.reached
    BY <1>2, <2>2, NoMoreRefl DEF Merged
  <2> QED
    BY <2>1, <2>2
<1> HIDE DEF x
<1>5. CASE ~Changes(b, e)
  <2>1. c = b
    BY <1>5 DEF Flow
  <2>2. e.to \in Entry => e.to \in b.reached /\ x = b.incoming[e.to]
    BY <1>5 DEF Changes, Entry, x
  <2>3. Met(b, e)
    BY <1>4, <2>2 DEF Met
  <2>4. Falls(b, b)
    BY NoMoreRefl DEF Falls
  <2> QED
    BY <1>3, <2>1, <2>3, <2>4
<1>6. CASE Changes(b, e)
  <2>1. c.reached = b.reached \cup {e.to} /\ c.incoming = I
    BY <1>6 DEF Flow, x
  <2>2. e.to \in Entry /\ e.to \in DOMAIN prog
    BY <1>6 DEF Changes, Entry
  <2>3. I[e.to] = x /\ \A q \in DOMAIN prog : q # e.to => I[q] = b.incoming[q]
    BY <1>1, <2>2
  <2>4. c.reached \subseteq DOMAIN prog /\ b.reached \subseteq DOMAIN prog
    BY <1>1, <2>1, <2>2 DEF Entry
  <2> HIDE DEF c, I
  <2>5. Falls(b, c)
    <3>1. ASSUME NEW q \in b.reached PROVE NoMore(I[q], b.incoming[q])
      <4>1. CASE q = e.to
        BY <1>4, <2>3, <4>1
      <4>2. CASE q # e.to
        BY <2>3, <2>4, <4>2, NoMoreRefl
      <4> QED
        BY <4>1, <4>2
    <3> QED
      BY <2>1, <3>1 DEF Falls
  <2>6. Met(c, e)
    BY <1>4, <2>1, <2>3 DEF Met
  <2>7. \A q \in c.reached : c.incoming[q] \in Full
    BY <1>4, <2>1, <2>3, <2>4 DEF ExactBoard
  <2>8. NoMore(c.incoming[0], ZERO)
    <3>1. NoMore(c.incoming[0], b.incoming[0])
      BY <1>1, <2>5 DEF Falls
    <3> QED
      BY <3>1, NoMoreTrans DEF ExactBoard
  <2>9. Led(c)
    <3> SUFFICES ASSUME NEW t \in c.reached, t # 0
                 PROVE  \E q \in c.reached : \E d \in Edges(q, c.incoming[q]) : d.to = t
      BY DEF Led
    <3>1. CASE t = e.to
      BY <1>1, <2>1, <3>1, EdgesTo
    <3>2. CASE t # e.to
      <4>1. PICK q \in b.reached : \E d \in Edges(q, b.incoming[q]) : d.to = t
        BY <2>1, <3>2 DEF ExactBoard, Led
      <4>2. PICK d \in Edges(q, b.incoming[q]) : d.to = t
        BY <4>1
      <4>3. q \in Entry /\ q \in c.reached
        BY <1>1, <2>1
      <4>4. \E a \in Edges(q, c.incoming[q]) : a.to = d.to
        BY <4>3, EdgesTo
      <4> QED
        BY <4>2, <4>3, <4>4
    <3> QED
      BY <3>1, <3>2
  <2>10. ASSUME Monotone(prog) PROVE Greatest(c)
    <3> SUFFICES ASSUME NEW t \in c.reached, NEW m \in Full, Under(c, m, t)
                 PROVE  NoMore(m, c.incoming[t])
      BY DEF Greatest
    <3>1. Under(b, m, t)
      BY <1>1, <2>5, <2>7, <2>10, UnderFalls DEF ExactBoard
    <3>2. t \in b.reached => NoMore(m, b.incoming[t])
      BY <2>10, <3>1 DEF ExactBoard, Greatest
    <3>3. CASE t = e.to
      <4>1. pc \in Entry /\ c.incoming[pc] \in Full /\ pc \in c.reached
        BY <1>1, <2>1, <2>7
      <4>2. NoMore(c.incoming[pc], s)
        BY <2>5, NoMoreTrans DEF Falls
      <4>3. PICK d \in Edges(pc, c.incoming[pc]) : d.to = e.to /\ NoMore(d.state, e.state)
        BY <2>10, <4>1, <4>2, EdgesLess
      <4>4. NoMore(m, d.state)
        BY <3>3, <4>1, <4>3 DEF Under
      <4>5. NoMore(m, e.state)
        BY <4>3, <4>4, NoMoreTrans
      <4> QED
        BY <1>4, <2>1, <2>3, <3>2, <3>3, <4>5
    <3>4. CASE t # e.to
      BY <2>1, <2>3, <2>4, <3>2, <3>4
    <3> QED
      BY <3>3, <3>4
  <2> QED
    BY <1>3, <2>5, <2>6, <2>7, <2>8, <2>9, <2>10 DEF ExactBoard, c
<1> QED
  BY <1>5, <1>6

LEMMA FlowAllExact ==
    ASSUME prog \in Programs, Accepted(prog), NEW b, BoardOK(b), ExactBoard(b),
           NEW pc \in b.reached, NEW s \in Full, NoMore(b.incoming[pc], s)
    PROVE  LET c == FlowAll(b, Outgoing(prog, pc, s))
           IN  BoardOK(c) /\ ExactBoard(c) /\ Grows(b, c) /\ Falls(b, c)
               /\ \A e \in Edges(pc, s) : Met(c, e)
<1> DEFINE out == Outgoing(prog, pc, s)
           c == FlowAll(b, out)
           Good2(d) == BoardOK(d) /\ ExactBoard(d) /\ Grows(b, d) /\ Falls(b, d)
<1>1. Edges(pc, s) = {out[i] : i \in DOMAIN out}
  BY DEF Edges
<1>2. pc \in Entry
  BY DEF BoardOK, BoardType
<1>3. out = << >> \/ (\E x : out = <<x>>) \/ (\E x, y : out = <<x, y>>)
  BY <1>2, OutgoingShape
<1>4. Falls(b, b)
  BY NoMoreRefl DEF Falls
<1> SUFFICES Good2(c) /\ \A i \in DOMAIN out : Met(c, out[i])
  BY <1>1
<1> HIDE DEF out
<1>5. CASE out = << >>
  BY <1>4, <1>5, GrowsRefl DEF FlowAll
<1>6. ASSUME NEW x, out = <<x>> PROVE Good2(c) /\ \A i \in DOMAIN out : Met(c, out[i])
  <2>1. Len(out) = 1 /\ DOMAIN out = {1} /\ out[1] \in Edges(pc, s)
    BY <1>1, <1>6
  <2>2. c = Flow(b, out[1])
    BY <2>1 DEF FlowAll
  <2> HIDE DEF c
  <2>3. Good2(c) /\ Met(c, out[1])
    BY <2>1, <2>2, FlowExact
  <2> QED
    BY <2>1, <2>3
<1>7. ASSUME NEW x, NEW y, out = <<x, y>> PROVE Good2(c) /\ \A i \in DOMAIN out : Met(c, out[i])
  <2>1. Len(out) = 2 /\ DOMAIN out = {1, 2} /\ out[1] \in Edges(pc, s) /\ out[2] \in Edges(pc, s)
    <3>1. DOMAIN out = {1, 2} /\ Len(out) = 2
      BY <1>7
    <3> QED
      BY <1>1, <3>1
  <2> DEFINE d == Flow(b, out[1])
  <2>2. c = Flow(d, out[2])
    BY <2>1 DEF FlowAll
  <2>3. Good2(d) /\ Met(d, out[1])
    BY <2>1, FlowExact
  <2> HIDE DEF d, c
  <2>4. pc \in d.reached /\ NoMore(d.incoming[pc], s)
    BY <2>3, NoMoreTrans DEF Falls
  <2>5. BoardOK(c) /\ ExactBoard(c) /\ Grows(d, c) /\ Falls(d, c) /\ Met(c, out[2])
    BY <2>1, <2>2, <2>3, <2>4, FlowExact
  <2>6. Good2(c) /\ Met(c, out[1])
    BY <2>3, <2>5, GrowsTrans, FallsTrans, MetFalls
  <2> QED
    BY <2>1, <2>5, <2>6
<1> QED
  BY <1>3, <1>5, <1>6, <1>7

\* A visit keeps the facts exact.
LEMMA VisitExact ==
    ASSUME prog \in Programs, Accepted(prog), NEW b, BoardOK(b), ExactBoard(b),
           Stable(b, b.queued), b.work # << >>,
           NEW popped, popped = [reached |-> b.reached, incoming |-> b.incoming,
                                 work |-> Tail(b.work), queued |-> b.queued \ {Head(b.work)}],
           NEW c, c = FlowAll(popped, Outgoing(prog, Head(b.work), b.incoming[Head(b.work)]))
    PROVE  ExactBoard(c) /\ Stable(c, c.queued)
<1> DEFINE pc == Head(b.work)
<1>1. b \in BoardType /\ b.work \in Seq(Entry) /\ b.work[1] \in b.reached
  BY DEF BoardOK, BoardType
<1>2. pc \in b.reached
  BY <1>1
<1>3. BoardOK(popped)
  BY BoardPopped
<1>4. popped.reached = b.reached /\ popped.incoming = b.incoming
  OBVIOUS
<1>5. ExactBoard(popped)
  BY <1>4 DEF ExactBoard, Led, Greatest, Under
<1>6. b.incoming[pc] \in Full /\ NoMore(b.incoming[pc], b.incoming[pc])
  BY <1>2, NoMoreRefl DEF ExactBoard
<1> HIDE DEF pc
<1>7. ExactBoard(c) /\ Grows(popped, c) /\ Falls(popped, c)
      /\ \A e \in Edges(pc, b.incoming[pc]) : Met(c, e)
  <2>1. c = FlowAll(popped, Outgoing(prog, pc, b.incoming[pc]))
    BY DEF pc
  <2>2. pc \in popped.reached /\ NoMore(popped.incoming[pc], b.incoming[pc])
    BY <1>2, <1>4, <1>6
  <2> QED
    BY <1>3, <1>5, <1>6, <2>1, <2>2, FlowAllExact
<1>8. ASSUME NEW q \in c.reached \ c.queued, NEW e \in Edges(q, c.incoming[q])
      PROVE  Met(c, e)
  <2>1. q \in b.reached /\ c.incoming[q] = b.incoming[q]
    BY <1>4, <1>7, <1>8 DEF Grows
  <2>2. CASE q = pc
    BY <1>7, <1>8, <2>1, <2>2
  <2>3. CASE q # pc
    <3>1. q \notin b.queued
      BY <1>7, <2>3 DEF Grows, pc
    <3>2. Met(popped, e)
      BY <1>8, <2>1, <3>1 DEF Stable, Met
    <3> QED
      BY <1>7, <3>2, MetFalls
  <2> QED
    BY <2>2, <2>3
<1> QED
  BY <1>7, <1>8 DEF Stable

\* What arrives at a word, from where.
LEMMA ArrivingFrom ==
    ASSUME NEW t
    PROVE  /\ \A s \in Arriving(t) :
                 (t = 0 /\ s = ZERO)
                 \/ \E pc \in reached : \E e \in Edges(pc, incoming[pc]) : e.to = t /\ e.state = s
           /\ \A pc \in reached : \A e \in Edges(pc, incoming[pc]) : e.to = t => e.state \in Arriving(t)
           /\ t = 0 => ZERO \in Arriving(t)
<1> DEFINE out(pc) == Outgoing(prog, pc, incoming[pc])
<1>1. \A pc \in reached : Edges(pc, incoming[pc]) = {out(pc)[i] : i \in DOMAIN out(pc)}
  BY DEF Edges
<1>2. Into(t) = {e \in UNION {{out(pc)[i] : i \in DOMAIN out(pc)} : pc \in reached} : e.to = t}
  BY DEF Into
<1> HIDE DEF out
<1>3. \A e \in Into(t) : e.to = t /\ \E pc \in reached : e \in Edges(pc, incoming[pc])
  BY <1>1, <1>2
<1>4. \A pc \in reached : \A e \in Edges(pc, incoming[pc]) : e.to = t => e \in Into(t)
  BY <1>1, <1>2
<1>5. ASSUME NEW s \in Arriving(t), ~(t = 0 /\ s = ZERO)
      PROVE  \E pc \in reached : \E e \in Edges(pc, incoming[pc]) : e.to = t /\ e.state = s
  <2>1. PICK e \in Into(t) : e.state = s
    BY <1>5 DEF Arriving
  <2> QED
    BY <1>3, <2>1
<1> QED
  BY <1>4, <1>5 DEF Arriving

\* A state that knows one register.
Only(r, f) == [q \in Reg |-> IF q = 0 THEN ZeroFact ELSE IF q = r THEN f ELSE Absent]

LEMMA OnlyFull ==
    ASSUME prog \in Programs, NEW r \in Reg, NEW f, FactOK(f)
    PROVE  Only(r, f) \in Full
<1>1. \A q \in Reg : FactOK(Only(r, f)[q])
  BY ZeroFull DEF Only
<1>2. \A q \in Reg : Only(r, f)[q] \in Fact \cup {Absent}
  BY <1>1 DEF FactOK
<1>3. Only(r, f) \in [Reg -> Fact \cup {Absent}]
  BY <1>2 DEF Only
<1>4. Only(r, f)[0] = ZeroFact
  BY RegAssumption DEF Only
<1> QED
  BY <1>1, <1>3, <1>4 DEF Full, Traced, Good, State

LEMMA OnlyNoMore ==
    ASSUME NEW r \in Reg, r # 0, NEW f, NEW s \in Full
    PROVE  NoMore(Only(r, f), s) <=> Less(f, s[r])
<1>1. s[0] = ZeroFact
  BY DEF Full
<1>2. Only(r, f)[r] = f
  BY DEF Only
<1>3. \A q \in Reg : q # r => Less(Only(r, f)[q], s[q])
  BY <1>1 DEF Only, Less
<1> QED
  BY <1>2, <1>3, NoMoreLess

\* The words a register's value comes from, in some state of S.
TracesOf(S, r) == UNION {s[r].trace : s \in S}

\* What a set of states agrees on: the value all have, from all their words ...
LEMMA AgreedIs ==
    ASSUME prog \in Programs, NEW S \in SUBSET Full, S # {}, NEW r \in Reg,
           NEW v, \A s \in S : Known(s, r) /\ s[r].val = v
    PROVE  /\ v \in Int /\ v \in Addr /\ TracesOf(S, r) \in SUBSET DOMAIN prog
           /\ Agreed(S, r) = NewFact(v, TracesOf(S, r))
<1> DEFINE c == CHOOSE s \in S : TRUE
<1>1. c \in S
  OBVIOUS
<1>2. \A s \in S : s \in Traced /\ (Known(s, r) => s[r].val \in Int /\ s[r].val \in Addr
                                                   /\ s[r].trace \in SUBSET DOMAIN prog)
  BY TracedFields DEF Full
<1>3. \A s, u \in S : s[r].val = u[r].val
  OBVIOUS
<1>4. Agreed(S, r) = NewFact(c[r].val, TracesOf(S, r))
  BY <1>3 DEF Agreed, TracesOf
<1> HIDE DEF c
<1>5. c[r].val = v /\ v \in Int /\ v \in Addr
  BY <1>1, <1>2
<1>6. TracesOf(S, r) \in SUBSET DOMAIN prog
  BY <1>2 DEF TracesOf
<1> QED
  BY <1>4, <1>5, <1>6

\* ... and when there is one, it is a fact they all have.
LEMMA AgreedFact ==
    ASSUME prog \in Programs, NEW S \in SUBSET Full, S # {}, NEW r \in Reg,
           Agreed(S, r) # Absent
    PROVE  /\ \A s \in S : Known(s, r) /\ s[r].val = Agreed(S, r).val
           /\ Agreed(S, r).trace = TracesOf(S, r)
           /\ FactOK(Agreed(S, r))
<1>1. /\ \A s \in S : Known(s, r)
      /\ \A s, u \in S : s[r].val = u[r].val
  BY DEF Agreed
<1>2. PICK c \in S : TRUE
  OBVIOUS
<1> DEFINE v == c[r].val   U == TracesOf(S, r)
<1>3. \A s \in S : Known(s, r) /\ s[r].val = v
  BY <1>1, <1>2
<1> HIDE DEF v
<1>4. v \in Int /\ v \in Addr /\ U \in SUBSET DOMAIN prog /\ Agreed(S, r) = NewFact(v, U)
  BY <1>3, AgreedIs, Zenon
<1> HIDE DEF U
<1>5. FactOK(NewFact(v, U)) /\ NewFact(v, U) = [val |-> v, trace |-> U]
  BY <1>4, NewFactOK
<1>6. NewFact(v, U).val = v /\ NewFact(v, U).trace = U
  BY <1>5
<1> QED
  BY <1>3, <1>4, <1>5, <1>6 DEF U

\* With an empty queue the facts are a fixed point.
LEMMA ExactPoint ==
    ASSUME prog \in Programs, Accepted(prog), BoardOK(Board), ExactBoard(Board), Stable(Board, {}),
           NEW t \in reached
    PROVE  LET agreed == [r \in Reg |-> Agreed(Arriving(t), r)]
           IN  NoMore(incoming[t], agreed) /\ (Monotone(prog) => incoming[t] = agreed)
<1> DEFINE a == incoming[t]
           S == Arriving(t)
           agreed == [r \in Reg |-> Agreed(S, r)]
<1>1. Board.reached = reached /\ Board.incoming = incoming
  BY DEF Board
<1>2. reached \subseteq Entry /\ t \in Entry
  BY BoardFields
<1>3. \A q \in reached : incoming[q] \in Full
  BY <1>1 DEF ExactBoard
<1>4. \A s \in S : s \in Full /\ NoMore(a, s)
  <2> SUFFICES ASSUME NEW s \in S PROVE s \in Full /\ NoMore(a, s)
    OBVIOUS
  <2>1. CASE t = 0 /\ s = ZERO
    BY <1>1, <2>1, ZeroFull DEF ExactBoard
  <2>2. CASE \E pc \in reached : \E e \in Edges(pc, incoming[pc]) : e.to = t /\ e.state = s
    <3>1. PICK pc \in reached : \E e \in Edges(pc, incoming[pc]) : e.to = t /\ e.state = s
      BY <2>2
    <3>2. PICK e \in Edges(pc, incoming[pc]) : e.to = t /\ e.state = s
      BY <3>1
    <3>3. s \in Full
      BY <1>2, <1>3, <3>2, EdgesFull
    <3>4. Met(Board, e)
      BY <1>1, <3>2 DEF Stable
    <3> QED
      BY <1>1, <1>2, <3>2, <3>3, <3>4 DEF Met
  <2> QED
    BY <2>1, <2>2, ArrivingFrom
<1>5. S # {}
  <2>1. CASE t = 0
    BY <2>1, ArrivingFrom
  <2>2. CASE t # 0
    <3>1. PICK pc \in reached : \E e \in Edges(pc, incoming[pc]) : e.to = t
      BY <1>1, <2>2 DEF ExactBoard, Led
    <3> QED
      BY <3>1, ArrivingFrom
  <2> QED
    BY <2>1, <2>2
<1>6. a \in Full /\ a \in Traced
  BY <1>3 DEF Full
<1>7. ASSUME NEW m \in Full, \A s \in S : NoMore(m, s), Monotone(prog)
      PROVE  NoMore(m, a)
  <2>1. Under(Board, m, t)
    BY <1>1, <1>7, ArrivingFrom DEF Under
  <2> QED
    BY <1>1, <1>7, <2>1 DEF ExactBoard, Greatest
<1> HIDE DEF S, a
<1>8. ASSUME NEW r \in Reg
      PROVE  Less(a[r], Agreed(S, r)) /\ (Monotone(prog) => a[r] = Agreed(S, r))
  <2> DEFINE U == TracesOf(S, r)
             g == Agreed(S, r)
  <2>1. CASE a[r] # Absent
    <3> DEFINE v == a[r].val
               A == a[r].trace
    <3>1. \A s \in S : Known(s, r) /\ s[r].val = v /\ s[r].trace \subseteq A
      BY <1>4, <2>1 DEF NoMore, Known
    <3>2. v \in Int /\ v \in Addr /\ U \in SUBSET DOMAIN prog /\ g = NewFact(v, U)
      <4>1. S \in SUBSET Full
        BY <1>4
      <4>2. \A s \in S : Known(s, r) /\ s[r].val = v
        BY <3>1
      <4> HIDE DEF v
      <4> QED
        BY <1>5, <4>1, <4>2, AgreedIs, Zenon
    <3>3. A \in SUBSET DOMAIN prog /\ U \in SUBSET A /\ Cardinality(A) <= MaxTrace
          /\ a[r] = [val |-> v, trace |-> A]
      <4>1. a[r] \in Fact /\ A \in SUBSET DOMAIN prog /\ Cardinality(A) <= MaxTrace
        BY <1>6, <2>1, TracedFields DEF FactOK
      <4>2. a[r] = [val |-> v, trace |-> A]
        BY <4>1 DEF Fact
      <4>3. U \in SUBSET A
        BY <3>1 DEF TracesOf
      <4> QED
        BY <4>1, <4>2, <4>3
    <3> HIDE DEF U, A, v
    <3>4. Cardinality(U) <= MaxTrace
      BY <3>3, TraceSize, BudgetAssumption
    <3>5. g # Absent /\ g = [val |-> v, trace |-> U] /\ FactOK(g)
      BY <3>2, <3>4, NewFactOK
    <3>6. g.val = v /\ g.trace = U
      BY <3>5
    <3>7. Less(a[r], g)
      BY <3>3, <3>5, <3>6 DEF Less, v, A
    <3>8. ASSUME Monotone(prog) PROVE a[r] = g
      <4>1. CASE r = 0
        <5>1. a[0] = ZeroFact
          BY <1>6 DEF Full
        <5>2. A = {}
          BY <4>1, <5>1 DEF A, ZeroFact
        <5> QED
          BY <3>3, <3>5, <5>2
      <4>2. CASE r # 0
        <5>1. \A s \in S : Less(g, s[r])
          BY <3>1, <3>6 DEF Less, Known, U, TracesOf
        <5>2. \A s \in S : NoMore(Only(r, g), s)
          BY <1>4, <4>2, <5>1, OnlyNoMore
        <5>3. Only(r, g) \in Full
          BY <3>5, OnlyFull
        <5>4. NoMore(Only(r, g), a)
          BY <1>7, <3>8, <5>2, <5>3
        <5>5. Less(g, a[r])
          BY <1>6, <4>2, <5>4, OnlyNoMore
        <5>6. A \subseteq U
          BY <3>5, <3>6, <5>5 DEF Less, A
        <5> QED
          BY <3>3, <3>5, <5>6
      <4> QED
        BY <4>1, <4>2
    <3> QED
      BY <3>7, <3>8
  <2>2. CASE a[r] = Absent
    <3>1. Less(a[r], g)
      BY <2>2 DEF Less
    <3>2. ASSUME Monotone(prog), g # Absent PROVE FALSE
      <4>1. r # 0
        BY <1>6, <2>2, ZeroGood DEF Full
      <4>2. /\ \A s \in S : Known(s, r) /\ s[r].val = g.val
            /\ g.trace = U /\ FactOK(g)
        <5>1. S \in SUBSET Full
          BY <1>4
        <5> QED
          BY <1>5, <3>2, <5>1, AgreedFact, Zenon
      <4> HIDE DEF g
      <4>3. \A s \in S : Less(g, s[r])
        BY <4>2 DEF Less, Known, TracesOf
      <4>4. \A s \in S : NoMore(Only(r, g), s)
        BY <1>4, <4>1, <4>3, OnlyNoMore
      <4>5. Only(r, g) \in Full
        BY <4>2, OnlyFull
      <4>6. NoMore(Only(r, g), a)
        BY <1>7, <3>2, <4>4, <4>5
      <4>7. Less(g, a[r])
        BY <1>6, <4>1, <4>6, OnlyNoMore
      <4> QED
        BY <2>2, <3>2, <4>7 DEF Less
    <3> QED
      BY <2>2, <3>1, <3>2
  <2> QED
    BY <2>1, <2>2
<1>9. NoMore(a, agreed)
  BY <1>8, NoMoreLess
<1>10. ASSUME Monotone(prog) PROVE a = agreed
  <2>1. a \in [Reg -> Fact \cup {Absent}]
    BY <1>6 DEF Traced, Good, State
  <2>2. \A r \in Reg : a[r] = agreed[r]
    BY <1>8, <1>10
  <2> HIDE DEF agreed
  <2>3. agreed = [r \in Reg |-> agreed[r]]
    BY DEF agreed
  <2> QED
    BY <2>1, <2>2, <2>3
<1> QED
  BY <1>9, <1>10 DEF a, S

-----------------------------------------------------------------------------
(* The fixed point                                                         *)

FixedInv ==
    /\ phase = "scan" => ExactBoard(Board) /\ Stable(Board, queued)
    /\ FixedPoint

\* While the scan's facts stand, so do its fixed point and its board.
LEMMA SameArriving ==
    ASSUME prog' = prog, reached' = reached, incoming' = incoming, NEW t
    PROVE  Arriving(t)' = Arriving(t)
<1>1. Into(t)' = Into(t)
  BY DEF Into
<1> QED
  BY <1>1 DEF Arriving

LEMMA SamePoint ==
    ASSUME prog' = prog, reached' = reached, incoming' = incoming,
           \A t \in reached :
              LET agreed == [r \in Reg |-> Agreed(Arriving(t), r)]
              IN  NoMore(incoming[t], agreed) /\ (Monotone(prog) => incoming[t] = agreed)
    PROVE  FixedPoint'
<1> SUFFICES ASSUME NEW t \in reached
             PROVE  LET agreed == [r \in Reg |-> Agreed(Arriving(t)', r)]
                    IN  NoMore(incoming[t], agreed) /\ (Monotone(prog) => incoming[t] = agreed)
  BY DEF FixedPoint
<1>1. Arriving(t)' = Arriving(t)
  BY SameArriving
<1> QED
  BY <1>1, Zenon

LEMMA SameEdges ==
    ASSUME prog' = prog, NEW pc, NEW s
    PROVE  Edges(pc, s)' = Edges(pc, s)
BY DEF Edges

LEMMA SameFull ==
    ASSUME prog' = prog
    PROVE  Full' = Full /\ Entry' = Entry
<1>1. \A f : FactOK(f)' <=> FactOK(f)
  BY DEF FactOK
<1>2. Traced' = Traced
  BY <1>1 DEF Traced
<1> QED
  BY <1>2 DEF Full, Entry

LEMMA SameBoard ==
    ASSUME prog' = prog, NEW c, ExactBoard(c), Stable(c, c.queued),
           Board' = c, queued' = c.queued
    PROVE  ExactBoard(Board)' /\ Stable(Board, queued)'
<1>1. Full' = Full /\ Entry' = Entry
  BY SameFull
<1>2. \A pc, s : Edges(pc, s)' = Edges(pc, s)
  BY SameEdges
<1>3. Stable(Board, queued)'
  BY <1>1, <1>2 DEF Stable, Met
<1>4. Led(Board)'
  BY <1>2 DEF ExactBoard, Led
<1>5. Monotone(prog)' => Greatest(Board)'
  BY <1>1, <1>2 DEF ExactBoard, Greatest, Under
<1> QED
  BY <1>1, <1>3, <1>4, <1>5 DEF ExactBoard

LEMMA FixedInit == Init => FixedInv
<1> SUFFICES ASSUME Init PROVE FixedInv
  OBVIOUS
<1>1. prog \in Programs /\ visits = 0 /\ reached = {0} /\ queued = {0}
      /\ incoming = [pc \in DOMAIN prog |-> ZERO]
  BY DEF Init
<1>2. Board.reached = reached /\ Board.incoming = incoming
  BY DEF Board
<1>3. ASSUME phase = "scan" PROVE ExactBoard(Board) /\ Stable(Board, queued)
  <2>1. 0 \in DOMAIN prog
    BY <1>1, <1>3, ProgramFacts DEF Init, Entry
  <2>2. incoming[0] = ZERO /\ ZERO \in Full
    BY <1>1, <2>1, ZeroFull
  <2>3. Greatest(Board)
    BY <1>1, <1>2, <2>2 DEF Greatest, Under
  <2>4. Stable(Board, queued)
    BY <1>1, <1>2 DEF Stable
  <2> QED
    BY <1>1, <1>2, <2>2, <2>3, <2>4, NoMoreRefl DEF ExactBoard, Led
<1>4. FixedPoint
  BY <1>1 DEF FixedPoint
<1> QED
  BY <1>3, <1>4 DEF FixedInv

LEMMA FixedVisit == IInv /\ FixedInv /\ Visit => FixedInv'
<1> SUFFICES ASSUME IInv, FixedInv, Visit PROVE FixedInv'
  OBVIOUS
<1>1. /\ prog \in Programs /\ phase = "scan" /\ phase' = "scan" /\ prog' = prog /\ work # << >>
  BY DEF IInv, Visit
<1>2. Accepted(prog) /\ BoardOK(Board) /\ ExactBoard(Board) /\ Stable(Board, queued)
  BY <1>1 DEF IInv, ScanInv, FixedInv
<1> DEFINE pc == Head(work)
           popped == [reached |-> reached, incoming |-> incoming,
                      work |-> Tail(work), queued |-> queued \ {pc}]
           c == FlowAll(popped, Outgoing(prog, pc, incoming[pc]))
<1>3. /\ reached' = c.reached /\ incoming' = c.incoming
      /\ work' = c.work /\ queued' = c.queued
  BY DEF Visit
<1>4. /\ Board.reached = reached /\ Board.incoming = incoming
      /\ Board.work = work /\ Board.queued = queued
  BY DEF Board
<1>5. ExactBoard(c) /\ Stable(c, c.queued)
  BY <1>1, <1>2, <1>4, VisitExact
<1>x. BoardOK(c)
  <2>1. Settled(Board, queued)
    BY <1>1 DEF IInv, ScanInv
  <2> QED
    BY <1>1, <1>2, <1>4, <2>1, VisitSound
<1> HIDE DEF c
<1>6. Board' = c
  BY <1>3, <1>x DEF Board, BoardOK, BoardType
<1>7. ExactBoard(Board)' /\ Stable(Board, queued)'
  BY <1>1, <1>3, <1>5, <1>6, SameBoard
<1> QED
  BY <1>1, <1>7 DEF FixedInv, FixedPoint

LEMMA FixedEmit == IInv /\ FixedInv /\ Emit => FixedInv'
<1> SUFFICES ASSUME IInv, FixedInv, Emit PROVE FixedInv'
  OBVIOUS
<1>1. /\ prog \in Programs /\ phase = "scan" /\ phase' = "prefix" /\ prog' = prog /\ work = << >>
      /\ reached' = reached /\ incoming' = incoming
  BY DEF IInv, Emit
<1>2. Accepted(prog) /\ BoardOK(Board) /\ ExactBoard(Board) /\ Stable(Board, queued)
  BY <1>1 DEF IInv, ScanInv, FixedInv
<1>3. queued = {}
  BY <1>1, <1>2 DEF BoardOK, Board
<1>4. \A t \in reached :
         LET agreed == [r \in Reg |-> Agreed(Arriving(t), r)]
         IN  NoMore(incoming[t], agreed) /\ (Monotone(prog) => incoming[t] = agreed)
  BY <1>1, <1>2, <1>3, ExactPoint
<1>5. FixedPoint'
  BY <1>1, <1>4, SamePoint
<1> QED
  BY <1>1, <1>5 DEF FixedInv

LEMMA FixedStep == IInv /\ FixedInv /\ [Next]_vars => FixedInv'
<1> SUFFICES ASSUME IInv, FixedInv, [Next]_vars PROVE FixedInv'
  OBVIOUS
<1>1. CASE Visit
  BY <1>1, FixedVisit
<1>2. CASE Emit
  BY <1>2, FixedEmit
<1>3. ASSUME prog' = prog, reached' = reached, incoming' = incoming, work' = work,
             visits' = visits, phase = "prefix" \/ phase' # "prefix", phase' # "scan"
      PROVE  FixedInv'
  <2>1. CASE phase' = "prefix" /\ visits' > 0 /\ work' = << >>
    <3>1. \A t \in reached :
             LET agreed == [r \in Reg |-> Agreed(Arriving(t), r)]
             IN  NoMore(incoming[t], agreed) /\ (Monotone(prog) => incoming[t] = agreed)
      BY <1>3, <2>1 DEF FixedInv, FixedPoint
    <3> QED
      BY <1>3, <3>1, SamePoint DEF FixedInv
  <2>2. CASE ~ (phase' = "prefix" /\ visits' > 0 /\ work' = << >>)
    BY <1>3, <2>2 DEF FixedInv, FixedPoint
  <2> QED
    BY <2>1, <2>2
<1>4. CASE GiveUp
  BY <1>4 DEF GiveUp, scanVars, FixedInv, FixedPoint
<1>5. CASE Prefix
  <2>1. phase = "prefix" /\ phase' # "scan"
    BY <1>5 DEF Prefix, PrefixEnds, PrefixGoesOn, PrefixPlain, PrefixAnnuls, PrefixControl
  <2> QED
    BY <1>3, <1>5, <2>1 DEF Prefix, scanVars
<1>6. CASE Start \/ CpuPlain \/ CpuAnnul \/ CpuControl
  BY <1>3, <1>6 DEF Start, CpuPlain, CpuAnnul, CpuControl, Running, scanVars
<1>7. CASE UNCHANGED vars
  <2>1. CASE phase = "scan"
    <3>1. prog' = prog /\ Board' = Board /\ queued' = queued /\ Board.queued = queued
          /\ phase' = phase
      BY <1>7 DEF vars, scanVars, Board
    <3>2. ExactBoard(Board) /\ Stable(Board, queued)
      BY <2>1 DEF FixedInv
    <3>3. PICK c : c = Board
      OBVIOUS
    <3>4. ExactBoard(Board)' /\ Stable(Board, queued)'
      BY <3>1, <3>2, <3>3, SameBoard
    <3> QED
      BY <2>1, <3>1, <3>4 DEF FixedInv, FixedPoint
  <2>2. CASE phase # "scan"
    BY <1>3, <1>7, <2>2 DEF vars, scanVars
  <2> QED
    BY <2>1, <2>2
<1> QED
  BY <1>1, <1>2, <1>4, <1>5, <1>6, <1>7 DEF Next

\* When scan_body emits its claims, the facts before a word are not more than
\* all the ways into it agree on, and in a body without conditional moves they
\* are exactly that, in whatever order the words were visited.
THEOREM FactsAreExact == Spec => []FixedPoint
<1>1. IInv /\ FixedInv /\ IInv' /\ [Next]_vars => FixedInv'
  BY FixedStep
<1>2. FixedInv => FixedPoint
  BY DEF FixedInv
<1> QED
  BY <1>1, <1>2, FixedInit, Invariant, PTL DEF Spec

-----------------------------------------------------------------------------
(* Types                                                                   *)

\* The words that wait are those of the queue, each once.
Queue(w, q) ==
    /\ IsFiniteSet(q) /\ Cardinality(q) = Len(w)
    /\ q = {w[i] : i \in DOMAIN w}
    /\ \A i, j \in DOMAIN w : w[i] = w[j] => i = j

LEMMA QueueIs ==
    ASSUME NEW w, NEW q, Queue(w, q)
    PROVE  /\ \A y \in q : \E i \in DOMAIN w : w[i] = y
           /\ \A i \in DOMAIN w : w[i] \in q
           /\ \A i, j \in DOMAIN w : w[i] = w[j] => i = j
BY DEF Queue

LEMMA QueueTail ==
    ASSUME NEW w \in Seq(Nat), w # << >>, NEW q, Queue(w, q)
    PROVE  Queue(Tail(w), q \ {Head(w)})
<1> DEFINE t == Tail(w)
           x == Head(w)
<1>1. /\ Len(w) \in Nat \ {0} /\ DOMAIN w = 1 .. Len(w) /\ x = w[1]
      /\ Len(t) = Len(w) - 1 /\ DOMAIN t = 1 .. Len(w) - 1
      /\ \A i \in 1 .. Len(w) - 1 : t[i] = w[i + 1]
  OBVIOUS
<1>q. /\ \A y \in q : \E i \in 1 .. Len(w) : w[i] = y
      /\ \A i \in 1 .. Len(w) : w[i] \in q
      /\ \A i, j \in 1 .. Len(w) : w[i] = w[j] => i = j
      /\ 1 \in 1 .. Len(w)
  BY <1>1, QueueIs
<1> HIDE DEF t, x
<1>2. x \in q
  BY <1>1, <1>q
<1>3. IsFiniteSet(q \ {x}) /\ Cardinality(q \ {x}) = Len(w) - 1
  BY <1>2, FS_RemoveElement DEF Queue
<1>4. \A i, j \in DOMAIN t : t[i] = t[j] => i = j
  <2> SUFFICES ASSUME NEW i \in 1 .. Len(w) - 1, NEW j \in 1 .. Len(w) - 1, t[i] = t[j]
               PROVE  i = j
    BY <1>1
  <2>1. i + 1 \in 1 .. Len(w) /\ j + 1 \in 1 .. Len(w) /\ w[i + 1] = w[j + 1]
    BY <1>1
  <2>2. i + 1 = j + 1
    BY <1>q, <2>1
  <2> QED
    BY <2>2
<1>5. \A y \in q \ {x} : \E i \in DOMAIN t : t[i] = y
  <2> SUFFICES ASSUME NEW y \in q \ {x} PROVE \E i \in DOMAIN t : t[i] = y
    OBVIOUS
  <2>1. PICK j \in 1 .. Len(w) : w[j] = y
    BY <1>q
  <2>2. j # 1
    BY <1>1, <2>1
  <2>3. j - 1 \in 1 .. Len(w) - 1 /\ (j - 1) + 1 = j
    BY <1>1, <2>1, <2>2
  <2> QED
    BY <1>1, <2>1, <2>3
<1>6. \A i \in DOMAIN t : t[i] \in q \ {x}
  <2> SUFFICES ASSUME NEW i \in DOMAIN t PROVE t[i] \in q \ {x}
    OBVIOUS
  <2>1. i + 1 \in 1 .. Len(w) /\ t[i] = w[i + 1] /\ i + 1 # 1 /\ 1 \in 1 .. Len(w)
    BY <1>1
  <2> QED
    BY <1>1, <1>q, <2>1
<1>7. q \ {x} = {t[i] : i \in DOMAIN t}
  BY <1>5, <1>6
<1> QED
  BY <1>1, <1>3, <1>4, <1>7 DEF Queue, t, x

LEMMA QueueAppend ==
    ASSUME NEW w \in Seq(Nat), NEW q, Queue(w, q), NEW x \in Nat, x \notin q
    PROVE  Queue(Append(w, x), q \cup {x})
<1> DEFINE t == Append(w, x)
<1>1. /\ Len(w) \in Nat /\ DOMAIN w = 1 .. Len(w)
      /\ Len(t) = Len(w) + 1 /\ DOMAIN t = 1 .. Len(w) + 1
      /\ \A i \in 1 .. Len(w) : t[i] = w[i]
      /\ t[Len(w) + 1] = x
  OBVIOUS
<1>q. /\ \A y \in q : \E i \in 1 .. Len(w) : w[i] = y
      /\ \A i \in 1 .. Len(w) : w[i] \in q
      /\ \A i, j \in 1 .. Len(w) : w[i] = w[j] => i = j
  BY <1>1, QueueIs
<1> HIDE DEF t
<1>2. IsFiniteSet(q \cup {x}) /\ Cardinality(q \cup {x}) = Len(w) + 1
  BY FS_AddElement DEF Queue
<1>d. \A i \in 1 .. Len(w) + 1 : i \in 1 .. Len(w) \/ i = Len(w) + 1
  BY <1>1
<1>3. q \cup {x} = {t[i] : i \in DOMAIN t}
  <2>1. \A i \in DOMAIN t : t[i] \in q \cup {x}
    BY <1>1, <1>q, <1>d
  <2>2. \A y \in q \cup {x} : \E i \in DOMAIN t : t[i] = y
    <3>1. \A i \in 1 .. Len(w) : i \in DOMAIN t
      BY <1>1
    <3>2. Len(w) + 1 \in DOMAIN t
      BY <1>1
    <3> QED
      BY <1>1, <1>q, <3>1, <3>2
  <2> QED
    BY <2>1, <2>2
<1>4. \A i, j \in DOMAIN t : t[i] = t[j] => i = j
  <2> SUFFICES ASSUME NEW i \in 1 .. Len(w) + 1, NEW j \in 1 .. Len(w) + 1, t[i] = t[j]
               PROVE  i = j
    BY <1>1
  <2> QED
    BY <1>1, <1>q, <1>d
<1> QED
  BY <1>1, <1>2, <1>3, <1>4 DEF Queue, t

LEMMA QueueFlow ==
    ASSUME prog \in Programs, NEW b, b.work \in Seq(Nat), Queue(b.work, b.queued), NEW e
    PROVE  Flow(b, e).work \in Seq(Nat) /\ Queue(Flow(b, e).work, Flow(b, e).queued)
<1>1. CASE Changes(b, e)
  <2>1. e.to \in Nat
    BY <1>1, ProgramFacts DEF Changes
  <2>2. Flow(b, e).work = Enqueued(b, e.to) /\ Flow(b, e).queued = b.queued \cup {e.to}
    BY <1>1 DEF Flow
  <2>3. CASE e.to \in b.queued
    <3>1. b.queued \cup {e.to} = b.queued
      BY <2>3
    <3> QED
      BY <2>2, <2>3, <3>1 DEF Enqueued
  <2>4. CASE e.to \notin b.queued
    BY <2>1, <2>2, <2>4, QueueAppend DEF Enqueued
  <2> QED
    BY <2>3, <2>4
<1>2. CASE ~ Changes(b, e)
  BY <1>2 DEF Flow
<1> QED
  BY <1>1, <1>2

LEMMA QueueFlowAll ==
    ASSUME prog \in Programs, NEW b, b.work \in Seq(Nat), Queue(b.work, b.queued), NEW edges
    PROVE  FlowAll(b, edges).work \in Seq(Nat)
           /\ Queue(FlowAll(b, edges).work, FlowAll(b, edges).queued)
<1>1. /\ Flow(b, edges[1]).work \in Seq(Nat)
      /\ Queue(Flow(b, edges[1]).work, Flow(b, edges[1]).queued)
  BY QueueFlow
<1> DEFINE c == Flow(b, edges[1])
<1> HIDE DEF c
<1>2. /\ Flow(c, edges[2]).work \in Seq(Nat)
      /\ Queue(Flow(c, edges[2]).work, Flow(c, edges[2]).queued)
  BY <1>1, QueueFlow DEF c
<1> QED
  BY <1>1, <1>2 DEF FlowAll, c

\* What is claimed is a claim.
LEMMA HitIs ==
    ASSUME NEW pc \in Int, NEW base \in Reg, NEW address \in Int, NEW width \in Int,
           NEW callee \in BOOLEAN
    PROVE  [pc |-> pc, base |-> base, address |-> address, width |-> width,
            callee |-> callee] \in Hit
BY DEF Hit

LEMMA AccessHitType ==
    ASSUME NEW s \in Good, NEW w \in BodyWord, NEW pc \in Int
    PROVE  AccessHit(s, w, pc) \subseteq Hit
<1>1. w.rs \in Reg /\ w.imm \in Int /\ w.width \in Int
  BY DEF BodyWord, Word
<1>2. s[w.rs].val \in Int
  BY <1>1, FactFields DEF Good, State
<1>3. s[w.rs].val + w.imm \in Int
  BY <1>1, <1>2
<1>4. [pc |-> pc, base |-> w.rs, address |-> s[w.rs].val + w.imm, width |-> w.width,
       callee |-> FALSE] \in Hit
  BY <1>1, <1>3, HitIs
<1> QED
  BY <1>4 DEF AccessHit

LEMMA MemoryCallForm ==
    ASSUME NEW s, NEW w, NEW pc, NEW h \in MemoryCall(s, w, pc)
    PROVE  \E r : h = [pc |-> pc + 1, base |-> r, address |-> s[r].val,
                       width |-> s[CountReg].val, callee |-> TRUE]
<1> DEFINE claim(r) == [pc |-> pc + 1, base |-> r, address |-> s[r].val,
                        width |-> s[CountReg].val, callee |-> TRUE]
           args == {a \in Callees[w.target] :
                      /\ Known(s, a)
                      /\ s[a].trace # {}
                      /\ Cardinality(s[a].trace \cup s[CountReg].trace \cup {pc}) <= MaxTrace}
<1>1. h \in {claim(r) : r \in args}
  BY DEF MemoryCall
<1> QED
  BY <1>1

LEMMA MemoryCallType ==
    ASSUME NEW s \in Good, NEW w, NEW pc \in Int
    PROVE  MemoryCall(s, w, pc) \subseteq Hit
<1> SUFFICES ASSUME NEW h \in MemoryCall(s, w, pc) PROVE h \in Hit
  OBVIOUS
<1>1. /\ w.target \in DOMAIN Callees /\ h.base \in Callees[w.target]
      /\ h = [pc |-> pc + 1, base |-> h.base, address |-> s[h.base].val,
              width |-> s[CountReg].val, callee |-> TRUE]
  <2>1. PICK r : h = [pc |-> pc + 1, base |-> r, address |-> s[r].val,
                      width |-> s[CountReg].val, callee |-> TRUE]
    BY MemoryCallForm
  <2> QED
    BY <2>1, MemoryCallFields
<1>2. h.base \in Reg
  BY <1>1, CalleesAssumption
<1>3. s[h.base].val \in Int /\ s[CountReg].val \in Int
  BY <1>2, RegAssumption, FactFields DEF Good, State
<1>4. pc + 1 \in Int
  OBVIOUS
<1>5. [pc |-> pc + 1, base |-> h.base, address |-> s[h.base].val,
       width |-> s[CountReg].val, callee |-> TRUE] \in Hit
  BY <1>2, <1>3, <1>4, HitIs
<1> QED
  BY <1>1, <1>5

LEMMA HitsType ==
    ASSUME prog \in Programs, Accepted(prog), NEW q \in Entry, NEW s \in Good
    PROVE  HitsAt(prog, q, s) \subseteq Hit
<1> SUFFICES ASSUME NEW h \in HitsAt(prog, q, s) PROVE h \in Hit
  OBVIOUS
<1> DEFINE w == prog[q]
<1>1. w \in BodyWord /\ q \in Int /\ q + 1 \in Int /\ q \in Nat /\ q + 1 \in Nat
  BY ProgramFacts DEF Entry
<1>2. CASE w.kind \in Plain
  <2>1. HitsAt(prog, q, s) = AccessHit(s, w, q)
    BY <1>2 DEF HitsAt
  <2> QED
    BY <1>1, <2>1, AccessHitType
<1>3. CASE w.kind \notin Plain
  <2> DEFINE d == prog[q + 1]
             prior == Prior(s, w)
  <2>1. d \in BodyWord /\ d.kind \in Plain
    BY <1>3, Kinds
  <2>2. prior \in Good
    BY <1>1, PriorGood
  <2>3. Transfer(prior, d, q + 1) \in Good
    BY <1>1, <2>1, <2>2, TransferGood
  <2>4. h \in AccessHit(prior, d, q + 1) \/ h \in MemoryCall(Transfer(prior, d, q + 1), w, q)
    BY <1>3 DEF HitsAt
  <2> HIDE DEF w, d, prior
  <2>5. AccessHit(prior, d, q + 1) \subseteq Hit
    BY <1>1, <2>1, <2>2, AccessHitType
  <2>6. MemoryCall(Transfer(prior, d, q + 1), w, q) \subseteq Hit
    BY <1>1, <2>3, MemoryCallType
  <2> QED
    BY <2>4, <2>5, <2>6
<1> QED
  BY <1>2, <1>3

TInv ==
    /\ reached \subseteq DOMAIN prog \cup {0}
    /\ incoming \in [DOMAIN prog -> State]
    /\ work \in Seq(Nat) /\ Queue(work, queued)
    /\ visits \in 0 .. ScanBounds(prog)
    /\ \A h \in hits : h \in Hit
    /\ prefix.steps \in Nat
    /\ \A h \in found \cup claims : h.step \in 1 .. MaxPrefixSteps

LEMMA BoundsType ==
    ASSUME prog \in Programs
    PROVE  ScanBounds(prog) \in Nat
<1>1. Cardinality(DOMAIN prog) \in Nat
  BY ProgramsAssumption, FS_CardinalityType
<1> DEFINE n == Cardinality(DOMAIN prog)
<1> HIDE DEF n
<1>2. VisitsPerWord * n \in Nat
  BY <1>1, BudgetAssumption DEF n
<1> QED
  BY <1>2 DEF ScanBounds, n

LEMMA TypeInit == Init => TInv
<1> SUFFICES ASSUME Init PROVE TInv
  OBVIOUS
<1>1. prog \in Programs /\ ScanBounds(prog) \in Nat
  BY BoundsType DEF Init
<1>2. incoming \in [DOMAIN prog -> State]
  BY ZeroGood DEF Init, Good
<1>3. work \in Seq(Nat) /\ Queue(work, queued)
  <2>1. work = <<0>> /\ queued = {0}
    BY DEF Init
  <2>2. IsFiniteSet({0}) /\ Cardinality({0}) = 1
    BY FS_Singleton
  <2>3. /\ <<0>> \in Seq(Nat) /\ Len(<<0>>) = 1 /\ DOMAIN <<0>> = 1 .. 1 /\ <<0>>[1] = 0
    OBVIOUS
  <2>4. \A i \in DOMAIN <<0>> : i = 1 /\ <<0>>[i] = 0
    BY <2>3
  <2> QED
    BY <2>1, <2>2, <2>3, <2>4 DEF Queue
<1>4. /\ reached = {0} /\ visits = 0 /\ hits = {} /\ prefix.steps = 0 /\ found = {} /\ claims = {}
  BY DEF Init
<1> QED
  BY <1>1, <1>2, <1>3, <1>4 DEF TInv

LEMMA TypeVisit == IInv /\ TInv /\ Visit => TInv'
<1> SUFFICES ASSUME IInv, TInv, Visit PROVE TInv'
  OBVIOUS
<1> DEFINE pc == Head(work)
           popped == [reached |-> reached, incoming |-> incoming,
                      work |-> Tail(work), queued |-> queued \ {pc}]
           c == FlowAll(popped, Outgoing(prog, pc, incoming[pc]))
<1>1. /\ prog \in Programs /\ phase' = "scan" /\ prog' = prog /\ work # << >>
      /\ visits' = visits + 1 /\ visits < ScanBounds(prog)
      /\ work' = c.work /\ queued' = c.queued
      /\ hits' = hits /\ prefix' = prefix /\ found' = found /\ claims' = claims
  BY DEF IInv, Visit, prefixVars
<1>2. work' \in Seq(Nat) /\ Queue(work', queued')
  <2>1. popped.work = Tail(work) /\ popped.queued = queued \ {Head(work)}
    OBVIOUS
  <2>2. Tail(work) \in Seq(Nat) /\ Queue(Tail(work), queued \ {Head(work)})
    BY <1>1, QueueTail DEF TInv
  <2> HIDE DEF popped, pc
  <2>3. c.work \in Seq(Nat) /\ Queue(c.work, c.queued)
    BY <1>1, <2>1, <2>2, QueueFlowAll
  <2> QED
    BY <1>1, <2>3
<1> HIDE DEF c
<1>3. reached' \subseteq DOMAIN prog /\ incoming' \in [DOMAIN prog -> State]
  <2>1. IInv'
    BY VisitInv
  <2>2. BoardOK(Board)'
    BY <1>1, <2>1 DEF IInv, ScanInv
  <2>3. Board' \in [reached : SUBSET Entry, incoming : [DOMAIN prog -> Good],
                    work : Seq(Entry), queued : SUBSET Entry]
    BY <1>1, <2>2 DEF BoardOK, BoardType, Entry
  <2>4. Board'.reached = reached' /\ Board'.incoming = incoming'
    BY DEF Board
  <2>5. reached' \subseteq Entry /\ incoming' \in [DOMAIN prog -> Good]
    BY <2>3, <2>4
  <2> QED
    BY <2>5 DEF Good, Entry
<1>4. visits' \in 0 .. ScanBounds(prog)
  BY <1>1, BoundsType DEF TInv
<1> QED
  BY <1>1, <1>2, <1>3, <1>4 DEF TInv

LEMMA TypeEmit == IInv /\ TInv /\ Emit => TInv'
<1> SUFFICES ASSUME IInv, TInv, Emit PROVE TInv'
  OBVIOUS
<1>1. /\ prog \in Programs /\ Accepted(prog) /\ BoardOK(Board)
      /\ hits' = UNION {HitsAt(prog, pc, incoming[pc]) : pc \in reached}
      /\ UNCHANGED <<prog, reached, incoming, work, queued, visits, prefix, found, claims>>
  BY DEF IInv, ScanInv, Emit, prefixVars
<1>2. \A pc \in reached : HitsAt(prog, pc, incoming[pc]) \subseteq Hit
  BY <1>1, HitsType, BoardFields
<1>3. \A h \in hits' : h \in Hit
  BY <1>1, <1>2
<1> QED
  BY <1>1, <1>3 DEF TInv

LEMMA StepsOf ==
    ASSUME NEW H, NEW n
    PROVE  \A h \in AllAtStep(H, n) : h.step = n
BY DEF AllAtStep, AtStep

LEMMA TypePrefix == IInv /\ TInv /\ Prefix => TInv'
<1> SUFFICES ASSUME IInv, TInv, Prefix PROVE TInv'
  OBVIOUS
<1>1. /\ UNCHANGED <<prog, reached, incoming, work, queued, visits, hits>>
      /\ prefix.steps \in Nat /\ MaxPrefixSteps \in Nat
      /\ \A h \in found \cup claims : h.step \in 1 .. MaxPrefixSteps
  BY BudgetAssumption DEF Prefix, scanVars, TInv
<1> SUFFICES prefix'.steps \in Nat /\ \A h \in found' \cup claims' : h.step \in 1 .. MaxPrefixSteps
  BY <1>1 DEF TInv
<1>2. ASSUME NEW result, PrefixEnds(result), \A h \in result : h.step \in 1 .. MaxPrefixSteps
      PROVE  prefix'.steps \in Nat /\ \A h \in found' \cup claims' : h.step \in 1 .. MaxPrefixSteps
  BY <1>1, <1>2 DEF PrefixEnds
<1>3. ASSUME NEW q, NEW n \in Nat, NEW s, NEW result, PrefixGoesOn(q, n, s, result),
             \A h \in result : h.step \in 1 .. MaxPrefixSteps
      PROVE  prefix'.steps \in Nat /\ \A h \in found' \cup claims' : h.step \in 1 .. MaxPrefixSteps
  BY <1>1, <1>3 DEF PrefixGoesOn
<1>4. CASE PrefixEnds({}) \/ PrefixEnds(found)
  BY <1>1, <1>2, <1>4
<1>5. CASE ~ PrefixExhausted /\ PrefixPlain
  <2> DEFINE n == prefix.steps + 1
             seen == found \cup AllAtStep(AccessHit(prefix.state, prog[prefix.pc], prefix.pc), n)
  <2>1. n \in Nat /\ n \in 1 .. MaxPrefixSteps
    BY <1>1, <1>5 DEF PrefixExhausted
  <2>2. \/ PrefixEnds(found)
        \/ PrefixGoesOn(prefix.pc + 1, n,
                        Transfer(prefix.state, prog[prefix.pc], prefix.pc), seen)
    BY <1>5 DEF PrefixPlain
  <2> HIDE DEF n
  <2>3. \A h \in seen : h.step \in 1 .. MaxPrefixSteps
    BY <1>1, <2>1, StepsOf
  <2> QED
    BY <1>3, <1>4, <2>1, <2>2, <2>3
<1>6. CASE PrefixAnnuls(prog[prefix.pc])
  <2>1. PrefixGoesOn(prefix.pc + 2, prefix.steps + 1, prefix.state, found)
    BY <1>6 DEF PrefixAnnuls
  <2>2. prefix.steps + 1 \in Nat
    BY <1>1
  <2> QED
    BY <1>1, <1>3, <2>1, <2>2
<1>7. CASE PrefixControl(prog[prefix.pc])
  <2> DEFINE pc == prefix.pc
             w == prog[prefix.pc]
             d == prog[pc + 1]
             n == prefix.steps + 2
             taken == BranchTaken(w, prefix.state) = {TRUE}
             prior == Prior(prefix.state, w)
             after == Transfer(prior, d, pc + 1)
             seen == found \cup AllAtStep(AccessHit(prior, d, pc + 1), n)
             called == seen \cup AllAtStep(MemoryCall(after, w, pc), n)
  <2>1. \/ PrefixEnds({}) \/ PrefixEnds(found)
        \/ n <= MaxPrefixSteps /\ PrefixEnds(called)
        \/ n <= MaxPrefixSteps /\ PrefixEnds(seen)
        \/ n <= MaxPrefixSteps /\ PrefixGoesOn(IF taken THEN w.target ELSE pc + 2, n, after, seen)
    <3>1. CASE n > MaxPrefixSteps
      BY <1>7, <3>1 DEF PrefixControl
    <3>2. CASE ~ (n > MaxPrefixSteps)
      <4>1. n <= MaxPrefixSteps
        BY <1>1, <3>2
      <4> QED
        BY <1>7, <3>2, <4>1, Zenon DEF PrefixControl
    <3> QED
      BY <3>1, <3>2
  <2>2. n \in Nat /\ n >= 1
    BY <1>1
  <2> HIDE DEF n, w, d, prior, after, taken
  <2>3. CASE n <= MaxPrefixSteps
    <3>1. \A h \in seen : h.step \in 1 .. MaxPrefixSteps
      BY <1>1, <2>2, <2>3, StepsOf
    <3>2. \A h \in called : h.step \in 1 .. MaxPrefixSteps
      BY <1>1, <2>2, <2>3, <3>1, StepsOf
    <3> HIDE DEF seen, called
    <3> QED
      BY <1>2, <1>3, <1>4, <2>1, <2>2, <3>1, <3>2
  <2> QED
    BY <1>4, <2>1, <2>3
<1> QED
  BY <1>4, <1>5, <1>6, <1>7 DEF Prefix

LEMMA TypeStep == IInv /\ TInv /\ [Next]_vars => TInv'
<1> SUFFICES ASSUME IInv, TInv, [Next]_vars PROVE TInv'
  OBVIOUS
<1>1. CASE UNCHANGED <<prog, scanVars, prefix, found, claims>>
  BY <1>1 DEF scanVars, TInv
<1>2. CASE GiveUp \/ Start \/ CpuPlain \/ CpuAnnul \/ CpuControl
  BY <1>1, <1>2 DEF GiveUp, Start, CpuPlain, CpuAnnul, CpuControl, prefixVars
<1>3. CASE UNCHANGED vars
  BY <1>1, <1>3 DEF vars, prefixVars
<1> QED
  BY <1>2, <1>3, TypeVisit, TypeEmit, TypePrefix DEF Next

LEMMA TypeInvariant == Spec => []TInv
<1>1. IInv /\ TInv /\ IInv' /\ [Next]_vars => TInv'
  BY TypeStep
<1> QED
  BY <1>1, TypeInit, Invariant, PTL DEF Spec

\* The variables have their types; a word waits at most once; the scan visits
\* no more words than its budget, and a claim of the prefix is about one of the
\* steps of its own.
THEOREM TypesAreOK == Spec => []TypeOK
<1>1. IInv /\ TInv => TypeOK
  <2> SUFFICES ASSUME IInv, TInv PROVE TypeOK
    OBVIOUS
  <2>1. \A pc \in DOMAIN prog : prog[pc] \in Word
    BY ProgramsAssumption DEF IInv
  <2>2. phase \in {"scan", "prefix", "run", "running"}
    BY DEF IInv, Phases
  <2>3. incoming \in [DOMAIN prog -> [Reg -> Fact \cup {Absent}]]
    BY DEF TInv, State
  <2>4. queued = {work[i] : i \in DOMAIN work} /\ Cardinality(queued) = Len(work)
    BY DEF TInv, Queue
  <2> QED
    BY <2>1, <2>2, <2>3, <2>4 DEF TInv, TypeOK
<1> QED
  BY <1>1, Invariant, TypeInvariant, PTL
=============================================================================
