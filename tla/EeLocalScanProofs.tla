------------------------- MODULE EeLocalScanProofs -------------------------
(***************************************************************************)
(* The claims of the block-local scan, for every body without indirect     *)
(* jumps, every file of registers and every input:                         *)
(* Spec => []LocalHitsSound; and the flow analysis makes all of them that  *)
(* are about words it reaches, but for those that rest on what was known   *)
(* before an odd word of opcode 0: Spec => []FlowCoversLocal.              *)
(*                                                                         *)
(* A word that is not a boundary is entered from the word before it only,  *)
(* so the registers agree with the facts before every word the processor   *)
(* is at (LocalAgrees), and these facts, with their traces, are among      *)
(* those the worklist has for a reached word (Covers).  At an odd word     *)
(* the local scan goes on as the processor does (LocalAfterSound), and is  *)
(* ahead of the worklist until the next boundary (NoOddBefore).            *)
(***************************************************************************)
EXTENDS EeLocalScan, EeDataflowProofs, NaturalsInduction, WellFoundedInduction

F(pc) == LocalFacts(prog)[pc]

LocalAgrees ==
    phase = "running" /\ NoIndirect(prog) /\ cpu.pc \in DOMAIN prog =>
        Agrees(cpu.regs, F(cpu.pc))

LocalInv == LocalAgrees /\ LocalHitsSound

-----------------------------------------------------------------------------
(* The facts before a word                                                 *)

LEMMA Least ==
    ASSUME NEW T, T \subseteq Nat, T # {}
    PROVE  \E x \in T : \A y \in T : x <= y
<1>1. PICK x \in T : \A y \in T : ~ (<<y, x>> \in OpToRel(<, Nat))
  BY NatLessThanWellFounded, WFMin
<1>2. ASSUME NEW y \in T PROVE x <= y
  <2>1. ~(y < x)
    BY <1>1 DEF OpToRel
  <2> QED
    BY <2>1
<1> QED
  BY <1>2

\* The first k + 1 facts of a body.
Facts(p, k, f) ==
    f = [pc \in 0 .. k |-> IF pc \in Boundaries(p) THEN ZERO
                           ELSE LocalAfter(f[pc - 1], p[pc - 1], pc - 1)]

LEMMA FactsExist ==
    ASSUME NEW p, NEW k \in Nat
    PROVE  \E f : Facts(p, k, f)
<1> DEFINE T == {j \in Nat : ~ \E f : Facts(p, j, f)}
           after(s, pc) == IF pc \in Boundaries(p) THEN ZERO ELSE LocalAfter(s, p[pc - 1], pc - 1)
<1> SUFFICES ASSUME T # {} PROVE FALSE
  OBVIOUS
<1>1. PICK j \in T : \A i \in T : j <= i
  BY Least
<1>2. CASE j = 0
  <2> DEFINE f == [pc \in 0 .. 0 |-> ZERO]
  <2>1. 0 \in Boundaries(p)
    BY DEF Boundaries
  <2>2. Facts(p, 0, f)
    BY <2>1 DEF Facts
  <2> QED
    BY <1>1, <1>2, <2>2
<1>3. CASE j # 0
  <2>1. j \in Nat /\ j - 1 \in Nat /\ j - 1 \notin T
    BY <1>1, <1>3
  <2>2. PICK f : Facts(p, j - 1, f)
    BY <2>1
  <2> DEFINE g == [pc \in 0 .. j |-> IF pc = j THEN after(f[j - 1], j) ELSE f[pc]]
  <2>3. f = [pc \in 0 .. j - 1 |-> after(f[pc - 1], pc)]
    BY <2>2 DEF Facts
  <2>4. ASSUME NEW pc \in 0 .. j PROVE g[pc] = after(g[pc - 1], pc)
    <3>1. CASE pc = j
      BY <1>3, <2>1, <3>1
    <3>2. CASE pc # j
      <4>1. pc \in 0 .. j - 1 /\ g[pc] = f[pc]
        BY <2>1, <3>2
      <4>2. CASE pc = 0
        <5>1. 0 \in Boundaries(p)
          BY DEF Boundaries
        <5>2. f[pc] = after(f[pc - 1], pc)
          <6> HIDE DEF after
          <6> QED
            BY <2>3, <4>1
        <5> QED
          BY <4>1, <4>2, <5>1, <5>2
      <4>3. CASE pc # 0
        <5>1. pc - 1 \in 0 .. j /\ pc - 1 # j
          BY <2>1, <4>1, <4>3
        <5>2. g[pc - 1] = f[pc - 1]
          BY <5>1
        <5> HIDE DEF g, after
        <5> QED
          BY <2>3, <4>1, <5>2
      <4> QED
        BY <4>2, <4>3
    <3> QED
      BY <3>1, <3>2
  <2>5. g = [pc \in 0 .. j |-> g[pc]]
    OBVIOUS
  <2>6. g = [pc \in 0 .. j |-> after(g[pc - 1], pc)]
    <3> HIDE DEF g, after
    <3> QED
      BY <2>4, <2>5
  <2>7. Facts(p, j, g)
    <3> HIDE DEF g
    <3> QED
      BY <2>6 DEF Facts
  <2> QED
    BY <1>1, <2>7
<1> QED
  BY <1>2, <1>3

\* The recursive definition, one step of it.
LEMMA FactsBefore ==
    ASSUME prog \in Programs, NEW pc \in DOMAIN prog
    PROVE  F(pc) = IF pc \in Boundaries(prog) THEN ZERO
                   ELSE LocalAfter(F(pc - 1), prog[pc - 1], pc - 1)
<1> DEFINE k == Cardinality(DOMAIN prog) - 1
           facts == LocalFacts(prog)
<1>1. k \in Nat /\ DOMAIN prog = 0 .. k
  <2>1. DOMAIN prog = 0 .. k /\ Cardinality(DOMAIN prog) \in Nat
    BY ProgramsAssumption, FS_CardinalityType
  <2> QED
    BY <2>1
<1>2. facts = CHOOSE f : Facts(prog, k, f)
  <2> HIDE DEF k
  <2> QED
    BY <1>1 DEF LocalFacts, Facts
<1>3. Facts(prog, k, facts)
  <2> HIDE DEF k, facts
  <2> QED
    BY <1>1, <1>2, FactsExist
<1> HIDE DEF facts
<1>4. facts[pc] = IF pc \in Boundaries(prog) THEN ZERO
                  ELSE LocalAfter(facts[pc - 1], prog[pc - 1], pc - 1)
  BY <1>1, <1>3 DEF Facts
<1> QED
  BY <1>4 DEF facts, F

\* The first word, and the words before a word that is no boundary.
LEMMA Within ==
    ASSUME prog \in Programs, NEW pc \in DOMAIN prog
    PROVE  /\ pc = 0 => pc \in Boundaries(prog)
           /\ pc # 0 => pc - 1 \in DOMAIN prog
           /\ pc \notin Boundaries(prog) => pc # 0 /\ pc - 2 \notin Controls(prog)
<1>1. pc \in Nat /\ (pc # 0 => pc - 1 \in DOMAIN prog)
  BY ProgramsAssumption, FS_CardinalityType
<1>2. pc - 2 \in Controls(prog) => pc \in Boundaries(prog)
  <2>1. (pc - 2) + 2 = pc
    BY <1>1
  <2> QED
    BY <2>1 DEF Boundaries
<1> QED
  BY <1>1, <1>2 DEF Boundaries

-----------------------------------------------------------------------------
(* A word of the local scan knows less than one of the flow analysis       *)

LEMMA LocalDerivedIs ==
    ASSUME NEW s, NEW w, ~Odd(w), NEW pc
    PROVE  LocalDerived(s, w, pc) \in {Derived(s, w, pc), Absent}
BY PlainEncoding DEF LocalDerived

LEMMA DerivedType ==
    ASSUME NEW s \in Good, NEW w \in BodyWord, NEW pc \in Nat,
           w.kind \in {"alui", "alu", "mov", "load", "write"}
    PROVE  Derived(s, w, pc) \in Fact \cup {Absent}
<1> DEFINE regs == [r \in Reg |-> IF r # 0 /\ Known(s, r) THEN s[r].val ELSE 0]
<1>1. RegsOK(regs) /\ Agrees(regs, s)
  <2>1. ASSUME NEW r \in Reg PROVE regs[r] \in Int
    BY FactFields DEF Good, State
  <2>2. regs \in [Reg -> Int] /\ regs[0] = 0
    BY <2>1, RegAssumption
  <2> QED
    BY <2>2 DEF RegsOK, Agrees
<1> HIDE DEF regs
<1>2. CASE w.kind \in {"alui", "alu", "mov"}
  <2>1. Written(regs, w) # {}
    BY <1>2 DEF Written
  <2> QED
    BY <1>1, <2>1, DerivedSound
<1>3. CASE w.kind \in {"load", "write"}
  BY <1>3 DEF Derived
<1> QED
  BY <1>2, <1>3

LEMMA LocalAfterBelow ==
    ASSUME NEW s \in Good, NEW w \in BodyWord, w.kind \in Plain, ~Odd(w), NEW pc \in Nat
    PROVE  /\ LocalAfter(s, w, pc) \in Good
           /\ Below(LocalAfter(s, w, pc), Transfer(s, w, pc))
<1>1. w.kind \notin Control /\ w.rd \in Reg
  BY DEF Plain, Control, BodyWord, Word
<1>2. CASE Forgets(w)
  <2>1. LocalAfter(s, w, pc) = ZERO
    BY <1>1, <1>2 DEF LocalAfter
  <2> QED
    BY <2>1, ZeroGood DEF Below, ZERO, Known
<1>3. CASE w.kind \in {"store", "none"} /\ ~Forgets(w)
  <2>1. LocalAfter(s, w, pc) = Assign(s, 0, ZeroFact) /\ Transfer(s, w, pc) = Assign(s, 0, ZeroFact)
    BY <1>1, <1>3 DEF LocalAfter, Transfer
  <2> QED
    BY <2>1, AssignGood, ZeroGood, RegAssumption, BelowRefl
<1>4. CASE w.kind \notin {"store", "none"} /\ ~Forgets(w)
  <2> DEFINE L == LocalDerived(s, w, pc)
             D == Derived(s, w, pc)
  <2>1. LocalAfter(s, w, pc) = Assign(s, w.rd, L)
    BY <1>1, <1>4 DEF LocalAfter
  <2>2. w.kind # "barrier"
    BY <1>4 DEF Forgets
  <2>3. Transfer(s, w, pc) = Assign(s, w.rd, D)
    BY <1>4, <2>2 DEF Transfer
  <2>4. L \in {D, Absent}
    BY LocalDerivedIs
  <2>5. L \in Fact \cup {Absent}
    <3>1. w.kind \in {"alui", "alu", "mov", "load", "write"}
      BY <1>4, <2>2 DEF Plain
    <3>2. D \in Fact \cup {Absent}
      BY <3>1, DerivedType
    <3> QED
      BY <2>4, <3>2
  <2>6. Below(Assign(s, w.rd, L), Assign(s, w.rd, D))
    <3> HIDE DEF L, D
    <3> QED
      BY <2>4 DEF Below, Assign, Known
  <2> QED
    BY <1>1, <2>1, <2>3, <2>5, <2>6, AssignGood
<1> QED
  BY <1>2, <1>3, <1>4

\* The odd words, at which the flow analysis would forget everything.
LEMMA LocalTrap ==
    ASSUME NEW s, NEW w \in BodyWord, Odd(w), w.fn = "trap", NEW pc
    PROVE  LocalAfter(s, w, pc) = Assign(s, w.rd, Absent)
<1>1. w.kind = "barrier" /\ ~Forgets(w) /\ Understood(w) = w
  BY DEF Odd, Forgets, Understood
<1>2. LocalDerived(s, w, pc) = Absent
  BY <1>1 DEF LocalDerived, Followed
<1> QED
  BY <1>1, <1>2 DEF LocalAfter, Control

LEMMA LocalAddition ==
    ASSUME NEW s, NEW w \in BodyWord, Odd(w), w.fn # "trap", NEW pc
    PROVE  LocalAfter(s, w, pc) = LocalAfter(s, Understood(w), pc)
<1> DEFINE u == Understood(w)
<1>1. /\ u.kind \in {"alui", "alu"} /\ u.fn = "add" /\ u.rd = w.rd
      /\ ~Odd(u) /\ w.kind = "barrier"
  BY OddAddition DEF Odd
<1> HIDE DEF u
<1>2. ~Forgets(w) /\ ~Forgets(u) /\ Understood(u) = u
  BY <1>1, PlainEncoding DEF Forgets, Odd
<1>3. LocalDerived(s, w, pc) = LocalDerived(s, u, pc)
  BY <1>2 DEF LocalDerived, u
<1>4. /\ LocalAfter(s, w, pc) = Assign(s, w.rd, LocalDerived(s, w, pc))
      /\ LocalAfter(s, u, pc) = Assign(s, u.rd, LocalDerived(s, u, pc))
  BY <1>1, <1>2 DEF LocalAfter, Control
<1> QED
  BY <1>1, <1>3, <1>4 DEF u

LEMMA LocalPriorBelow ==
    ASSUME NEW s \in Good, NEW w \in BodyWord
    PROVE  LocalPrior(s, w) \in Good /\ Below(LocalPrior(s, w), Prior(s, w))
<1>1. Prior(s, w) \in Good
  BY PriorGood
<1>2. CASE w.fn \notin {"bltz", "bgez"}
  BY <1>1, <1>2, BelowRefl DEF LocalPrior
<1>3. CASE w.fn \in {"bltz", "bgez"}
  <2> DEFINE u == Prior(s, w)
             v == [u EXCEPT ![LastLink] = Absent]
  <2>1. LocalPrior(s, w) = v
    BY <1>3 DEF LocalPrior
  <2>2. u \in [Reg -> Fact \cup {Absent}] /\ u[0] \in {ZeroFact, Absent}
    BY <1>1 DEF Good, State
  <2> HIDE DEF u
  <2>3. v \in Good
    BY <2>2, RegAssumption DEF Good, State
  <2>4. Below(v, u)
    BY <2>2 DEF Below, Known
  <2> QED
    BY <2>1, <2>3, <2>4 DEF u
<1> QED
  BY <1>2, <1>3

LEMMA LocalAfterGood ==
    ASSUME NEW s \in Good, NEW w \in BodyWord, NEW pc \in Nat
    PROVE  LocalAfter(s, w, pc) \in Good
<1>1. CASE w.kind \in Control
  BY <1>1, LocalPriorBelow DEF LocalAfter, Control, Plain
<1>2. CASE w.kind \in Plain /\ ~Odd(w)
  BY <1>2, LocalAfterBelow
<1>3. CASE Odd(w) /\ w.fn = "trap"
  BY <1>3, LocalTrap, AssignGood DEF BodyWord, Word
<1>4. CASE Odd(w) /\ w.fn # "trap"
  <2>1. Understood(w) \in BodyWord /\ Understood(w).kind \in Plain /\ ~Odd(Understood(w))
    BY <1>4, OddAddition DEF Plain
  <2> QED
    BY <1>4, <2>1, LocalAddition, LocalAfterBelow
<1> QED
  BY <1>1, <1>2, <1>3, <1>4 DEF BodyWord, Word

\* The facts before every word are facts.
LEMMA FactsGood ==
    ASSUME prog \in Programs, NEW pc \in DOMAIN prog
    PROVE  F(pc) \in Good
<1> DEFINE T == {q \in DOMAIN prog : F(q) \notin Good}
<1> SUFFICES ASSUME T # {} PROVE FALSE
  OBVIOUS
<1>1. DOMAIN prog \subseteq Nat
  BY ProgramFacts
<1>2. PICK q \in T : \A r \in T : q <= r
  BY <1>1, Least
<1>3. q \in DOMAIN prog /\ q \in Nat /\ F(q) \notin Good
  BY <1>1, <1>2
<1>4. CASE q \in Boundaries(prog)
  BY <1>3, <1>4, FactsBefore, ZeroGood
<1>5. CASE q \notin Boundaries(prog)
  <2>1. q # 0 /\ q - 1 \in DOMAIN prog /\ q - 1 \in Nat
    BY <1>1, <1>3, <1>5, Within
  <2>2. F(q - 1) \in Good
    BY <1>2, <1>3, <2>1
  <2>3. prog[q - 1] \in BodyWord
    BY <2>1, ProgramFacts
  <2>4. F(q) = LocalAfter(F(q - 1), prog[q - 1], q - 1)
    BY <1>3, <1>5, FactsBefore
  <2> QED
    BY <1>3, <2>1, <2>2, <2>3, <2>4, LocalAfterGood
<1> QED
  BY <1>4, <1>5

LEMMA LocalAfterSound ==
    ASSUME NEW regs, RegsOK(regs), NEW s \in Good, Agrees(regs, s),
           NEW w \in BodyWord, w.kind \in Plain, NEW pc \in Nat,
           NEW next \in Execute(regs, w)
    PROVE  Agrees(next, LocalAfter(s, w, pc))
<1>1. CASE ~Odd(w)
  BY <1>1, TransferSound, LocalAfterBelow, BelowAgrees
<1>2. CASE Odd(w) /\ w.fn = "trap"
  BY <1>2, LocalTrap, TrapSound
<1>3. CASE Odd(w) /\ w.fn # "trap"
  <2> DEFINE u == Understood(w)
  <2>1. u \in BodyWord /\ u.kind \in Plain /\ ~Odd(u) /\ next \in Execute(regs, u)
    BY <1>3, OddAddition DEF Plain
  <2> HIDE DEF u
  <2>2. Agrees(next, LocalAfter(s, u, pc))
    BY <2>1, TransferSound, LocalAfterBelow, BelowAgrees
  <2> QED
    BY <1>3, <2>2, LocalAddition DEF u
<1> QED
  BY <1>1, <1>2, <1>3

\* The registers in which a delay word executes agree with its facts.
LEMMA DelayAgrees ==
    ASSUME prog \in Programs, NEW pc \in DOMAIN prog, prog[pc].kind \in Control,
           pc + 1 \in DOMAIN prog,
           NEW regs, RegsOK(regs), Agrees(regs, F(pc)), NEW linked \in Linked(regs, prog[pc])
    PROVE  Agrees(linked, F(pc + 1))
<1>1. CASE pc + 1 \in Boundaries(prog)
  BY <1>1, FactsBefore, AgreesZero
<1>2. CASE pc + 1 \notin Boundaries(prog)
  <2>1. (pc + 1) - 1 = pc /\ prog[pc] \in BodyWord
    BY ProgramFacts
  <2>2. F(pc + 1) = LocalAfter(F(pc), prog[pc], pc)
    BY <1>2, <2>1, FactsBefore
  <2>3. F(pc + 1) = LocalPrior(F(pc), prog[pc])
    BY <2>2 DEF LocalAfter, Control, Plain
  <2> QED
    BY <2>1, <2>3, FactsGood, PriorSound, LocalPriorBelow, BelowAgrees
<1> QED
  BY <1>1, <1>2

-----------------------------------------------------------------------------
(* Claims                                                                  *)

\* Which claims there are.
LEMMA LocalHitsOf ==
    ASSUME prog \in Programs, NEW h \in LocalHits(prog)
    PROVE  \/ /\ h.pc \in DOMAIN prog /\ h.callee = FALSE
              /\ h \in AccessHit(F(h.pc), prog[h.pc], h.pc)
           \/ \E q \in DOMAIN prog :
              /\ prog[q].kind = "call" /\ q + 1 \in DOMAIN prog /\ prog[q + 1].kind \in Plain
              /\ h.pc = q + 1 /\ h.callee = TRUE
              /\ h \in MemoryCall(LocalAfter(F(q + 1), prog[q + 1], q + 1), prog[q], q)
<1>1. PICK q \in DOMAIN prog : h \in LocalHitsAt(prog, LocalFacts(prog), q)
  BY DEF LocalHits
<1>2. CASE h \in AccessHit(F(q), prog[q], q)
  <2>1. h.pc = q /\ h.callee = FALSE
    BY <1>2 DEF AccessHit
  <2> QED
    BY <1>2, <2>1
<1>3. CASE /\ prog[q].kind = "call" /\ q + 1 \in DOMAIN prog /\ prog[q + 1].kind \in Plain
           /\ h \in LocalCall(LocalAfter(F(q + 1), prog[q + 1], q + 1), prog[q], q)
  <2>1. h \in MemoryCall(LocalAfter(F(q + 1), prog[q + 1], q + 1), prog[q], q)
    BY <1>3 DEF LocalCall
  <2>2. h.pc = q + 1
    BY <2>1, MemoryCallFields
  <2>3. h.callee = TRUE
    BY <2>1, MemoryCallMark
  <2> QED
    BY <1>3, <2>1, <2>2, <2>3
<1>4. \/ h \in AccessHit(F(q), prog[q], q)
      \/ /\ prog[q].kind = "call" /\ q + 1 \in DOMAIN prog /\ prog[q + 1].kind \in Plain
         /\ h \in LocalCall(LocalAfter(F(q + 1), prog[q + 1], q + 1), prog[q], q)
  BY <1>1 DEF LocalHitsAt, F
<1> QED
  BY <1>2, <1>3, <1>4

-----------------------------------------------------------------------------
(* The steps                                                               *)

\* What a step of the processor starts from.
LEMMA LocalRun ==
    ASSUME IInv, LocalInv, Running
    PROVE  /\ prog \in Programs /\ phase = "running" /\ cpu.pc \in DOMAIN prog
           /\ prog[cpu.pc] \in BodyWord /\ cpu.pc \in Nat /\ RegsOK(cpu.regs)
           /\ F(cpu.pc) \in Good
           /\ NoIndirect(prog) => Agrees(cpu.regs, F(cpu.pc))
BY RunFacts, FactsGood DEF LocalInv, LocalAgrees

\* After a control word the processor is at a boundary, or outside the body.
LEMMA AtBoundary ==
    ASSUME prog \in Programs, NoIndirect(prog),
           NEW pc \in DOMAIN prog, prog[pc].kind \in Control,
           NEW taken, NEW after, NEW next \in NextPoints(prog[pc], pc, taken, after),
           next.pc \in DOMAIN prog
    PROVE  F(next.pc) = ZERO
<1> DEFINE w == prog[pc]
<1>1. w.kind # "indirect" /\ w \in BodyWord /\ pc \in Nat /\ DOMAIN prog \subseteq Nat
  BY ProgramFacts DEF NoIndirect
<1>2. \/ next.pc = pc + 2
      \/ next.pc = w.target /\ w.kind \in {"branch", "jump", "call"}
  <2>1. \/ next.pc = -1 \/ next.pc = pc + 2
        \/ next.pc = w.target /\ w.kind \in {"branch", "jump", "call"}
    BY <1>1 DEF NextPoints, At, Leave
  <2> QED
    BY <1>1, <2>1
<1>3. pc \in Controls(prog)
  BY DEF Controls
<1>4. next.pc \in Boundaries(prog)
  BY <1>2, <1>3 DEF Boundaries
<1> QED
  BY <1>4, FactsBefore

LEMMA LocalPlain == IInv /\ LocalInv /\ CpuPlain => LocalInv'
<1> SUFFICES ASSUME IInv, LocalInv, CpuPlain PROVE LocalInv'
  OBVIOUS
<1> DEFINE pc == cpu.pc
           w == prog[pc]
<1>1. /\ Running /\ w.kind \in Plain /\ access' = Access(cpu.regs, w, pc, cpu.steps + 1)
      /\ prog' = prog /\ phase' = phase
  BY DEF CpuPlain
<1>2. PICK next \in Execute(cpu.regs, w) :
        cpu' = [pc |-> pc + 1, steps |-> cpu.steps + 1, regs |-> next]
  BY DEF CpuPlain
<1>3. cpu'.pc = pc + 1 /\ cpu'.regs = next
  BY <1>2
<1>4. /\ prog \in Programs /\ w \in BodyWord /\ pc \in Nat /\ pc \in DOMAIN prog
      /\ RegsOK(cpu.regs) /\ F(pc) \in Good
      /\ NoIndirect(prog) => Agrees(cpu.regs, F(pc))
  BY <1>1, LocalRun
<1>5. ASSUME NoIndirect(prog), pc + 1 \in DOMAIN prog
      PROVE  Agrees(next, F(pc + 1))
  <2>1. CASE pc + 1 \in Boundaries(prog)
    BY <1>4, <1>5, <2>1, FactsBefore, AgreesZero
  <2>2. CASE pc + 1 \notin Boundaries(prog)
    <3>1. (pc + 1) - 1 = pc
      BY <1>4
    <3>2. F(pc + 1) = LocalAfter(F(pc), w, pc)
      BY <1>4, <1>5, <2>2, <3>1, FactsBefore
    <3> QED
      BY <1>1, <1>2, <1>4, <1>5, <3>2, LocalAfterSound
  <2> QED
    BY <2>1, <2>2
<1>6. LocalAgrees'
  BY <1>1, <1>3, <1>5 DEF LocalAgrees, F
<1>7. ASSUME NoIndirect(prog), NEW a \in access', NEW h \in LocalHits(prog),
             a.pc = h.pc, a.base = h.base, a.callee = h.callee
      PROVE  a.address = h.address /\ a.width = h.width
  <2>1. a \in Access(cpu.regs, w, pc, cpu.steps + 1) /\ a.pc = pc /\ a.callee = FALSE
    BY <1>1, <1>7 DEF Access
  <2>2. h.pc = pc /\ h.callee # TRUE
    BY <1>7, <2>1
  <2>3. h \in AccessHit(F(pc), w, pc)
    BY <1>4, <1>7, <2>2, LocalHitsOf
  <2> QED
    BY <1>4, <1>7, <2>1, <2>3, AccessSound
<1>8. LocalHitsSound'
  BY <1>1, <1>7 DEF LocalHitsSound
<1> QED
  BY <1>6, <1>8 DEF LocalInv

LEMMA LocalAnnul == IInv /\ LocalInv /\ CpuAnnul => LocalInv'
<1> SUFFICES ASSUME IInv, LocalInv, CpuAnnul PROVE LocalInv'
  OBVIOUS
<1> DEFINE pc == cpu.pc
<1>1. /\ Running /\ prog[pc].kind = "branch" /\ access' = {} /\ prog' = prog /\ phase' = phase
  BY DEF CpuAnnul
<1>2. PICK regs : cpu' = [pc |-> pc + 2, steps |-> cpu.steps + 1, regs |-> regs]
  BY DEF CpuAnnul
<1>3. cpu'.pc = pc + 2 /\ cpu'.regs = regs
  BY <1>2
<1>4. prog \in Programs /\ pc \in DOMAIN prog
  BY <1>1, LocalRun
<1>5. pc + 2 \in DOMAIN prog => F(pc + 2) = ZERO
  <2>1. pc + 2 \in Boundaries(prog)
    BY <1>1, <1>4 DEF Boundaries, Controls, Control
  <2> QED
    BY <1>4, <2>1, FactsBefore
<1>6. LocalAgrees'
  BY <1>1, <1>3, <1>5, AgreesZero DEF LocalAgrees, F
<1>7. LocalHitsSound'
  BY <1>1 DEF LocalHitsSound
<1> QED
  BY <1>6, <1>7 DEF LocalInv

LEMMA LocalControl == IInv /\ LocalInv /\ CpuControl => LocalInv'
<1> SUFFICES ASSUME IInv, LocalInv, CpuControl PROVE LocalInv'
  OBVIOUS
<1> DEFINE pc == cpu.pc
           w == prog[pc]
           d == prog[pc + 1]
           n == cpu.steps + 2
<1>1. /\ Running /\ w.kind \in Control
      /\ pc + 1 \in DOMAIN prog /\ d.kind \in Plain
      /\ prog' = prog /\ phase' = phase
  BY DEF CpuControl
<1>2. PICK taken \in Condition(cpu.regs, w), linked \in Linked(cpu.regs, w) :
        \E after \in Execute(linked, d) :
           /\ \E next \in NextPoints(w, pc, taken, after) :
                cpu' = [pc |-> next.pc, steps |-> n, regs |-> next.regs]
           /\ access' = Access(linked, d, pc + 1, n)
                 \cup (IF w.kind = "call" THEN CalleeAccess(after, w, pc, n) ELSE {})
  BY DEF CpuControl
<1>3. PICK after \in Execute(linked, d) :
        /\ \E next \in NextPoints(w, pc, taken, after) :
             cpu' = [pc |-> next.pc, steps |-> n, regs |-> next.regs]
        /\ access' = Access(linked, d, pc + 1, n)
              \cup (IF w.kind = "call" THEN CalleeAccess(after, w, pc, n) ELSE {})
  BY <1>2
<1>4. PICK next \in NextPoints(w, pc, taken, after) :
        cpu' = [pc |-> next.pc, steps |-> n, regs |-> next.regs]
  BY <1>3
<1>5. cpu'.pc = next.pc /\ cpu'.regs = next.regs
  BY <1>4
<1>6. /\ prog \in Programs /\ w \in BodyWord /\ pc \in Nat /\ pc \in DOMAIN prog
      /\ RegsOK(cpu.regs) /\ F(pc) \in Good
      /\ NoIndirect(prog) => Agrees(cpu.regs, F(pc))
  BY <1>1, LocalRun
<1>7. d \in BodyWord /\ pc + 1 \in Nat
  BY <1>1, <1>6, ProgramFacts
<1>8. RegsOK(linked) /\ RegsOK(after)
  BY <1>1, <1>2, <1>3, <1>6, <1>7, ZeroSound
<1>9. LocalAgrees'
  <2>1. ASSUME NoIndirect(prog), next.pc \in DOMAIN prog
        PROVE  Agrees(next.regs, F(next.pc))
    BY <1>1, <1>4, <1>6, <2>1, AtBoundary, AgreesZero
  <2> QED
    BY <1>1, <1>5, <2>1 DEF LocalAgrees, F
<1>10. ASSUME NoIndirect(prog), NEW a \in access', NEW h \in LocalHits(prog),
              a.pc = h.pc, a.base = h.base, a.callee = h.callee
       PROVE  a.address = h.address /\ a.width = h.width
  <2> DEFINE s == F(pc + 1)
             u == LocalAfter(s, d, pc + 1)
  <2>1. s \in Good /\ Agrees(linked, s)
    BY <1>1, <1>2, <1>6, <1>10, FactsGood, DelayAgrees
  <2>2. u \in Good /\ Agrees(after, u)
    BY <1>1, <1>3, <1>7, <1>8, <2>1, LocalAfterSound, LocalAfterGood
  <2>3. CASE a \in Access(linked, d, pc + 1, n)
    <3>1. a.pc = pc + 1 /\ a.callee = FALSE
      BY <2>3 DEF Access
    <3>2. h.pc = pc + 1 /\ h.callee # TRUE
      BY <1>10, <3>1
    <3>3. h \in AccessHit(s, d, pc + 1)
      BY <1>6, <1>10, <3>2, LocalHitsOf
    <3> QED
      BY <1>7, <1>8, <2>1, <2>3, <3>3, AccessSound
  <2>4. CASE w.kind = "call" /\ a \in CalleeAccess(after, w, pc, n)
    <3>1. a.pc = pc + 1 /\ a.callee = TRUE
      BY <2>4 DEF CalleeAccess
    <3>2. h.pc = pc + 1 /\ h.callee # FALSE
      BY <1>10, <3>1
    <3>3. PICK q \in DOMAIN prog :
            /\ h.pc = q + 1
            /\ h \in MemoryCall(LocalAfter(F(q + 1), prog[q + 1], q + 1), prog[q], q)
      BY <1>6, <1>10, <3>2, LocalHitsOf
    <3>4. q = pc
      <4>1. q \in Nat
        BY <1>6, ProgramFacts
      <4> QED
        BY <1>6, <3>2, <3>3, <4>1
    <3>5. h \in MemoryCall(u, w, pc)
      BY <3>3, <3>4
    <3> QED
      BY <1>8, <1>10, <2>2, <2>4, <3>5, CalleeSound
  <2> QED
    BY <1>3, <1>10, <2>3, <2>4
<1>11. LocalHitsSound'
  BY <1>1, <1>10 DEF LocalHitsSound
<1> QED
  BY <1>9, <1>11 DEF LocalInv

\* The scans come before the run.
LEMMA PhaseOfScans ==
    ASSUME Visit \/ GiveUp \/ Emit \/ Prefix
    PROVE  phase' # "running"
<1>1. CASE Visit \/ GiveUp \/ Emit
  BY <1>1 DEF Visit, GiveUp, Emit
<1>2. CASE Prefix
  BY <1>2 DEF Prefix, PrefixPlain, PrefixAnnuls, PrefixControl, PrefixEnds, PrefixGoesOn
<1> QED
  BY <1>1, <1>2

\* Before the function is called, and when it is.
LEMMA LocalQuiet ==
    IInv /\ LocalInv /\ (Visit \/ GiveUp \/ Emit \/ Prefix \/ Start) => LocalInv'
<1> SUFFICES ASSUME IInv, LocalInv, Visit \/ GiveUp \/ Emit \/ Prefix \/ Start
             PROVE  LocalInv'
  OBVIOUS
<1>1. access' = access /\ access = {} /\ prog' = prog /\ prog \in Programs
  BY DEF IInv, Visit, GiveUp, Emit, Prefix, Start
<1>2. LocalHitsSound'
  BY <1>1 DEF LocalHitsSound
<1>3. CASE Start
  <2>1. PICK regs \in AnyRegs : cpu' = [pc |-> 0, steps |-> 0, regs |-> regs]
    BY <1>3 DEF Start
  <2>2. cpu'.pc = 0 /\ cpu'.regs = regs
    BY <2>1
  <2>3. 0 \in DOMAIN prog => F(0) = ZERO
    BY <1>1, FactsBefore, Within
  <2> QED
    BY <1>1, <1>2, <2>2, <2>3, AgreesZero DEF LocalInv, LocalAgrees, F
<1>4. CASE Visit \/ GiveUp \/ Emit \/ Prefix
  <2>1. phase' # "running"
    BY <1>4, PhaseOfScans
  <2> QED
    BY <1>2, <2>1 DEF LocalInv, LocalAgrees
<1> QED
  BY <1>3, <1>4

LEMMA LocalInvariant == Spec => []LocalInv
<1>1. Init /\ IInv => LocalInv
  BY DEF Init, LocalInv, LocalAgrees, LocalHitsSound
<1>2. IInv /\ LocalInv /\ [Next]_vars => LocalInv'
  <2> SUFFICES ASSUME IInv, LocalInv, [Next]_vars PROVE LocalInv'
    OBVIOUS
  <2>1. CASE Visit \/ GiveUp \/ Emit \/ Prefix \/ Start
    BY <2>1, LocalQuiet
  <2>2. CASE CpuPlain
    BY <2>2, LocalPlain
  <2>3. CASE CpuAnnul
    BY <2>3, LocalAnnul
  <2>4. CASE CpuControl
    BY <2>4, LocalControl
  <2>5. CASE UNCHANGED vars
    <3>1. prog' = prog /\ phase' = phase /\ access' = access /\ cpu' = cpu
      BY <2>5 DEF vars
    <3> QED
      BY <3>1 DEF LocalInv, LocalAgrees, LocalHitsSound, F
  <2> QED
    BY <2>1, <2>2, <2>3, <2>4, <2>5 DEF Next
<1> QED
  BY <1>1, <1>2, Invariant, PTL DEF Spec

\* A claim of the block-local scan (unnamed_data.py:125) holds in every run of
\* a function without indirect jumps, however control comes to the word.
THEOREM LocalHitsAreSound == Spec => []LocalHitsSound
<1>1. LocalInv => LocalHitsSound
  BY DEF LocalInv
<1> QED
  BY <1>1, LocalInvariant, PTL

-----------------------------------------------------------------------------
(* The flow analysis knows what the local scan knows                       *)

\* u has the facts of s, with their traces.
Has(s, u) == \A r \in Reg : Known(s, r) => u[r] = s[r]

\* The traces of s are not too long for the flow analysis.
Brief(s) == \A r \in Reg : Known(s, r) => Cardinality(s[r].trace) <= MaxTrace

\* ... unless an odd word comes before, at which the flow analysis forgets.
Covered(pc, u) == (~OddSince(prog, pc) => Has(F(pc), u)) /\ u[0] = ZeroFact

Covers(b) == \A pc \in b.reached : Covered(pc, b.incoming[pc])

CoverInv == (phase = "scan" => Covers(Board)) /\ FlowCoversLocal

LEMMA HasZero ==
    ASSUME NEW u, u[0] = ZeroFact
    PROVE  Has(ZERO, u)
BY DEF Has, ZERO, Known

LEMMA ZeroBrief == Brief(ZERO)
<1>1. Cardinality({}) = 0
  BY FS_EmptySet
<1>2. 0 <= MaxTrace
  BY LocalTraceAssumption
<1> QED
  BY <1>1, <1>2 DEF Brief, ZERO, Known, ZeroFact

LEMMA LocalAfterBrief ==
    ASSUME NEW s \in Good, Brief(s), NEW w \in BodyWord, NEW pc
    PROVE  Brief(LocalAfter(s, w, pc))
<1>1. CASE w.kind \in Control
  <2>1. LocalAfter(s, w, pc) = LocalPrior(s, w)
    BY <1>1 DEF LocalAfter, Control, Plain
  <2>2. ASSUME NEW u \in Good, Brief(u), NEW q
        PROVE  Brief([u EXCEPT ![q] = Absent])
    BY <2>2 DEF Brief, Known, Good, State
  <2>3. Brief(Prior(s, w)) /\ Prior(s, w) \in Good
    BY <2>2, PriorGood DEF Prior
  <2> QED
    BY <2>1, <2>2, <2>3 DEF LocalPrior
<1>2. CASE w.kind \notin Control
  <2>1. ASSUME NEW fact, fact # Absent => Cardinality(fact.trace) <= MaxTrace, NEW r
        PROVE  Brief(Assign(s, r, fact))
    <3>1. Cardinality(ZeroFact.trace) <= MaxTrace
      BY FS_EmptySet, LocalTraceAssumption DEF ZeroFact
    <3> QED
      BY <2>1, <3>1 DEF Brief, Assign, Known
  <2>2. LocalDerived(s, w, pc) # Absent => Cardinality(LocalDerived(s, w, pc).trace) <= MaxTrace
    <3>1. ASSUME NEW v, NEW t, NewFact(v, t) # Absent
          PROVE  Cardinality(NewFact(v, t).trace) <= MaxTrace
      BY <3>1 DEF NewFact
    <3>2. ASSUME LocalDerived(s, w, pc) # Absent
          PROVE  \E v, t : LocalDerived(s, w, pc) = NewFact(v, t)
      BY <3>2 DEF LocalDerived, Derived, Followed
    <3> QED
      BY <3>1, <3>2
  <2>3. ZeroFact # Absent => Cardinality(ZeroFact.trace) <= MaxTrace
    BY FS_EmptySet, LocalTraceAssumption DEF ZeroFact
  <2> QED
    BY <1>2, <2>1, <2>2, <2>3, ZeroBrief DEF LocalAfter
<1> QED
  BY <1>1, <1>2

LEMMA FactsBrief ==
    ASSUME prog \in Programs, NEW pc \in DOMAIN prog
    PROVE  Brief(F(pc))
<1> DEFINE T == {q \in DOMAIN prog : ~Brief(F(q))}
<1> SUFFICES ASSUME T # {} PROVE FALSE
  OBVIOUS
<1>1. DOMAIN prog \subseteq Nat
  BY ProgramFacts
<1>2. PICK q \in T : \A r \in T : q <= r
  BY <1>1, Least
<1>3. q \in DOMAIN prog /\ q \in Nat /\ ~Brief(F(q))
  BY <1>1, <1>2
<1>4. CASE q \in Boundaries(prog)
  BY <1>3, <1>4, FactsBefore, ZeroBrief
<1>5. CASE q \notin Boundaries(prog)
  <2>1. q # 0 /\ q - 1 \in DOMAIN prog /\ q - 1 \in Nat
    BY <1>1, <1>3, <1>5, Within
  <2>2. Brief(F(q - 1))
    BY <1>2, <1>3, <2>1
  <2>3. prog[q - 1] \in BodyWord
    BY <2>1, ProgramFacts
  <2>4. F(q) = LocalAfter(F(q - 1), prog[q - 1], q - 1)
    BY <1>3, <1>5, FactsBefore
  <2> QED
    BY <1>3, <2>1, <2>2, <2>3, <2>4, FactsGood, LocalAfterBrief
<1> QED
  BY <1>4, <1>5

LEMMA MeetHas ==
    ASSUME NEW s \in Good, Brief(s), NEW l, NEW u, Has(s, l), Has(s, u)
    PROVE  Has(s, Meet(l, u)) /\ Meet(l, u)[0] = ZeroFact
<1>1. Meet(l, u)[0] = ZeroFact
  BY RegAssumption DEF Meet
<1>2. ASSUME NEW r \in Reg, Known(s, r) PROVE Meet(l, u)[r] = s[r]
  <2>1. CASE r = 0
    BY <1>1, <1>2, <2>1 DEF Good, Known
  <2>2. CASE r # 0
    <3> DEFINE f == s[r]
    <3>1. l[r] = f /\ u[r] = f /\ f # Absent
      BY <1>2 DEF Has, Known
    <3>2. f \in Fact /\ Cardinality(f.trace) <= MaxTrace
      BY <1>2 DEF Good, State, Known, Brief
    <3>3. f.val \in Addr /\ f.trace \cup f.trace = f.trace /\ f = [val |-> f.val, trace |-> f.trace]
      BY <3>2 DEF Fact
    <3>4. MeetFact(f, f) = f
      BY <3>1, <3>2, <3>3 DEF MeetFact, NewFact
    <3>5. Meet(l, u)[r] = MeetFact(l[r], u[r])
      BY <2>2 DEF Meet
    <3> QED
      BY <3>1, <3>4, <3>5
  <2> QED
    BY <2>1, <2>2
<1> QED
  BY <1>1, <1>2 DEF Has

LEMMA AssignHas ==
    ASSUME NEW s, NEW u, Has(s, u), NEW r \in Reg, NEW f, NEW g, f # Absent => g = f
    PROVE  Has(Assign(s, r, f), Assign(u, r, g)) /\ Assign(u, r, g)[0] = ZeroFact
BY RegAssumption DEF Has, Assign, Known

LEMMA TransferZero ==
    ASSUME NEW u, NEW w, NEW pc
    PROVE  Transfer(u, w, pc)[0] = ZeroFact
BY RegAssumption DEF Transfer, Assign, ZERO

\* Where no odd word is since the last boundary, the word before is not odd.
LEMMA NoOddBefore ==
    ASSUME prog \in Programs, NEW pc \in DOMAIN prog,
           pc + 1 \notin Boundaries(prog), ~OddSince(prog, pc + 1)
    PROVE  ~Odd(prog[pc]) /\ ~OddSince(prog, pc)
<1>1. DOMAIN prog \subseteq Nat
  BY ProgramFacts
<1>2. ASSUME NEW q \in DOMAIN prog, q < pc + 1, Odd(prog[q])
      PROVE  \E b \in q + 1 .. pc + 1 : b \in Boundaries(prog)
  BY <1>2 DEF OddSince
<1>3. ASSUME Odd(prog[pc]) PROVE FALSE
  BY <1>1, <1>2, <1>3
<1>4. ASSUME NEW q \in DOMAIN prog, q < pc, Odd(prog[q])
      PROVE  \E b \in q + 1 .. pc : b \in Boundaries(prog)
  <2>1. q \in Nat /\ pc \in Nat /\ q < pc + 1
    BY <1>1, <1>4
  <2>2. PICK b \in q + 1 .. pc + 1 : b \in Boundaries(prog)
    BY <1>2, <1>4, <2>1
  <2>3. b \in q + 1 .. pc
    BY <2>1, <2>2
  <2> QED
    BY <2>2, <2>3
<1> QED
  BY <1>3, <1>4 DEF OddSince

\* A word adds to the local facts nothing that it does not add to the others.
LEMMA TransferHas ==
    ASSUME NEW s, NEW u, Has(s, u), NEW w \in BodyWord, w.kind \in Plain, ~Odd(w), NEW pc
    PROVE  Has(LocalAfter(s, w, pc), Transfer(u, w, pc))
<1>1. w.kind \notin Control /\ w.rd \in Reg /\ w.rs \in Reg /\ w.rt \in Reg
  BY DEF Plain, Control, BodyWord, Word
<1>2. Transfer(u, w, pc)[0] = ZeroFact
  BY TransferZero
<1>3. CASE Forgets(w)
  <2>1. LocalAfter(s, w, pc) = ZERO
    BY <1>1, <1>3 DEF LocalAfter
  <2> QED
    BY <1>2, <2>1, HasZero
<1>4. CASE w.kind \in {"store", "none"} /\ ~Forgets(w)
  <2>1. LocalAfter(s, w, pc) = Assign(s, 0, ZeroFact) /\ Transfer(u, w, pc) = Assign(u, 0, ZeroFact)
    BY <1>1, <1>4 DEF LocalAfter, Transfer
  <2> QED
    BY <2>1, AssignHas, RegAssumption
<1>5. CASE w.kind \notin {"store", "none"} /\ ~Forgets(w)
  <2>1. LocalAfter(s, w, pc) = Assign(s, w.rd, LocalDerived(s, w, pc))
    BY <1>1, <1>5 DEF LocalAfter
  <2>2. Transfer(u, w, pc) = Assign(u, w.rd, Derived(u, w, pc))
    BY <1>5 DEF Transfer, Forgets
  <2>3. ASSUME LocalDerived(s, w, pc) # Absent
        PROVE  Derived(u, w, pc) = LocalDerived(s, w, pc)
    <3>1. w.kind \in {"alui", "alu"} /\ Derived(s, w, pc) # Absent
          /\ LocalDerived(s, w, pc) = Derived(s, w, pc)
      BY <2>3, PlainEncoding DEF LocalDerived, Followed
    <3>2. CASE w.kind = "alui"
      <4>1. Known(s, w.rs)
        BY <3>1, <3>2 DEF Derived
      <4>2. u[w.rs] = s[w.rs] /\ Known(u, w.rs)
        BY <1>1, <4>1 DEF Has, Known
      <4> QED
        BY <3>1, <3>2, <4>1, <4>2 DEF Derived
    <3>3. CASE w.kind = "alu"
      <4>1. Known(s, w.rs) /\ Known(s, w.rt)
        BY <3>1, <3>3 DEF Derived
      <4>2. /\ u[w.rs] = s[w.rs] /\ Known(u, w.rs)
            /\ u[w.rt] = s[w.rt] /\ Known(u, w.rt)
        BY <1>1, <4>1 DEF Has, Known
      <4> QED
        BY <3>1, <3>3, <4>1, <4>2 DEF Derived
    <3> QED
      BY <3>1, <3>2, <3>3
  <2> QED
    BY <1>1, <2>1, <2>2, <2>3, AssignHas
<1> QED
  BY <1>3, <1>4, <1>5

LEMMA PriorHas ==
    ASSUME NEW s \in Good, NEW u \in Good, Has(s, u), NEW w \in BodyWord
    PROVE  Has(LocalPrior(s, w), Prior(u, w))
<1>1. Has(Prior(s, w), Prior(u, w))
  BY DEF Has, Known, Prior, Good, State
<1>2. Prior(s, w) \in Good
  BY PriorGood
<1> HIDE DEF Prior
<1>3. ASSUME NEW r \in Reg, Known(LocalPrior(s, w), r)
      PROVE  Known(Prior(s, w), r) /\ LocalPrior(s, w)[r] = Prior(s, w)[r]
  BY <1>2, <1>3 DEF LocalPrior, Known, Good, State
<1> QED
  BY <1>1, <1>3 DEF Has

\* The edges of a reached word carry what the local scan knows where they lead.
LEMMA EdgesCover ==
    ASSUME prog \in Programs, Accepted(prog), NEW pc \in Entry,
           NEW u \in Good, Covered(pc, u),
           NEW e \in Edges(pc, u), e.to \in Entry
    PROVE  Covered(e.to, e.state)
<1> DEFINE w == prog[pc]
<1>1. /\ w \in BodyWord /\ pc \in Nat /\ pc \in DOMAIN prog /\ e.to \in DOMAIN prog
      /\ w.kind \in Plain \cup {"branch", "jump", "call", "return"}
  BY Kinds, ProgramFacts DEF Entry
<1>2. CASE w.kind \in Plain
  <2>1. e.to = pc + 1 /\ e.state = Transfer(u, w, pc)
    BY <1>2, EdgesOf, EdgeFields
  <2>2. e.state[0] = ZeroFact
    BY <2>1, TransferZero
  <2>3. CASE pc + 1 \in Boundaries(prog)
    BY <1>1, <2>1, <2>2, <2>3, FactsBefore, HasZero DEF Covered
  <2>4. CASE pc + 1 \notin Boundaries(prog)
    <3>1. (pc + 1) - 1 = pc
      BY <1>1
    <3>2. F(pc + 1) = LocalAfter(F(pc), w, pc)
      BY <1>1, <2>1, <2>4, <3>1, FactsBefore
    <3>3. ASSUME ~OddSince(prog, pc + 1) PROVE Has(F(pc + 1), e.state)
      <4>1. ~Odd(w) /\ Has(F(pc), u)
        BY <1>1, <2>4, <3>3, NoOddBefore DEF Covered
      <4> QED
        BY <1>1, <1>2, <2>1, <3>2, <4>1, TransferHas
    <3> QED
      BY <2>1, <2>2, <3>3 DEF Covered
  <2> QED
    BY <2>3, <2>4
<1>3. CASE w.kind \in {"branch", "jump", "call", "return"}
  <2>1. pc \in Controls(prog)
    BY <1>1, <1>3 DEF Controls, Control
  <2>2. After(pc, u)[0] = ZeroFact
    BY TransferZero DEF After
  <2>3. ZERO[0] = ZeroFact
    BY RegAssumption DEF ZERO
  <2>4. /\ e.state[0] = ZeroFact
        /\ e.to = pc + 2 \/ (e.to = w.target /\ w.kind \in {"branch", "jump"})
    <3>1. CASE w.kind = "return"
      BY <3>1, EdgesOf
    <3>2. CASE w.kind = "call" \/ (w.kind = "branch" /\ w.link # NoReg)
      BY <2>3, <3>2, EdgesOf, EdgeFields
    <3>3. CASE w.kind = "jump"
      BY <2>2, <3>3, EdgesOf, EdgeFields
    <3>4. CASE w.kind = "branch" /\ w.link = NoReg
      <4>1. Prior(u, w)[0] = ZeroFact
        BY <3>4 DEF Prior, Covered
      <4> QED
        BY <2>2, <3>4, <4>1, EdgesOf, EdgeFields
    <3> QED
      BY <1>3, <3>1, <3>2, <3>3, <3>4
  <2>5. e.to \in Boundaries(prog)
    BY <2>1, <2>4 DEF Boundaries
  <2> QED
    BY <1>1, <2>4, <2>5, FactsBefore, HasZero DEF Covered
<1> QED
  BY <1>1, <1>2, <1>3

LEMMA FlowCovers ==
    ASSUME prog \in Programs, NEW b, BoardOK(b), Covers(b), NEW e, e.state \in Good,
           e.to \in Entry => Covered(e.to, e.state)
    PROVE  Covers(Flow(b, e))
<1> DEFINE m == Merged(b, e)
           c == Flow(b, e)
<1>1. /\ b.reached \subseteq Entry /\ b.incoming \in [DOMAIN prog -> Good]
      /\ Entry \subseteq DOMAIN prog
  BY DEF BoardOK, BoardType, Entry
<1>2. CASE ~Changes(b, e)
  BY <1>2 DEF Flow
<1>3. CASE Changes(b, e)
  <2>1. e.to \in Entry /\ e.to \in DOMAIN prog
    BY <1>3 DEF Changes, Entry
  <2>2. Covered(e.to, m)
    <3>1. CASE e.to \in b.reached
      <4>1. m = Meet(b.incoming[e.to], e.state)
        BY <3>1 DEF Merged
      <4>2. F(e.to) \in Good /\ Brief(F(e.to))
        BY <2>1, FactsGood, FactsBrief
      <4>3. Covered(e.to, b.incoming[e.to]) /\ Covered(e.to, e.state)
        BY <2>1, <3>1 DEF Covers
      <4>4. m[0] = ZeroFact
        BY <4>1, RegAssumption DEF Meet
      <4>5. ~OddSince(prog, e.to) => Has(F(e.to), m)
        BY <4>1, <4>2, <4>3, MeetHas DEF Covered
      <4> QED
        BY <4>4, <4>5 DEF Covered
    <3>2. CASE e.to \notin b.reached
      BY <2>1, <3>2 DEF Merged
    <3> QED
      BY <3>1, <3>2
  <2>3. c.reached = b.reached \cup {e.to} /\ c.incoming = [b.incoming EXCEPT ![e.to] = m]
    BY <1>3 DEF Flow
  <2>4. c.incoming[e.to] = m /\ \A q \in DOMAIN prog : q # e.to => c.incoming[q] = b.incoming[q]
    BY <1>1, <2>1, <2>3
  <2> HIDE DEF c, m
  <2>5. ASSUME NEW q \in c.reached
        PROVE  Covered(q, c.incoming[q])
    <3>1. CASE q = e.to
      BY <2>2, <2>4, <3>1
    <3>2. CASE q # e.to
      BY <1>1, <2>3, <2>4, <3>2 DEF Covers
    <3> QED
      BY <3>1, <3>2
  <2>6. Covers(c)
    BY <2>5 DEF Covers
  <2> QED
    BY <2>6 DEF c
<1> QED
  BY <1>2, <1>3

LEMMA FlowAllCovers ==
    ASSUME prog \in Programs, NEW b, BoardOK(b), Covers(b), NEW out,
           out = << >> \/ (\E x : out = <<x>>) \/ (\E x, y : out = <<x, y>>),
           \A i \in DOMAIN out :
               /\ out[i].state \in Good
               /\ out[i].to \in Entry => Covered(out[i].to, out[i].state)
    PROVE  Covers(FlowAll(b, out))
<1>1. CASE out = << >>
  BY <1>1 DEF FlowAll
<1>2. ASSUME NEW x, out = <<x>> PROVE Covers(FlowAll(b, out))
  <2>1. Len(out) = 1 /\ DOMAIN out = {1}
    BY <1>2
  <2>2. FlowAll(b, out) = Flow(b, out[1])
    BY <2>1 DEF FlowAll
  <2> QED
    BY <2>1, <2>2, FlowCovers
<1>3. ASSUME NEW x, NEW y, out = <<x, y>> PROVE Covers(FlowAll(b, out))
  <2>1. Len(out) = 2 /\ DOMAIN out = {1, 2}
    BY <1>3
  <2> DEFINE d == Flow(b, out[1])
  <2>2. FlowAll(b, out) = Flow(d, out[2])
    BY <2>1 DEF FlowAll
  <2>3. BoardOK(d) /\ Covers(d)
    BY <2>1, FlowSound, FlowCovers
  <2> HIDE DEF d
  <2> QED
    BY <2>1, <2>2, <2>3, FlowCovers
<1> QED
  BY <1>1, <1>2, <1>3

\* A visit, on the record of the worklist's variables.
LEMMA VisitCovers ==
    ASSUME prog \in Programs, Accepted(prog), NEW b, BoardOK(b), Covers(b), b.work # << >>,
           NEW popped, popped = [reached |-> b.reached, incoming |-> b.incoming,
                                 work |-> Tail(b.work), queued |-> b.queued \ {Head(b.work)}]
    PROVE  Covers(FlowAll(popped, Outgoing(prog, Head(b.work), b.incoming[Head(b.work)])))
<1> DEFINE pc == Head(b.work)
           u == b.incoming[pc]
           out == Outgoing(prog, pc, u)
<1>1. b.reached \subseteq Entry /\ b.incoming \in [DOMAIN prog -> Good] /\ b.work \in Seq(Entry)
      /\ Entry \subseteq DOMAIN prog
  BY DEF BoardOK, BoardType, Entry
<1>2. pc \in b.reached /\ pc \in Entry /\ u \in Good
  BY <1>1 DEF BoardOK
<1>3. BoardOK(popped) /\ Covers(popped)
  BY BoardPopped DEF Covers
<1>4. Covered(pc, u)
  BY <1>2 DEF Covers
<1>5. out = << >> \/ (\E x : out = <<x>>) \/ (\E x, y : out = <<x, y>>)
  BY <1>2, OutgoingShape
<1>6. ASSUME NEW i \in DOMAIN out
      PROVE  /\ out[i].state \in Good
             /\ out[i].to \in Entry => Covered(out[i].to, out[i].state)
  <2>1. out[i] \in Edges(pc, u)
    BY DEF Edges
  <2> HIDE DEF out, u, pc
  <2> QED
    BY <1>2, <1>4, <2>1, EdgesGood, EdgesCover
<1> HIDE DEF out, u, pc
<1> QED
  BY <1>3, <1>5, <1>6, FlowAllCovers DEF out, u, pc

-----------------------------------------------------------------------------
(* ... and claims what the local scan claims                               *)

LEMMA AccessHitHas ==
    ASSUME NEW s, NEW u, Has(s, u), NEW w \in BodyWord, NEW pc, NEW h \in AccessHit(s, w, pc)
    PROVE  h \in AccessHit(u, w, pc)
<1>1. Known(s, w.rs) /\ w.rs \in Reg
  BY DEF AccessHit, BodyWord, Word
<1>2. u[w.rs] = s[w.rs] /\ Known(u, w.rs)
  BY <1>1 DEF Has, Known
<1> QED
  BY <1>1, <1>2 DEF AccessHit

LEMMA MemoryCallHas ==
    ASSUME NEW s, NEW u, Has(s, u), NEW w, NEW pc, NEW h \in MemoryCall(s, w, pc)
    PROVE  h \in MemoryCall(u, w, pc)
<1> DEFINE claim(v, a) == [pc |-> pc + 1, base |-> a, address |-> v[a].val,
                           width |-> v[CountReg].val, callee |-> TRUE]
           args(v) == {a \in Callees[w.target] :
                      /\ Known(v, a)
                      /\ v[a].trace # {}
                      /\ Cardinality(v[a].trace \cup v[CountReg].trace \cup {pc}) <= MaxTrace}
<1>1. /\ w.target \in DOMAIN Callees /\ Known(s, CountReg) /\ s[CountReg].val \in 1 .. MaxCount
      /\ CountReg \in Reg /\ Callees[w.target] \subseteq Reg
  BY RegAssumption, CalleesAssumption DEF MemoryCall
<1>2. u[CountReg] = s[CountReg] /\ Known(u, CountReg)
  BY <1>1 DEF Has, Known
<1>3. h \in {claim(s, a) : a \in args(s)}
  BY <1>1 DEF MemoryCall
<1>4. PICK a \in args(s) : h = claim(s, a)
  BY <1>3
<1>5. a \in Reg /\ u[a] = s[a] /\ Known(u, a)
  BY <1>1, <1>4 DEF Has, Known
<1>6. a \in args(u) /\ h = claim(u, a)
  BY <1>2, <1>4, <1>5
<1>7. MemoryCall(u, w, pc) = {claim(u, q) : q \in args(u)}
  BY <1>1, <1>2 DEF MemoryCall
<1> QED
  BY <1>6, <1>7

\* The facts in which the delay word of a reached word executes.
LEMMA DelayHas ==
    ASSUME prog \in Programs, Accepted(prog), NEW pc \in Entry, prog[pc].kind \in Control,
           NEW u \in Good, Covered(pc, u), ~OddSince(prog, pc + 1)
    PROVE  /\ pc + 1 \in DOMAIN prog /\ prog[pc + 1] \in BodyWord /\ prog[pc + 1].kind \in Plain
           /\ Has(F(pc + 1), Prior(u, prog[pc]))
<1>1. /\ prog[pc] \in BodyWord /\ pc \in Nat /\ pc \in DOMAIN prog /\ pc \notin Delays(prog)
      /\ prog[pc].kind \in {"branch", "jump", "call", "return"}
  BY Kinds, ProgramFacts DEF Entry, Control, Plain
<1>2. pc + 1 \in DOMAIN prog /\ prog[pc + 1] \in BodyWord /\ prog[pc + 1].kind \in Plain
  BY <1>1, Kinds
<1>3. pc + 1 \in Delays(prog)
  BY <1>1 DEF Delays, Controls
<1>4. pc + 1 \notin Boundaries(prog)
  <2>1. ASSUME NEW q \in Controls(prog), pc + 1 = q + 2 PROVE FALSE
    <3>1. q \in Nat
      BY ProgramFacts DEF Controls
    <3>2. pc = q + 1
      BY <1>1, <2>1, <3>1
    <3> QED
      BY <1>1, <3>2 DEF Delays
  <2>2. ASSUME NEW q \in Controls(prog), prog[q].kind \in {"branch", "jump", "call"},
               pc + 1 = prog[q].target
        PROVE  FALSE
    BY <1>2, <1>3, <2>2 DEF Accepted, DelaysWellFormed, Direct, Controls
  <2>3. pc + 1 # 0
    BY <1>1
  <2> QED
    BY <2>1, <2>2, <2>3 DEF Boundaries
<1>5. (pc + 1) - 1 = pc
  BY <1>1
<1>6. F(pc + 1) = LocalAfter(F(pc), prog[pc], pc)
  BY <1>2, <1>4, <1>5, FactsBefore
<1>7. F(pc + 1) = LocalPrior(F(pc), prog[pc])
  BY <1>6 DEF LocalAfter, Control, Plain
<1>8. Has(F(pc), u)
  BY <1>1, <1>4, NoOddBefore DEF Covered
<1> QED
  BY <1>1, <1>2, <1>7, <1>8, FactsGood, PriorHas

\* At the fixed point every claim of the local scan is made.
LEMMA LocalHitCovered ==
    ASSUME prog \in Programs, Accepted(prog), BoardOK(Board), Settled(Board, {}), Covers(Board),
           NEW h \in LocalHits(prog), h.pc \in reached \/ h.pc - 1 \in reached,
           ~Odd(prog[h.pc]), ~OddSince(prog, h.pc)
    PROVE  \E pc \in reached : h \in HitsAt(prog, pc, incoming[pc])
<1>1. /\ reached \subseteq Entry /\ \A pc \in reached : incoming[pc] \in Good
      /\ Entry \subseteq DOMAIN prog /\ DOMAIN prog \subseteq Nat
  BY BoardFields, ProgramFacts DEF Entry
<1>2. \A pc \in reached : Covered(pc, incoming[pc])
  BY DEF Covers, Board
<1>3. CASE /\ h.pc \in DOMAIN prog /\ h.callee = FALSE
           /\ h \in AccessHit(F(h.pc), prog[h.pc], h.pc)
  <2> DEFINE q == h.pc
             w == prog[q]
  <2>1. w \in BodyWord /\ w.kind \in Plain /\ q \in Nat
    BY <1>1, <1>3, ProgramFacts DEF AccessHit, Plain
  <2>2. CASE q \in reached
    <3>1. h \in AccessHit(incoming[q], w, q)
      BY <1>2, <1>3, <2>1, <2>2, AccessHitHas DEF Covered
    <3>2. h \in HitsAt(prog, q, incoming[q])
      BY <2>1, <3>1 DEF HitsAt
    <3> QED
      BY <2>2, <3>2
  <2>3. CASE q \notin reached
    <3> DEFINE pc == q - 1
    <3>1. pc \in reached /\ pc \in Entry /\ pc \in DOMAIN prog /\ pc + 1 = q
          /\ incoming[pc] \in Good /\ Covered(pc, incoming[pc])
      BY <1>1, <1>2, <2>1, <2>3
    <3> HIDE DEF pc
    <3>2. prog[pc].kind \in Control
      <4> SUFFICES ASSUME prog[pc].kind \notin Control PROVE FALSE
        OBVIOUS
      <4>1. prog[pc].kind \in Plain
        BY <3>1, Kinds DEF Control
      <4>2. q \in Entry
        <5>1. ASSUME NEW r \in Controls(prog), q = r + 1 PROVE FALSE
          <6>1. r \in Nat
            BY <1>1 DEF Controls
          <6>2. r = pc
            BY <1>1, <3>1, <5>1, <6>1
          <6> QED
            BY <5>1, <6>2 DEF Controls
        <5> QED
          BY <1>3, <5>1 DEF Entry, Delays
      <4>3. Edge(q, Transfer(incoming[pc], prog[pc], pc)) \in Edges(pc, incoming[pc])
        BY <3>1, <4>1, EdgesOf
      <4>4. Closed(Board, pc) /\ Board.incoming = incoming /\ Board.reached = reached
        BY <3>1 DEF Settled, Board
      <4>5. Arrived(Board, Edge(q, Transfer(incoming[pc], prog[pc], pc)))
        BY <4>3, <4>4 DEF Closed
      <4> QED
        BY <2>3, <4>2, <4>4, <4>5, EdgeFields DEF Arrived
    <3>3. Has(F(q), Prior(incoming[pc], prog[pc]))
      BY <3>1, <3>2, DelayHas
    <3>4. h \in AccessHit(Prior(incoming[pc], prog[pc]), w, q)
      BY <1>3, <2>1, <3>3, AccessHitHas
    <3>5. prog[pc].kind \notin Plain
      BY <3>2 DEF Control, Plain
    <3>6. h \in HitsAt(prog, pc, incoming[pc])
      BY <3>1, <3>4, <3>5 DEF HitsAt
    <3> QED
      BY <3>1, <3>6
  <2> QED
    BY <2>2, <2>3
<1>4. ASSUME NEW pc \in DOMAIN prog, prog[pc].kind = "call", h.pc = pc + 1,
             h \in MemoryCall(LocalAfter(F(pc + 1), prog[pc + 1], pc + 1), prog[pc], pc)
      PROVE  \E q \in reached : h \in HitsAt(prog, q, incoming[q])
  <2>1. pc + 1 \in Delays(prog) /\ pc \in Nat
    BY <1>1, <1>4 DEF Delays, Controls, Control
  <2>2. pc + 1 \notin reached
    BY <1>1, <2>1 DEF Entry
  <2>3. pc \in reached
    BY <1>4, <2>1, <2>2
  <2> DEFINE u == incoming[pc]
             prior == Prior(u, prog[pc])
             d == prog[pc + 1]
  <2>4. u \in Good /\ Covered(pc, u) /\ pc \in Entry
    BY <1>1, <1>2, <2>3
  <2>5. d \in BodyWord /\ d.kind \in Plain /\ Has(F(pc + 1), prior)
    BY <1>4, <2>4, DelayHas DEF Control
  <2>6. Has(LocalAfter(F(pc + 1), d, pc + 1), Transfer(prior, d, pc + 1))
    BY <1>4, <2>5, TransferHas
  <2>7. h \in MemoryCall(Transfer(prior, d, pc + 1), prog[pc], pc)
    BY <1>4, <2>6, MemoryCallHas
  <2>8. h \in HitsAt(prog, pc, u)
    BY <1>4, <2>7 DEF HitsAt, Plain
  <2> QED
    BY <2>3, <2>8
<1> QED
  BY <1>3, <1>4, LocalHitsOf

LEMMA VisitCover == IInv /\ CoverInv /\ Visit => CoverInv'
<1> SUFFICES ASSUME IInv, CoverInv, Visit PROVE CoverInv'
  OBVIOUS
<1>1. phase = "scan" /\ phase' = "scan" /\ prog' = prog /\ work # << >> /\ prog \in Programs
  BY DEF IInv, Visit
<1>2. Accepted(prog) /\ BoardOK(Board) /\ Covers(Board)
  BY <1>1 DEF IInv, ScanInv, CoverInv
<1> DEFINE pc == Head(work)
           popped == [reached |-> reached, incoming |-> incoming,
                      work |-> Tail(work), queued |-> queued \ {pc}]
           c == FlowAll(popped, Outgoing(prog, pc, incoming[pc]))
<1>3. reached' = c.reached /\ incoming' = c.incoming
  BY DEF Visit
<1>4. /\ Board.reached = reached /\ Board.incoming = incoming
      /\ Board.work = work /\ Board.queued = queued
  BY DEF Board
<1>5. Covers(c)
  BY <1>1, <1>2, <1>4, VisitCovers
<1> HIDE DEF c
<1>6. Covers(Board)'
  BY <1>1, <1>3, <1>5 DEF Covers, Covered, Board, F
<1> QED
  BY <1>1, <1>6 DEF CoverInv, FlowCoversLocal

LEMMA EmitCover == IInv /\ CoverInv /\ Emit => CoverInv'
<1> SUFFICES ASSUME IInv, CoverInv, Emit PROVE CoverInv'
  OBVIOUS
<1>1. /\ phase = "scan" /\ phase' = "prefix" /\ work = << >> /\ prog' = prog
      /\ prog \in Programs /\ reached' = reached
      /\ hits' = UNION {HitsAt(prog, pc, incoming[pc]) : pc \in reached}
  BY DEF IInv, Emit
<1>2. Accepted(prog) /\ BoardOK(Board) /\ Settled(Board, queued) /\ Covers(Board)
  BY <1>1 DEF IInv, ScanInv, CoverInv
<1>3. queued = {}
  BY <1>1, <1>2 DEF BoardOK, Board
<1>4. ASSUME NEW h \in LocalHits(prog), h.pc \in reached \/ h.pc - 1 \in reached,
             ~Odd(prog[h.pc]), ~OddSince(prog, h.pc)
      PROVE  h \in hits'
  BY <1>1, <1>2, <1>3, <1>4, LocalHitCovered
<1>5. FlowCoversLocal'
  BY <1>1, <1>4 DEF FlowCoversLocal
<1> QED
  BY <1>1, <1>5 DEF CoverInv

LEMMA CoverInvariant == Spec => []CoverInv
<1>1. Init => CoverInv
  <2> SUFFICES ASSUME Init PROVE CoverInv
    OBVIOUS
  <2>1. FlowCoversLocal
    BY DEF Init, FlowCoversLocal
  <2>2. ASSUME phase = "scan" PROVE Covers(Board)
    <3>1. /\ reached = {0} /\ incoming = [pc \in DOMAIN prog |-> ZERO]
          /\ prog \in Programs /\ DOMAIN prog # {}
      BY <2>2 DEF Init
    <3>2. 0 \in DOMAIN prog
      BY <3>1, ProgramFacts DEF Entry
    <3>3. incoming[0] = ZERO /\ ZERO[0] = ZeroFact /\ F(0) = ZERO
      BY <3>1, <3>2, FactsBefore, Within, RegAssumption DEF ZERO
    <3> QED
      BY <3>1, <3>3, HasZero DEF Covers, Covered, Board
  <2> QED
    BY <2>1, <2>2 DEF CoverInv
<1>2. IInv /\ CoverInv /\ [Next]_vars => CoverInv'
  <2> SUFFICES ASSUME IInv, CoverInv, [Next]_vars PROVE CoverInv'
    OBVIOUS
  <2>1. CASE Visit
    BY <2>1, VisitCover
  <2>2. CASE Emit
    BY <2>2, EmitCover
  <2>3. CASE GiveUp
    BY <2>3 DEF GiveUp, CoverInv, FlowCoversLocal, scanVars
  <2>4. CASE Prefix
    <3>1. phase = "prefix" /\ UNCHANGED <<prog, reached, work, visits, hits>>
      BY <2>4 DEF Prefix, scanVars
    <3>2. phase' # "scan"
      BY <2>4 DEF Prefix, PrefixPlain, PrefixAnnuls, PrefixControl, PrefixEnds, PrefixGoesOn
    <3> QED
      BY <3>1, <3>2 DEF CoverInv, FlowCoversLocal
  <2>5. CASE Start \/ CpuPlain \/ CpuAnnul \/ CpuControl
    <3>1. phase' = "running"
      BY <2>5 DEF Start, CpuPlain, CpuAnnul, CpuControl, Running
    <3> QED
      BY <3>1 DEF CoverInv, FlowCoversLocal
  <2>6. CASE UNCHANGED vars
    BY <2>6 DEF vars, scanVars, CoverInv, FlowCoversLocal, Covers, Covered, Board, F
  <2> QED
    BY <2>1, <2>2, <2>3, <2>4, <2>5, <2>6 DEF Next
<1> QED
  BY <1>1, <1>2, Invariant, PTL DEF Spec

\* Where the worklist has come to its end, the flow analysis claims all that the
\* block-local scan does about words that can be reached, but for claims that
\* rest on what is before an odd word of opcode 0 (unnamed_data.py:198).
THEOREM LocalHitsAreCovered == Spec => []FlowCoversLocal
<1>1. CoverInv => FlowCoversLocal
  BY DEF CoverInv
<1> QED
  BY <1>1, CoverInvariant, PTL
=============================================================================
