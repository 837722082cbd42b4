---------------------- MODULE EeDataflowPrefixProofs ----------------------
(***************************************************************************)
(* What scan_prefix claims holds in every run: Spec => []PrefixSound.      *)
(*                                                                         *)
(* scan_prefix keeps only the place it has come to.  The proof keeps all   *)
(* of them, a trail: each place leads to the next whatever the registers   *)
(* hold, and each claim was made at one of them, for the step with which   *)
(* the processor leaves it.  A run stays on the trail, so its steps make   *)
(* the claims of the places come true one by one, until it has passed the  *)
(* last.                                                                   *)
(***************************************************************************)
EXTENDS EeDataflowProofs

Place(pc, n, s) == [pc |-> pc, steps |-> n, state |-> s]
Places == [pc : Int, steps : Nat, state : Good]

\* Where the scan ends because the facts do not say what happens.
Stops(t) ==
    \/ prog[t.pc].kind \in {"invalid", "indirect"}
    \/ prog[t.pc].kind = "branch" /\ prog[t.pc].link # NoReg
    \/ BranchTaken(prog[t.pc], t.state) = BOOLEAN

Annuls(t) ==
    /\ prog[t.pc].kind = "branch" /\ ~Stops(t)
    /\ prog[t.pc].likely /\ BranchTaken(prog[t.pc], t.state) = {FALSE}

\* A control word whose delay word is executed.
Takes(t) ==
    /\ prog[t.pc].kind \in Control /\ ~Stops(t)
    /\ ~(prog[t.pc].likely /\ BranchTaken(prog[t.pc], t.state) # {TRUE})

\* The step with which the processor leaves a place.
End(t) == t.steps + IF Takes(t) THEN 2 ELSE 1

\* The place after t.
Follower(t, u) ==
    LET w == prog[t.pc]
    IN  /\ t.pc \in DOMAIN prog
        /\ \/ /\ w.kind \in Plain
              /\ u = Place(t.pc + 1, End(t), Transfer(t.state, w, t.pc))
           \/ Annuls(t) /\ u = Place(t.pc + 2, End(t), t.state)
           \/ /\ Takes(t) /\ w.kind \in {"branch", "jump"}
              /\ u = Place(IF BranchTaken(w, t.state) = {TRUE} THEN w.target ELSE t.pc + 2,
                           End(t), After(t.pc, t.state))

\* The claims made at a place.
ClaimsAt(t) ==
    LET w == prog[t.pc]
        prior == Prior(t.state, w)
        after == After(t.pc, t.state)
        n == End(t)
    IN  CASE t.pc \in DOMAIN prog /\ w.kind \in Plain -> AllAtStep(AccessHit(t.state, w, t.pc), n)
          [] t.pc \in DOMAIN prog /\ w.kind \notin Plain /\ Takes(t) ->
                AllAtStep(AccessHit(prior, prog[t.pc + 1], t.pc + 1), n)
                  \cup (IF w.kind = "call" THEN AllAtStep(MemoryCall(after, w, t.pc), n) ELSE {})
          [] OTHER -> {}

Trail(T, H) ==
    /\ T \subseteq Places
    /\ Place(0, 0, ZERO) \in T /\ prefix \in T
    /\ \A t \in T : t = prefix \/ \E u \in T : Follower(t, u)
    /\ \A t \in T : t = prefix \/ End(t) <= prefix.steps
    /\ \A t, u \in T : t = u \/ End(t) <= u.steps \/ End(u) <= t.steps
    /\ \A h \in H : \E t \in T : h \in ClaimsAt(t)

OnTrail(t) == cpu.pc = t.pc /\ cpu.steps = t.steps /\ Agrees(cpu.regs, t.state)

\* A run is on the trail, or past it.
RunOn(T) ==
    phase = "running" =>
        /\ cpu.steps \in Nat
        /\ (\A h \in claims : h.step <= cpu.steps) \/ \E t \in T : OnTrail(t)

PInv ==
    /\ \E T : Trail(T, IF phase \in {"scan", "prefix"} THEN found ELSE claims) /\ RunOn(T)
    /\ PrefixSound

CpuStep == CpuPlain \/ CpuAnnul \/ CpuControl

-----------------------------------------------------------------------------
(* Places                                                                  *)

LEMMA EndType ==
    ASSUME NEW t \in Places
    PROVE  End(t) \in Nat /\ End(t) > t.steps
BY DEF End, Places

LEMMA ClaimStep ==
    ASSUME NEW t, NEW h \in ClaimsAt(t)
    PROVE  h.step = End(t)
<1>1. \/ \E A : h \in AllAtStep(A, End(t))
      \/ \E A, B : h \in AllAtStep(A, End(t)) \cup AllAtStep(B, End(t))
  BY DEF ClaimsAt
<1>2. ASSUME NEW A, h \in AllAtStep(A, End(t)) PROVE h.step = End(t)
  BY <1>2 DEF AllAtStep, AtStep
<1> QED
  BY <1>1, <1>2

\* The outcome the facts decide is the processor's.
LEMMA BranchSound ==
    ASSUME NEW regs, RegsOK(regs), NEW s \in Good, Agrees(regs, s), NEW w \in BodyWord,
           BranchTaken(w, s) # BOOLEAN, NEW taken \in Condition(regs, w)
    PROVE  BranchTaken(w, s) = {taken}
<1>1. w.rs \in Reg /\ w.rt \in Reg
  BY DEF BodyWord, Word
<1>2. CASE w.kind # "branch"
  <2>1. Condition(regs, w) = {TRUE}
    BY <1>2 DEF Condition
  <2>2. BranchTaken(w, s) = {TRUE}
    BY <1>2 DEF BranchTaken
  <2> QED
    BY <2>1, <2>2
<1>3. CASE w.kind = "branch" /\ w.fn \in {"beq", "bne"}
  <2>1. Known(s, w.rs) /\ Known(s, w.rt)
    BY <1>3 DEF BranchTaken
  <2>2. regs[w.rs] = s[w.rs].val /\ regs[w.rt] = s[w.rt].val
    BY <1>1, <2>1, Lookup
  <2> QED
    BY <1>3, <2>1, <2>2 DEF BranchTaken, Condition
<1>4. CASE w.kind = "branch" /\ w.fn \in {"blez", "bgtz", "bltz", "bgez"}
  <2>1. Known(s, w.rs)
    BY <1>4 DEF BranchTaken
  <2>2. regs[w.rs] = s[w.rs].val /\ s[w.rs].val \in Nat
    BY <1>1, <2>1, Lookup, LimitAssumption DEF Addr
  <2> DEFINE a == s[w.rs].val
  <2>3. /\ w.fn = "blez" => BranchTaken(w, s) = {a = 0} /\ Condition(regs, w) = {a <= 0}
        /\ w.fn = "bgtz" => BranchTaken(w, s) = {a > 0} /\ Condition(regs, w) = {a > 0}
        /\ w.fn = "bltz" => BranchTaken(w, s) = {FALSE} /\ Condition(regs, w) = {a < 0}
        /\ w.fn = "bgez" => BranchTaken(w, s) = {TRUE} /\ Condition(regs, w) = {a >= 0}
    BY <1>4, <2>1, <2>2 DEF BranchTaken, Condition
  <2>4. (a <= 0) = (a = 0) /\ (a < 0) = FALSE /\ (a >= 0) = TRUE
    BY <2>2
  <2> QED
    BY <1>4, <2>3, <2>4
<1>5. CASE w.kind = "branch" /\ w.fn \notin {"beq", "bne", "blez", "bgtz", "bltz", "bgez"}
  BY <1>5 DEF BranchTaken
<1> QED
  BY <1>2, <1>3, <1>4, <1>5

LEMMA ConditionType ==
    ASSUME NEW regs, RegsOK(regs), NEW w \in BodyWord, NEW taken \in Condition(regs, w)
    PROVE  taken \in BOOLEAN /\ (w.kind # "branch" => taken = TRUE)
<1>1. CASE w.kind # "branch"
  BY <1>1 DEF Condition
<1>2. CASE w.kind = "branch" /\ w.fn \in {"beq", "bne"}
  BY <1>2 DEF Condition
<1>3. CASE w.kind = "branch" /\ w.fn \in {"blez", "bgtz", "bltz", "bgez"}
  <2>1. regs[w.rs] \in Int
    BY DEF RegsOK, BodyWord, Word
  <2>2. \/ w.fn = "blez" /\ Condition(regs, w) = {regs[w.rs] <= 0}
        \/ w.fn = "bgtz" /\ Condition(regs, w) = {regs[w.rs] > 0}
        \/ w.fn = "bltz" /\ Condition(regs, w) = {regs[w.rs] < 0}
        \/ w.fn = "bgez" /\ Condition(regs, w) = {regs[w.rs] >= 0}
    BY <1>3 DEF Condition
  <2>3. \A x \in Int : (x <= 0) \in BOOLEAN /\ (x > 0) \in BOOLEAN /\ (x < 0) \in BOOLEAN
                       /\ (x >= 0) \in BOOLEAN
    OBVIOUS
  <2>4. \/ taken = (regs[w.rs] <= 0) \/ taken = (regs[w.rs] > 0)
        \/ taken = (regs[w.rs] < 0) \/ taken = (regs[w.rs] >= 0)
    BY <2>2, Zenon
  <2> QED
    BY <1>3, <2>1, <2>3, <2>4, Zenon
<1>5. CASE w.kind = "branch" /\ w.fn \notin {"beq", "bne", "blez", "bgtz", "bltz", "bgez"}
  BY <1>5 DEF Condition
<1> QED
  BY <1>1, <1>2, <1>3, <1>5

LEMMA KindsApart == Plain \cap Control = {} /\ {"branch", "jump", "call", "return"} \subseteq Control
BY DEF Plain, Control

-----------------------------------------------------------------------------
(* The processor on the trail                                              *)

\* A run at a place of the scan: its registers, and those of the delay word.
LEMMA AtPlace ==
    ASSUME IInv, Running, NEW t \in Places, OnTrail(t)
    PROVE  /\ t.pc \in DOMAIN prog /\ t.pc \in Nat /\ prog[t.pc] \in BodyWord
           /\ t.state \in Good /\ RegsOK(cpu.regs) /\ Agrees(cpu.regs, t.state)
           /\ cpu.steps = t.steps /\ cpu.pc = t.pc
           /\ \A taken \in Condition(cpu.regs, prog[t.pc]) :
                 Stops(t) \/ BranchTaken(prog[t.pc], t.state) = {taken}
           /\ Prior(t.state, prog[t.pc]) \in Good
           /\ \A linked \in Linked(cpu.regs, prog[t.pc]) :
                 RegsOK(linked) /\ Agrees(linked, Prior(t.state, prog[t.pc]))
<1>1. /\ t.pc \in DOMAIN prog /\ t.pc \in Nat /\ prog[t.pc] \in BodyWord
      /\ t.state \in Good /\ RegsOK(cpu.regs) /\ Agrees(cpu.regs, t.state)
      /\ cpu.steps = t.steps /\ cpu.pc = t.pc
  BY RunFacts DEF OnTrail, Places
<1>2. ASSUME NEW taken \in Condition(cpu.regs, prog[t.pc]), ~Stops(t)
      PROVE  BranchTaken(prog[t.pc], t.state) = {taken}
  BY <1>1, <1>2, BranchSound DEF Stops
<1> QED
  BY <1>1, <1>2, PriorGood, PriorSound

\* From a place where the scan does not stop, a step ends at its End, makes
\* its claims true, and goes on at the next place.
PlaceKept(t) ==
    /\ ~Stops(t) => cpu'.steps = End(t)
    /\ \A h \in ClaimsAt(t) : h \in access'
    /\ \A u : Follower(t, u) => OnTrail(u)'

LEMMA OnPlain ==
    ASSUME IInv, CpuPlain, NEW t \in Places, OnTrail(t)
    PROVE  PlaceKept(t)
<1> DEFINE w == prog[t.pc]
           n == t.steps + 1
<1>1. Running /\ w.kind \in Plain /\ access' = Access(cpu.regs, w, t.pc, n)
  BY DEF CpuPlain, OnTrail
<1>2. PICK next \in Execute(cpu.regs, w) : cpu' = [pc |-> t.pc + 1, steps |-> n, regs |-> next]
  BY DEF CpuPlain, OnTrail
<1>3. cpu'.pc = t.pc + 1 /\ cpu'.steps = n /\ cpu'.regs = next
  BY <1>2
<1>4. /\ t.pc \in DOMAIN prog /\ t.pc \in Nat /\ w \in BodyWord
      /\ t.state \in Good /\ RegsOK(cpu.regs) /\ Agrees(cpu.regs, t.state)
  BY <1>1, AtPlace
<1>5. End(t) = n /\ ~Takes(t) /\ ~Annuls(t)
  BY <1>1, KindsApart DEF End, Takes, Annuls
<1>6. ASSUME NEW h \in ClaimsAt(t) PROVE h \in access'
  <2>1. PICK g \in AccessHit(t.state, w, t.pc) : h = AtStep(g, n)
    BY <1>1, <1>4, <1>5 DEF ClaimsAt, AllAtStep
  <2>2. PICK a \in Access(cpu.regs, w, t.pc, n) :
          a = [pc |-> t.pc, base |-> w.rs, address |-> a.address, width |-> a.width,
               callee |-> FALSE, step |-> n]
    BY <2>1 DEF AccessHit, Access
  <2>3. g.pc = t.pc /\ g.base = w.rs /\ g.callee = FALSE
    BY <2>1 DEF AccessHit
  <2>4. a.address = g.address /\ a.width = g.width
    BY <1>4, <2>1, <2>2, AccessSound
  <2> QED
    BY <1>1, <2>1, <2>2, <2>3, <2>4 DEF AtStep
<1>7. ASSUME NEW u, Follower(t, u) PROVE OnTrail(u)'
  <2>1. u = Place(t.pc + 1, n, Transfer(t.state, w, t.pc))
    BY <1>5, <1>7 DEF Follower
  <2>2. Agrees(next, Transfer(t.state, w, t.pc))
    BY <1>1, <1>2, <1>4, TransferSound
  <2> QED
    BY <1>3, <2>1, <2>2 DEF OnTrail, Place
<1> QED
  BY <1>3, <1>5, <1>6, <1>7 DEF PlaceKept

LEMMA OnAnnul ==
    ASSUME IInv, CpuAnnul, NEW t \in Places, OnTrail(t)
    PROVE  PlaceKept(t)
<1> DEFINE w == prog[t.pc]
           n == t.steps + 1
<1>1. Running /\ w.kind = "branch" /\ w.likely /\ FALSE \in Condition(cpu.regs, w)
  BY DEF CpuAnnul, OnTrail
<1>2. PICK linked \in Linked(cpu.regs, w) :
        cpu' = [pc |-> t.pc + 2, steps |-> n, regs |-> linked]
  BY DEF CpuAnnul, OnTrail
<1>3. cpu'.pc = t.pc + 2 /\ cpu'.steps = n /\ cpu'.regs = linked
  BY <1>2
<1>4. Stops(t) \/ BranchTaken(w, t.state) = {FALSE}
  BY <1>1, AtPlace
<1>5. ~Takes(t)
  BY <1>1, <1>4 DEF Takes
<1>6. w.kind \notin Plain
  BY <1>1, KindsApart
<1>7. ClaimsAt(t) = {} /\ End(t) = n
  BY <1>5, <1>6 DEF ClaimsAt, End
<1>8. ASSUME NEW u, Follower(t, u) PROVE OnTrail(u)'
  <2>1. ~Stops(t) /\ u = Place(t.pc + 2, n, t.state)
    BY <1>5, <1>6, <1>7, <1>8 DEF Follower, Annuls
  <2>2. linked = cpu.regs
    BY <1>1, <1>2, <2>1 DEF Linked, Stops
  <2>3. Agrees(linked, t.state)
    BY <2>2 DEF OnTrail
  <2> QED
    BY <1>3, <2>1, <2>3 DEF OnTrail, Place
<1> QED
  BY <1>3, <1>7, <1>8 DEF PlaceKept

LEMMA OnControl ==
    ASSUME IInv, CpuControl, NEW t \in Places, OnTrail(t), ~Stops(t)
    PROVE  PlaceKept(t)
<1> DEFINE w == prog[t.pc]
           d == prog[t.pc + 1]
           n == t.steps + 2
           prior == Prior(t.state, w)
<1>1. /\ Running /\ w.kind \in Control /\ t.pc + 1 \in DOMAIN prog /\ d.kind \in Plain
  BY DEF CpuControl, OnTrail
<1>2. PICK taken \in Condition(cpu.regs, w), linked \in Linked(cpu.regs, w) :
        /\ ~(w.likely /\ ~taken)
        /\ \E after \in Execute(linked, d) :
              /\ \E next \in NextPoints(w, t.pc, taken, after) :
                   cpu' = [pc |-> next.pc, steps |-> n, regs |-> next.regs]
              /\ access' = Access(linked, d, t.pc + 1, n)
                    \cup (IF w.kind = "call" THEN CalleeAccess(after, w, t.pc, n) ELSE {})
  BY DEF CpuControl, OnTrail
<1>3. PICK after \in Execute(linked, d) :
        /\ \E next \in NextPoints(w, t.pc, taken, after) :
             cpu' = [pc |-> next.pc, steps |-> n, regs |-> next.regs]
        /\ access' = Access(linked, d, t.pc + 1, n)
              \cup (IF w.kind = "call" THEN CalleeAccess(after, w, t.pc, n) ELSE {})
  BY <1>2
<1>4. PICK next \in NextPoints(w, t.pc, taken, after) :
        cpu' = [pc |-> next.pc, steps |-> n, regs |-> next.regs]
  BY <1>3
<1>5. cpu'.pc = next.pc /\ cpu'.steps = n /\ cpu'.regs = next.regs
  BY <1>4
<1>6. /\ prog \in Programs /\ t.pc \in DOMAIN prog /\ t.pc \in Nat /\ w \in BodyWord
      /\ t.state \in Good /\ prior \in Good /\ RegsOK(linked) /\ Agrees(linked, prior)
      /\ BranchTaken(w, t.state) = {taken} /\ d \in BodyWord /\ t.pc + 1 \in Nat
      /\ RegsOK(cpu.regs)
  BY <1>1, <1>2, AtPlace, RunFacts, ProgramFacts
<1>7. Takes(t) /\ End(t) = n /\ ~Annuls(t) /\ w.kind \notin Plain
  <2>1. taken # FALSE \/ ~w.likely
    BY <1>2
  <2>2. taken \in BOOLEAN
    BY <1>2, <1>6, ConditionType
  <2>3. w.likely => BranchTaken(w, t.state) = {TRUE} /\ BranchTaken(w, t.state) # {FALSE}
    BY <1>6, <2>1, <2>2
  <2> QED
    BY <1>1, <2>3, KindsApart DEF Takes, End, Annuls
<1>8. Agrees(after, After(t.pc, t.state)) /\ After(t.pc, t.state) \in Good /\ RegsOK(after)
  BY <1>1, <1>3, <1>6, TransferSound, TransferGood DEF After
<1>9. ASSUME NEW h \in ClaimsAt(t) PROVE h \in access'
  <2>1. \/ h \in AllAtStep(AccessHit(prior, d, t.pc + 1), n)
        \/ w.kind = "call" /\ h \in AllAtStep(MemoryCall(After(t.pc, t.state), w, t.pc), n)
    BY <1>6, <1>7 DEF ClaimsAt
  <2>2. CASE h \in AllAtStep(AccessHit(prior, d, t.pc + 1), n)
    <3>1. PICK g \in AccessHit(prior, d, t.pc + 1) : h = AtStep(g, n)
      BY <2>2 DEF AllAtStep
    <3>2. PICK a \in Access(linked, d, t.pc + 1, n) :
            a = [pc |-> t.pc + 1, base |-> d.rs, address |-> a.address, width |-> a.width,
                 callee |-> FALSE, step |-> n]
      BY <3>1 DEF AccessHit, Access
    <3>3. g.pc = t.pc + 1 /\ g.base = d.rs /\ g.callee = FALSE
      BY <3>1 DEF AccessHit
    <3>4. a.address = g.address /\ a.width = g.width
      BY <1>6, <3>1, <3>2, AccessSound
    <3> QED
      BY <1>3, <3>1, <3>2, <3>3, <3>4 DEF AtStep
  <2>3. CASE w.kind = "call" /\ h \in AllAtStep(MemoryCall(After(t.pc, t.state), w, t.pc), n)
    <3>1. PICK g \in MemoryCall(After(t.pc, t.state), w, t.pc) : h = AtStep(g, n)
      BY <2>3 DEF AllAtStep
    <3>2. /\ w.target \in DOMAIN Callees /\ g.pc = t.pc + 1
          /\ g.base \in Callees[w.target]
      <4> HIDE DEF w
      <4> QED
        BY <3>1, MemoryCallFields
    <3>3. g.callee = TRUE
      BY <3>1, MemoryCallMark, Zenon
    <3> DEFINE reach(r) == [pc |-> t.pc + 1, base |-> r, address |-> after[r],
                            width |-> after[CountReg], callee |-> TRUE, step |-> n]
               a == reach(g.base)
    <3>4. a \in CalleeAccess(after, w, t.pc, n) /\ a.base = g.base
      <4>1. CalleeAccess(after, w, t.pc, n) = {reach(r) : r \in Callees[w.target]}
        BY <3>2 DEF CalleeAccess
      <4>2. a \in {reach(r) : r \in Callees[w.target]}
        BY <3>2
      <4>3. a.base = g.base
        OBVIOUS
      <4> QED
        BY <4>1, <4>2, <4>3
    <3>5. a.address = g.address /\ a.width = g.width
      BY <1>8, <3>1, <3>4, CalleeSound
    <3> QED
      BY <1>3, <2>3, <3>1, <3>2, <3>3, <3>4, <3>5 DEF AtStep
  <2> QED
    BY <2>1, <2>2, <2>3
<1>10. ASSUME NEW u, Follower(t, u) PROVE OnTrail(u)'
  <2>1. /\ w.kind \in {"branch", "jump"}
        /\ u = Place(IF taken = TRUE THEN w.target ELSE t.pc + 2, n, After(t.pc, t.state))
    BY <1>6, <1>7, <1>10 DEF Follower
  <2>2. w.kind = "branch" => w.link = NoReg
    BY DEF Stops
  <2>3. taken \in BOOLEAN /\ (w.kind = "jump" => taken = TRUE)
    BY <1>2, <1>6, ConditionType
  <2>4. next = At(IF taken = TRUE THEN w.target ELSE t.pc + 2, after)
    BY <1>4, <2>1, <2>2, <2>3 DEF NextPoints
  <2> QED
    BY <1>5, <1>8, <2>1, <2>4 DEF OnTrail, Place, At
<1> QED
  BY <1>5, <1>7, <1>9, <1>10 DEF PlaceKept

LEMMA OnStep ==
    ASSUME IInv, CpuStep, NEW t \in Places, OnTrail(t)
    PROVE  ~Stops(t) => PlaceKept(t)
BY OnPlain, OnAnnul, OnControl DEF CpuStep

\* Where the scan stops no claim is made, and the trail ends.
LEMMA StopsAtEnd ==
    ASSUME NEW t, Stops(t)
    PROVE  ClaimsAt(t) = {} /\ \A u : ~Follower(t, u)
<1>1. prog[t.pc].kind \notin Plain
  <2>1. CASE prog[t.pc].kind = "branch" \/ prog[t.pc].kind \in {"invalid", "indirect"}
    BY <2>1 DEF Plain
  <2>2. CASE prog[t.pc].kind # "branch" /\ prog[t.pc].kind \notin {"invalid", "indirect"}
    <3>1. BranchTaken(prog[t.pc], t.state) = {TRUE}
      BY <2>2 DEF BranchTaken
    <3>2. BranchTaken(prog[t.pc], t.state) = BOOLEAN
      BY <2>2 DEF Stops
    <3> QED
      BY <3>1, <3>2
  <2> QED
    BY <2>1, <2>2
<1>2. ~Takes(t) /\ ~Annuls(t)
  BY DEF Takes, Annuls
<1> QED
  BY <1>1, <1>2 DEF ClaimsAt, Follower

-----------------------------------------------------------------------------
(* The scan makes the trail                                                *)

\* The trail depends on the body and the place the scan has come to.
LEMMA SameBody ==
    ASSUME prog' = prog
    PROVE  \A t : /\ \A u : Follower(t, u)' <=> Follower(t, u)
                  /\ ClaimsAt(t)' = ClaimsAt(t) /\ End(t)' = End(t)
BY DEF Follower, ClaimsAt, End, Takes, Annuls, Stops, After

LEMMA TrailKept ==
    ASSUME prog' = prog, prefix' = prefix, NEW T, NEW H, Trail(T, H)
    PROVE  Trail(T, H)'
BY SameBody DEF Trail

\* Claims of the last place are added.
LEMMA TrailEnds ==
    ASSUME NEW T, NEW H, Trail(T, H), NEW K, \A h \in K : h \in H \/ h \in ClaimsAt(prefix)
    PROVE  Trail(T, K)
BY DEF Trail

\* A place is added.
LEMMA TrailGrows ==
    ASSUME prog' = prog, NEW T, NEW H, Trail(T, H),
           NEW u \in Places, prefix' = u, Follower(prefix, u), u.steps = End(prefix)
    PROVE  Trail(T \cup {u}, H)'
<1> DEFINE U == T \cup {u}
<1>1. /\ T \subseteq Places /\ prefix \in T /\ Place(0, 0, ZERO) \in T
      /\ \A t \in T : t = prefix \/ \E v \in T : Follower(t, v)
      /\ \A t \in T : t = prefix \/ End(t) <= prefix.steps
      /\ \A t, v \in T : t = v \/ End(t) <= v.steps \/ End(v) <= t.steps
      /\ \A h \in H : \E t \in T : h \in ClaimsAt(t)
  BY DEF Trail
<1>2. \A t \in U : t = u \/ \E v \in U : Follower(t, v)
  BY <1>1
<1>3. \A t \in U : t = u \/ End(t) <= u.steps
  <2> SUFFICES ASSUME NEW t \in T, t # prefix PROVE End(t) <= End(prefix)
    <3>1. End(prefix) <= u.steps
      BY <1>1, EndType
    <3> QED
      BY <3>1
  <2>1. End(t) <= prefix.steps
    BY <1>1
  <2>2. End(t) \in Nat /\ End(prefix) \in Nat /\ End(prefix) > prefix.steps /\ prefix.steps \in Nat
    BY <1>1, EndType DEF Places
  <2> QED
    BY <2>1, <2>2
<1>4. \A t, v \in U : t = v \/ End(t) <= v.steps \/ End(v) <= t.steps
  BY <1>1, <1>3
<1>5. \A h \in H : \E t \in U : h \in ClaimsAt(t)
  BY <1>1
<1>6. U \subseteq Places /\ Place(0, 0, ZERO) \in U /\ prefix' \in U
  BY <1>1
<1> HIDE DEF U
<1>7. Trail(U, H)'
  BY <1>2, <1>3, <1>4, <1>5, <1>6, SameBody DEF Trail
<1> QED
  BY <1>7 DEF U

\* What a step of the scan does, in these terms.
Ended == /\ phase' = "run" /\ prefix' = prefix
         /\ \A h \in claims' : h \in found \/ h \in ClaimsAt(prefix)
Advanced == /\ phase' = "prefix" /\ prefix' \in Places /\ Follower(prefix, prefix')
            /\ prefix'.steps = End(prefix)
            /\ \A h \in found' : h \in found \/ h \in ClaimsAt(prefix)

LEMMA EndsWith ==
    ASSUME NEW H, PrefixEnds(H), \A h \in H : h \in found \/ h \in ClaimsAt(prefix)
    PROVE  Ended
BY DEF PrefixEnds, Ended

LEMMA GoesOn ==
    ASSUME phase = "prefix", NEW pc \in Int, NEW n \in Nat, n = End(prefix), NEW s \in Good,
           NEW H, PrefixGoesOn(pc, n, s, H), Follower(prefix, Place(pc, n, s)),
           \A h \in H : h \in found \/ h \in ClaimsAt(prefix)
    PROVE  Advanced
BY DEF PrefixGoesOn, Advanced, Place, Places

LEMMA PlainMoves ==
    ASSUME prog \in Programs, phase = "prefix", prefix \in Places, prefix.pc \in DOMAIN prog,
           PrefixPlain
    PROVE  Ended \/ Advanced
<1> DEFINE pc == prefix.pc
           s == prefix.state
           n == prefix.steps + 1
           w == prog[prefix.pc]
           H == found \cup AllAtStep(AccessHit(s, w, pc), n)
<1>1. w \in BodyWord /\ pc \in Nat /\ s \in Good /\ n \in Nat /\ w.kind \in Plain
  BY ProgramFacts DEF Places, PrefixPlain
<1>2. End(prefix) = n
  BY <1>1, KindsApart DEF End, Takes
<1>3. CASE w.kind = "barrier"
  BY <1>3, EndsWith DEF PrefixPlain
<1>4. CASE w.kind # "barrier"
  <2>1. PrefixGoesOn(pc + 1, n, Transfer(s, w, pc), H)
    BY <1>4 DEF PrefixPlain
  <2>2. Transfer(s, w, pc) \in Good
    BY <1>1, TransferGood
  <2>3. Follower(prefix, Place(pc + 1, n, Transfer(s, w, pc)))
    BY <1>1, <1>2 DEF Follower
  <2>4. \A h \in H : h \in found \/ h \in ClaimsAt(prefix)
    BY <1>1, <1>2 DEF ClaimsAt
  <2> HIDE DEF H
  <2> QED
    BY <1>1, <1>2, <2>1, <2>2, <2>3, <2>4, GoesOn
<1> QED
  BY <1>3, <1>4

LEMMA AnnulMoves ==
    ASSUME prog \in Programs, phase = "prefix", prefix \in Places, prefix.pc \in DOMAIN prog,
           PrefixAnnuls(prog[prefix.pc])
    PROVE  Advanced
<1> DEFINE w == prog[prefix.pc]
<1>1. prefix.pc \in Nat /\ prefix.state \in Good /\ prefix.steps + 1 \in Nat
  BY ProgramFacts DEF Places
<1>2. Annuls(prefix)
  BY DEF PrefixAnnuls, PrefixStops, Annuls, Stops
<1>3. End(prefix) = prefix.steps + 1
  BY <1>2 DEF Annuls, Takes, End
<1>4. PrefixGoesOn(prefix.pc + 2, prefix.steps + 1, prefix.state, found)
  BY DEF PrefixAnnuls
<1>5. Follower(prefix, Place(prefix.pc + 2, prefix.steps + 1, prefix.state))
  BY <1>2, <1>3 DEF Follower
<1> QED
  BY <1>1, <1>3, <1>4, <1>5, GoesOn

LEMMA ControlMoves ==
    ASSUME prog \in Programs, phase = "prefix", prefix \in Places, prefix.pc \in DOMAIN prog,
           DelaysWellFormed(prog), prog[prefix.pc].kind \in Control,
           PrefixControl(prog[prefix.pc])
    PROVE  Ended \/ Advanced
<1> DEFINE pc == prefix.pc
           w == prog[prefix.pc]
           d == prog[pc + 1]
           n == prefix.steps + 2
           taken == BranchTaken(w, prefix.state) = {TRUE}
           prior == Prior(prefix.state, w)
           after == Transfer(prior, d, pc + 1)
           seen == found \cup AllAtStep(AccessHit(prior, d, pc + 1), n)
           called == seen \cup AllAtStep(MemoryCall(after, w, pc), n)
           goes == PrefixGoesOn(IF taken THEN w.target ELSE pc + 2, n, after, seen)
<1>1. /\ w \in BodyWord /\ pc \in Nat /\ pc + 1 \in Nat /\ prefix.state \in Good /\ n \in Nat
      /\ pc + 1 \in DOMAIN prog /\ d \in BodyWord /\ d.kind \in Plain
  <2>1. w \in BodyWord /\ pc \in Nat /\ prefix.state \in Good /\ prefix.steps \in Nat
    BY ProgramFacts DEF Places
  <2>2. pc + 1 \in Delays(prog)
    BY DEF Delays, Controls
  <2>3. pc + 1 \in DOMAIN prog /\ pc + 1 \notin Controls(prog)
    BY <2>2 DEF DelaysWellFormed
  <2>4. d \in BodyWord
    BY <2>3, ProgramFacts
  <2>5. d.kind \in Plain \cup Control
    BY <2>4 DEF BodyWord, Word
  <2> QED
    BY <2>1, <2>3, <2>4, <2>5 DEF Controls
<1>2. prior \in Good /\ after \in Good /\ after = After(pc, prefix.state)
  BY <1>1, PriorGood, TransferGood DEF After
<1>3. Takes(prefix) /\ w.kind \notin Plain
  BY KindsApart DEF PrefixControl, PrefixStops, Takes, Stops
<1>4. End(prefix) = n
  BY <1>3 DEF End
<1>5. \A h \in seen : h \in found \/ h \in ClaimsAt(prefix)
  BY <1>2, <1>3, <1>4 DEF ClaimsAt
<1>6. w.kind = "call" => \A h \in called : h \in found \/ h \in ClaimsAt(prefix)
  BY <1>2, <1>3, <1>4 DEF ClaimsAt
<1>7. CASE PrefixEnds({}) \/ PrefixEnds(found)
  BY <1>7, EndsWith
<1>8. CASE w.kind = "call" /\ PrefixEnds(called)
  BY <1>6, <1>8, EndsWith
<1>9. CASE w.kind = "return" /\ PrefixEnds(seen)
  BY <1>5, <1>9, EndsWith
<1>10. ASSUME w.kind \notin {"call", "return"},
              PrefixGoesOn(IF taken THEN w.target ELSE pc + 2, n, after, seen)
       PROVE  Advanced
  <2> DEFINE to == IF taken THEN w.target ELSE pc + 2
  <2>1. to \in Int
    <3>1. w.target \in Int
      BY <1>1 DEF BodyWord, Word
    <3> HIDE DEF w, taken
    <3> QED
      BY <1>1, <3>1
  <2>2. w.kind \in {"branch", "jump"}
    BY <1>3, <1>10 DEF Control, Takes, Stops
  <2>3. Follower(prefix, Place(to, n, after))
    BY <1>2, <1>3, <1>4, <2>2 DEF Follower
  <2>4. PrefixGoesOn(to, n, after, seen)
    BY <1>10
  <2> HIDE DEF to, after, seen
  <2> QED
    BY <1>1, <1>2, <1>4, <1>5, <2>1, <2>3, <2>4, GoesOn
<1> QED
  BY <1>7, <1>8, <1>9, <1>10 DEF PrefixControl

LEMMA PrefixMoves ==
    ASSUME prog \in Programs, prefix \in Places, Prefix
    PROVE  Ended \/ Advanced
<1>1. phase = "prefix"
  BY DEF Prefix
<1>2. CASE PrefixEnds({}) \/ PrefixEnds(found)
  BY <1>2, EndsWith
<1>3. CASE ~(PrefixEnds({}) \/ PrefixEnds(found))
  <2>1. /\ DelaysWellFormed(prog) /\ prefix.pc \in DOMAIN prog
        /\ \/ PrefixPlain
           \/ /\ prog[prefix.pc].kind \in Control
              /\ PrefixAnnuls(prog[prefix.pc]) \/ PrefixControl(prog[prefix.pc])
    BY <1>3 DEF Prefix
  <2> QED
    BY <1>1, <2>1, PlainMoves, AnnulMoves, ControlMoves
<1> QED
  BY <1>2, <1>3

-----------------------------------------------------------------------------
(* The invariant is inductive                                              *)

LEMMA TrailInit == Init => PInv
<1> SUFFICES ASSUME Init PROVE PInv
  OBVIOUS
<1> DEFINE t == Place(0, 0, ZERO)
<1>1. phase \in {"scan", "prefix"} /\ prefix = t /\ found = {}
  BY DEF Init, Place
<1>2. t \in Places
  BY ZeroGood DEF Place, Places
<1> HIDE DEF t
<1>3. Trail({t}, found)
  BY <1>1, <1>2 DEF Trail, t
<1>4. RunOn({t}) /\ PrefixSound
  BY <1>1 DEF RunOn, PrefixSound
<1> QED
  BY <1>1, <1>3, <1>4 DEF PInv

LEMMA TrailScan == PInv /\ (Visit \/ GiveUp \/ Emit) => PInv'
<1> SUFFICES ASSUME PInv, Visit \/ GiveUp \/ Emit PROVE PInv'
  OBVIOUS
<1>1. /\ phase = "scan" /\ phase' \in {"scan", "prefix"}
      /\ prog' = prog /\ prefix' = prefix /\ found' = found
  BY DEF Visit, GiveUp, Emit, prefixVars
<1>2. PICK T : Trail(T, found)
  BY <1>1 DEF PInv
<1>3. Trail(T, found)'
  BY <1>1, <1>2, TrailKept
<1> QED
  BY <1>1, <1>3 DEF PInv, RunOn, PrefixSound

LEMMA TrailPrefix == IInv /\ PInv /\ Prefix => PInv'
<1> SUFFICES ASSUME IInv, PInv, Prefix PROVE PInv'
  OBVIOUS
<1>1. phase = "prefix" /\ prog' = prog /\ prog \in Programs
  BY DEF Prefix, IInv
<1>2. PICK T : Trail(T, found)
  BY <1>1 DEF PInv
<1>3. prefix \in Places
  BY <1>2 DEF Trail
<1>4. CASE Ended
  <2> DEFINE K == claims'
  <2>1. phase' = "run" /\ prefix' = prefix /\ \A h \in K : h \in found \/ h \in ClaimsAt(prefix)
    BY <1>4 DEF Ended
  <2>2. Trail(T, claims)'
    BY <1>1, <1>2, <2>1, SameBody DEF Trail
  <2> QED
    BY <2>1, <2>2 DEF PInv, RunOn, PrefixSound
<1>5. CASE Advanced
  <2>1. /\ phase' = "prefix" /\ prefix' \in Places /\ Follower(prefix, prefix')
        /\ prefix'.steps = End(prefix)
        /\ \A h \in found' : h \in found \/ h \in ClaimsAt(prefix)
    BY <1>5 DEF Advanced
  <2>2. PICK u \in Places : u = prefix'
    BY <2>1
  <2>3. PICK K : K = found'
    OBVIOUS
  <2>4. Trail(T, K)
    BY <1>2, <2>1, <2>3, TrailEnds
  <2>5. Trail(T \cup {u}, K)'
    BY <1>1, <2>1, <2>2, <2>4, TrailGrows
  <2>6. Trail(T \cup {u}, found)'
    BY <2>3, <2>5 DEF Trail
  <2> QED
    BY <2>1, <2>6 DEF PInv, RunOn, PrefixSound
<1> QED
  BY <1>1, <1>3, <1>4, <1>5, PrefixMoves

LEMMA TrailStart == IInv /\ PInv /\ Start => PInv'
<1> SUFFICES ASSUME IInv, PInv, Start PROVE PInv'
  OBVIOUS
<1>1. /\ phase = "run" /\ phase' = "running" /\ prog' = prog
      /\ prefix' = prefix /\ claims' = claims
  BY DEF Start, prefixVars
<1>2. PICK T : Trail(T, claims)
  BY <1>1 DEF PInv
<1>3. PICK regs : cpu' = [pc |-> 0, steps |-> 0, regs |-> regs]
  BY DEF Start
<1>4. cpu'.pc = 0 /\ cpu'.steps = 0
  BY <1>3
<1>5. Trail(T, claims)'
  BY <1>1, <1>2, SameBody DEF Trail
<1>6. RunOn(T)'
  <2>1. Place(0, 0, ZERO) \in T
    BY <1>2 DEF Trail
  <2>2. OnTrail(Place(0, 0, ZERO))'
    BY <1>4, AgreesZero DEF OnTrail, Place
  <2> QED
    BY <1>4, <2>1, <2>2 DEF RunOn
<1>7. PrefixSound'
  <2> SUFFICES ASSUME NEW h \in claims PROVE h.step # 0
    BY <1>1, <1>4 DEF PrefixSound
  <2>1. PICK t \in T : t \in Places /\ h \in ClaimsAt(t)
    BY <1>2 DEF Trail
  <2>2. t.steps \in Nat
    BY <2>1 DEF Places
  <2> QED
    BY <2>1, <2>2, ClaimStep, EndType
<1> QED
  BY <1>1, <1>5, <1>6, <1>7 DEF PInv

\* Past the trail nothing is claimed any more.
LEMMA TrailPast ==
    ASSUME phase' = "running", claims' = claims, cpu'.steps \in Nat, NEW T, Trail(T, claims)',
           NEW n \in Nat, n < cpu'.steps, \A h \in claims : h.step \in Nat /\ h.step <= n
    PROVE  PInv'
<1>1. \A h \in claims : h.step <= cpu'.steps /\ h.step # cpu'.steps
  OBVIOUS
<1>2. RunOn(T)'
  BY <1>1 DEF RunOn
<1>3. PrefixSound'
  BY <1>1 DEF PrefixSound
<1> QED
  BY <1>2, <1>3 DEF PInv

LEMMA TrailRun == IInv /\ PInv /\ CpuStep => PInv'
<1> SUFFICES ASSUME IInv, PInv, CpuStep PROVE PInv'
  OBVIOUS
<1>1. /\ Running /\ phase = "running" /\ phase' = "running" /\ prog' = prog
      /\ prefix' = prefix /\ claims' = claims
  BY DEF CpuStep, CpuPlain, CpuAnnul, CpuControl, Running, prefixVars
<1>2. PICK T : Trail(T, claims) /\ RunOn(T)
  BY <1>1 DEF PInv
<1>3. Trail(T, claims)'
  BY <1>1, <1>2, SameBody DEF Trail
<1>4. cpu.steps \in Nat /\ (cpu'.steps = cpu.steps + 1 \/ cpu'.steps = cpu.steps + 2)
  <2>1. cpu.steps \in Nat
    BY <1>1, <1>2 DEF RunOn
  <2>2. \E pc, regs : \/ cpu' = [pc |-> pc, steps |-> cpu.steps + 1, regs |-> regs]
                      \/ cpu' = [pc |-> pc, steps |-> cpu.steps + 2, regs |-> regs]
    BY DEF CpuStep, CpuPlain, CpuAnnul, CpuControl
  <2> QED
    BY <2>1, <2>2
<1>5. /\ T \subseteq Places /\ prefix \in T
      /\ \A t \in T : t = prefix \/ \E u \in T : Follower(t, u)
      /\ \A t \in T : t = prefix \/ End(t) <= prefix.steps
      /\ \A t, u \in T : t = u \/ End(t) <= u.steps \/ End(u) <= t.steps
      /\ \A h \in claims : \E t \in T : h \in ClaimsAt(t)
  BY <1>2 DEF Trail
<1>6. \A t \in T : t.steps \in Nat /\ End(t) \in Nat /\ End(t) > t.steps
  BY <1>5, EndType DEF Places
<1>7. \A h \in claims : \E t \in T : h \in ClaimsAt(t) /\ h.step = End(t) /\ h.step \in Nat
  BY <1>5, <1>6, ClaimStep
<1>8. CASE \A h \in claims : h.step <= cpu.steps
  BY <1>1, <1>3, <1>4, <1>7, <1>8, TrailPast
<1>9. ASSUME NEW t \in T, OnTrail(t) PROVE PInv'
  <2>1. cpu.steps = t.steps /\ t \in Places
    BY <1>5, <1>9 DEF OnTrail
  <2>2. CASE Stops(t)
    <3>1. t = prefix /\ ClaimsAt(t) = {}
      BY <1>5, <2>2, StopsAtEnd
    <3>2. ASSUME NEW h \in claims PROVE h.step <= cpu.steps
      <4>1. PICK u \in T : h \in ClaimsAt(u) /\ h.step = End(u)
        BY <1>7
      <4> QED
        BY <1>5, <2>1, <3>1, <4>1
    <3> QED
      BY <1>8, <3>2
  <2>3. CASE ~Stops(t)
    <3>1. PlaceKept(t)
      BY <1>9, <2>1, <2>3, OnStep
    <3>2. cpu'.steps = End(t)
      BY <2>3, <3>1 DEF PlaceKept
    <3>3. ASSUME NEW h \in claims, h.step = End(t) PROVE h \in access'
      <4>1. PICK u \in T : h \in ClaimsAt(u) /\ h.step = End(u)
        BY <1>7
      <4>2. u = t \/ End(u) <= t.steps \/ End(t) <= u.steps
        BY <1>5
      <4>3. /\ u.steps \in Nat /\ End(u) \in Nat /\ End(u) > u.steps
            /\ t.steps \in Nat /\ End(t) \in Nat /\ End(t) > t.steps
        BY <1>6
      <4>4. u = t
        BY <3>3, <4>1, <4>2, <4>3
      <4> QED
        BY <3>1, <4>1, <4>4 DEF PlaceKept
    <3>4. PrefixSound'
      BY <1>1, <3>2, <3>3 DEF PrefixSound
    <3>5. CASE t = prefix
      <4>1. ASSUME NEW h \in claims PROVE h.step <= End(t)
        <5>1. PICK u \in T : h \in ClaimsAt(u) /\ h.step = End(u)
          BY <1>7
        <5> QED
          BY <1>5, <1>6, <3>5, <5>1
      <4>2. RunOn(T)'
        BY <1>1, <1>6, <3>2, <4>1 DEF RunOn
      <4> QED
        BY <1>1, <1>3, <3>4, <4>2 DEF PInv
    <3>6. CASE t # prefix
      <4>1. PICK u \in T : Follower(t, u)
        BY <1>5, <3>6
      <4>2. OnTrail(u)'
        BY <3>1, <4>1 DEF PlaceKept
      <4>3. RunOn(T)'
        BY <1>6, <3>2, <4>2 DEF RunOn
      <4> QED
        BY <1>1, <1>3, <3>4, <4>3 DEF PInv
    <3> QED
      BY <3>5, <3>6
  <2> QED
    BY <2>2, <2>3
<1> QED
  BY <1>1, <1>2, <1>8, <1>9 DEF RunOn

-----------------------------------------------------------------------------
\* A claim of scan_prefix (ee_dataflow.py:390) holds in every run of the
\* function, whatever its registers, memory and callees hold: the step a claim
\* names is the access it claims.
THEOREM PrefixIsSound == Spec => []PrefixSound
<1>1. IInv /\ PInv /\ [Next]_vars => PInv'
  <2> SUFFICES ASSUME IInv, PInv, [Next]_vars PROVE PInv'
    OBVIOUS
  <2>1. CASE Visit \/ GiveUp \/ Emit
    BY <2>1, TrailScan
  <2>2. CASE Prefix
    BY <2>2, TrailPrefix
  <2>3. CASE Start
    BY <2>3, TrailStart
  <2>4. CASE CpuPlain \/ CpuAnnul \/ CpuControl
    BY <2>4, TrailRun DEF CpuStep
  <2>5. CASE UNCHANGED vars
    <3>1. /\ prog' = prog /\ phase' = phase /\ prefix' = prefix /\ found' = found
          /\ claims' = claims /\ cpu' = cpu /\ access' = access
      BY <2>5 DEF vars, prefixVars
    <3>2. PICK T : Trail(T, IF phase \in {"scan", "prefix"} THEN found ELSE claims) /\ RunOn(T)
      BY DEF PInv
    <3>3. Trail(T, IF phase \in {"scan", "prefix"} THEN found ELSE claims)' /\ RunOn(T)'
      BY <3>1, <3>2, SameBody DEF Trail, RunOn, OnTrail, Agrees
    <3> QED
      BY <3>1, <3>3 DEF PInv, PrefixSound
  <2> QED
    BY <2>1, <2>2, <2>3, <2>4, <2>5 DEF Next
<1>2. PInv => PrefixSound
  BY DEF PInv
<1> QED
  BY <1>1, <1>2, Invariant, TrailInit, PTL DEF Spec
=============================================================================
