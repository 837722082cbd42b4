------------------------- MODULE CpuExecutionProofs -------------------------
(***************************************************************************)
(* The main loop of the CPU keeps its promises for every length of line    *)
(* and frame, cost of instructions, and use of the timers by the game.     *)
(*                                                                         *)
(* The loop is a composition of operators on its state, so the invariant   *)
(* is one too: State and Flags hold of every intermediate state, Line of   *)
(* those between two events, OnTime of those between two steps.  Each      *)
(* operator has a lemma.                                                   *)
(***************************************************************************)
EXTENDS CpuExecution, TLAPS

\* The states of the loop, those inside an event included (next may be -1).
State ==
    [cycles : Int, event : Event, next : Int, hblanks : Int,
     v : 0 .. VMax - 1, hEnabled : BOOLEAN, vEnabled : BOOLEAN,
     hBeam : HBeams \cup {0}, vBeam : VBeams \cup {0}, hPos : Nat,
     active : SUBSET Source, pending : BOOLEAN, irqCount : 0 .. 3,
     masked : BOOLEAN, waiting : BOOLEAN, pc : {0, 1}, nmi : BOOLEAN,
     nmiCount : 0 .. NMITrigger, nmiActive : BOOLEAN, nmiEnabled : BOOLEAN,
     nmiSeen : BOOLEAN, scan : BOOLEAN, stage : {"top", "fetch", "dma"}]

\* The flags agree with each other.
Flags(s) ==
    /\ s \in State
    /\ s.active # {} => s.pending
    /\ s.waiting <=> s.pc = 0
    /\ s.nmi => s.nmiCount >= 1
    /\ s.nmiActive => s.v >= VBlankLine

\* The event that is due agrees with the beam.
InHBlank(s) == s.event \in {"hblankEnd", "htimerAfter"}
Line(s) ==
    /\ s.cycles \in Nat
    /\ s.next \in Nat
    /\ s.hblanks = IF InHBlank(s) THEN 1 ELSE 0
    /\ s.event = "hblankStart"  => s.next = HBlankStart
    /\ s.event = "hblankEnd"    => s.next = HMax
    /\ s.event = "htimerBefore" => s.next < HBlankStart
    /\ s.event = "htimerAfter"  => s.next > HBlankStart
    /\ InHBlank(s) => s.cycles >= HBlankStart

\* An iteration takes three times the cost of an instruction at most: the delivery
\* of an interrupt, the opcode, and WAI counts twice.  Reach is the latest the end
\* of a line is due by this account and HDMA alone.
Iteration == 3 * Cost
Reach == IF HMax >= HBlankStart + 2 * Iteration + HDMACost THEN HMax
         ELSE HBlankStart + 2 * Iteration + HDMACost
InReach(n) == \E end \in LineEnds : n <= end

\* How late the loop is for the event that is due, x cycles into an iteration: an
\* iteration for the timer, one more for the event after it.
Late(s, x) ==
    /\ s.event = "htimerBefore" => s.cycles < HBlankStart + Iteration + x
    /\ s.event = "hblankStart"  => s.cycles < HBlankStart + 2 * Iteration + x
    /\ s.event = "htimerAfter"  =>
         \/ \E end \in LineEnds : s.cycles < end + x
         \/ s.cycles < Reach + Iteration + x
    /\ s.event = "hblankEnd" =>
         \/ \E end \in LineEnds : s.cycles < end + Iteration + x
         \/ s.cycles < Reach + 2 * Iteration + x

\* The timer event is not overdue, or is the last of this part of the line: as the
\* registers are (LastTimer), or whatever the V timer does (Settled).
TimerDue(s) == s.event \in {"htimerBefore", "htimerAfter"}
LastTimer(s, x) ==
    TimerDue(s) => \/ s.cycles < s.next + x
                   \/ ~(s.hEnabled /\ LineMatches(s) /\ s.hPos > s.next)
Settled(s, x) ==
    TimerDue(s) => s.cycles < s.next + x \/ ~s.hEnabled \/ s.hPos <= s.next
Scheduled(s) == InReach(s.next) /\ (s.hEnabled => InReach(s.hPos))

\* Before the check for an event, and between two instructions.
Brisk(s, x) == Scheduled(s) /\ Late(s, x) /\ LastTimer(s, x)
OnPace(s, x) == Scheduled(s) /\ Late(s, x) /\ Settled(s, x)

\* The end of a frame takes a delivery more, without an instruction.
Allowance(s) == IF s.scan THEN 0 ELSE Cost

\* The H-blank of this line has had its HDMA.
HDMAOfLine(s) == IF InHBlank(s) THEN HDMACost ELSE 0

\* After a DMA the loop is late until the events that passed are processed.
OnTime(s) ==
    /\ Scheduled(s)
    /\ s.stage = "top"   => OnPace(s, Allowance(s))
    /\ s.stage = "fetch" => OnPace(s, Allowance(s) + Cost)
    /\ \E end \in LineEnds : s.cycles < end + 9 * Cost + DMACost + HDMAOfLine(s)

IInv == Flags(cpu) /\ Line(cpu) /\ OnTime(cpu)

\* The beam, and where the NMI of the frame is: most operators leave them alone.
SameBeam(s, t) ==
    /\ t.event = s.event /\ t.next = s.next /\ t.hblanks = s.hblanks
    /\ t.v = s.v /\ t.hEnabled = s.hEnabled /\ t.vEnabled = s.vEnabled
    /\ t.hBeam = s.hBeam /\ t.vBeam = s.vBeam /\ t.hPos = s.hPos
SameNMI(s, t) == t.nmi = s.nmi /\ t.nmiActive = s.nmiActive /\ t.v = s.v

\* Nor do they move the loop.
SameLoop(s, t) == t.stage = s.stage /\ t.scan = s.scan

-----------------------------------------------------------------------------

\* One field at a time can be given any value of its set.
LEMMA Update ==
    ASSUME NEW s \in State
    PROVE  /\ \A x \in Int : [s EXCEPT !.cycles = x] \in State
           /\ \A x \in Event : [s EXCEPT !.event = x] \in State
           /\ \A x \in Int : [s EXCEPT !.next = x] \in State
           /\ \A x \in Int : [s EXCEPT !.hblanks = x] \in State
           /\ \A x \in 0 .. VMax - 1 : [s EXCEPT !.v = x] \in State
           /\ \A x \in BOOLEAN : [s EXCEPT !.hEnabled = x] \in State
           /\ \A x \in BOOLEAN : [s EXCEPT !.vEnabled = x] \in State
           /\ \A x \in HBeams \cup {0} : [s EXCEPT !.hBeam = x] \in State
           /\ \A x \in VBeams \cup {0} : [s EXCEPT !.vBeam = x] \in State
           /\ \A x \in Nat : [s EXCEPT !.hPos = x] \in State
           /\ \A x \in SUBSET Source : [s EXCEPT !.active = x] \in State
           /\ \A x \in BOOLEAN : [s EXCEPT !.pending = x] \in State
           /\ \A x \in 0 .. 3 : [s EXCEPT !.irqCount = x] \in State
           /\ \A x \in BOOLEAN : [s EXCEPT !.masked = x] \in State
           /\ \A x \in BOOLEAN : [s EXCEPT !.waiting = x] \in State
           /\ \A x \in {0, 1} : [s EXCEPT !.pc = x] \in State
           /\ \A x \in BOOLEAN : [s EXCEPT !.nmi = x] \in State
           /\ \A x \in 0 .. NMITrigger : [s EXCEPT !.nmiCount = x] \in State
           /\ \A x \in BOOLEAN : [s EXCEPT !.nmiActive = x] \in State
           /\ \A x \in BOOLEAN : [s EXCEPT !.nmiEnabled = x] \in State
           /\ \A x \in BOOLEAN : [s EXCEPT !.nmiSeen = x] \in State
           /\ \A x \in BOOLEAN : [s EXCEPT !.scan = x] \in State
           /\ \A x \in {"top", "fetch", "dma"} : [s EXCEPT !.stage = x] \in State
<1>1. \A x \in Int : [s EXCEPT !.cycles = x] \in State
  BY DEF State
<1>2. \A x \in Event : [s EXCEPT !.event = x] \in State
  BY DEF State
<1>3. \A x \in Int : [s EXCEPT !.next = x] \in State
  BY DEF State
<1>4. \A x \in Int : [s EXCEPT !.hblanks = x] \in State
  BY DEF State
<1>5. \A x \in 0 .. VMax - 1 : [s EXCEPT !.v = x] \in State
  BY DEF State
<1>6. \A x \in BOOLEAN : [s EXCEPT !.hEnabled = x] \in State
  BY DEF State
<1>7. \A x \in BOOLEAN : [s EXCEPT !.vEnabled = x] \in State
  BY DEF State
<1>8. \A x \in HBeams \cup {0} : [s EXCEPT !.hBeam = x] \in State
  BY DEF State
<1>9. \A x \in VBeams \cup {0} : [s EXCEPT !.vBeam = x] \in State
  BY DEF State
<1>10. \A x \in Nat : [s EXCEPT !.hPos = x] \in State
  BY DEF State
<1>11. \A x \in SUBSET Source : [s EXCEPT !.active = x] \in State
  BY DEF State
<1>12. \A x \in BOOLEAN : [s EXCEPT !.pending = x] \in State
  BY DEF State
<1>13. \A x \in 0 .. 3 : [s EXCEPT !.irqCount = x] \in State
  BY DEF State
<1>14. \A x \in BOOLEAN : [s EXCEPT !.masked = x] \in State
  BY DEF State
<1>15. \A x \in BOOLEAN : [s EXCEPT !.waiting = x] \in State
  BY DEF State
<1>16. \A x \in {0, 1} : [s EXCEPT !.pc = x] \in State
  BY DEF State
<1>17. \A x \in BOOLEAN : [s EXCEPT !.nmi = x] \in State
  BY DEF State
<1>18. \A x \in 0 .. NMITrigger : [s EXCEPT !.nmiCount = x] \in State
  BY DEF State
<1>19. \A x \in BOOLEAN : [s EXCEPT !.nmiActive = x] \in State
  BY DEF State
<1>20. \A x \in BOOLEAN : [s EXCEPT !.nmiEnabled = x] \in State
  BY DEF State
<1>21. \A x \in BOOLEAN : [s EXCEPT !.nmiSeen = x] \in State
  BY DEF State
<1>22. \A x \in BOOLEAN : [s EXCEPT !.scan = x] \in State
  BY DEF State
<1>23. \A x \in {"top", "fetch", "dma"} : [s EXCEPT !.stage = x] \in State
  BY DEF State
<1> QED BY <1>1, <1>2, <1>3, <1>4, <1>5, <1>6, <1>7, <1>8, <1>9, <1>10, <1>11,
           <1>12, <1>13, <1>14, <1>15, <1>16, <1>17, <1>18, <1>19, <1>20, <1>21,
           <1>22, <1>23

-----------------------------------------------------------------------------
(* The IRQ lines                                                           *)

LEMMA WakeOK ==
    ASSUME NEW s, Flags(s)
    PROVE  /\ Flags(Wake(s)) /\ SameBeam(s, Wake(s)) /\ SameNMI(s, Wake(s))
           /\ SameLoop(s, Wake(s))
           /\ ~Wake(s).waiting /\ Wake(s).masked = s.masked
           /\ Wake(s).cycles = s.cycles /\ Wake(s).nmiCount = s.nmiCount
           /\ Wake(s).active = s.active /\ Wake(s).pending = s.pending
<1>1. CASE ~s.waiting
  BY <1>1 DEF Wake, Flags, State, SameBeam, SameNMI, SameLoop
<1>2. CASE s.waiting
  <2>1. s.pc = 0 /\ s \in State /\ s.pc + 1 \in {0, 1}
    BY <1>2 DEF Flags, State
  <2>2. [s EXCEPT !.waiting = FALSE] \in State
    BY <2>1, Update
  <2>3. [s EXCEPT !.waiting = FALSE, !.pc = s.pc + 1] \in State
    BY <2>1, <2>2, Update
  <2> QED BY <1>2, <2>1, <2>3 DEF Wake, Flags, State, SameBeam, SameNMI, SameLoop
<1> QED BY <1>1, <1>2

LEMMA SetIRQOK ==
    ASSUME NEW s, Flags(s), NEW source \in Source
    PROVE  LET t == S9xSetIRQ(s, source)
           IN  /\ Flags(t) /\ SameBeam(s, t) /\ SameNMI(s, t) /\ SameLoop(s, t)
               /\ t.cycles = s.cycles
<1> DEFINE w == Wake(s)
<1>1. /\ Flags(w) /\ w \in State /\ SameBeam(s, w) /\ SameNMI(s, w) /\ SameLoop(s, w)
      /\ w.cycles = s.cycles
  BY WakeOK DEF Flags
<1> HIDE DEF w
<1>2. w.active \cup {source} \in SUBSET Source
  BY <1>1 DEF State
<1> DEFINE n == IF s.waiting THEN 0 ELSE 3
<1>3. n \in 0 .. 3
  OBVIOUS
<1> HIDE DEF n
<1>4. [w EXCEPT !.active = w.active \cup {source}] \in State
  BY <1>1, <1>2, Update
<1>5. [w EXCEPT !.active = w.active \cup {source}, !.pending = TRUE] \in State
  BY <1>4, Update
<1> DEFINE t == [w EXCEPT !.active = w.active \cup {source}, !.pending = TRUE,
                          !.irqCount = n]
<1>6. t \in State
  BY <1>3, <1>5, Update
<1>7. Flags(t) /\ SameBeam(s, t) /\ SameNMI(s, t)
      /\ SameLoop(s, t) /\ t.cycles = s.cycles
  BY <1>1, <1>6 DEF Flags, State, SameBeam, SameNMI, SameLoop
<1>8. t = S9xSetIRQ(s, source)
  BY DEF S9xSetIRQ, w, n
<1> HIDE DEF t
<1> QED BY <1>7, <1>8

LEMMA ClearIRQOK ==
    ASSUME NEW s, Flags(s), NEW sources
    PROVE  LET t == ClearIRQ(s, sources)
           IN  /\ Flags(t) /\ SameBeam(s, t) /\ SameNMI(s, t) /\ SameLoop(s, t)
               /\ t.cycles = s.cycles
<1> DEFINE a == s.active \ sources
<1> DEFINE p == s.pending /\ a # {}
<1>1. s \in State /\ a \in SUBSET Source /\ p \in BOOLEAN
  BY DEF Flags, State
<1> DEFINE t == [s EXCEPT !.active = a, !.pending = p]
<1>2. t = ClearIRQ(s, sources)
  BY DEF ClearIRQ
<1>3. p <=> s.pending /\ a # {}
  OBVIOUS
<1>4. a # {} => s.active # {}
  OBVIOUS
<1> HIDE DEF a, p
<1>5. [s EXCEPT !.active = a] \in State
  BY <1>1, Update
<1>6. t \in State
  BY <1>1, <1>5, Update
<1>7. Flags(t) /\ SameBeam(s, t) /\ SameNMI(s, t)
      /\ SameLoop(s, t) /\ t.cycles = s.cycles
  BY <1>1, <1>3, <1>4, <1>6 DEF Flags, State, SameBeam, SameNMI, SameLoop
<1> HIDE DEF t
<1> QED BY <1>2, <1>7

-----------------------------------------------------------------------------
(* The pace of the loop                                                    *)

\* The dot the H timer is programmed to, in cycles.
LEMMA DotOK ==
    ASSUME NEW beam \in HBeams \cup {0}
    PROVE  LET dot == (beam * HMax) \div HCounterMax
           IN  dot \in Nat /\ (dot \in LineEnds \/ dot = 0)
<1> DEFINE x == beam * HMax
<1>1. HMax \in Nat /\ HCounterMax \in Nat \ {0} /\ HBeams \subseteq Nat
  BY LineAssumption, GameAssumption
<1>2. beam \in Nat
  BY <1>1
<1>3. x \in Nat
  BY <1>1, <1>2
<1>4. x \div HCounterMax \in Nat
  <2> HIDE DEF x
  <2> QED BY <1>1, <1>3
<1>5. beam = 0 => x \div HCounterMax = 0
  <2>1. beam = 0 => x = 0
    BY <1>1
  <2>2. 0 \div HCounterMax = 0
    BY <1>1
  <2> QED BY <2>1, <2>2
<1>6. beam \in HBeams => x \div HCounterMax \in LineEnds
  BY DEF LineEnds
<1> QED BY <1>4, <1>5, <1>6

\* A line may end as late as Reach, and never so late that the next one, begun
\* late, is not started in time.
LEMMA LineEndsOK ==
    /\ \A end \in LineEnds : end \in Nat /\ end + 4 * Cost <= HMax + HBlankStart
    /\ HMax \in LineEnds /\ Reach \in LineEnds
    /\ Reach \in Nat /\ HMax <= Reach
    /\ HBlankStart + 2 * Iteration + HDMACost <= Reach
    /\ Reach + 7 * Cost <= HMax + HBlankStart
    /\ HMax \in Nat /\ HBlankStart \in Nat /\ 0 < HBlankStart /\ HBlankStart < HMax
    /\ Cost \in Nat /\ 0 < Cost /\ DMACost \in Nat /\ HDMACost \in Nat /\ HDMACost <= HMax
<1>1. /\ HMax \in Nat /\ HBlankStart \in Nat /\ 0 < HBlankStart /\ HBlankStart < HMax
      /\ Cost \in Nat /\ 0 < Cost /\ DMACost \in Nat /\ HDMACost \in Nat
      /\ 13 * Cost + HDMACost <= HMax /\ 7 * Cost <= HBlankStart
  BY LineAssumption, CostAssumption, PaceAssumption
<1>2. ASSUME NEW b \in HBeams
      PROVE  LET end == (b * HMax) \div HCounterMax
             IN  end \in Nat /\ end + 4 * Cost <= HMax + HBlankStart
  <2>1. (b * HMax) \div HCounterMax \in Nat
    BY DotOK
  <2> QED BY <2>1, PaceAssumption
<1>3. /\ HMax + 4 * Cost <= HMax + HBlankStart
      /\ HBlankStart + 6 * Cost + HDMACost \in Nat
      /\ HBlankStart + 6 * Cost + HDMACost + 4 * Cost <= HMax + HBlankStart
  BY <1>1
<1>4. ASSUME NEW end \in LineEnds
      PROVE  end \in Nat /\ end + 4 * Cost <= HMax + HBlankStart
  <2>1. CASE end \in {HMax, HBlankStart + 6 * Cost + HDMACost}
    BY <1>1, <1>3, <2>1
  <2>2. CASE end \notin {HMax, HBlankStart + 6 * Cost + HDMACost}
    <3>1. PICK b \in HBeams : end = (b * HMax) \div HCounterMax
      BY <2>2 DEF LineEnds
    <3> QED BY <1>2, <3>1
  <2> QED BY <2>1, <2>2
<1>5. Reach \in {HMax, HBlankStart + 6 * Cost + HDMACost}
  BY <1>1 DEF Reach, Iteration
<1>6. HMax \in LineEnds /\ Reach \in LineEnds
  BY <1>5 DEF LineEnds
<1>7. Reach \in Nat /\ HMax <= Reach /\ HBlankStart + 2 * Iteration + HDMACost <= Reach
  BY <1>1 DEF Reach, Iteration
<1>8. Reach + 7 * Cost <= HMax + HBlankStart
  BY <1>1 DEF Reach, Iteration
<1>9. HDMACost <= HMax
  BY <1>1
<1> QED BY <1>1, <1>4, <1>6, <1>7, <1>8, <1>9

\* What HDMA takes on a line.
LEMMA HDMAOK ==
    ASSUME NEW hdma \in HDMATimes
    PROVE  hdma \in Nat /\ hdma <= HDMACost /\ HDMACost \in Nat
BY CostAssumption

LEMMA IterationOK == Iteration \in Nat \ {0} /\ Iteration \in Int
BY CostAssumption DEF Iteration

\* What the pace depends on, the clock left aside.
SameTimer(s, t) ==
    /\ t.event = s.event /\ t.next = s.next
    /\ t.hEnabled = s.hEnabled /\ t.hPos = s.hPos

\* The clock advances: the loop is further into the iteration.
LEMMA LaterPace ==
    ASSUME NEW s, NEW t, SameTimer(s, t), NEW x \in Int, NEW y \in Int,
           s.cycles \in Int, t.cycles \in Int, s.next \in Int,
           t.cycles + x <= s.cycles + y
    PROVE  /\ Scheduled(s) => Scheduled(t)
           /\ Late(s, x) => Late(t, y)
           /\ Settled(s, x) => Settled(t, y)
           /\ SameBeam(s, t) /\ LastTimer(s, x) => LastTimer(t, y)
<1>1. Scheduled(s) => Scheduled(t)
  BY DEF SameTimer, Scheduled
<1>2. ASSUME NEW k \in Int, s.cycles < k + x
      PROVE  t.cycles < k + y
  BY <1>2
<1>0. /\ \A end \in LineEnds : end \in Int /\ end + Iteration \in Int
      /\ Reach + Iteration \in Int /\ Reach + 2 * Iteration \in Int
      /\ HBlankStart + Iteration \in Int /\ HBlankStart + 2 * Iteration \in Int
  BY LineEndsOK DEF Iteration
<1>3. Late(s, x) => Late(t, y)
  BY <1>0, <1>2 DEF SameTimer, Late
<1>4. Settled(s, x) => Settled(t, y)
  BY <1>2 DEF SameTimer, Settled, TimerDue
<1>5. SameBeam(s, t) /\ LastTimer(s, x) => LastTimer(t, y)
  BY <1>2 DEF SameBeam, LastTimer, TimerDue, LineMatches
<1> QED BY <1>1, <1>3, <1>4, <1>5

\* Before the event that is due the loop is not late.
LEMMA NotLate ==
    ASSUME NEW s, Flags(s), Line(s), Scheduled(s),
           NEW x \in Nat, s.cycles < s.next + x
    PROVE  OnPace(s, x)
<1>1. /\ s.cycles \in Nat /\ s.next \in Nat
      /\ \A end \in LineEnds : end \in Nat
      /\ Reach \in Nat /\ HMax <= Reach /\ HMax \in Nat /\ HBlankStart \in Nat
      /\ Cost \in Nat
  BY LineEndsOK DEF Line
<1>2. Late(s, x)
  <2>1. s.event = "htimerBefore" => s.cycles < HBlankStart + Iteration + x
    BY <1>1 DEF Line, Iteration
  <2>2. s.event = "hblankStart"  => s.cycles < HBlankStart + 2 * Iteration + x
    BY <1>1 DEF Line, Iteration
  <2>3. \E end \in LineEnds : s.cycles < end + x
    BY <1>1 DEF Scheduled, InReach
  <2>4. s.event = "hblankEnd" => s.cycles < Reach + 2 * Iteration + x
    BY <1>1 DEF Line, Iteration
  <2> QED BY <2>1, <2>2, <2>3, <2>4 DEF Late
<1>3. Settled(s, x)
  BY DEF Settled
<1> QED BY <1>2, <1>3 DEF OnPace

\* A loop that is on pace ends the line.
LEMMA PaceBound ==
    ASSUME NEW s, Flags(s), Line(s), NEW x \in Nat, x <= Iteration, Late(s, x)
    PROVE  \E end \in LineEnds : s.cycles < end + 9 * Cost
<1>1. /\ s.cycles \in Nat /\ s.event \in Event
      /\ \A end \in LineEnds : end \in Nat
      /\ HMax \in LineEnds /\ Reach \in LineEnds
      /\ HMax \in Nat /\ HBlankStart \in Nat /\ HBlankStart < HMax
      /\ Cost \in Nat
  BY LineEndsOK DEF Flags, State, Line
<1>2. CASE s.event \in {"htimerBefore", "hblankStart"}
  BY <1>1, <1>2 DEF Late, Iteration
<1>3. CASE s.event = "htimerAfter"
  <2>1. CASE \E end \in LineEnds : s.cycles < end + x
    BY <1>1, <2>1 DEF Iteration
  <2>2. CASE s.cycles < Reach + Iteration + x
    BY <1>1, <2>2 DEF Iteration
  <2> QED BY <1>3, <2>1, <2>2 DEF Late
<1>4. CASE s.event = "hblankEnd"
  <2>1. CASE \E end \in LineEnds : s.cycles < end + Iteration + x
    BY <1>1, <2>1 DEF Iteration
  <2>2. CASE s.cycles < Reach + 2 * Iteration + x
    BY <1>1, <2>2 DEF Iteration
  <2> QED BY <1>4, <2>1, <2>2 DEF Late
<1> QED BY <1>1, <1>2, <1>3, <1>4 DEF Event

\* Between two instructions the V timer may change its mind.
LEMMA OnPaceIsBrisk ==
    ASSUME NEW s, s \in State, s.next \in Int, NEW x, OnPace(s, x)
    PROVE  Brisk(s, x)
<1>1. s.hPos \in Nat
  BY DEF State
<1> QED BY <1>1 DEF OnPace, Brisk, Settled, LastTimer

-----------------------------------------------------------------------------
(* The events of a line                                                    *)

\* What the body of an event leaves for S9xReschedule.
EventDone(s) ==
    /\ Flags(s)
    /\ s.cycles \in Nat
    /\ s.next <= s.cycles
    /\ s.hblanks = IF s.event \in {"hblankStart", "htimerAfter"} THEN 1 ELSE 0
    /\ s.event = "hblankStart"  => s.next = HBlankStart
    /\ s.event = "hblankEnd"    => s.next = -1
    /\ s.event = "htimerBefore" => s.next \in Nat /\ s.next < HBlankStart
    /\ s.event = "htimerAfter"  => s.next > HBlankStart

LEMMA RescheduleOK ==
    ASSUME NEW s, EventDone(s)
    PROVE  LET t == S9xReschedule(s)
           IN  /\ Flags(t) /\ Line(t) /\ SameNMI(s, t) /\ SameLoop(s, t)
               /\ ~HTimerMissed(t) /\ t.vEnabled = s.vEnabled
               /\ t.cycles = s.cycles /\ t.hblanks = s.hblanks
               /\ t.hEnabled = s.hEnabled /\ t.hPos = s.hPos
               /\ TimerDue(t) => /\ s.hEnabled /\ LineMatches(s)
                                 /\ t.next = s.hPos /\ s.hPos > s.next
               /\ t.event = "htimerAfter" => t.next < HMax
<1> DEFINE end == s.event \in {"hblankStart", "htimerAfter"}
<1> DEFINE max == IF end THEN HMax ELSE HBlankStart
<1> DEFINE timer == s.hEnabled /\ s.hPos < max /\ s.hPos > s.next /\ LineMatches(s)
<1> DEFINE next == IF timer THEN s.hPos ELSE max
<1> DEFINE event == IF timer
                    THEN IF s.hPos < HBlankStart THEN "htimerBefore" ELSE "htimerAfter"
                    ELSE IF end THEN "hblankEnd" ELSE "hblankStart"
<1> DEFINE t == [s EXCEPT !.next = next, !.event = event]
<1>1. t = S9xReschedule(s)
  BY DEF S9xReschedule
<1> HIDE DEF t, next, event, timer, max, end
<1>a. HMax \in Nat /\ HBlankStart \in Nat /\ HBlankStart < HMax /\ 0 < HBlankStart
  BY LineAssumption
<1>b. /\ s \in State /\ s.hPos \in Nat /\ s.cycles \in Nat /\ s.next \in Int
      /\ s.event \in Event
  BY DEF EventDone, Flags, State
<1>c. max \in Nat
  BY <1>a DEF max
<1>2. next \in Int /\ event \in Event
  <2>1. next \in Int
    BY <1>b, <1>c DEF next
  <2>2. event \in Event
    BY DEF event, Event
  <2> QED BY <2>1, <2>2
<1>3. /\ t.next = next /\ t.event = event /\ t.cycles = s.cycles
      /\ t.hblanks = s.hblanks /\ t.hPos = s.hPos /\ t.hEnabled = s.hEnabled
      /\ t.vEnabled = s.vEnabled /\ t.vBeam = s.vBeam
      /\ SameNMI(s, t) /\ SameLoop(s, t)
      /\ t.active = s.active /\ t.pending = s.pending /\ t.pc = s.pc
      /\ t.waiting = s.waiting /\ t.nmiCount = s.nmiCount
  BY <1>b DEF State, SameNMI, SameLoop, t
<1>4. t \in State
  <2>1. [s EXCEPT !.next = next] \in State
    BY <1>b, <1>2, Update
  <2> QED BY <1>2, <2>1, Update DEF t
<1>5. Flags(t)
  BY <1>3, <1>4 DEF EventDone, Flags, SameNMI, SameLoop
<1>d. s.next <= s.cycles
  BY DEF EventDone
<1>e. s.event \in {"hblankStart", "htimerAfter"}
        => s.next >= HBlankStart /\ s.hblanks = 1
  BY <1>a, <1>b DEF EventDone
<1>f. s.event \in {"hblankEnd", "htimerBefore"} => s.hblanks = 0
  BY DEF EventDone
<1>6. Line(t) /\ ~HTimerMissed(t)
  <2>1. CASE timer
    <3>1. t.next = s.hPos /\ s.hPos > s.next
      BY <1>3, <2>1 DEF timer, next
    <3>2. CASE s.hPos < HBlankStart
      <4>1. t.event = "htimerBefore"
        BY <1>3, <2>1, <3>2 DEF event
      <4>2. s.event \in {"hblankEnd", "htimerBefore"}
        BY <1>a, <1>b, <1>e, <3>1, <3>2 DEF Event
      <4>3. t.hblanks = 0
        BY <1>3, <1>f, <4>2
      <4> QED BY <1>a, <1>b, <1>3, <3>1, <3>2, <4>1, <4>3 DEF Line, InHBlank, HTimerMissed
    <3>3. CASE ~(s.hPos < HBlankStart)
      <4>1. t.event = "htimerAfter"
        BY <1>3, <2>1, <3>3 DEF event
      <4>2. s.event \in {"hblankStart", "htimerAfter"}
        BY <1>a, <1>b, <2>1, <3>3 DEF timer, max, end
      <4>3. t.hblanks = 1 /\ s.next >= HBlankStart /\ s.cycles >= s.next
        BY <1>3, <1>d, <1>e, <4>2
      <4> QED BY <1>a, <1>b, <1>3, <3>1, <3>3, <4>1, <4>3 DEF Line, InHBlank, HTimerMissed
    <3> QED BY <3>2, <3>3
  <2>2. CASE ~timer
    <3>1. t.next = max /\ t.event = IF end THEN "hblankEnd" ELSE "hblankStart"
      BY <1>3, <2>2 DEF next, event
    <3>2. ~HTimerMissed(t)
      <4>1. LineMatches(t) <=> LineMatches(s)
        BY <1>3 DEF LineMatches, SameNMI, SameLoop
      <4>2. CASE s.hEnabled /\ LineMatches(s) /\ s.hPos < max
        <5>1. s.hPos <= s.next
          BY <1>b, <2>2, <4>2 DEF timer
        <5> QED BY <1>b, <1>d, <1>3, <5>1 DEF HTimerMissed
      <4>3. CASE ~(s.hEnabled /\ LineMatches(s) /\ s.hPos < max)
        BY <1>b, <1>c, <1>3, <3>1, <4>1, <4>3 DEF HTimerMissed
      <4> QED BY <4>2, <4>3
    <3>3. Line(t)
      <4>1. CASE end
        <5>1. t.hblanks = 1 /\ s.next >= HBlankStart /\ s.cycles >= s.next
          BY <1>3, <1>d, <1>e, <4>1 DEF end
        <5> QED BY <1>a, <1>b, <1>3, <3>1, <4>1, <5>1 DEF Line, InHBlank, max
      <4>2. CASE ~end
        <5>1. t.hblanks = 0
          BY <1>b, <1>3, <1>f, <4>2 DEF end, Event
        <5> QED BY <1>a, <1>b, <1>3, <3>1, <4>2, <5>1 DEF Line, InHBlank, max
      <4> QED BY <4>1, <4>2
    <3> QED BY <3>2, <3>3
  <2> QED BY <2>1, <2>2
<1>7. TimerDue(t) => timer
  BY <1>3 DEF event, TimerDue
<1>8. t.event = "htimerAfter" => t.next < HMax
  BY <1>a, <1>b, <1>3, <1>7 DEF TimerDue, timer, next, max
<1>9. TimerDue(t) => /\ s.hEnabled /\ LineMatches(s)
                     /\ t.next = s.hPos /\ s.hPos > s.next
  BY <1>3, <1>7 DEF timer, next
<1> QED BY <1>1, <1>3, <1>5, <1>6, <1>8, <1>9

\* An NMI is raised at the start of V-blank, or later.
LEMMA RaiseNMIOK ==
    ASSUME NEW s, Flags(s), s.v >= VBlankLine
    PROVE  LET t == RaiseNMI(s)
           IN  /\ Flags(t) /\ SameBeam(s, t) /\ SameLoop(s, t) /\ t.cycles = s.cycles
<1> DEFINE t == [s EXCEPT !.nmiActive = TRUE, !.nmi = TRUE, !.nmiCount = NMITrigger]
<1>1. s \in State /\ NMITrigger \in 0 .. NMITrigger /\ NMITrigger >= 1
  BY TriggerAssumption DEF Flags
<1>2. [s EXCEPT !.nmiActive = TRUE] \in State
  BY <1>1, Update
<1>3. [s EXCEPT !.nmiActive = TRUE, !.nmi = TRUE] \in State
  BY <1>2, Update
<1>4. t \in State
  BY <1>1, <1>3, Update
<1>5. Flags(t) /\ SameBeam(s, t) /\ SameLoop(s, t) /\ t.cycles = s.cycles
  BY <1>1, <1>4 DEF Flags, State, SameBeam, SameLoop
<1> HIDE DEF t
<1> QED BY <1>5 DEF RaiseNMI, t

\* The line that ends took HMax cycles at least.
LEMMA NextLineOK ==
    ASSUME NEW s, Flags(s), Line(s), s.event = "hblankEnd", s.cycles >= HMax
    PROVE  LET t == NextLine(s)
           IN  /\ Flags(t) /\ t.cycles \in Nat /\ t.next = -1 /\ t.hblanks = 0
               /\ t.event = "hblankEnd" /\ t.nmi = s.nmi
               /\ t.vEnabled = s.vEnabled
               /\ t.v < s.v \/ (t.v = s.v + 1 /\ t.nmiActive = s.nmiActive)
               /\ t.cycles = s.cycles - HMax /\ t.stage = s.stage
               /\ t.hEnabled = s.hEnabled /\ t.hPos = s.hPos
<1> DEFINE c == s.cycles - HMax
<1> DEFINE u == [s EXCEPT !.cycles = c, !.next = -1, !.hblanks = 0]
<1>1. /\ s \in State /\ HMax \in Nat /\ VMax \in Nat /\ c \in Nat
      /\ VBlankLine \in Nat /\ 0 < VBlankLine /\ VBlankLine < VMax
      /\ s.v \in 0 .. VMax - 1
  BY LineAssumption, FrameAssumption DEF Flags, Line, State, VBlankLine, FirstVisibleLine
<1> HIDE DEF c
<1>2. u \in State
  <2>0. c \in Int /\ -1 \in Int /\ 0 \in Int
    BY <1>1
  <2>1. [s EXCEPT !.cycles = c] \in State
    BY <1>1, <2>0, Update
  <2>2. [s EXCEPT !.cycles = c, !.next = -1] \in State
    BY <2>0, <2>1, Update
  <2> QED BY <2>0, <2>2, Update
<1>3. /\ u.cycles = c /\ u.next = -1 /\ u.hblanks = 0 /\ u.event = "hblankEnd"
      /\ u.vEnabled = s.vEnabled /\ SameNMI(s, u) /\ u.nmiCount = s.nmiCount
      /\ u.active = s.active /\ u.pending = s.pending
      /\ u.waiting = s.waiting /\ u.pc = s.pc /\ u.stage = s.stage
      /\ u.hEnabled = s.hEnabled /\ u.hPos = s.hPos
  BY <1>1 DEF State, SameNMI
<1> DEFINE over == [u EXCEPT !.v = 0, !.nmiActive = FALSE, !.scan = TRUE]
<1> DEFINE more == [u EXCEPT !.v = u.v + 1]
<1>4. NextLine(s) = IF s.v + 1 >= VMax THEN over ELSE more
  BY DEF NextLine, c
<1> HIDE DEF u
<1>5. CASE s.v + 1 >= VMax
  <2>0. 0 \in 0 .. VMax - 1
    BY <1>1
  <2>1. [u EXCEPT !.v = 0] \in State
    BY <1>2, <2>0, Update
  <2>2. [u EXCEPT !.v = 0, !.nmiActive = FALSE] \in State
    BY <2>1, Update
  <2>3. over \in State
    BY <2>2, Update
  <2>4. /\ over.cycles = c /\ over.next = -1 /\ over.hblanks = 0
        /\ over.event = "hblankEnd" /\ over.vEnabled = s.vEnabled
        /\ over.nmi = s.nmi /\ over.v = 0
        /\ ~over.nmiActive /\ over.nmiCount = s.nmiCount
        /\ over.active = s.active /\ over.pending = s.pending
        /\ over.waiting = s.waiting /\ over.pc = s.pc /\ over.stage = s.stage
        /\ over.hEnabled = s.hEnabled /\ over.hPos = s.hPos
    BY <1>2, <1>3 DEF State, SameNMI
  <2> HIDE DEF over
  <2>5. Flags(over)
    BY <2>3, <2>4 DEF Flags
  <2> QED BY <1>1, <1>4, <1>5, <2>4, <2>5 DEF c
<1>6. CASE ~(s.v + 1 >= VMax)
  <2>1. u.v + 1 \in 0 .. VMax - 1
    BY <1>1, <1>3, <1>6 DEF SameNMI
  <2>2. more \in State
    BY <1>2, <2>1, Update
  <2>3. /\ more.cycles = c /\ more.next = -1 /\ more.hblanks = 0
        /\ more.event = "hblankEnd" /\ more.vEnabled = s.vEnabled
        /\ more.nmi = s.nmi /\ more.v = s.v + 1
        /\ more.nmiActive = s.nmiActive /\ more.nmiCount = s.nmiCount
        /\ more.active = s.active /\ more.pending = s.pending
        /\ more.waiting = s.waiting /\ more.pc = s.pc /\ more.stage = s.stage
        /\ more.hEnabled = s.hEnabled /\ more.hPos = s.hPos
    BY <1>2, <1>3 DEF State, SameNMI
  <2> HIDE DEF more
  <2>4. Flags(more)
    BY <1>1, <2>2, <2>3 DEF Flags
  <2> QED BY <1>1, <1>4, <1>6, <2>3, <2>4 DEF c
<1> QED BY <1>5, <1>6

LEMMA VTimerOK ==
    ASSUME NEW s, Flags(s)
    PROVE  LET t == VTimer(s)
           IN  Flags(t) /\ SameBeam(s, t) /\ SameNMI(s, t)
               /\ SameLoop(s, t) /\ t.cycles = s.cycles
BY SetIRQOK DEF VTimer, Source, TimerSource, SameBeam, SameNMI, SameLoop

LEMMA HTimerOK ==
    ASSUME NEW s, Flags(s)
    PROVE  LET t == HTimer(s)
           IN  Flags(t) /\ SameBeam(s, t) /\ SameNMI(s, t)
               /\ SameLoop(s, t) /\ t.cycles = s.cycles
BY SetIRQOK DEF HTimer, Source, TimerSource, SameBeam, SameNMI, SameLoop

\* V-blank raises an NMI on its first line only.
LEMMA VBlankOK ==
    ASSUME NEW s, Flags(s)
    PROVE  LET t == VBlank(s)
           IN  /\ Flags(t) /\ SameBeam(s, t) /\ SameLoop(s, t) /\ t.cycles = s.cycles
               /\ t.nmi => s.nmi \/ s.v = VBlankLine
<1>1. s \in State /\ VBlankLine \in Nat /\ VBlankLine # FirstVisibleLine
  BY FrameAssumption DEF Flags, VBlankLine, FirstVisibleLine
<1>2. CASE s.v = VBlankLine
  <2> DEFINE u == [s EXCEPT !.nmiSeen = TRUE]
  <2>1. u \in State
    BY <1>1, Update
  <2>2. Flags(u) /\ SameBeam(s, u)
        /\ SameLoop(s, u) /\ u.cycles = s.cycles /\ u.nmi = s.nmi
    BY <1>1, <2>1 DEF Flags, State, SameBeam, SameLoop
  <2>3. VBlank(s) = IF s.nmiEnabled THEN RaiseNMI(u) ELSE u
    BY <1>1, <1>2 DEF VBlank
  <2> HIDE DEF u
  <2>4. u.v >= VBlankLine
    BY <1>1, <1>2, <2>2 DEF SameBeam, SameLoop
  <2> QED BY <1>2, <2>2, <2>3, <2>4, RaiseNMIOK DEF SameBeam, SameLoop
<1>3. CASE s.v # VBlankLine /\ s.v = FirstVisibleLine
  <2> DEFINE u == [s EXCEPT !.nmiSeen = FALSE, !.nmi = FALSE]
  <2>1. [s EXCEPT !.nmiSeen = FALSE] \in State
    BY <1>1, Update
  <2>2. u \in State
    BY <2>1, Update
  <2>3. Flags(u) /\ SameBeam(s, u) /\ SameLoop(s, u) /\ u.cycles = s.cycles /\ ~u.nmi
    BY <1>1, <2>2 DEF Flags, State, SameBeam, SameLoop
  <2>4. VBlank(s) = u
    BY <1>3 DEF VBlank
  <2> HIDE DEF u
  <2> QED BY <2>3, <2>4
<1>4. CASE s.v # VBlankLine /\ s.v # FirstVisibleLine
  BY <1>4 DEF VBlank, SameBeam, SameLoop
<1> QED BY <1>2, <1>3, <1>4

\* What OneNMIPerFrame says of a step, on the states between operators.
NMIStep(s, t) == ~s.nmi /\ t.nmi => ~s.nmiActive \/ t.v < s.v

\* The event that follows another one.
Follows(s, t) ==
    /\ t.stage = s.stage /\ t.hEnabled = s.hEnabled /\ t.hPos = s.hPos
    /\ s.event = "hblankEnd" => t.cycles = s.cycles - HMax
    /\ s.event = "hblankStart" => s.cycles <= t.cycles /\ t.cycles <= s.cycles + HDMACost
    /\ TimerDue(s) => t.cycles = s.cycles
    /\ s.event # "hblankEnd" => t.scan = s.scan
    /\ InHBlank(t) <=> s.event \in {"hblankStart", "htimerAfter"}
    /\ TimerDue(t) => t.hEnabled /\ t.next = t.hPos
    /\ TimerDue(s) /\ TimerDue(t) => LineMatches(s) /\ s.hPos > s.next
    /\ t.event = "htimerAfter" => t.next < HMax

\* An event that is due leaves the invariant, and no H timer behind the beam.
LEMMA ProcessingOK ==
    ASSUME NEW s, Flags(s), Line(s), s.cycles >= s.next, NEW hdma \in HDMATimes
    PROVE  LET t == S9xDoHBlankProcessing(s, hdma)
           IN  /\ Flags(t) /\ Line(t) /\ ~HTimerMissed(t) /\ NMIStep(s, t)
               /\ t.vEnabled = s.vEnabled /\ Follows(s, t)
<1>0. /\ s \in State /\ s.v \in 0 .. VMax - 1 /\ VMax \in Nat
      /\ s.cycles \in Nat /\ s.next \in Nat /\ s.event \in Event
      /\ HMax \in Nat /\ HBlankStart \in Nat /\ 0 < HBlankStart
      /\ VBlankLine \in Nat
      /\ s.nmiActive => s.v >= VBlankLine
  BY LineAssumption, FrameAssumption
  DEF Flags, Line, State, VBlankLine, FirstVisibleLine
<1>1. CASE s.event = "hblankStart"
  <2> DEFINE c == IF s.v <= ScreenHeight THEN s.cycles + hdma ELSE s.cycles
  <2> DEFINE u == [s EXCEPT !.hblanks = s.hblanks + 1, !.cycles = c]
  <2>1. s.hblanks = 0 /\ s.next = HBlankStart
    BY <1>1 DEF Line, InHBlank
  <2>c. c \in Nat /\ s.cycles <= c /\ c <= s.cycles + HDMACost
    BY <1>0, HDMAOK
  <2>5. S9xDoHBlankProcessing(s, hdma) = S9xReschedule(u)
    BY <1>1 DEF S9xDoHBlankProcessing, S9xDoHDMA
  <2> HIDE DEF c
  <2>2. s.hblanks + 1 \in Int /\ c \in Int
    BY <2>1, <2>c
  <2>3. u \in State
    <3>1. [s EXCEPT !.hblanks = s.hblanks + 1] \in State
      BY <1>0, <2>2, Update
    <3> QED BY <2>2, <3>1, Update
  <2>4. SameNMI(s, u) /\ SameLoop(s, u) /\ u.hPos = s.hPos
        /\ u.hEnabled = s.hEnabled /\ u.vBeam = s.vBeam
        /\ u.vEnabled = s.vEnabled /\ u.event = s.event /\ u.next = s.next
        /\ u.cycles = c /\ u.hblanks = 1
        /\ u.nmiCount = s.nmiCount /\ u.active = s.active
        /\ u.pending = s.pending /\ u.waiting = s.waiting /\ u.pc = s.pc
    BY <1>0, <2>1 DEF State, SameNMI, SameLoop
  <2> HIDE DEF u
  <2>6. EventDone(u)
    <3>1. Flags(u)
      BY <2>3, <2>4 DEF Flags, SameNMI
    <3> QED BY <1>0, <1>1, <2>1, <2>c, <2>4, <3>1 DEF EventDone
  <2> DEFINE t == S9xReschedule(u)
  <2>7. /\ Flags(t) /\ Line(t) /\ SameNMI(u, t) /\ SameLoop(u, t)
        /\ ~HTimerMissed(t) /\ t.vEnabled = u.vEnabled
        /\ t.cycles = u.cycles /\ t.hblanks = u.hblanks
        /\ t.hEnabled = u.hEnabled /\ t.hPos = u.hPos
        /\ TimerDue(t) => u.hEnabled /\ t.next = u.hPos
        /\ t.event = "htimerAfter" => t.next < HMax
    BY <2>6, RescheduleOK
  <2> HIDE DEF t
  <2>8. Follows(s, t)
    BY <1>1, <2>c, <2>4, <2>7 DEF Follows, SameLoop, Line, TimerDue
  <2>9. NMIStep(s, t)
    BY <2>4, <2>7 DEF SameNMI, NMIStep
  <2> QED BY <2>4, <2>5, <2>7, <2>8, <2>9 DEF t
<1>2. CASE s.event = "hblankEnd"
  <2> DEFINE n == NextLine(s)
  <2> DEFINE w == VTimer(n)
  <2> DEFINE b == VBlank(w)
  <2>1. s.cycles >= HMax
    BY <1>0, <1>2 DEF Line
  <2>2. /\ Flags(n) /\ n.cycles \in Nat /\ n.next = -1 /\ n.hblanks = 0
        /\ n.event = "hblankEnd" /\ n.nmi = s.nmi /\ n.vEnabled = s.vEnabled
        /\ n.v < s.v \/ (n.v = s.v + 1 /\ n.nmiActive = s.nmiActive)
        /\ n.cycles = s.cycles - HMax /\ n.stage = s.stage
        /\ n.hEnabled = s.hEnabled /\ n.hPos = s.hPos
    BY <1>2, <2>1, NextLineOK
  <2>3. S9xDoHBlankProcessing(s, hdma) = S9xReschedule(b)
    BY <1>2 DEF S9xDoHBlankProcessing
  <2> HIDE DEF n
  <2>4. Flags(w) /\ SameBeam(n, w)
        /\ SameLoop(n, w) /\ SameNMI(n, w) /\ w.cycles = n.cycles
    BY <2>2, VTimerOK
  <2> HIDE DEF w
  <2>5. /\ Flags(b) /\ SameBeam(w, b) /\ SameLoop(w, b) /\ b.cycles = w.cycles
        /\ b.nmi => w.nmi \/ w.v = VBlankLine
    BY <2>4, VBlankOK
  <2> HIDE DEF b
  <2>6. EventDone(b)
    BY <2>2, <2>4, <2>5 DEF EventDone, SameBeam
  <2>7. NMIStep(s, b) /\ b.vEnabled = s.vEnabled
    BY <1>0, <2>2, <2>4, <2>5 DEF NMIStep, SameBeam, SameNMI
  <2>8. /\ b.cycles = s.cycles - HMax /\ b.hblanks = 0
        /\ b.stage = s.stage /\ b.hEnabled = s.hEnabled /\ b.hPos = s.hPos
    BY <2>2, <2>4, <2>5 DEF SameBeam, SameLoop
  <2> DEFINE t == S9xReschedule(b)
  <2>9. /\ Flags(t) /\ Line(t) /\ SameNMI(b, t) /\ SameLoop(b, t)
        /\ ~HTimerMissed(t) /\ t.vEnabled = b.vEnabled
        /\ t.cycles = b.cycles /\ t.hblanks = b.hblanks
        /\ t.hEnabled = b.hEnabled /\ t.hPos = b.hPos
        /\ TimerDue(t) => b.hEnabled /\ t.next = b.hPos
        /\ t.event = "htimerAfter" => t.next < HMax
    BY <2>6, RescheduleOK
  <2> HIDE DEF t
  <2>10. Follows(s, t)
    BY <1>2, <2>8, <2>9 DEF Follows, SameLoop, Line, TimerDue
  <2>11. NMIStep(s, t)
    BY <2>7, <2>9 DEF SameNMI, NMIStep
  <2> QED BY <2>3, <2>7, <2>9, <2>10, <2>11 DEF t
<1>3. CASE s.event \in {"htimerBefore", "htimerAfter"}
  <2> DEFINE h == HTimer(s)
  <2>1. S9xDoHBlankProcessing(s, hdma) = S9xReschedule(h)
    BY <1>3 DEF S9xDoHBlankProcessing
  <2>2. Flags(h) /\ SameBeam(s, h)
        /\ SameLoop(s, h) /\ SameNMI(s, h) /\ h.cycles = s.cycles
    BY HTimerOK
  <2> HIDE DEF h
  <2>3. EventDone(h)
    BY <1>0, <1>3, <2>2 DEF EventDone, SameBeam, Line, InHBlank
  <2> DEFINE t == S9xReschedule(h)
  <2>4. /\ Flags(t) /\ Line(t) /\ SameNMI(h, t) /\ SameLoop(h, t)
        /\ ~HTimerMissed(t) /\ t.vEnabled = h.vEnabled
        /\ t.cycles = h.cycles /\ t.hblanks = h.hblanks
        /\ t.hEnabled = h.hEnabled /\ t.hPos = h.hPos
        /\ TimerDue(t) => /\ h.hEnabled /\ LineMatches(h)
                          /\ t.next = h.hPos /\ h.hPos > h.next
        /\ t.event = "htimerAfter" => t.next < HMax
    BY <2>3, RescheduleOK
  <2> HIDE DEF t
  <2>5. h.hblanks = IF s.event = "htimerAfter" THEN 1 ELSE 0
    BY <1>3, <2>2 DEF SameBeam, Line, InHBlank
  <2>6. LineMatches(h) <=> LineMatches(s)
    BY <2>2 DEF SameBeam, LineMatches
  <2>7. Follows(s, t)
    BY <1>3, <2>2, <2>4, <2>5, <2>6 DEF Follows, SameLoop, SameBeam, Line, TimerDue
  <2>8. NMIStep(s, t) /\ t.vEnabled = s.vEnabled
    BY <2>2, <2>4 DEF SameNMI, SameBeam, NMIStep
  <2> QED BY <2>1, <2>4, <2>7, <2>8 DEF t
<1> QED BY <1>0, <1>1, <1>2, <1>3 DEF Event

\* The next event is never scheduled past the end of a line.
LEMMA ProcessingScheduled ==
    ASSUME NEW s, NEW t, Flags(t), Line(t), Follows(s, t), Scheduled(s)
    PROVE  Scheduled(t)
<1>1. /\ \A end \in LineEnds : end \in Nat
      /\ HMax \in LineEnds /\ HMax \in Nat /\ HBlankStart \in Nat /\ HBlankStart < HMax
  BY LineEndsOK
<1>2. \A n \in Nat : n <= HMax => InReach(n)
  BY <1>1 DEF InReach
<1>3. t.next \in Nat /\ t.event \in Event
  BY DEF Flags, State, Line
<1>4. CASE TimerDue(t)
  BY <1>4 DEF Follows, Scheduled
<1>5. CASE ~TimerDue(t)
  BY <1>1, <1>2, <1>3, <1>5 DEF Follows, Scheduled, TimerDue, Line, Event
<1> QED BY <1>4, <1>5

\* An event processed at the end of an iteration makes the loop no later for the
\* next one, and the end of a line makes up for what the iteration took.
LEMMA ProcessingPace ==
    ASSUME NEW s, NEW t, Flags(s), Line(s), Flags(t), Line(t), Follows(s, t),
           NEW x \in Nat, x <= Cost, Brisk(s, Iteration + x)
    PROVE  /\ OnPace(t, x)
           /\ s.event = "hblankEnd" => OnPace(t, 0)
<1>0. /\ s.cycles \in Nat /\ s.next \in Nat /\ s.hPos \in Nat /\ s.event \in Event
      /\ t.cycles \in Nat /\ t.next \in Nat /\ t.hPos \in Nat /\ t.event \in Event
  BY DEF Flags, State, Line
<1>1. /\ \A end \in LineEnds : end \in Nat /\ end + 4 * Cost <= HMax + HBlankStart
      /\ HMax \in LineEnds /\ Reach \in LineEnds
      /\ Reach \in Nat /\ HMax <= Reach /\ HDMACost \in Nat
      /\ HBlankStart + 2 * Iteration + HDMACost <= Reach
      /\ Reach + 7 * Cost <= HMax + HBlankStart
      /\ HMax \in Nat /\ HBlankStart \in Nat /\ HBlankStart < HMax
      /\ Cost \in Nat /\ 0 < Cost
  BY LineEndsOK
<1>2. Scheduled(t)
  BY ProcessingScheduled DEF Brisk
<1>3. Settled(t, x) /\ Settled(t, 0)
  BY <1>0 DEF Follows, Settled
<1>4. CASE s.event = "hblankStart"
  <2>1. t.cycles < HBlankStart + 2 * Iteration + HDMACost + (Iteration + x)
    <3>1. /\ s.cycles < HBlankStart + 2 * Iteration + (Iteration + x)
          /\ t.cycles <= s.cycles + HDMACost
      BY <1>4 DEF Brisk, Late, Follows
    <3> QED BY <1>0, <1>1, <3>1 DEF Iteration
  <2>2. t.event \in {"htimerAfter", "hblankEnd"}
    BY <1>4 DEF Follows, InHBlank
  <2>3. Late(t, x)
    BY <1>0, <1>1, <2>1, <2>2 DEF Late, Iteration
  <2> QED BY <1>2, <1>3, <1>4, <2>3 DEF OnPace
<1>5. CASE s.event = "htimerBefore"
  <2>1. /\ s.cycles < HBlankStart + Iteration + (Iteration + x)
        /\ s.next < HBlankStart /\ t.cycles = s.cycles
    BY <1>5 DEF Brisk, Late, Follows, Line, TimerDue
  <2>2. t.event \in {"htimerBefore", "hblankStart"}
    BY <1>0, <1>5 DEF Follows, InHBlank, Event
  <2>3. TimerDue(t) => s.cycles < s.next + (Iteration + x)
    BY <1>5 DEF Brisk, LastTimer, Follows, TimerDue
  <2>4. Late(t, x)
    BY <1>0, <1>1, <2>1, <2>2, <2>3 DEF Late, Iteration, TimerDue
  <2> QED BY <1>2, <1>3, <1>5, <2>4 DEF OnPace
<1>6. CASE s.event = "htimerAfter"
  <2>1. /\ \/ \E end \in LineEnds : s.cycles < end + (Iteration + x)
           \/ s.cycles < Reach + Iteration + (Iteration + x)
        /\ t.cycles = s.cycles
    BY <1>6 DEF Brisk, Late, Follows, TimerDue
  <2>2. t.event \in {"htimerAfter", "hblankEnd"}
    BY <1>6 DEF Follows, InHBlank
  <2>3. TimerDue(t) => /\ s.cycles < s.next + (Iteration + x)
                       /\ s.next < t.next
    BY <1>6 DEF Brisk, LastTimer, Follows, TimerDue
  <2>4. t.event = "htimerAfter" => t.cycles < Reach + Iteration + x
    BY <1>0, <1>1, <2>1, <2>3 DEF Follows, TimerDue, Iteration
  <2>5. \/ \E end \in LineEnds : t.cycles < end + Iteration + x
        \/ t.cycles < Reach + 2 * Iteration + x
    <3>1. CASE s.cycles < Reach + Iteration + (Iteration + x)
      BY <1>0, <1>1, <2>1, <3>1 DEF Iteration
    <3>2. CASE \E end \in LineEnds : s.cycles < end + (Iteration + x)
      BY <1>0, <1>1, <2>1, <3>2 DEF Iteration
    <3> QED BY <2>1, <3>1, <3>2
  <2>6. Late(t, x)
    BY <2>2, <2>4, <2>5 DEF Late
  <2> QED BY <1>2, <1>3, <1>6, <2>6 DEF OnPace
<1>7. CASE s.event = "hblankEnd"
  <2>1. /\ \/ \E end \in LineEnds : s.cycles < end + Iteration + (Iteration + x)
           \/ s.cycles < Reach + 2 * Iteration + (Iteration + x)
        /\ t.cycles = s.cycles - HMax
    BY <1>7 DEF Brisk, Late, Follows
  <2>2. t.event \in {"htimerBefore", "hblankStart"}
    BY <1>0, <1>7 DEF Follows, InHBlank, Event
  <2>3. t.cycles < HBlankStart + Iteration
    <3>1. CASE s.cycles < Reach + 2 * Iteration + (Iteration + x)
      BY <1>0, <1>1, <2>1, <3>1 DEF Iteration
    <3>2. CASE \E end \in LineEnds : s.cycles < end + Iteration + (Iteration + x)
      BY <1>0, <1>1, <2>1, <3>2 DEF Iteration
    <3> QED BY <2>1, <3>1, <3>2
  <2>4. Late(t, x) /\ Late(t, 0)
    BY <1>0, <1>1, <2>2, <2>3 DEF Late, Iteration
  <2> QED BY <1>2, <1>3, <2>4 DEF OnPace
<1> QED BY <1>0, <1>4, <1>5, <1>6, <1>7 DEF Event

LEMMA AllowanceOK ==
    ASSUME NEW s
    PROVE  /\ Allowance(s) \in Nat /\ Allowance(s) <= Cost
           /\ Iteration \in Nat /\ Allowance(s) + Cost \in Nat
           /\ 0 < Iteration + Allowance(s)
BY LineEndsOK DEF Allowance, Iteration

\* The check for an event after an instruction.
LEMMA CheckOK ==
    ASSUME NEW s, Flags(s), Line(s), NEW hdma \in HDMATimes
    PROVE  LET t == HBlankCheck(s, hdma)
           IN  /\ Flags(t) /\ Line(t) /\ NMIStep(s, t)
               /\ t.vEnabled = s.vEnabled
               /\ HTimerMissed(t) => HTimerMissed(s)
               /\ t.stage = s.stage
               /\ Brisk(s, Iteration + Allowance(s)) => OnPace(t, Allowance(t))
<1> DEFINE x == Allowance(s)
<1>0. x \in Nat /\ x <= Cost
  BY AllowanceOK
<1>1. CASE s.cycles >= s.next
  <2> DEFINE t == S9xDoHBlankProcessing(s, hdma)
  <2>1. /\ Flags(t) /\ Line(t) /\ ~HTimerMissed(t) /\ NMIStep(s, t)
        /\ t.vEnabled = s.vEnabled /\ Follows(s, t)
    BY <1>1, ProcessingOK
  <2>2. HBlankCheck(s, hdma) = t
    BY <1>1 DEF HBlankCheck
  <2> HIDE DEF t
  <2>3. ASSUME Brisk(s, Iteration + x)
        PROVE  OnPace(t, Allowance(t))
    <3> HIDE DEF x
    <3>1. OnPace(t, x) /\ (s.event = "hblankEnd" => OnPace(t, 0))
      BY <1>0, <2>1, <2>3, ProcessingPace
    <3>2. CASE s.event # "hblankEnd"
      BY <2>1, <3>1, <3>2 DEF Follows, Allowance, x
    <3>3. CASE s.event = "hblankEnd"
      <4>1. Allowance(t) \in Nat
        BY AllowanceOK
      <4>2. t.cycles \in Int /\ t.next \in Int
        BY <2>1 DEF Line
      <4>3. SameTimer(t, t)
        BY DEF SameTimer
      <4>4. t.cycles + 0 <= t.cycles + Allowance(t)
        BY <4>1, <4>2
      <4> QED BY <3>1, <3>3, <4>1, <4>2, <4>3, <4>4, LaterPace DEF OnPace
    <3> QED BY <3>2, <3>3
  <2> QED BY <2>1, <2>2, <2>3 DEF Follows
<1>2. CASE ~(s.cycles >= s.next)
  <2>1. HBlankCheck(s, hdma) = s
    BY <1>2 DEF HBlankCheck
  <2>2. s.cycles < s.next + x
    BY <1>0, <1>2 DEF Line
  <2>3. Scheduled(s) => OnPace(s, x)
    <3> HIDE DEF x
    <3> QED BY <1>0, <2>2, NotLate
  <2> QED BY <2>1, <2>3 DEF NMIStep, Brisk
<1> QED BY <1>1, <1>2

-----------------------------------------------------------------------------
(* Delivery                                                                *)

\* Time passes, and the beam moves on the line.
LEMMA LaterOK ==
    ASSUME NEW s, NEW t, Flags(s), Line(s), SameBeam(s, t),
           t.cycles \in Nat, t.cycles >= s.cycles
    PROVE  Line(t) /\ (HTimerMissed(t) => HTimerMissed(s))
<1>1. /\ s.cycles \in Nat /\ s.next \in Nat /\ s.hPos \in Nat
      /\ HMax \in Nat /\ HBlankStart \in Nat
  BY LineAssumption DEF Flags, State, Line
<1>2. Line(t)
  BY <1>1 DEF Line, InHBlank, SameBeam
<1>3. HTimerMissed(t) => HTimerMissed(s)
  BY <1>1 DEF HTimerMissed, LineMatches, SameBeam
<1> QED BY <1>2, <1>3

LEMMA VectorOK ==
    ASSUME NEW s, Flags(s), ~s.waiting, s.cycles \in Nat
    PROVE  LET t == Vector(s)
           IN  /\ Flags(t) /\ SameBeam(s, t) /\ SameNMI(s, t) /\ SameLoop(s, t)
               /\ t.cycles \in Nat /\ t.cycles >= s.cycles
               /\ t.cycles = s.cycles + Cost /\ t.masked
<1> DEFINE t == [s EXCEPT !.masked = TRUE, !.pc = 1, !.cycles = s.cycles + Cost]
<1>1. s \in State /\ s.cycles + Cost \in Nat /\ s.cycles + Cost >= s.cycles
  BY CostAssumption DEF Flags
<1>2. [s EXCEPT !.masked = TRUE] \in State
  BY <1>1, Update
<1>3. [s EXCEPT !.masked = TRUE, !.pc = 1] \in State
  BY <1>2, Update
<1>4. s.cycles + Cost \in Int
  BY <1>1
<1>5. t \in State
  BY <1>3, <1>4, Update
<1>6. /\ Flags(t) /\ SameBeam(s, t) /\ SameNMI(s, t) /\ SameLoop(s, t)
      /\ t.cycles \in Nat /\ t.cycles >= s.cycles
      /\ t.cycles = s.cycles + Cost /\ t.masked
  BY <1>1, <1>5 DEF Flags, State, SameBeam, SameNMI, SameLoop
<1>7. t = Vector(s)
  BY DEF Vector
<1> HIDE DEF t
<1> QED BY <1>6, <1>7

LEMMA DeliverNMIOK ==
    ASSUME NEW s, Flags(s), s.cycles \in Nat
    PROVE  LET t == DeliverNMI(s)
           IN  /\ Flags(t) /\ SameBeam(s, t) /\ SameLoop(s, t)
               /\ t.nmi => s.nmi
               /\ t.cycles \in Nat /\ t.cycles >= s.cycles
               /\ t.cycles = s.cycles \/ (t.cycles = s.cycles + Cost /\ t.masked)
<1>0. s \in State /\ s.nmiCount \in 0 .. NMITrigger /\ NMITrigger \in Nat \ {0}
  BY TriggerAssumption DEF Flags, State
<1>1. CASE ~s.nmi
  BY <1>1 DEF DeliverNMI, SameBeam, SameLoop
<1>2. CASE s.nmi /\ s.nmiCount = 1
  <2> DEFINE u == [s EXCEPT !.nmiCount = 0, !.nmi = FALSE]
  <2>0. 0 \in 0 .. NMITrigger
    BY <1>0
  <2>1. [s EXCEPT !.nmiCount = 0] \in State
    BY <1>0, <2>0, Update
  <2>2. u \in State
    BY <2>1, Update
  <2>3. Flags(u) /\ SameBeam(s, u) /\ SameLoop(s, u) /\ u.cycles = s.cycles /\ ~u.nmi
    BY <1>0, <2>2 DEF Flags, State, SameBeam, SameLoop
  <2>4. DeliverNMI(s) = Vector(Wake(u))
    BY <1>2 DEF DeliverNMI
  <2> HIDE DEF u
  <2> DEFINE w == Wake(u)
  <2>5. /\ Flags(w) /\ SameBeam(u, w)
        /\ SameLoop(u, w) /\ ~w.waiting /\ w.cycles = u.cycles
        /\ SameNMI(u, w)
    BY <2>3, WakeOK
  <2> HIDE DEF w
  <2>6. /\ Flags(Vector(w)) /\ SameBeam(w, Vector(w))
        /\ SameLoop(w, Vector(w)) /\ SameNMI(w, Vector(w))
        /\ Vector(w).cycles \in Nat /\ Vector(w).cycles >= w.cycles
        /\ Vector(w).cycles = w.cycles + Cost /\ Vector(w).masked
    BY <2>3, <2>5, VectorOK
  <2> QED BY <2>3, <2>4, <2>5, <2>6 DEF SameBeam, SameLoop, SameNMI, w
<1>3. CASE s.nmi /\ s.nmiCount # 1
  <2> DEFINE n == s.nmiCount - 1
  <2> DEFINE u == [s EXCEPT !.nmiCount = n]
  <2>1. n \in 0 .. NMITrigger /\ n >= 1
    BY <1>0, <1>3 DEF Flags
  <2>2. DeliverNMI(s) = u
    BY <1>3 DEF DeliverNMI
  <2> HIDE DEF n
  <2>3. u \in State
    BY <1>0, <2>1, Update
  <2>4. Flags(u) /\ SameBeam(s, u) /\ SameLoop(s, u) /\ u.cycles = s.cycles
    BY <1>0, <2>1, <2>3 DEF Flags, State, SameBeam, SameLoop
  <2> HIDE DEF u
  <2> QED BY <1>3, <2>2, <2>4
<1> QED BY <1>1, <1>2, <1>3

LEMMA DeliverIRQOK ==
    ASSUME NEW s, Flags(s), s.cycles \in Nat
    PROVE  LET t == DeliverIRQ(s)
           IN  /\ Flags(t) /\ SameBeam(s, t) /\ SameNMI(s, t) /\ SameLoop(s, t)
               /\ t.cycles \in Nat /\ t.cycles >= s.cycles
               /\ t.cycles = s.cycles \/ (t.cycles = s.cycles + Cost /\ ~s.masked)
<1>0. s \in State /\ s.irqCount \in 0 .. 3
  BY DEF Flags, State
<1>1. CASE ~s.pending
  BY <1>1 DEF DeliverIRQ, SameBeam, SameNMI, SameLoop
<1>2. CASE s.pending /\ s.irqCount > 0
  <2> DEFINE n == IF s.irqCount = 1 /\ s.masked THEN 1 ELSE s.irqCount - 1
  <2> DEFINE u == [s EXCEPT !.irqCount = n]
  <2>1. n \in 0 .. 3
    BY <1>0, <1>2
  <2>2. DeliverIRQ(s) = u
    BY <1>2 DEF DeliverIRQ
  <2> HIDE DEF n
  <2>3. u \in State
    BY <1>0, <2>1, Update
  <2>4. Flags(u) /\ SameBeam(s, u) /\ SameNMI(s, u)
        /\ SameLoop(s, u) /\ u.cycles = s.cycles
    BY <1>0, <2>3 DEF Flags, State, SameBeam, SameNMI, SameLoop
  <2> HIDE DEF u
  <2> QED BY <2>2, <2>4
<1>3. CASE s.pending /\ ~(s.irqCount > 0)
  <2> DEFINE w == Wake(s)
  <2>1. /\ Flags(w) /\ SameBeam(s, w) /\ SameNMI(s, w) /\ SameLoop(s, w) /\ ~w.waiting
        /\ w.cycles = s.cycles /\ w \in State /\ w.masked = s.masked
    BY WakeOK DEF Flags
  <2>2. DeliverIRQ(s) = IF w.active = {} THEN [w EXCEPT !.pending = FALSE]
                        ELSE IF w.masked THEN w ELSE Vector(w)
    BY <1>3 DEF DeliverIRQ
  <2> HIDE DEF w
  <2>3. CASE w.active = {}
    <3> DEFINE u == [w EXCEPT !.pending = FALSE]
    <3>1. u \in State
      BY <2>1, Update
    <3>2. Flags(u) /\ SameBeam(w, u) /\ SameNMI(w, u)
          /\ SameLoop(w, u) /\ u.cycles = w.cycles
      BY <2>1, <2>3, <3>1 DEF Flags, State, SameBeam, SameNMI, SameLoop
    <3>3. DeliverIRQ(s) = u
      BY <2>2, <2>3
    <3> HIDE DEF u
    <3> QED BY <2>1, <3>2, <3>3 DEF SameBeam, SameNMI, SameLoop
  <2>4. CASE w.active # {} /\ w.masked
    BY <2>1, <2>2, <2>4
  <2>5. CASE w.active # {} /\ ~w.masked
    <3>1. DeliverIRQ(s) = Vector(w)
      BY <2>2, <2>5
    <3>2. /\ Flags(Vector(w)) /\ SameBeam(w, Vector(w)) /\ SameNMI(w, Vector(w))
          /\ SameLoop(w, Vector(w))
          /\ Vector(w).cycles \in Nat /\ Vector(w).cycles >= w.cycles
          /\ Vector(w).cycles = w.cycles + Cost
      BY <2>1, VectorOK
    <3> QED BY <1>0, <2>1, <2>5, <3>1, <3>2 DEF State, SameBeam, SameNMI, SameLoop
  <2> QED BY <2>3, <2>4, <2>5
<1> QED BY <1>1, <1>2, <1>3
-----------------------------------------------------------------------------
(* The registers                                                           *)

\* What scheduling the H timer makes of the event that is due.
Rescheduled(s, t) ==
    /\ InHBlank(t) <=> InHBlank(s)
    /\ \/ t.event = s.event /\ t.next = s.next /\ ~LineMatches(t)
       \/ ~TimerDue(t)
       \/ t.next = t.hPos /\ t.hPos >= t.cycles

\* Scheduling the H timer leaves it ahead of the beam, or not on this line.
LEMMA UpdateHTimerOK ==
    ASSUME NEW s, Flags(s), Line(s)
    PROVE  LET t == S9xUpdateHTimer(s)
           IN  /\ Flags(t) /\ Line(t) /\ SameNMI(s, t)
               /\ SameLoop(s, t) /\ ~HTimerMissed(t)
               /\ t.hEnabled = s.hEnabled /\ t.vEnabled = s.vEnabled
               /\ t.cycles = s.cycles
               /\ ~s.hEnabled => t = s
               /\ s.hEnabled => InReach(t.hPos) /\ Rescheduled(s, t)
<1> DEFINE dot == (s.hBeam * HMax) \div HCounterMax
<1> DEFINE hPos == IF dot \in {HMax, HBlankStart} THEN dot - 1 ELSE dot
<1> DEFINE late == s.event \in {"hblankEnd", "htimerAfter"}
<1> DEFINE t == [s EXCEPT !.hPos = hPos]
<1>1. S9xUpdateHTimer(s) =
        IF ~s.hEnabled THEN s
        ELSE IF ~LineMatches(s) THEN t
        ELSE IF hPos < s.cycles /\ late
        THEN [t EXCEPT !.event = "hblankEnd", !.next = HMax]
        ELSE IF late
        THEN [t EXCEPT !.event = "htimerAfter", !.next = hPos]
        ELSE IF hPos < s.cycles \/ hPos > HBlankStart
        THEN [t EXCEPT !.event = "hblankStart", !.next = HBlankStart]
        ELSE [t EXCEPT !.event = "htimerBefore", !.next = hPos]
  BY DEF S9xUpdateHTimer
<1>2. /\ s \in State /\ s.cycles \in Nat /\ s.next \in Nat /\ s.event \in Event
      /\ HMax \in Nat /\ HBlankStart \in Nat /\ 0 < HBlankStart
      /\ HBlankStart + 1 < HMax
      /\ late => s.cycles >= HBlankStart /\ s.hblanks = 1
      /\ ~late => s.hblanks = 0
  BY LineAssumption DEF Flags, State, Line, InHBlank
<1>3. hPos \in Nat /\ hPos # HBlankStart
  <2>1. s.hBeam \in Nat /\ HCounterMax \in Nat \ {0}
    <3>1. s.hBeam \in HBeams \cup {0}
      BY <1>2 DEF State
    <3>2. HBeams \subseteq Nat
      BY GameAssumption
    <3>3. HCounterMax \in Nat \ {0}
      BY LineAssumption
    <3>4. \A x \in HBeams \cup {0} : x \in Nat
      <4> TAKE x \in HBeams \cup {0}
      <4>1. CASE x \in HBeams
        BY <3>2, <4>1
      <4>2. CASE x = 0
        BY <4>2
      <4> QED BY <4>1, <4>2
    <3> QED BY <3>1, <3>3, <3>4
  <2>2. s.hBeam * HMax \in Nat
    BY <1>2, <2>1
  <2>3. dot \in Nat
    <3> DEFINE x == s.hBeam * HMax
    <3>1. x \in Nat
      BY <2>2
    <3> HIDE DEF x
    <3>2. x \div HCounterMax \in Nat
      BY <2>1, <3>1
    <3> QED BY <3>2 DEF x
  <2> HIDE DEF dot
  <2> QED BY <1>2, <2>3
<1>p. InReach(hPos)
  <2>1. s.hBeam \in HBeams \cup {0}
    BY <1>2 DEF State
  <2>2. dot \in Nat /\ (dot \in LineEnds \/ dot = 0)
    BY <2>1, DotOK
  <2>3. \A end \in LineEnds : end \in Nat
    BY LineEndsOK
  <2>4. HMax \in LineEnds
    BY LineEndsOK
  <2> HIDE DEF dot
  <2> QED BY <1>2, <2>2, <2>3, <2>4 DEF InReach
<1> HIDE DEF hPos
<1>4. t \in State
  BY <1>2, <1>3, Update
<1>5. /\ SameNMI(s, t)
      /\ SameLoop(s, t) /\ t.hEnabled = s.hEnabled /\ t.vEnabled = s.vEnabled
      /\ t.hPos = hPos /\ t.cycles = s.cycles /\ t.event = s.event
      /\ t.next = s.next /\ t.hblanks = s.hblanks /\ t.vBeam = s.vBeam
      /\ t.nmiCount = s.nmiCount /\ t.active = s.active
      /\ t.pending = s.pending /\ t.waiting = s.waiting /\ t.pc = s.pc
  BY <1>2 DEF State, SameNMI, SameLoop
<1> HIDE DEF t
<1>6. ASSUME NEW e \in Event, NEW n \in Nat
      PROVE  LET u == [t EXCEPT !.event = e, !.next = n]
             IN  /\ Flags(u) /\ SameNMI(s, u) /\ SameLoop(s, u) /\ u.hPos = hPos
                 /\ u.hEnabled = s.hEnabled /\ u.vEnabled = s.vEnabled
                 /\ u.cycles = s.cycles /\ u.event = e /\ u.next = n
                 /\ u.hblanks = s.hblanks
  <2> DEFINE u == [t EXCEPT !.event = e, !.next = n]
  <2>1. [t EXCEPT !.event = e] \in State
    BY <1>4, Update
  <2>2. n \in Int
    OBVIOUS
  <2>3. u \in State
    BY <2>1, <2>2, Update
  <2>4. /\ SameNMI(s, u) /\ SameLoop(s, u) /\ u.hPos = hPos
        /\ u.hEnabled = s.hEnabled /\ u.vEnabled = s.vEnabled
        /\ u.cycles = s.cycles /\ u.event = e /\ u.next = n
        /\ u.hblanks = s.hblanks
        /\ u.nmiCount = s.nmiCount /\ u.active = s.active
        /\ u.pending = s.pending /\ u.waiting = s.waiting /\ u.pc = s.pc
    BY <1>4, <1>5 DEF State, SameNMI, SameLoop
  <2> HIDE DEF u
  <2>5. Flags(u)
    BY <2>3, <2>4 DEF Flags, SameNMI, SameLoop
  <2> QED BY <2>4, <2>5 DEF u
<1> DEFINE u(e, n) == [t EXCEPT !.event = e, !.next = n]
<1>7. CASE ~s.hEnabled
  BY <1>1, <1>7 DEF SameNMI, SameLoop, HTimerMissed
<1>n. LineMatches(t) <=> LineMatches(s)
  BY <1>5 DEF LineMatches, SameNMI
<1>8. CASE s.hEnabled /\ ~LineMatches(s)
  <2>1. S9xUpdateHTimer(s) = t
    BY <1>1, <1>8
  <2>2. Flags(t)
    BY <1>4, <1>5 DEF Flags, SameNMI, SameLoop
  <2>3. Line(t)
    BY <1>5 DEF Line, InHBlank
  <2>4. ~HTimerMissed(t)
    BY <1>5, <1>8 DEF HTimerMissed, LineMatches, SameNMI, SameLoop
  <2>5. Rescheduled(s, t)
    BY <1>5, <1>8, <1>n DEF Rescheduled, InHBlank
  <2> QED BY <1>5, <1>8, <1>p, <2>1, <2>2, <2>3, <2>4, <2>5
<1>9. CASE s.hEnabled /\ LineMatches(s) /\ late /\ hPos < s.cycles
  <2>1. S9xUpdateHTimer(s) = u("hblankEnd", HMax)
    BY <1>1, <1>9
  <2>2. "hblankEnd" \in Event
    BY DEF Event
  <2> DEFINE w == u("hblankEnd", HMax)
  <2>3. /\ Flags(w) /\ SameNMI(s, w) /\ SameLoop(s, w) /\ w.hPos = hPos
        /\ w.hEnabled = s.hEnabled /\ w.vEnabled = s.vEnabled
        /\ w.cycles = s.cycles /\ w.event = "hblankEnd" /\ w.next = HMax
        /\ w.hblanks = s.hblanks
    BY <1>2, <1>6, <2>2
  <2> HIDE DEF w
  <2>4. Line(w) /\ ~HTimerMissed(w)
    BY <1>2, <1>3, <1>9, <2>3 DEF Line, InHBlank, HTimerMissed
  <2>5. Rescheduled(s, w)
    BY <1>2, <1>3, <1>9, <2>3 DEF Rescheduled, InHBlank, TimerDue
  <2> QED BY <1>p, <1>9, <2>1, <2>3, <2>4, <2>5 DEF w
<1>10. CASE s.hEnabled /\ LineMatches(s) /\ late /\ ~(hPos < s.cycles)
  <2>1. S9xUpdateHTimer(s) = u("htimerAfter", hPos)
    BY <1>1, <1>10
  <2>2. "htimerAfter" \in Event
    BY DEF Event
  <2> DEFINE w == u("htimerAfter", hPos)
  <2>3. /\ Flags(w) /\ SameNMI(s, w) /\ SameLoop(s, w) /\ w.hPos = hPos
        /\ w.hEnabled = s.hEnabled /\ w.vEnabled = s.vEnabled
        /\ w.cycles = s.cycles /\ w.event = "htimerAfter" /\ w.next = hPos
        /\ w.hblanks = s.hblanks
    BY <1>3, <1>6, <2>2
  <2> HIDE DEF w
  <2>4. Line(w) /\ ~HTimerMissed(w)
    BY <1>2, <1>3, <1>10, <2>3 DEF Line, InHBlank, HTimerMissed
  <2>5. Rescheduled(s, w)
    BY <1>2, <1>3, <1>10, <2>3 DEF Rescheduled, InHBlank, TimerDue
  <2> QED BY <1>p, <1>10, <2>1, <2>3, <2>4, <2>5 DEF w
<1>11. CASE /\ s.hEnabled /\ LineMatches(s) /\ ~late
             /\ (hPos < s.cycles \/ hPos > HBlankStart)
  <2>1. S9xUpdateHTimer(s) = u("hblankStart", HBlankStart)
    BY <1>1, <1>11
  <2>2. "hblankStart" \in Event
    BY DEF Event
  <2> DEFINE w == u("hblankStart", HBlankStart)
  <2>3. /\ Flags(w) /\ SameNMI(s, w) /\ SameLoop(s, w) /\ w.hPos = hPos
        /\ w.hEnabled = s.hEnabled /\ w.vEnabled = s.vEnabled
        /\ w.cycles = s.cycles /\ w.event = "hblankStart" /\ w.next = HBlankStart
        /\ w.hblanks = s.hblanks
    BY <1>2, <1>6, <2>2
  <2> HIDE DEF w
  <2>4. Line(w) /\ ~HTimerMissed(w)
    BY <1>2, <1>3, <1>11, <2>3 DEF Line, InHBlank, HTimerMissed
  <2>5. Rescheduled(s, w)
    BY <1>2, <1>3, <1>11, <2>3 DEF Rescheduled, InHBlank, TimerDue
  <2> QED BY <1>p, <1>11, <2>1, <2>3, <2>4, <2>5 DEF w
<1>12. CASE /\ s.hEnabled /\ LineMatches(s) /\ ~late
             /\ ~(hPos < s.cycles \/ hPos > HBlankStart)
  <2>1. S9xUpdateHTimer(s) = u("htimerBefore", hPos)
    BY <1>1, <1>12
  <2>2. "htimerBefore" \in Event
    BY DEF Event
  <2> DEFINE w == u("htimerBefore", hPos)
  <2>3. /\ Flags(w) /\ SameNMI(s, w) /\ SameLoop(s, w) /\ w.hPos = hPos
        /\ w.hEnabled = s.hEnabled /\ w.vEnabled = s.vEnabled
        /\ w.cycles = s.cycles /\ w.event = "htimerBefore" /\ w.next = hPos
        /\ w.hblanks = s.hblanks
    BY <1>3, <1>6, <2>2
  <2> HIDE DEF w
  <2>4. Line(w) /\ ~HTimerMissed(w)
    BY <1>2, <1>3, <1>12, <2>3 DEF Line, InHBlank, HTimerMissed
  <2>5. Rescheduled(s, w)
    BY <1>2, <1>3, <1>12, <2>3 DEF Rescheduled, InHBlank, TimerDue
  <2> QED BY <1>p, <1>12, <2>1, <2>3, <2>4, <2>5 DEF w
<1> QED BY <1>7, <1>8, <1>9, <1>10, <1>11, <1>12

\* It makes the loop no later.
LEMMA UpdateHTimerPace ==
    ASSUME NEW s, Flags(s), Line(s), NEW x \in Nat \ {0},
           InReach(s.next), Late(s, x), OnPace(s, x) \/ s.hEnabled
    PROVE  Brisk(S9xUpdateHTimer(s), x)
<1> DEFINE t == S9xUpdateHTimer(s)
<1>1. /\ Flags(t) /\ Line(t) /\ t.cycles = s.cycles /\ t.hEnabled = s.hEnabled
      /\ ~s.hEnabled => t = s
      /\ s.hEnabled => InReach(t.hPos) /\ Rescheduled(s, t)
  BY UpdateHTimerOK
<1> HIDE DEF t
<1>2. CASE ~s.hEnabled
  <2>1. s \in State /\ s.next \in Int
    BY DEF Flags, Line
  <2> QED BY <1>1, <1>2, <2>1, OnPaceIsBrisk DEF t
<1>3. CASE s.hEnabled
  <2>0. /\ s.cycles \in Nat /\ s.next \in Nat /\ s.event \in Event
        /\ t.cycles \in Nat /\ t.next \in Nat /\ t.hPos \in Nat /\ t.event \in Event
    BY <1>1 DEF Flags, State, Line
  <2>1. /\ \A end \in LineEnds : end \in Nat
        /\ HMax \in LineEnds /\ Reach \in Nat /\ HMax <= Reach
        /\ HMax \in Nat /\ HBlankStart \in Nat /\ HBlankStart < HMax
        /\ Cost \in Nat /\ 0 < Cost
    BY LineEndsOK
  <2>2. InReach(t.hPos) /\ Rescheduled(s, t)
    BY <1>1, <1>3
  <2>3. LastTimer(t, x)
    BY <2>0, <2>2 DEF Rescheduled, LastTimer, TimerDue
  <2>4. CASE t.event = s.event /\ t.next = s.next
    <3>1. Late(t, x)
      BY <1>1, <2>4 DEF Late
    <3> QED BY <2>2, <2>3, <2>4, <3>1 DEF Brisk, Scheduled, t
  <2>5. CASE ~TimerDue(t)
    <3>1. InReach(t.next)
      BY <1>1, <2>0, <2>1, <2>5 DEF TimerDue, Event, Line, InReach
    <3>2. Late(t, x)
      <4>1. CASE InHBlank(s)
        <5>1. t.event = "hblankEnd"
          BY <2>2, <2>5, <4>1 DEF Rescheduled, InHBlank, TimerDue
        <5>2. \/ \E end \in LineEnds : t.cycles < end + Iteration + x
              \/ t.cycles < Reach + 2 * Iteration + x
          BY <1>1, <2>0, <2>1, <4>1 DEF Late, InHBlank, Iteration
        <5> QED BY <5>1, <5>2 DEF Late
      <4>2. CASE ~InHBlank(s)
        <5>1. t.event = "hblankStart"
          BY <2>0, <2>2, <2>5, <4>2 DEF Rescheduled, InHBlank, TimerDue, Event
        <5>2. t.cycles < HBlankStart + 2 * Iteration + x
          BY <1>1, <2>0, <2>1, <4>2 DEF Late, InHBlank, Event, Iteration
        <5> QED BY <5>1, <5>2 DEF Late
      <4> QED BY <4>1, <4>2
    <3> QED BY <2>2, <2>3, <3>1, <3>2 DEF Brisk, Scheduled, t
  <2>6. CASE t.next = t.hPos /\ t.hPos >= t.cycles
    <3>1. Scheduled(t)
      BY <2>2, <2>6 DEF Scheduled
    <3>2. t.cycles < t.next + x
      BY <2>0, <2>6
    <3>3. OnPace(t, x)
      BY <1>1, <3>1, <3>2, NotLate
    <3> QED BY <2>3, <3>3 DEF Brisk, OnPace, t
  <2> QED BY <2>2, <2>4, <2>5, <2>6 DEF Rescheduled
<1> QED BY <1>2, <1>3

LEMMA UpdateVTimerOK ==
    ASSUME NEW s, Flags(s), Line(s)
    PROVE  LET t == UpdateVTimer(s)
           IN  /\ Flags(t) /\ Line(t) /\ SameNMI(s, t)
               /\ SameLoop(s, t) /\ ~HTimerMissed(t)
               /\ t.hEnabled = s.hEnabled /\ t.vEnabled = s.vEnabled
<1>1. CASE s.hEnabled
  BY <1>1, UpdateHTimerOK DEF UpdateVTimer
<1>2. CASE ~s.hEnabled /\ s.vBeam = s.v
  <2> DEFINE t == S9xSetIRQ(s, "V")
  <2>1. "V" \in Source
    BY DEF Source, TimerSource
  <2>2. Flags(t) /\ SameBeam(s, t) /\ SameNMI(s, t)
        /\ SameLoop(s, t) /\ t.cycles = s.cycles
    BY <2>1, SetIRQOK
  <2>3. UpdateVTimer(s) = t
    BY <1>2 DEF UpdateVTimer
  <2> HIDE DEF t
  <2>4. Line(t) /\ ~HTimerMissed(t)
    BY <1>2, <2>2 DEF Line, InHBlank, SameBeam, HTimerMissed
  <2> QED BY <2>2, <2>3, <2>4 DEF SameBeam
<1>3. CASE ~s.hEnabled /\ s.vBeam # s.v
  BY <1>3 DEF UpdateVTimer, SameNMI, SameLoop, HTimerMissed
<1> QED BY <1>1, <1>2, <1>3

LEMMA UpdateVTimerPace ==
    ASSUME NEW s, Flags(s), Line(s), NEW x \in Nat \ {0}, OnPace(s, x)
    PROVE  Brisk(UpdateVTimer(s), x)
<1>0. s \in State /\ s.next \in Int /\ s.cycles \in Int /\ x \in Int
  BY DEF Flags, Line
<1>1. CASE s.hEnabled
  <2>1. UpdateVTimer(s) = S9xUpdateHTimer(s)
    BY <1>1 DEF UpdateVTimer
  <2>2. InReach(s.next) /\ Late(s, x)
    BY DEF OnPace, Scheduled
  <2> QED BY <2>1, <2>2, UpdateHTimerPace
<1>2. CASE ~s.hEnabled /\ s.vBeam = s.v
  <2> DEFINE t == S9xSetIRQ(s, "V")
  <2>1. "V" \in Source
    BY DEF Source, TimerSource
  <2>2. Flags(t) /\ SameBeam(s, t) /\ t.cycles = s.cycles
    BY <2>1, SetIRQOK
  <2>3. UpdateVTimer(s) = t
    BY <1>2 DEF UpdateVTimer
  <2> HIDE DEF t
  <2>4. SameTimer(s, t) /\ t \in State /\ t.next \in Int
    BY <1>0, <2>2 DEF SameTimer, SameBeam, Flags
  <2>5. OnPace(t, x)
    BY <1>0, <2>2, <2>4, LaterPace DEF OnPace
  <2> QED BY <2>3, <2>4, <2>5, OnPaceIsBrisk
<1>3. CASE ~s.hEnabled /\ s.vBeam # s.v
  <2>1. UpdateVTimer(s) = s
    BY <1>3 DEF UpdateVTimer
  <2> QED BY <1>0, <2>1, OnPaceIsBrisk
<1> QED BY <1>1, <1>2, <1>3

\* The V timer misses no H-IRQ when it is switched on or left alone.
LEMMA EnableVTimerOK ==
    ASSUME NEW s, Flags(s), Line(s), NEW on \in BOOLEAN
    PROVE  LET t == EnableVTimer(s, on)
           IN  /\ Flags(t) /\ Line(t) /\ SameNMI(s, t)
               /\ SameLoop(s, t) /\ t.vEnabled = on
               /\ HTimerMissed(t) => HTimerMissed(s) \/ (s.vEnabled /\ ~on)
               /\ \A x \in Nat \ {0} : OnPace(s, x) => Brisk(t, x)
<1> DEFINE t == [s EXCEPT !.vEnabled = on]
<1>1. s \in State /\ s.vEnabled \in BOOLEAN
  BY DEF Flags, State
<1>2. t \in State
  BY <1>1, Update
<1>3. /\ SameNMI(s, t) /\ SameLoop(s, t) /\ t.vEnabled = on /\ Flags(t) /\ Line(t)
      /\ t.hEnabled = s.hEnabled /\ t.cycles = s.cycles /\ t.hPos = s.hPos
      /\ t.next = s.next /\ t.vBeam = s.vBeam /\ t.event = s.event
  BY <1>1, <1>2 DEF Flags, Line, InHBlank, State, SameNMI, SameLoop
<1>4. EnableVTimer(s, on) =
        IF on /\ ~s.vEnabled THEN UpdateVTimer([s EXCEPT !.vEnabled = TRUE]) ELSE t
  BY DEF EnableVTimer
<1>p. ASSUME NEW x \in Nat \ {0}, OnPace(s, x)
      PROVE  OnPace(t, x)
  <2>1. s.cycles \in Int /\ s.next \in Int /\ SameTimer(s, t) /\ t.cycles = s.cycles
    BY <1>3 DEF Line, SameTimer
  <2>2. x \in Int /\ t.cycles \in Int /\ t.cycles + x <= s.cycles + x
    BY <2>1
  <2> HIDE DEF t
  <2> QED BY <1>p, <2>1, <2>2, LaterPace DEF OnPace
<1>q. t.next \in Int
  BY <1>3 DEF Line
<1>5. CASE on /\ ~s.vEnabled
  <2>1. [s EXCEPT !.vEnabled = TRUE] = t
    BY <1>1, <1>5
  <2>2. EnableVTimer(s, on) = UpdateVTimer(t)
    BY <1>4, <1>5, <2>1
  <2> HIDE DEF t
  <2>3. ASSUME NEW x \in Nat \ {0}, OnPace(s, x)
        PROVE  Brisk(UpdateVTimer(t), x)
    BY <1>3, <1>p, <2>3, UpdateVTimerPace
  <2> QED BY <1>3, <2>2, <2>3, UpdateVTimerOK DEF SameNMI, SameLoop
<1>6. CASE ~(on /\ ~s.vEnabled)
  <2>1. EnableVTimer(s, on) = t
    BY <1>4, <1>6
  <2> HIDE DEF t
  <2>b. ASSUME NEW x \in Nat \ {0}, OnPace(s, x)
        PROVE  Brisk(t, x)
    BY <1>2, <1>p, <1>q, <2>b, OnPaceIsBrisk
  <2>2. CASE s.vEnabled = on
    <3>1. LineMatches(t) <=> LineMatches(s)
      BY <1>3, <2>2 DEF LineMatches, SameNMI, SameLoop
    <3> QED BY <1>3, <2>1, <2>b, <3>1 DEF HTimerMissed
  <2>3. CASE s.vEnabled # on
    BY <1>1, <1>3, <1>6, <2>1, <2>b, <2>3
  <2> QED BY <2>2, <2>3
<1> QED BY <1>5, <1>6

LEMMA EnableHTimerOK ==
    ASSUME NEW s, Flags(s), Line(s), NEW on \in BOOLEAN
    PROVE  LET t == EnableHTimer(s, on)
           IN  /\ Flags(t) /\ Line(t) /\ SameNMI(s, t)
               /\ SameLoop(s, t) /\ t.vEnabled = s.vEnabled
               /\ HTimerMissed(t) => HTimerMissed(s)
               /\ \A x \in Nat \ {0} : Brisk(s, x) => Brisk(t, x)
<1>0. s \in State /\ HMax + 1 \in Nat
  BY LineAssumption DEF Flags
<1>1. CASE ~on
  <2> DEFINE t == [s EXCEPT !.hEnabled = FALSE, !.hPos = HMax + 1]
  <2>1. [s EXCEPT !.hEnabled = FALSE] \in State
    BY <1>0, Update
  <2>2. t \in State
    BY <1>0, <2>1, Update
  <2>3. SameNMI(s, t) /\ SameLoop(s, t) /\ t.vEnabled = s.vEnabled
        /\ Flags(t) /\ Line(t) /\ ~t.hEnabled
        /\ t.event = s.event /\ t.next = s.next /\ t.cycles = s.cycles
    BY <1>0, <2>2 DEF Flags, Line, InHBlank, State, SameNMI, SameLoop
  <2>4. EnableHTimer(s, on) = t
    BY <1>1 DEF EnableHTimer
  <2> HIDE DEF t
  <2>5. ASSUME NEW x \in Nat \ {0}, Brisk(s, x)
        PROVE  Brisk(t, x)
    BY <2>3, <2>5 DEF Brisk, Scheduled, Late, LastTimer
  <2> QED BY <2>3, <2>4, <2>5 DEF HTimerMissed
<1>2. CASE on /\ s.hEnabled
  BY <1>2 DEF EnableHTimer, SameNMI, SameLoop
<1>3. CASE on /\ ~s.hEnabled
  <2> DEFINE t == [s EXCEPT !.hEnabled = TRUE]
  <2>1. t \in State
    BY <1>0, Update
  <2>2. SameNMI(s, t) /\ SameLoop(s, t) /\ t.vEnabled = s.vEnabled
        /\ Flags(t) /\ Line(t) /\ t.hEnabled
        /\ t.event = s.event /\ t.next = s.next /\ t.cycles = s.cycles
    BY <1>0, <2>1 DEF Flags, Line, InHBlank, State, SameNMI, SameLoop
  <2>3. EnableHTimer(s, on) = S9xUpdateHTimer(t)
    BY <1>3 DEF EnableHTimer
  <2> HIDE DEF t
  <2>4. ASSUME NEW x \in Nat \ {0}, Brisk(s, x)
        PROVE  Brisk(S9xUpdateHTimer(t), x)
    <3>1. InReach(t.next) /\ Late(t, x)
      BY <2>2, <2>4 DEF Brisk, Scheduled, Late
    <3> QED BY <2>2, <3>1, UpdateHTimerPace
  <2> QED BY <2>2, <2>3, <2>4, UpdateHTimerOK DEF SameNMI, SameLoop
<1> QED BY <1>1, <1>2, <1>3

\* Enabling NMIs raises one in V-blank only, and none where the frame had one.
LEMMA EnableNMIOK ==
    ASSUME NEW s, Flags(s), Line(s), NEW on \in BOOLEAN
    PROVE  LET t == EnableNMI(s, on)
           IN  /\ Flags(t) /\ Line(t) /\ NMIStep(s, t) /\ t.vEnabled = s.vEnabled
               /\ t.v = s.v /\ (s.nmiActive => t.nmiActive)
               /\ HTimerMissed(t) => HTimerMissed(s)
               /\ SameBeam(s, t) /\ SameLoop(s, t) /\ t.cycles = s.cycles
<1> DEFINE u == [s EXCEPT !.nmiEnabled = on]
<1> DEFINE late == /\ on /\ ~s.nmiEnabled /\ s.nmiSeen /\ ~s.nmiActive
                   /\ s.v \in VBlankLine .. ScreenHeight + NMIWindow
<1>0. s \in State
  BY DEF Flags
<1>1. u \in State
  BY <1>0, Update
<1>2. /\ Flags(u) /\ SameNMI(s, u) /\ SameBeam(s, u)
      /\ SameLoop(s, u) /\ u.cycles = s.cycles
  BY <1>0, <1>1 DEF Flags, State, SameNMI, SameBeam, SameLoop
<1>3. EnableNMI(s, on) = IF late THEN RaiseNMI(u) ELSE u
  BY DEF EnableNMI
<1>4. s.cycles \in Nat
  BY DEF Line
<1>5. late => ~s.nmiActive /\ u.v >= VBlankLine
  BY <1>2 DEF SameNMI
<1> HIDE DEF u, late
<1>6. CASE late
  <2> DEFINE t == RaiseNMI(u)
  <2>1. Flags(t) /\ SameBeam(u, t) /\ SameLoop(u, t) /\ t.cycles = u.cycles
    BY <1>2, <1>5, <1>6, RaiseNMIOK
  <2>2. EnableNMI(s, on) = t
    BY <1>3, <1>6
  <2> HIDE DEF t
  <2>3. SameBeam(s, t) /\ SameLoop(s, t) /\ t.cycles = s.cycles
    BY <1>2, <2>1 DEF SameBeam, SameLoop
  <2>4. t.cycles \in Nat /\ t.cycles >= s.cycles
    BY <1>4, <2>3
  <2>5. Line(t) /\ (HTimerMissed(t) => HTimerMissed(s))
    BY <2>3, <2>4, LaterOK
  <2> QED BY <1>5, <1>6, <2>1, <2>2, <2>3, <2>5 DEF NMIStep, SameBeam, SameLoop
<1>7. CASE ~late
  <2>1. EnableNMI(s, on) = u
    BY <1>3, <1>7
  <2>2. u.cycles \in Nat /\ u.cycles >= s.cycles
    BY <1>2, <1>4
  <2>3. Line(u) /\ (HTimerMissed(u) => HTimerMissed(s))
    BY <1>2, <2>2, LaterOK
  <2> QED BY <1>2, <2>1, <2>3 DEF NMIStep, SameNMI, SameBeam, SameLoop
<1> QED BY <1>6, <1>7

-----------------------------------------------------------------------------
(* Steps                                                                   *)

\* What a step of the loop does.
Good(s, t) ==
    /\ Flags(t) /\ Line(t) /\ OnTime(t) /\ NMIStep(s, t)
    /\ HTimerMissed(t) => HTimerMissed(s) \/ (s.vEnabled /\ ~t.vEnabled)

\* What an instruction does before the check for an event.
Before(s, t) ==
    /\ Flags(t) /\ Line(t) /\ t.v = s.v
    /\ t.nmi => s.nmi \/ ~s.nmiActive
    /\ s.nmiActive => t.nmiActive
    /\ HTimerMissed(t) => HTimerMissed(s) \/ (s.vEnabled /\ ~t.vEnabled)
    /\ t.stage = "top" /\ Brisk(t, Iteration + Allowance(t))

\* A loop that is not late between two steps is on time.
LEMMA OnTimeOK ==
    ASSUME NEW s, Flags(s), Line(s),
           \/ s.stage = "top" /\ OnPace(s, Allowance(s))
           \/ s.stage = "fetch" /\ OnPace(s, Allowance(s) + Cost)
    PROVE  OnTime(s)
<1> DEFINE x == IF s.stage = "top" THEN Allowance(s) ELSE Allowance(s) + Cost
<1>1. x \in Nat /\ x <= Iteration
  BY AllowanceOK, LineEndsOK DEF Iteration
<1>2. OnPace(s, x)
  OBVIOUS
<1> HIDE DEF x
<1>3. PICK end \in LineEnds : s.cycles < end + 9 * Cost
  BY <1>1, <1>2, PaceBound DEF OnPace
<1>4. /\ end \in Nat /\ DMACost \in Nat /\ Cost \in Nat /\ s.cycles \in Nat
      /\ HDMAOfLine(s) \in Nat
  BY LineEndsOK DEF Line, HDMAOfLine
<1>5. s.cycles < end + 9 * Cost + DMACost + HDMAOfLine(s)
  BY <1>3, <1>4
<1> QED BY <1>5 DEF OnTime, OnPace

LEMMA CheckAfterOK ==
    ASSUME NEW u, Before(cpu, u), Checked(u)
    PROVE  Good(cpu, cpu')
<1>c. PICK hdma \in HDMATimes : cpu' = HBlankCheck(u, hdma)
  BY DEF Checked
<1> DEFINE t == HBlankCheck(u, hdma)
<1>1. /\ Flags(t) /\ Line(t) /\ NMIStep(u, t) /\ t.vEnabled = u.vEnabled
      /\ HTimerMissed(t) => HTimerMissed(u)
      /\ t.stage = "top" /\ OnPace(t, Allowance(t))
  BY CheckOK DEF Before
<1> HIDE DEF t
<1>2. NMIStep(cpu, t)
  BY <1>1 DEF Before, NMIStep
<1>3. HTimerMissed(t) => HTimerMissed(cpu) \/ (cpu.vEnabled /\ ~t.vEnabled)
  BY <1>1 DEF Before
<1>4. OnTime(t)
  BY <1>1, OnTimeOK
<1>5. Good(cpu, t)
  BY <1>1, <1>2, <1>3, <1>4 DEF Good
<1> QED BY <1>c, <1>5 DEF t

\* The opcode is fetched, and time may pass with it.
LEMMA FetchedOK ==
    ASSUME IInv, Running
    PROVE  /\ Flags(Fetched) /\ Line(Fetched)
           /\ SameBeam(cpu, Fetched) /\ SameNMI(cpu, Fetched)
           /\ Fetched.pc = cpu.pc /\ Fetched.waiting = cpu.waiting
           /\ HTimerMissed(Fetched) => HTimerMissed(cpu)
           /\ Fetched.stage = "top" /\ ~Fetched.scan
           /\ OnPace(Fetched, Iteration)
<1> DEFINE c == cpu.cycles + Cost
<1>1. cpu \in State /\ cpu.cycles \in Nat /\ c \in Nat /\ c >= cpu.cycles
  BY CostAssumption DEF IInv, Flags, Line
<1> HIDE DEF c
<1> DEFINE t == [cpu EXCEPT !.cycles = c, !.stage = "top"]
<1>2. Fetched = t
  BY DEF Fetched, c
<1>3. c \in Int
  BY <1>1
<1>4. [cpu EXCEPT !.cycles = c] \in State
  BY <1>1, <1>3, Update
<1>5. t \in State
  BY <1>4, Update
<1>6. /\ SameBeam(cpu, t) /\ SameNMI(cpu, t) /\ t.cycles = c
      /\ t.pc = cpu.pc /\ t.waiting = cpu.waiting /\ t.active = cpu.active
      /\ t.pending = cpu.pending /\ t.nmiCount = cpu.nmiCount
      /\ t.stage = "top" /\ t.scan = cpu.scan
  BY <1>1 DEF State, SameBeam, SameNMI
<1> HIDE DEF t
<1>7. Flags(t)
  BY <1>5, <1>6 DEF IInv, Flags, SameNMI
<1>8. Line(t) /\ (HTimerMissed(t) => HTimerMissed(cpu))
  <2>1. t.cycles \in Nat /\ t.cycles >= cpu.cycles
    BY <1>1, <1>6
  <2> QED BY <1>6, <2>1, LaterOK DEF IInv
<1>9. ~t.scan
  BY <1>6 DEF Running
<1>10. OnPace(t, Iteration)
  <2>1. OnPace(cpu, Allowance(cpu) + Cost) /\ Allowance(cpu) = Cost
    BY DEF Running, IInv, OnTime, Allowance
  <2>2. OnPace(cpu, 2 * Cost) /\ Cost \in Nat
    BY <2>1, CostAssumption
  <2>3. SameTimer(cpu, t) /\ cpu.next \in Int
    BY <1>6 DEF SameTimer, SameBeam, IInv, Line
  <2>4. t.cycles = cpu.cycles + Cost
    BY <1>6 DEF c
  <2>5. t.cycles + 2 * Cost <= cpu.cycles + Iteration
    BY <1>1, <2>2, <2>4 DEF Iteration
  <2>6. 2 * Cost \in Int /\ Iteration \in Int /\ cpu.cycles \in Int /\ t.cycles \in Int
    BY <1>1, <2>2, <2>4 DEF Iteration
  <2> QED BY <2>2, <2>3, <2>5, <2>6, LaterPace DEF OnPace
<1> QED BY <1>2, <1>6, <1>7, <1>8, <1>9, <1>10

\* What the timers are left with by an instruction, before its time is up.
LEMMA BriskOK ==
    ASSUME NEW u, Flags(u), Line(u), ~u.scan, Brisk(u, Iteration)
    PROVE  Brisk(u, Iteration + Allowance(u))
<1>1. /\ u.cycles \in Int /\ u.next \in Int /\ Cost \in Nat
      /\ Iteration \in Int /\ Allowance(u) = Cost
  BY CostAssumption DEF Line, Iteration, Allowance
<1>2. SameTimer(u, u) /\ SameBeam(u, u)
  BY DEF SameTimer, SameBeam
<1>3. Iteration + Allowance(u) \in Int
      /\ u.cycles + Iteration <= u.cycles + (Iteration + Allowance(u))
  BY <1>1
<1> QED BY <1>1, <1>2, <1>3, LaterPace DEF Brisk

\* An instruction that moves neither the beam nor the NMI of the frame.
LEMMA PlainOK ==
    ASSUME IInv, Running, NEW u, Flags(u), SameBeam(Fetched, u), SameNMI(Fetched, u),
           SameLoop(Fetched, u), u.cycles = Fetched.cycles, Checked(u)
    PROVE  Good(cpu, cpu')
<1>1. /\ Flags(Fetched) /\ Line(Fetched) /\ SameNMI(cpu, Fetched)
      /\ HTimerMissed(Fetched) => HTimerMissed(cpu)
      /\ Fetched.stage = "top" /\ ~Fetched.scan /\ OnPace(Fetched, Iteration)
  BY FetchedOK
<1>2. u.cycles \in Nat /\ u.cycles >= Fetched.cycles
  BY <1>1 DEF Line
<1>3. Line(u) /\ (HTimerMissed(u) => HTimerMissed(Fetched))
  BY <1>1, <1>2, LaterOK
<1>4. Brisk(u, Iteration)
  <2>1. SameTimer(Fetched, u) /\ Fetched.next \in Int /\ u.next \in Int /\ u \in State
    BY <1>1 DEF SameTimer, SameBeam, Line, Flags
  <2>2. Iteration \in Int /\ Fetched.cycles \in Int /\ u.cycles \in Int
    BY <1>1, CostAssumption DEF Line, Iteration
  <2>3. u.cycles + Iteration <= Fetched.cycles + Iteration
    BY <2>2
  <2>4. OnPace(u, Iteration)
    BY <1>1, <2>1, <2>2, <2>3, LaterPace DEF OnPace
  <2> QED BY <2>1, <2>4, OnPaceIsBrisk
<1>5. u.stage = "top" /\ ~u.scan
  BY <1>1 DEF SameLoop
<1>6. Brisk(u, Iteration + Allowance(u))
  BY <1>3, <1>4, <1>5, BriskOK
<1>7. Before(cpu, u)
  BY <1>1, <1>3, <1>5, <1>6 DEF Before, SameNMI
<1> QED BY <1>7, CheckAfterOK

LEMMA TopOK ==
    ASSUME IInv, Top
    PROVE  Good(cpu, cpu')
<1> DEFINE n == DeliverNMI(cpu)
<1> DEFINE d == DeliverIRQ(n)
<1>1. Flags(cpu) /\ Line(cpu) /\ cpu.cycles \in Nat
  BY DEF IInv, Line
<1>2. /\ Flags(n) /\ SameBeam(cpu, n) /\ (n.nmi => cpu.nmi)
      /\ n.cycles \in Nat /\ n.cycles >= cpu.cycles /\ SameLoop(cpu, n)
      /\ n.cycles = cpu.cycles \/ (n.cycles = cpu.cycles + Cost /\ n.masked)
  BY <1>1, DeliverNMIOK
<1> HIDE DEF n
<1>3. /\ Flags(d) /\ SameBeam(n, d) /\ SameNMI(n, d) /\ d \in State
      /\ d.cycles \in Nat /\ d.cycles >= n.cycles /\ SameLoop(n, d)
      /\ d.cycles = n.cycles \/ (d.cycles = n.cycles + Cost /\ ~n.masked)
  BY <1>2, DeliverIRQOK DEF Flags
<1> HIDE DEF d
<1> DEFINE t == [d EXCEPT !.stage = "fetch"]
<1>4. cpu' = t
  BY DEF Top, d, n
<1>5. t \in State
  BY <1>3, Update
<1>6. Flags(t) /\ SameBeam(d, t) /\ SameNMI(d, t) /\ t.cycles = d.cycles
      /\ t.stage = "fetch" /\ t.scan = d.scan
  BY <1>3, <1>5 DEF Flags, State, SameBeam, SameNMI
<1> HIDE DEF t
<1>7. SameBeam(cpu, t) /\ t.cycles \in Nat /\ t.cycles >= cpu.cycles
  BY <1>1, <1>2, <1>3, <1>6 DEF SameBeam
<1>8. Line(t) /\ (HTimerMissed(t) => HTimerMissed(cpu))
  BY <1>1, <1>7, LaterOK
<1>9. NMIStep(cpu, t)
  BY <1>2, <1>3, <1>6 DEF NMIStep, SameNMI
<1>10. t.cycles <= cpu.cycles + Cost
  BY <1>1, <1>2, <1>3, <1>6, CostAssumption
<1>11. OnPace(t, Allowance(t) + Cost)
  <2>1. OnPace(cpu, Allowance(cpu))
    BY DEF Top, IInv, OnTime
  <2>2. Allowance(t) = Allowance(cpu)
    BY <1>2, <1>3, <1>6 DEF Allowance, SameLoop
  <2>3. SameTimer(cpu, t) /\ cpu.next \in Int /\ cpu.cycles \in Int /\ t.cycles \in Int
    BY <1>1, <1>7 DEF SameTimer, SameBeam, Line
  <2>4. Allowance(cpu) \in Int /\ Allowance(cpu) + Cost \in Int /\ Cost \in Int
    BY AllowanceOK, CostAssumption
  <2>5. t.cycles + Allowance(cpu) <= cpu.cycles + (Allowance(cpu) + Cost)
    BY <1>10, <2>3, <2>4
  <2> QED BY <2>1, <2>2, <2>3, <2>4, <2>5, LaterPace DEF OnPace
<1>12. OnTime(t)
  BY <1>6, <1>8, <1>11, OnTimeOK
<1>13. Good(cpu, t)
  BY <1>6, <1>8, <1>9, <1>12 DEF Good
<1> QED BY <1>4, <1>13

LEMMA InstructionOK ==
    ASSUME IInv, Instruction
    PROVE  Good(cpu, cpu')
<1>1. Checked(Fetched) /\ Running
  BY DEF Instruction, InCode
<1> QED BY <1>1, FetchedOK, PlainOK DEF SameBeam, SameNMI, SameLoop

LEMMA SetMaskOK ==
    ASSUME IInv, NEW on \in BOOLEAN, SetMask(on)
    PROVE  Good(cpu, cpu')
<1> DEFINE f == Fetched
<1> DEFINE u == [f EXCEPT !.masked = on]
<1>0. Running
  BY DEF SetMask, InCode
<1>1. Flags(f) /\ f \in State
  BY <1>0, FetchedOK DEF Flags
<1>2. Checked(u)
  BY DEF SetMask
<1> HIDE DEF f
<1>3. u \in State
  BY <1>1, Update
<1>4. Flags(u) /\ SameBeam(f, u) /\ SameNMI(f, u) /\ SameLoop(f, u)
      /\ u.cycles = f.cycles
  BY <1>1, <1>3 DEF Flags, State, SameBeam, SameNMI, SameLoop
<1> HIDE DEF u
<1> QED BY <1>0, <1>2, <1>4, PlainOK DEF f

LEMMA Access4210OK ==
    ASSUME IInv, Access4210
    PROVE  Good(cpu, cpu')
<1> DEFINE f == Fetched
<1> DEFINE u == [f EXCEPT !.nmiSeen = FALSE]
<1>0. Running
  BY DEF Access4210, InCode
<1>1. Flags(f) /\ f \in State
  BY <1>0, FetchedOK DEF Flags
<1>2. Checked(u)
  BY DEF Access4210
<1> HIDE DEF f
<1>3. u \in State
  BY <1>1, Update
<1>4. Flags(u) /\ SameBeam(f, u) /\ SameNMI(f, u) /\ SameLoop(f, u)
      /\ u.cycles = f.cycles
  BY <1>1, <1>3 DEF Flags, State, SameBeam, SameNMI, SameLoop
<1> HIDE DEF u
<1> QED BY <1>0, <1>2, <1>4, PlainOK DEF f

\* $4211 and $2202
LEMMA AcknowledgeOK ==
    ASSUME IInv, InCode, NEW sources, Checked(ClearIRQ(Fetched, sources))
    PROVE  Good(cpu, cpu')
<1> DEFINE u == ClearIRQ(Fetched, sources)
<1>0. Running
  BY DEF InCode
<1>1. /\ Flags(u) /\ SameBeam(Fetched, u) /\ SameNMI(Fetched, u)
      /\ SameLoop(Fetched, u)
      /\ u.cycles = Fetched.cycles
  BY <1>0, FetchedOK, ClearIRQOK
<1>2. Checked(u)
  OBVIOUS
<1> HIDE DEF u
<1> QED BY <1>0, <1>1, <1>2, PlainOK

LEMMA S9xSA1MainLoopOK ==
    ASSUME IInv, S9xSA1MainLoop
    PROVE  Good(cpu, cpu')
<1> DEFINE t == S9xSetIRQ(cpu, "SA1")
<1>1. "SA1" \in Source /\ Flags(cpu) /\ Line(cpu) /\ cpu.cycles \in Nat
  BY DEF Source, IInv, Line
<1>2. /\ Flags(t) /\ SameBeam(cpu, t) /\ SameNMI(cpu, t)
      /\ t.cycles = cpu.cycles /\ SameLoop(cpu, t)
  BY <1>1, SetIRQOK
<1>3. cpu' = t
  BY DEF S9xSA1MainLoop
<1> HIDE DEF t
<1>4. t.cycles \in Nat /\ t.cycles >= cpu.cycles
  BY <1>1, <1>2
<1>5. Line(t) /\ (HTimerMissed(t) => HTimerMissed(cpu))
  BY <1>1, <1>2, <1>4, LaterOK
<1>6. t.stage = "top" /\ Allowance(t) = Allowance(cpu)
  BY <1>2 DEF S9xSA1MainLoop, SameLoop, Allowance
<1>7. OnPace(t, Allowance(t))
  <2>1. OnPace(cpu, Allowance(cpu))
    BY DEF S9xSA1MainLoop, IInv, OnTime
  <2>2. SameTimer(cpu, t) /\ cpu.next \in Int /\ cpu.cycles \in Int /\ t.cycles \in Int
    BY <1>1, <1>2 DEF SameTimer, SameBeam, Line
  <2>3. Allowance(cpu) \in Int
    BY AllowanceOK
  <2>4. t.cycles + Allowance(cpu) <= cpu.cycles + Allowance(cpu)
    BY <1>2, <2>2, <2>3
  <2> QED BY <1>6, <2>1, <2>2, <2>3, <2>4, LaterPace DEF OnPace
<1>8. OnTime(t)
  BY <1>2, <1>5, <1>6, <1>7, OnTimeOK
<1>9. Good(cpu, t)
  BY <1>2, <1>5, <1>8 DEF Good, NMIStep, SameNMI
<1> QED BY <1>3, <1>9

LEMMA Write4200OK ==
    ASSUME IInv, NEW nmi \in BOOLEAN, NEW v \in BOOLEAN, NEW h \in BOOLEAN,
           Write4200(nmi, v, h)
    PROVE  Good(cpu, cpu')
<1> DEFINE f == Fetched
<1> DEFINE a == EnableVTimer(f, v)
<1> DEFINE b == EnableHTimer(a, h)
<1> DEFINE c == ClearIRQ(b, TimerSource)
<1> DEFINE d == EnableNMI(c, nmi)
<1>1. Checked(d)
  BY DEF Write4200
<1>0. Running /\ Iteration \in Nat \ {0}
  BY IterationOK DEF Write4200, InCode
<1>2. /\ Flags(f) /\ Line(f) /\ SameBeam(cpu, f) /\ SameNMI(cpu, f)
      /\ HTimerMissed(f) => HTimerMissed(cpu)
      /\ f.stage = "top" /\ ~f.scan /\ OnPace(f, Iteration)
  BY <1>0, FetchedOK
<1> HIDE DEF f
<1>3. /\ Flags(a) /\ Line(a) /\ SameNMI(f, a) /\ a.vEnabled = v
      /\ HTimerMissed(a) => HTimerMissed(f) \/ (f.vEnabled /\ ~v)
      /\ SameLoop(f, a) /\ Brisk(a, Iteration)
  BY <1>0, <1>2, EnableVTimerOK
<1> HIDE DEF a
<1>4. /\ Flags(b) /\ Line(b) /\ SameNMI(a, b) /\ b.vEnabled = a.vEnabled
      /\ HTimerMissed(b) => HTimerMissed(a)
      /\ SameLoop(a, b) /\ Brisk(b, Iteration)
  BY <1>0, <1>3, EnableHTimerOK
<1> HIDE DEF b
<1>5. Flags(c) /\ SameBeam(b, c) /\ SameNMI(b, c)
      /\ SameLoop(b, c) /\ c.cycles = b.cycles
  BY <1>4, ClearIRQOK
<1> HIDE DEF c
<1>6. c.cycles \in Nat /\ c.cycles >= b.cycles
  BY <1>4, <1>5 DEF Line
<1>7. Line(c) /\ (HTimerMissed(c) => HTimerMissed(b))
  BY <1>4, <1>5, <1>6, LaterOK
<1>8. /\ Flags(d) /\ Line(d) /\ NMIStep(c, d) /\ d.vEnabled = c.vEnabled
      /\ d.v = c.v /\ (c.nmiActive => d.nmiActive)
      /\ HTimerMissed(d) => HTimerMissed(c)
      /\ SameBeam(c, d) /\ SameLoop(c, d) /\ d.cycles = c.cycles
  BY <1>5, <1>7, EnableNMIOK
<1> HIDE DEF d
<1>9. SameNMI(cpu, c)
  BY <1>2, <1>3, <1>4, <1>5 DEF SameNMI
<1>10. cpu.v \in Int
  BY DEF IInv, Flags, State
<1>11. d.v = cpu.v /\ (d.nmi => cpu.nmi \/ ~cpu.nmiActive)
       /\ (cpu.nmiActive => d.nmiActive)
  BY <1>8, <1>9, <1>10 DEF SameNMI, NMIStep
<1>12. HTimerMissed(d) => HTimerMissed(cpu) \/ (cpu.vEnabled /\ ~d.vEnabled)
  <2>1. d.vEnabled = v /\ f.vEnabled = cpu.vEnabled
    BY <1>2, <1>3, <1>4, <1>5, <1>8 DEF SameBeam
  <2> QED BY <1>2, <1>3, <1>4, <1>7, <1>8, <2>1
<1>13. d.stage = "top" /\ ~d.scan
  BY <1>2, <1>3, <1>4, <1>5, <1>8 DEF SameLoop
<1>14. Brisk(d, Iteration)
  <2>1. SameBeam(b, d) /\ SameTimer(b, d) /\ d.cycles = b.cycles
    BY <1>5, <1>8 DEF SameBeam, SameTimer
  <2>2. b.cycles \in Int /\ d.cycles \in Int /\ b.next \in Int /\ Iteration \in Int
    BY <1>4, <1>8, IterationOK DEF Line
  <2>3. d.cycles + Iteration <= b.cycles + Iteration
    BY <2>1, <2>2
  <2> QED BY <1>4, <2>1, <2>2, <2>3, LaterPace DEF Brisk
<1>15. Brisk(d, Iteration + Allowance(d))
  BY <1>8, <1>13, <1>14, BriskOK
<1>16. Before(cpu, d)
  BY <1>8, <1>11, <1>12, <1>13, <1>15 DEF Before
<1> QED BY <1>1, <1>16, CheckAfterOK

LEMMA WriteHBeamOK ==
    ASSUME IInv, NEW b \in HBeams, WriteHBeam(b)
    PROVE  Good(cpu, cpu')
<1> DEFINE f == Fetched
<1> DEFINE u == [f EXCEPT !.hBeam = b]
<1> DEFINE t == S9xUpdateHTimer(u)
<1>1. Checked(t)
  BY DEF WriteHBeam
<1>0. Running /\ Iteration \in Nat \ {0}
  BY IterationOK DEF WriteHBeam, InCode
<1>2. /\ Flags(f) /\ Line(f) /\ SameNMI(cpu, f) /\ f \in State
      /\ f.stage = "top" /\ ~f.scan /\ OnPace(f, Iteration)
  BY <1>0, FetchedOK DEF Flags
<1> HIDE DEF f
<1>3. b \in HBeams \cup {0}
  OBVIOUS
<1>4. u \in State
  BY <1>2, <1>3, Update
<1>5. /\ Flags(u) /\ Line(u) /\ SameNMI(f, u)
      /\ SameLoop(f, u) /\ SameTimer(f, u) /\ u.cycles = f.cycles
  BY <1>2, <1>4 DEF Flags, Line, InHBlank, State, SameNMI, SameLoop, SameTimer
<1> HIDE DEF u
<1>u. OnPace(u, Iteration)
  <2>1. f.cycles \in Int /\ u.cycles \in Int /\ f.next \in Int /\ Iteration \in Int
    BY <1>2, <1>5, IterationOK DEF Line
  <2>2. u.cycles + Iteration <= f.cycles + Iteration
    BY <1>5, <2>1
  <2> QED BY <1>2, <1>5, <2>1, <2>2, LaterPace DEF OnPace
<1>6. /\ Flags(t) /\ Line(t) /\ SameNMI(u, t) /\ ~HTimerMissed(t)
      /\ SameLoop(u, t)
  BY <1>5, UpdateHTimerOK
<1>7. Brisk(t, Iteration)
  <2>1. InReach(u.next) /\ Late(u, Iteration)
    BY <1>u DEF OnPace, Scheduled
  <2> QED BY <1>0, <1>5, <1>u, <2>1, UpdateHTimerPace
<1> HIDE DEF t
<1>8. t.stage = "top" /\ ~t.scan
  BY <1>2, <1>5, <1>6 DEF SameLoop
<1>9. Brisk(t, Iteration + Allowance(t))
  BY <1>6, <1>7, <1>8, BriskOK
<1>10. Before(cpu, t)
  BY <1>2, <1>5, <1>6, <1>8, <1>9 DEF Before, SameNMI
<1> QED BY <1>1, <1>10, CheckAfterOK

LEMMA WriteVBeamOK ==
    ASSUME IInv, NEW b \in VBeams, WriteVBeam(b)
    PROVE  Good(cpu, cpu')
<1> DEFINE f == Fetched
<1> DEFINE u == [f EXCEPT !.vBeam = b]
<1> DEFINE t == IF u.vEnabled THEN UpdateVTimer(u) ELSE u
<1>1. Checked(t)
  BY DEF WriteVBeam
<1>0. Running /\ Iteration \in Nat \ {0}
  BY IterationOK DEF WriteVBeam, InCode
<1>2. /\ Flags(f) /\ Line(f) /\ SameNMI(cpu, f) /\ f \in State
      /\ HTimerMissed(f) => HTimerMissed(cpu)
      /\ f.stage = "top" /\ ~f.scan /\ OnPace(f, Iteration)
  BY <1>0, FetchedOK DEF Flags
<1> HIDE DEF f
<1>3. b \in VBeams \cup {0}
  OBVIOUS
<1>4. u \in State
  BY <1>2, <1>3, Update
<1>5. /\ Flags(u) /\ Line(u) /\ SameNMI(f, u)
      /\ u.hEnabled = f.hEnabled /\ u.vEnabled = f.vEnabled
      /\ u.cycles = f.cycles /\ u.hPos = f.hPos /\ u.next = f.next
      /\ SameLoop(f, u) /\ SameTimer(f, u)
  BY <1>2, <1>4 DEF Flags, Line, InHBlank, State, SameNMI, SameLoop, SameTimer
<1> HIDE DEF u
<1>u. OnPace(u, Iteration)
  <2>1. f.cycles \in Int /\ u.cycles \in Int /\ f.next \in Int /\ Iteration \in Int
    BY <1>2, <1>5, IterationOK DEF Line
  <2>2. u.cycles + Iteration <= f.cycles + Iteration
    BY <1>5, <2>1
  <2> QED BY <1>2, <1>5, <2>1, <2>2, LaterPace DEF OnPace
<1>6. /\ Flags(t) /\ Line(t) /\ SameNMI(u, t)
      /\ HTimerMissed(t) => HTimerMissed(cpu)
      /\ SameLoop(u, t) /\ Brisk(t, Iteration)
  <2>1. CASE u.vEnabled
    BY <1>0, <1>5, <1>u, <2>1, UpdateVTimerOK, UpdateVTimerPace
  <2>2. CASE ~u.vEnabled
    <3>1. u \in State /\ u.next \in Int
      BY <1>5 DEF Flags, Line
    <3>2. Brisk(u, Iteration)
      BY <1>u, <3>1, OnPaceIsBrisk
    <3> QED BY <1>2, <1>5, <2>2, <3>2
            DEF SameNMI, SameLoop, HTimerMissed, LineMatches
  <2> QED BY <2>1, <2>2
<1> HIDE DEF t
<1>7. t.stage = "top" /\ ~t.scan
  BY <1>2, <1>5, <1>6 DEF SameLoop
<1>8. Brisk(t, Iteration + Allowance(t))
  BY <1>6, <1>7, BriskOK
<1>9. Before(cpu, t)
  BY <1>2, <1>5, <1>6, <1>7, <1>8 DEF Before, SameNMI
<1> QED BY <1>1, <1>9, CheckAfterOK

\* The clock is moved to the event that is due, backwards if it is past it.
LEMMA SkipOK ==
    ASSUME NEW s, NEW t, Flags(s), Line(s), SameBeam(s, t), t.cycles = s.next
    PROVE  Line(t) /\ ~HTimerMissed(t)
<1>1. s.next \in Nat /\ s.event \in Event /\ s.hPos \in Nat /\ HMax \in Nat
      /\ HBlankStart \in Nat /\ HBlankStart < HMax
  BY LineAssumption DEF Flags, State, Line
<1>2. InHBlank(s) => s.next >= HBlankStart
  BY <1>1 DEF Line, InHBlank
<1>3. Line(t)
  BY <1>1, <1>2 DEF Line, InHBlank, SameBeam
<1>4. ~HTimerMissed(t)
  BY <1>1 DEF HTimerMissed, SameBeam
<1> QED BY <1>3, <1>4

\* A loop that moved its clock to the event is on pace.
LEMMA SkipPace ==
    ASSUME NEW s, NEW t, Flags(t), Line(t), SameBeam(s, t), Scheduled(s),
           t.cycles = s.next, ~t.scan
    PROVE  Brisk(t, Iteration + Allowance(t))
<1> DEFINE x == Iteration + Allowance(t)
<1>1. x \in Nat /\ 0 < x
  BY AllowanceOK
<1>2. Scheduled(t) /\ t.cycles = t.next
  BY DEF Scheduled, SameBeam
<1>3. t.next \in Nat /\ t \in State /\ t.next \in Int
  BY DEF Line, Flags
<1> HIDE DEF x
<1>4. t.cycles < t.next + x
  BY <1>1, <1>2, <1>3
<1>5. OnPace(t, x)
  BY <1>1, <1>2, <1>4, NotLate
<1> QED BY <1>3, <1>5, OnPaceIsBrisk DEF x

LEMMA WAIOK ==
    ASSUME IInv, WAI
    PROVE  Good(cpu, cpu')
<1> DEFINE f == Fetched
<1> DEFINE w == [f EXCEPT !.waiting = TRUE, !.pc = 0]
<1>1. PICK skip \in BOOLEAN :
        Checked([w EXCEPT !.cycles = IF skip THEN w.next ELSE @ + Cost])
  BY DEF WAI
<1>0. Running /\ Iteration \in Nat \ {0}
  BY IterationOK DEF WAI
<1>2. /\ Flags(f) /\ Line(f) /\ SameNMI(cpu, f) /\ f \in State
      /\ HTimerMissed(f) => HTimerMissed(cpu)
      /\ f.cycles \in Nat /\ f.next \in Nat
      /\ f.stage = "top" /\ ~f.scan /\ OnPace(f, Iteration)
  BY <1>0, FetchedOK DEF Flags, Line
<1> HIDE DEF f
<1>3. [f EXCEPT !.waiting = TRUE] \in State
  BY <1>2, Update
<1>4. w \in State
  BY <1>3, Update
<1>5. /\ Flags(w) /\ SameBeam(f, w) /\ SameNMI(f, w) /\ w.cycles = f.cycles
      /\ w.next = f.next /\ SameLoop(f, w)
  BY <1>2, <1>4 DEF Flags, State, SameBeam, SameNMI, SameLoop
<1> HIDE DEF w
<1> DEFINE c == IF skip THEN w.next ELSE w.cycles + Cost
<1> DEFINE t == [w EXCEPT !.cycles = c]
<1>6. Checked(t)
  BY <1>1
<1>7. c \in Nat /\ (skip => c = f.next) /\ (~skip => c >= f.cycles)
      /\ (~skip => c = f.cycles + Cost)
  BY <1>2, <1>5, CostAssumption
<1> HIDE DEF c
<1>8. c \in Int
  BY <1>7
<1>9. t \in State
  BY <1>4, <1>8, Update
<1>10. Flags(t) /\ SameBeam(f, t) /\ SameNMI(f, t) /\ t.cycles = c
       /\ SameLoop(f, t)
  BY <1>4, <1>5, <1>9 DEF Flags, State, SameBeam, SameNMI, SameLoop
<1> HIDE DEF t
<1>11. Line(t) /\ (HTimerMissed(t) => HTimerMissed(f))
  <2>1. CASE skip
    BY <1>2, <1>7, <1>10, <2>1, SkipOK
  <2>2. CASE ~skip
    BY <1>2, <1>7, <1>10, <2>2, LaterOK
  <2> QED BY <2>1, <2>2
<1>12. t.stage = "top" /\ ~t.scan
  BY <1>2, <1>10 DEF SameLoop
<1>13. Brisk(t, Iteration + Allowance(t))
  <2>1. CASE skip
    BY <1>2, <1>7, <1>10, <1>11, <1>12, <2>1, SkipPace DEF OnPace
  <2>2. CASE ~skip
    <3>1. Allowance(t) = Cost /\ Cost \in Int
      BY <1>12, CostAssumption DEF Allowance
    <3>2. SameTimer(f, t) /\ t.next \in Int /\ t \in State
      BY <1>10, <1>11 DEF SameTimer, SameBeam, Flags, Line
    <3>3. t.cycles = f.cycles + Cost
      BY <1>7, <1>10, <2>2
    <3>4. Iteration \in Int /\ Iteration + Cost \in Int
          /\ f.cycles \in Int /\ t.cycles \in Int /\ f.next \in Int
      BY <1>2, <3>1, <3>3, IterationOK
    <3>5. t.cycles + Iteration <= f.cycles + (Iteration + Cost)
      BY <3>1, <3>3, <3>4
    <3>6. OnPace(t, Iteration + Cost)
      BY <1>2, <3>2, <3>4, <3>5, LaterPace DEF OnPace
    <3> QED BY <3>1, <3>2, <3>6, OnPaceIsBrisk
  <2> QED BY <2>1, <2>2
<1>14. Before(cpu, t)
  BY <1>2, <1>10, <1>11, <1>12, <1>13 DEF Before, SameNMI
<1> QED BY <1>6, <1>14, CheckAfterOK

LEMMA ShutdownOK ==
    ASSUME IInv, Shutdown
    PROVE  Good(cpu, cpu')
<1> DEFINE f == Fetched
<1> DEFINE t == [f EXCEPT !.cycles = f.next]
<1>1. Checked(t)
  BY DEF Shutdown
<1>0. Running
  BY DEF Shutdown, InCode
<1>2. /\ Flags(f) /\ Line(f) /\ SameNMI(cpu, f) /\ f \in State
      /\ f.next \in Int
      /\ f.stage = "top" /\ ~f.scan /\ OnPace(f, Iteration)
  BY <1>0, FetchedOK DEF Flags, Line
<1> HIDE DEF f
<1>3. t \in State
  BY <1>2, Update
<1>4. Flags(t) /\ SameBeam(f, t) /\ SameNMI(f, t) /\ t.cycles = f.next
      /\ SameLoop(f, t)
  BY <1>2, <1>3 DEF Flags, State, SameBeam, SameNMI, SameLoop
<1> HIDE DEF t
<1>5. Line(t) /\ ~HTimerMissed(t)
  BY <1>2, <1>4, SkipOK
<1>6. t.stage = "top" /\ ~t.scan
  BY <1>2, <1>4 DEF SameLoop
<1>7. Brisk(t, Iteration + Allowance(t))
  BY <1>2, <1>4, <1>5, <1>6, SkipPace DEF OnPace
<1>8. Before(cpu, t)
  BY <1>2, <1>4, <1>5, <1>6, <1>7 DEF Before, SameNMI
<1> QED BY <1>1, <1>8, CheckAfterOK

LEMMA S9xDoDMAOK ==
    ASSUME IInv, S9xDoDMA
    PROVE  Good(cpu, cpu')
<1> DEFINE f == Fetched
<1> DEFINE c == f.cycles + DMACost
<1> DEFINE t == [f EXCEPT !.cycles = c, !.stage = "dma"]
<1>1. cpu' = t
  BY DEF S9xDoDMA
<1>0. Running
  BY DEF S9xDoDMA, InCode
<1>2. /\ Flags(f) /\ Line(f) /\ SameNMI(cpu, f) /\ f \in State
      /\ HTimerMissed(f) => HTimerMissed(cpu)
      /\ f.cycles \in Nat
      /\ f.stage = "top" /\ ~f.scan /\ OnPace(f, Iteration)
  BY <1>0, FetchedOK DEF Flags, Line
<1> HIDE DEF f
<1>b. \E end \in LineEnds : c < end + 9 * Cost + DMACost
  <2>1. Iteration \in Nat /\ Iteration <= Iteration
    BY IterationOK
  <2>2. PICK end \in LineEnds : f.cycles < end + 9 * Cost
    BY <1>2, <2>1, PaceBound DEF OnPace
  <2>3. end \in Nat /\ Cost \in Nat /\ DMACost \in Nat
    BY LineEndsOK
  <2> QED BY <1>2, <2>2, <2>3
<1>3. c \in Nat /\ c \in Int /\ c >= f.cycles
  BY <1>2, CostAssumption
<1> HIDE DEF c
<1>4. [f EXCEPT !.cycles = c] \in State
  BY <1>2, <1>3, Update
<1>5. t \in State
  BY <1>4, Update
<1>6. Flags(t) /\ SameBeam(f, t) /\ SameNMI(f, t) /\ t.cycles = c
      /\ t.stage = "dma"
  BY <1>2, <1>5 DEF Flags, State, SameBeam, SameNMI
<1> HIDE DEF t
<1>7. Line(t) /\ (HTimerMissed(t) => HTimerMissed(f))
  BY <1>2, <1>3, <1>6, LaterOK
<1>8. Scheduled(t)
  BY <1>2, <1>6 DEF OnPace, Scheduled, SameBeam
<1>9. OnTime(t)
  <2>1. PICK end \in LineEnds : c < end + 9 * Cost + DMACost
    BY <1>b
  <2>2. /\ end \in Nat /\ DMACost \in Nat /\ Cost \in Nat /\ HDMAOfLine(t) \in Nat
    BY LineEndsOK DEF HDMAOfLine
  <2>3. t.cycles < end + 9 * Cost + DMACost + HDMAOfLine(t)
    BY <1>3, <1>6, <2>1, <2>2
  <2> QED BY <1>6, <1>8, <2>3 DEF OnTime
<1>10. Good(cpu, t)
  BY <1>2, <1>6, <1>7, <1>9 DEF Good, NMIStep, SameNMI
<1> QED BY <1>1, <1>10

LEMMA DMAEventsOK ==
    ASSUME IInv, DMAEvents
    PROVE  Good(cpu, cpu')
<1>1. /\ Flags(cpu) /\ Line(cpu) /\ cpu \in State
      /\ cpu.cycles \in Nat /\ cpu.next \in Nat
      /\ cpu.stage = "dma" /\ OnTime(cpu) /\ Scheduled(cpu)
  BY DEF IInv, Flags, Line, OnTime, DMAEvents
<1>2. CASE cpu.cycles > cpu.next
  <2>p. PICK hdma \in HDMATimes : cpu' = S9xDoHBlankProcessing(cpu, hdma)
    BY <1>2 DEF DMAEvents
  <2> DEFINE t == S9xDoHBlankProcessing(cpu, hdma)
  <2>1. cpu' = t
    BY <2>p
  <2>2. cpu.cycles >= cpu.next
    BY <1>1, <1>2
  <2>3. Flags(t) /\ Line(t) /\ ~HTimerMissed(t) /\ NMIStep(cpu, t)
        /\ Follows(cpu, t)
    BY <1>1, <2>2, ProcessingOK
  <2> HIDE DEF t
  <2>4. Scheduled(t) /\ t.stage = "dma"
    BY <1>1, <2>3, ProcessingScheduled DEF Follows
  <2>6. PICK end \in LineEnds : cpu.cycles < end + 9 * Cost + DMACost + HDMAOfLine(cpu)
    BY <1>1 DEF OnTime
  <2>7. /\ end \in Nat /\ Cost \in Nat /\ DMACost \in Nat
        /\ HDMACost \in Nat /\ HDMACost <= HMax /\ HMax \in Nat
    BY LineEndsOK
  <2>n. t.cycles \in Nat /\ cpu.event \in Event
    BY <1>1, <2>3 DEF Line, State
  <2>8. t.cycles < end + 9 * Cost + DMACost + HDMAOfLine(t)
    <3>1. CASE cpu.event = "hblankStart"
      <4>1. HDMAOfLine(cpu) = 0 /\ HDMAOfLine(t) = HDMACost
            /\ t.cycles <= cpu.cycles + HDMACost
        BY <2>3, <3>1 DEF Follows, HDMAOfLine, InHBlank
      <4> QED BY <1>1, <2>6, <2>7, <2>n, <4>1
    <3>2. CASE cpu.event = "hblankEnd"
      <4>1. HDMAOfLine(cpu) = HDMACost /\ HDMAOfLine(t) = 0
            /\ t.cycles = cpu.cycles - HMax
        BY <2>3, <3>2 DEF Follows, HDMAOfLine, InHBlank
      <4> QED BY <1>1, <2>6, <2>7, <2>n, <4>1
    <3>3. CASE cpu.event \in {"htimerBefore", "htimerAfter"}
      <4>1. HDMAOfLine(t) = HDMAOfLine(cpu) /\ t.cycles = cpu.cycles
        BY <2>3, <3>3 DEF Follows, HDMAOfLine, InHBlank, TimerDue
      <4> QED BY <2>6, <4>1
    <3> QED BY <2>n, <3>1, <3>2, <3>3 DEF Event
  <2>9. OnTime(t)
    BY <2>4, <2>8 DEF OnTime
  <2>10. Good(cpu, t)
    BY <2>3, <2>9 DEF Good
  <2> QED BY <2>1, <2>10
<1>3. CASE ~(cpu.cycles > cpu.next)
  <2> DEFINE t == [cpu EXCEPT !.stage = "top"]
  <2>1. Checked(t)
    BY <1>3 DEF DMAEvents
  <2>2. t \in State
    BY <1>1, Update
  <2>3. Flags(t) /\ SameBeam(cpu, t) /\ SameNMI(cpu, t) /\ t.cycles = cpu.cycles
        /\ t.stage = "top"
    BY <1>1, <2>2 DEF Flags, State, SameBeam, SameNMI
  <2> HIDE DEF t
  <2>4. t.cycles \in Nat /\ t.cycles >= cpu.cycles
    BY <1>1, <2>3
  <2>5. Line(t) /\ (HTimerMissed(t) => HTimerMissed(cpu))
    BY <1>1, <2>3, <2>4, LaterOK
  <2>6. Brisk(t, Iteration + Allowance(t))
    <3> DEFINE x == Iteration + Allowance(t)
    <3>1. x \in Nat /\ 0 < x
      BY AllowanceOK
    <3>2. Scheduled(t) /\ t.next = cpu.next /\ t.next \in Int
      BY <1>1, <2>3 DEF Scheduled, SameBeam
    <3> HIDE DEF x
    <3>3. t.cycles < t.next + x
      BY <1>1, <1>3, <2>3, <3>1, <3>2
    <3>4. OnPace(t, x)
      BY <2>3, <2>5, <3>1, <3>2, <3>3, NotLate
    <3> QED BY <2>2, <3>2, <3>4, OnPaceIsBrisk DEF x
  <2>7. Before(cpu, t)
    BY <2>3, <2>5, <2>6 DEF Before, SameNMI
  <2> QED BY <2>1, <2>7, CheckAfterOK
<1> QED BY <1>2, <1>3

LEMMA FrameEndOK ==
    ASSUME IInv, FrameEnd
    PROVE  Good(cpu, cpu')
<1> DEFINE t == [cpu EXCEPT !.scan = FALSE, !.stage = "top"]
<1>1. Flags(cpu) /\ Line(cpu) /\ cpu \in State /\ cpu.cycles \in Nat
  BY DEF IInv, Flags, Line
<1>2. [cpu EXCEPT !.scan = FALSE] \in State
  BY <1>1, Update
<1>3. t \in State
  BY <1>2, Update
<1>4. Flags(t) /\ SameBeam(cpu, t) /\ SameNMI(cpu, t) /\ t.cycles = cpu.cycles
      /\ t.stage = "top" /\ ~t.scan
  BY <1>1, <1>3 DEF Flags, State, SameBeam, SameNMI
<1>5. cpu' = t
  BY DEF FrameEnd
<1> HIDE DEF t
<1>6. t.cycles \in Nat /\ t.cycles >= cpu.cycles
  BY <1>1, <1>4
<1>7. Line(t) /\ (HTimerMissed(t) => HTimerMissed(cpu))
  BY <1>1, <1>4, <1>6, LaterOK
<1>8. OnPace(t, Allowance(t))
  <2>1. OnPace(cpu, 0 + Cost)
    BY DEF FrameEnd, IInv, OnTime, Allowance
  <2>2. Cost \in Int /\ 0 + Cost = Cost /\ Allowance(t) = Cost
    BY <1>4, CostAssumption DEF Allowance
  <2>3. SameTimer(cpu, t) /\ cpu.cycles \in Int /\ t.cycles \in Int /\ cpu.next \in Int
    BY <1>1, <1>4 DEF SameTimer, SameBeam, Line
  <2>4. t.cycles + Cost <= cpu.cycles + Cost
    BY <1>4, <2>2, <2>3
  <2> QED BY <2>1, <2>2, <2>3, <2>4, LaterPace DEF OnPace
<1>9. OnTime(t)
  BY <1>4, <1>7, <1>8, OnTimeOK
<1>10. Good(cpu, t)
  BY <1>4, <1>7, <1>9 DEF Good, NMIStep, SameNMI
<1> QED BY <1>5, <1>10

-----------------------------------------------------------------------------
(* The invariant                                                           *)

LEMMA InitOK == Init => IInv
<1> SUFFICES ASSUME Init
             PROVE  IInv
  OBVIOUS
<1>1. /\ HMax \in Nat /\ HBlankStart \in Nat /\ 0 < HBlankStart /\ VMax \in Nat
      /\ 0 \in 0 .. VMax - 1 /\ VBlankLine \in Nat /\ 0 < VBlankLine
      /\ 0 \in 0 .. NMITrigger /\ HMax + 1 \in Nat
  BY LineAssumption, FrameAssumption, TriggerAssumption DEF VBlankLine, FirstVisibleLine
<1>2. {} \in SUBSET Source /\ "hblankStart" \in Event
  BY DEF Event
<1>3. cpu \in State
  BY <1>1, <1>2 DEF Init, State
<1>4. Flags(cpu)
  BY <1>1, <1>3 DEF Init, Flags
<1>5. Line(cpu)
  BY <1>1 DEF Init, Line, InHBlank
<1>6. OnTime(cpu)
  <2>1. /\ HMax \in LineEnds /\ HMax \in Nat /\ HBlankStart \in Nat
        /\ HBlankStart < HMax /\ Cost \in Nat /\ 0 < Cost
    BY LineEndsOK
  <2>2. /\ cpu.cycles = 0 /\ cpu.next = HBlankStart /\ ~cpu.hEnabled
        /\ cpu.stage = "top" /\ ~cpu.scan
    BY DEF Init
  <2>3. Scheduled(cpu)
    BY <2>1, <2>2 DEF Scheduled, InReach
  <2>4. Allowance(cpu) \in Nat
    BY AllowanceOK
  <2>5. cpu.cycles < cpu.next + Allowance(cpu)
    BY <1>1, <2>2, <2>4
  <2>6. OnPace(cpu, Allowance(cpu))
    BY <1>4, <1>5, <2>3, <2>4, <2>5, NotLate
  <2> QED BY <1>4, <1>5, <2>2, <2>6, OnTimeOK
<1> QED BY <1>4, <1>5, <1>6 DEF IInv

LEMMA StepOK ==
    ASSUME IInv, Next
    PROVE  Good(cpu, cpu')
<1>1. NMIBits \subseteq BOOLEAN /\ TimerBits \subseteq BOOLEAN
  BY GameAssumption
<1>2. CASE Top
  BY <1>2, TopOK
<1>3. CASE Instruction
  BY <1>3, InstructionOK
<1>4. CASE \E on \in BOOLEAN : SetMask(on)
  BY <1>4, SetMaskOK
<1>5. CASE \E nmi \in NMIBits, v, h \in TimerBits : Write4200(nmi, v, h)
  <2>1. PICK nmi \in NMIBits, v \in TimerBits, h \in TimerBits : Write4200(nmi, v, h)
    BY <1>5
  <2>2. nmi \in BOOLEAN /\ v \in BOOLEAN /\ h \in BOOLEAN
    BY <1>1
  <2> QED BY <2>1, <2>2, Write4200OK
<1>6. CASE \E b \in HBeams : WriteHBeam(b)
  BY <1>6, WriteHBeamOK
<1>7. CASE \E b \in VBeams : WriteVBeam(b)
  BY <1>7, WriteVBeamOK
<1>8. CASE Access4210
  BY <1>8, Access4210OK
<1>9. CASE Access4211
  BY <1>9, AcknowledgeOK DEF Access4211
<1>10. CASE S9xSA1MainLoop
  BY <1>10, S9xSA1MainLoopOK
<1>11. CASE Write2202
  BY <1>11, AcknowledgeOK DEF Write2202
<1>12. CASE WAI
  BY <1>12, WAIOK
<1>13. CASE Shutdown
  BY <1>13, ShutdownOK
<1>14. CASE S9xDoDMA
  BY <1>14, S9xDoDMAOK
<1>15. CASE DMAEvents
  BY <1>15, DMAEventsOK
<1>16. CASE FrameEnd
  BY <1>16, FrameEndOK
<1> QED BY <1>2, <1>3, <1>4, <1>5, <1>6, <1>7, <1>8, <1>9, <1>10, <1>11, <1>12,
           <1>13, <1>14, <1>15, <1>16 DEF Next

LEMMA Invariance == Spec => []IInv
<1>1. IInv /\ [Next]_cpu => IInv'
  <2>1. ASSUME IInv, Next
        PROVE  IInv'
    <3>1. Good(cpu, cpu')
      BY <2>1, StepOK
    <3>2. Flags(cpu') /\ Line(cpu') /\ OnTime(cpu')
      BY <3>1 DEF Good
    <3> QED BY <3>2 DEF IInv
  <2>2. ASSUME IInv, UNCHANGED cpu
        PROVE  IInv'
    BY <2>2 DEF IInv
  <2> QED BY <2>1, <2>2
<1> QED BY InitOK, <1>1, PTL DEF Spec

\* The state of the loop has its type between any two steps: the clock of the
\* line is not negative, and the lines and counters are in their range.
THEOREM TypeCorrect == Spec => []TypeOK
<1>1. IInv => TypeOK
  <2> SUFFICES ASSUME IInv
               PROVE  TypeOK
    OBVIOUS
  <2>1. cpu \in State /\ cpu.cycles \in Nat /\ cpu.next \in Nat /\ cpu.hblanks \in {0, 1}
    BY DEF IInv, Flags, Line
  <2> QED BY <2>1 DEF State, TypeOK
<1> QED BY <1>1, Invariance, PTL

\* Each line starts one H-blank, whatever the game writes to the timers and when.
THEOREM OneHBlankPerLine == Spec => []HBlankOncePerLine
<1>1. IInv => HBlankOncePerLine
  BY DEF IInv, Line, InHBlank, HBlankOncePerLine
<1> QED BY <1>1, Invariance, PTL

\* The clock of a line runs past its end by the timer, a DMA, the HDMA of the line
\* and three iterations at most, whatever the game writes, and no event is scheduled
\* later.
THEOREM NoEventPutOff == Spec => []LineBounded
<1>1. IInv => LineBounded
  <2> SUFFICES ASSUME IInv
               PROVE  LineBounded
    OBVIOUS
  <2>1. PICK end \in LineEnds : cpu.cycles < end + 9 * Cost + DMACost + HDMAOfLine(cpu)
    BY DEF IInv, OnTime
  <2>2. /\ end \in Nat /\ Cost \in Nat /\ DMACost \in Nat /\ HDMACost \in Nat
        /\ HDMAOfLine(cpu) \in Nat /\ HDMAOfLine(cpu) <= HDMACost
        /\ cpu.cycles \in Nat
    BY LineEndsOK DEF HDMAOfLine, IInv, Line
  <2>3. cpu.cycles < end + 9 * Cost + DMACost + HDMACost
    BY <2>1, <2>2
  <2> QED BY <2>3 DEF IInv, OnTime, Scheduled, InReach, LineBounded
<1> QED BY <1>1, Invariance, PTL

\* No IRQ source stays active while the loop takes nothing for pending.
THEOREM ActiveIRQPending == Spec => []IRQNotForgotten
<1>1. IInv => IRQNotForgotten
  BY DEF IInv, Flags, IRQNotForgotten
<1> QED BY <1>1, Invariance, PTL

\* Interrupts leave a WAI once, and nothing else does.
THEOREM WaitingAtWAI == Spec => []WaitsAtWAI
<1>1. IInv => WaitsAtWAI
  BY DEF IInv, Flags, WaitsAtWAI
<1> QED BY <1>1, Invariance, PTL

\* Every step but one that switches the V timer off keeps the H timer of the
\* line scheduled while it is ahead of the beam.
THEOREM HTimerKept == Spec => HTimerMissedOnlyByVTimerOff
<1>1. IInv /\ [Next]_cpu
        => [~HTimerMissed(cpu) /\ HTimerMissed(cpu') => cpu.vEnabled /\ ~cpu'.vEnabled]_cpu
  <2> SUFFICES ASSUME IInv, Next
               PROVE  ~HTimerMissed(cpu) /\ HTimerMissed(cpu')
                        => cpu.vEnabled /\ ~cpu'.vEnabled
    OBVIOUS
  <2>1. Good(cpu, cpu')
    BY StepOK
  <2> QED BY <2>1 DEF Good
<1> QED BY <1>1, Invariance, PTL DEF Spec, HTimerMissedOnlyByVTimerOff

\* A frame raises one NMI at most.
THEOREM OneNMI == Spec => OneNMIPerFrame
<1>1. IInv /\ [Next]_cpu
        => [~cpu.nmi /\ cpu'.nmi => ~cpu.nmiActive \/ cpu'.v < cpu.v]_cpu
  <2> SUFFICES ASSUME IInv, Next
               PROVE  ~cpu.nmi /\ cpu'.nmi => ~cpu.nmiActive \/ cpu'.v < cpu.v
    OBVIOUS
  <2>1. Good(cpu, cpu')
    BY StepOK
  <2> QED BY <2>1 DEF Good, NMIStep
<1> QED BY <1>1, Invariance, PTL DEF Spec, OneNMIPerFrame

=============================================================================
