---------------------------- MODULE CpuExecution ----------------------------
(***************************************************************************)
(* The main loop of the emulated SNES CPU (src/src/snes9x/                 *)
(* cpu_execution.cpp): the events of a scanline, the H and V timers, the   *)
(* delivery of IRQ and NMI, and WAI.                                       *)
(*                                                                         *)
(* The game is the environment: it executes instructions, each of which    *)
(* may write the timer registers, acknowledge, mask, wait or start a DMA,  *)
(* whenever the loop lets it.  An iteration of the loop is two steps, the   *)
(* delivery of interrupts and an instruction with the check for an event   *)
(* after it; a DMA processes the events that passed one by one.            *)
(*                                                                         *)
(* Not here: what instructions compute, the APU (it only catches up with   *)
(* CPU.Cycles), what the SA-1 does but its IRQ, the Super FX, and the hacks *)
(* DaffyDuck and DisableIRQ, both off.  The height of the screen does not change.        *)
(***************************************************************************)
EXTENDS Integers

CONSTANTS
    HMax,          \* Settings.H_Max, the cycles of a scanline
    HBlankStart,   \* Settings.HBlankStart
    HCounterMax,   \* SNES_HCOUNTER_MAX, the dots of a scanline
    VMax,          \* SNES_MAX_NTSC_VCOUNTER, the lines of a frame
    ScreenHeight,  \* PPU.ScreenHeight
    NMITrigger,    \* CPU.NMITriggerPoint
    NMIWindow,     \* lines into V-blank where enabling NMIs still raises one
    Cost,          \* cycles of an instruction
    DMACost,       \* cycles of a DMA
    HDMACost,      \* cycles of HDMA on a line, at most
    HDMATimes,     \* those the channels and tables of the game take on one
    HBeams,        \* dots the game programs the H timer to
    VBeams,        \* lines it programs the V timer to
    TimerBits,     \* whether it sets the timer enable bits of $4200
    NMIBits,       \* whether it sets the NMI enable bit of $4200
    SA1            \* Settings.SA1, whether the cartridge has one

FirstVisibleLine == 1
VBlankLine == ScreenHeight + FirstVisibleLine

ASSUME LineAssumption ==
    /\ HMax \in Nat /\ HBlankStart \in 1 .. HMax - 2 /\ HCounterMax \in 1 .. HMax
ASSUME FrameAssumption ==
    /\ VMax \in Nat /\ ScreenHeight \in Nat \ {0}
    /\ NMIWindow \in Nat /\ VBlankLine + NMIWindow < VMax
ASSUME TriggerAssumption == NMITrigger \in Nat \ {0}
ASSUME CostAssumption ==
    /\ Cost \in Nat \ {0} /\ DMACost \in Nat \ {0}
    /\ HDMACost \in Nat /\ HDMATimes \subseteq 0 .. HDMACost /\ 0 \in HDMATimes
ASSUME GameAssumption ==
    /\ HBeams \subseteq Nat /\ VBeams \subseteq Nat /\ HBeams # {} /\ VBeams # {}
    /\ TimerBits \subseteq BOOLEAN /\ NMIBits \subseteq BOOLEAN
    /\ SA1 \in BOOLEAN

\* An instruction is short: 68 cycles at most (SLOW_ONE_CYCLE is 8: a BRK, or a 16-bit
\* change of memory with an index), and so is HDMA: 448 (eight channels, each with a
\* byte and a word of its table and four bytes to transfer); a line has 1368
\* (SNES_CYCLES_PER_SCANLINE), the H-blank starts at 1024, and the largest dot of the
\* 9 bits of the timer, 511, is cycle 2044.
ASSUME PaceAssumption ==
    /\ 13 * Cost + HDMACost <= HMax
    /\ 7 * Cost <= HBlankStart
    /\ \A b \in HBeams : (b * HMax) \div HCounterMax + 4 * Cost <= HMax + HBlankStart

Event == {"hblankStart", "hblankEnd", "htimerBefore", "htimerAfter"}
TimerSource == {"H", "V"}
Source == TimerSource \cup {"SA1"}

VARIABLE cpu      \* what the loop keeps in CPU, PPU and Memory.FillRAM

\* pc is CPU.PC relative to the last WAI executed: 0 at it, 1 past it.
TypeOK == cpu \in
    [cycles    : Nat,
     event     : Event,                      \* CPU.WhichEvent
     next      : Nat,                        \* CPU.NextEvent
     hblanks   : {0, 1},                     \* HDMA passes on this line
     v         : 0 .. VMax - 1,              \* CPU.V_Counter
     hEnabled  : BOOLEAN, vEnabled : BOOLEAN,
     hBeam     : HBeams \cup {0}, vBeam : VBeams \cup {0},
     hPos      : Nat,                        \* PPU.HTimerPosition
     active    : SUBSET Source,              \* CPU.IRQActive
     pending   : BOOLEAN,                    \* IRQ_PENDING_FLAG
     irqCount  : 0 .. 3,                     \* CPU.IRQCycleCount
     masked    : BOOLEAN,                    \* the I flag of the CPU
     waiting   : BOOLEAN,                    \* CPU.WaitingForInterrupt
     pc        : {0, 1},
     nmi       : BOOLEAN,                    \* NMI_FLAG
     nmiCount  : 0 .. NMITrigger,            \* CPU.NMICycleCount
     nmiActive : BOOLEAN,                    \* CPU.NMIActive
     nmiEnabled: BOOLEAN,                    \* bit 7 of $4200
     nmiSeen   : BOOLEAN,                    \* bit 7 of $4210
     scan      : BOOLEAN,                    \* SCAN_KEYS_FLAG
     stage     : {"top", "fetch", "dma"}]     \* where the loop is

\* S9xResetCPU and S9xResetPPU
Init == cpu =
    [cycles |-> 0, event |-> "hblankStart", next |-> HBlankStart, hblanks |-> 0,
     v |-> 0, hEnabled |-> FALSE, vEnabled |-> FALSE, hBeam |-> 0, vBeam |-> 0,
     hPos |-> HMax + 1, active |-> {}, pending |-> FALSE, irqCount |-> 0,
     masked |-> TRUE, waiting |-> FALSE, pc |-> 1, nmi |-> FALSE, nmiCount |-> 0,
     nmiActive |-> FALSE, nmiEnabled |-> FALSE, nmiSeen |-> FALSE,
     scan |-> FALSE, stage |-> "top"]

-----------------------------------------------------------------------------
(* IRQ lines                                                               *)

\* The instruction pointer leaves a WAI.
Wake(s) == IF s.waiting THEN [s EXCEPT !.waiting = FALSE, !.pc = @ + 1] ELSE s

\* Mutant: a waiting CPU is woken, and left to wait again.
S9xSetIRQKeepsWaiting(s, source) ==
    LET t == [s EXCEPT !.active = @ \cup {source}, !.pending = TRUE]
    IN  IF s.waiting THEN [t EXCEPT !.irqCount = 0, !.pc = @ + 1]
        ELSE [t EXCEPT !.irqCount = 3]

S9xSetIRQ(s, source) ==
    [Wake(s) EXCEPT !.active = @ \cup {source}, !.pending = TRUE,
                    !.irqCount = IF s.waiting THEN 0 ELSE 3]

\* Mutant: the pending flag goes whatever other source is active.
ClearIRQPending(s, sources) ==
    [s EXCEPT !.active = @ \ sources, !.pending = FALSE]

\* CLEAR_IRQ_SOURCE
ClearIRQ(s, sources) ==
    [s EXCEPT !.active = @ \ sources, !.pending = @ /\ s.active \ sources # {}]

-----------------------------------------------------------------------------
(* The events of a scanline                                                *)

LineMatches(s) == ~s.vEnabled \/ s.v = s.vBeam

\* Mutant: a timer position already reached is scheduled again.
S9xRescheduleAgain(s) ==
    LET end   == s.event \in {"hblankStart", "htimerAfter"}
        max   == IF end THEN HMax ELSE HBlankStart
        timer == s.hEnabled /\ s.hPos < max /\ s.hPos >= s.next /\ LineMatches(s)
    IN  [s EXCEPT
          !.next  = IF timer THEN s.hPos ELSE max,
          !.event = IF timer
                    THEN IF s.hPos < HBlankStart THEN "htimerBefore" ELSE "htimerAfter"
                    ELSE IF end THEN "hblankEnd" ELSE "hblankStart"]

\* Mutant: after the timer event of the H-blank comes the start of the H-blank.
S9xRescheduleTwice(s) ==
    LET end   == s.event = "hblankStart"
        max   == IF end THEN HMax ELSE HBlankStart
        timer == s.hEnabled /\ s.hPos < max /\ s.hPos > s.next /\ LineMatches(s)
    IN  [s EXCEPT
          !.next  = IF timer THEN s.hPos ELSE max,
          !.event = IF timer
                    THEN IF s.hPos < HBlankStart THEN "htimerBefore" ELSE "htimerAfter"
                    ELSE IF end THEN "hblankEnd" ELSE "hblankStart"]

S9xReschedule(s) ==
    LET end   == s.event \in {"hblankStart", "htimerAfter"}
        max   == IF end THEN HMax ELSE HBlankStart
        timer == s.hEnabled /\ s.hPos < max /\ s.hPos > s.next /\ LineMatches(s)
    IN  [s EXCEPT
          !.next  = IF timer THEN s.hPos ELSE max,
          !.event = IF timer
                    THEN IF s.hPos < HBlankStart THEN "htimerBefore" ELSE "htimerAfter"
                    ELSE IF end THEN "hblankEnd" ELSE "hblankStart"]

RaiseNMI(s) == [s EXCEPT !.nmiActive = TRUE, !.nmi = TRUE, !.nmiCount = NMITrigger]

\* Mutant: the comparison with the number of lines is off by one.
NextLineLate(s) ==
    LET t == [s EXCEPT !.cycles = @ - HMax, !.next = -1, !.hblanks = 0]
    IN  IF s.v >= VMax THEN [t EXCEPT !.v = 0, !.nmiActive = FALSE, !.scan = TRUE]
        ELSE [t EXCEPT !.v = @ + 1]

\* The counter moves to the next line, and at the last one a frame is over.
NextLine(s) ==
    LET t == [s EXCEPT !.cycles = @ - HMax, !.next = -1, !.hblanks = 0]
    IN  IF s.v + 1 >= VMax THEN [t EXCEPT !.v = 0, !.nmiActive = FALSE, !.scan = TRUE]
        ELSE [t EXCEPT !.v = @ + 1]

VTimer(s) ==
    IF s.vEnabled /\ ~s.hEnabled /\ s.v = s.vBeam THEN S9xSetIRQ(s, "V") ELSE s

\* The start of V-blank, and the first visible line.
VBlank(s) ==
    CASE s.v = VBlankLine ->
           LET t == [s EXCEPT !.nmiSeen = TRUE]
           IN  IF s.nmiEnabled THEN RaiseNMI(t) ELSE t
      [] s.v = FirstVisibleLine -> [s EXCEPT !.nmiSeen = FALSE, !.nmi = FALSE]
      [] OTHER -> s

HTimer(s) == IF s.hEnabled /\ LineMatches(s) THEN S9xSetIRQ(s, "H") ELSE s

\* The H-blank starts.  On a line of the picture HDMA adds its time, 0 when no
\* channel is on or its transfer is not due.
S9xDoHDMA(s, hdma) ==
    [s EXCEPT !.hblanks = @ + 1,
              !.cycles = IF s.v <= ScreenHeight THEN @ + hdma ELSE @]

S9xDoHBlankProcessing(s, hdma) ==
    S9xReschedule(
      CASE s.event = "hblankStart" -> S9xDoHDMA(s, hdma)
        [] s.event = "hblankEnd" -> VBlank(VTimer(NextLine(s)))
        [] OTHER -> HTimer(s))

\* DO_HBLANK_CHECK
HBlankCheck(s, hdma) ==
    IF s.cycles >= s.next THEN S9xDoHBlankProcessing(s, hdma) ELSE s

-----------------------------------------------------------------------------
(* Delivery, at the top of the loop                                        *)

\* S9xOpcode_NMI and S9xOpcode_IRQ: the CPU is at the handler, IRQs masked.
Vector(s) == [s EXCEPT !.masked = TRUE, !.pc = 1, !.cycles = @ + Cost]

DeliverNMI(s) ==
    IF ~s.nmi THEN s
    ELSE IF s.nmiCount = 1 THEN Vector(Wake([s EXCEPT !.nmiCount = 0, !.nmi = FALSE]))
    ELSE [s EXCEPT !.nmiCount = @ - 1]

\* Mutant: an IRQ stays one instruction away from its delivery, masked or not.
DeliverIRQNever(s) ==
    IF ~s.pending THEN s
    ELSE IF s.irqCount > 0
    THEN [s EXCEPT !.irqCount = IF @ = 1 THEN 1 ELSE @ - 1]
    ELSE LET w == Wake(s)
         IN  IF w.active = {} THEN [w EXCEPT !.pending = FALSE]
             ELSE IF w.masked THEN w ELSE Vector(w)

\* A masked IRQ stays one instruction away from its delivery.
DeliverIRQ(s) ==
    IF ~s.pending THEN s
    ELSE IF s.irqCount > 0
    THEN [s EXCEPT !.irqCount = IF @ = 1 /\ s.masked THEN 1 ELSE @ - 1]
    ELSE LET w == Wake(s)
         IN  IF w.active = {} THEN [w EXCEPT !.pending = FALSE]
             ELSE IF w.masked THEN w ELSE Vector(w)

-----------------------------------------------------------------------------
(* The registers of the timers and of the NMI                              *)

S9xUpdateHTimer(s) ==
    LET dot  == (s.hBeam * HMax) \div HCounterMax
        hPos == IF dot \in {HMax, HBlankStart} THEN dot - 1 ELSE dot
        late == s.event \in {"hblankEnd", "htimerAfter"}
        t    == [s EXCEPT !.hPos = hPos]
    IN  IF ~s.hEnabled THEN s
        ELSE IF ~LineMatches(s) THEN t
        ELSE IF hPos < s.cycles /\ late
        THEN [t EXCEPT !.event = "hblankEnd", !.next = HMax]
        ELSE IF late
        THEN [t EXCEPT !.event = "htimerAfter", !.next = hPos]
        ELSE IF hPos < s.cycles \/ hPos > HBlankStart
        THEN [t EXCEPT !.event = "hblankStart", !.next = HBlankStart]
        ELSE [t EXCEPT !.event = "htimerBefore", !.next = hPos]

\* Mutant: with the H timer on, nothing is scheduled.
UpdateVTimerOnly(s) ==
    IF ~s.hEnabled /\ s.vBeam = s.v THEN S9xSetIRQ(s, "V") ELSE s

\* The V timer is enabled or moved: by itself it interrupts on a whole line.
UpdateVTimer(s) ==
    IF s.hEnabled THEN S9xUpdateHTimer(s)
    ELSE IF s.vBeam = s.v THEN S9xSetIRQ(s, "V") ELSE s

EnableVTimer(s, on) ==
    IF on /\ ~s.vEnabled THEN UpdateVTimer([s EXCEPT !.vEnabled = TRUE])
    ELSE [s EXCEPT !.vEnabled = on]

EnableHTimer(s, on) ==
    IF ~on THEN [s EXCEPT !.hEnabled = FALSE, !.hPos = HMax + 1]
    ELSE IF s.hEnabled THEN s ELSE S9xUpdateHTimer([s EXCEPT !.hEnabled = TRUE])

\* Mutant: NMIActive is not tested.
EnableNMIAgain(s, on) ==
    LET t == [s EXCEPT !.nmiEnabled = on]
    IN  IF /\ on /\ ~s.nmiEnabled /\ s.nmiSeen
           /\ s.v \in VBlankLine .. ScreenHeight + NMIWindow
        THEN RaiseNMI(t) ELSE t

\* NMIs enabled early in V-blank, with the V-blank flag still set, come at once.
EnableNMI(s, on) ==
    LET t == [s EXCEPT !.nmiEnabled = on]
    IN  IF /\ on /\ ~s.nmiEnabled /\ s.nmiSeen /\ ~s.nmiActive
           /\ s.v \in VBlankLine .. ScreenHeight + NMIWindow
        THEN RaiseNMI(t) ELSE t

-----------------------------------------------------------------------------
(* Iterations of the loop                                                  *)

Top ==
    /\ cpu.stage = "top"
    /\ cpu' = [DeliverIRQ(DeliverNMI(cpu)) EXCEPT !.stage = "fetch"]

\* The next opcode is fetched, unless the frame is over.
Running == cpu.stage = "fetch" /\ ~cpu.scan
InCode == Running /\ cpu.pc = 1         \* the next instruction is not the WAI
Fetched == [cpu EXCEPT !.cycles = @ + Cost, !.stage = "top"]

\* The step ends with the check: HDMA, if it comes then, takes what time it takes.
Checked(s) == \E hdma \in HDMATimes : cpu' = HBlankCheck(s, hdma)

Instruction == InCode /\ Checked(Fetched)

\* CLI, SEI, PLP and RTI
SetMask(on) == InCode /\ Checked([Fetched EXCEPT !.masked = on])

Write4200(nmi, v, h) ==
    /\ InCode
    /\ Checked(EnableNMI(
           ClearIRQ(EnableHTimer(EnableVTimer(Fetched, v), h), TimerSource), nmi))

WriteHBeam(b) ==       \* $4207 and $4208
    /\ InCode
    /\ b # cpu.hBeam
    /\ Checked(S9xUpdateHTimer([Fetched EXCEPT !.hBeam = b]))

WriteVBeam(b) ==       \* $4209 and $420A
    /\ InCode
    /\ b # cpu.vBeam
    /\ LET s == [Fetched EXCEPT !.vBeam = b]
       IN  Checked(IF s.vEnabled THEN UpdateVTimer(s) ELSE s)

Access4210 == InCode /\ Checked([Fetched EXCEPT !.nmiSeen = FALSE])
Access4211 == InCode /\ Checked(ClearIRQ(Fetched, TimerSource))

\* The SA-1 runs between an instruction and the check for an event, and may
\* raise an IRQ there; a write to $2202 acknowledges it.
S9xSA1MainLoop ==
    /\ SA1 /\ cpu.stage = "top"
    /\ cpu' = S9xSetIRQ(cpu, "SA1")
Write2202 == SA1 /\ InCode /\ Checked(ClearIRQ(Fetched, {"SA1"}))

\* WAI, again and again until an interrupt: with Settings.Shutdown the time to
\* the next event is skipped.
WAI ==
    /\ Running
    /\ \E skip \in BOOLEAN :
         LET s == [Fetched EXCEPT !.waiting = TRUE, !.pc = 0]
         IN  Checked([s EXCEPT !.cycles = IF skip THEN s.next ELSE @ + Cost])

\* CPUShutdown: a branch closes a loop that waits for nothing but time.
Shutdown ==
    /\ InCode
    /\ ~cpu.pending /\ ~cpu.nmi
    /\ Checked([Fetched EXCEPT !.cycles = Fetched.next])

\* $420B: the CPU stops, then the events that passed are processed.
S9xDoDMA ==
    /\ InCode
    /\ cpu' = [Fetched EXCEPT !.cycles = @ + DMACost, !.stage = "dma"]

\* Mutant: one event at most is processed after a DMA.
DMAEventsOnce ==
    /\ cpu.stage = "dma"
    /\ Checked([cpu EXCEPT !.stage = "top"])

DMAEvents ==
    /\ cpu.stage = "dma"
    /\ IF cpu.cycles > cpu.next
       THEN \E hdma \in HDMATimes : cpu' = S9xDoHBlankProcessing(cpu, hdma)
       ELSE Checked([cpu EXCEPT !.stage = "top"])

\* The frame is over: the loop returns after the delivery, and is called again.
FrameEnd ==
    /\ cpu.stage = "fetch" /\ cpu.scan
    /\ cpu' = [cpu EXCEPT !.scan = FALSE, !.stage = "top"]

Next ==
    \/ Top
    \/ Instruction
    \/ \E on \in BOOLEAN : SetMask(on)
    \/ \E nmi \in NMIBits, v, h \in TimerBits : Write4200(nmi, v, h)
    \/ \E b \in HBeams : WriteHBeam(b)
    \/ \E b \in VBeams : WriteVBeam(b)
    \/ Access4210
    \/ Access4211
    \/ S9xSA1MainLoop
    \/ Write2202
    \/ WAI
    \/ Shutdown
    \/ S9xDoDMA
    \/ DMAEvents
    \/ FrameEnd

Spec == Init /\ [][Next]_cpu

\* The loop runs: steps never end.  Some step is always enabled, so this is
\* WF_cpu(Next), in the form that needs no ENABLED.
FairSpec == Spec /\ []<><<TRUE>>_cpu

-----------------------------------------------------------------------------
(* Properties                                                              *)

\* The start of an H-blank (and its HDMA pass) is processed once on every line
\* whatever the game does to the timers: the event that is due says on which
\* side of it the line is, and when it is due.
HBlankOncePerLine ==
    /\ cpu.hblanks = IF cpu.event \in {"hblankEnd", "htimerAfter"} THEN 1 ELSE 0
    /\ cpu.event = "hblankStart"  => cpu.next = HBlankStart
    /\ cpu.event = "hblankEnd"    => cpu.next = HMax
    /\ cpu.event = "htimerBefore" => cpu.next < HBlankStart
    /\ cpu.event = "htimerAfter"  => cpu.next > HBlankStart

\* A line is stretched by an H timer position past its end, a DMA, the HDMA of the
\* line and nine instructions at most: no event is put off without end.  A loop that
\* is late for the events before the H-blank may, with HDMA then, itself end the line
\* past HMax.
LineEnds == {HMax, HBlankStart + 6 * Cost + HDMACost}
            \cup {(b * HMax) \div HCounterMax : b \in HBeams}
LineBounded ==
    /\ \E end \in LineEnds : cpu.next <= end
    /\ \E end \in LineEnds : cpu.cycles < end + 9 * Cost + DMACost + HDMACost

\* An active IRQ source is never forgotten by the loop.
IRQNotForgotten == cpu.active # {} => cpu.pending

\* The program counter stays on a WAI exactly as long as the CPU waits: no
\* interrupt resumes the WAI, or skips a byte after it.
WaitsAtWAI == cpu.waiting <=> cpu.pc = 0

\* The H timer of this line is ahead of the beam, and its event is not due.
HTimerMissed(s) ==
    /\ s.hEnabled /\ LineMatches(s)
    /\ s.cycles < s.hPos /\ s.hPos < HMax
    /\ s.next > s.hPos

\* The only step that makes the loop miss an H-IRQ still to come on this line
\* is disabling the V timer, which schedules nothing.
HTimerMissedOnlyByVTimerOff ==
    [][~HTimerMissed(cpu) /\ HTimerMissed(cpu') => cpu.vEnabled /\ ~cpu'.vEnabled]_cpu

\* A frame raises one NMI at most, however often the game enables NMIs: a second
\* one is raised only after the counter was back at line 0.
OneNMIPerFrame ==
    [][~cpu.nmi /\ cpu'.nmi => ~cpu.nmiActive \/ cpu'.v < cpu.v]_cpu

\* A CPU that waits is woken by an NMI, and by an IRQ that is not masked.
WAIEnds ==
    /\ cpu.waiting /\ cpu.nmi ~> ~cpu.waiting
    /\ cpu.waiting /\ cpu.active # {} /\ ~cpu.masked ~> ~cpu.waiting

\* Frames end, whatever the game does to the timers.
FramesEnd == []<>cpu.scan
=============================================================================
