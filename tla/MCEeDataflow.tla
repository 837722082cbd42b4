---------------------------- MODULE MCEeDataflow ----------------------------
(***************************************************************************)
(* Function bodies for EeDataflow: shapes of control flow, with every way  *)
(* to fill in the words left open.  Register 3 is the link register, 2 the *)
(* count; 100 is the entry of memset, 200 that of any other function.      *)
(***************************************************************************)
EXTENDS EeLocalScan, SequencesExt

W(kind, fn, rd, rs, rt, imm) ==
    [kind |-> kind, fn |-> fn, rd |-> rd, rs |-> rs, rt |-> rt, imm |-> imm, width |-> 2,
     target |-> 200, likely |-> FALSE, link |-> NoReg]
Lui(rd, v) == W("alui", "add", rd, 0, 0, v)
Add(rd, rs, v) == W("alui", "add", rd, rs, 0, v)
Load(rd, rs, off) == W("load", "", rd, rs, 0, off)
Store(rs, off) == W("store", "", 0, rs, 0, off)
Nop == W("none", "", 0, 0, 0, 0)
Branch(fn, rs, rt, to) == [W("branch", fn, 0, rs, rt, 0) EXCEPT !.target = to]
Likely(w) == [w EXCEPT !.likely = TRUE]
Jump(to) == [W("jump", "", 0, 0, 0, 0) EXCEPT !.target = to]
Call(to) == [W("call", "", 0, 0, 0, 0) EXCEPT !.target = to, !.link = LastLink]
Return == W("return", "", 0, LastLink, 0, 0)
Linking(w) == [w EXCEPT !.link = LastLink]

MCReg == 0 .. 3
MCInputs == {0, 1, -5}
MCCallees == [t \in {100} |-> {1}]

\* The words a shape leaves open.
Open == {Nop, Lui(1, 4), Lui(1, 6), Add(1, 1, 2), Load(1, 1, 0), W("mov", "movz", 1, 2, 3, 0),
         W("barrier", "", 0, 0, 0, 0)}
Few == {Nop, Lui(1, 4), Add(1, 1, 2)}

\* A body given as a sequence.
Body(q) == [i \in 0 .. Len(q) - 1 |-> q[i + 1]]

Diamond == {Body(<<Lui(1, 4), b, d, x, Jump(7), Nop, y, Load(2, 1, 0)>>) :
    b \in {Branch("beq", 2, 3, 6), Likely(Branch("bne", 2, 3, 6))}, d \in Open, x \in Few, y \in Few}
Loop == {Body(<<Lui(1, 4), Lui(2, 2), Store(1, 0), x, Add(2, 2, -1), b, d, Load(2, 1, 2)>>) :
    b \in {Branch("bne", 2, 0, 2), Likely(Branch("bgtz", 2, 0, 2)), Branch("beq", 2, 3, 3)},
    x \in Few, d \in Open}
Calls == {Body(<<x, Lui(2, 3), c, d, Store(1, 0), Return, Load(1, 3, 0)>>) :
    x \in Few,
    c \in {Call(100), Call(200), Linking(Branch("bltz", 1, 0, 200)),
          Linking(Likely(Branch("bgez", 1, 0, 200)))},
    d \in Open}
Bad == {Body(<<Lui(1, 4), b, x, Store(1, 0), y, Nop>>) :
    b \in {Branch("beq", 2, 3, 2), Branch("beq", 2, 3, 9), Call(3), W("indirect", "", 0, 1, 0, 0), Jump(1)},
    x \in Few \cup {Return}, y \in Few \cup {Return}}

\* The link register, and entries in the middle.
Links == {Body(<<Lui(3, 6), c, Store(3, 0), Store(1, 0), Return, Nop>>) :
             c \in {Call(200), Call(3), Linking(Branch("bltz", 1, 0, 3)), Jump(3)}}
    \cup {Body(<<c, Nop, Lui(1, 4), Store(1, 0), Return, Nop>>) :
             c \in {Call(3), Linking(Branch("bltz", 1, 0, 3)), Branch("beq", 2, 3, 3)}}

\* A jump through a table, which may lead between two words that look local.
Table == {Body(<<W("indirect", "", 0, 2, 0, 0), Nop, Lui(1, 4), Store(1, 0), Return, Nop>>)}

\* Both ways of a likely branch enter the same word, with other facts.
Meeting == {Body(<<Lui(1, 4), Likely(Branch("beq", 2, 3, 3)), d, Store(1, 0), Return, Nop>>) : d \in Few}
Straight == {Body(<<Lui(1, 4), Lui(2, 3), x, Branch(fn, 1, 2, 6), d, Store(2, 0), Load(2, 1, 0), Return, Nop>>) :
    x \in {W("alu", "sub", 1, 2, 1, 0), W("alu", "mul", 1, 1, 2, 0), W("alui", "slti", 1, 2, 0, -1),
           W("alui", "sltiu", 1, 2, 0, -1), W("mov", "movn", 1, 2, 3, 0), W("mov", "movz", 1, 3, 0, 0),
           W("write", "", 1, 0, 0, 0), W("write", "other", 3, 0, 0, 0), W("none", "other", 0, 0, 0, 0)},
    fn \in {"beq", "blez", "bgtz", "bltz", "bgez", "bc"}, d \in {Nop, Add(1, 1, 2)}}

\* A loop in which one register after the other turns out to change: the
\* analysis gives up.
Chain == {Body(<<Lui(1, 4), Lui(2, 4), Lui(3, 4), Nop, Nop, Nop, Nop, Nop, x, Add(1, 2, 0),
                 Add(2, 3, 0), Add(3, 3, 1), Branch("bne", 3, 0, 3), Nop>>) : x \in {Store(1, 0), Nop}}

\* A conditional move in a loop: first its condition is known, then only that
\* both of its sources are the same, and then it depends on other words.
Select == {Body(<<Lui(3, 0), Lui(1, 4), Lui(2, 4), W("mov", "movz", 1, 2, 3, 0), Store(1, 0),
                  Load(3, 1, 0), Branch("bne", 3, 0, 1), x, Return, Nop>>) : x \in Few}

\* Odd words of opcode 0: the local scan goes on where the others stop, in a
\* straight line and in the delay words of calls.
Odds == {W("barrier", "trap", 0, 0, 0, 0), W("barrier", "trap", 1, 0, 0, 0),
         W("barrier", "alui", 1, 0, 0, 6), W("barrier", "alu", 1, 1, 2, 0)}
Strange == {Body(<<Lui(1, 4), Lui(2, 2), o, x, Store(1, 0), c, d, Store(1, 0), Return, Nop>>) :
    o \in Odds \cup {Nop}, x \in {Nop, Add(1, 1, 2), Branch("beq", 2, 3, 7), W("alui", "mul", 1, 1, 0, 2)},
    c \in {Call(100), Nop}, d \in Odds \cup {Nop}}

MCPrograms == Strange \cup Select \cup Table \cup Meeting \cup Chain \cup Straight \cup Links \cup Diamond \cup Loop \cup Calls \cup Bad
=============================================================================
