------------------------------ MODULE Inflate ------------------------------
(***************************************************************************)
(* inflate of zlib 1.1.3 (src/src/zlib): a compressed stream is decoded     *)
(* through a bit buffer and a circular window, with input and output cut   *)
(* into pieces anywhere by the application.                                *)
(*                                                                         *)
(* The bit buffer is its length k and the input is an offset: the pieces   *)
(* of the input lie one after the other in memory, and base is where the   *)
(* piece of this call starts.  A step is one pass through the switch of a  *)
(* state machine; a call of inflate is the steps from Call to the next     *)
(* return.                                                                 *)
(*                                                                         *)
(* Not here: preset dictionaries, inflateSync, allocations that fail, and  *)
(* matches that reach behind the start of the output or out of the window. *)
(***************************************************************************)
EXTENDS DeflateStream, FiniteSetsExt

CONSTANTS
    FastInput,     \* input that inflate_fast asks for (10)
    InSizes,       \* sizes of input buffers
    OutSizes       \* sizes of output buffers

ASSUME SizeAssumption ==
    /\ WindowSize >= MaxMatch
    /\ FastInput \in Nat /\ FastInput >= 7     \* what one code can take
    /\ InSizes \subseteq Nat \ {0} /\ OutSizes \subseteq Nat

VARIABLE z      \* zr_stream, with its inflate, blocks and codes states

Mode == {"BYTE", "TYPE", "LENS", "STORED", "TABLE", "START", "FAST", "LEN", "LIT",
         "COPY", "WASH", "BADCODE", "DRY", "FINISHED", "BAD"}
Result == {"ok", "buf", "end", "data"}      \* Z_OK, Z_BUF_ERROR, ...

-----------------------------------------------------------------------------
(* The window                                                              *)

\* m, the room at write.
Space(s) == IF s.write < s.read THEN s.read - s.write - 1 ELSE WindowSize - s.write

Piece(s, n) == [i \in 1 .. n |-> s.window[s.read + i - 1]]
Deliver(s, n) ==
    [s EXCEPT !.out = @ \o Piece(s, n), !.read = @ + n, !.room = @ - n,
              !.r = IF n > 0 /\ @ = "buf" THEN "ok" ELSE @]

\* Mutant: what is behind the end of the window waits for the next flush.
FlushOnce(s) ==
    LET t == Deliver(s, Min({s.room, IF s.read <= s.write THEN s.write - s.read
                                     ELSE WindowSize - s.read}))
    IN  IF t.read = WindowSize THEN [t EXCEPT !.read = 0] ELSE t

\* inflate_flush
Flush(s) ==
    LET t == Deliver(s, Min({s.room, IF s.read <= s.write THEN s.write - s.read
                                     ELSE WindowSize - s.read}))
        u == [t EXCEPT !.read = 0, !.write = IF @ = WindowSize THEN 0 ELSE @]
    IN  IF t.read = WindowSize THEN Deliver(u, Min({u.room, u.write})) ELSE t

\* Mutant: the end of the window is left although nothing was read yet.
WrapAlways(s) == IF s.write = WindowSize THEN [s EXCEPT !.write = 0] ELSE s

Wrap(s) ==
    IF s.write = WindowSize /\ s.read # 0 THEN [s EXCEPT !.write = 0] ELSE s

\* NEEDOUT
NeedOut(s) ==
    LET w == Wrap(s) IN IF Space(w) > 0 THEN w ELSE Wrap(Flush(w))

Put(s, x) == [s EXCEPT !.window[s.write] = x, !.write = @ + 1]
PutAll(s, bytes) ==
    [s EXCEPT !.window = [i \in DOMAIN @ |-> IF i \in s.write .. s.write + Len(bytes) - 1
                                             THEN bytes[i - s.write + 1] ELSE @[i]],
              !.write = @ + Len(bytes)]

\* The byte that a match copies next.
Source(s, dist) ==
    s.window[IF s.write < dist THEN WindowSize - (dist - s.write) ELSE s.write - dist]

-----------------------------------------------------------------------------
(* The application                                                         *)

EntryMode(stream, i) ==
    IF i > Len(stream) THEN "FINISHED"
    ELSE CASE stream[i].kind \in ByteKind -> "BYTE"
           [] stream[i].kind \in BlockKind -> "TYPE"
           [] stream[i].kind \in CodeKind -> "START"

\* inflateInit2_ and inflateReset: what the window held before is 0 here.
Fresh(stream) ==
    [stream |-> stream, item |-> 1, step |-> 1, mode |-> EntryMode(stream, 1),
     last |-> FALSE, left |-> 0, k |-> 0,
     window |-> [i \in 0 .. WindowSize - 1 |-> 0], read |-> 0, write |-> 0,
     in |-> 0, base |-> 0, avail |-> 0, room |-> 0, out |-> <<>>,
     inCall |-> FALSE, r |-> "ok", f |-> "ok", ret |-> "ok"]

Init == \E stream \in Streams : z = Fresh(stream)

\* The application gives more input when there is none, and room for output.
CallWith(room) ==
    /\ ~z.inCall /\ z.ret \in {"ok", "buf"}
    /\ \E size \in InSizes, f \in {"ok", "buf"} :
         LET more == Min({size, Bytes(z.stream) - z.in})
         IN  z' = [z EXCEPT !.inCall = TRUE, !.room = room, !.f = f, !.r = "buf",
                            !.avail = IF @ = 0 THEN more ELSE @,
                            !.base = IF z.avail = 0 THEN z.in ELSE @]

Call == \E room \in OutSizes : CallWith(room)

\* The next stream, after the end of this one or an error.
Reset ==
    /\ ~z.inCall /\ z.ret \in {"end", "data"}
    /\ \E stream \in Streams : z' = Fresh(stream)

-----------------------------------------------------------------------------
(* Leaving, and the bits that a step needs                                 *)

Return(s, code) == [s EXCEPT !.inCall = FALSE, !.ret = code]
Error(s) == Return([s EXCEPT !.mode = "BAD"], "data")

\* LEAVE in inflate_blocks, and what inflate makes of the result.
Leave(s) ==
    LET t == Flush(s)
    IN  CASE t.r = "data" -> Error(t)
          [] t.r = "ok" -> Return(t, t.f)
          [] OTHER -> Return(t, t.r)

Item(s) == s.stream[s.item]
In(modes) == z.inCall /\ z.mode \in modes

Pulled(s, n) ==
    [s EXCEPT !.k = @ + 8 * n, !.in = @ + n, !.avail = @ - n,
              !.r = IF n > 0 THEN "ok" ELSE @]
Missing(s, bits) == IF s.k < bits THEN (bits - s.k + 7) \div 8 ELSE 0
Dump(s, bits) == [s EXCEPT !.k = @ - bits]

\* NEEDBITS of each mode
Wanted(s) ==
    CASE s.mode = "TYPE" -> 3
      [] s.mode = "LENS" -> 32
      [] s.mode \in {"TABLE", "LEN"} -> Item(s).steps[s.step].need
      [] OTHER -> 0
HasBits == Missing(z, Wanted(z)) <= z.avail
Filled == Pulled(z, Missing(z, Wanted(z)))

\* Mutant: the bit buffer is not saved.
OutOfInputLost ==
    /\ In({"TYPE", "LENS", "TABLE", "LEN"})
    /\ ~HasBits
    /\ z' = Leave([Pulled(z, z.avail) EXCEPT !.k = z.k])

OutOfInput ==
    /\ In({"TYPE", "LENS", "TABLE", "LEN"})
    /\ ~HasBits
    /\ z' = Leave(Pulled(z, z.avail))

HasRoom == Space(NeedOut(z)) > 0
Roomy == [NeedOut(z) EXCEPT !.r = "ok"]

OutOfRoom ==
    /\ In({"STORED", "LIT", "COPY"})
    /\ z.mode = "STORED" => z.avail > 0
    /\ ~HasRoom
    /\ z' = Leave(NeedOut(z))

Advance(s) ==
    [s EXCEPT !.item = @ + 1, !.step = 1, !.mode = EntryMode(s.stream, s.item + 1)]

\* The end of a block
BlockEnd(s) == IF s.last THEN [s EXCEPT !.mode = "DRY"] ELSE Advance(s)

-----------------------------------------------------------------------------
(* inflate: header and check                                               *)

\* METHOD, FLAG and CHECK4 to CHECK1
Byte ==
    /\ In({"BYTE"})
    /\ LET s == [z EXCEPT !.avail = @ - 1, !.in = @ + 1, !.r = z.f]
           good == /\ Item(z).good
                   /\ Item(z).kind = "check" => z.out = Output[z.stream][z.item]
       IN  z' = IF z.avail = 0 THEN Return(z, z.r)
                ELSE IF good THEN Advance(s) ELSE Error(s)

Finished == In({"FINISHED"}) /\ z' = Return(z, "end")

-----------------------------------------------------------------------------
(* inflate_blocks                                                          *)

Wrong(s) == Leave([s EXCEPT !.mode = "BAD", !.r = "data"])

\* Mutant: the bits up to the byte boundary are kept.
StoredUnaligned(s) == [s EXCEPT !.mode = "LENS"]

Stored(s) == Dump([s EXCEPT !.mode = "LENS"], s.k % 8)

Type ==
    /\ In({"TYPE"}) /\ HasBits
    /\ LET s == Dump([Filled EXCEPT !.last = Item(z).last], 3)
       IN  z' = CASE Item(z).kind \in {"stored", "badlens"} -> Stored(s)
                  [] Item(z).kind = "fixed" -> Advance(s)
                  [] Item(z).kind \in {"dynamic", "badtable"} -> [s EXCEPT !.mode = "TABLE"]
                  [] OTHER -> Wrong(s)

Lens ==
    /\ In({"LENS"}) /\ HasBits
    /\ LET s == [Filled EXCEPT !.k = 0, !.left = Len(Item(z).bytes)]
       IN  z' = IF Item(z).kind = "badlens" THEN Wrong(Filled)
                ELSE IF s.left > 0 THEN [s EXCEPT !.mode = "STORED"] ELSE BlockEnd(s)

StoredBytes ==
    /\ In({"STORED"})
    /\ IF z.avail = 0 THEN z' = Leave(z)
       ELSE /\ HasRoom
            /\ LET t == Min({z.left, z.avail, Space(NeedOut(z))})
                   rest == SubSeq(Item(z).bytes, Len(Item(z).bytes) - z.left + 1,
                                  Len(Item(z).bytes))
                   s == [PutAll(Roomy, SubSeq(rest, 1, t))
                         EXCEPT !.in = @ + t, !.avail = @ - t, !.left = @ - t]
               IN  z' = IF t < z.left THEN s ELSE BlockEnd(s)

\* TABLE, BTREE and DTREE
Table ==
    /\ In({"TABLE"}) /\ HasBits
    /\ LET s == Dump(Filled, Item(z).steps[z.step].bits)
       IN  z' = IF z.step < Len(Item(z).steps) THEN [s EXCEPT !.step = @ + 1]
                ELSE IF Item(z).kind = "badtable" THEN Wrong(s)
                ELSE Advance(s)

\* Mutant: what does not fit into this call's room is not waited for.
DryUndelivered ==
    /\ In({"DRY"})
    /\ z' = Advance([Flush(z) EXCEPT !.r = z.f, !.k = 0, !.read = 0, !.write = 0])

\* DRY and DONE, with inflate_blocks_reset
Dry ==
    /\ In({"DRY"})
    /\ LET s == Flush(z)
       IN  z' = IF s.read # s.write THEN Leave(s)
                ELSE Advance([s EXCEPT !.r = s.f, !.k = 0, !.read = 0, !.write = 0])

-----------------------------------------------------------------------------
(* inflate_codes                                                           *)

Start ==
    /\ In({"START"})
    /\ z' = [z EXCEPT !.mode = IF Space(z) >= MaxMatch /\ z.avail >= FastInput
                               THEN "FAST" ELSE "LEN"]

\* LEN, LENEXT, DIST and DISTEXT
Decode ==
    /\ In({"LEN"}) /\ HasBits
    /\ LET s == Dump(Filled, Item(z).steps[z.step].bits)
           item == Item(z)
       IN  z' = IF z.step < Len(item.steps) THEN [s EXCEPT !.step = @ + 1]
                ELSE CASE item.kind = "literal" -> [s EXCEPT !.mode = "LIT"]
                       [] item.kind = "match" -> [s EXCEPT !.mode = "COPY", !.left = item.len]
                       [] item.kind = "eob" -> [s EXCEPT !.mode = "WASH"]
                       [] OTHER -> Leave([s EXCEPT !.mode = "BADCODE", !.r = "data"])

Lit ==
    /\ In({"LIT"}) /\ HasRoom
    /\ z' = Advance(Put(Roomy, Item(z).sym))

Copy ==
    /\ In({"COPY"}) /\ HasRoom
    /\ LET s == [Put(Roomy, Source(Roomy, Item(z).dist)) EXCEPT !.left = @ - 1]
       IN  z' = IF s.left = 0 THEN Advance(s) ELSE s

\* Mutant: the unused byte is kept.
ByteBackNever(s) == s

ByteBack(s) ==
    IF s.k > 7 THEN [s EXCEPT !.k = @ - 8, !.in = @ - 1, !.avail = @ + 1] ELSE s

\* WASH and END: after inflate_fast r is Z_STREAM_END already.
Wash ==
    /\ In({"WASH"})
    /\ LET s == Flush(ByteBack(z))
       IN  z' = IF s.read # s.write /\ s.r # "end" THEN Leave(s)
                ELSE BlockEnd([s EXCEPT !.r = "ok"])

BadCode == In({"BADCODE"}) /\ z' = Leave([z EXCEPT !.r = "data"])

-----------------------------------------------------------------------------
(* inflate_fast                                                            *)

Grab(s, bits) == Pulled(s, Missing(s, bits))

Ungrab(s) ==
    LET back == s.k \div 8
    IN  [s EXCEPT !.k = @ - 8 * back, !.in = @ - back, !.avail = @ + back]

\* The bytes of a match, one after the other: copied[i] is before the i-th.
CopyAll(s, len, dist) ==
    LET copied[i \in 1 .. len + 1] ==
            IF i = 1 THEN s ELSE Put(copied[i - 1], Source(copied[i - 1], dist))
    IN  copied[len + 1]

\* FAST_GRAB before the lookup of a step: a second table takes its bits from
\* what was there for the first.
Grabbed(steps, i) ==
    CASE i = 1 -> 20
      [] i > 1 /\ steps[i].mode = "DIST" /\ steps[i - 1].mode = "LENEXT" -> 15
      [] steps[i].mode = "DISTEXT" -> steps[i].bits
      [] OTHER -> 0

\* A lookup in the loop of inflate_fast, and after the last one of a code
\* the bytes it stands for and the next round or the return.
Fast ==
    /\ In({"FAST"})
    /\ LET item == Item(z)
           s == Dump(Grab(z, Grabbed(item.steps, z.step)), item.steps[z.step].bits)
           done == Advance(IF item.kind = "literal" THEN Put(s, item.sym)
                           ELSE CopyAll(s, item.len, item.dist))
       IN  z' = IF z.step < Len(item.steps) THEN [s EXCEPT !.step = @ + 1]
                ELSE CASE item.kind = "eob" -> Ungrab([s EXCEPT !.mode = "WASH", !.r = "end"])
                       [] item.kind = "badcode" -> Ungrab([s EXCEPT !.mode = "BADCODE"])
                       [] item.kind \in {"literal", "match"} ->
                          IF Space(done) >= MaxMatch /\ done.avail >= FastInput
                          THEN [done EXCEPT !.mode = "FAST"]
                          ELSE Ungrab([done EXCEPT !.mode = "LEN", !.r = "ok"])

-----------------------------------------------------------------------------

Work ==
    \/ OutOfInput \/ OutOfRoom
    \/ Byte \/ Finished
    \/ Type \/ Lens \/ StoredBytes \/ Table \/ Dry
    \/ Start \/ Decode \/ Lit \/ Copy \/ Wash \/ BadCode
    \/ Fast

Next == Call \/ Reset \/ Work

Spec == Init /\ [][Next]_z

\* The processor runs inflate to its return; the application calls it again
\* and again with room for output, and never stops in the middle of a stream.
Fairness ==
    /\ WF_z(Work)
    /\ SF_z(\E room \in OutSizes \ {0} : CallWith(room))

FairSpec == Spec /\ Fairness

-----------------------------------------------------------------------------
(* Properties                                                              *)

\* Types; the bit buffer bitk never holds more than the 32 bits of LENS.
State == [stream : Streams, item : Nat, step : Nat, mode : Mode, last : BOOLEAN, left : Nat,
          k : 0 .. 32, window : [0 .. WindowSize - 1 -> Octet],
          read : 0 .. WindowSize, write : 0 .. WindowSize,
          in : Nat, base : Nat, avail : Nat, room : Nat, out : Seq(Octet),
          inCall : BOOLEAN, r : Result, f : {"ok", "buf"}, ret : Result]
TypeOK ==
    /\ z \in State
    /\ z.item \in 1 .. Len(z.stream) + 1
    /\ z.in + z.avail <= Bytes(z.stream)

\* The bit at which the current item and lookup start.
Position(s) ==
    LET first == FirstBit[s.stream][s.item]
    IN  CASE s.mode \in {"BYTE", "FINISHED"} -> ToByte(first)
          [] s.mode = "TYPE" -> first
          [] s.mode = "LENS" -> ToByte(first + 3)
          [] s.mode = "STORED" -> FirstBit[s.stream][s.item + 1] - 8 * s.left
          [] s.mode = "TABLE" ->
               first + 3 + BitsBefore(Item(s).steps, s.step)
          [] s.mode \in {"START", "FAST", "LEN"} ->
               first + BitsBefore(Item(s).steps, s.step)
          [] OTHER -> FirstBit[s.stream][s.item + 1]

\* next_in less the bits in the bit buffer is the place where the next lookup
\* starts, however the input was cut and whichever bytes inflate_fast and WASH
\* took too early and gave back.
BitPosition ==
    z.mode \notin {"BAD", "BADCODE"} => 8 * z.in - z.k = Position(z)

\* What is in the window for the application to read.
Pending(s) ==
    IF s.read <= s.write THEN Piece(s, s.write - s.read)
    ELSE Piece(s, WindowSize - s.read) \o [i \in 1 .. s.write |-> s.window[i - 1]]

\* What the items decoded so far stand for.
Decoded(s) ==
    LET before == Output[s.stream][s.item]
    IN  CASE s.mode \in {"STORED", "COPY"} ->
               SubSeq(Output[s.stream][s.item + 1], 1,
                      Len(Output[s.stream][s.item + 1]) - s.left)
          [] s.mode = "DRY" -> Output[s.stream][s.item + 1]
          [] OTHER -> before

\* What was copied to the application, with what waits in the window between
\* read and write, is what the stream stands for up to here: nothing unread is
\* overwritten, and no match reads a byte that was.
OutputCorrect == z.out \o Pending(z) = Decoded(z)

\* Z_STREAM_END comes when all output is delivered, and next_in is then the
\* first byte behind the stream.
EndIsExact ==
    ~z.inCall /\ z.ret = "end" =>
        /\ z.out = Output[z.stream][Len(z.stream) + 1]
        /\ z.in = EndByte(z.stream)

\* inflate returns in the middle of a stream only when the input is used up or
\* the room for output is full, so a caller that checks one finds the reason.
StopsWhenStuck ==
    ~z.inCall /\ z.ret \in {"ok", "buf"} => z.avail = 0 \/ z.room = 0

\* However small the buffers, calling inflate again and again comes to the end
\* of the stream or to an error: no mode waits for what is never given.
EveryStreamEnds == []<>(~z.inCall /\ z.ret \in {"end", "data"})

\* inflate_fast and WASH give back bytes of this call's input buffer only, so
\* next_in stays in it.
PushbackInBuffer == z.in >= z.base
=============================================================================
