--------------------------- MODULE DeflateStream ---------------------------
(***************************************************************************)
(* Compressed streams, for Inflate.  A stream is the sequence of its       *)
(* items: header and check bytes, block headers, codes.  An item says how  *)
(* many bits each lookup asks for and how many it takes, and what it       *)
(* stands for; that is all that decoding depends on.                       *)
(***************************************************************************)
EXTENDS Integers, Sequences

CONSTANTS
    Streams,       \* compressed streams
    WindowSize,    \* s->end - s->window, the farthest match
    MaxMatch,      \* room that inflate_fast asks for, the longest match (258)
    Trailer        \* bytes that follow a stream without zlib header

ASSUME WindowAssumption ==
    MaxMatch \in Nat \ {0} /\ WindowSize \in Nat \ {0} /\ Trailer \in Nat \ {0}

BlockKind == {"stored", "fixed", "dynamic", "badtype", "badlens", "badtable"}
CodeKind == {"literal", "match", "eob", "badcode"}
ByteKind == {"method", "flag", "check"}

-----------------------------------------------------------------------------
(* The stream: what it stands for, and where its items are                 *)

\* The bits that the lookups before the i-th take.
BitsBefore(steps, i) ==
    LET before[j \in 1 .. Len(steps) + 1] ==
            IF j = 1 THEN 0 ELSE before[j - 1] + steps[j - 1].bits
    IN  before[i]
BitsIn(steps) == BitsBefore(steps, Len(steps) + 1)

ToByte(bit) == 8 * ((bit + 7) \div 8)

\* The bit after an item that starts at bit.
ItemEnd(item, bit) ==
    CASE item.kind \in ByteKind -> ToByte(bit) + 8
      [] item.kind \in {"stored", "badlens"} -> ToByte(bit + 3) + 32 + 8 * Len(item.bytes)
      [] item.kind \in BlockKind \ {"stored", "badlens"} -> bit + 3 + BitsIn(item.steps)
      [] item.kind \in CodeKind -> bit + BitsIn(item.steps)

\* The first bit of every item, and of what follows them.
FirstBits(stream) ==
    LET first[i \in 1 .. Len(stream) + 1] ==
            IF i = 1 THEN 0 ELSE ItemEnd(stream[i - 1], first[i - 1])
    IN  first

\* out and a match of len bytes from dist before its end, which comes round to
\* its own first byte after dist of them.
Repeated(out, len, dist) ==
    out \o [i \in 1 .. len |-> out[Len(out) - dist + 1 + ((i - 1) % dist)]]

\* What the items before the i-th stand for.
Outputs(stream) ==
    LET output[i \in 1 .. Len(stream) + 1] ==
            IF i = 1 THEN <<>>
            ELSE LET item == stream[i - 1]
                 IN  CASE item.kind = "stored" -> output[i - 1] \o item.bytes
                       [] item.kind = "literal" -> Append(output[i - 1], item.sym)
                       [] item.kind = "match" -> Repeated(output[i - 1], item.len, item.dist)
                       [] OTHER -> output[i - 1]
    IN  output

FirstBit == [stream \in Streams |-> FirstBits(stream)]
Output == [stream \in Streams |-> Outputs(stream)]
EndByte(stream) == ToByte(FirstBit[stream][Len(stream) + 1]) \div 8
Bytes(stream) ==
    EndByte(stream) + IF stream[1].kind = "method" THEN 0 ELSE Trailer

(***************************************************************************)
(* The streams that are decoded here: what items are made of, and in which *)
(* order they come.                                                        *)
(***************************************************************************)
Octet == 0 .. 255

\* A lookup leaves at most 8 of the bits that it asks for: 9 for a code of 1.
Lookup == {step \in [mode : {"TABLE", "LEN", "LENEXT", "DIST", "DISTEXT"},
                     need : 0 .. 14, bits : 0 .. 14] : step.need - step.bits \in 0 .. 8}

\* The lookups of a code, and the bits they take together: 15 and 5 for a
\* length, 15 and 13 for a distance.
CodeShape(steps) ==
    /\ steps # << >> /\ steps[1].mode = "LEN"
    /\ \A i \in 1 .. Len(steps) - 1 :
         CASE steps[i].mode = "LEN" -> steps[i + 1].mode \in {"LEN", "LENEXT"}
           [] steps[i].mode = "LENEXT" -> steps[i + 1].mode = "DIST"
           [] steps[i].mode = "DIST" -> steps[i + 1].mode \in {"DIST", "DISTEXT"}
           [] OTHER -> FALSE
    /\ \A i \in 1 .. Len(steps) :
         /\ steps[i].mode \in {"LEN", "LENEXT"} => BitsBefore(steps, i + 1) <= 20
         /\ \A j \in 1 .. i :
              steps[i].mode = "DIST" /\ steps[j].mode = "LENEXT" =>
                  BitsBefore(steps, i + 1) <= BitsBefore(steps, j + 1) + 15
         /\ steps[i].mode = "DISTEXT" => steps[i].bits <= 13

GoodItem(item) ==
    /\ item.kind \in ByteKind => item.good \in BOOLEAN
    /\ item.kind \in BlockKind => item.last \in BOOLEAN
    /\ item.kind \in {"stored", "badlens"} => item.bytes \in Seq(Octet)
    /\ item.kind \in {"fixed", "badtype"} => item.steps = << >>
    /\ item.kind \in {"dynamic", "badtable"} =>
         item.steps \in Seq(Lookup) /\ item.steps # << >>
    /\ item.kind \in CodeKind => item.steps \in Seq(Lookup) /\ CodeShape(item.steps)
    /\ item.kind = "literal" => item.sym \in Octet
    /\ item.kind = "match" => item.len \in 3 .. MaxMatch /\ item.dist \in 1 .. WindowSize

\* The i-th item belongs to the block of the j-th.
InBlock(stream, j, i) ==
    /\ stream[j].kind \in BlockKind
    /\ \A m \in j + 1 .. i : stream[m].kind \in CodeKind

\* The check, or the end of the stream.
AtEnd(stream, i) == i > Len(stream) \/ stream[i].kind = "check"

\* What may follow the i-th item; nothing follows an error.
GoodOrder(stream, i) ==
    LET Then(kinds) == i < Len(stream) /\ stream[i + 1].kind \in kinds
        kind == stream[i].kind
    IN  CASE kind = "method" -> Then({"flag"})
          [] kind = "flag" -> Then(BlockKind)
          [] kind = "check" -> AtEnd(stream, i + 1)
          [] kind \in {"fixed", "dynamic", "literal", "match"} -> Then(CodeKind)
          [] kind \in {"stored", "eob"} ->
               /\ AtEnd(stream, i + 1) \/ Then(BlockKind)
               /\ \A j \in 1 .. i :
                    InBlock(stream, j, i) => (stream[j].last <=> AtEnd(stream, i + 1))
          [] OTHER -> i = Len(stream)

ASSUME StreamAssumption ==
    \A stream \in Streams :
        /\ Len(stream) \in Nat \ {0}
        /\ stream[1].kind \in BlockKind \cup {"method"}
        /\ \A i \in 1 .. Len(stream) :
             /\ stream[i].kind \in BlockKind \cup CodeKind \cup ByteKind
             /\ GoodItem(stream[i])
             /\ GoodOrder(stream, i)
             /\ stream[i].kind = "match" => stream[i].dist <= Len(Output[stream][i])
=============================================================================
