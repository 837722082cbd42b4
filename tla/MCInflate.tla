----------------------------- MODULE MCInflate -----------------------------
(***************************************************************************)
(* Streams for Inflate: each kind of block, matches across the end of the  *)
(* window, short codes, tables of two levels, and every kind of error.     *)
(***************************************************************************)
EXTENDS Inflate

\* Lookups: the bits they ask for, and the bits they take.

L(need, bits) == [mode |-> "LEN", need |-> need, bits |-> bits]
X(mode, bits) == [mode |-> mode, need |-> bits, bits |-> bits]
D(need, bits) == [mode |-> "DIST", need |-> need, bits |-> bits]

Byte_(kind) == [kind |-> kind, good |-> TRUE]
StoredBlock(last, bytes) == [kind |-> "stored", last |-> last, bytes |-> bytes, steps |-> <<>>]
Fixed(last) == [kind |-> "fixed", last |-> last, steps |-> <<>>]
Dynamic(last) == [kind |-> "dynamic", last |-> last,
    steps |-> <<[mode |-> "TABLE", need |-> 14, bits |-> 14], [mode |-> "TABLE", need |-> 7, bits |-> 2]>>]
Literal(x, steps) == [kind |-> "literal", sym |-> x, steps |-> steps]
Match(len, dist, steps) == [kind |-> "match", len |-> len, dist |-> dist, steps |-> steps]
Eob(steps) == [kind |-> "eob", steps |-> steps]

Bad(kind, steps) == [kind |-> kind, last |-> FALSE, bytes |-> <<>>, steps |-> steps]

FixedLit(x) == Literal(x, <<L(9, 8)>>)
FixedMatch(len, dist) == Match(len, dist, <<L(9, 7), X("LENEXT", 0), D(5, 5), X("DISTEXT", 1)>>)
ShortLit(x) == Literal(x, <<L(9, 1)>>)

S1 == <<Fixed(TRUE), FixedLit(1), FixedLit(2), FixedMatch(3, 2), FixedLit(3), FixedMatch(3, 4), Eob(<<L(9, 7)>>)>>
S2 == <<StoredBlock(FALSE, <<1, 2, 3, 4, 5>>), Fixed(FALSE), FixedMatch(4, 1), Eob(<<L(9, 7)>>),
        StoredBlock(TRUE, <<>>)>>
S3 == <<Dynamic(FALSE), ShortLit(1), ShortLit(2), ShortLit(3), ShortLit(4), ShortLit(5),
        ShortLit(6), ShortLit(7), Eob(<<L(9, 2)>>), StoredBlock(TRUE, <<8>>)>>
S4 == <<Byte_("method"), Byte_("flag"), Dynamic(TRUE), Literal(1, <<L(9, 9), X("LEN", 3)>>), ShortLit(2),
        Match(3, 1, <<L(9, 1), X("LENEXT", 5), D(6, 6), X("DIST", 4), X("DISTEXT", 13)>>), ShortLit(3), Eob(<<L(9, 2)>>),
        Byte_("check"), Byte_("check"), Byte_("check"), Byte_("check")>>
S5 == <<Fixed(FALSE), FixedLit(1), FixedLit(2), Eob(<<L(9, 7)>>), Bad("badtype", <<>>)>>
S6 == <<Fixed(FALSE), FixedLit(1), [kind |-> "badcode", steps |-> <<L(9, 8)>>]>>
S7 == <<Byte_("method"), Byte_("flag"), Fixed(TRUE), FixedLit(1), Eob(<<L(9, 7)>>), [kind |-> "check", good |-> FALSE]>>

S8 == <<Fixed(FALSE), FixedLit(1), Eob(<<L(9, 7)>>), Bad("badlens", <<>>)>>
S9 == <<StoredBlock(FALSE, <<1>>), Bad("badtable", <<X("TABLE", 14), X("TABLE", 3)>>)>>

LiveStreams ==
    {S2, S7, <<Dynamic(TRUE), ShortLit(1), ShortLit(2), ShortLit(3), Eob(<<L(9, 2)>>)>>}
MCStreams == {S1, S2, S3, S4, S5, S6, S7, S8, S9}
=============================================================================
