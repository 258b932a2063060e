---------------------------- MODULE WriteBuffer -----------------------------
(***************************************************************************)
(* WriteBuffer (writebuffer.h, .cpp): an array that doubles, with a cursor *)
(* in bytes and bits.  A buffer is a record:                               *)
(*   size  size_                                                           *)
(*   data  buffer_[0 .. bi_ - 1], so that bi_ is its length                *)
(*   part  buffer_[bi_], the byte being put together from bits; everything *)
(*         behind it is 0                                                  *)
(*   left  bits_left_                                                      *)
(*   over  a byte outside the array was written                            *)
(***************************************************************************)
EXTENDS Integers, Sequences

\* | and & of two bytes: each is a set of bits, named by what they are worth.
BitsOf(x) == {w \in {1, 2, 4, 8, 16, 32, 64, 128} : (x \div w) % 2 = 1}

ByteOf(bits) ==
    LET worth(w) == IF w \in bits THEN w ELSE 0
    IN  worth(1) + worth(2) + worth(4) + worth(8)
        + worth(16) + worth(32) + worth(64) + worth(128)

BitOr(x, y) == ByteOf(BitsOf(x) \union BitsOf(y))
BitAnd(x, y) == ByteOf(BitsOf(x) \intersect BitsOf(y))

New(size) == [size |-> size, data |-> <<>>, part |-> 0, left |-> 8, over |-> FALSE]

reInit(b) == [New(b.size) EXCEPT !.over = b.over]

bi_(b) == Len(b.data)

\* getBufferCount() bytes of it.
getBuffer(b) == IF b.left # 8 THEN Append(b.data, b.part) ELSE b.data

\* b, once its first n bytes have been written to.
Touched(b, n) == [b EXCEPT !.over = @ \/ n > b.size]

\* Mutant of realloc: one byte of those written is not copied.
reallocOneLess(b) == [b EXCEPT !.size = 2 * @, !.part = 0,
                               !.data = [i \in DOMAIN @ |-> IF i = Len(@) THEN 0 ELSE @[i]]]

\* Only whole bytes are copied.
realloc(b) == [b EXCEPT !.size = 2 * @, !.part = 0]

\* Mutant of Roomy: there must be room for the byte, not for its successor.
RoomyForByte(b) == bi_(b) < b.size

\* "8 + 1, we at most write bits"
Roomy(b) == bi_(b) + 9 < b.size

realloc_for_write(b) == IF Roomy(b) THEN b ELSE realloc(b)

\* Mutant of WholeByte: a byte just filled is not closed.
MoreThanByte(bits, left) == bits > left

WholeByte(bits, left) == bits >= left

\* The lowest bits of s.  They are not shifted to the top of what is left of
\* the byte, and a byte that overflows keeps s & shift for the next one.
writeBits(b, s, bits) ==
    LET low == s % 2 ^ bits
        shift == IF bits > b.left THEN bits - b.left ELSE 0
        byte == BitOr(b.part, low \div 2 ^ shift)
    IN  IF WholeByte(bits, b.left)
           THEN [Touched(b, bi_(b) + 2) EXCEPT !.data = Append(@, byte),
                                              !.part = BitAnd(low, shift),
                                              !.left = 8 - shift]
           ELSE [Touched(b, bi_(b) + 1) EXCEPT !.part = byte, !.left = @ - bits]

writeByte(b, s) == writeBits(b, s, 8)

\* The widths of the bytes that writeB() and writeL() make of a value.
Widths(bits) == [i \in 1..(bits + 7) \div 8 |-> IF 8 * i <= bits THEN 8 ELSE bits % 8]

\* Room is made once, then byte after byte is written.
writeWidths(b, bytes, widths) ==
    LET done[i \in 0..Len(widths)] ==
            IF i = 0 THEN realloc_for_write(b)
                     ELSE writeBits(done[i - 1], bytes[i], widths[i])
    IN  done[Len(widths)]

\* The byte that leaves rest bits for the following ones.
writeB(b, v, bits) ==
    LET widths == Widths(bits)
        rest(i) == IF 8 * i <= bits THEN bits - 8 * i ELSE 0
    IN  writeWidths(b, [i \in DOMAIN widths |-> v \div 2 ^ rest(i)], widths)

\* Bits is a multiple of 8.  After each byte the value is shifted by all the
\* bits that are left, so that of four bytes only two are right.
writeL(b, v, bits) ==
    LET n == bits \div 8
        rest[i \in 0..n] == IF i = 0 THEN v ELSE rest[i - 1] \div 2 ^ (bits - 8 * i)
    IN  writeWidths(b, [i \in 1..n |-> rest[i - 1] % 256], Widths(bits))

\* The bound lets one byte too many in.
FitsBlock(b, n) == n <= b.size - bi_(b) + 1

\* The loop doubles the array until the block fits.  Lengths are int32_t, so
\* 31 rounds are enough, unless the size is 0: then the loop never ends.
\* No caller appends a block in the middle of a byte.
writeBytes(b, block) ==
    LET n == Len(block)
        grown[i \in 0..31] ==
            IF i = 0 THEN b
            ELSE LET g == grown[i - 1] IN IF FitsBlock(g, n) THEN g ELSE realloc(g)
    IN  [Touched(grown[31], bi_(b) + n) EXCEPT !.data = @ \o block]
=============================================================================
