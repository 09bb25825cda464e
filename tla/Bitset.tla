-------------------------------- MODULE Bitset --------------------------------
(***************************************************************************)
(* The bitsets of the file bitset.  The bits are in words, the lowest ones  *)
(* in word 0, and the last word may have bits that the bitset has not: they *)
(* are 0 between two calls.  A word maps its bits to BOOLEAN, which is all *)
(* that the operators of C do to it here.                                  *)
(***************************************************************************)
EXTENDS Naturals, Sequences, FiniteSets, TLC
LOCAL INSTANCE SequencesExt

CONSTANTS BitsPerWord,     \* __BITS_PER_WORD, 64 in the code
          CharBit,         \* CHAR_BIT, 8 in the code: the bits of a byte of a word
          Sizes            \* the values of _Nb that programs use

VARIABLES bitset,          \* [size, w], the number of bits and the words
          call

vars == << bitset, call >>

Bit == 0 .. BitsPerWord - 1
Zero == [b \in Bit |-> FALSE]
Or(v, w) == [b \in Bit |-> v[b] \/ w[b]]
Left(w, n) == [b \in Bit |-> b >= n /\ w[b - n]]
Right(w, n) == [b \in Bit |-> b + n \in Bit /\ w[b + n]]

WordsFor(size) == (size + BitsPerWord - 1) \div BitsPerWord
Nw(w) == Cardinality(DOMAIN w)

Init ==
    /\ \E size \in Sizes :
         bitset = [size |-> size, w |-> [i \in 0 .. WordsFor(size) - 1 |-> Zero]]
    /\ call = [op |-> "construct", turn |-> 0]

-----------------------------------------------------------------------------
(* Operations on words *)

\* Mutant: the last word keeps what comes into its unused bits.
Unsanitized(w, size) == w

\* _M_do_sanitize
Sanitize(w, size) ==
    IF size % BitsPerWord = 0 THEN w
    ELSE [w EXCEPT ![Nw(w) - 1] = [b \in Bit |-> b < size % BitsPerWord /\ @[b]]]

From(first, last) == [k \in 1 .. last + 1 - first |-> first + k - 1]

\* Mutant: upwards, over the words that are still to be read.
LeftShiftUpwards(w, shift) ==
    LET by == shift \div BitsPerWord
        offset == shift % BitsPerWord
        carried(v, n) ==
            [v EXCEPT ![n] = Or(Left(v[n - by], offset),
                                IF n = by \/ offset = 0 THEN Zero
                                ELSE Right(v[n - by - 1], BitsPerWord - offset))]
        moved == FoldLeft(carried, w, From(by, Nw(w) - 1)) IN
    IF shift = 0 THEN w ELSE [n \in DOMAIN w |-> IF n < by THEN Zero ELSE moved[n]]

\* _M_do_left_shift, from the last word down
LeftShift(w, shift) ==
    LET by == shift \div BitsPerWord
        offset == shift % BitsPerWord
        carried(v, n) ==
            [v EXCEPT ![n] = Or(Left(v[n - by], offset),
                                IF n = by \/ offset = 0 THEN Zero
                                ELSE Right(v[n - by - 1], BitsPerWord - offset))]
        moved == FoldLeft(carried, w, Reverse(From(by, Nw(w) - 1))) IN
    IF shift = 0 THEN w ELSE [n \in DOMAIN w |-> IF n < by THEN Zero ELSE moved[n]]

\* _M_do_right_shift, from the first word up
RightShift(w, shift) ==
    LET by == shift \div BitsPerWord
        offset == shift % BitsPerWord
        limit == Nw(w) - by - 1
        carried(v, n) ==
            [v EXCEPT ![n] = Or(Right(v[n + by], offset),
                                IF n = limit \/ offset = 0 THEN Zero
                                ELSE Left(v[n + by + 1], BitsPerWord - offset))]
        moved == FoldLeft(carried, w, From(0, limit)) IN
    IF shift = 0 THEN w ELSE [n \in DOMAIN w |-> IF n > limit THEN Zero ELSE moved[n]]

\* The words' bits combined one by one, and a single bit written
Combined(v, w, Op(_, _)) == [n \in DOMAIN v |-> [b \in Bit |-> Op(v[n][b], w[n][b])]]
Write(w, pos, value) == [w EXCEPT ![pos \div BitsPerWord][pos % BitsPerWord] = value]
Test(w, pos) == w[pos \div BitsPerWord][pos % BitsPerWord]

\* _M_copy_to_string puts the highest bit first; _M_copy_from_string takes n digits from pos on.
CopyToString(w, size) == [i \in 1 .. size |-> Test(w, size - i)]

CopyFromString(w, size, digits, pos, n) ==
    LET nbits == CHOOSE k \in {size, n, Len(digits) - pos} :
                     \A l \in {size, n, Len(digits) - pos} : k <= l IN
    FoldLeft(LAMBDA v, i : IF digits[pos + nbits - i] THEN Write(v, i, TRUE) ELSE v,
             [k \in DOMAIN w |-> Zero], From(0, nbits - 1))

-----------------------------------------------------------------------------
(* Searches *)

\* The first byte from byte j on that is not 0, and its first bit: _S_first_one
FirstInWord(word, j) ==
    LET bytes == {k \in j .. BitsPerWord \div CharBit - 1 :
                    \E b \in 0 .. CharBit - 1 : word[k * CharBit + b]}
        byte == CHOOSE k \in bytes : \A l \in bytes : k <= l IN
    byte * CharBit + CHOOSE b \in 0 .. CharBit - 1 :
        word[byte * CharBit + b] /\ \A c \in 0 .. b - 1 : ~word[byte * CharBit + c]

\* _M_do_find_first, of the words from i on
FindFrom(w, i, notFound) ==
    LET words == {k \in i .. Nw(w) - 1 : w[k] # Zero}
        k == CHOOSE k \in words : \A l \in words : k <= l IN
    IF words = {} THEN notFound ELSE k * BitsPerWord + FirstInWord(w[k], 0)

\* _M_do_find_next masks the word of the next position, and starts with its byte.
FindNext(w, prev, notFound) ==
    LET next == prev + 1
        i == next \div BitsPerWord
        masked == [b \in Bit |-> b >= next % BitsPerWord /\ w[i][b]] IN
    IF next >= Nw(w) * BitsPerWord THEN notFound
    ELSE IF masked # Zero
    THEN i * BitsPerWord + FirstInWord(masked, (next % BitsPerWord) \div CharBit)
    ELSE FindFrom(w, i + 1, notFound)

Count(w) == Cardinality({<< n, b >> \in (DOMAIN w) \X Bit : w[n][b]})
IsAny(w) == \E n \in DOMAIN w : w[n] # Zero

\* to_ulong throws when a word above the first has a bit.
Overflows(w) == \E n \in DOMAIN w \ {0} : w[n] # Zero

-----------------------------------------------------------------------------
(* Calls *)

Becomes(w, c) ==
    /\ bitset' = [bitset EXCEPT !.w = w]
    /\ call' = c @@ [turn |-> 1 - call.turn]

Sanitized(w) == Sanitize(w, bitset.size)

\* A shift by all of the words' bits or more reaches beyond the words.
Shifts == 0 .. Nw(bitset.w) * BitsPerWord - 1

CallShiftLeft(n) == Becomes(Sanitized(LeftShift(bitset.w, n)), [op |-> "left", n |-> n])
CallShiftRight(n) == Becomes(Sanitized(RightShift(bitset.w, n)), [op |-> "right", n |-> n])

CallSet == Becomes(Sanitized([n \in DOMAIN bitset.w |-> [b \in Bit |-> TRUE]]), [op |-> "set"])
CallReset == Becomes([n \in DOMAIN bitset.w |-> Zero], [op |-> "reset"])
CallFlip ==
    Becomes(Sanitized([n \in DOMAIN bitset.w |-> [b \in Bit |-> ~bitset.w[n][b]]]), [op |-> "flip"])

CallWrite(pos, value) ==
    Becomes(Write(bitset.w, pos, value), [op |-> "write", pos |-> pos, value |-> value])

\* &=, |= and ^= with a shifted copy, which operator<< makes
CallCombine(op, n) ==
    LET copy == Sanitized(LeftShift(bitset.w, n)) IN
    Becomes(Combined(bitset.w, copy, LAMBDA x, y : IF op = "and" THEN x /\ y
                                                   ELSE IF op = "or" THEN x \/ y ELSE x # y),
            [op |-> op, n |-> n])

\* A bitset that is made of a part of its own string
CallFromString(pos, n) ==
    Becomes(CopyFromString(bitset.w, bitset.size, CopyToString(bitset.w, bitset.size), pos, n),
            [op |-> "string", pos |-> pos, n |-> n])

Next ==
    \/ \E n \in Shifts :
         \/ CallShiftLeft(n) \/ CallShiftRight(n)
         \/ \E op \in {"and", "or", "xor"} : CallCombine(op, n)
    \/ CallSet \/ CallReset \/ CallFlip
    \/ \E pos \in 0 .. bitset.size - 1 : \E value \in BOOLEAN : CallWrite(pos, value)
    \/ \E pos \in 0 .. bitset.size : \E n \in 0 .. bitset.size + 1 : CallFromString(pos, n)

Spec == Init /\ [][Next]_vars

-----------------------------------------------------------------------------
(* Properties *)

Content == [i \in 0 .. bitset.size - 1 |-> Test(bitset.w, i)]
Ones == {i \in DOMAIN Content : Content[i]}

\* The bits that the bitset does not have are 0: count, any and == count on it.
WellFormed == Cardinality(Ones) = Count(bitset.w)

LeastOr(positions, none) ==
    IF positions = {} THEN none ELSE CHOOSE i \in positions : \A j \in positions : i <= j

\* The searches go through the bits in order, over the ends of bytes and words.
SearchesAgree ==
    /\ FindFrom(bitset.w, 0, bitset.size) = LeastOr(Ones, bitset.size)
    /\ \A prev \in 0 .. bitset.size :
         FindNext(bitset.w, prev, bitset.size) = LeastOr({i \in Ones : i > prev}, bitset.size)
    /\ IsAny(bitset.w) <=> Ones # {}
    /\ Overflows(bitset.w) <=> \E i \in Ones : i >= BitsPerWord

\* What each call does to the bits, as if they were not in words
Shifted(s, n) == [i \in DOMAIN s |-> i >= n /\ s[i - n]]

Promise(c, s, r) ==
    LET n == Cardinality(DOMAIN s) IN
    \/ c.op = "left" /\ r = Shifted(s, c.n)
    \/ c.op = "right" /\ r = [i \in DOMAIN s |-> i + c.n < n /\ s[i + c.n]]
    \/ c.op = "set" /\ \A i \in DOMAIN r : r[i]
    \/ c.op = "reset" /\ \A i \in DOMAIN r : ~r[i]
    \/ c.op = "flip" /\ \A i \in DOMAIN r : r[i] = ~s[i]
    \/ c.op = "write" /\ r = [s EXCEPT ![c.pos] = c.value]
    \/ c.op = "and" /\ \A i \in DOMAIN r : r[i] = (s[i] /\ Shifted(s, c.n)[i])
    \/ c.op = "or" /\ \A i \in DOMAIN r : r[i] = (s[i] \/ Shifted(s, c.n)[i])
    \/ c.op = "xor" /\ \A i \in DOMAIN r : r[i] = (s[i] # Shifted(s, c.n)[i])
    \/ /\ c.op = "string"
       /\ \A i \in DOMAIN r :
            LET length == IF c.n < n - c.pos THEN c.n ELSE n - c.pos IN
            r[i] = (i < length /\ s[i + n - c.pos - length])

ImplementsBits == [][Promise(call', Content, Content')]_vars
=============================================================================
