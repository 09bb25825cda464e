---------------------------- MODULE DequeProofs ----------------------------
(***************************************************************************)
(* The deques, for any values, deques, node sizes and bounds, wherever a   *)
(* call runs out of memory or a copy throws: no element and no node is     *)
(* lost or misused, the map and the iterators are as stl_deque.h says, and *)
(* every call is a call on sequences.                                      *)
(*                                                                         *)
(* Positions, over all nodes of the map, are numbers: the element at       *)
(* position p is in the node of slot p \div buf. A memory Holds a sequence *)
(* when the nodes of the map do, from the position of start on. Of each    *)
(* operation a lemma says that it Does what it should on such a memory; of *)
(* each call another one, that it keeps the invariant and takes a step of  *)
(* AbstractSequences.                                                      *)
(***************************************************************************)
EXTENDS Deque, ElementsProofs

-----------------------------------------------------------------------------
(* Positions                                                                *)

\* A larger factor gives a larger product.
LEMMA ProductGrows ==
  ASSUME NEW b \in Nat \ {0}, NEW k \in Nat, NEW l \in Nat
  PROVE  /\ k * b \in Nat /\ (k <= l => k * b <= l * b) /\ (k < l => k * b + b <= l * b)
         /\ (k + 1) * b = k * b + b
<1>1. k * b \in Nat /\ (k + 1) * b = k * b + b
  OBVIOUS
<1>2. ASSUME k <= l PROVE k * b <= l * b
  <2>1. PICK d \in Nat : l = k + d
    <3>1. l - k \in Nat /\ l = k + (l - k)
      BY <1>2
    <3>2. QED
      BY <3>1
  <2>2. l * b = k * b + d * b /\ d * b \in Nat
    BY <2>1
  <2>3. QED
    BY <1>1, <2>2
<1>3. ASSUME k < l PROVE k * b + b <= l * b
  <2>1. PICK d \in Nat : l = k + 1 + d
    <3>1. l - k - 1 \in Nat /\ l = k + 1 + (l - k - 1)
      BY <1>3
    <3>2. QED
      BY <3>1
  <2>2. l * b = k * b + b + d * b /\ d * b \in Nat
    BY <2>1
  <2>3. QED
    BY <1>1, <2>2
<1>4. QED
  BY <1>1, <1>2, <1>3

\* A position is in the node that it is divided to, at the remainder.
LEMMA DivisionIs ==
  ASSUME NEW b \in Nat \ {0}, NEW p \in Nat
  PROVE  /\ p \div b \in Nat /\ p % b \in 0 .. b - 1 /\ p = ((p \div b) * b) + (p % b)
OBVIOUS

\* That node is the only one it is in.
LEMMA NodeIs ==
  ASSUME NEW b \in Nat \ {0}, NEW p \in Nat, NEW k \in Nat
  PROVE  (k * b <= p /\ p < k * b + b) <=> p \div b = k
<1> DEFINE q == p \div b
           r == p % b
<1>1. q \in Nat /\ r \in 0 .. b - 1 /\ p = q * b + r
  BY DivisionIs
<1> HIDE DEF q, r
<1>2. /\ q * b \in Nat /\ k * b \in Nat
      /\ (q < k => q * b + b <= k * b) /\ (k < q => k * b + b <= q * b)
  BY <1>1, ProductGrows
<1>3. QED
  BY <1>1, <1>2 DEF q

-----------------------------------------------------------------------------
(* Memories with nodes                                                      *)

\* What the calls of one deque work with: the values, the last block and the cells of a
\* node
Framed(F) == F.last \in Nat /\ F.buf \in Nat \ {0} /\ Raw \notin F.values

Memories(F) ==
    [mem : [0 .. F.last -> Seq(Cellular(F.values))], map : Seq(0 .. F.last), buf : {F.buf},
     start : Nat, finish : Nat, next : 1 .. F.last + 1, fuel : Nat, threw : BOOLEAN, bad : {FALSE}]

\* The map has nodes [lo, up), each a block of its own; the blocks R are of another map,
\* and no other block is there.
Mapped(m, F, R, lo, up) ==
    /\ m \in Memories(F) /\ lo \in Nat /\ up \in Nat /\ lo <= up /\ up <= Len(m.map)
    /\ R \subseteq 1 .. m.next - 1
    /\ \A i \in 1 .. Len(m.map) :
         IF lo < i /\ i <= up
         THEN m.map[i] \in 1 .. m.next - 1 /\ m.map[i] \notin R /\ Len(m.mem[m.map[i]]) = F.buf
         ELSE m.map[i] = 0
    /\ \A i, j \in lo + 1 .. up : m.map[i] = m.map[j] => i = j
    /\ \A b \in 0 .. F.last :
         b \notin R /\ (\A i \in lo + 1 .. up : m.map[i] # b) => m.mem[b] = << >>

\* The positions in these nodes; the place of one in the map and in its node; what is there
Positions(F, lo, up) == {p \in Nat : lo * F.buf <= p /\ p < up * F.buf}
Row(F, p) == (p \div F.buf) + 1
Column(F, p) == (p % F.buf) + 1
Held(m, F, p) == m.mem[m.map[Row(F, p)]][Column(F, p)]

\* The parts of a memory, as the provers need them
LEMMA MemoryParts ==
  ASSUME NEW F, Framed(F), NEW m \in Memories(F)
  PROVE  /\ m.mem \in [0 .. F.last -> Seq(Cellular(F.values))]
         /\ m.map \in Seq(0 .. F.last) /\ Len(m.map) \in Nat /\ DOMAIN m.map = 1 .. Len(m.map)
         /\ m.buf = F.buf /\ F.buf \in Nat /\ F.buf > 0 /\ F.last \in Nat
         /\ m.start \in Nat /\ m.finish \in Nat /\ m.next \in Nat /\ 1 <= m.next /\ m.next <= F.last + 1
         /\ m.fuel \in Nat /\ m.threw \in BOOLEAN /\ m.bad = FALSE
<1>1. /\ m.mem \in [0 .. F.last -> Seq(Cellular(F.values))]
      /\ m.map \in Seq(0 .. F.last) /\ m.buf = F.buf /\ m.start \in Nat /\ m.finish \in Nat
      /\ m.next \in 1 .. F.last + 1 /\ m.fuel \in Nat /\ m.threw \in BOOLEAN /\ m.bad = FALSE
  BY DEF Memories
<1>2. F.buf \in Nat /\ F.buf > 0 /\ F.last \in Nat
  BY DEF Framed
<1>3. m.next \in Nat /\ 1 <= m.next /\ m.next <= F.last + 1
  BY <1>1, <1>2
<1>4. Len(m.map) \in Nat /\ DOMAIN m.map = 1 .. Len(m.map)
  BY <1>1
<1>5. QED
  BY <1>1, <1>2, <1>3, <1>4

\* The place of a position
LEMMA PlaceIs ==
  ASSUME NEW F, Framed(F), NEW p \in Nat
  PROVE  /\ Row(F, p) \in Nat /\ 1 <= Row(F, p) /\ Column(F, p) \in 1 .. F.buf
         /\ p + 1 = (Row(F, p) - 1) * F.buf + Column(F, p)
<1>1. /\ p \div F.buf \in Nat /\ p % F.buf \in 0 .. F.buf - 1
      /\ p = ((p \div F.buf) * F.buf) + (p % F.buf)
  BY DivisionIs DEF Framed
<1> DEFINE q == p \div F.buf
           r == p % F.buf
<1> HIDE DEF q, r
<1>2. q \in Nat /\ r \in 0 .. F.buf - 1 /\ p = (q * F.buf) + r /\ F.buf \in Nat
  BY <1>1 DEF q, r, Framed
<1>3. Row(F, p) = q + 1 /\ Column(F, p) = r + 1
  BY DEF Row, Column, q, r
<1>4. q + 1 - 1 = q /\ q * F.buf \in Nat
  BY <1>2
<1>5. QED
  BY <1>2, <1>3, <1>4

\* The position of a place
LEMMA PlaceOf ==
  ASSUME NEW F, Framed(F), NEW i \in Nat, 1 <= i, NEW c \in 1 .. F.buf, NEW p \in Nat,
         p + 1 = (i - 1) * F.buf + c
  PROVE  Row(F, p) = i /\ Column(F, p) = c
<1>1. PICK k \in Nat : i = k + 1
  <2>1. i - 1 \in Nat /\ i = (i - 1) + 1
    OBVIOUS
  <2>2. QED
    BY <2>1
<1>2. k * F.buf \in Nat /\ F.buf \in Nat \ {0} /\ i - 1 = k
  BY <1>1, ProductGrows DEF Framed
<1>3. p \in Nat /\ k * F.buf <= p /\ p < k * F.buf + F.buf
  BY <1>2
<1>4. p \div F.buf = k
  BY <1>2, <1>3, NodeIs
<1> DEFINE r == p % F.buf
<1>5. p = ((p \div F.buf) * F.buf) + r /\ r \in 0 .. F.buf - 1
  BY <1>2, <1>3, DivisionIs
<1> HIDE DEF r
<1>6. r + 1 = c
  <2>1. p = k * F.buf + r
    BY <1>4, <1>5
  <2>2. QED
    BY <1>2, <1>5, <2>1
<1>7. QED
  BY <1>1, <1>3, <1>4, <1>6 DEF Row, Column, r

\* A position is in the nodes where its row is.
LEMMA RowIs ==
  ASSUME NEW F, Framed(F), NEW lo \in Nat, NEW up \in Nat, NEW p \in Nat
  PROVE  p \in Positions(F, lo, up) <=> lo < Row(F, p) /\ Row(F, p) <= up
<1> DEFINE q == p \div F.buf
<1>1. F.buf \in Nat \ {0} /\ q \in Nat /\ Row(F, p) = q + 1
  BY DivisionIs DEF Framed, Row
<1>2. q * F.buf <= p /\ p < q * F.buf + F.buf
  BY <1>1, NodeIs
<1> HIDE DEF q
<1>3. /\ q * F.buf \in Nat /\ lo * F.buf \in Nat /\ up * F.buf \in Nat
      /\ (lo <= q => lo * F.buf <= q * F.buf) /\ (q < lo => q * F.buf + F.buf <= lo * F.buf)
      /\ (up <= q => up * F.buf <= q * F.buf) /\ (q < up => q * F.buf + F.buf <= up * F.buf)
  BY <1>1, ProductGrows
<1>4. (lo * F.buf <= p /\ p < up * F.buf) <=> lo <= q /\ q < up
  BY <1>1, <1>2, <1>3
<1>5. QED
  BY <1>1, <1>4 DEF Positions

\* A position in the nodes has an address, in a block that is no other position's and not
\* of another map.
LEMMA AddrIs ==
  ASSUME NEW F, Framed(F), NEW R, NEW lo, NEW up, NEW m, Mapped(m, F, R, lo, up),
         NEW p \in Positions(F, lo, up)
  PROVE  /\ p \in Nat /\ Row(F, p) \in lo + 1 .. up /\ Row(F, p) \in 1 .. Len(m.map)
         /\ m.map[Row(F, p)] \in 1 .. F.last /\ m.map[Row(F, p)] \notin R
         /\ m.mem[m.map[Row(F, p)]] \in Seq(Cellular(F.values))
         /\ Len(m.mem[m.map[Row(F, p)]]) = F.buf /\ Column(F, p) \in 1 .. F.buf
         /\ Addr(m, p) = << m.map[Row(F, p)], Column(F, p) >>
         /\ Inside(m, Addr(m, p)) /\ Cell(m, Addr(m, p)) = Held(m, F, p)
         /\ Held(m, F, p) \in Cellular(F.values)
<1>1. /\ m.mem \in [0 .. F.last -> Seq(Cellular(F.values))] /\ m.buf = F.buf /\ F.buf \in Nat
      /\ Len(m.map) \in Nat /\ DOMAIN m.map = 1 .. Len(m.map) /\ m.next <= F.last + 1 /\ m.next \in Nat
      /\ F.last \in Nat
  BY MemoryParts DEF Mapped
<1>2. p \in Nat /\ lo \in Nat /\ up \in Nat /\ up <= Len(m.map)
  BY DEF Positions, Mapped
<1> DEFINE i == Row(F, p)
           c == Column(F, p)
           b == m.map[i]
<1>3. i \in Nat /\ c \in 1 .. F.buf /\ lo < i /\ i <= up
  BY <1>2, PlaceIs, RowIs
<1>4. Addr(m, p) = << BlockAt(m, (p \div m.buf)), c >> /\ i = (p \div m.buf) + 1
  BY <1>1 DEF Addr, NodeOf, Row, Column
<1> HIDE DEF i, c
<1>5. i \in 1 .. Len(m.map) /\ i \in lo + 1 .. up
  BY <1>1, <1>2, <1>3
<1>6. b \in 1 .. m.next - 1 /\ b \notin R /\ Len(m.mem[b]) = F.buf
  BY <1>3, <1>5 DEF Mapped
<1>7. b \in 1 .. F.last /\ m.mem[b] \in Seq(Cellular(F.values))
  <2>1. b \in 1 .. F.last /\ b \in 0 .. F.last
    BY <1>1, <1>6
  <2>2. QED
    BY <1>1, <2>1
<1>8. Addr(m, p) = << b, c >>
  BY <1>1, <1>4, <1>5 DEF BlockAt
<1> HIDE DEF b
<1>9. c \in DOMAIN m.mem[b]
  BY <1>3, <1>6, <1>7
<1>10. Inside(m, << b, c >>) /\ Cell(m, << b, c >>) = m.mem[b][c]
  BY <1>9 DEF Inside, Cell
<1>11. m.mem[b][c] \in Cellular(F.values) /\ m.mem[b][c] = Held(m, F, p)
  BY <1>7, <1>9 DEF Held, b, i, c
<1>12. QED
  BY <1>2, <1>3, <1>5, <1>6, <1>7, <1>8, <1>10, <1>11 DEF b, i, c

\* Two positions have two addresses.
LEMMA AddrDiffers ==
  ASSUME NEW F, Framed(F), NEW R, NEW lo, NEW up, NEW m, Mapped(m, F, R, lo, up),
         NEW p \in Positions(F, lo, up), NEW q \in Positions(F, lo, up), Addr(m, p) = Addr(m, q)
  PROVE  p = q
<1>1. /\ p \in Nat /\ Row(F, p) \in lo + 1 .. up
      /\ Addr(m, p) = << m.map[Row(F, p)], Column(F, p) >>
  BY AddrIs
<1>2. /\ q \in Nat /\ Row(F, q) \in lo + 1 .. up
      /\ Addr(m, q) = << m.map[Row(F, q)], Column(F, q) >>
  BY AddrIs
<1>a. \A i, j \in lo + 1 .. up : m.map[i] = m.map[j] => i = j
  BY DEF Mapped
<1>3. Row(F, p) = Row(F, q) /\ Column(F, p) = Column(F, q)
  <2>0. << m.map[Row(F, p)], Column(F, p) >> = << m.map[Row(F, q)], Column(F, q) >>
    BY <1>1, <1>2, Zenon
  <2>1. m.map[Row(F, p)] = m.map[Row(F, q)] /\ Column(F, p) = Column(F, q)
    BY <2>0
  <2>2. QED
    BY <1>1, <1>2, <1>a, <2>1
<1>4. /\ p + 1 = (Row(F, p) - 1) * F.buf + Column(F, p)
      /\ q + 1 = (Row(F, q) - 1) * F.buf + Column(F, q)
  BY <1>1, <1>2, PlaceIs
<1>5. p + 1 = q + 1
  BY <1>3, <1>4
<1>6. QED
  BY <1>1, <1>2, <1>5
-----------------------------------------------------------------------------
(* What is written to positions and read from them                          *)

\* All addresses
Places(m) == {Addr(m, p) : p \in Nat}

\* The addresses of a range of positions
LEMMA AtAre ==
  ASSUME NEW m, NEW from \in Nat, NEW to \in Nat, from <= to
  PROVE  /\ DOMAIN At(m, from, to) = 1 .. to - from /\ Len(At(m, from, to)) = to - from
         /\ \A j \in 1 .. to - from : At(m, from, to)[j] = Addr(m, from + j - 1)
         /\ At(m, from, to) \in Seq(Places(m))
<1> DEFINE at == At(m, from, to)
<1>1. to - from \in Nat
  OBVIOUS
<1>2. /\ DOMAIN at = 1 .. to - from /\ Len(at) = to - from
      /\ \A j \in 1 .. to - from : at[j] = Addr(m, from + j - 1)
      /\ at = [j \in 1 .. to - from |-> at[j]]
  BY <1>1 DEF At
<1>3. ASSUME NEW j \in 1 .. to - from PROVE at[j] \in Places(m)
  <2>1. from + j - 1 \in Nat
    OBVIOUS
  <2>2. QED
    BY <1>2, <2>1 DEF Places
<1> HIDE DEF at
<1>4. at \in Seq(Places(m))
  BY <1>1, <1>2, <1>3
<1>5. QED
  BY <1>2, <1>4 DEF at

\* A range of positions in the nodes; none of them holds an element; all do; as many values
Within(F, lo, up, from, to) ==
    from \in Nat /\ to \in Nat /\ from <= to /\ lo * F.buf <= from /\ to <= up * F.buf
IsRaw(m, F, from, to) == \A p \in Nat : from <= p /\ p < to => Held(m, F, p) = Raw
NotRaw(m, F, from, to) == \A p \in Nat : from <= p /\ p < to => Held(m, F, p) # Raw
Fit(values, S, from, to) == values \in Seq(S) /\ Len(values) = to - from

\* The ends of a range are positions, and the values that fit it are cells too.
LEMMA WithinParts ==
  ASSUME NEW F, NEW lo, NEW up, NEW from, NEW to, Within(F, lo, up, from, to)
  PROVE  from \in Nat /\ to \in Nat /\ from <= to /\ to - from \in Nat
BY DEF Within

\* Values that fit a range are as many, and are cells too.
LEMMA FitParts ==
  ASSUME NEW F, NEW from \in Nat, NEW to \in Nat, NEW values, Fit(values, F.values, from, to)
  PROVE  /\ values \in Seq(F.values) /\ Len(values) = to - from
         /\ Fit(values, Cellular(F.values), from, to)
<1>1. values \in Seq(F.values) /\ Len(values) = to - from
  BY DEF Fit
<1>2. values \in Seq(Cellular(F.values))
  <2>1. F.values \subseteq Cellular(F.values)
    BY DEF Cellular
  <2>2. QED
    BY <1>1, <2>1, WiderSequences
<1>3. QED
  BY <1>1, <1>2 DEF Fit

\* A range of positions is positions.
LEMMA RangeIs ==
  ASSUME NEW F, Framed(F), NEW lo \in Nat, NEW up \in Nat, NEW from, NEW to,
         Within(F, lo, up, from, to)
  PROVE  \A j \in 1 .. to - from : from + j - 1 \in Positions(F, lo, up)
<1> USE DEF Within
<1>1. lo * F.buf \in Nat /\ up * F.buf \in Nat
  BY ProductGrows DEF Framed
<1>2. ASSUME NEW j \in 1 .. to - from
      PROVE  from + j - 1 \in Nat /\ lo * F.buf <= from + j - 1 /\ from + j - 1 < up * F.buf
  BY <1>1
<1>3. QED
  BY <1>2 DEF Positions

\* The positions of a range, counted from its beginning
LEMMA RangeHeld ==
  ASSUME NEW from \in Nat, NEW to \in Nat, NEW j \in 1 .. to - from
  PROVE  from + j - 1 \in Nat /\ from <= from + j - 1 /\ from + j - 1 < to
OBVIOUS

\* r is m, but for what its memory holds.
SameIterators(r, m) == r.map = m.map /\ r.start = m.start /\ r.finish = m.finish /\ r.next = m.next

\* r is m, but for the positions from from on, which hold values.
Changed(r, m, F, R, lo, up, from, values) ==
    /\ Mapped(r, F, R, lo, up) /\ SameIterators(r, m)
    /\ \A b \in R : r.mem[b] = m.mem[b]
    /\ \A p \in Positions(F, lo, up) :
         Held(r, F, p) = IF from <= p /\ p < from + Len(values) THEN values[p - from + 1]
                         ELSE Held(m, F, p)

\* Writing a range of positions leaves every other one as it was.
LEMMA StoreDoes ==
  ASSUME NEW F, Framed(F), NEW R, NEW lo, NEW up, NEW m, Mapped(m, F, R, lo, up),
         NEW from, NEW to, Within(F, lo, up, from, to),
         NEW values, Fit(values, Cellular(F.values), from, to)
  PROVE  /\ Changed(Store(m, values, At(m, from, to)), m, F, R, lo, up, from, values)
         /\ Store(m, values, At(m, from, to)) \in Memories(F)
         /\ Store(m, values, At(m, from, to)).fuel = m.fuel
         /\ Store(m, values, At(m, from, to)).threw = m.threw
<1> USE DEF Within, Fit
<1> DEFINE at == At(m, from, to)
           Stored(b, c) == IF \E j \in DOMAIN at : at[j] = << b, c >>
                           THEN values[CHOOSE j \in DOMAIN at : at[j] = << b, c >>] ELSE m.mem[b][c]
           New(b) == [c \in DOMAIN m.mem[b] |-> Stored(b, c)]
           r == Store(m, values, at)
<1>1. /\ m \in Memories(F) /\ lo \in Nat /\ up \in Nat
      /\ m.mem \in [0 .. F.last -> Seq(Cellular(F.values))] /\ m.next <= F.last + 1 /\ m.next \in Nat
      /\ F.last \in Nat /\ Len(m.map) \in Nat
  BY MemoryParts DEF Mapped
<1>2. /\ DOMAIN at = 1 .. Len(values) /\ \A j \in 1 .. Len(values) : at[j] = Addr(m, from + j - 1)
  <2>1. DOMAIN at = 1 .. to - from /\ \A j \in 1 .. to - from : at[j] = Addr(m, from + j - 1)
    BY AtAre
  <2>2. QED
    BY <2>1
<1>3. \A j \in 1 .. Len(values) : from + j - 1 \in Positions(F, lo, up)
  BY <1>1, RangeIs
<1> HIDE DEF at
<1>4. r = [m EXCEPT !.mem = [b \in DOMAIN @ |-> New(b)]]
  BY DEF Store
<1>5. ASSUME NEW b \in 0 .. F.last PROVE m.mem[b] \in Seq(Cellular(F.values)) /\ DOMAIN m.mem[b] = 1 .. Len(m.mem[b])
  BY <1>1
<1>6. ASSUME NEW b \in 0 .. F.last, NEW c \in DOMAIN m.mem[b] PROVE Stored(b, c) \in Cellular(F.values)
  <2>1. CASE \E j \in DOMAIN at : at[j] = << b, c >>
    <3> DEFINE k == CHOOSE j \in DOMAIN at : at[j] = << b, c >>
    <3>1. k \in 1 .. Len(values)
      BY <1>2, <2>1
    <3>2. Stored(b, c) = values[k]
      BY <2>1
    <3> HIDE DEF k, Stored
    <3>3. QED
      BY <3>1, <3>2
  <2>2. CASE ~ \E j \in DOMAIN at : at[j] = << b, c >>
    <3>1. m.mem[b][c] \in Cellular(F.values)
      BY <1>5
    <3>2. QED
      BY <2>2, <3>1
  <2>3. QED
    BY <2>1, <2>2
<1>7. ASSUME NEW b, b \in R \/ \A i \in lo + 1 .. up : m.map[i] # b, NEW c
      PROVE  Stored(b, c) = m.mem[b][c]
  <2>1. ASSUME NEW j \in 1 .. Len(values) PROVE at[j] # << b, c >>
    <3>0. PICK p \in Positions(F, lo, up) : p = from + j - 1
      BY <1>3
    <3>1. /\ Row(F, p) \in lo + 1 .. up /\ m.map[Row(F, p)] \notin R
          /\ Addr(m, p) = << m.map[Row(F, p)], Column(F, p) >>
      BY AddrIs
    <3>2. m.map[Row(F, p)] # b
      BY <1>7, <3>1
    <3>3. at[j] = << m.map[Row(F, p)], Column(F, p) >>
      BY <1>2, <3>0, <3>1
    <3>4. QED
      BY <3>2, <3>3
  <2>2. QED
    BY <1>2, <2>1
<1>8. ASSUME NEW p \in Positions(F, lo, up)
      PROVE  Stored(m.map[Row(F, p)], Column(F, p)) =
               IF from <= p /\ p < from + Len(values) THEN values[p - from + 1] ELSE Held(m, F, p)
  <2>0. p \in Nat /\ Addr(m, p) = << m.map[Row(F, p)], Column(F, p) >>
    BY AddrIs
  <2>a. ASSUME NEW j \in 1 .. Len(values), at[j] = << m.map[Row(F, p)], Column(F, p) >>
        PROVE  p = from + j - 1
    <3>1. Addr(m, from + j - 1) = Addr(m, p)
      BY <1>2, <2>0, <2>a
    <3>2. from + j - 1 \in Positions(F, lo, up)
      BY <1>3
    <3>3. QED
      BY <3>1, <3>2, AddrDiffers
  <2>1. CASE from <= p /\ p < from + Len(values)
    <3>0. PICK k \in 1 .. Len(values) : k = p - from + 1
      BY <2>0, <2>1
    <3>1. k \in DOMAIN at /\ at[k] = << m.map[Row(F, p)], Column(F, p) >>
      <4>1. from + k - 1 = p
        BY <2>0, <3>0
      <4>2. QED
        BY <1>2, <2>0, <4>1
    <3>2. \A j \in DOMAIN at : at[j] = << m.map[Row(F, p)], Column(F, p) >> => j = k
      <4>1. ASSUME NEW j \in 1 .. Len(values), at[j] = << m.map[Row(F, p)], Column(F, p) >> PROVE j = k
        <5>1. p = from + j - 1
          BY <2>a, <4>1
        <5>2. QED
          BY <3>0, <5>1
      <4>2. QED
        BY <1>2, <4>1
    <3>3. (CHOOSE j \in DOMAIN at : at[j] = << m.map[Row(F, p)], Column(F, p) >>) = k
      BY <3>1, <3>2
    <3>4. QED
      BY <2>1, <3>0, <3>1, <3>3
  <2>2. CASE ~ (from <= p /\ p < from + Len(values))
    <3>1. \A j \in DOMAIN at : at[j] # << m.map[Row(F, p)], Column(F, p) >>
      <4>1. ASSUME NEW j \in 1 .. Len(values), at[j] = << m.map[Row(F, p)], Column(F, p) >> PROVE FALSE
        <5>1. p = from + j - 1
          BY <2>a, <4>1
        <5>2. QED
          BY <2>0, <2>2, <5>1
      <4>2. QED
        BY <1>2, <4>1
    <3>2. QED
      BY <2>2, <3>1 DEF Held
  <2>3. QED
    BY <2>1, <2>2
<1> HIDE DEF Stored
<1>9. ASSUME NEW b \in 0 .. F.last
      PROVE  New(b) \in Seq(Cellular(F.values)) /\ Len(New(b)) = Len(m.mem[b])
  <2>1. Len(m.mem[b]) \in Nat /\ DOMAIN m.mem[b] = 1 .. Len(m.mem[b])
    BY <1>5
  <2>2. New(b) = [c \in 1 .. Len(m.mem[b]) |-> Stored(b, c)]
    BY <2>1
  <2>3. \A c \in 1 .. Len(m.mem[b]) : Stored(b, c) \in Cellular(F.values)
    BY <1>6, <2>1
  <2>4. QED
    BY <2>1, <2>2, <2>3
<1>10. ASSUME NEW b \in 0 .. F.last, b \in R \/ \A i \in lo + 1 .. up : m.map[i] # b
       PROVE  New(b) = m.mem[b]
  <2>1. \A c \in DOMAIN m.mem[b] : Stored(b, c) = m.mem[b][c]
    BY <1>7, <1>10
  <2>2. QED
    BY <1>5, <2>1
<1> DEFINE mem == [b \in 0 .. F.last |-> New(b)]
<1>11. mem \in [0 .. F.last -> Seq(Cellular(F.values))] /\ r = [m EXCEPT !.mem = mem]
  BY <1>1, <1>4, <1>9
<1>a. \A b \in 0 .. F.last : mem[b] = New(b)
  OBVIOUS
<1>b. \A b, c : c \in DOMAIN m.mem[b] => New(b)[c] = Stored(b, c)
  OBVIOUS
<1> HIDE DEF mem, r, New
<1>12. /\ r \in Memories(F) /\ r.mem = mem /\ r.map = m.map /\ r.start = m.start /\ r.finish = m.finish
       /\ r.next = m.next /\ r.fuel = m.fuel /\ r.threw = m.threw
  BY <1>1, <1>11 DEF Memories
<1>13. Mapped(r, F, R, lo, up)
  <2>1. ASSUME NEW i \in 1 .. Len(m.map), lo < i, i <= up
        PROVE  m.map[i] \in 1 .. m.next - 1 /\ m.map[i] \notin R /\ Len(mem[m.map[i]]) = F.buf
    <3>1. m.map[i] \in 1 .. m.next - 1 /\ m.map[i] \notin R /\ Len(m.mem[m.map[i]]) = F.buf
      BY <2>1 DEF Mapped
    <3>2. m.map[i] \in 0 .. F.last
      BY <1>1, <3>1
    <3>3. QED
      BY <1>9, <1>a, <3>1, <3>2
  <2>2. ASSUME NEW b \in 0 .. F.last, b \notin R /\ (\A i \in lo + 1 .. up : m.map[i] # b) PROVE mem[b] = << >>
    <3>1. m.mem[b] = << >>
      BY <2>2 DEF Mapped
    <3>2. mem[b] = m.mem[b]
      BY <1>10, <1>a, <2>2
    <3>3. QED
      BY <3>1, <3>2
  <2>3. QED
    BY <1>12, <2>1, <2>2 DEF Mapped
<1>14. ASSUME NEW b \in R PROVE r.mem[b] = m.mem[b]
  <2>1. b \in 0 .. F.last
    BY <1>1 DEF Mapped
  <2>2. QED
    BY <1>10, <1>12, <1>a, <2>1
<1>15. ASSUME NEW p \in Positions(F, lo, up)
       PROVE  Held(r, F, p) = IF from <= p /\ p < from + Len(values) THEN values[p - from + 1]
                              ELSE Held(m, F, p)
  <2>1. /\ m.map[Row(F, p)] \in 1 .. F.last /\ Column(F, p) \in 1 .. F.buf
        /\ Len(m.mem[m.map[Row(F, p)]]) = F.buf
        /\ m.mem[m.map[Row(F, p)]] \in Seq(Cellular(F.values))
    BY AddrIs
  <2>2. m.map[Row(F, p)] \in 0 .. F.last /\ Column(F, p) \in DOMAIN m.mem[m.map[Row(F, p)]]
    BY <1>1, <2>1
  <2>3. Held(r, F, p) = Stored(m.map[Row(F, p)], Column(F, p))
    BY <1>12, <1>a, <1>b, <2>2 DEF Held
  <2>4. QED
    BY <1>8, <2>3
<1>16. Changed(r, m, F, R, lo, up, from, values)
  BY <1>12, <1>13, <1>14, <1>15 DEF Changed, SameIterators
<1>17. QED
  BY <1>12, <1>16 DEF r, at

\* Reading a range of positions gives what they hold.
LEMMA ReadDoes ==
  ASSUME NEW F, Framed(F), NEW R, NEW lo, NEW up, NEW m, Mapped(m, F, R, lo, up),
         NEW from \in Nat, NEW to \in Nat, Within(F, lo, up, from, to)
  PROVE  /\ Elems(m, from, to) \in Seq(Cellular(F.values)) /\ Len(Elems(m, from, to)) = to - from
         /\ \A j \in 1 .. to - from : Elems(m, from, to)[j] = Held(m, F, from + j - 1)
         /\ ~ Outside(m, At(m, from, to))
<1> USE DEF Within
<1> DEFINE at == At(m, from, to)
<1>1. DOMAIN at = 1 .. to - from /\ \A j \in 1 .. to - from : at[j] = Addr(m, from + j - 1)
  BY AtAre
<1> HIDE DEF at
<1>2. ASSUME NEW j \in 1 .. to - from
      PROVE  /\ Cell(m, at[j]) = Held(m, F, from + j - 1) /\ Held(m, F, from + j - 1) \in Cellular(F.values)
             /\ Inside(m, at[j])
  <2>1. from + j - 1 \in Positions(F, lo, up)
    BY RangeIs DEF Mapped
  <2>2. QED
    BY <1>1, <2>1, AddrIs
<1>3. Read(m, at) = [j \in 1 .. to - from |-> Held(m, F, from + j - 1)]
  BY <1>1, <1>2 DEF Read
<1>4. ~ Outside(m, at)
  BY <1>1, <1>2 DEF Outside
<1> DEFINE r == Read(m, at)
<1>5. to - from \in Nat /\ r = [j \in 1 .. to - from |-> Held(m, F, from + j - 1)]
  BY <1>3
<1> HIDE DEF r
<1>6. /\ r \in Seq(Cellular(F.values)) /\ Len(r) = to - from
      /\ \A j \in 1 .. to - from : r[j] = Held(m, F, from + j - 1)
  <2>1. \A j \in 1 .. to - from : r[j] = Held(m, F, from + j - 1)
    BY <1>5
  <2>2. \A j \in 1 .. to - from : r[j] \in Cellular(F.values)
    BY <1>2, <2>1
  <2>3. r = [j \in 1 .. to - from |-> r[j]]
    BY <1>5
  <2>4. r \in Seq(Cellular(F.values)) /\ Len(r) = to - from
    BY <1>5, <2>2, <2>3
  <2>5. QED
    BY <2>1, <2>4
<1>7. QED
  BY <1>4, <1>6 DEF Elems, at, r
\* Where nothing is misused, recording that changes nothing.
LEMMA NoMisuse ==
  ASSUME NEW F, NEW m \in Memories(F), NEW misuse, misuse = FALSE
  PROVE  Misused(m, misuse) = m
BY DEF Misused, Memories

\* Elements that are constructed on raw cells are just written.
LEMMA ConstructStores ==
  ASSUME NEW F, Framed(F), NEW R, NEW lo, NEW up, NEW m, Mapped(m, F, R, lo, up),
         NEW from, NEW to, Within(F, lo, up, from, to),
         NEW values, Fit(values, F.values, from, to),
         IsRaw(m, F, from, to)
  PROVE  Construct(m, values, At(m, from, to)) = Store(m, values, At(m, from, to))
<1> DEFINE at == At(m, from, to)
           there == Read(m, at)
           s == Store(m, values, at)
<1>0. /\ from \in Nat /\ to \in Nat /\ from <= to /\ to - from \in Nat
      /\ values \in Seq(F.values) /\ Len(values) = to - from /\ Fit(values, Cellular(F.values), from, to)
  BY WithinParts, FitParts
<1>1. s \in Memories(F)
  BY <1>0, StoreDoes
<1>2. /\ there \in Seq(Cellular(F.values)) /\ Len(there) = to - from
      /\ \A j \in 1 .. to - from : there[j] = Held(m, F, from + j - 1)
      /\ ~ Outside(m, at)
  BY <1>0, ReadDoes DEF Elems
<1> HIDE DEF there, s, at
<1>3. ValuesIn(there) \subseteq {Raw}
  <2>1. \A j \in 1 .. Len(there) : there[j] = Raw
    BY <1>0, <1>2, RangeHeld DEF IsRaw
  <2>2. QED
    BY <1>2, <2>1, ValuesAre
<1>4. Raw \notin ValuesIn(values)
  BY <1>0, ValuesAre DEF Framed
<1> DEFINE misuse == \/ Outside(m, at) \/ Raw \in ValuesIn(values) \/ ValuesIn(there) \ {Raw} # {}
<1>5. misuse = FALSE
  BY <1>2, <1>3, <1>4
<1>6. Construct(m, values, at) = Misused(s, misuse)
  BY DEF Construct, s, there
<1> HIDE DEF misuse
<1>7. QED
  BY <1>1, <1>5, <1>6, NoMisuse DEF s, at

\* Elements that are destroyed leave raw cells.
LEMMA DestroyStores ==
  ASSUME NEW F, Framed(F), NEW R, NEW lo, NEW up, NEW m, Mapped(m, F, R, lo, up),
         NEW from, NEW to, Within(F, lo, up, from, to),
         NotRaw(m, F, from, to)
  PROVE  /\ Fit(Times(to - from, Raw), Cellular(F.values), from, to)
         /\ \A j \in 1 .. to - from : Times(to - from, Raw)[j] = Raw
         /\ Destroy(m, At(m, from, to)) = Store(m, Times(to - from, Raw), At(m, from, to))
<1> DEFINE at == At(m, from, to)
           there == Read(m, at)
           none == Times(to - from, Raw)
           s == Store(m, none, at)
<1>b. from \in Nat /\ to \in Nat /\ from <= to /\ to - from \in Nat
  BY WithinParts
<1>0. none \in Seq(Cellular(F.values)) /\ Len(none) = to - from /\ \A j \in 1 .. to - from : none[j] = Raw
  <2>1. to - from \in Nat /\ Raw \in Cellular(F.values)
    BY <1>b DEF Cellular
  <2>2. QED
    BY <2>1 DEF Times
<1>a. Len(at) = to - from
  BY <1>b, AtAre
<1> HIDE DEF none
<1>c. Fit(none, Cellular(F.values), from, to)
  BY <1>0 DEF Fit
<1>1. s \in Memories(F)
  BY <1>c, StoreDoes
<1>2. /\ there \in Seq(Cellular(F.values)) /\ Len(there) = to - from
      /\ \A j \in 1 .. to - from : there[j] = Held(m, F, from + j - 1)
  BY <1>b, ReadDoes DEF Elems
<1> HIDE DEF there, s, at
<1>3. Raw \notin ValuesIn(there)
  <2>1. \A j \in 1 .. Len(there) : there[j] # Raw
    BY <1>b, <1>2, RangeHeld DEF NotRaw
  <2>2. QED
    BY <1>2, <2>1, ValuesAre
<1> DEFINE misuse == Raw \in ValuesIn(there)
<1>5. misuse = FALSE
  BY <1>3
<1>6. Destroy(m, at) = Misused(s, misuse)
  BY <1>a DEF Destroy, s, there, none
<1> HIDE DEF misuse
<1>7. Destroy(m, at) = s
  BY <1>1, <1>5, <1>6, NoMisuse
<1>8. QED
  BY <1>0, <1>c, <1>7 DEF s, at, none

\* Elements that are assigned to are just written.
LEMMA AssignStores ==
  ASSUME NEW F, Framed(F), NEW R, NEW lo, NEW up, NEW m, Mapped(m, F, R, lo, up),
         NEW from, NEW to, Within(F, lo, up, from, to),
         NEW values, Fit(values, F.values, from, to),
         NotRaw(m, F, from, to)
  PROVE  Assign(m, values, At(m, from, to)) = Store(m, values, At(m, from, to))
<1> DEFINE at == At(m, from, to)
           there == Read(m, at)
           s == Store(m, values, at)
<1>0. /\ from \in Nat /\ to \in Nat /\ from <= to /\ to - from \in Nat
      /\ values \in Seq(F.values) /\ Len(values) = to - from /\ Fit(values, Cellular(F.values), from, to)
  BY WithinParts, FitParts
<1>1. s \in Memories(F)
  BY <1>0, StoreDoes
<1>2. /\ there \in Seq(Cellular(F.values)) /\ Len(there) = to - from
      /\ \A j \in 1 .. to - from : there[j] = Held(m, F, from + j - 1)
  BY <1>0, ReadDoes DEF Elems
<1> HIDE DEF there, s, at
<1>3. Raw \notin ValuesIn(there)
  <2>1. \A j \in 1 .. Len(there) : there[j] # Raw
    BY <1>0, <1>2, RangeHeld DEF NotRaw
  <2>2. QED
    BY <1>2, <2>1, ValuesAre
<1>4. Raw \notin ValuesIn(values)
  BY <1>0, ValuesAre DEF Framed
<1> DEFINE misuse == Raw \in ValuesIn(values) \union ValuesIn(there)
<1>5. misuse = FALSE
  BY <1>3, <1>4
<1>6. Assign(m, values, at) = Misused(s, misuse)
  BY DEF Assign, s, there
<1> HIDE DEF misuse
<1>7. QED
  BY <1>1, <1>5, <1>6, NoMisuse DEF s, at

\* Counting copies changes no memory, and throws if there were not as many left.
LEMMA SpendDoes ==
  ASSUME NEW F, Framed(F), NEW m \in Memories(F), NEW n \in Nat
  PROVE  /\ Spend(m, n) \in Memories(F) /\ Spend(m, n).mem = m.mem /\ SameIterators(Spend(m, n), m)
         /\ (Spend(m, n).threw <=> n > m.fuel)
<1>1. m.fuel - Smaller(m.fuel, n) \in Nat /\ (n > m.fuel) \in BOOLEAN
  <2>1. m.fuel \in Nat
    BY MemoryParts
  <2>2. QED
    BY <2>1 DEF Smaller
<1> DEFINE fuel == m.fuel - Smaller(m.fuel, n)
           threw == n > m.fuel
<1>2. Spend(m, n) = [m EXCEPT !.fuel = fuel, !.threw = threw]
  BY DEF Spend
<1>3. fuel \in Nat /\ threw \in BOOLEAN
  BY <1>1
<1> HIDE DEF fuel, threw
<1>4. /\ Spend(m, n) \in Memories(F) /\ Spend(m, n).mem = m.mem /\ SameIterators(Spend(m, n), m)
      /\ Spend(m, n).threw = threw
  BY <1>2, <1>3 DEF Memories, SameIterators
<1>5. QED
  BY <1>4 DEF threw

\* Memories that differ in their fuel only have the same nodes and cells.
LEMMA SameMapped ==
  ASSUME NEW F, NEW R, NEW lo, NEW up, NEW m, NEW r \in Memories(F), r.mem = m.mem, SameIterators(r, m)
  PROVE  /\ Mapped(m, F, R, lo, up) => Mapped(r, F, R, lo, up)
         /\ \A p : Held(r, F, p) = Held(m, F, p)
BY DEF Mapped, SameIterators, Held

\* So has what differs from a third by the same positions.
LEMMA SameChanged ==
  ASSUME NEW F, NEW R, NEW lo, NEW up, NEW from, NEW values, NEW n, NEW m, Changed(m, n, F, R, lo, up, from, values),
         NEW r \in Memories(F), r.mem = m.mem, SameIterators(r, m)
  PROVE  Changed(r, n, F, R, lo, up, from, values)
<1>1. Mapped(r, F, R, lo, up) /\ \A p : Held(r, F, p) = Held(m, F, p)
  <2>1. Mapped(m, F, R, lo, up)
    BY DEF Changed
  <2>2. QED
    BY <2>1, SameMapped
<1>2. QED
  BY <1>1 DEF Changed, SameIterators
\* The first addresses of a range are a range.
LEMMA FirstAt ==
  ASSUME NEW m, NEW from \in Nat, NEW to \in Nat, from <= to, NEW k \in Nat
  PROVE  First(At(m, from, to), k) = At(m, from, from + Smaller(k, to - from))
<1> DEFINE at == At(m, from, to)
           n == Smaller(k, to - from)
<1>1. /\ at \in Seq(Places(m)) /\ Len(at) = to - from
      /\ \A j \in 1 .. to - from : at[j] = Addr(m, from + j - 1)
  BY AtAre
<1>2. n \in Nat /\ n <= to - from
  BY DEF Smaller
<1> HIDE DEF at
<1>3. First(at, k) \in Seq(Places(m)) /\ Len(First(at, k)) = n /\ \A j \in 1 .. n : First(at, k)[j] = at[j]
  BY <1>1, FirstAre
<1> HIDE DEF n
<1>4. PICK mid \in Nat : mid = from + n /\ from <= mid /\ mid - from = n
  BY <1>2
<1>5. /\ At(m, from, mid) \in Seq(Places(m)) /\ Len(At(m, from, mid)) = n
      /\ \A j \in 1 .. n : At(m, from, mid)[j] = Addr(m, from + j - 1)
  <2>1. /\ At(m, from, mid) \in Seq(Places(m)) /\ Len(At(m, from, mid)) = mid - from
        /\ \A j \in 1 .. mid - from : At(m, from, mid)[j] = Addr(m, from + j - 1)
    BY <1>4, AtAre
  <2>2. QED
    BY <1>4, <2>1
<1>6. First(at, k) = At(m, from, mid)
  <2>1. \A j \in 1 .. n : First(at, k)[j] = At(m, from, mid)[j]
    BY <1>1, <1>2, <1>3, <1>5
  <2>2. QED
    BY <1>3, <1>5, <2>1
<1>7. QED
  BY <1>4, <1>6 DEF at, n

\* The last addresses of a range are a range.
LEMMA LastAt ==
  ASSUME NEW m, NEW from \in Nat, NEW to \in Nat, from <= to, NEW k \in Nat
  PROVE  Last(At(m, from, to), k) = At(m, to - Smaller(k, to - from), to)
<1> DEFINE at == At(m, from, to)
           n == Smaller(k, to - from)
<1>1. /\ at \in Seq(Places(m)) /\ Len(at) = to - from
      /\ \A j \in 1 .. to - from : at[j] = Addr(m, from + j - 1)
  BY AtAre
<1>2. n \in Nat /\ n <= to - from
  BY DEF Smaller
<1> HIDE DEF at
<1>3. /\ Last(at, k) \in Seq(Places(m)) /\ Len(Last(at, k)) = n
      /\ \A j \in 1 .. n : Last(at, k)[j] = at[to - from - n + j]
  <2>1. /\ Last(at, k) \in Seq(Places(m)) /\ Len(Last(at, k)) = Smaller(k, Len(at))
        /\ \A j \in 1 .. Smaller(k, Len(at)) : Last(at, k)[j] = at[Len(at) - Smaller(k, Len(at)) + j]
    BY <1>1, LastAre
  <2>2. Smaller(k, Len(at)) = n /\ Len(at) = to - from
    BY <1>1
  <2> HIDE DEF n
  <2>3. QED
    BY <2>1, <2>2
<1> HIDE DEF n
<1>4. PICK mid \in Nat : mid = to - n /\ mid <= to /\ to - mid = n
  BY <1>2
<1>5. /\ At(m, mid, to) \in Seq(Places(m)) /\ Len(At(m, mid, to)) = n
      /\ \A j \in 1 .. n : At(m, mid, to)[j] = Addr(m, mid + j - 1)
  <2>1. /\ At(m, mid, to) \in Seq(Places(m)) /\ Len(At(m, mid, to)) = to - mid
        /\ \A j \in 1 .. to - mid : At(m, mid, to)[j] = Addr(m, mid + j - 1)
    BY <1>4, AtAre
  <2>2. QED
    BY <1>4, <2>1
<1>6. Last(at, k) = At(m, mid, to)
  <2>1. ASSUME NEW j \in 1 .. n PROVE Last(at, k)[j] = At(m, mid, to)[j]
    <3>1. to - from - n + j \in 1 .. to - from /\ from + (to - from - n + j) - 1 = mid + j - 1
      BY <1>2, <1>4
    <3>2. QED
      BY <1>1, <1>3, <1>5, <3>1
  <2>2. QED
    BY <1>3, <1>5, <2>1
<1>7. QED
  BY <1>4, <1>6 DEF at, n

\* Addresses depend on the map only.
LEMMA SameAt ==
  ASSUME NEW F, NEW m \in Memories(F), NEW r \in Memories(F), r.map = m.map, NEW from, NEW to
  PROVE  At(r, from, to) = At(m, from, to)
<1>1. r.buf = m.buf
  BY DEF Memories
<1>2. QED
  BY <1>1 DEF At, Addr, BlockAt, NodeOf

\* Parts of a range
LEMMA RangeParts ==
  ASSUME NEW F, Framed(F), NEW lo \in Nat, NEW up \in Nat, NEW from, NEW to, Within(F, lo, up, from, to),
         NEW mid \in Nat, from <= mid, mid <= to
  PROVE  /\ Within(F, lo, up, from, mid) /\ Within(F, lo, up, mid, to)
         /\ \A m : IsRaw(m, F, from, to) => IsRaw(m, F, from, mid) /\ IsRaw(m, F, mid, to)
         /\ \A m : NotRaw(m, F, from, to) => NotRaw(m, F, from, mid) /\ NotRaw(m, F, mid, to)
<1>1. lo * F.buf \in Nat /\ up * F.buf \in Nat
  BY ProductGrows DEF Framed
<1>2. from \in Nat /\ to \in Nat /\ from <= to /\ lo * F.buf <= from /\ to <= up * F.buf
  BY DEF Within
<1>3. lo * F.buf <= mid /\ mid <= up * F.buf
  BY <1>1, <1>2
<1>4. Within(F, lo, up, from, mid) /\ Within(F, lo, up, mid, to)
  BY <1>2, <1>3 DEF Within
<1>5. \A p \in Nat : (from <= p /\ p < mid) \/ (mid <= p /\ p < to) => from <= p /\ p < to
  BY <1>2
<1>6. QED
  BY <1>4, <1>5 DEF IsRaw, NotRaw

\* A position of a range is one of the nodes.
LEMMA InRange ==
  ASSUME NEW F, Framed(F), NEW lo \in Nat, NEW up \in Nat, NEW from, NEW to, Within(F, lo, up, from, to),
         NEW p \in Nat, from <= p, p < to
  PROVE  p \in Positions(F, lo, up) /\ p - from + 1 \in 1 .. to - from /\ from + (p - from + 1) - 1 = p
<1>1. lo * F.buf \in Nat /\ up * F.buf \in Nat
  BY ProductGrows DEF Framed
<1>2. from \in Nat /\ to \in Nat /\ lo * F.buf <= from /\ to <= up * F.buf
  BY DEF Within
<1>3. lo * F.buf <= p /\ p < up * F.buf
  BY <1>1, <1>2
<1>4. QED
  BY <1>2, <1>3 DEF Positions

\* What a range of positions holds after it was written
LEMMA ChangedHolds ==
  ASSUME NEW F, Framed(F), NEW R, NEW lo \in Nat, NEW up \in Nat, NEW from, NEW to, Within(F, lo, up, from, to),
         NEW values, NEW S, Fit(values, S, from, to), NEW m, NEW r, Changed(r, m, F, R, lo, up, from, values)
  PROVE  \A p \in Positions(F, lo, up) :
           Held(r, F, p) = IF from <= p /\ p < to THEN values[p - from + 1] ELSE Held(m, F, p)
<1>1. from \in Nat /\ to \in Nat /\ from <= to /\ Len(values) = to - from
  BY WithinParts DEF Fit
<1>2. from + Len(values) = to
  BY <1>1
<1>3. QED
  BY <1>2 DEF Changed

\* What holds values is not raw.
LEMMA ValuesNotRaw ==
  ASSUME NEW F, Framed(F), NEW R, NEW lo \in Nat, NEW up \in Nat, NEW from, NEW to, Within(F, lo, up, from, to),
         NEW values, Fit(values, F.values, from, to), NEW m, NEW r, Changed(r, m, F, R, lo, up, from, values)
  PROVE  NotRaw(r, F, from, to)
<1>1. ASSUME NEW p \in Nat, from <= p, p < to PROVE Held(r, F, p) # Raw
  <2>1. p \in Positions(F, lo, up) /\ p - from + 1 \in 1 .. to - from
    BY <1>1, InRange
  <2>2. Held(r, F, p) = values[p - from + 1]
    BY <1>1, <2>1, ChangedHolds
  <2>3. values \in Seq(F.values) /\ Len(values) = to - from
    BY DEF Fit
  <2>4. values[p - from + 1] \in F.values
    BY <2>1, <2>3
  <2>5. QED
    BY <2>2, <2>4 DEF Framed
<1>2. QED
  BY <1>1 DEF NotRaw

\* What is constructed at raw positions and then destroyed leaves them raw.
LEMMA RawAgain ==
  ASSUME NEW F, Framed(F), NEW R, NEW lo, NEW up, NEW m, Mapped(m, F, R, lo, up),
         NEW from, NEW to, Within(F, lo, up, from, to),
         NEW values, Fit(values, F.values, from, to),
         IsRaw(m, F, from, to), NEW c, NEW d,
         c = Construct(m, values, At(m, from, to)), d = Destroy(c, At(m, from, to))
  PROVE  Changed(d, m, F, R, lo, up, from, << >>) /\ d \in Memories(F) /\ d.fuel = m.fuel
<1> DEFINE none == Times(to - from, Raw)
<1>0. m \in Memories(F) /\ lo \in Nat /\ up \in Nat
  BY DEF Mapped
<1>a. /\ from \in Nat /\ to \in Nat /\ from <= to /\ to - from \in Nat
      /\ Len(values) = to - from /\ Fit(values, Cellular(F.values), from, to)
  BY WithinParts, FitParts
<1>1. c = Store(m, values, At(m, from, to))
  BY ConstructStores
<1>3. Changed(c, m, F, R, lo, up, from, values) /\ c \in Memories(F) /\ c.fuel = m.fuel
  BY <1>a, <1>1, StoreDoes
<1>4. Mapped(c, F, R, lo, up) /\ SameIterators(c, m)
  BY <1>3 DEF Changed
<1>5. NotRaw(c, F, from, to)
  BY <1>0, <1>3, ValuesNotRaw
<1>6. At(c, from, to) = At(m, from, to)
  BY <1>0, <1>3, <1>4, SameAt DEF SameIterators
<1>7. /\ Fit(none, Cellular(F.values), from, to) /\ \A j \in 1 .. to - from : none[j] = Raw
      /\ Destroy(c, At(c, from, to)) = Store(c, none, At(c, from, to))
  BY <1>4, <1>5, DestroyStores
<1> HIDE DEF none
<1>8. d = Store(c, none, At(c, from, to))
  BY <1>6, <1>7
<1>9. Changed(d, c, F, R, lo, up, from, none) /\ d \in Memories(F) /\ d.fuel = c.fuel
  BY <1>4, <1>7, <1>8, StoreDoes
<1>10. ASSUME NEW p \in Positions(F, lo, up) PROVE Held(d, F, p) = Held(m, F, p)
  <2>0. p \in Nat
    BY DEF Positions
  <2>1. /\ Held(d, F, p) = IF from <= p /\ p < to THEN none[p - from + 1] ELSE Held(c, F, p)
        /\ Held(c, F, p) = IF from <= p /\ p < to THEN values[p - from + 1] ELSE Held(m, F, p)
    BY <1>0, <1>a, <1>3, <1>7, <1>9, ChangedHolds
  <2>2. CASE from <= p /\ p < to
    <3>1. p - from + 1 \in 1 .. to - from
      BY <1>0, <2>0, <2>2, InRange
    <3>2. Held(m, F, p) = Raw
      BY <2>0, <2>2 DEF IsRaw
    <3>3. QED
      BY <1>7, <2>1, <2>2, <3>1, <3>2
  <2>3. CASE ~ (from <= p /\ p < to)
    BY <2>1, <2>3
  <2>4. QED
    BY <2>2, <2>3
<1>11. ASSUME NEW p \in Positions(F, lo, up) PROVE ~ (from <= p /\ p < from + Len(<< >>))
  BY <1>a DEF Positions
<1>12. Mapped(d, F, R, lo, up) /\ SameIterators(d, m)
  BY <1>4, <1>9 DEF Changed, SameIterators
<1>13. \A b \in R : d.mem[b] = m.mem[b]
  BY <1>3, <1>9 DEF Changed
<1>14. Changed(d, m, F, R, lo, up, from, << >>)
  BY <1>10, <1>11, <1>12, <1>13 DEF Changed
<1>15. QED
  BY <1>3, <1>9, <1>14

\* What is constructed at raw positions is there, or it throws and they are raw again.
LEMMA UninitializedDoes ==
  ASSUME NEW F, Framed(F), NEW R, NEW lo, NEW up, NEW m, Mapped(m, F, R, lo, up), ~ m.threw,
         NEW from, NEW to, Within(F, lo, up, from, to),
         NEW values, Fit(values, F.values, from, to),
         IsRaw(m, F, from, to), NEW r,
         r = UninitializedCopy(m, values, At(m, from, to))
  PROVE  /\ ~ r.threw => Changed(r, m, F, R, lo, up, from, values)
         /\ r.threw => Changed(r, m, F, R, lo, up, from, << >>)
<1> DEFINE at == At(m, from, to)
           k == m.fuel
<1>b. /\ from \in Nat /\ to \in Nat /\ from <= to /\ values \in Seq(F.values)
      /\ Len(values) = to - from /\ Fit(values, Cellular(F.values), from, to)
  BY WithinParts, FitParts
<1>0. PICK n \in Nat : n = to - from
  BY <1>b
<1>a. m \in Memories(F) /\ k \in Nat /\ lo \in Nat /\ up \in Nat
  BY MemoryParts DEF Mapped
<1>c. Len(at) = n
  BY <1>b, <1>0, AtAre
<1>1. CASE n <= k
  <2> DEFINE c == Construct(m, values, at)
  <2>1. c = Store(m, values, at)
    BY ConstructStores
  <2>3. Changed(c, m, F, R, lo, up, from, values) /\ c \in Memories(F) /\ c.fuel = m.fuel
    BY <1>b, <2>1, StoreDoes
  <2>4. r = Spend(c, n)
    BY <1>c, <1>1 DEF UninitializedCopy
  <2> HIDE DEF c
  <2>5. /\ r \in Memories(F) /\ r.mem = c.mem /\ SameIterators(r, c) /\ (r.threw <=> n > c.fuel)
    BY <2>3, <2>4, SpendDoes
  <2>6. ~ r.threw
    BY <1>a, <1>1, <2>3, <2>5
  <2>7. Changed(r, m, F, R, lo, up, from, values)
    BY <2>3, <2>5, SameChanged
  <2>8. QED
    BY <2>6, <2>7
<1>2. CASE ~ (n <= k)
  <2> DEFINE v == First(values, k)
  <2>1. PICK mid \in Nat : mid = from + k /\ from <= mid /\ mid <= to /\ mid - from = k
    BY <1>0, <1>a, <1>b, <1>2
  <2>a. Smaller(k, to - from) = k
    BY <1>0, <1>a, <1>2 DEF Smaller
  <2>2. Fit(v, F.values, from, mid)
    <3>1. v \in Seq(F.values) /\ Len(v) = Smaller(k, Len(values))
      BY <1>a, <1>b, FirstAre
    <3>2. Len(v) = mid - from
      BY <1>b, <2>1, <2>a, <3>1
    <3>3. QED
      BY <3>1, <3>2 DEF Fit
  <2>3. First(at, k) = At(m, from, mid)
    BY <1>a, <1>b, <2>1, <2>a, FirstAt
  <2> HIDE DEF v
  <2>4. Within(F, lo, up, from, mid) /\ IsRaw(m, F, from, mid)
    BY <1>a, <2>1, RangeParts
  <2> DEFINE c == Construct(m, v, At(m, from, mid))
             d == Destroy(c, At(m, from, mid))
  <2>5. Changed(d, m, F, R, lo, up, from, << >>) /\ d \in Memories(F) /\ d.fuel = m.fuel
    BY <2>2, <2>4, RawAgain
  <2>6. r = Spend(d, n)
    BY <1>c, <1>2, <2>3 DEF UninitializedCopy, v
  <2> HIDE DEF d
  <2>7. /\ r \in Memories(F) /\ r.mem = d.mem /\ SameIterators(r, d) /\ (r.threw <=> n > d.fuel)
    BY <2>5, <2>6, SpendDoes
  <2>8. Changed(r, m, F, R, lo, up, from, << >>)
    BY <2>5, <2>7, SameChanged
  <2>9. r.threw
    BY <1>a, <1>2, <2>5, <2>7
  <2>10. QED
    BY <2>8, <2>9
<1>3. QED
  BY <1>1, <1>2

-----------------------------------------------------------------------------
(* Sequences in the nodes                                                   *)

\* The nodes hold w, from position f on, and nothing else.
Laid(m, F, R, lo, up, f, w) ==
    /\ Mapped(m, F, R, lo, up) /\ w \in Seq(F.values) /\ Within(F, lo, up, f, f + Len(w))
    /\ \A p \in Positions(F, lo, up) :
         Held(m, F, p) = IF f <= p /\ p < f + Len(w) THEN w[p - f + 1] ELSE Raw

\* The parts of that, as the provers need them
LEMMA LaidParts ==
  ASSUME NEW F, NEW R, NEW lo, NEW up, NEW m, NEW f, NEW w, Laid(m, F, R, lo, up, f, w)
  PROVE  /\ Mapped(m, F, R, lo, up) /\ m \in Memories(F) /\ lo \in Nat /\ up \in Nat
         /\ f \in Nat /\ w \in Seq(F.values) /\ Len(w) \in Nat
         /\ Within(F, lo, up, f, f + Len(w)) /\ f + Len(w) \in Nat
<1>1. /\ Mapped(m, F, R, lo, up) /\ w \in Seq(F.values) /\ Within(F, lo, up, f, f + Len(w))
  BY DEF Laid
<1>2. m \in Memories(F) /\ lo \in Nat /\ up \in Nat
  BY <1>1 DEF Mapped
<1>3. f \in Nat /\ f + Len(w) \in Nat
  BY <1>1 DEF Within
<1>4. QED
  BY <1>1, <1>2, <1>3

\* Where the sequence is, elements are.
LEMMA LaidRange ==
  ASSUME NEW F, Framed(F), NEW R, NEW lo, NEW up, NEW m, NEW f, NEW w, Laid(m, F, R, lo, up, f, w),
         NEW a \in Nat, NEW b \in Nat, a <= b, b <= Len(w),
         NEW from \in Nat, NEW to \in Nat, from = f + a, to = f + b
  PROVE  Within(F, lo, up, from, to) /\ NotRaw(m, F, from, to)
<1>1. /\ lo \in Nat /\ up \in Nat /\ f \in Nat /\ w \in Seq(F.values) /\ Len(w) \in Nat
      /\ Within(F, lo, up, f, f + Len(w))
  BY LaidParts
<1>2. PICK end \in Nat : end = f + Len(w)
  BY <1>1
<1>3. from \in Nat /\ to \in Nat /\ f <= from /\ from <= to /\ to <= end
  BY <1>1, <1>2
<1>4. Within(F, lo, up, f, end)
  BY <1>1, <1>2
<1>5. Within(F, lo, up, from, end) /\ from <= end
  BY <1>1, <1>2, <1>3, <1>4, RangeParts
<1>6. Within(F, lo, up, from, to)
  BY <1>1, <1>2, <1>3, <1>5, RangeParts
<1>7. ASSUME NEW p \in Nat, from <= p, p < to PROVE Held(m, F, p) # Raw
  <2>1. p \in Positions(F, lo, up)
    BY <1>1, <1>6, <1>7, InRange
  <2>2. f <= p /\ p < f + Len(w) /\ p - f + 1 \in 1 .. Len(w)
    BY <1>1, <1>2, <1>3, <1>7
  <2>3. Held(m, F, p) = w[p - f + 1]
    BY <2>1, <2>2 DEF Laid
  <2>4. w[p - f + 1] \in F.values
    BY <1>1, <2>2
  <2>5. QED
    BY <2>3, <2>4 DEF Framed
<1>8. QED
  BY <1>6, <1>7 DEF NotRaw

\* Behind the sequence and before it there are raw cells.
LEMMA LaidRaw ==
  ASSUME NEW F, Framed(F), NEW R, NEW lo, NEW up, NEW m, NEW f, NEW w, Laid(m, F, R, lo, up, f, w),
         NEW from, NEW to, Within(F, lo, up, from, to), to <= f \/ f + Len(w) <= from
  PROVE  IsRaw(m, F, from, to)
<1>1. /\ lo \in Nat /\ up \in Nat /\ f \in Nat /\ Len(w) \in Nat /\ from \in Nat /\ to \in Nat
  BY LaidParts, WithinParts
<1>2. ASSUME NEW p \in Nat, from <= p, p < to PROVE Held(m, F, p) = Raw
  <2>1. p \in Positions(F, lo, up)
    BY <1>1, <1>2, InRange
  <2>2. ~ (f <= p /\ p < f + Len(w))
    BY <1>1, <1>2
  <2>3. QED
    BY <2>1, <2>2 DEF Laid
<1>3. QED
  BY <1>2 DEF IsRaw

\* Reading a part of it gives that part.
LEMMA LaidRead ==
  ASSUME NEW F, Framed(F), NEW R, NEW lo, NEW up, NEW m, NEW f, NEW w, Laid(m, F, R, lo, up, f, w),
         NEW a \in Nat, NEW b \in Nat, a <= b, b <= Len(w),
         NEW from \in Nat, NEW to \in Nat, from = f + a, to = f + b
  PROVE  Elems(m, from, to) = Piece(w, a, b)
<1>1. /\ Mapped(m, F, R, lo, up) /\ lo \in Nat /\ up \in Nat /\ f \in Nat /\ w \in Seq(F.values)
      /\ Len(w) \in Nat
  BY LaidParts
<1>2. Within(F, lo, up, from, to) /\ from \in Nat /\ to \in Nat
  <2>1. Within(F, lo, up, from, to)
    BY LaidRange
  <2>2. QED
    BY <2>1, WithinParts
<1>a. /\ Elems(m, from, to) \in Seq(Cellular(F.values)) /\ Len(Elems(m, from, to)) = to - from
      /\ \A j \in 1 .. to - from : Elems(m, from, to)[j] = Held(m, F, from + j - 1)
  <2> HIDE DEF Within, Elems, Mapped
  <2>1. QED
    BY <1>1, <1>2, ReadDoes
<1> DEFINE e == Elems(m, from, to)
           v == Piece(w, a, b)
<1>3. /\ e \in Seq(Cellular(F.values)) /\ Len(e) = to - from
      /\ \A j \in 1 .. to - from : e[j] = Held(m, F, from + j - 1)
  BY <1>a
<1>4. /\ v \in Seq(F.values) /\ Len(v) = b - a /\ \A j \in 1 .. b - a : v[j] = w[a + j]
  <2>1. w \in Seq(F.values)
    BY <1>1
  <2>2. QED
    BY <2>1, PieceAre
<1> HIDE DEF e, v
<1>5. to - from = b - a /\ to - from \in Nat
  BY <1>1
<1>6. ASSUME NEW j \in 1 .. b - a PROVE e[j] = v[j]
  <2>1. PICK p \in Nat : p = from + j - 1 /\ from <= p /\ p < to
    BY <1>2, <1>5
  <2>2. p \in Positions(F, lo, up)
    BY <1>1, <1>2, <2>1, InRange
  <2>3. f <= p /\ p < f + Len(w) /\ p - f + 1 = a + j
    BY <1>1, <1>2, <1>5, <2>1
  <2>4. Held(m, F, p) = w[a + j]
    BY <2>2, <2>3 DEF Laid
  <2>5. e[j] = Held(m, F, p)
    BY <1>3, <1>5, <2>1
  <2>6. QED
    BY <1>4, <2>4, <2>5
<1>7. e = v
  <2>1. v \in Seq(Cellular(F.values))
    <3>1. F.values \subseteq Cellular(F.values)
      BY DEF Cellular
    <3>2. QED
      BY <1>4, <3>1, WiderSequences
  <2>2. Len(e) = Len(v) /\ \A j \in 1 .. Len(v) : e[j] = v[j]
    BY <1>3, <1>4, <1>5, <1>6
  <2>3. QED
    BY <1>3, <2>1, <2>2
<1>8. QED
  BY <1>7 DEF e, v

\* What differs nowhere holds the same.
LEMMA LaidSame ==
  ASSUME NEW F, Framed(F), NEW R, NEW lo, NEW up, NEW m, NEW f, NEW w, Laid(m, F, R, lo, up, f, w),
         NEW r, NEW from, from \in Nat, Changed(r, m, F, R, lo, up, from, << >>)
  PROVE  Laid(r, F, R, lo, up, f, w)
<1>1. Mapped(r, F, R, lo, up)
  BY DEF Changed
<1>2. ASSUME NEW p \in Positions(F, lo, up) PROVE Held(r, F, p) = Held(m, F, p)
  <2>1. ~ (from <= p /\ p < from + Len(<< >>))
    BY DEF Positions
  <2>2. QED
    BY <2>1 DEF Changed
<1>3. QED
  BY <1>1, <1>2 DEF Laid

\* Writing over a part of it
LEMMA LaidOver ==
  ASSUME NEW F, Framed(F), NEW R, NEW lo, NEW up, NEW m, NEW f, NEW w, Laid(m, F, R, lo, up, f, w),
         NEW a \in Nat, NEW values \in Seq(F.values), a + Len(values) <= Len(w),
         NEW r, NEW from, from = f + a, Changed(r, m, F, R, lo, up, from, values)
  PROVE  Laid(r, F, R, lo, up, f, Over(w, a, values))
<1>1. /\ lo \in Nat /\ up \in Nat /\ f \in Nat /\ w \in Seq(F.values) /\ Len(w) \in Nat
      /\ Within(F, lo, up, f, f + Len(w)) /\ Len(values) \in Nat
  BY LaidParts
<1>2. Mapped(r, F, R, lo, up)
  BY DEF Changed
<1> DEFINE v == Over(w, a, values)
<1>3. /\ v \in Seq(F.values) /\ Len(v) = Len(w)
      /\ \A i \in 1 .. Len(w) : v[i] = IF a < i /\ i <= a + Len(values) THEN values[i - a] ELSE w[i]
  BY <1>1, OverAre
<1> HIDE DEF v
<1>4. ASSUME NEW p \in Positions(F, lo, up)
      PROVE  Held(r, F, p) = IF f <= p /\ p < f + Len(v) THEN v[p - f + 1] ELSE Raw
  <2>0. p \in Nat
    BY DEF Positions
  <2>1. /\ Held(r, F, p) = IF from <= p /\ p < from + Len(values) THEN values[p - from + 1] ELSE Held(m, F, p)
        /\ Held(m, F, p) = IF f <= p /\ p < f + Len(w) THEN w[p - f + 1] ELSE Raw
    BY DEF Changed, Laid
  <2>2. CASE f <= p /\ p < f + Len(w)
    <3>1. PICK i \in 1 .. Len(w) : i = p - f + 1
      BY <1>1, <2>0, <2>2
    <3>2. /\ (from <= p /\ p < from + Len(values)) <=> (a < i /\ i <= a + Len(values))
          /\ p - from + 1 = i - a
      BY <1>1, <2>0, <3>1
    <3>3. QED
      BY <1>3, <2>1, <2>2, <3>1, <3>2
  <2>3. CASE ~ (f <= p /\ p < f + Len(w))
    <3>1. ~ (from <= p /\ p < from + Len(values))
      BY <1>1, <2>0, <2>3
    <3>2. QED
      BY <1>3, <2>1, <2>3, <3>1
  <2>4. QED
    BY <2>2, <2>3
<1>5. Within(F, lo, up, f, f + Len(v))
  BY <1>1, <1>3
<1>6. QED
  BY <1>2, <1>3, <1>4, <1>5 DEF Laid, v

\* Writing behind it
LEMMA LaidBehind ==
  ASSUME NEW F, Framed(F), NEW R, NEW lo, NEW up, NEW m, NEW f, NEW w, Laid(m, F, R, lo, up, f, w),
         NEW values \in Seq(F.values), NEW from, NEW to, from = f + Len(w), to = from + Len(values),
         Within(F, lo, up, from, to),
         NEW r, Changed(r, m, F, R, lo, up, from, values)
  PROVE  Laid(r, F, R, lo, up, f, w \o values)
<1>1. /\ lo \in Nat /\ up \in Nat /\ f \in Nat /\ w \in Seq(F.values) /\ Len(w) \in Nat
      /\ Within(F, lo, up, f, from) /\ Len(values) \in Nat /\ from \in Nat /\ to \in Nat
  BY LaidParts
<1>2. Mapped(r, F, R, lo, up)
  BY DEF Changed
<1> DEFINE v == w \o values
<1>a. Joined(v, F.values, w, values)
  BY <1>1, JoinedAre
<1> HIDE DEF v
<1>3. /\ v \in Seq(F.values) /\ Len(v) = Len(w) + Len(values)
      /\ \A i \in 1 .. Len(w) : v[i] = w[i]
  BY <1>a DEF Joined
<1>b. \A j \in 1 .. Len(values) : v[Len(w) + j] = values[j]
  BY <1>a DEF Joined
<1>4. ASSUME NEW p \in Positions(F, lo, up)
      PROVE  Held(r, F, p) = IF f <= p /\ p < f + Len(v) THEN v[p - f + 1] ELSE Raw
  <2>0. p \in Nat
    BY DEF Positions
  <2>1. /\ Held(r, F, p) = IF from <= p /\ p < from + Len(values) THEN values[p - from + 1] ELSE Held(m, F, p)
        /\ Held(m, F, p) = IF f <= p /\ p < f + Len(w) THEN w[p - f + 1] ELSE Raw
    BY DEF Changed, Laid
  <2>2. CASE f <= p /\ p < f + Len(w)
    <3>1. ~ (from <= p /\ p < from + Len(values)) /\ p < f + Len(v) /\ p - f + 1 \in 1 .. Len(w)
      BY <1>1, <1>3, <2>0, <2>2
    <3>2. QED
      BY <1>3, <2>1, <2>2, <3>1
  <2>3. CASE from <= p /\ p < from + Len(values)
    <3>0. p - from + 1 \in 1 .. Len(values) /\ p - f + 1 = Len(w) + (p - from + 1)
      BY <1>1, <2>0, <2>3
    <3>1. PICK j \in 1 .. Len(values) : j = p - from + 1 /\ p - f + 1 = Len(w) + j
      BY <3>0
    <3>2. f <= p /\ p < f + Len(v)
      BY <1>1, <1>3, <2>0, <2>3
    <3>3. QED
      BY <1>b, <2>1, <2>3, <3>1, <3>2
  <2>4. CASE ~ (f <= p /\ p < f + Len(w)) /\ ~ (from <= p /\ p < from + Len(values))
    <3>1. ~ (f <= p /\ p < f + Len(v))
      BY <1>1, <1>3, <2>0, <2>4
    <3>2. QED
      BY <2>1, <2>4, <3>1
  <2>5. QED
    BY <2>2, <2>3, <2>4
<1>5. Within(F, lo, up, f, f + Len(v))
  <2>1. f + Len(v) = to /\ f <= to
    BY <1>1, <1>3
  <2>2. Within(F, lo, up, f, to)
    BY <1>1, <2>1 DEF Within
  <2>3. QED
    BY <2>1, <2>2
<1>6. QED
  BY <1>2, <1>3, <1>4, <1>5 DEF Laid, v

\* Writing before it
LEMMA LaidBefore ==
  ASSUME NEW F, Framed(F), NEW R, NEW lo, NEW up, NEW m, NEW f, NEW w, Laid(m, F, R, lo, up, f, w),
         NEW values \in Seq(F.values), NEW from, from + Len(values) = f,
         Within(F, lo, up, from, f),
         NEW r, Changed(r, m, F, R, lo, up, from, values)
  PROVE  Laid(r, F, R, lo, up, from, values \o w)
<1>1. /\ lo \in Nat /\ up \in Nat /\ f \in Nat /\ w \in Seq(F.values) /\ Len(w) \in Nat
      /\ Within(F, lo, up, f, f + Len(w)) /\ Len(values) \in Nat /\ from \in Nat
  BY LaidParts, WithinParts
<1>2. Mapped(r, F, R, lo, up)
  BY DEF Changed
<1> DEFINE v == values \o w
<1>a. Joined(v, F.values, values, w)
  BY <1>1, JoinedAre
<1> HIDE DEF v
<1>3. /\ v \in Seq(F.values) /\ Len(v) = Len(values) + Len(w)
      /\ \A j \in 1 .. Len(values) : v[j] = values[j]
  BY <1>a DEF Joined
<1>b. \A i \in 1 .. Len(w) : v[Len(values) + i] = w[i]
  BY <1>a DEF Joined
<1>4. ASSUME NEW p \in Positions(F, lo, up)
      PROVE  Held(r, F, p) = IF from <= p /\ p < from + Len(v) THEN v[p - from + 1] ELSE Raw
  <2>0. p \in Nat
    BY DEF Positions
  <2>1. /\ Held(r, F, p) = IF from <= p /\ p < from + Len(values) THEN values[p - from + 1] ELSE Held(m, F, p)
        /\ Held(m, F, p) = IF f <= p /\ p < f + Len(w) THEN w[p - f + 1] ELSE Raw
    BY DEF Changed, Laid
  <2>2. CASE f <= p /\ p < f + Len(w)
    <3>1. PICK i \in 1 .. Len(w) : i = p - f + 1 /\ p - from + 1 = Len(values) + i
      BY <1>1, <2>0, <2>2
    <3>2. ~ (from <= p /\ p < from + Len(values)) /\ from <= p /\ p < from + Len(v)
      BY <1>1, <1>3, <2>0, <2>2
    <3>3. QED
      BY <1>b, <2>1, <2>2, <3>1, <3>2
  <2>3. CASE from <= p /\ p < from + Len(values)
    <3>1. p - from + 1 \in 1 .. Len(values) /\ p < from + Len(v)
      BY <1>1, <1>3, <2>0, <2>3
    <3>2. QED
      BY <1>3, <2>1, <2>3, <3>1
  <2>4. CASE ~ (f <= p /\ p < f + Len(w)) /\ ~ (from <= p /\ p < from + Len(values))
    <3>1. ~ (from <= p /\ p < from + Len(v))
      BY <1>1, <1>3, <2>0, <2>4
    <3>2. QED
      BY <2>1, <2>4, <3>1
  <2>5. QED
    BY <2>2, <2>3, <2>4
<1>5. Within(F, lo, up, from, from + Len(v))
  <2>0. f + Len(w) \in Nat /\ from + Len(v) = f + Len(w) /\ from <= f + Len(w)
    BY <1>1, <1>3
  <2>1. PICK end \in Nat : end = f + Len(w) /\ from + Len(v) = end /\ from <= end
    BY <2>0
  <2>2. Within(F, lo, up, from, end)
    BY <1>1, <2>1 DEF Within
  <2>3. QED
    BY <2>1, <2>2
<1>6. QED
  BY <1>2, <1>3, <1>4, <1>5 DEF Laid, v
\* Leaving the first ones
LEMMA LaidFirst ==
  ASSUME NEW F, Framed(F), NEW R, NEW lo, NEW up, NEW m, NEW f, NEW w, Laid(m, F, R, lo, up, f, w),
         NEW k \in Nat, k <= Len(w), NEW from \in Nat, NEW to \in Nat, from = f + k, to = f + Len(w),
         NEW none, Len(none) = to - from, \A j \in 1 .. to - from : none[j] = Raw,
         NEW r, Changed(r, m, F, R, lo, up, from, none)
  PROVE  Laid(r, F, R, lo, up, f, Piece(w, 0, k))
<1>1. /\ lo \in Nat /\ up \in Nat /\ f \in Nat /\ w \in Seq(F.values) /\ Len(w) \in Nat
      /\ Within(F, lo, up, f, f + Len(w))
  BY LaidParts
<1>2. Mapped(r, F, R, lo, up)
  BY DEF Changed
<1> DEFINE v == Piece(w, 0, k)
<1>3. v \in Seq(F.values) /\ Len(v) = k /\ \A j \in 1 .. k : v[j] = w[j]
  <2>1. w \in Seq(F.values) /\ 0 \in Nat /\ 0 <= k
    BY <1>1
  <2>2. v \in Seq(F.values) /\ Len(v) = k - 0 /\ \A j \in 1 .. k - 0 : v[j] = w[0 + j]
    BY <2>1, PieceAre
  <2> HIDE DEF v
  <2>3. QED
    BY <2>2
<1> HIDE DEF v
<1>4. ASSUME NEW p \in Positions(F, lo, up)
      PROVE  Held(r, F, p) = IF f <= p /\ p < f + Len(v) THEN v[p - f + 1] ELSE Raw
  <2>0. p \in Nat
    BY DEF Positions
  <2>1. /\ Held(r, F, p) = IF from <= p /\ p < from + Len(none) THEN none[p - from + 1] ELSE Held(m, F, p)
        /\ Held(m, F, p) = IF f <= p /\ p < f + Len(w) THEN w[p - f + 1] ELSE Raw
    BY DEF Changed, Laid
  <2>2. CASE f <= p /\ p < f + k
    <3>1. ~ (from <= p /\ p < from + Len(none)) /\ p < f + Len(w) /\ p - f + 1 \in 1 .. k
      BY <1>1, <2>0, <2>2
    <3>2. QED
      BY <1>3, <2>1, <2>2, <3>1
  <2>3. CASE from <= p /\ p < to
    <3>0. from <= to /\ from + (to - from) = to
      BY <1>1
    <3>a. p < from + Len(none)
      BY <2>3, <3>0
    <3>b. p - from + 1 \in 1 .. to - from /\ ~ (f <= p /\ p < f + Len(v))
      BY <1>1, <1>3, <2>0, <2>3
    <3>1. /\ p - from + 1 \in 1 .. to - from /\ p < from + Len(none)
          /\ ~ (f <= p /\ p < f + Len(v))
      BY <3>a, <3>b
    <3>2. QED
      BY <2>1, <2>3, <3>1
  <2>4. CASE ~ (f <= p /\ p < f + k) /\ ~ (from <= p /\ p < to)
    <3>1. /\ ~ (f <= p /\ p < f + Len(v)) /\ ~ (from <= p /\ p < from + Len(none))
          /\ ~ (f <= p /\ p < f + Len(w))
      BY <1>1, <1>3, <2>0, <2>4
    <3>2. QED
      BY <2>1, <3>1
  <2>5. QED
    BY <2>2, <2>3, <2>4
<1>5. Within(F, lo, up, f, f + Len(v))
  <2>1. f + Len(v) = from /\ f <= from /\ from <= to
    BY <1>1, <1>3
  <2>2. Within(F, lo, up, f, to)
    BY <1>1
  <2>3. Within(F, lo, up, f, from)
    BY <1>1, <2>1, <2>2, RangeParts
  <2>4. QED
    BY <2>1, <2>3
<1>6. QED
  BY <1>2, <1>3, <1>4, <1>5 DEF Laid, v

\* Leaving the last ones
LEMMA LaidLast ==
  ASSUME NEW F, Framed(F), NEW R, NEW lo, NEW up, NEW m, NEW f, NEW w, Laid(m, F, R, lo, up, f, w),
         NEW k \in Nat, k <= Len(w), NEW to \in Nat, to = f + k,
         NEW none, Len(none) = k, \A j \in 1 .. k : none[j] = Raw,
         NEW r, Changed(r, m, F, R, lo, up, f, none)
  PROVE  Laid(r, F, R, lo, up, to, Piece(w, k, Len(w)))
<1>1. /\ lo \in Nat /\ up \in Nat /\ f \in Nat /\ w \in Seq(F.values) /\ Len(w) \in Nat
      /\ Within(F, lo, up, f, f + Len(w))
  BY LaidParts
<1>2. Mapped(r, F, R, lo, up)
  BY DEF Changed
<1> DEFINE v == Piece(w, k, Len(w))
<1>3. v \in Seq(F.values) /\ Len(v) = Len(w) - k /\ \A j \in 1 .. Len(w) - k : v[j] = w[k + j]
  <2>1. PICK n \in Nat : n = Len(w)
    BY <1>1
  <2>2. w \in Seq(F.values) /\ k <= n /\ n <= Len(w)
    BY <1>1, <2>1
  <2>3. /\ Piece(w, k, n) \in Seq(F.values) /\ Len(Piece(w, k, n)) = n - k
        /\ \A j \in 1 .. n - k : Piece(w, k, n)[j] = w[k + j]
    BY <2>2, PieceAre
  <2>4. QED
    BY <2>1, <2>3
<1> HIDE DEF v
<1>4. ASSUME NEW p \in Positions(F, lo, up)
      PROVE  Held(r, F, p) = IF to <= p /\ p < to + Len(v) THEN v[p - to + 1] ELSE Raw
  <2>0. p \in Nat
    BY DEF Positions
  <2>1. /\ Held(r, F, p) = IF f <= p /\ p < f + Len(none) THEN none[p - f + 1] ELSE Held(m, F, p)
        /\ Held(m, F, p) = IF f <= p /\ p < f + Len(w) THEN w[p - f + 1] ELSE Raw
    BY DEF Changed, Laid
  <2>2. CASE to <= p /\ p < f + Len(w)
    <3>1. /\ ~ (f <= p /\ p < f + Len(none)) /\ f <= p /\ p - to + 1 \in 1 .. Len(w) - k
          /\ p < to + Len(v) /\ p - f + 1 = k + (p - to + 1)
      BY <1>1, <1>3, <2>0, <2>2
    <3>2. v[p - to + 1] = w[k + (p - to + 1)]
      BY <1>3, <3>1
    <3>3. QED
      BY <2>1, <2>2, <3>1, <3>2
  <2>3. CASE f <= p /\ p < to
    <3>1. p - f + 1 \in 1 .. k /\ p < f + Len(none) /\ ~ (to <= p)
      BY <1>1, <1>3, <2>0, <2>3
    <3>2. QED
      BY <2>1, <2>3, <3>1
  <2>4. CASE ~ (to <= p /\ p < f + Len(w)) /\ ~ (f <= p /\ p < to)
    <3>1. /\ ~ (to <= p /\ p < to + Len(v)) /\ ~ (f <= p /\ p < f + Len(none))
          /\ ~ (f <= p /\ p < f + Len(w))
      BY <1>1, <1>3, <2>0, <2>4
    <3>2. QED
      BY <2>1, <3>1
  <2>5. QED
    BY <2>2, <2>3, <2>4
<1>5. Within(F, lo, up, to, to + Len(v))
  <2>1. PICK end \in Nat : end = f + Len(w)
    BY <1>1
  <2>2. to + Len(v) = end /\ f <= to /\ to <= end
    BY <1>1, <1>3, <2>1
  <2>3. Within(F, lo, up, f, end)
    BY <1>1, <2>1
  <2>4. Within(F, lo, up, to, end)
    BY <1>1, <2>2, <2>3, RangeParts
  <2>5. QED
    BY <2>2, <2>4
<1>6. QED
  BY <1>2, <1>3, <1>4, <1>5 DEF Laid, v

-----------------------------------------------------------------------------
(* Steps on the elements                                                    *)

\* The iterators and the nodes of another map are as they were.
Kept(r, m, R) == SameIterators(r, m) /\ \A b \in R : r.mem[b] = m.mem[b]

\* uninitialized_copy behind the elements
LEMMA BehindDoes ==
  ASSUME NEW F, Framed(F), NEW R, NEW lo, NEW up, NEW m, NEW f, NEW w, Laid(m, F, R, lo, up, f, w),
         ~ m.threw, NEW values \in Seq(F.values), NEW from \in Nat, NEW to \in Nat,
         from = f + Len(w), to = from + Len(values), Within(F, lo, up, from, to),
         NEW r, r = UninitializedCopy(m, values, At(m, from, to))
  PROVE  /\ Kept(r, m, R)
         /\ ~ r.threw => Laid(r, F, R, lo, up, f, w \o values)
         /\ r.threw => Laid(r, F, R, lo, up, f, w)
<1>1. Mapped(m, F, R, lo, up) /\ lo \in Nat /\ up \in Nat /\ Len(values) \in Nat
  BY LaidParts
<1>2. IsRaw(m, F, from, to)
  BY LaidRaw
<1>3. Fit(values, F.values, from, to)
  BY <1>1 DEF Fit
<1>4. /\ ~ r.threw => Changed(r, m, F, R, lo, up, from, values)
      /\ r.threw => Changed(r, m, F, R, lo, up, from, << >>)
  BY <1>1, <1>2, <1>3, UninitializedDoes
<1>5. ASSUME ~ r.threw PROVE Laid(r, F, R, lo, up, f, w \o values)
  BY <1>4, <1>5, LaidBehind
<1>6. ASSUME r.threw PROVE Laid(r, F, R, lo, up, f, w)
  BY <1>4, <1>6, LaidSame
<1>7. Kept(r, m, R)
  BY <1>4 DEF Kept, Changed
<1>8. QED
  BY <1>5, <1>6, <1>7

\* uninitialized_copy before the elements
LEMMA BeforeDoes ==
  ASSUME NEW F, Framed(F), NEW R, NEW lo, NEW up, NEW m, NEW f \in Nat, NEW w, Laid(m, F, R, lo, up, f, w),
         ~ m.threw, NEW values \in Seq(F.values), NEW from \in Nat,
         from + Len(values) = f, Within(F, lo, up, from, f),
         NEW r, r = UninitializedCopy(m, values, At(m, from, f))
  PROVE  /\ Kept(r, m, R)
         /\ ~ r.threw => Laid(r, F, R, lo, up, from, values \o w)
         /\ r.threw => Laid(r, F, R, lo, up, f, w)
<1>1. Mapped(m, F, R, lo, up) /\ lo \in Nat /\ up \in Nat /\ Len(values) \in Nat
  BY LaidParts
<1>2. IsRaw(m, F, from, f)
  BY LaidRaw
<1>3. Fit(values, F.values, from, f)
  BY <1>1 DEF Fit
<1>4. /\ ~ r.threw => Changed(r, m, F, R, lo, up, from, values)
      /\ r.threw => Changed(r, m, F, R, lo, up, from, << >>)
  BY <1>1, <1>2, <1>3, UninitializedDoes
<1>5. ASSUME ~ r.threw PROVE Laid(r, F, R, lo, up, from, values \o w)
  BY <1>4, <1>5, LaidBefore
<1>6. ASSUME r.threw PROVE Laid(r, F, R, lo, up, f, w)
  BY <1>4, <1>6, LaidSame
<1>7. Kept(r, m, R)
  BY <1>4 DEF Kept, Changed
<1>8. QED
  BY <1>5, <1>6, <1>7

\* Assigning to some of the elements, and counting more of it than was done
LEMMA SomeAssigned ==
  ASSUME NEW F, Framed(F), NEW R, NEW lo, NEW up, NEW m, NEW f, NEW w, Laid(m, F, R, lo, up, f, w),
         NEW a \in Nat, NEW values \in Seq(F.values), a + Len(values) <= Len(w),
         NEW from \in Nat, NEW to \in Nat, from = f + a, to = from + Len(values), NEW n \in Nat,
         NEW r, r = Spend(Assign(m, values, At(m, from, to)), n)
  PROVE  /\ Kept(r, m, R) /\ (r.threw <=> n > m.fuel)
         /\ Laid(r, F, R, lo, up, f, Over(w, a, values))
<1>1. Mapped(m, F, R, lo, up) /\ f \in Nat /\ Len(w) \in Nat /\ Len(values) \in Nat
  BY LaidParts
<1>2. Within(F, lo, up, from, to) /\ NotRaw(m, F, from, to)
  <2>1. PICK b \in Nat : b = a + Len(values)
    BY <1>1
  <2>2. a <= b /\ b <= Len(w) /\ to = f + b
    BY <1>1, <2>1
  <2>3. QED
    BY <2>2, LaidRange
<1>3. Fit(values, F.values, from, to) /\ Fit(values, Cellular(F.values), from, to)
  <2>1. Fit(values, F.values, from, to)
    BY <1>1 DEF Fit
  <2>2. QED
    BY <2>1, FitParts
<1> DEFINE s == Assign(m, values, At(m, from, to))
<1>4. s = Store(m, values, At(m, from, to))
  BY <1>1, <1>2, <1>3, AssignStores
<1>5. Changed(s, m, F, R, lo, up, from, values) /\ s \in Memories(F) /\ s.fuel = m.fuel
  BY <1>1, <1>2, <1>3, <1>4, StoreDoes
<1> HIDE DEF s
<1>6. /\ r \in Memories(F) /\ r.mem = s.mem /\ SameIterators(r, s) /\ (r.threw <=> n > s.fuel)
  <2>1. r = Spend(s, n)
    BY DEF s
  <2>2. s \in Memories(F)
    BY <1>5
  <2>3. /\ Spend(s, n) \in Memories(F) /\ Spend(s, n).mem = s.mem /\ SameIterators(Spend(s, n), s)
        /\ (Spend(s, n).threw <=> n > s.fuel)
    BY <2>2, SpendDoes
  <2>4. QED
    BY <2>1, <2>3
<1>7. Changed(r, m, F, R, lo, up, from, values)
  BY <1>5, <1>6, SameChanged
<1>8. Laid(r, F, R, lo, up, f, Over(w, a, values))
  BY <1>7, LaidOver
<1>9. Kept(r, m, R) /\ (r.threw <=> n > m.fuel)
  BY <1>5, <1>6, <1>7 DEF Kept, Changed
<1>10. QED
  BY <1>8, <1>9

\* The elements that assigning makes of w: values from a on, or others if it throws
Overlaid(r, F, R, lo, up, f, w, a, values) ==
    /\ ~ r.threw => Laid(r, F, R, lo, up, f, Over(w, a, values))
    /\ r.threw => \E v \in Seq(F.values) : Len(v) = Len(w) /\ Laid(r, F, R, lo, up, f, v)

\* copy over elements
LEMMA ForwardDoes ==
  ASSUME NEW F, Framed(F), NEW R, NEW lo, NEW up, NEW m, NEW f, NEW w, Laid(m, F, R, lo, up, f, w),
         ~ m.threw, NEW a \in Nat, NEW values \in Seq(F.values), a + Len(values) <= Len(w),
         NEW from \in Nat, NEW to \in Nat, from = f + a, to = from + Len(values),
         NEW r, r = CopyForward(m, values, At(m, from, to))
  PROVE  Kept(r, m, R) /\ Overlaid(r, F, R, lo, up, f, w, a, values)
<1>1. m \in Memories(F) /\ f \in Nat /\ w \in Seq(F.values) /\ Len(w) \in Nat /\ Len(values) \in Nat
  BY LaidParts
<1>2. m.fuel \in Nat
  BY <1>1, MemoryParts
<1> DEFINE k == Smaller(m.fuel, Len(values))
           v == First(values, m.fuel)
<1>3. k \in Nat /\ k <= Len(values) /\ to - from = Len(values) /\ from <= to
  BY <1>1, <1>2 DEF Smaller
<1>4. v \in Seq(F.values) /\ Len(v) = k /\ \A j \in 1 .. k : v[j] = values[j]
  BY <1>2, FirstAre
<1>5. PICK mid \in Nat : mid = from + k
  BY <1>3
<1>6. First(At(m, from, to), m.fuel) = At(m, from, mid) /\ Len(At(m, from, to)) = Len(values)
  <2>0. PICK n \in Nat : n = m.fuel
    BY <1>2
  <2>a. from <= to
    BY <1>3
  <2>b. First(At(m, from, to), n) = At(m, from, from + Smaller(n, to - from))
    BY <2>a, FirstAt
  <2>c. Len(At(m, from, to)) = to - from
    BY <2>a, AtAre
  <2>1. /\ First(At(m, from, to), m.fuel) = At(m, from, from + Smaller(m.fuel, to - from))
        /\ Len(At(m, from, to)) = to - from
    BY <2>0, <2>b, <2>c
  <2>2. QED
    BY <1>3, <1>5, <2>1
<1>7. r = Spend(Assign(m, v, At(m, from, mid)), Len(values))
  BY <1>6 DEF CopyForward
<1>a. a + k <= Len(w) /\ (Len(values) > m.fuel \/ k = Len(values))
  BY <1>1, <1>2, <1>3 DEF Smaller
<1> HIDE DEF k, v
<1>b. mid = from + Len(v) /\ a + Len(v) <= Len(w)
  BY <1>4, <1>5, <1>a
<1>8. /\ Kept(r, m, R) /\ (r.threw <=> Len(values) > m.fuel)
      /\ Laid(r, F, R, lo, up, f, Over(w, a, v))
  <2>1. v \in Seq(F.values) /\ Len(values) \in Nat
    BY <1>1, <1>4
  <2>2. QED
    BY <1>7, <1>b, <2>1, SomeAssigned
<1>9. ASSUME ~ r.threw PROVE v = values
  <2>1. k = Len(values)
    BY <1>8, <1>9, <1>a
  <2>2. Len(v) = Len(values) /\ \A j \in 1 .. Len(values) : v[j] = values[j]
    BY <1>4, <2>1
  <2>3. QED
    BY <1>4, <2>2
<1>10. Over(w, a, v) \in Seq(F.values) /\ Len(Over(w, a, v)) = Len(w)
  <2>1. PICK S : S = F.values
    OBVIOUS
  <2>2. w \in Seq(S) /\ v \in Seq(S) /\ a \in Nat /\ a + Len(v) <= Len(w)
    BY <1>1, <1>4, <1>a, <2>1
  <2>3. QED
    BY <2>1, <2>2, OverAre
<1>11. QED
  BY <1>8, <1>9, <1>10 DEF Overlaid

\* copy_backward over elements
LEMMA BackwardDoes ==
  ASSUME NEW F, Framed(F), NEW R, NEW lo, NEW up, NEW m, NEW f, NEW w, Laid(m, F, R, lo, up, f, w),
         ~ m.threw, NEW a \in Nat, NEW values \in Seq(F.values), a + Len(values) <= Len(w),
         NEW from \in Nat, NEW to \in Nat, from = f + a, to = from + Len(values),
         NEW r, r = CopyBackward(m, values, At(m, from, to))
  PROVE  Kept(r, m, R) /\ Overlaid(r, F, R, lo, up, f, w, a, values)
<1>1. m \in Memories(F) /\ f \in Nat /\ w \in Seq(F.values) /\ Len(w) \in Nat /\ Len(values) \in Nat
  BY LaidParts
<1>2. m.fuel \in Nat
  BY <1>1, MemoryParts
<1> DEFINE k == Smaller(m.fuel, Len(values))
           v == Last(values, m.fuel)
<1>3. k \in Nat /\ k <= Len(values) /\ to - from = Len(values) /\ from <= to
  BY <1>1, <1>2 DEF Smaller
<1>4. v \in Seq(F.values) /\ Len(v) = k /\ \A j \in 1 .. k : v[j] = values[Len(values) - k + j]
  BY <1>2, LastAre
<1>5. PICK mid \in Nat : mid = to - k
  BY <1>3
<1>6. Last(At(m, from, to), m.fuel) = At(m, mid, to) /\ Len(At(m, from, to)) = Len(values)
  <2>0. PICK n \in Nat : n = m.fuel
    BY <1>2
  <2>a. from <= to
    BY <1>3
  <2>b. Last(At(m, from, to), n) = At(m, to - Smaller(n, to - from), to)
    BY <2>a, LastAt
  <2>c. Len(At(m, from, to)) = to - from
    BY <2>a, AtAre
  <2>1. /\ Last(At(m, from, to), m.fuel) = At(m, to - Smaller(m.fuel, to - from), to)
        /\ Len(At(m, from, to)) = to - from
    BY <2>0, <2>b, <2>c
  <2>2. QED
    BY <1>3, <1>5, <2>1
<1>7. r = Spend(Assign(m, v, At(m, mid, to)), Len(values))
  BY <1>6 DEF CopyBackward
<1>a. Len(values) > m.fuel \/ k = Len(values)
  BY <1>1, <1>2 DEF Smaller
<1> HIDE DEF k, v
<1>b. PICK c \in Nat : c = a + (Len(values) - k)
  BY <1>1, <1>3
<1>c. mid = f + c /\ to = mid + Len(v) /\ c + Len(v) <= Len(w)
  BY <1>1, <1>3, <1>4, <1>5, <1>b
<1>8. /\ Kept(r, m, R) /\ (r.threw <=> Len(values) > m.fuel)
      /\ Laid(r, F, R, lo, up, f, Over(w, c, v))
  <2>1. v \in Seq(F.values) /\ Len(values) \in Nat
    BY <1>1, <1>4
  <2>2. QED
    BY <1>7, <1>c, <2>1, SomeAssigned
<1>9. ASSUME ~ r.threw PROVE v = values /\ c = a
  <2>1. k = Len(values)
    BY <1>8, <1>9, <1>a
  <2>2. c = a
    BY <1>1, <1>b, <2>1
  <2>3. Len(v) = Len(values) /\ \A j \in 1 .. Len(values) : v[j] = values[j]
    BY <1>1, <1>4, <2>1
  <2>4. v = values
    BY <1>4, <2>3
  <2>5. QED
    BY <2>2, <2>4
<1>10. Over(w, c, v) \in Seq(F.values) /\ Len(Over(w, c, v)) = Len(w)
  <2>1. PICK S : S = F.values
    OBVIOUS
  <2>2. w \in Seq(S) /\ v \in Seq(S) /\ c \in Nat /\ c + Len(v) <= Len(w)
    BY <1>1, <1>4, <1>c, <2>1
  <2>3. QED
    BY <2>1, <2>2, OverAre
<1>11. QED
  BY <1>8, <1>9, <1>10 DEF Overlaid

-----------------------------------------------------------------------------
(* Nodes that come and go                                                   *)

\* [lo2, up2) is [lo, up) and the nodes [from, to) before or behind it.
Beside(lo, up, from, to, lo2, up2) ==
    /\ from \in Nat /\ to \in Nat /\ from <= to /\ lo2 \in Nat /\ up2 \in Nat /\ lo2 <= up2
    /\ \/ to = lo /\ lo2 = from /\ up2 = up
       \/ from = up /\ lo2 = lo /\ up2 = to

\* What is kept while nodes come and go
NodesKept(r, m, R) ==
    /\ r.start = m.start /\ r.finish = m.finish /\ Len(r.map) = Len(m.map)
    /\ \A b \in R : r.mem[b] = m.mem[b]

\* The iterators, the next block and the exception are those of m.
SameEnds(r, m) ==
    r.start = m.start /\ r.finish = m.finish /\ r.next = m.next /\ r.threw = m.threw

\* The rows of [lo2, up2) are the old ones and the new ones.
LEMMA BesideRows ==
  ASSUME NEW lo \in Nat, NEW up \in Nat, lo <= up, NEW from, NEW to, NEW lo2, NEW up2,
         Beside(lo, up, from, to, lo2, up2)
  PROVE  \A i \in Nat : /\ (lo2 < i /\ i <= up2) <=> (lo < i /\ i <= up) \/ (from < i /\ i <= to)
                        /\ ~ ((lo < i /\ i <= up) /\ (from < i /\ i <= to))
BY DEF Beside

\* m with new nodes [from, to), which are the next blocks
Grown(r, m, F, from, to) ==
    /\ r \in Memories(F) /\ r.start = m.start /\ r.finish = m.finish
    /\ r.next = m.next + (to - from) /\ Len(r.map) = Len(m.map)
    /\ \A i \in 1 .. Len(m.map) :
         r.map[i] = IF from < i /\ i <= to THEN m.next + (i - 1 - from) ELSE m.map[i]
    /\ \A b \in 0 .. F.last :
         r.mem[b] = IF m.next <= b /\ b < m.next + (to - from) THEN Times(F.buf, Raw) ELSE m.mem[b]

\* New nodes are blocks that nothing else was.
LEMMA GrownMaps ==
  ASSUME NEW F, Framed(F), NEW R, NEW lo, NEW up, NEW m, Mapped(m, F, R, lo, up),
         NEW from, NEW to, NEW lo2, NEW up2, Beside(lo, up, from, to, lo2, up2), up2 <= Len(m.map),
         m.next + (to - from) <= F.last + 1, NEW r, Grown(r, m, F, from, to)
  PROVE  Mapped(r, F, R, lo2, up2) /\ NodesKept(r, m, R)
<1>1. /\ m \in Memories(F) /\ lo \in Nat /\ up \in Nat /\ lo <= up /\ R \subseteq 1 .. m.next - 1
      /\ \A i \in 1 .. Len(m.map) :
           IF lo < i /\ i <= up
           THEN m.map[i] \in 1 .. m.next - 1 /\ m.map[i] \notin R /\ Len(m.mem[m.map[i]]) = F.buf
           ELSE m.map[i] = 0
  BY DEF Mapped
<1>2. /\ from \in Nat /\ to \in Nat /\ from <= to /\ lo2 \in Nat /\ up2 \in Nat /\ lo2 <= up2
      /\ m.next \in Nat /\ 1 <= m.next /\ m.next <= F.last + 1 /\ F.last \in Nat /\ Len(m.map) \in Nat
      /\ F.buf \in Nat
  BY <1>1, MemoryParts DEF Beside
<1>3. /\ r \in Memories(F) /\ r.start = m.start /\ r.finish = m.finish
      /\ r.next = m.next + (to - from) /\ Len(r.map) = Len(m.map)
  BY DEF Grown
<1>4. \A i \in 1 .. Len(m.map) : 
         r.map[i] = IF from < i /\ i <= to THEN m.next + (i - 1 - from) ELSE m.map[i]
  BY DEF Grown
<1>5. \A b \in 0 .. F.last :
         r.mem[b] = IF m.next <= b /\ b < m.next + (to - from) THEN Times(F.buf, Raw) ELSE m.mem[b]
  BY DEF Grown
<1>6. PICK n \in Nat : n = to - from
  BY <1>2
<1>a. Len(Times(F.buf, Raw)) = F.buf
  BY <1>2 DEF Times
<1>7. ASSUME NEW i \in 1 .. Len(m.map), from < i, i <= to
      PROVE  /\ r.map[i] = m.next + (i - 1 - from) /\ r.map[i] \in m.next .. m.next + n - 1
             /\ r.map[i] \in 1 .. r.next - 1 /\ r.map[i] \notin R /\ Len(r.mem[r.map[i]]) = F.buf
  <2>1. r.map[i] = m.next + (i - 1 - from)
    BY <1>4, <1>7
  <2>2. PICK b \in Nat : b = r.map[i]
    BY <1>2, <1>7, <2>1
  <2>3. m.next <= b /\ b < m.next + n /\ b <= F.last
    BY <1>2, <1>6, <1>7, <2>1, <2>2
  <2>4. Len(r.mem[b]) = F.buf
    <3>1. b \in 0 .. F.last /\ b < m.next + (to - from)
      BY <1>2, <1>6, <2>3
    <3>2. r.mem[b] = Times(F.buf, Raw)
      BY <1>5, <2>3, <3>1
    <3>3. QED
      BY <1>a, <3>2
  <2>5. b \notin R
    BY <1>1, <1>2, <2>3
  <2>6. b \in 1 .. r.next - 1 /\ b \in m.next .. m.next + n - 1
    BY <1>2, <1>3, <1>6, <2>3
  <2>7. QED
    BY <2>1, <2>2, <2>4, <2>5, <2>6
<1>8. ASSUME NEW i \in 1 .. Len(m.map), lo < i, i <= up, ~ (from < i /\ i <= to)
      PROVE  /\ r.map[i] = m.map[i] /\ r.map[i] \in 1 .. m.next - 1 /\ r.map[i] \in 1 .. r.next - 1
             /\ r.map[i] \notin R /\ Len(r.mem[r.map[i]]) = F.buf
  <2>1. r.map[i] = m.map[i]
    BY <1>4, <1>8
  <2>2. PICK b \in Nat : b = m.map[i] /\ b \in 1 .. m.next - 1 /\ b \notin R /\ Len(m.mem[b]) = F.buf
    BY <1>1, <1>8
  <2>3. b \in 0 .. F.last /\ ~ (m.next <= b) /\ b \in 1 .. r.next - 1
    BY <1>2, <1>3, <2>2
  <2>4. r.mem[b] = m.mem[b]
    BY <1>5, <2>3
  <2>5. QED
    BY <2>1, <2>2, <2>3, <2>4
<1>9. \A i \in Nat : /\ (lo2 < i /\ i <= up2) <=> (lo < i /\ i <= up) \/ (from < i /\ i <= to)
                     /\ ~ ((lo < i /\ i <= up) /\ (from < i /\ i <= to))
  BY <1>1, BesideRows
<1>10. ASSUME NEW i \in 1 .. Len(m.map)
       PROVE  IF lo2 < i /\ i <= up2
              THEN r.map[i] \in 1 .. r.next - 1 /\ r.map[i] \notin R /\ Len(r.mem[r.map[i]]) = F.buf
              ELSE r.map[i] = 0
  <2>1. CASE from < i /\ i <= to
    BY <1>7, <1>9, <2>1
  <2>2. CASE lo < i /\ i <= up
    BY <1>8, <1>9, <2>2
  <2>3. CASE ~ (from < i /\ i <= to) /\ ~ (lo < i /\ i <= up)
    <3>1. ~ (lo2 < i /\ i <= up2) /\ m.map[i] = 0
      BY <1>1, <1>9, <2>3
    <3>2. QED
      BY <1>4, <2>3, <3>1
  <2>4. QED
    BY <2>1, <2>2, <2>3
<1>11. ASSUME NEW i \in lo2 + 1 .. up2, NEW j \in lo2 + 1 .. up2, r.map[i] = r.map[j] PROVE i = j
  <2>0. i \in 1 .. Len(m.map) /\ j \in 1 .. Len(m.map) /\ lo2 < i /\ i <= up2 /\ lo2 < j /\ j <= up2
    BY <1>2
  <2>a. i \in Nat /\ j \in Nat
    BY <1>2
  <2>1. CASE (from < i /\ i <= to) /\ (from < j /\ j <= to)
    <3>1. m.next + (i - 1 - from) = m.next + (j - 1 - from)
      BY <1>7, <1>11, <2>0, <2>1
    <3>2. QED
      BY <1>2, <2>a, <3>1
  <2>2. CASE (from < i /\ i <= to) /\ ~ (from < j /\ j <= to)
    <3>1. lo < j /\ j <= up
      BY <1>9, <2>0, <2>2, <2>a
    <3>2. r.map[j] \in 1 .. m.next - 1 /\ r.map[i] \in m.next .. m.next + n - 1
      BY <1>7, <1>8, <2>0, <2>2, <3>1
    <3>3. QED
      BY <1>2, <1>11, <3>2
  <2>3. CASE ~ (from < i /\ i <= to) /\ (from < j /\ j <= to)
    <3>1. lo < i /\ i <= up
      BY <1>9, <2>0, <2>3, <2>a
    <3>2. r.map[i] \in 1 .. m.next - 1 /\ r.map[j] \in m.next .. m.next + n - 1
      BY <1>7, <1>8, <2>0, <2>3, <3>1
    <3>3. QED
      BY <1>2, <1>11, <3>2
  <2>4. CASE ~ (from < i /\ i <= to) /\ ~ (from < j /\ j <= to)
    <3>1. lo < i /\ i <= up /\ lo < j /\ j <= up
      BY <1>9, <2>0, <2>4, <2>a
    <3>2. m.map[i] = m.map[j]
      BY <1>8, <1>11, <2>0, <2>4, <3>1
    <3>3. i \in lo + 1 .. up /\ j \in lo + 1 .. up
      BY <1>1, <2>a, <3>1
    <3>4. QED
      BY <3>2, <3>3 DEF Mapped
  <2>5. QED
    BY <2>1, <2>2, <2>3, <2>4
<1>12. ASSUME NEW b \in 0 .. F.last, b \notin R, \A i \in lo2 + 1 .. up2 : r.map[i] # b
       PROVE  r.mem[b] = << >>
  <2>1. ASSUME m.next <= b, b < m.next + (to - from) PROVE FALSE
    <3>0. PICK k \in Nat : k = b - m.next /\ b = m.next + k /\ k < to - from
      <4>1. b - m.next \in Nat /\ b = m.next + (b - m.next) /\ b - m.next < to - from
        BY <1>2, <2>1
      <4>2. QED
        BY <4>1
    <3>1. PICK i \in Nat : i = from + 1 + k
      BY <1>2
    <3>a. i - 1 - from = k
      BY <1>2, <3>1
    <3>b. from < i /\ i <= to
      <4>1. k < n /\ to = from + n
        BY <1>2, <1>6, <3>0
      <4>2. from < i /\ i <= from + n
        BY <1>2, <3>1, <4>1
      <4>3. QED
        BY <4>1, <4>2
    <3>c. m.next + (i - 1 - from) = b
      BY <3>0, <3>a
    <3>2. from < i /\ i <= to /\ m.next + (i - 1 - from) = b
      BY <3>b, <3>c
    <3>3. lo2 < i /\ i <= up2 /\ i \in lo2 + 1 .. up2 /\ i \in 1 .. Len(m.map)
      <4>1. lo2 < i /\ i <= up2
        BY <1>9, <3>2
      <4>2. QED
        BY <1>2, <4>1
    <3>4. r.map[i] = b
      BY <1>7, <3>2, <3>3
    <3>5. QED
      BY <1>12, <3>3, <3>4
  <2>2. r.mem[b] = m.mem[b]
    BY <1>5, <2>1
  <2>3. ASSUME NEW i \in lo + 1 .. up PROVE m.map[i] # b
    <3>1. i \in Nat /\ lo < i /\ i <= up
      BY <1>1
    <3>2. lo2 < i /\ i <= up2 /\ ~ (from < i /\ i <= to)
      BY <1>9, <3>1
    <3>3. i \in lo2 + 1 .. up2 /\ i \in 1 .. Len(m.map)
      BY <1>2, <3>1, <3>2
    <3>4. r.map[i] = m.map[i]
      BY <1>8, <3>1, <3>2, <3>3
    <3>5. QED
      BY <1>12, <3>3, <3>4
  <2>4. m.mem[b] = << >>
    BY <1>12, <2>3 DEF Mapped
  <2>5. QED
    BY <2>2, <2>4
<1>13. R \subseteq 1 .. r.next - 1
  <2>1. 1 .. m.next - 1 \subseteq 1 .. r.next - 1
    BY <1>2, <1>3
  <2>2. QED
    BY <1>1, <2>1
<1>14. \A b \in R : r.mem[b] = m.mem[b]
  <2>1. ASSUME NEW b \in R PROVE r.mem[b] = m.mem[b]
    <3>1. b \in 0 .. F.last /\ ~ (m.next <= b)
      BY <1>1, <1>2
    <3>2. QED
      BY <1>5, <3>1
  <2>2. QED
    BY <2>1
<1>15. NodesKept(r, m, R)
  BY <1>3, <1>14 DEF NodesKept
<1>16. Mapped(r, F, R, lo2, up2)
  BY <1>2, <1>3, <1>10, <1>11, <1>12, <1>13 DEF Mapped
<1>17. QED
  BY <1>15, <1>16

\* The new nodes are raw, and the sequence is where it was.
LEMMA GrownHolds ==
  ASSUME NEW F, Framed(F), NEW R, NEW lo, NEW up, NEW m, NEW f, NEW w, Laid(m, F, R, lo, up, f, w),
         NEW from, NEW to, NEW lo2, NEW up2, Beside(lo, up, from, to, lo2, up2), up2 <= Len(m.map),
         m.next + (to - from) <= F.last + 1, NEW r, Grown(r, m, F, from, to)
  PROVE  Laid(r, F, R, lo2, up2, f, w) /\ NodesKept(r, m, R)
<1>1. /\ Mapped(m, F, R, lo, up) /\ m \in Memories(F) /\ lo \in Nat /\ up \in Nat
      /\ f \in Nat /\ w \in Seq(F.values) /\ Len(w) \in Nat /\ Within(F, lo, up, f, f + Len(w))
  BY LaidParts
<1>2. /\ from \in Nat /\ to \in Nat /\ from <= to /\ lo2 \in Nat /\ up2 \in Nat /\ lo2 <= up2
      /\ m.next \in Nat /\ 1 <= m.next /\ F.last \in Nat /\ Len(m.map) \in Nat /\ F.buf \in Nat
  BY <1>1, MemoryParts DEF Beside
<1>3. Mapped(r, F, R, lo2, up2) /\ NodesKept(r, m, R)
  BY <1>1, GrownMaps
<1>4. \A i \in 1 .. Len(m.map) : 
         r.map[i] = IF from < i /\ i <= to THEN m.next + (i - 1 - from) ELSE m.map[i]
  BY DEF Grown
<1>5. \A b \in 0 .. F.last :
         r.mem[b] = IF m.next <= b /\ b < m.next + (to - from) THEN Times(F.buf, Raw) ELSE m.mem[b]
  BY DEF Grown
<1>6. lo <= up /\ \A i \in Nat : /\ (lo2 < i /\ i <= up2) <=> (lo < i /\ i <= up) \/ (from < i /\ i <= to)
                     /\ ~ ((lo < i /\ i <= up) /\ (from < i /\ i <= to))
  <2>1. lo <= up
    BY <1>1 DEF Mapped
  <2>2. QED
    BY <1>1, <2>1, BesideRows
<1>7. ASSUME NEW p \in Positions(F, lo2, up2)
      PROVE  Held(r, F, p) = IF f <= p /\ p < f + Len(w) THEN w[p - f + 1] ELSE Raw
  <2> DEFINE i == Row(F, p)
             c == Column(F, p)
  <2>0. p \in Nat
    BY DEF Positions
  <2>1. i \in Nat /\ c \in 1 .. F.buf /\ lo2 < i /\ i <= up2 /\ i \in 1 .. Len(m.map)
    <3>1. i \in Nat /\ 1 <= i /\ c \in 1 .. F.buf
      BY <2>0, PlaceIs
    <3>2. lo2 < i /\ i <= up2
      BY <1>2, <2>0, RowIs
    <3>3. QED
      BY <1>2, <3>1, <3>2
  <2>2. p \in Positions(F, lo, up) <=> lo < i /\ i <= up
    BY <1>1, <2>0, RowIs
  <2>3. Held(r, F, p) = r.mem[r.map[i]][c] /\ Held(m, F, p) = m.mem[m.map[i]][c]
    BY DEF Held
  <2> HIDE DEF i, c
  <2>4. CASE lo < i /\ i <= up
    <3>1. r.map[i] = m.map[i]
      BY <1>4, <1>6, <2>1, <2>4
    <3>2. PICK b \in Nat : b = m.map[i] /\ b \in 1 .. m.next - 1
      BY <1>1, <2>1, <2>4 DEF Mapped
    <3>3. b \in 0 .. F.last /\ ~ (m.next <= b)
      BY <1>2, <3>2
    <3>4. r.mem[b] = m.mem[b]
      BY <1>5, <3>3
    <3>5. Held(m, F, p) = IF f <= p /\ p < f + Len(w) THEN w[p - f + 1] ELSE Raw
      BY <2>2, <2>4 DEF Laid
    <3>6. QED
      BY <2>3, <3>1, <3>2, <3>4, <3>5
  <2>5. CASE ~ (lo < i /\ i <= up)
    <3>1. r.map[i] = m.next + (i - 1 - from) /\ from < i /\ i <= to
      BY <1>4, <1>6, <2>1, <2>5
    <3>2. PICK b \in Nat : b = r.map[i]
      BY <1>2, <2>1, <3>1
    <3>3. b \in 0 .. F.last /\ m.next <= b /\ b < m.next + (to - from)
      BY <1>2, <2>1, <3>1, <3>2
    <3>4. r.mem[b] = Times(F.buf, Raw)
      BY <1>5, <3>3
    <3>5. Held(r, F, p) = Raw
      <4>1. Times(F.buf, Raw)[c] = Raw
        BY <2>1 DEF Times
      <4>2. QED
        BY <2>3, <3>2, <3>4, <4>1
    <3>6. ~ (f <= p /\ p < f + Len(w))
      <4>1. PICK end \in Nat : end = f + Len(w)
        BY <1>1
      <4>2. Within(F, lo, up, f, end)
        BY <1>1, <4>1
      <4>3. f <= p /\ p < end => p \in Positions(F, lo, up)
        BY <1>1, <2>0, <4>2, InRange
      <4>4. QED
        BY <2>2, <2>5, <4>1, <4>3
    <3>7. QED
      BY <3>5, <3>6
  <2>6. QED
    BY <2>4, <2>5
<1>8. Within(F, lo2, up2, f, f + Len(w))
  <2>1. lo2 <= lo /\ up <= up2
    BY <1>1, <1>2, <1>6 DEF Beside
  <2>2. lo2 * F.buf <= lo * F.buf /\ up * F.buf <= up2 * F.buf
    BY <1>1, <1>2, <2>1, ProductGrows DEF Framed
  <2>3. lo2 * F.buf \in Nat /\ lo * F.buf \in Nat /\ up * F.buf \in Nat /\ up2 * F.buf \in Nat
    BY <1>1, <1>2, ProductGrows DEF Framed
  <2>4. PICK end \in Nat : end = f + Len(w)
    BY <1>1
  <2>5. lo * F.buf <= f /\ end <= up * F.buf /\ f <= end
    BY <1>1, <2>4 DEF Within
  <2>6. lo2 * F.buf <= f /\ end <= up2 * F.buf
    BY <1>1, <2>2, <2>3, <2>5
  <2>7. Within(F, lo2, up2, f, end)
    BY <1>1, <2>5, <2>6 DEF Within
  <2>8. QED
    BY <2>4, <2>7
<1>9. QED
  BY <1>1, <1>3, <1>7, <1>8 DEF Laid
\* _M_create_nodes, and the loops that allocate more nodes: all of them, or none if there
\* is no memory for one.
LEMMA NewNodesDoes ==
  ASSUME NEW F, Framed(F), NEW R, NEW lo, NEW up, NEW m, NEW f, NEW w, Laid(m, F, R, lo, up, f, w),
         ~ m.threw, NEW from, NEW to, NEW lo2, NEW up2, Beside(lo, up, from, to, lo2, up2),
         up2 <= Len(m.map), m.next + (to - from) <= F.last + 1, NEW r, r = NewNodes(m, from, to)
  PROVE  /\ NodesKept(r, m, R)
         /\ ~ r.threw => Laid(r, F, R, lo2, up2, f, w)
         /\ r.threw => Laid(r, F, R, lo, up, f, w) /\ Kept(r, m, R)
<1>1. /\ Mapped(m, F, R, lo, up) /\ m \in Memories(F)
  BY LaidParts
<1>2. /\ from \in Nat /\ to \in Nat /\ from <= to /\ to - from \in Nat /\ m.fuel \in Nat
      /\ m.next \in Nat /\ 1 <= m.next /\ F.last \in Nat /\ Len(m.map) \in Nat /\ F.buf \in Nat
      /\ m.mem \in [0 .. F.last -> Seq(Cellular(F.values))] /\ m.map \in Seq(0 .. F.last)
      /\ DOMAIN m.map = 1 .. Len(m.map) /\ m.buf = F.buf
  <2>1. from \in Nat /\ to \in Nat /\ from <= to /\ to - from \in Nat
    BY DEF Beside
  <2>2. /\ m.mem \in [0 .. F.last -> Seq(Cellular(F.values))]
        /\ m.map \in Seq(0 .. F.last) /\ Len(m.map) \in Nat /\ DOMAIN m.map = 1 .. Len(m.map)
        /\ m.buf = F.buf /\ F.buf \in Nat /\ F.last \in Nat
        /\ m.next \in Nat /\ 1 <= m.next /\ m.fuel \in Nat
    BY <1>1, MemoryParts
  <2>3. QED
    BY <2>1, <2>2
<1>3. PICK n \in Nat : n = to - from
  BY <1>2
<1> DEFINE s == Spend(m, n)
<1>4. /\ s \in Memories(F) /\ s.mem = m.mem /\ SameIterators(s, m) /\ (s.threw <=> n > m.fuel)
  BY <1>1, SpendDoes
<1>5. CASE m.fuel < n
  <2>1. r = s
    BY <1>3, <1>5 DEF NewNodes
  <2> HIDE DEF s
  <2>2. r.threw
    BY <1>2, <1>4, <1>5, <2>1
  <2>3. Mapped(r, F, R, lo, up) /\ \A p : Held(r, F, p) = Held(m, F, p)
    BY <1>1, <1>4, <2>1, SameMapped
  <2>4. Laid(r, F, R, lo, up, f, w)
    BY <2>3 DEF Laid
  <2>5. Kept(r, m, R) /\ NodesKept(r, m, R)
    BY <1>4, <2>1 DEF Kept, NodesKept, SameIterators
  <2>6. QED
    BY <2>2, <2>4, <2>5
<1>6. CASE ~ (m.fuel < n)
  <2> DEFINE Place(i) == IF i \in from + 1 .. to THEN m.next + (i - 1 - from) ELSE m.map[i]
             Block(b) == IF b \in m.next .. m.next + n - 1 THEN Times(F.buf, Raw) ELSE m.mem[b]
             map == [i \in 1 .. Len(m.map) |-> Place(i)]
             mem == [b \in 0 .. F.last |-> Block(b)]
             next == m.next + n
  <2>0. r = [s EXCEPT !.map = [i \in DOMAIN @ |-> IF i \in from + 1 .. to THEN m.next + (i - 1 - from) ELSE @[i]],
                      !.mem = [b \in DOMAIN @ |-> IF b \in m.next .. m.next + n - 1 THEN EmptyNode(m) ELSE @[b]],
                      !.next = @ + n]
    BY <1>3, <1>6 DEF NewNodes
  <2>1. r = [s EXCEPT !.map = map, !.mem = mem, !.next = next]
    <3>1. /\ s.map = m.map /\ s.mem = m.mem /\ s.next = m.next /\ DOMAIN m.map = 1 .. Len(m.map)
          /\ DOMAIN m.mem = 0 .. F.last /\ EmptyNode(m) = Times(F.buf, Raw)
      BY <1>2, <1>4 DEF SameIterators, EmptyNode
    <3> HIDE DEF s
    <3>2. QED
      BY <2>0, <3>1
  <2>2. ASSUME NEW i \in 1 .. Len(m.map)
        PROVE  /\ Place(i) \in 0 .. F.last
               /\ Place(i) = IF from < i /\ i <= to THEN m.next + (i - 1 - from) ELSE m.map[i]
    <3>1. i \in from + 1 .. to <=> from < i /\ i <= to
      BY <1>2
    <3>2. ASSUME from < i, i <= to PROVE m.next + (i - 1 - from) \in 0 .. F.last
      BY <1>2, <3>2
    <3>3. m.map[i] \in 0 .. F.last
      BY <1>2
    <3>4. QED
      BY <3>1, <3>2, <3>3
  <2>3. ASSUME NEW b \in 0 .. F.last
        PROVE  /\ Block(b) \in Seq(Cellular(F.values))
               /\ Block(b) = IF m.next <= b /\ b < m.next + n THEN Times(F.buf, Raw) ELSE m.mem[b]
    <3>1. b \in m.next .. m.next + n - 1 <=> m.next <= b /\ b < m.next + n
      BY <1>2
    <3>2. Times(F.buf, Raw) \in Seq(Cellular(F.values))
      BY <1>2 DEF Times, Cellular
    <3>3. m.mem[b] \in Seq(Cellular(F.values))
      BY <1>2
    <3>4. QED
      BY <3>1, <3>2, <3>3
  <2> HIDE DEF Place, Block
  <2>4. map \in Seq(0 .. F.last) /\ Len(map) = Len(m.map) /\ \A i \in 1 .. Len(m.map) : map[i] = Place(i)
    BY <1>2, <2>2
  <2>5. mem \in [0 .. F.last -> Seq(Cellular(F.values))] /\ \A b \in 0 .. F.last : mem[b] = Block(b)
    BY <2>3
  <2>6. next \in 1 .. F.last + 1
    BY <1>2, <1>3
  <2> HIDE DEF map, mem, next, s
  <2>7. /\ r \in Memories(F) /\ r.map = map /\ r.mem = mem /\ r.next = next /\ r.start = s.start
        /\ r.finish = s.finish /\ r.threw = s.threw
    BY <1>4, <2>1, <2>4, <2>5, <2>6 DEF Memories
  <2>8. Grown(r, m, F, from, to)
    <3>1. \A i \in 1 .. Len(m.map) :
            r.map[i] = IF from < i /\ i <= to THEN m.next + (i - 1 - from) ELSE m.map[i]
      BY <2>2, <2>4, <2>7
    <3>2. \A b \in 0 .. F.last :
            r.mem[b] = IF m.next <= b /\ b < m.next + (to - from) THEN Times(F.buf, Raw) ELSE m.mem[b]
      BY <1>3, <2>3, <2>5, <2>7
    <3>3. /\ r.start = m.start /\ r.finish = m.finish /\ r.next = m.next + (to - from)
          /\ Len(r.map) = Len(m.map)
      BY <1>3, <1>4, <2>4, <2>7 DEF SameIterators, next
    <3>4. QED
      BY <2>7, <3>1, <3>2, <3>3 DEF Grown
  <2>9. ~ r.threw
    BY <1>2, <1>4, <1>6, <2>7
  <2>10. Laid(r, F, R, lo2, up2, f, w) /\ NodesKept(r, m, R)
    BY <2>8, GrownHolds
  <2>11. QED
    BY <2>9, <2>10
<1>7. QED
  BY <1>5, <1>6
\* m without the nodes [from, to)
Shrunk(r, m, F, from, to) ==
    /\ r \in Memories(F) /\ SameEnds(r, m) /\ Len(r.map) = Len(m.map)
    /\ \A i \in 1 .. Len(m.map) : r.map[i] = IF from < i /\ i <= to THEN 0 ELSE m.map[i]
    /\ \A b \in 0 .. F.last :
         r.mem[b] = IF \E i \in from + 1 .. to : m.map[i] = b THEN << >> ELSE m.mem[b]

\* The other nodes and what they hold stay.
LEMMA ShrunkHolds ==
  ASSUME NEW F, Framed(F), NEW R, NEW lo, NEW up, NEW m, NEW f, NEW w, Laid(m, F, R, lo, up, f, w),
         NEW from, NEW to, NEW lo2, NEW up2, Beside(lo2, up2, from, to, lo, up), lo2 <= up2,
         Within(F, lo2, up2, f, f + Len(w)), NEW r, Shrunk(r, m, F, from, to)
  PROVE  Laid(r, F, R, lo2, up2, f, w) /\ NodesKept(r, m, R)
<1>1. /\ Mapped(m, F, R, lo, up) /\ m \in Memories(F) /\ lo \in Nat /\ up \in Nat
      /\ f \in Nat /\ w \in Seq(F.values) /\ Len(w) \in Nat
  BY LaidParts
<1>a. /\ up <= Len(m.map) /\ R \subseteq 1 .. m.next - 1
      /\ \A i \in 1 .. Len(m.map) :
           IF lo < i /\ i <= up
           THEN m.map[i] \in 1 .. m.next - 1 /\ m.map[i] \notin R /\ Len(m.mem[m.map[i]]) = F.buf
           ELSE m.map[i] = 0
  BY <1>1 DEF Mapped
<1>b. \A i, j \in lo + 1 .. up : m.map[i] = m.map[j] => i = j
  BY <1>1 DEF Mapped
<1>2. /\ from \in Nat /\ to \in Nat /\ from <= to
      /\ lo2 \in Nat /\ up2 \in Nat /\ up2 <= up /\ lo <= lo2 /\ from + 1 .. to \subseteq lo + 1 .. up
  <2>1. from \in Nat /\ to \in Nat /\ from <= to
    BY DEF Beside
  <2>2. \/ to = lo2 /\ lo = from /\ up = up2
        \/ from = up2 /\ lo = lo2 /\ up = to
    BY DEF Beside
  <2>3. lo2 \in Nat /\ up2 \in Nat /\ up2 <= up /\ lo <= lo2
    BY <1>1, <2>1, <2>2
  <2>4. from + 1 .. to \subseteq lo + 1 .. up
    BY <1>1, <2>1, <2>2, <2>3
  <2>5. QED
    BY <2>1, <2>3, <2>4
<1>3. /\ m.next \in Nat /\ 1 <= m.next /\ m.next <= F.last + 1 /\ F.last \in Nat
      /\ Len(m.map) \in Nat /\ F.buf \in Nat
  BY <1>1, MemoryParts
<1>4. r \in Memories(F) /\ SameEnds(r, m) /\ Len(r.map) = Len(m.map)
  BY DEF Shrunk
<1>5. \A i \in 1 .. Len(m.map) : r.map[i] = IF from < i /\ i <= to THEN 0 ELSE m.map[i]
  BY DEF Shrunk
<1>6. \A b \in 0 .. F.last :
        r.mem[b] = IF \E i \in from + 1 .. to : m.map[i] = b THEN << >> ELSE m.mem[b]
  BY DEF Shrunk
<1>7. \A i \in Nat : /\ (lo < i /\ i <= up) <=> (lo2 < i /\ i <= up2) \/ (from < i /\ i <= to)
                     /\ ~ ((lo2 < i /\ i <= up2) /\ (from < i /\ i <= to))
  BY <1>2, BesideRows
<1>8. ASSUME NEW i \in Nat, lo2 < i, i <= up2
      PROVE  /\ i \in 1 .. Len(m.map) /\ r.map[i] = m.map[i] /\ m.map[i] \in 1 .. m.next - 1
             /\ m.map[i] \notin R /\ Len(m.mem[m.map[i]]) = F.buf
             /\ r.mem[m.map[i]] = m.mem[m.map[i]]
  <2>1. lo < i /\ i <= up /\ ~ (from < i /\ i <= to)
    BY <1>7, <1>8
  <2>2. i \in 1 .. Len(m.map)
    BY <1>1, <1>3, <1>a, <2>1
  <2>3. r.map[i] = m.map[i]
    BY <1>5, <2>1, <2>2
  <2>4. m.map[i] \in 1 .. m.next - 1 /\ m.map[i] \notin R /\ Len(m.mem[m.map[i]]) = F.buf
    BY <1>a, <2>1, <2>2
  <2>5. ASSUME NEW j \in from + 1 .. to PROVE m.map[j] # m.map[i]
    <3>1. i \in lo + 1 .. up /\ j \in lo + 1 .. up
      BY <1>1, <1>2, <2>1
    <3>2. i # j
      BY <1>2, <2>1
    <3>3. QED
      BY <1>b, <3>1, <3>2
  <2>6. m.map[i] \in 0 .. F.last
    BY <1>3, <2>4
  <2>7. r.mem[m.map[i]] = m.mem[m.map[i]]
    BY <1>6, <2>5, <2>6
  <2>8. QED
    BY <2>2, <2>3, <2>4, <2>7
<1>9. r.next = m.next
  BY <1>4 DEF SameEnds
<1>10. ASSUME NEW i \in 1 .. Len(m.map)
       PROVE  IF lo2 < i /\ i <= up2
              THEN r.map[i] \in 1 .. r.next - 1 /\ r.map[i] \notin R /\ Len(r.mem[r.map[i]]) = F.buf
              ELSE r.map[i] = 0
  <2>0. i \in Nat
    BY <1>3
  <2>1. CASE lo2 < i /\ i <= up2
    BY <1>8, <1>9, <2>0, <2>1
  <2>2. CASE ~ (lo2 < i /\ i <= up2) /\ (from < i /\ i <= to)
    BY <1>5, <2>2
  <2>3. CASE ~ (lo2 < i /\ i <= up2) /\ ~ (from < i /\ i <= to)
    <3>1. ~ (lo < i /\ i <= up)
      BY <1>7, <2>0, <2>3
    <3>2. m.map[i] = 0 /\ r.map[i] = m.map[i]
      BY <1>5, <1>a, <2>3, <3>1
    <3>3. QED
      BY <2>3, <3>2
  <2>4. QED
    BY <2>1, <2>2, <2>3
<1>11. ASSUME NEW i \in lo2 + 1 .. up2, NEW j \in lo2 + 1 .. up2, r.map[i] = r.map[j] PROVE i = j
  <2>1. i \in Nat /\ j \in Nat /\ lo2 < i /\ i <= up2 /\ lo2 < j /\ j <= up2
    BY <1>2
  <2>2. m.map[i] = m.map[j]
    BY <1>8, <1>11, <2>1
  <2>3. i \in lo + 1 .. up /\ j \in lo + 1 .. up
    BY <1>1, <1>2, <2>1
  <2>4. QED
    BY <1>b, <2>2, <2>3
<1>12. ASSUME NEW b \in 0 .. F.last, b \notin R, \A i \in lo2 + 1 .. up2 : r.map[i] # b
       PROVE  r.mem[b] = << >>
  <2>1. CASE \E i \in from + 1 .. to : m.map[i] = b
    BY <1>6, <2>1
  <2>2. CASE ~ \E i \in from + 1 .. to : m.map[i] = b
    <3>1. ASSUME NEW i \in lo + 1 .. up PROVE m.map[i] # b
      <4>1. i \in Nat /\ lo < i /\ i <= up
        BY <1>1
      <4>2. CASE from < i /\ i <= to
        <5>1. i \in from + 1 .. to
          BY <1>2, <4>1, <4>2
        <5>2. QED
          BY <2>2, <5>1
      <4>3. CASE lo2 < i /\ i <= up2
        <5>1. i \in lo2 + 1 .. up2 /\ r.map[i] = m.map[i]
          BY <1>2, <1>8, <4>1, <4>3
        <5>2. QED
          BY <1>12, <5>1
      <4>4. QED
        BY <1>7, <4>1, <4>2, <4>3
    <3>2. m.mem[b] = << >>
      BY <1>1, <1>12, <3>1 DEF Mapped
    <3>3. QED
      BY <1>6, <2>2, <3>2
  <2>3. QED
    BY <2>1, <2>2
<1>13. Mapped(r, F, R, lo2, up2)
  <2>1. lo2 <= up2 /\ up2 <= Len(r.map)
    BY <1>1, <1>2, <1>3, <1>4, <1>a
  <2>2. R \subseteq 1 .. r.next - 1
    BY <1>9, <1>a
  <2>3. \A i \in 1 .. Len(r.map) :
          IF lo2 < i /\ i <= up2
          THEN r.map[i] \in 1 .. r.next - 1 /\ r.map[i] \notin R /\ Len(r.mem[r.map[i]]) = F.buf
          ELSE r.map[i] = 0
    BY <1>4, <1>10
  <2>4. QED
    BY <1>2, <1>4, <1>11, <1>12, <2>1, <2>2, <2>3 DEF Mapped
<1>14. \A b \in R : r.mem[b] = m.mem[b]
  <2>1. ASSUME NEW b \in R PROVE r.mem[b] = m.mem[b]
    <3>1. b \in 0 .. F.last
      BY <1>3, <1>a
    <3>2. ASSUME NEW i \in from + 1 .. to PROVE m.map[i] # b
      <4>1. i \in lo + 1 .. up
        BY <1>2
      <4>2. i \in 1 .. Len(m.map) /\ lo < i /\ i <= up
        BY <1>1, <1>3, <1>a, <4>1
      <4>3. QED
        BY <1>a, <4>2
    <3>3. QED
      BY <1>6, <3>1, <3>2
  <2>2. QED
    BY <2>1
<1>15. ASSUME NEW p \in Positions(F, lo2, up2)
       PROVE  Held(r, F, p) = IF f <= p /\ p < f + Len(w) THEN w[p - f + 1] ELSE Raw
  <2> DEFINE i == Row(F, p)
             c == Column(F, p)
  <2>0. p \in Nat
    BY DEF Positions
  <2>1. i \in Nat /\ lo2 < i /\ i <= up2 /\ lo < i /\ i <= up
    <3>1. i \in Nat
      BY <2>0, PlaceIs
    <3>2. lo2 < i /\ i <= up2
      BY <1>2, <2>0, RowIs
    <3>3. QED
      BY <1>1, <1>2, <3>1, <3>2
  <2>2. p \in Positions(F, lo, up)
    BY <1>1, <2>0, <2>1, RowIs
  <2>3. Held(r, F, p) = r.mem[r.map[i]][c] /\ Held(m, F, p) = m.mem[m.map[i]][c]
    BY DEF Held
  <2> HIDE DEF i, c
  <2>4. Held(r, F, p) = Held(m, F, p)
    BY <1>8, <2>1, <2>3
  <2>5. QED
    BY <2>2, <2>4 DEF Laid
<1>16. NodesKept(r, m, R)
  BY <1>4, <1>14 DEF NodesKept, SameEnds
<1>17. QED
  BY <1>1, <1>13, <1>15, <1>16 DEF Laid

\* Freeing nodes that hold no elements
LEMMA DestroyNodesDoes ==
  ASSUME NEW F, Framed(F), NEW R, NEW lo, NEW up, NEW m, NEW f, NEW w, Laid(m, F, R, lo, up, f, w),
         NEW from, NEW to, NEW lo2, NEW up2, Beside(lo2, up2, from, to, lo, up), lo2 \in Nat, up2 \in Nat, lo2 <= up2,
         Within(F, lo2, up2, f, f + Len(w)), NEW r, r = DestroyNodes(m, from, to)
  PROVE  /\ Laid(r, F, R, lo2, up2, f, w) /\ NodesKept(r, m, R)
         /\ r \in Memories(F) /\ SameEnds(r, m)
<1>1. /\ Mapped(m, F, R, lo, up) /\ m \in Memories(F) /\ lo \in Nat /\ up \in Nat
      /\ f \in Nat /\ w \in Seq(F.values) /\ Len(w) \in Nat
  BY LaidParts
<1>2. /\ from \in Nat /\ to \in Nat /\ from <= to /\ lo <= lo2 /\ up2 <= up
      /\ lo <= from /\ to <= up
  BY <1>1 DEF Beside
<1>3. /\ m.mem \in [0 .. F.last -> Seq(Cellular(F.values))] /\ m.next \in Nat /\ 1 <= m.next /\ m.next <= F.last + 1
      /\ F.last \in Nat /\ m.map \in Seq(0 .. F.last) /\ Len(m.map) \in Nat /\ DOMAIN m.map = 1 .. Len(m.map)
      /\ F.buf \in Nat /\ m.bad = FALSE
  BY <1>1, MemoryParts
<1>4. up <= Len(m.map) /\ \A i \in 1 .. Len(m.map) :
        lo < i /\ i <= up => m.map[i] \in 1 .. m.next - 1 /\ Len(m.mem[m.map[i]]) = F.buf
  BY <1>1 DEF Mapped
<1> DEFINE blocks == {BlockAt(m, node) : node \in from .. to - 1}
           Place(i) == IF i \in from + 1 .. to THEN 0 ELSE m.map[i]
           Block(b) == IF b \in blocks THEN << >> ELSE m.mem[b]
           map == [i \in 1 .. Len(m.map) |-> Place(i)]
           mem == [b \in 0 .. F.last |-> Block(b)]
           d == [m EXCEPT !.map = map, !.mem = mem]
           misuse == 0 \in blocks \/ \E b \in blocks : ValuesIn(m.mem[b]) \ {Raw} # {}
<1>5. ASSUME NEW b
      PROVE  b \in blocks <=> \E i \in from + 1 .. to : m.map[i] = b
  <2>1. ASSUME NEW node \in from .. to - 1 PROVE node + 1 \in from + 1 .. to /\ BlockAt(m, node) = m.map[node + 1]
    <3>1. node \in Nat /\ node + 1 \in from + 1 .. to /\ node + 1 \in 1 .. Len(m.map)
      BY <1>1, <1>2, <1>3, <1>4
    <3>2. QED
      BY <1>3, <3>1 DEF BlockAt
  <2>2. ASSUME NEW i \in from + 1 .. to PROVE \E node \in from .. to - 1 : node + 1 = i
    <3>1. i - 1 \in from .. to - 1 /\ (i - 1) + 1 = i
      BY <1>2
    <3>2. QED
      BY <3>1
  <2>3. ASSUME b \in blocks PROVE \E i \in from + 1 .. to : m.map[i] = b
    BY <2>1, <2>3
  <2>4. ASSUME NEW i \in from + 1 .. to, m.map[i] = b PROVE b \in blocks
    <3>1. PICK node \in from .. to - 1 : node + 1 = i
      BY <2>2
    <3>2. BlockAt(m, node) = b
      BY <2>1, <2>4, <3>1
    <3>3. QED
      BY <3>2
  <2>5. QED
    BY <2>3, <2>4
<1>6. r = Misused(d, misuse)
  <2>1. DOMAIN m.map = 1 .. Len(m.map) /\ DOMAIN m.mem = 0 .. F.last
    BY <1>3
  <2>2. QED
    BY <2>1 DEF DestroyNodes
<1> HIDE DEF blocks
<1>7. misuse = FALSE
  <2>1. ASSUME NEW i \in from + 1 .. to
        PROVE  /\ i \in 1 .. Len(m.map) /\ lo < i /\ i <= up
               /\ m.map[i] \in 1 .. F.last /\ Len(m.mem[m.map[i]]) = F.buf
    <3>1. i \in 1 .. Len(m.map) /\ lo < i /\ i <= up
      BY <1>1, <1>2, <1>3, <1>4
    <3>2. m.map[i] \in 1 .. m.next - 1 /\ Len(m.mem[m.map[i]]) = F.buf
      BY <1>4, <3>1
    <3>3. QED
      BY <1>3, <3>1, <3>2
  <2>2. 0 \notin blocks
    BY <1>3, <1>5, <2>1
  <2>3. ASSUME NEW b \in blocks PROVE ValuesIn(m.mem[b]) \subseteq {Raw}
    <3>1. PICK i \in from + 1 .. to : m.map[i] = b
      BY <1>5
    <3>2. b \in 1 .. F.last /\ Len(m.mem[b]) = F.buf /\ m.mem[b] \in Seq(Cellular(F.values))
      <4>1. b \in 1 .. F.last /\ Len(m.mem[b]) = F.buf
        BY <2>1, <3>1
      <4>2. b \in 0 .. F.last
        BY <1>3, <4>1
      <4>3. QED
        BY <1>3, <4>1, <4>2
    <3>3. ASSUME NEW c \in 1 .. F.buf PROVE m.mem[b][c] = Raw
      <4>0. i \in Nat /\ 1 <= i
        BY <1>2
      <4>1. PICK k \in Nat : i = k + 1
        <5>1. i - 1 \in Nat /\ i = (i - 1) + 1
          BY <4>0
        <5>2. QED
          BY <5>1
      <4>2. k * F.buf \in Nat
        BY <4>1, ProductGrows DEF Framed
      <4>3. PICK p \in Nat : p + 1 = (i - 1) * F.buf + c
        <5>1. (i - 1) * F.buf = k * F.buf
          BY <4>1
        <5>2. k * F.buf + (c - 1) \in Nat /\ k * F.buf + (c - 1) + 1 = k * F.buf + c
          BY <1>3, <4>2
        <5>3. QED
          BY <5>1, <5>2
      <4>4. Row(F, p) = i /\ Column(F, p) = c
        BY <4>0, <4>3, PlaceOf
      <4>5. p \in Positions(F, lo, up) /\ p \notin Positions(F, lo2, up2)
        <5>1. lo < i /\ i <= up
          BY <2>1
        <5>2. ~ (lo2 < i /\ i <= up2)
          BY <1>1, <1>2 DEF Beside
        <5>3. p \in Positions(F, lo, up)
          BY <1>1, <4>4, <5>1, RowIs
        <5>4. p \notin Positions(F, lo2, up2)
          BY <4>4, <5>2, RowIs
        <5>5. QED
          BY <5>3, <5>4
      <4>6. ~ (f <= p /\ p < f + Len(w))
        <5>1. PICK end \in Nat : end = f + Len(w)
          BY <1>1
        <5>2. Within(F, lo2, up2, f, end)
          BY <5>1
        <5>3. f <= p /\ p < end => p \in Positions(F, lo2, up2)
          BY <5>2, InRange
        <5>4. QED
          BY <4>5, <5>1, <5>3
      <4>7. Held(m, F, p) = Raw
        BY <4>5, <4>6 DEF Laid
      <4>8. QED
        BY <3>1, <4>4, <4>7 DEF Held
    <3>4. QED
      BY <3>2, <3>3 DEF ValuesIn
  <2>4. QED
    BY <2>2, <2>3
<1> HIDE DEF misuse
<1>8. ASSUME NEW i \in 1 .. Len(m.map)
      PROVE  Place(i) \in 0 .. F.last /\ Place(i) = IF from < i /\ i <= to THEN 0 ELSE m.map[i]
  <2>1. i \in from + 1 .. to <=> from < i /\ i <= to
    BY <1>2, <1>3
  <2>2. m.map[i] \in 0 .. F.last /\ 0 \in 0 .. F.last
    BY <1>3
  <2>3. QED
    BY <2>1, <2>2
<1>9. ASSUME NEW b \in 0 .. F.last
      PROVE  /\ Block(b) \in Seq(Cellular(F.values))
             /\ Block(b) = IF \E i \in from + 1 .. to : m.map[i] = b THEN << >> ELSE m.mem[b]
  <2>a. << >> \in Seq(Cellular(F.values))
    OBVIOUS
  <2>b. m.mem[b] \in Seq(Cellular(F.values))
    BY <1>3
  <2>1. m.mem[b] \in Seq(Cellular(F.values)) /\ << >> \in Seq(Cellular(F.values))
    BY <2>a, <2>b
  <2>2. QED
    BY <1>5, <2>1
<1> HIDE DEF Place, Block
<1>10. map \in Seq(0 .. F.last) /\ Len(map) = Len(m.map) /\ \A i \in 1 .. Len(m.map) : map[i] = Place(i)
  BY <1>3, <1>8
<1>11. mem \in [0 .. F.last -> Seq(Cellular(F.values))] /\ \A b \in 0 .. F.last : mem[b] = Block(b)
  BY <1>9
<1> HIDE DEF map, mem
<1>12. d \in Memories(F) /\ d.map = map /\ d.mem = mem /\ SameEnds(d, m)
  BY <1>1, <1>10, <1>11 DEF Memories, SameEnds
<1> HIDE DEF d
<1>13. r = d
  BY <1>6, <1>7, <1>12, NoMisuse
<1>14. Shrunk(r, m, F, from, to)
  <2>1. \A i \in 1 .. Len(m.map) : r.map[i] = IF from < i /\ i <= to THEN 0 ELSE m.map[i]
    BY <1>8, <1>10, <1>12, <1>13
  <2>2. \A b \in 0 .. F.last :
          r.mem[b] = IF \E i \in from + 1 .. to : m.map[i] = b THEN << >> ELSE m.mem[b]
    BY <1>9, <1>11, <1>12, <1>13
  <2>3. QED
    BY <1>10, <1>12, <1>13, <2>1, <2>2 DEF Shrunk
<1>15. Laid(r, F, R, lo2, up2, f, w) /\ NodesKept(r, m, R)
  BY <1>14, ShrunkHolds
<1>16. QED
  BY <1>12, <1>13, <1>15

-----------------------------------------------------------------------------
(* The map                                                                  *)

\* The deque holds s: its nodes are those from start's to finish's, with s from start on.
Holds(m, F, R, s) ==
    Laid(m, F, R, StartNode(m), FinishNode(m) + 1, m.start, s) /\ m.finish = m.start + Len(s)

\* The nodes [lo, up) are at first of a map of some size.
Moved(r, m, F, lo, n, first, size) ==
    /\ r \in Memories(F) /\ r.mem = m.mem /\ r.next = m.next /\ Len(r.map) = size
    /\ \A i \in 1 .. size :
         r.map[i] = IF first < i /\ i <= first + n THEN m.map[i - first + lo] ELSE 0

\* A position moves as its node does.
LEMMA ShiftIs ==
  ASSUME NEW b \in Nat \ {0}, NEW lo \in Nat, NEW first \in Nat, NEW p \in Nat, lo * b <= p
  PROVE  /\ p + (first - lo) * b \in Nat /\ p + (first - lo) * b >= first * b
         /\ p + (first - lo) * b + lo * b = p + first * b
<1>0. lo * b \in Nat /\ first * b \in Nat
  BY ProductGrows
<1>1. CASE lo <= first
  <2>1. PICK d \in Nat : first = lo + d
    <3>1. first - lo \in Nat /\ first = lo + (first - lo)
      BY <1>1
    <3>2. QED
      BY <3>1
  <2>2. first * b = lo * b + d * b /\ d * b \in Nat
    BY <2>1
  <2>3. first - lo = d
    BY <2>1
  <2>4. QED
    BY <1>0, <2>2, <2>3
<1>2. CASE first < lo
  <2>1. PICK d \in Nat : lo = first + d
    <3>1. lo - first \in Nat /\ lo = first + (lo - first)
      BY <1>2
    <3>2. QED
      BY <3>1
  <2>2. lo * b = first * b + d * b /\ d * b \in Nat
    BY <2>1
  <2>3. first - lo = 0 - d /\ (0 - d) * b = 0 - d * b
    BY <2>1
  <2>4. QED
    BY <1>0, <2>2, <2>3
<1>3. QED
  BY <1>1, <1>2

\* The row of a position moves as well, and its column stays.
LEMMA RowMoves ==
  ASSUME NEW F, Framed(F), NEW lo \in Nat, NEW first \in Nat, NEW p \in Nat, lo * F.buf <= p, NEW q \in Nat,
         q + lo * F.buf = p + first * F.buf
  PROVE  /\ Row(F, q) + lo = Row(F, p) + first /\ Column(F, q) = Column(F, p)
<1>1. /\ Row(F, p) \in Nat /\ 1 <= Row(F, p) /\ Column(F, p) \in 1 .. F.buf
      /\ p + 1 = (Row(F, p) - 1) * F.buf + Column(F, p)
  BY PlaceIs
<1>2. F.buf \in Nat \ {0} /\ F.buf \in Nat
  BY DEF Framed
<1>3. PICK k \in Nat : Row(F, p) = k + 1
  <2>1. Row(F, p) - 1 \in Nat /\ Row(F, p) = (Row(F, p) - 1) + 1
    BY <1>1
  <2>2. QED
    BY <2>1
<1>4. p + 1 = k * F.buf + Column(F, p)
  BY <1>1, <1>3
<1>5. PICK d \in Nat : k = lo + d
  <2>1. ASSUME k < lo PROVE FALSE
    <3>1. k * F.buf + F.buf <= lo * F.buf /\ k * F.buf \in Nat /\ lo * F.buf \in Nat
      BY <1>2, <2>1, ProductGrows
    <3>2. QED
      BY <1>1, <1>2, <1>4, <3>1
  <2>2. k - lo \in Nat /\ k = lo + (k - lo)
    BY <2>1
  <2>3. QED
    BY <2>2
<1>6. /\ k * F.buf = lo * F.buf + d * F.buf /\ (first + d) * F.buf = first * F.buf + d * F.buf
      /\ lo * F.buf \in Nat /\ d * F.buf \in Nat /\ first * F.buf \in Nat
  <2>1. lo * F.buf \in Nat /\ d * F.buf \in Nat /\ first * F.buf \in Nat
    BY <1>2, ProductGrows
  <2>2. (lo + d) * F.buf = lo * F.buf + d * F.buf /\ (first + d) * F.buf = first * F.buf + d * F.buf
    BY <1>2
  <2>3. QED
    BY <1>5, <2>1, <2>2
<1>7. q + 1 = (first + d) * F.buf + Column(F, p)
  BY <1>1, <1>4, <1>6
<1>8. PICK i \in Nat : i = first + d + 1 /\ 1 <= i /\ i - 1 = first + d
  <2>1. first + d + 1 \in Nat /\ 1 <= first + d + 1 /\ (first + d + 1) - 1 = first + d
    OBVIOUS
  <2>2. QED
    BY <2>1
<1>9. q + 1 = (i - 1) * F.buf + Column(F, p)
  BY <1>7, <1>8
<1>10. Row(F, q) = i /\ Column(F, q) = Column(F, p)
  BY <1>1, <1>8, <1>9, PlaceOf
<1>11. QED
  BY <1>3, <1>5, <1>8, <1>10

\* What the nodes hold moves with them.
LEMMA MovedHolds ==
  ASSUME NEW F, Framed(F), NEW R, NEW lo, NEW up, NEW m, NEW f, NEW w, Laid(m, F, R, lo, up, f, w),
         NEW n \in Nat, up = lo + n, NEW first \in Nat, NEW last \in Nat, last = first + n,
         NEW size \in Nat, last <= size, NEW r, Moved(r, m, F, lo, n, first, size),
         NEW g \in Nat, g + lo * F.buf = f + first * F.buf
  PROVE  Laid(r, F, R, first, last, g, w)
<1>1. /\ Mapped(m, F, R, lo, up) /\ m \in Memories(F) /\ lo \in Nat /\ up \in Nat
      /\ f \in Nat /\ w \in Seq(F.values) /\ Len(w) \in Nat /\ Within(F, lo, up, f, f + Len(w))
  BY LaidParts
<1>2. /\ m.next \in Nat /\ F.last \in Nat /\ Len(m.map) \in Nat /\ F.buf \in Nat
  BY <1>1, MemoryParts
<1>3. /\ up <= Len(m.map) /\ R \subseteq 1 .. m.next - 1
      /\ \A i \in 1 .. Len(m.map) :
           lo < i /\ i <= up => m.map[i] \in 1 .. m.next - 1 /\ m.map[i] \notin R /\ Len(m.mem[m.map[i]]) = F.buf
  BY <1>1 DEF Mapped
<1>4. \A i, j \in lo + 1 .. up : m.map[i] = m.map[j] => i = j
  BY <1>1 DEF Mapped
<1>5. r \in Memories(F) /\ r.mem = m.mem /\ r.next = m.next /\ Len(r.map) = size
  BY DEF Moved
<1>6. \A i \in 1 .. size : r.map[i] = IF first < i /\ i <= first + n THEN m.map[i - first + lo] ELSE 0
  BY DEF Moved
<1>7. ASSUME NEW i \in Nat, first < i, i <= last
      PROVE  /\ i \in 1 .. size /\ r.map[i] = m.map[i - first + lo] /\ i - first + lo \in lo + 1 .. up
             /\ r.map[i] \in 1 .. m.next - 1 /\ r.map[i] \notin R /\ Len(m.mem[r.map[i]]) = F.buf
  <2>1. PICK j \in Nat : j = i - first + lo
    BY <1>1, <1>7
  <2>2. i \in 1 .. size /\ j \in lo + 1 .. up /\ j \in 1 .. Len(m.map) /\ lo < j /\ j <= up
    BY <1>1, <1>2, <1>3, <1>7, <2>1
  <2>3. r.map[i] = m.map[j]
    BY <1>6, <1>7, <2>1, <2>2
  <2>4. QED
    BY <1>3, <2>1, <2>2, <2>3
<1>8. Mapped(r, F, R, first, last)
  <2>1. ASSUME NEW i \in 1 .. size
        PROVE  IF first < i /\ i <= last
               THEN r.map[i] \in 1 .. r.next - 1 /\ r.map[i] \notin R /\ Len(r.mem[r.map[i]]) = F.buf
               ELSE r.map[i] = 0
    <3>1. CASE first < i /\ i <= last
      BY <1>5, <1>7, <3>1
    <3>2. CASE ~ (first < i /\ i <= last)
      BY <1>6, <3>2
    <3>3. QED
      BY <3>1, <3>2
  <2>2. ASSUME NEW i \in first + 1 .. last, NEW j \in first + 1 .. last, r.map[i] = r.map[j] PROVE i = j
    <3>1. i \in Nat /\ first < i /\ i <= last /\ j \in Nat /\ first < j /\ j <= last
      OBVIOUS
    <3>2. m.map[i - first + lo] = m.map[j - first + lo]
      BY <1>7, <2>2, <3>1
    <3>3. i - first + lo \in lo + 1 .. up /\ j - first + lo \in lo + 1 .. up
      BY <1>7, <3>1
    <3>4. i - first + lo = j - first + lo
      BY <1>4, <3>2, <3>3
    <3>5. QED
      BY <1>1, <3>1, <3>4
  <2>3. ASSUME NEW b \in 0 .. F.last, b \notin R, \A i \in first + 1 .. last : r.map[i] # b
        PROVE  r.mem[b] = << >>
    <3>1. ASSUME NEW j \in lo + 1 .. up PROVE m.map[j] # b
      <4>1. PICK i \in Nat : i = j - lo + first
        BY <1>1
      <4>2. first < i /\ i <= last /\ i \in first + 1 .. last /\ i - first + lo = j
        BY <1>1, <4>1
      <4>3. r.map[i] = m.map[j]
        BY <1>7, <4>2
      <4>4. QED
        BY <2>3, <4>2, <4>3
    <3>2. m.mem[b] = << >>
      BY <1>1, <2>3, <3>1 DEF Mapped
    <3>3. QED
      BY <1>5, <3>2
  <2>4. first <= last /\ last <= Len(r.map) /\ R \subseteq 1 .. r.next - 1
    BY <1>3, <1>5
  <2>5. QED
    BY <1>5, <2>1, <2>2, <2>3, <2>4 DEF Mapped
<1>9. /\ lo * F.buf \in Nat /\ up * F.buf \in Nat /\ first * F.buf \in Nat /\ last * F.buf \in Nat
      /\ up * F.buf = lo * F.buf + n * F.buf /\ last * F.buf = first * F.buf + n * F.buf /\ n * F.buf \in Nat
  <2>1. /\ lo * F.buf \in Nat /\ up * F.buf \in Nat /\ first * F.buf \in Nat /\ last * F.buf \in Nat
        /\ n * F.buf \in Nat
    BY <1>1, ProductGrows DEF Framed
  <2>2. (lo + n) * F.buf = lo * F.buf + n * F.buf /\ (first + n) * F.buf = first * F.buf + n * F.buf
    BY <1>1, <1>2
  <2>3. QED
    BY <2>1, <2>2
<1>10. ASSUME NEW q \in Positions(F, first, last)
       PROVE  Held(r, F, q) = IF g <= q /\ q < g + Len(w) THEN w[q - g + 1] ELSE Raw
  <2>1. q \in Nat /\ first * F.buf <= q /\ q < last * F.buf
    BY DEF Positions
  <2>2. PICK p \in Nat : q + lo * F.buf = p + first * F.buf
    <3>1. PICK x \in Nat, y \in Nat : x = first * F.buf /\ y = lo * F.buf
      BY <1>9
    <3>2. q - x + y \in Nat /\ q + y = (q - x + y) + x
      BY <2>1, <3>1
    <3>3. QED
      BY <3>1, <3>2
  <2>3. lo * F.buf <= p /\ p < up * F.buf
    BY <1>9, <2>1, <2>2
  <2>4. p \in Positions(F, lo, up)
    BY <2>3 DEF Positions
  <2>5. Row(F, q) + lo = Row(F, p) + first /\ Column(F, q) = Column(F, p)
    BY <1>1, <2>1, <2>2, <2>3, RowMoves
  <2>6. Row(F, q) \in Nat /\ Row(F, p) \in Nat /\ first < Row(F, q) /\ Row(F, q) <= last
    BY <2>1, PlaceIs, RowIs
  <2>7. Row(F, q) - first + lo = Row(F, p)
    BY <1>1, <2>5, <2>6
  <2>8. r.map[Row(F, q)] = m.map[Row(F, p)]
    BY <1>7, <2>6, <2>7
  <2>9. Held(r, F, q) = Held(m, F, p)
    BY <1>5, <2>5, <2>8 DEF Held
  <2>10. Held(m, F, p) = IF f <= p /\ p < f + Len(w) THEN w[p - f + 1] ELSE Raw
    BY <2>4 DEF Laid
  <2>11. /\ (f <= p /\ p < f + Len(w)) <=> (g <= q /\ q < g + Len(w))
         /\ p - f + 1 = q - g + 1
    <3>1. PICK x \in Nat, y \in Nat : x = first * F.buf /\ y = lo * F.buf
      BY <1>9
    <3>2. q + y = p + x /\ g + y = f + x
      BY <2>2, <3>1
    <3>3. q \in Nat /\ f \in Nat
      BY <1>1, <2>1
    <3>4. p + g = q + f
      BY <3>2, <3>3
    <3>5. QED
      BY <1>1, <2>1, <3>4
  <2>12. QED
    BY <2>9, <2>10, <2>11
<1>11. Within(F, first, last, g, g + Len(w))
  <2>1. PICK end \in Nat : end = f + Len(w)
    BY <1>1
  <2>2. lo * F.buf <= f /\ end <= up * F.buf
    BY <1>1, <2>1 DEF Within
  <2>3. PICK stop \in Nat : stop = g + Len(w)
    BY <1>1
  <2>4. first * F.buf <= g /\ stop <= last * F.buf /\ g <= stop
    <3>1. PICK x \in Nat, y \in Nat, z \in Nat : x = first * F.buf /\ y = lo * F.buf /\ z = n * F.buf
      BY <1>9
    <3>2. g + y = f + x /\ y <= f /\ end <= y + z /\ last * F.buf = x + z
      BY <1>9, <2>2, <3>1
    <3>3. x <= g /\ stop <= x + z /\ g <= stop
      BY <1>1, <2>1, <2>3, <3>2
    <3>4. QED
      BY <3>1, <3>2, <3>3
  <2>5. Within(F, first, last, g, stop)
    BY <2>4 DEF Within
  <2>6. QED
    BY <2>3, <2>5
<1>12. QED
  BY <1>1, <1>8, <1>10, <1>11 DEF Laid
\* The parts of what a deque holds, as the provers need them
LEMMA HoldsParts ==
  ASSUME NEW F, Framed(F), NEW R, NEW m, NEW s, Holds(m, F, R, s)
  PROVE  /\ Laid(m, F, R, StartNode(m), FinishNode(m) + 1, m.start, s)
         /\ m \in Memories(F) /\ m.buf = F.buf /\ F.buf \in Nat \ {0} /\ s \in Seq(F.values) /\ Len(s) \in Nat
         /\ m.start \in Nat /\ m.finish \in Nat /\ m.finish = m.start + Len(s)
         /\ StartNode(m) \in Nat /\ FinishNode(m) \in Nat /\ StartNode(m) <= FinishNode(m)
         /\ FinishNode(m) < Len(m.map) /\ Len(m.map) \in Nat /\ NodesOf(m) \in Nat /\ 1 <= NodesOf(m)
         /\ FinishNode(m) + 1 = StartNode(m) + NodesOf(m)
         /\ Row(F, m.start) = StartNode(m) + 1 /\ Row(F, m.finish) = FinishNode(m) + 1
         /\ StartNode(m) * F.buf <= m.start /\ StartNode(m) * F.buf <= m.finish
<1>1. /\ Laid(m, F, R, StartNode(m), FinishNode(m) + 1, m.start, s) /\ m.finish = m.start + Len(s)
  BY DEF Holds
<1>2. /\ Mapped(m, F, R, StartNode(m), FinishNode(m) + 1) /\ m \in Memories(F)
      /\ s \in Seq(F.values) /\ Len(s) \in Nat /\ m.start \in Nat
  BY <1>1, LaidParts
<1>3. m.buf = F.buf /\ F.buf \in Nat \ {0} /\ m.finish \in Nat /\ Len(m.map) \in Nat
  BY <1>2, MemoryParts DEF Framed
<1>4. /\ StartNode(m) \in Nat /\ FinishNode(m) \in Nat /\ Row(F, m.start) = StartNode(m) + 1
      /\ Row(F, m.finish) = FinishNode(m) + 1
  BY <1>2, <1>3, DivisionIs DEF StartNode, FinishNode, NodeOf, Row
<1>5. FinishNode(m) + 1 <= Len(m.map)
  BY <1>2 DEF Mapped
<1>6. Within(F, StartNode(m), FinishNode(m) + 1, m.start, m.finish)
  BY <1>1, LaidParts
<1>7. StartNode(m) * F.buf <= m.start /\ m.start <= m.finish
  BY <1>6 DEF Within
<1>8. StartNode(m) * F.buf \in Nat
  BY <1>3, <1>4, ProductGrows
<1>9. StartNode(m) <= FinishNode(m)
  <2>1. PICK z \in Nat : z = FinishNode(m) * F.buf
    BY <1>3, <1>4, ProductGrows
  <2>2. m.finish < z + F.buf
    <3>1. m.finish \div F.buf = FinishNode(m)
      BY <1>3 DEF FinishNode, NodeOf
    <3>2. FinishNode(m) * F.buf <= m.finish /\ m.finish < FinishNode(m) * F.buf + F.buf
      BY <1>3, <1>4, <3>1, NodeIs
    <3>3. QED
      BY <2>1, <3>2
  <2>3. ASSUME FinishNode(m) < StartNode(m) PROVE FALSE
    <3>1. z + F.buf <= StartNode(m) * F.buf
      BY <1>3, <1>4, <2>1, <2>3, ProductGrows
    <3>2. QED
      BY <1>2, <1>3, <1>7, <1>8, <2>1, <2>2, <3>1
  <2>4. QED
    BY <1>4, <2>3
<1>10. NodesOf(m) \in Nat /\ 1 <= NodesOf(m) /\ FinishNode(m) + 1 = StartNode(m) + NodesOf(m)
  BY <1>4, <1>9 DEF NodesOf
<1>11. QED
  BY <1>1, <1>2, <1>3, <1>4, <1>5, <1>7, <1>8, <1>9, <1>10

\* r is m with a map of some size, where its first node is first.
Relocated(r, m, F, first, size) ==
    /\ r.mem = m.mem /\ r.next = m.next /\ r.threw = m.threw /\ r.fuel = m.fuel /\ Len(r.map) = size
    /\ StartNode(r) = first /\ FinishNode(r) + 1 = first + NodesOf(m)
    /\ r.start % F.buf = m.start % F.buf /\ r.finish % F.buf = m.finish % F.buf

\* The pointers to the nodes, and the iterators, move together.
LEMMA MoveMapDoes ==
  ASSUME NEW F, Framed(F), NEW R, NEW m, NEW s, Holds(m, F, R, s), NEW size \in Nat, NEW first \in Nat,
         first + NodesOf(m) <= size, NEW r, r = MoveMap(m, size, first)
  PROVE  Holds(r, F, R, s) /\ Relocated(r, m, F, first, size)
<1>1. /\ Laid(m, F, R, StartNode(m), FinishNode(m) + 1, m.start, s)
      /\ m \in Memories(F) /\ m.buf = F.buf /\ F.buf \in Nat \ {0} /\ s \in Seq(F.values) /\ Len(s) \in Nat
      /\ m.start \in Nat /\ m.finish \in Nat /\ m.finish = m.start + Len(s)
      /\ StartNode(m) \in Nat /\ FinishNode(m) \in Nat /\ StartNode(m) <= FinishNode(m)
      /\ FinishNode(m) < Len(m.map) /\ Len(m.map) \in Nat /\ NodesOf(m) \in Nat /\ 1 <= NodesOf(m)
      /\ FinishNode(m) + 1 = StartNode(m) + NodesOf(m)
      /\ Row(F, m.start) = StartNode(m) + 1 /\ Row(F, m.finish) = FinishNode(m) + 1
      /\ StartNode(m) * F.buf <= m.start /\ StartNode(m) * F.buf <= m.finish
  BY HoldsParts
<1>2. PICK lo \in Nat, n \in Nat, fin \in Nat, p \in Nat, q \in Nat, len \in Nat :
        /\ lo = StartNode(m) /\ n = NodesOf(m) /\ fin = FinishNode(m) /\ p = m.start /\ q = m.finish
        /\ len = Len(m.map)
  BY <1>1
<1>100. /\ lo <= fin /\ fin < len /\ 1 <= n /\ fin + 1 = lo + n /\ lo * F.buf <= p /\ lo * F.buf <= q
        /\ q = p + Len(s) /\ first + n <= size
  BY <1>1, <1>2
<1> DEFINE offset == first - lo
           map == [i \in 1 .. size |-> IF i - 1 - offset \in lo .. fin THEN m.map[i - offset] ELSE 0]
<1>3. r = [m EXCEPT !.map = map, !.start = @ + offset * m.buf, !.finish = @ + offset * m.buf]
  BY <1>2 DEF MoveMap
<1>4. PICK g \in Nat, h \in Nat : g = p + offset * F.buf /\ h = q + offset * F.buf
  BY <1>1, <1>100, ShiftIs
<1>5. g + lo * F.buf = p + first * F.buf /\ h + lo * F.buf = q + first * F.buf
  <2>1. p + offset * F.buf + lo * F.buf = p + first * F.buf
    BY <1>1, <1>100, ShiftIs
  <2>2. q + offset * F.buf + lo * F.buf = q + first * F.buf
    BY <1>1, <1>100, ShiftIs
  <2>3. QED
    BY <1>4, <2>1, <2>2
<1>6. r = [m EXCEPT !.map = map, !.start = g, !.finish = h]
  BY <1>1, <1>2, <1>3, <1>4
<1>7. h = g + Len(s)
  <2>1. PICK x \in Nat, y \in Nat : x = first * F.buf /\ y = lo * F.buf
    BY <1>1, ProductGrows
  <2>2. g + y = p + x /\ h + y = q + x
    BY <1>5, <2>1
  <2>3. PICK k \in Nat : k = Len(s) /\ q = p + k
    BY <1>1, <1>100
  <2>4. h = g + k
    <3>1. q = p + k
      BY <2>3
    <3>2. QED
      BY <2>2, <3>1
  <2>5. QED
    BY <2>3, <2>4
<1>8. ASSUME NEW i \in 1 .. size
      PROVE  /\ map[i] = IF first < i /\ i <= first + n THEN m.map[i - first + lo] ELSE 0
             /\ map[i] \in 0 .. F.last
  <2>0. map[i] = IF i - 1 - offset \in lo .. fin THEN m.map[i - offset] ELSE 0
    OBVIOUS
  <2>1. (i - 1 - offset \in lo .. fin) <=> first < i /\ i <= first + n
    BY <1>100
  <2>2. i - offset = i - first + lo
    OBVIOUS
  <2>3. map[i] = IF first < i /\ i <= first + n THEN m.map[i - first + lo] ELSE 0
    BY <2>0, <2>1, <2>2
  <2>4. first < i /\ i <= first + n => i - first + lo \in 1 .. len
    BY <1>100
  <2>5. m.map \in Seq(0 .. F.last) /\ F.last \in Nat
    BY <1>1, MemoryParts
  <2>6. \A j \in 1 .. len : m.map[j] \in 0 .. F.last
    BY <1>2, <2>5
  <2>7. 0 \in 0 .. F.last
    BY <2>5
  <2>8. map[i] \in 0 .. F.last
    BY <2>3, <2>4, <2>6, <2>7
  <2>9. QED
    BY <2>3, <2>8
<1>9. map \in Seq(0 .. F.last) /\ Len(map) = size
  <2>1. map \in [1 .. size -> 0 .. F.last]
    <3>1. \A i \in 1 .. size : map[i] \in 0 .. F.last
      BY <1>8
    <3>2. DOMAIN map = 1 .. size /\ map = [i \in 1 .. size |-> map[i]]
      OBVIOUS
    <3> HIDE DEF map
    <3>3. QED
      BY <3>1, <3>2
  <2> HIDE DEF map
  <2>2. map \in Seq(0 .. F.last)
    <3>1. PICK S : S = 0 .. F.last
      OBVIOUS
    <3>2. map \in [1 .. size -> S]
      BY <2>1, <3>1
    <3>3. map \in Seq(S)
      BY <3>2
    <3>4. QED
      BY <3>1, <3>3
  <2>3. DOMAIN map = 1 .. size
    BY <2>1
  <2>4. QED
    BY <2>2, <2>3
<1>10. \A i \in 1 .. size : map[i] = IF first < i /\ i <= first + n THEN m.map[i - first + lo] ELSE 0
  BY <1>8
<1> HIDE DEF map
<1>11. /\ r \in Memories(F) /\ r.mem = m.mem /\ r.next = m.next /\ r.threw = m.threw /\ r.fuel = m.fuel /\ r.map = map
       /\ r.start = g /\ r.finish = h /\ r.buf = F.buf
  BY <1>1, <1>6, <1>9 DEF Memories
<1>12. Moved(r, m, F, lo, n, first, size)
  BY <1>9, <1>10, <1>11 DEF Moved
<1>13. PICK last \in Nat, up \in Nat : last = first + n /\ up = lo + n
  OBVIOUS
<1>14. Laid(m, F, R, lo, up, p, s)
  BY <1>1, <1>2, <1>13
<1>15. Laid(r, F, R, first, last, g, s)
  BY <1>2, <1>5, <1>12, <1>13, <1>14, MovedHolds
<1>16. /\ Row(F, g) + lo = Row(F, p) + first /\ Column(F, g) = Column(F, p)
       /\ Row(F, h) + lo = Row(F, q) + first /\ Column(F, h) = Column(F, q)
  BY <1>5, <1>100, RowMoves
<1>17. /\ g \div F.buf \in Nat /\ h \div F.buf \in Nat /\ g % F.buf \in Nat /\ h % F.buf \in Nat
       /\ p % F.buf \in Nat /\ q % F.buf \in Nat
  <2>1. /\ g % F.buf \in 0 .. F.buf - 1 /\ h % F.buf \in 0 .. F.buf - 1 /\ p % F.buf \in 0 .. F.buf - 1
        /\ q % F.buf \in 0 .. F.buf - 1 /\ g \div F.buf \in Nat /\ h \div F.buf \in Nat
    BY <1>1, DivisionIs
  <2>2. QED
    BY <1>1, <2>1
<1>18. StartNode(r) = g \div F.buf /\ FinishNode(r) = h \div F.buf
  BY <1>11 DEF StartNode, FinishNode, NodeOf
<1>19. StartNode(r) = first /\ FinishNode(r) + 1 = last
  <2>1. Row(F, g) = StartNode(r) + 1 /\ Row(F, h) = FinishNode(r) + 1
    BY <1>18 DEF Row
  <2>2. StartNode(r) + 1 + lo = lo + 1 + first /\ FinishNode(r) + 1 + lo = fin + 1 + first
    BY <1>1, <1>2, <1>16, <2>1
  <2>3. PICK x \in Nat, y \in Nat : x = StartNode(r) /\ y = FinishNode(r)
    BY <1>17, <1>18
  <2>4. x = first /\ y + 1 = last
    BY <1>13, <1>100, <2>2, <2>3
  <2>5. QED
    BY <2>3, <2>4
<1>20. g % F.buf = p % F.buf /\ h % F.buf = q % F.buf
  <2>1. (g % F.buf) + 1 = (p % F.buf) + 1 /\ (h % F.buf) + 1 = (q % F.buf) + 1
    BY <1>16 DEF Column
  <2>2. QED
    BY <1>17, <2>1
<1>21. Holds(r, F, R, s)
  BY <1>7, <1>11, <1>15, <1>19 DEF Holds
<1>22. QED
  BY <1>2, <1>9, <1>11, <1>13, <1>19, <1>20, <1>21 DEF Relocated

\* Counting an allocation changes nothing that a deque holds.
LEMMA SpendHolds ==
  ASSUME NEW F, Framed(F), NEW R, NEW m, NEW s, Holds(m, F, R, s), NEW n \in Nat, NEW r, r = Spend(m, n)
  PROVE  /\ Holds(r, F, R, s) /\ r.mem = m.mem /\ SameIterators(r, m) /\ (r.threw <=> n > m.fuel)
         /\ StartNode(r) = StartNode(m) /\ FinishNode(r) = FinishNode(m) /\ NodesOf(r) = NodesOf(m)
<1>1. /\ Laid(m, F, R, StartNode(m), FinishNode(m) + 1, m.start, s) /\ m \in Memories(F) /\ m.buf = F.buf
      /\ m.finish = m.start + Len(s)
  BY HoldsParts
<1>2. r \in Memories(F) /\ r.mem = m.mem /\ SameIterators(r, m) /\ (r.threw <=> n > m.fuel)
  BY <1>1, SpendDoes
<1>3. r.buf = F.buf /\ r.start = m.start /\ r.finish = m.finish
  BY <1>2, MemoryParts DEF SameIterators
<1>4. StartNode(r) = StartNode(m) /\ FinishNode(r) = FinishNode(m) /\ NodesOf(r) = NodesOf(m)
  BY <1>1, <1>3 DEF StartNode, FinishNode, NodeOf, NodesOf
<1>5. Laid(r, F, R, StartNode(m), FinishNode(m) + 1, m.start, s)
  BY <1>1, <1>2, SameMapped DEF Laid
<1>6. QED
  BY <1>1, <1>2, <1>3, <1>4, <1>5 DEF Holds

\* What reallocating the map keeps
Reseated(r, m, F, R) ==
    /\ \A b \in R : r.mem[b] = m.mem[b]
    /\ r.next = m.next /\ r.start % F.buf = m.start % F.buf /\ r.finish % F.buf = m.finish % F.buf

\* The middle of a map
LEMMA CentredIs ==
  ASSUME NEW size \in Nat, NEW nodes \in Nat, nodes <= size
  PROVE  Centred(size, nodes) \in Nat /\ Centred(size, nodes) + nodes <= size
<1>1. PICK d \in Nat : d = size - nodes
  OBVIOUS
<1>2. d \div 2 \in Nat /\ d \div 2 <= d
  OBVIOUS
<1>3. QED
  BY <1>1, <1>2 DEF Centred

\* _M_reallocate_map: there is room for the new nodes afterwards, or no memory for the map.
LEMMA ReallocateDoes ==
  ASSUME NEW F, Framed(F), NEW R, NEW m, NEW s, Holds(m, F, R, s), ~ m.threw, NEW add \in Nat,
         NEW atFront \in BOOLEAN, NEW r, r = ReallocateMap(m, add, atFront)
  PROVE  /\ Holds(r, F, R, s) /\ Reseated(r, m, F, R)
         /\ ~ r.threw => IF atFront THEN add <= StartNode(r) ELSE FinishNode(r) + 1 + add <= Len(r.map)
<1>1. /\ m \in Memories(F) /\ Len(m.map) \in Nat /\ NodesOf(m) \in Nat /\ 1 <= NodesOf(m) /\ m.fuel \in Nat
      /\ NodesOf(m) <= Len(m.map)
  <2>1. /\ m \in Memories(F) /\ Len(m.map) \in Nat /\ NodesOf(m) \in Nat /\ 1 <= NodesOf(m)
        /\ StartNode(m) \in Nat /\ FinishNode(m) \in Nat
        /\ FinishNode(m) < Len(m.map) /\ FinishNode(m) + 1 = StartNode(m) + NodesOf(m)
    BY HoldsParts
  <2>2. m.fuel \in Nat
    BY <2>1, MemoryParts
  <2>3. QED
    BY <2>1, <2>2
<1>2. ASSUME NEW q, Holds(q, F, R, s), q.mem = m.mem, SameIterators(q, m), NodesOf(q) = NodesOf(m), ~ q.threw,
             NEW size \in Nat, NodesOf(m) + add <= size,
             r = MoveMap(q, size, NewFirst(m, size, add, atFront))
      PROVE  /\ Holds(r, F, R, s) /\ Reseated(r, m, F, R)
             /\ ~ r.threw => IF atFront THEN add <= StartNode(r) ELSE FinishNode(r) + 1 + add <= Len(r.map)
    <2>1. PICK n \in Nat : n = NodesOf(m)
      BY <1>1
    <2>2. PICK h \in Nat : h = Centred(size, n + add) /\ h + (n + add) <= size
      <3>1. n + add \in Nat /\ n + add <= size
        BY <1>2, <2>1
      <3>2. QED
        BY <3>1, CentredIs
    <2>3. PICK first \in Nat : first = IF atFront THEN h + add ELSE h
      OBVIOUS
    <2>4. NewFirst(m, size, add, atFront) = first
      BY <2>1, <2>2, <2>3 DEF NewFirst
    <2>5. first + NodesOf(q) <= size
      BY <1>2, <2>1, <2>2, <2>3
    <2>6. Holds(r, F, R, s) /\ Relocated(r, q, F, first, size)
      BY <1>2, <2>4, <2>5, MoveMapDoes
    <2>7. Reseated(r, m, F, R)
      BY <1>2, <2>6 DEF Relocated, Reseated, SameIterators
    <2>8. StartNode(r) = first /\ FinishNode(r) + 1 = first + n /\ Len(r.map) = size
      BY <1>2, <2>1, <2>6 DEF Relocated
    <2>9. FinishNode(r) \in Nat
      BY <2>6, HoldsParts
    <2>10. IF atFront THEN add <= StartNode(r) ELSE FinishNode(r) + 1 + add <= Len(r.map)
      BY <2>2, <2>3, <2>8, <2>9
    <2>11. QED
      BY <2>6, <2>7, <2>10
<1>3. CASE Len(m.map) > 2 * (NodesOf(m) + add)
  <2>1. r = MoveMap(m, Len(m.map), NewFirst(m, Len(m.map), add, atFront))
    BY <1>3 DEF ReallocateMap
  <2>2. NodesOf(m) + add <= Len(m.map)
    BY <1>1, <1>3
  <2>3. QED
    BY <1>1, <1>2, <2>1, <2>2 DEF SameIterators
<1>4. CASE ~ (Len(m.map) > 2 * (NodesOf(m) + add)) /\ m.fuel = 0
  <2>1. r = Spend(m, 1)
    BY <1>4 DEF ReallocateMap
  <2>2. Holds(r, F, R, s) /\ r.mem = m.mem /\ SameIterators(r, m) /\ (r.threw <=> 1 > m.fuel)
    BY <2>1, SpendHolds
  <2>3. r.threw
    BY <1>4, <2>2
  <2>4. QED
    BY <2>2, <2>3 DEF Reseated, SameIterators
<1>5. CASE ~ (Len(m.map) > 2 * (NodesOf(m) + add)) /\ m.fuel # 0
  <2>1. r = MoveMap(Spend(m, 1), LargerMapSize(m, add), NewFirst(m, LargerMapSize(m, add), add, atFront))
    BY <1>5 DEF ReallocateMap
  <2>2. PICK q : q = Spend(m, 1)
    OBVIOUS
  <2>3. /\ Holds(q, F, R, s) /\ q.mem = m.mem /\ SameIterators(q, m)
        /\ (q.threw <=> 1 > m.fuel) /\ NodesOf(q) = NodesOf(m)
    BY <2>2, SpendHolds
  <2>4. ~ q.threw
    BY <1>1, <1>5, <2>3
  <2>5. LargerMapSize(m, add) \in Nat /\ NodesOf(m) + add <= LargerMapSize(m, add)
    <3>1. PICK l \in Nat, n \in Nat : l = Len(m.map) /\ n = NodesOf(m) /\ n <= l
      BY <1>1
    <3>2. PICK w \in Nat : w = Larger(l, add) /\ add <= w /\ l <= w
      BY <3>1 DEF Larger
    <3>3. LargerMapSize(m, add) = l + w + 2
      BY <3>1, <3>2 DEF LargerMapSize
    <3>4. l + w + 2 \in Nat /\ n + add <= l + w + 2
      BY <3>1, <3>2
    <3>5. QED
      BY <3>1, <3>3, <3>4
  <2>6. QED
    BY <1>2, <2>1, <2>2, <2>3, <2>4, <2>5
<1>6. QED
  BY <1>3, <1>4, <1>5

-----------------------------------------------------------------------------
(* Room for elements                                                        *)

\* The nodes for some elements
LEMMA CeilIs ==
  ASSUME NEW b \in Nat \ {0}, NEW k \in Nat \ {0}, NEW add, add = (k + b - 1) \div b
  PROVE  add \in Nat /\ 1 <= add /\ add <= k /\ k <= add * b /\ add * b <= k + b - 1
<1>1. PICK p \in Nat : p = k + b - 1
  <2>1. k + b - 1 \in Nat
    OBVIOUS
  <2>2. QED
    BY <2>1
<1>2. add = p \div b
  BY <1>1
<1>3. p \div b \in Nat /\ p % b \in 0 .. b - 1 /\ p = ((p \div b) * b) + (p % b)
  BY DivisionIs
<1>4. PICK a \in Nat : a = add
  BY <1>2, <1>3
<1>5. PICK x \in Nat : x = a * b
  BY ProductGrows
<1>6. PICK rem \in Nat : rem = p % b /\ rem < b /\ p = x + rem
  BY <1>2, <1>3, <1>4, <1>5
<1>7. k <= x /\ x <= k + b - 1
  BY <1>1, <1>6
<1>8. 1 <= a
  <2>1. ASSUME a = 0 PROVE FALSE
    <3>1. x = 0
      BY <1>5, <2>1
    <3>2. QED
      BY <1>7, <3>1
  <2>2. QED
    BY <2>1
<1>9. a <= k
  <2>1. ASSUME k < a PROVE FALSE
    <3>1. k * b + b <= x /\ k * b \in Nat /\ k <= k * b
      <4>1. k * b + b <= a * b /\ k * b \in Nat
        BY <2>1, ProductGrows
      <4>2. PICK d \in Nat : b = d + 1
        <5>1. b - 1 \in Nat /\ b = (b - 1) + 1
          OBVIOUS
        <5>2. QED
          BY <5>1
      <4>3. k * b = k * d + k /\ k * d \in Nat
        BY <4>2
      <4>4. QED
        BY <1>5, <4>1, <4>3
    <3>2. QED
      BY <1>7, <3>1
  <2>2. QED
    BY <2>1
<1>10. QED
  BY <1>4, <1>5, <1>7, <1>8, <1>9

\* More than the room in a node is wanted, before p or behind it, so add nodes are.
WantsBefore(b, p, n, room, add) ==
    room = p % b /\ room < n /\ add = (n - room + b - 1) \div b /\ add <= p \div b
WantsBehind(b, p, n, room, add) ==
    room = b - (p % b) - 1 /\ room < n /\ add = (n - room + b - 1) \div b

\* A position that lies some nodes before another one
LEMMA NodeBefore ==
  ASSUME NEW b \in Nat \ {0}, NEW p \in Nat, NEW n \in Nat, NEW rem \in Nat, NEW add \in Nat,
         WantsBefore(b, p, n, rem, add)
  PROVE  n <= p /\ (p - n) \div b = (p \div b) - add
<1>0. rem = p % b /\ rem < n /\ add = (n - rem + b - 1) \div b /\ add <= p \div b
  BY DEF WantsBefore
<1>1. PICK sn \in Nat, x \in Nat : sn = p \div b /\ x = sn * b /\ p = x + rem /\ rem < b
  <2>1. p \div b \in Nat /\ p % b \in 0 .. b - 1 /\ p = ((p \div b) * b) + (p % b)
    BY DivisionIs
  <2>2. (p \div b) * b \in Nat
    BY <2>1, ProductGrows
  <2>3. QED
    BY <1>0, <2>1, <2>2
<1>2. PICK k \in Nat \ {0} : n = rem + k
  <2>1. n - rem \in Nat \ {0} /\ n = rem + (n - rem)
    BY <1>0
  <2>2. QED
    BY <2>1
<1>3. add = (k + b - 1) \div b
  BY <1>0, <1>2
<1>4. PICK y \in Nat : y = add * b /\ k <= y /\ y <= k + b - 1
  <2>1. add * b \in Nat
    BY ProductGrows
  <2>2. k <= add * b /\ add * b <= k + b - 1
    BY <1>3, CeilIs
  <2>3. QED
    BY <2>1, <2>2
<1>5. PICK d \in Nat : sn = add + d
  <2>1. sn - add \in Nat /\ sn = add + (sn - add)
    BY <1>0, <1>1
  <2>2. QED
    BY <2>1
<1>6. PICK z \in Nat : z = d * b /\ x = y + z
  <2>1. d * b \in Nat /\ (add + d) * b = add * b + d * b
    BY ProductGrows
  <2>2. QED
    BY <1>1, <1>4, <1>5, <2>1
<1>7. PICK q \in Nat : q = p - n /\ p = q + n
  <2>1. x = y + z /\ k <= y /\ p = x + rem /\ n = rem + k
    BY <1>1, <1>2, <1>4, <1>6
  <2>2. p - n \in Nat /\ p = (p - n) + n
    BY <2>1
  <2>3. QED
    BY <2>2
<1>8. z <= q /\ q < z + b
  <2>1. x = y + z /\ k <= y /\ y <= k + b - 1 /\ p = x + rem /\ n = rem + k
    BY <1>1, <1>2, <1>4, <1>6
  <2>2. QED
    BY <1>7, <2>1
<1>9. q \div b = d
  BY <1>6, <1>8, NodeIs
<1>10. n <= p
  BY <1>7
<1>11. d = sn - add
  BY <1>5
<1>12. QED
  BY <1>1, <1>7, <1>9, <1>10, <1>11

\* A position that lies some nodes behind another one
LEMMA NodeBehind ==
  ASSUME NEW b \in Nat \ {0}, NEW p \in Nat, NEW n \in Nat, NEW room \in Nat, NEW add \in Nat,
         WantsBehind(b, p, n, room, add), NEW t, t = p + n
  PROVE  t \div b = (p \div b) + add
<1>0. room = b - (p % b) - 1 /\ room < n /\ add = (n - room + b - 1) \div b
  BY DEF WantsBehind
<1>1. PICK sn \in Nat, x \in Nat, rem \in Nat : sn = p \div b /\ x = sn * b /\ rem = p % b /\ p = x + rem /\ rem < b
  <2>1. p \div b \in Nat /\ p % b \in 0 .. b - 1 /\ p = ((p \div b) * b) + (p % b)
    BY DivisionIs
  <2>2. (p \div b) * b \in Nat
    BY <2>1, ProductGrows
  <2>3. QED
    BY <1>0, <2>1, <2>2
<1>2. PICK k \in Nat \ {0} : n = room + k
  <2>1. n - room \in Nat \ {0} /\ n = room + (n - room)
    BY <1>0
  <2>2. QED
    BY <2>1
<1>3. add = (k + b - 1) \div b
  BY <1>0, <1>2
<1>4. PICK u \in Nat : u = k + b - 1
  <2>1. k + b - 1 \in Nat
    OBVIOUS
  <2>2. QED
    BY <2>1
<1>5. PICK y \in Nat : y = add * b /\ y <= u /\ u < y + b
  <2>1. (add * b <= u /\ u < add * b + b) <=> u \div b = add
    BY NodeIs
  <2>2. add * b \in Nat
    BY ProductGrows
  <2>3. QED
    BY <1>3, <1>4, <2>1, <2>2
<1>6. PICK z \in Nat : z = (sn + add) * b /\ z = x + y
  <2>1. (sn + add) * b = sn * b + add * b /\ (sn + add) * b \in Nat
    OBVIOUS
  <2>2. QED
    BY <1>1, <1>5, <2>1
<1>7. PICK q \in Nat : q = p + n
  OBVIOUS
<1>8. z <= q /\ q < z + b
  <2>1. z = x + y /\ p = x + rem /\ room = b - rem - 1 /\ n = room + k /\ u = k + b - 1 /\ y <= u /\ u < y + b
    BY <1>0, <1>1, <1>2, <1>4, <1>5, <1>6
  <2>2. q = x + u
    BY <1>7, <2>1
  <2>3. QED
    BY <2>1, <2>2
<1>9. q \div b = sn + add
  <2>0. sn + add \in Nat
    OBVIOUS
  <2>1. PICK h \in Nat : h = sn + add
    BY <2>0
  <2>2. h * b <= q /\ q < h * b + b
    BY <1>6, <1>8, <2>1
  <2>3. QED
    BY <2>1, <2>2, NodeIs
<1>10. QED
  BY <1>1, <1>7, <1>9
\* The deque holds s, and n more positions before it, or behind it, are in its nodes.
FrontRoom(m, F, R, n, s) ==
    /\ n <= m.start /\ m.finish = m.start + Len(s)
    /\ Laid(m, F, R, NodeOf(m, m.start - n), FinishNode(m) + 1, m.start, s)

BackRoom(m, F, R, n, s) ==
    /\ m.finish = m.start + Len(s)
    /\ Laid(m, F, R, StartNode(m), NodeOf(m, m.finish + n) + 1, m.start, s)

\* A map with room for nodes before the first one, or no memory for a larger map
LEMMA ReserveMapAtFrontDoes ==
  ASSUME NEW F, Framed(F), NEW R, NEW m, NEW s, Holds(m, F, R, s), ~ m.threw, NEW add \in Nat,
         NEW r, r = ReserveMapAtFront(m, add)
  PROVE  Holds(r, F, R, s) /\ Reseated(r, m, F, R) /\ (~ r.threw => add <= StartNode(r))
<1>1. StartNode(m) \in Nat
  BY HoldsParts
<1>2. CASE add > StartNode(m)
  <2>1. r = ReallocateMap(m, add, TRUE)
    BY <1>2 DEF ReserveMapAtFront
  <2>2. QED
    BY <2>1, ReallocateDoes
<1>3. CASE ~ (add > StartNode(m))
  <2>1. r = m /\ add <= StartNode(m)
    BY <1>1, <1>3 DEF ReserveMapAtFront
  <2>2. QED
    BY <2>1 DEF Reseated
<1>4. QED
  BY <1>2, <1>3

\* The same for nodes behind the last one
LEMMA ReserveMapAtBackDoes ==
  ASSUME NEW F, Framed(F), NEW R, NEW m, NEW s, Holds(m, F, R, s), ~ m.threw, NEW add \in Nat,
         NEW r, r = ReserveMapAtBack(m, add)
  PROVE  Holds(r, F, R, s) /\ Reseated(r, m, F, R) /\ (~ r.threw => FinishNode(r) + 1 + add <= Len(r.map))
<1>1. FinishNode(m) \in Nat /\ Len(m.map) \in Nat /\ FinishNode(m) < Len(m.map)
  BY HoldsParts
<1>2. CASE add + 1 > Len(m.map) - FinishNode(m)
  <2>1. r = ReallocateMap(m, add, FALSE)
    BY <1>2 DEF ReserveMapAtBack
  <2>2. QED
    BY <2>1, ReallocateDoes
<1>3. CASE ~ (add + 1 > Len(m.map) - FinishNode(m))
  <2>1. r = m
    BY <1>3 DEF ReserveMapAtBack
  <2>2. FinishNode(m) + 1 + add <= Len(m.map)
    BY <1>1, <1>3
  <2>3. QED
    BY <2>1, <2>2 DEF Reseated
<1>4. QED
  BY <1>2, <1>3

\* Positions of the deque's own nodes are room.
LEMMA RoomAtOnce ==
  ASSUME NEW F, Framed(F), NEW R, NEW m, NEW s, Holds(m, F, R, s), NEW n \in Nat
  PROVE  /\ RoomAtFront(m) \in Nat /\ RoomAtBack(m) \in Nat
         /\ RoomAtFront(m) = m.start % F.buf /\ RoomAtBack(m) = F.buf - (m.finish % F.buf) - 1
         /\ n <= RoomAtFront(m) => FrontRoom(m, F, R, n, s)
         /\ n <= RoomAtBack(m) => BackRoom(m, F, R, n, s)
<1>1. /\ Laid(m, F, R, StartNode(m), FinishNode(m) + 1, m.start, s) /\ m.buf = F.buf /\ F.buf \in Nat \ {0}
      /\ m.start \in Nat /\ m.finish \in Nat /\ m.finish = m.start + Len(s)
      /\ StartNode(m) \in Nat /\ FinishNode(m) \in Nat
  BY HoldsParts
<1>2. PICK p \in Nat, q \in Nat, lo \in Nat, fin \in Nat :
        p = m.start /\ q = m.finish /\ lo = StartNode(m) /\ fin = FinishNode(m)
  BY <1>1
<1>3. lo = p \div F.buf /\ fin = q \div F.buf
  BY <1>1, <1>2 DEF StartNode, FinishNode, NodeOf
<1>4. PICK x \in Nat, i \in Nat : x = lo * F.buf /\ i = p % F.buf /\ p = x + i /\ i < F.buf
  <2>1. p % F.buf \in 0 .. F.buf - 1 /\ p = ((p \div F.buf) * F.buf) + (p % F.buf)
    BY <1>1, DivisionIs
  <2>2. lo * F.buf \in Nat
    BY <1>1, ProductGrows
  <2>3. p % F.buf \in Nat /\ p % F.buf < F.buf
    BY <1>1, <2>1
  <2>4. p = (lo * F.buf) + (p % F.buf)
    BY <1>3, <2>1
  <2>5. QED
    BY <2>2, <2>3, <2>4
<1>5. PICK y \in Nat, j \in Nat : y = fin * F.buf /\ j = q % F.buf /\ q = y + j /\ j < F.buf
  <2>1. q % F.buf \in 0 .. F.buf - 1 /\ q = ((q \div F.buf) * F.buf) + (q % F.buf)
    BY <1>1, DivisionIs
  <2>2. fin * F.buf \in Nat
    BY <1>1, ProductGrows
  <2>3. q % F.buf \in Nat /\ q % F.buf < F.buf
    BY <1>1, <2>1
  <2>4. q = (fin * F.buf) + (q % F.buf)
    BY <1>3, <2>1
  <2>5. QED
    BY <2>2, <2>3, <2>4
<1>6. RoomAtFront(m) = i /\ RoomAtBack(m) = F.buf - j - 1 /\ F.buf - j - 1 \in Nat
  <2>1. RoomAtFront(m) = i
    BY <1>1, <1>2, <1>4 DEF RoomAtFront
  <2>2. RoomAtBack(m) = F.buf - (q % F.buf) - 1
    BY <1>1, <1>2 DEF RoomAtBack
  <2>3. j = q % F.buf /\ j < F.buf
    BY <1>5
  <2>4. F.buf - j - 1 \in Nat
    BY <1>1, <2>3
  <2>5. QED
    BY <2>1, <2>2, <2>3, <2>4
<1>7. ASSUME n <= i PROVE FrontRoom(m, F, R, n, s)
  <2>1. PICK k \in Nat : k = p - n /\ n <= p
    BY <1>4, <1>7
  <2>2. x <= k /\ k < x + F.buf
    <3>1. p = x + i /\ i < F.buf /\ F.buf \in Nat
      BY <1>1, <1>4
    <3>2. QED
      BY <1>7, <2>1, <3>1
  <2>3. k \div F.buf = lo
    BY <1>1, <1>4, <2>2, NodeIs
  <2>4. NodeOf(m, m.start - n) = StartNode(m)
    BY <1>1, <1>2, <2>1, <2>3 DEF NodeOf
  <2>5. QED
    BY <1>1, <1>2, <2>1, <2>4 DEF FrontRoom
<1>8. ASSUME n <= F.buf - j - 1 PROVE BackRoom(m, F, R, n, s)
  <2>1. PICK k \in Nat : k = q + n
    OBVIOUS
  <2>2. y <= k /\ k < y + F.buf
    <3>1. q = y + j /\ j < F.buf /\ F.buf \in Nat
      BY <1>1, <1>5
    <3>2. QED
      BY <1>8, <2>1, <3>1
  <2>3. k \div F.buf = fin
    BY <1>1, <1>5, <2>2, NodeIs
  <2>4. NodeOf(m, m.finish + n) = FinishNode(m)
    BY <1>1, <1>2, <2>1, <2>3 DEF NodeOf
  <2>5. QED
    BY <1>1, <2>4 DEF BackRoom
<1>9. QED
  BY <1>1, <1>2, <1>4, <1>5, <1>6, <1>7, <1>8
\* What is laid out between its iterators is what the deque holds.
LEMMA LaidHolds ==
  ASSUME NEW F, Framed(F), NEW R, NEW m, NEW s, NEW lo, NEW up, NEW f, Laid(m, F, R, lo, up, f, s),
         m.start = f, m.finish = f + Len(s), lo = f \div F.buf, up = (m.finish \div F.buf) + 1
  PROVE  Holds(m, F, R, s)
<1>1. m \in Memories(F)
  BY LaidParts
<1>2. m.buf = F.buf
  BY <1>1, MemoryParts
<1>3. StartNode(m) = lo /\ FinishNode(m) + 1 = up
  BY <1>2 DEF StartNode, FinishNode, NodeOf
<1>4. QED
  BY <1>3 DEF Holds

\* _M_reserve_elements_at_front: the positions are there, or there is no memory for them.
LEMMA ReserveElementsAtFrontDoes ==
  ASSUME NEW F, Framed(F), NEW R, NEW m, NEW s, Holds(m, F, R, s), ~ m.threw, NEW n \in Nat,
         m.next + n <= F.last + 1, NEW r, r = ReserveElementsAtFront(m, n)
  PROVE  (r.threw => Holds(r, F, R, s)) /\ (~ r.threw => FrontRoom(r, F, R, n, s))
<1>1. PICK room \in Nat : room = RoomAtFront(m) /\ room = m.start % F.buf
  BY RoomAtOnce
<1>2. CASE n <= room
  <2>1. r = m
    BY <1>1, <1>2 DEF ReserveElementsAtFront
  <2>2. QED
    BY <1>1, <1>2, <2>1, RoomAtOnce
<1>3. CASE room < n
  <2>1. m \in Memories(F) /\ m.buf = F.buf /\ F.buf \in Nat \ {0}
    BY HoldsParts
  <2>2. PICK k \in Nat \ {0} : k = n - room /\ k <= n
    BY <1>3
  <2>3. PICK add \in Nat : add = (k + F.buf - 1) \div F.buf /\ add <= k /\ 1 <= add
    <3>1. PICK b \in Nat \ {0} : b = F.buf
      BY <2>1
    <3>2. PICK add : add = (k + b - 1) \div b
      OBVIOUS
    <3>3. add \in Nat /\ add <= k /\ 1 <= add
      BY <3>2, CeilIs
    <3>4. QED
      BY <3>1, <3>2, <3>3
  <2>4. NodesFor(m, k) = add
    BY <2>1, <2>3 DEF NodesFor
  <2>5. r = NodesBefore(ReserveMapAtFront(m, add), add)
    BY <1>1, <1>3, <2>2, <2>4 DEF ReserveElementsAtFront, NewElementsAtFront
  <2>6. PICK q : q = ReserveMapAtFront(m, add)
    OBVIOUS
  <2>7. Holds(q, F, R, s) /\ Reseated(q, m, F, R) /\ (~ q.threw => add <= StartNode(q))
    BY <2>6, ReserveMapAtFrontDoes
  <2>8. r = NewNodes(q, StartNode(q) - add, StartNode(q))
    BY <2>5, <2>6 DEF NodesBefore
  <2>9. CASE q.threw
    BY <2>7, <2>8, <2>9 DEF NewNodes
  <2>10. CASE ~ q.threw
    <3>1. /\ Laid(q, F, R, StartNode(q), FinishNode(q) + 1, q.start, s) /\ q.buf = F.buf
          /\ q.start \in Nat /\ q.finish \in Nat /\ q.finish = q.start + Len(s)
          /\ StartNode(q) \in Nat /\ FinishNode(q) \in Nat
          /\ StartNode(q) <= FinishNode(q) /\ FinishNode(q) < Len(q.map) /\ Len(q.map) \in Nat /\ q \in Memories(F)
      BY <2>7, HoldsParts
    <3>2. PICK lo \in Nat, up \in Nat, p \in Nat : lo = StartNode(q) /\ up = FinishNode(q) + 1 /\ p = q.start
      BY <3>1
    <3>3. PICK lo2 \in Nat : lo2 = lo - add /\ lo = lo2 + add
      <4>1. add <= lo
        BY <2>7, <2>10, <3>2
      <4>2. lo - add \in Nat /\ lo = (lo - add) + add
        BY <4>1
      <4>3. QED
        BY <4>2
    <3>4. lo <= up /\ up <= Len(q.map)
      BY <3>1, <3>2
    <3>5. Beside(lo, up, lo2, lo, lo2, up)
      BY <3>3, <3>4 DEF Beside
    <3>6. q.next + (lo - lo2) <= F.last + 1
      <4>1. q.next = m.next /\ m.next \in Nat /\ F.last \in Nat
        BY <2>1, <2>7, MemoryParts DEF Reseated
      <4>2. lo - lo2 = add
        BY <3>3
      <4>3. add <= n
        BY <2>2, <2>3
      <4>4. QED
        BY <4>1, <4>2, <4>3
    <3>7. r = NewNodes(q, lo2, lo)
      BY <2>8, <3>2, <3>3
    <3>8. Laid(q, F, R, lo, up, p, s)
      BY <3>1, <3>2
    <3>9. /\ NodesKept(r, q, R)
          /\ ~ r.threw => Laid(r, F, R, lo2, up, p, s)
          /\ r.threw => Laid(r, F, R, lo, up, p, s)
      BY <2>10, <3>4, <3>5, <3>6, <3>7, <3>8, NewNodesDoes
    <3>10. r.start = p /\ r.finish = q.finish /\ r.finish = p + Len(s)
      BY <3>1, <3>2, <3>9 DEF NodesKept
    <3>11. lo = p \div F.buf /\ up = (r.finish \div F.buf) + 1
      BY <3>1, <3>2, <3>10 DEF StartNode, FinishNode, NodeOf
    <3>12. r.threw => Holds(r, F, R, s)
      BY <3>9, <3>10, <3>11, LaidHolds
    <3>13. ASSUME ~ r.threw PROVE FrontRoom(r, F, R, n, s)
      <4>1. r \in Memories(F)
        BY <3>9, <3>13, LaidParts
      <4>2. r.buf = F.buf
        BY <4>1, MemoryParts
      <4>3. room = p % F.buf
        BY <1>1, <2>7, <3>2 DEF Reseated
      <4>4. n <= p /\ (p - n) \div F.buf = (p \div F.buf) - add
        <5>1. add = (n - room + F.buf - 1) \div F.buf
          BY <2>2, <2>3
        <5>2. add <= p \div F.buf
          BY <2>7, <2>10, <3>2, <3>11
        <5>3. PICK b \in Nat \ {0} : b = F.buf
          BY <2>1
        <5>4. WantsBefore(b, p, n, room, add)
          BY <1>3, <4>3, <5>1, <5>2, <5>3 DEF WantsBefore
        <5>5. n <= p /\ (p - n) \div b = (p \div b) - add
          BY <5>4, NodeBefore
        <5>6. QED
          BY <5>3, <5>5
      <4>5. NodeOf(r, r.start - n) = lo2
        BY <3>3, <3>10, <3>11, <4>2, <4>4 DEF NodeOf
      <4>6. FinishNode(r) + 1 = up
        BY <3>11, <4>2 DEF FinishNode, NodeOf
      <4>7. QED
        BY <3>9, <3>10, <3>13, <4>4, <4>5, <4>6 DEF FrontRoom
    <3>14. QED
      BY <3>12, <3>13
  <2>11. QED
    BY <2>9, <2>10
<1>4. QED
  BY <1>2, <1>3

\* _M_reserve_elements_at_back
LEMMA ReserveElementsAtBackDoes ==
  ASSUME NEW F, Framed(F), NEW R, NEW m, NEW s, Holds(m, F, R, s), ~ m.threw, NEW n \in Nat,
         m.next + n <= F.last + 1, NEW r, r = ReserveElementsAtBack(m, n)
  PROVE  (r.threw => Holds(r, F, R, s)) /\ (~ r.threw => BackRoom(r, F, R, n, s))
<1>1. PICK room \in Nat : room = RoomAtBack(m) /\ room = F.buf - (m.finish % F.buf) - 1
  BY RoomAtOnce
<1>2. CASE n <= room
  <2>1. r = m
    BY <1>1, <1>2 DEF ReserveElementsAtBack
  <2>2. QED
    BY <1>1, <1>2, <2>1, RoomAtOnce
<1>3. CASE room < n
  <2>1. m \in Memories(F) /\ m.buf = F.buf /\ F.buf \in Nat \ {0}
    BY HoldsParts
  <2>2. PICK k \in Nat \ {0} : k = n - room /\ k <= n
    BY <1>3
  <2>3. PICK add \in Nat : add = (k + F.buf - 1) \div F.buf /\ add <= k /\ 1 <= add
    <3>1. PICK b \in Nat \ {0} : b = F.buf
      BY <2>1
    <3>2. PICK add : add = (k + b - 1) \div b
      OBVIOUS
    <3>3. add \in Nat /\ add <= k /\ 1 <= add
      BY <3>2, CeilIs
    <3>4. QED
      BY <3>1, <3>2, <3>3
  <2>4. NodesFor(m, k) = add
    BY <2>1, <2>3 DEF NodesFor
  <2>5. r = NodesBehind(ReserveMapAtBack(m, add), add)
    BY <1>1, <1>3, <2>2, <2>4 DEF ReserveElementsAtBack, NewElementsAtBack
  <2>6. PICK q : q = ReserveMapAtBack(m, add)
    OBVIOUS
  <2>7. Holds(q, F, R, s) /\ Reseated(q, m, F, R) /\ (~ q.threw => FinishNode(q) + 1 + add <= Len(q.map))
    BY <2>6, ReserveMapAtBackDoes
  <2>8. r = NewNodes(q, FinishNode(q) + 1, FinishNode(q) + 1 + add)
    BY <2>5, <2>6 DEF NodesBehind
  <2>9. CASE q.threw
    BY <2>7, <2>8, <2>9 DEF NewNodes
  <2>10. CASE ~ q.threw
    <3>1. /\ Laid(q, F, R, StartNode(q), FinishNode(q) + 1, q.start, s) /\ q.buf = F.buf
          /\ q.start \in Nat /\ q.finish \in Nat /\ q.finish = q.start + Len(s)
          /\ StartNode(q) \in Nat /\ FinishNode(q) \in Nat
          /\ StartNode(q) <= FinishNode(q) /\ FinishNode(q) < Len(q.map) /\ Len(q.map) \in Nat /\ q \in Memories(F)
      BY <2>7, HoldsParts
    <3>2. PICK lo \in Nat, up \in Nat, up2 \in Nat, p \in Nat, e \in Nat :
            lo = StartNode(q) /\ up = FinishNode(q) + 1 /\ up2 = up + add /\ p = q.start /\ e = q.finish
      <4>1. PICK fin \in Nat : fin = FinishNode(q)
        BY <3>1
      <4>2. fin + 1 \in Nat /\ fin + 1 + add \in Nat
        OBVIOUS
      <4>3. QED
        BY <3>1, <4>1, <4>2
    <3>4. lo <= up /\ up2 <= Len(q.map) /\ up <= up2 /\ lo <= up2
      BY <2>7, <2>10, <3>1, <3>2
    <3>5. Beside(lo, up, up, up2, lo, up2)
      BY <3>4 DEF Beside
    <3>6. q.next + (up2 - up) <= F.last + 1
      <4>1. q.next = m.next /\ m.next \in Nat /\ F.last \in Nat
        BY <2>1, <2>7, MemoryParts DEF Reseated
      <4>2. up2 - up = add
        BY <3>2
      <4>3. add <= n
        BY <2>2, <2>3
      <4>4. QED
        BY <4>1, <4>2, <4>3
    <3>7. r = NewNodes(q, up, up2)
      BY <2>8, <3>2
    <3>8. Laid(q, F, R, lo, up, p, s)
      BY <3>1, <3>2
    <3>9. /\ NodesKept(r, q, R)
          /\ ~ r.threw => Laid(r, F, R, lo, up2, p, s)
          /\ r.threw => Laid(r, F, R, lo, up, p, s)
      BY <2>10, <3>4, <3>5, <3>6, <3>7, <3>8, NewNodesDoes
    <3>10. r.start = p /\ r.finish = e /\ e = p + Len(s)
      BY <3>1, <3>2, <3>9 DEF NodesKept
    <3>11. lo = p \div F.buf /\ up = (e \div F.buf) + 1
      BY <3>1, <3>2 DEF StartNode, FinishNode, NodeOf
    <3>12. r.threw => Holds(r, F, R, s)
      BY <3>9, <3>10, <3>11, LaidHolds
    <3>13. ASSUME ~ r.threw PROVE BackRoom(r, F, R, n, s)
      <4>1. r \in Memories(F)
        BY <3>9, <3>13, LaidParts
      <4>2. r.buf = F.buf
        BY <4>1, MemoryParts
      <4>3. room = F.buf - (e % F.buf) - 1
        BY <1>1, <2>7, <3>2 DEF Reseated
      <4>4. (e + n) \div F.buf = (e \div F.buf) + add
        <5>1. add = (n - room + F.buf - 1) \div F.buf
          BY <2>2, <2>3
        <5>2. PICK b \in Nat \ {0} : b = F.buf
          BY <2>1
        <5>3. WantsBehind(b, e, n, room, add)
          BY <1>3, <4>3, <5>1, <5>2 DEF WantsBehind
        <5>4. PICK t : t = e + n
          OBVIOUS
        <5>5. t \div b = (e \div b) + add
          BY <5>3, <5>4, NodeBehind
        <5>6. QED
          BY <5>2, <5>4, <5>5
      <4>5. e \div F.buf \in Nat
        BY <2>1, DivisionIs
      <4>6. NodeOf(r, r.finish + n) + 1 = up2
        BY <3>2, <3>10, <3>11, <4>2, <4>4, <4>5 DEF NodeOf
      <4>7. StartNode(r) = lo
        BY <3>10, <3>11, <4>2 DEF StartNode, NodeOf
      <4>8. QED
        BY <3>9, <3>10, <3>13, <4>6, <4>7 DEF BackRoom
    <3>14. QED
      BY <3>12, <3>13
  <2>11. QED
    BY <2>9, <2>10
<1>4. QED
  BY <1>2, <1>3

-----------------------------------------------------------------------------
(* Elements at the ends                                                     *)

\* Moving an iterator leaves the nodes and what they hold.
LEMMA IteratorsLaid ==
  ASSUME NEW F, NEW R, NEW lo, NEW up, NEW m, NEW f, NEW w, Laid(m, F, R, lo, up, f, w),
         NEW r \in Memories(F), r.mem = m.mem, r.map = m.map, r.next = m.next
  PROVE  Laid(r, F, R, lo, up, f, w)
<1>1. Mapped(r, F, R, lo, up)
  BY DEF Laid, Mapped
<1>2. \A p : Held(r, F, p) = Held(m, F, p)
  BY DEF Held
<1>3. QED
  BY <1>1, <1>2 DEF Laid

\* Nodes are in the order of the positions.
LEMMA NodeOrder ==
  ASSUME NEW b \in Nat \ {0}, NEW p \in Nat, NEW q \in Nat, p <= q
  PROVE  /\ p \div b \in Nat /\ q \div b \in Nat /\ p \div b <= q \div b
         /\ (p \div b) * b <= p /\ q <= ((q \div b) + 1) * b
<1>1. PICK i \in Nat, j \in Nat : i = p \div b /\ j = q \div b
  BY DivisionIs
<1>2. PICK x \in Nat, y \in Nat : x = i * b /\ y = j * b
  BY ProductGrows
<1>3. x <= p /\ q < y + b
  BY <1>1, <1>2, NodeIs
<1>4. (j + 1) * b = y + b
  BY <1>2, ProductGrows
<1>5. i <= j
  <2>1. ASSUME j < i PROVE FALSE
    <3>1. y + b <= x
      BY <1>2, <2>1, ProductGrows
    <3>2. QED
      BY <1>3, <3>1
  <2>2. QED
    BY <2>1
<1>6. QED
  BY <1>1, <1>2, <1>3, <1>4, <1>5

\* Elements before _M_start: they are there, or the deque is as it was.
LEMMA BuildAtFrontDoes ==
  ASSUME NEW F, Framed(F), NEW R, NEW m, NEW s, ~ m.threw, NEW values \in Seq(F.values),
         NEW n \in Nat, n = Len(values), FrontRoom(m, F, R, n, s), NEW r, r = BuildAtFront(m, values)
  PROVE  (r.threw => Holds(r, F, R, s)) /\ (~ r.threw => Holds(r, F, R, values \o s))
<1>1. /\ n <= m.start /\ m.finish = m.start + Len(s)
      /\ Laid(m, F, R, NodeOf(m, m.start - n), FinishNode(m) + 1, m.start, s)
  BY DEF FrontRoom
<1>2. /\ m \in Memories(F) /\ m.start \in Nat /\ s \in Seq(F.values) /\ Len(s) \in Nat
      /\ Within(F, NodeOf(m, m.start - n), FinishNode(m) + 1, m.start, m.start + Len(s))
  BY <1>1, LaidParts
<1>3. m.buf = F.buf /\ m.finish \in Nat /\ F.buf \in Nat \ {0}
  BY <1>2, MemoryParts DEF Framed
<1>4. PICK p \in Nat, e \in Nat, from \in Nat : p = m.start /\ e = m.finish /\ from = p - n /\ from + n = p
  <2>1. m.start - n \in Nat /\ (m.start - n) + n = m.start
    BY <1>1, <1>2
  <2>2. QED
    BY <1>2, <1>3, <2>1
<1>5. PICK lo \in Nat, sn \in Nat, fin \in Nat, up \in Nat :
        lo = from \div F.buf /\ sn = p \div F.buf /\ fin = e \div F.buf /\ up = fin + 1
  <2>1. from \div F.buf \in Nat /\ p \div F.buf \in Nat /\ e \div F.buf \in Nat
    BY <1>3, DivisionIs
  <2>2. QED
    BY <2>1
<1>6. lo = NodeOf(m, m.start - n) /\ sn = StartNode(m) /\ up = FinishNode(m) + 1
  BY <1>3, <1>4, <1>5 DEF StartNode, FinishNode, NodeOf
<1>7. Laid(m, F, R, lo, up, p, s) /\ Within(F, lo, up, p, e) /\ e = p + Len(s)
  BY <1>1, <1>2, <1>4, <1>6
<1>8. from <= p /\ p <= e /\ lo <= sn /\ sn <= fin /\ sn <= up /\ lo <= up /\ lo * F.buf <= from /\ sn * F.buf <= p
  <2>1. from <= p /\ p <= e
    BY <1>2, <1>4, <1>7
  <2>2. lo <= sn /\ lo * F.buf <= from
    BY <1>3, <1>5, <2>1, NodeOrder
  <2>3. sn <= fin /\ sn * F.buf <= p
    BY <1>3, <1>5, <2>1, NodeOrder
  <2>4. QED
    BY <1>5, <2>1, <2>2, <2>3
<1>9. /\ Within(F, lo, up, from, p) /\ Within(F, sn, up, p, e)
  <2>1. p <= up * F.buf /\ e <= up * F.buf
    <3>1. e <= up * F.buf /\ up * F.buf \in Nat
      BY <1>3, <1>7, ProductGrows DEF Within
    <3>2. QED
      BY <1>8, <3>1
  <2>2. QED
    BY <1>8, <2>1 DEF Within
<1>10. PICK u : u = UninitializedCopy(m, values, At(m, from, p))
  OBVIOUS
<1>11. /\ Kept(u, m, R)
       /\ ~ u.threw => Laid(u, F, R, lo, up, from, values \o s)
       /\ u.threw => Laid(u, F, R, lo, up, p, s)
  BY <1>4, <1>7, <1>9, <1>10, BeforeDoes
<1>12. u \in Memories(F) /\ u.start = p /\ u.finish = e
  <2>1. u \in Memories(F)
    BY <1>11, LaidParts
  <2>2. QED
    BY <1>4, <1>11, <2>1 DEF Kept, SameIterators
<1>13. u.buf = F.buf
  BY <1>12, MemoryParts
<1>14. r = NewStart(u, from)
  BY <1>4, <1>10 DEF BuildAtFront
<1>15. CASE ~ u.threw
  <2>1. r = [u EXCEPT !.start = from]
    BY <1>14, <1>15 DEF NewStart
  <2>2. /\ r \in Memories(F) /\ r.mem = u.mem /\ r.map = u.map /\ r.next = u.next /\ r.start = from /\ r.finish = e
        /\ ~ r.threw
    BY <1>12, <1>15, <2>1 DEF Memories
  <2>3. Laid(r, F, R, lo, up, from, values \o s)
    BY <1>11, <1>15, <2>2, IteratorsLaid
  <2>4. e = from + Len(values \o s)
    <3>1. PICK l \in Nat : l = Len(s)
      BY <1>2
    <3>2. Len(values \o s) = n + l
      BY <1>2, <3>1
    <3>3. e = p + l /\ from + n = p
      BY <1>4, <1>7, <3>1
    <3>4. e = from + (n + l)
      BY <3>3
    <3>5. QED
      BY <3>2, <3>4
  <2>5. Holds(r, F, R, values \o s)
    BY <1>5, <2>2, <2>3, <2>4, LaidHolds
  <2>6. QED
    BY <2>2, <2>5
<1>16. CASE u.threw
  <2>1. r = DestroyNodes(u, lo, sn)
    BY <1>5, <1>12, <1>13, <1>14, <1>16 DEF NewStart, StartNode, NodeOf
  <2>2. Beside(sn, up, lo, sn, lo, up)
    BY <1>8 DEF Beside
  <2>3. Laid(u, F, R, lo, up, p, s) /\ Within(F, sn, up, p, p + Len(s))
    BY <1>7, <1>9, <1>11, <1>16
  <2>4. Laid(r, F, R, sn, up, p, s) /\ SameEnds(r, u)
    BY <1>8, <2>1, <2>2, <2>3, DestroyNodesDoes
  <2>5. r.start = p /\ r.finish = p + Len(s) /\ r.finish = e /\ r.threw
    BY <1>7, <1>12, <1>16, <2>4 DEF SameEnds
  <2>6. Holds(r, F, R, s)
    BY <1>5, <2>4, <2>5, LaidHolds
  <2>7. QED
    BY <2>5, <2>6
<1>17. QED
  BY <1>15, <1>16

\* Elements behind _M_finish
LEMMA BuildAtBackDoes ==
  ASSUME NEW F, Framed(F), NEW R, NEW m, NEW s, ~ m.threw, NEW values \in Seq(F.values),
         NEW n \in Nat, n = Len(values), BackRoom(m, F, R, n, s), NEW r, r = BuildAtBack(m, values)
  PROVE  (r.threw => Holds(r, F, R, s)) /\ (~ r.threw => Holds(r, F, R, s \o values))
<1>1. /\ m.finish = m.start + Len(s)
      /\ Laid(m, F, R, StartNode(m), NodeOf(m, m.finish + n) + 1, m.start, s)
  BY DEF BackRoom
<1>2. /\ m \in Memories(F) /\ m.start \in Nat /\ s \in Seq(F.values) /\ Len(s) \in Nat
      /\ Within(F, StartNode(m), NodeOf(m, m.finish + n) + 1, m.start, m.start + Len(s))
  BY <1>1, LaidParts
<1>3. m.buf = F.buf /\ m.finish \in Nat /\ F.buf \in Nat \ {0}
  BY <1>2, MemoryParts DEF Framed
<1>4. PICK p \in Nat, e \in Nat, to \in Nat : p = m.start /\ e = m.finish /\ to = e + n
  <2>1. m.finish + n \in Nat
    BY <1>3
  <2>2. QED
    BY <1>2, <1>3, <2>1
<1>5. PICK lo \in Nat, fin \in Nat, up \in Nat, up2 \in Nat :
        lo = p \div F.buf /\ fin = e \div F.buf /\ up = fin + 1 /\ up2 = (to \div F.buf) + 1
  <2>1. PICK i \in Nat, j \in Nat, k \in Nat : i = to \div F.buf /\ j = p \div F.buf /\ k = e \div F.buf
    <3>1. to \div F.buf \in Nat /\ p \div F.buf \in Nat /\ e \div F.buf \in Nat
      BY <1>3, DivisionIs
    <3>2. QED
      BY <3>1
  <2>2. i + 1 \in Nat /\ k + 1 \in Nat
    OBVIOUS
  <2>3. QED
    BY <2>1, <2>2
<1>6. lo = StartNode(m) /\ fin = FinishNode(m) /\ up2 = NodeOf(m, m.finish + n) + 1
  BY <1>3, <1>4, <1>5 DEF StartNode, FinishNode, NodeOf
<1>7. Laid(m, F, R, lo, up2, p, s) /\ e = p + Len(s)
  BY <1>1, <1>2, <1>4, <1>6
<1>8. /\ p <= e /\ e <= to /\ lo <= fin /\ lo <= up /\ up <= up2
      /\ lo * F.buf <= p /\ to <= up2 * F.buf /\ e <= up * F.buf
  <2>1. p <= e /\ e <= to
    BY <1>2, <1>4, <1>7
  <2>2. lo <= fin /\ lo * F.buf <= p /\ e <= (fin + 1) * F.buf
    BY <1>3, <1>5, <2>1, NodeOrder
  <2>3. fin <= to \div F.buf /\ to <= ((to \div F.buf) + 1) * F.buf /\ to \div F.buf \in Nat
    BY <1>3, <1>5, <2>1, NodeOrder
  <2>4. QED
    BY <1>5, <2>1, <2>2, <2>3
<1>9. /\ Within(F, lo, up2, e, to) /\ Within(F, lo, up, p, e)
  <2>1. lo * F.buf <= e
    <3>1. lo * F.buf \in Nat
      BY <1>3, ProductGrows
    <3>2. QED
      BY <1>8, <3>1
  <2>2. QED
    BY <1>8, <2>1 DEF Within
<1>10. PICK u : u = UninitializedCopy(m, values, At(m, e, to))
  OBVIOUS
<1>11. /\ Kept(u, m, R)
       /\ ~ u.threw => Laid(u, F, R, lo, up2, p, s \o values)
       /\ u.threw => Laid(u, F, R, lo, up2, p, s)
  BY <1>4, <1>7, <1>9, <1>10, BehindDoes
<1>12. u \in Memories(F) /\ u.start = p /\ u.finish = e
  <2>1. u \in Memories(F)
    BY <1>11, LaidParts
  <2>2. QED
    BY <1>4, <1>11, <2>1 DEF Kept, SameIterators
<1>13. u.buf = F.buf
  BY <1>12, MemoryParts
<1>14. r = NewFinish(u, to)
  BY <1>4, <1>10 DEF BuildAtBack
<1>15. CASE ~ u.threw
  <2>1. r = [u EXCEPT !.finish = to]
    BY <1>14, <1>15 DEF NewFinish
  <2>2. /\ r \in Memories(F) /\ r.mem = u.mem /\ r.map = u.map /\ r.next = u.next /\ r.start = p /\ r.finish = to
        /\ ~ r.threw
    BY <1>12, <1>15, <2>1 DEF Memories
  <2>3. Laid(r, F, R, lo, up2, p, s \o values)
    BY <1>11, <1>15, <2>2, IteratorsLaid
  <2>4. to = p + Len(s \o values)
    <3>1. Len(s \o values) = Len(s) + n
      BY <1>2
    <3>2. QED
      BY <1>2, <1>4, <1>7, <3>1
  <2>5. Holds(r, F, R, s \o values)
    BY <1>5, <2>2, <2>3, <2>4, LaidHolds
  <2>6. QED
    BY <2>2, <2>5
<1>16. CASE u.threw
  <2>1. r = DestroyNodes(u, up, up2)
    BY <1>5, <1>12, <1>13, <1>14, <1>16 DEF NewFinish, FinishNode, NodeOf
  <2>2. Beside(lo, up, up, up2, lo, up2)
    BY <1>8 DEF Beside
  <2>3. Laid(u, F, R, lo, up2, p, s) /\ Within(F, lo, up, p, p + Len(s))
    BY <1>7, <1>9, <1>11, <1>16
  <2>4. Laid(r, F, R, lo, up, p, s) /\ SameEnds(r, u)
    BY <1>8, <2>1, <2>2, <2>3, DestroyNodesDoes
  <2>5. r.start = p /\ r.finish = p + Len(s) /\ r.finish = e /\ r.threw
    BY <1>7, <1>12, <1>16, <2>4 DEF SameEnds
  <2>6. Holds(r, F, R, s)
    BY <1>5, <2>4, <2>5, LaidHolds
  <2>7. QED
    BY <2>5, <2>6
<1>17. QED
  BY <1>15, <1>16
\* The first elements go, and the nodes that only they were in.
LEMMA DropFrontDoes ==
  ASSUME NEW F, Framed(F), NEW R, NEW m, NEW s, Holds(m, F, R, s), ~ m.threw, NEW n \in Nat, n <= Len(s),
         NEW r, r = DropFront(m, n)
  PROVE  Holds(r, F, R, Piece(s, n, Len(s))) /\ ~ r.threw
<1>1. /\ Laid(m, F, R, StartNode(m), FinishNode(m) + 1, m.start, s) /\ Len(s) \in Nat
      /\ m \in Memories(F) /\ m.buf = F.buf /\ F.buf \in Nat \ {0} /\ s \in Seq(F.values)
      /\ m.start \in Nat /\ m.finish \in Nat /\ m.finish = m.start + Len(s)
  BY HoldsParts
<1>2. PICK p \in Nat, e \in Nat, to \in Nat, l \in Nat : p = m.start /\ e = m.finish /\ to = p + n /\ l = Len(s)
  <2>1. m.start + n \in Nat
    BY <1>1
  <2>2. QED
    BY <1>1, <2>1
<1>3. p <= to /\ to <= e /\ e = p + l /\ n <= l
  BY <1>1, <1>2
<1>4. PICK lo \in Nat, mid \in Nat, fin \in Nat, up \in Nat :
        lo = p \div F.buf /\ mid = to \div F.buf /\ fin = e \div F.buf /\ up = fin + 1
  <2>1. p \div F.buf \in Nat /\ to \div F.buf \in Nat /\ e \div F.buf \in Nat
    BY <1>1, DivisionIs
  <2>2. QED
    BY <2>1
<1>5. lo = StartNode(m) /\ up = FinishNode(m) + 1 /\ Laid(m, F, R, lo, up, p, s)
  BY <1>1, <1>2, <1>4 DEF StartNode, FinishNode, NodeOf
<1>6. lo <= mid /\ mid <= fin /\ mid <= up /\ lo <= up /\ mid * F.buf <= to /\ to <= e /\ e <= up * F.buf
  <2>1. lo <= mid
    BY <1>1, <1>3, <1>4, NodeOrder
  <2>2. mid <= fin /\ mid * F.buf <= to /\ e <= (fin + 1) * F.buf
    BY <1>1, <1>3, <1>4, NodeOrder
  <2>3. QED
    BY <1>3, <1>4, <2>1, <2>2
<1>7. Within(F, lo, up, p, to) /\ NotRaw(m, F, p, to)
  <2>1. p = p + 0 /\ 0 \in Nat /\ 0 <= n
    OBVIOUS
  <2>2. QED
    BY <1>2, <1>3, <1>5, <2>1, LaidRange
<1>8. PICK d : d = Destroy(m, At(m, p, to))
  OBVIOUS
<1>9. Mapped(m, F, R, lo, up)
  BY <1>5, LaidParts
<1>10. PICK none : none = Times(to - p, Raw)
  OBVIOUS
<1>11. /\ Fit(none, Cellular(F.values), p, to) /\ \A j \in 1 .. to - p : none[j] = Raw
       /\ d = Store(m, none, At(m, p, to))
  BY <1>7, <1>8, <1>9, <1>10, DestroyStores
<1>12. /\ Changed(d, m, F, R, lo, up, p, none) /\ d \in Memories(F) /\ d.threw = m.threw
  BY <1>7, <1>9, <1>11, StoreDoes
<1>13. to - p = n
  BY <1>2
<1>14. Len(none) = n
  BY <1>11, <1>13 DEF Fit
<1>15. PICK rest : rest = Piece(s, n, l)
  OBVIOUS
<1>16. Laid(d, F, R, lo, up, to, rest)
  <2>1. \A j \in 1 .. n : none[j] = Raw
    BY <1>11, <1>13
  <2>2. Laid(d, F, R, lo, up, to, Piece(s, n, Len(s)))
    BY <1>2, <1>3, <1>5, <1>12, <1>14, <2>1, LaidLast
  <2>3. QED
    BY <1>2, <1>15, <2>2
<1>17. rest \in Seq(F.values) /\ Len(rest) = l - n /\ e = to + Len(rest)
  <2>1. rest \in Seq(F.values) /\ Len(rest) = l - n
    <3>1. n <= l /\ l <= Len(s) /\ s \in Seq(F.values)
      BY <1>1, <1>2, <1>3
    <3>2. Piece(s, n, l) \in Seq(F.values) /\ Len(Piece(s, n, l)) = l - n
      BY <3>1, PieceAre
    <3>3. QED
      BY <1>15, <3>2
  <2>2. e = to + (l - n)
    BY <1>2, <1>3
  <2>3. QED
    BY <2>1, <2>2
<1>18. Within(F, mid, up, to, to + Len(rest))
  BY <1>6, <1>17 DEF Within
<1>19. PICK q : q = DestroyNodes(d, lo, mid)
  OBVIOUS
<1>20. Laid(q, F, R, mid, up, to, rest) /\ NodesKept(q, d, R) /\ q \in Memories(F) /\ SameEnds(q, d)
  <2>1. Beside(mid, up, lo, mid, lo, up)
    BY <1>6 DEF Beside
  <2>2. QED
    BY <1>6, <1>16, <1>18, <1>19, <2>1, DestroyNodesDoes
<1>21. d.start = p /\ d.finish = e /\ ~ d.threw
  BY <1>2, <1>12 DEF Changed, SameIterators
<1>22. r = [q EXCEPT !.start = @ + n]
  <2>1. r = [DestroyNodes(d, StartNode(m), NodeOf(m, m.start + n)) EXCEPT !.start = @ + n]
    BY <1>2, <1>8 DEF DropFront
  <2>2. NodeOf(m, m.start + n) = mid
    BY <1>1, <1>2, <1>4 DEF NodeOf
  <2>3. QED
    BY <1>5, <1>19, <2>1, <2>2
<1>23. q.start = p /\ q.finish = e /\ ~ q.threw
  BY <1>20, <1>21 DEF SameEnds
<1>24. r = [q EXCEPT !.start = to]
  BY <1>2, <1>22, <1>23
<1>25. /\ r \in Memories(F) /\ r.mem = q.mem /\ r.map = q.map /\ r.next = q.next /\ r.start = to /\ r.finish = e
       /\ ~ r.threw
  BY <1>20, <1>23, <1>24 DEF Memories
<1>26. Laid(r, F, R, mid, up, to, rest)
  BY <1>20, <1>25, IteratorsLaid
<1>27. Holds(r, F, R, rest)
  BY <1>4, <1>17, <1>25, <1>26, LaidHolds
<1>28. QED
  BY <1>2, <1>15, <1>25, <1>27

\* The last elements go. The other map and its nodes, if there is one, stay.
LEMMA DropBackDoes ==
  ASSUME NEW F, Framed(F), NEW R, NEW m, NEW s, Holds(m, F, R, s), ~ m.threw, NEW n \in Nat, n <= Len(s),
         NEW k \in Nat, k = Len(s) - n, NEW r, r = DropBack(m, n)
  PROVE  /\ Holds(r, F, R, Piece(s, 0, k)) /\ ~ r.threw /\ r.start = m.start
         /\ \A b \in R : r.mem[b] = m.mem[b]
<1>1. /\ Laid(m, F, R, StartNode(m), FinishNode(m) + 1, m.start, s) /\ Len(s) \in Nat
      /\ m \in Memories(F) /\ m.buf = F.buf /\ F.buf \in Nat \ {0} /\ s \in Seq(F.values)
      /\ m.start \in Nat /\ m.finish \in Nat /\ m.finish = m.start + Len(s)
  BY HoldsParts
<1>2. PICK p \in Nat, e \in Nat, from \in Nat, l \in Nat : p = m.start /\ e = m.finish /\ from = p + k /\ l = Len(s)
  <2>1. m.start + k \in Nat
    BY <1>1
  <2>2. QED
    BY <1>1, <2>1
<1>3. p <= from /\ from <= e /\ e = p + l /\ k <= l /\ l = k + n /\ from = e - n
  <2>1. e = p + l /\ k = l - n /\ n <= l
    BY <1>1, <1>2
  <2>2. from = p + k
    BY <1>2
  <2>3. QED
    BY <2>1, <2>2
<1>4. PICK lo \in Nat, mid \in Nat, fin \in Nat, up \in Nat, up1 \in Nat :
        lo = p \div F.buf /\ mid = from \div F.buf /\ fin = e \div F.buf /\ up = fin + 1 /\ up1 = mid + 1
  <2>1. PICK i \in Nat, j \in Nat, h \in Nat : i = p \div F.buf /\ j = from \div F.buf /\ h = e \div F.buf
    <3>1. p \div F.buf \in Nat /\ from \div F.buf \in Nat /\ e \div F.buf \in Nat
      BY <1>1, DivisionIs
    <3>2. QED
      BY <3>1
  <2>2. j + 1 \in Nat /\ h + 1 \in Nat
    OBVIOUS
  <2>3. QED
    BY <2>1, <2>2
<1>5. lo = StartNode(m) /\ up = FinishNode(m) + 1 /\ Laid(m, F, R, lo, up, p, s)
  BY <1>1, <1>2, <1>4 DEF StartNode, FinishNode, NodeOf
<1>6. lo <= mid /\ mid <= fin /\ lo <= up1 /\ up1 <= up /\ lo <= up /\ lo * F.buf <= p /\ from <= up1 * F.buf
  <2>1. lo <= mid /\ lo * F.buf <= p /\ from <= (mid + 1) * F.buf
    BY <1>1, <1>3, <1>4, NodeOrder
  <2>2. mid <= fin
    BY <1>1, <1>3, <1>4, NodeOrder
  <2>3. QED
    BY <1>4, <2>1, <2>2
<1>7. Within(F, lo, up, from, e) /\ NotRaw(m, F, from, e)
  BY <1>2, <1>3, <1>5, LaidRange
<1>8. PICK d : d = Destroy(m, At(m, from, e))
  OBVIOUS
<1>9. Mapped(m, F, R, lo, up)
  BY <1>5, LaidParts
<1>10. PICK none : none = Times(e - from, Raw)
  OBVIOUS
<1>11. /\ Fit(none, Cellular(F.values), from, e) /\ \A j \in 1 .. e - from : none[j] = Raw
       /\ d = Store(m, none, At(m, from, e))
  BY <1>7, <1>8, <1>9, <1>10, DestroyStores
<1>12. /\ Changed(d, m, F, R, lo, up, from, none) /\ d \in Memories(F) /\ d.threw = m.threw
  BY <1>7, <1>9, <1>11, StoreDoes
<1>14. Len(none) = e - from
  BY <1>11 DEF Fit
<1>15. PICK rest : rest = Piece(s, 0, k)
  OBVIOUS
<1>16. Laid(d, F, R, lo, up, p, rest)
  <2>1. e = p + Len(s) /\ k <= Len(s)
    BY <1>2, <1>3
  <2>2. Laid(d, F, R, lo, up, p, Piece(s, 0, k))
    BY <1>2, <1>5, <1>11, <1>12, <1>14, <2>1, LaidFirst
  <2>3. QED
    BY <1>15, <2>2
<1>17. rest \in Seq(F.values) /\ Len(rest) = k /\ from = p + Len(rest)
  <2>1. rest \in Seq(F.values) /\ Len(rest) = k - 0
    <3>1. PICK S : S = F.values
      OBVIOUS
    <3>2. 0 <= k /\ k <= Len(s) /\ s \in Seq(S) /\ 0 \in Nat
      BY <1>1, <1>2, <1>3, <3>1
    <3>3. Piece(s, 0, k) \in Seq(S) /\ Len(Piece(s, 0, k)) = k - 0
      BY <3>2, PieceAre
    <3>4. QED
      BY <1>15, <3>1, <3>3
  <2>2. QED
    BY <1>2, <2>1
<1>18. Within(F, lo, up1, p, p + Len(rest))
  BY <1>3, <1>6, <1>17 DEF Within
<1>19. PICK q : q = DestroyNodes(d, up1, up)
  OBVIOUS
<1>20. Laid(q, F, R, lo, up1, p, rest) /\ NodesKept(q, d, R) /\ q \in Memories(F) /\ SameEnds(q, d)
  <2>1. Beside(lo, up1, up1, up, lo, up)
    BY <1>6 DEF Beside
  <2>2. QED
    BY <1>6, <1>16, <1>18, <1>19, <2>1, DestroyNodesDoes
<1>21. d.start = p /\ d.finish = e /\ ~ d.threw
  BY <1>2, <1>12 DEF Changed, SameIterators
<1>22. r = [q EXCEPT !.finish = @ - n]
  <2>1. r = [DestroyNodes(d, NodeOf(m, from) + 1, FinishNode(m) + 1) EXCEPT !.finish = @ - n]
    BY <1>2, <1>3, <1>8 DEF DropBack
  <2>2. NodeOf(m, from) + 1 = up1
    BY <1>1, <1>4 DEF NodeOf
  <2>3. QED
    BY <1>5, <1>19, <2>1, <2>2
<1>23. q.start = p /\ q.finish = e /\ ~ q.threw
  BY <1>20, <1>21 DEF SameEnds
<1>24. r = [q EXCEPT !.finish = from]
  BY <1>3, <1>22, <1>23
<1>25. /\ r \in Memories(F) /\ r.mem = q.mem /\ r.map = q.map /\ r.next = q.next /\ r.start = p /\ r.finish = from
       /\ ~ r.threw
  BY <1>20, <1>23, <1>24 DEF Memories
<1>26. Laid(r, F, R, lo, up1, p, rest)
  BY <1>20, <1>25, IteratorsLaid
<1>27. Holds(r, F, R, rest)
  BY <1>4, <1>17, <1>25, <1>26, LaidHolds
<1>28. \A b \in R : r.mem[b] = m.mem[b]
  BY <1>12, <1>20, <1>25 DEF Changed, NodesKept
<1>29. QED
  BY <1>2, <1>15, <1>25, <1>27, <1>28

-----------------------------------------------------------------------------
(* Elements inside                                                          *)

\* What keeps the iterators and lays out as many elements holds them.
LEMMA KeptHolds ==
  ASSUME NEW F, Framed(F), NEW R, NEW m, NEW s, Holds(m, F, R, s), NEW r, Kept(r, m, R), NEW v, Len(v) = Len(s),
         Laid(r, F, R, StartNode(m), FinishNode(m) + 1, m.start, v)
  PROVE  Holds(r, F, R, v)
<1>1. m.buf = F.buf /\ m.finish = m.start + Len(s)
  BY HoldsParts
<1>2. r \in Memories(F) /\ r.start = m.start /\ r.finish = m.finish
  BY LaidParts DEF Kept, SameIterators
<1>3. r.buf = F.buf
  BY <1>2, MemoryParts
<1>4. StartNode(r) = StartNode(m) /\ FinishNode(r) = FinishNode(m)
  BY <1>1, <1>2, <1>3 DEF StartNode, FinishNode, NodeOf
<1>5. QED
  BY <1>1, <1>2, <1>4 DEF Holds

\* Some of the elements are assigned to: all that should be, or others if it throws.
Rewritten(r, F, R, s, i, values) ==
    /\ ~ r.threw => Holds(r, F, R, Over(s, i, values))
    /\ r.threw => \E v \in Seq(F.values) : Len(v) = Len(s) /\ Holds(r, F, R, v)

\* Assigning to some of the elements rewrites them.
LEMMA OverlaidRewritten ==
  ASSUME NEW F, Framed(F), NEW R, NEW m, NEW s, Holds(m, F, R, s), NEW r, Kept(r, m, R),
         NEW i \in Nat, NEW values \in Seq(F.values), i + Len(values) <= Len(s),
         Overlaid(r, F, R, StartNode(m), FinishNode(m) + 1, m.start, s, i, values)
  PROVE  Rewritten(r, F, R, s, i, values)
<1>1. s \in Seq(F.values)
  BY HoldsParts
<1>2. ASSUME ~ r.threw PROVE Holds(r, F, R, Over(s, i, values))
  <2>1. Laid(r, F, R, StartNode(m), FinishNode(m) + 1, m.start, Over(s, i, values))
    BY <1>2 DEF Overlaid
  <2>2. Len(Over(s, i, values)) = Len(s)
    BY <1>1, OverAre
  <2>3. QED
    BY <2>1, <2>2, KeptHolds
<1>3. ASSUME r.threw PROVE \E v \in Seq(F.values) : Len(v) = Len(s) /\ Holds(r, F, R, v)
  <2>1. PICK v \in Seq(F.values) :
          Len(v) = Len(s) /\ Laid(r, F, R, StartNode(m), FinishNode(m) + 1, m.start, v)
    BY <1>3 DEF Overlaid
  <2>2. Holds(r, F, R, v)
    BY <2>1, KeptHolds
  <2>3. QED
    BY <2>1, <2>2
<1>4. QED
  BY <1>2, <1>3 DEF Rewritten

\* Assigning to the elements from an index on
LEMMA PutDoes ==
  ASSUME NEW F, Framed(F), NEW R, NEW m, NEW s, Holds(m, F, R, s), ~ m.threw,
         NEW i \in Nat, NEW values \in Seq(F.values), i + Len(values) <= Len(s), NEW r, r = Put(m, i, values)
  PROVE  Rewritten(r, F, R, s, i, values) /\ r.next = m.next
<1>1. /\ Laid(m, F, R, StartNode(m), FinishNode(m) + 1, m.start, s) /\ m.start \in Nat
  BY HoldsParts
<1>2. PICK from \in Nat, to \in Nat : from = m.start + i /\ to = from + Len(values)
  <2>1. PICK k \in Nat : k = Len(values)
    OBVIOUS
  <2>2. m.start + i \in Nat /\ m.start + i + k \in Nat
    BY <1>1
  <2>3. QED
    BY <2>1, <2>2
<1>3. r = CopyForward(m, values, At(m, from, to))
  BY <1>2 DEF Put, AtIndex
<1>4. Kept(r, m, R) /\ Overlaid(r, F, R, StartNode(m), FinishNode(m) + 1, m.start, s, i, values)
  BY <1>1, <1>2, <1>3, ForwardDoes
<1>5. r.next = m.next
  BY <1>4 DEF Kept, SameIterators
<1>6. QED
  BY <1>4, <1>5, OverlaidRewritten

\* A piece of a sequence of values is one.
LEMMA PieceIs ==
  ASSUME NEW S, NEW s \in Seq(S), NEW from \in Nat, NEW to \in Nat, from <= to, to <= Len(s)
  PROVE  Piece(s, from, to) \in Seq(S) /\ Len(Piece(s, from, to)) = to - from
BY PieceAre

\* Copying n elements to where others are, in either direction
LEMMA MovesDo ==
  ASSUME NEW F, Framed(F), NEW R, NEW m, NEW s, Holds(m, F, R, s), ~ m.threw,
         NEW from \in Nat, NEW n \in Nat, NEW to \in Nat, from + n <= Len(s), to + n <= Len(s)
  PROVE  /\ Piece(s, from, from + n) \in Seq(F.values) /\ Len(Piece(s, from, from + n)) = n
         /\ Rewritten(CopyDown(m, from, n, to), F, R, s, to, Piece(s, from, from + n))
         /\ Rewritten(CopyUp(m, from, n, to), F, R, s, to, Piece(s, from, from + n))
<1>1. /\ Laid(m, F, R, StartNode(m), FinishNode(m) + 1, m.start, s) /\ m.start \in Nat /\ s \in Seq(F.values)
      /\ Len(s) \in Nat
  BY HoldsParts
<1>2. PICK a \in Nat, b \in Nat, c \in Nat, d \in Nat, e \in Nat :
        a = m.start + from /\ e = from + n /\ b = m.start + e /\ c = m.start + to /\ d = c + n
  <2>1. PICK p \in Nat : p = m.start
    BY <1>1
  <2>2. p + from \in Nat /\ from + n \in Nat /\ p + (from + n) \in Nat /\ p + to \in Nat /\ p + to + n \in Nat
    OBVIOUS
  <2>3. QED
    BY <2>1, <2>2
<1>3. from <= e /\ e <= Len(s) /\ e - from = n /\ b = a + n
  BY <1>1, <1>2
<1>4. PICK part : part = Piece(s, from, e)
  OBVIOUS
<1>5. part \in Seq(F.values) /\ Len(part) = n
  <2>1. part \in Seq(F.values) /\ Len(part) = e - from
    <3>1. Piece(s, from, e) \in Seq(F.values) /\ Len(Piece(s, from, e)) = e - from
      BY <1>1, <1>3, PieceIs
    <3>2. QED
      BY <1>4, <3>1
  <2>2. QED
    BY <1>3, <2>1
<1>6. Read(m, AtIndex(m, from, n)) = part
  <2>1. Elems(m, a, b) = part
    BY <1>1, <1>2, <1>3, <1>4, LaidRead
  <2>2. AtIndex(m, from, n) = At(m, a, b)
    <3>1. m.start + from = a /\ a + n = b
      BY <1>2, <1>3
    <3>2. QED
      BY <3>1 DEF AtIndex
  <2>3. QED
    BY <2>1, <2>2 DEF Elems
<1>7. AtIndex(m, to, n) = At(m, c, d)
  BY <1>2 DEF AtIndex
<1>8. to + Len(part) <= Len(s) /\ d = c + Len(part)
  BY <1>2, <1>5
<1>9. PICK r : r = CopyDown(m, from, n, to)
  OBVIOUS
<1>10. r = CopyForward(m, part, At(m, c, d))
  BY <1>6, <1>7, <1>9 DEF CopyDown
<1>11. Kept(r, m, R) /\ Overlaid(r, F, R, StartNode(m), FinishNode(m) + 1, m.start, s, to, part)
  BY <1>1, <1>2, <1>5, <1>8, <1>10, ForwardDoes
<1>12. Rewritten(r, F, R, s, to, part)
  BY <1>5, <1>8, <1>11, OverlaidRewritten
<1>13. PICK q : q = CopyUp(m, from, n, to)
  OBVIOUS
<1>14. q = CopyBackward(m, part, At(m, c, d))
  BY <1>6, <1>7, <1>13 DEF CopyUp
<1>15. Kept(q, m, R) /\ Overlaid(q, F, R, StartNode(m), FinishNode(m) + 1, m.start, s, to, part)
  BY <1>1, <1>2, <1>5, <1>8, <1>14, BackwardDoes
<1>16. Rewritten(q, F, R, s, to, part)
  BY <1>5, <1>8, <1>15, OverlaidRewritten
<1>17. QED
  BY <1>2, <1>4, <1>5, <1>9, <1>12, <1>13, <1>16

\* Once something has thrown, nothing else is done.
LEMMA ThrownStays ==
  ASSUME NEW m, m.threw
  PROVE  /\ \A values : InsertAtFront(m, values) = m /\ InsertAtBack(m, values) = m
         /\ \A i, values : Put(m, i, values) = m
         /\ \A from, n, to : CopyDown(m, from, n, to) = m /\ CopyUp(m, from, n, to) = m
         /\ \A n : DropFront(m, n) = m /\ DropBack(m, n) = m
         /\ LocalCopy(m) = m
<1>1. \A n : ReserveElementsAtFront(m, n) = m /\ ReserveElementsAtBack(m, n) = m
  BY DEF ReserveElementsAtFront, ReserveElementsAtBack, NewElementsAtFront, NewElementsAtBack, NodesBefore,
         NodesBehind, NewNodes, ReserveMapAtFront, ReserveMapAtBack
<1>2. \A values : BuildAtFront(m, values) = m /\ BuildAtBack(m, values) = m
  BY DEF BuildAtFront, BuildAtBack
<1>3. \A values : InsertAtFront(m, values) = m /\ InsertAtBack(m, values) = m
  BY <1>1, <1>2 DEF InsertAtFront, InsertAtBack
<1>4. \A values, at : CopyForward(m, values, at) = m /\ CopyBackward(m, values, at) = m
  BY DEF CopyForward, CopyBackward
<1>5. /\ \A i, values : Put(m, i, values) = m
      /\ \A from, n, to : CopyDown(m, from, n, to) = m /\ CopyUp(m, from, n, to) = m
  BY <1>4 DEF Put, CopyDown, CopyUp
<1>6. \A n : DropFront(m, n) = m /\ DropBack(m, n) = m
  BY DEF DropFront, DropBack
<1>7. LocalCopy(m) = m
  BY DEF LocalCopy
<1>8. QED
  BY <1>3, <1>5, <1>6, <1>7

\* Reading an element
LEMMA ElementIs ==
  ASSUME NEW F, Framed(F), NEW R, NEW m, NEW s, Holds(m, F, R, s), NEW i \in Nat, i < Len(s)
  PROVE  Element(m, i) = s[i + 1] /\ s[i + 1] \in F.values
<1>1. /\ Laid(m, F, R, StartNode(m), FinishNode(m) + 1, m.start, s) /\ m.start \in Nat /\ s \in Seq(F.values)
      /\ Len(s) \in Nat
  BY HoldsParts
<1>2. PICK lo \in Nat, up \in Nat : lo = StartNode(m) /\ up = FinishNode(m) + 1
  BY <1>1, LaidParts
<1>3. PICK p \in Nat, f \in Nat, e \in Nat : f = m.start /\ p = f + i /\ e = f + Len(s)
  <2>1. PICK f \in Nat, l \in Nat : f = m.start /\ l = Len(s)
    BY <1>1
  <2>2. f + i \in Nat /\ f + l \in Nat
    OBVIOUS
  <2>3. QED
    BY <2>1, <2>2
<1>4. f <= p /\ p < e /\ p - f + 1 = i + 1
  BY <1>1, <1>3
<1>5. Mapped(m, F, R, lo, up) /\ Within(F, lo, up, f, e)
  BY <1>1, <1>2, <1>3, LaidParts
<1>6. p \in Positions(F, lo, up)
  BY <1>4, <1>5, InRange
<1>7. Held(m, F, p) = s[p - f + 1]
  BY <1>1, <1>2, <1>3, <1>4, <1>6 DEF Laid
<1>8. Cell(m, Addr(m, p)) = Held(m, F, p)
  BY <1>5, <1>6, AddrIs
<1>9. i + 1 \in 1 .. Len(s)
  BY <1>1
<1>10. Element(m, i) = Cell(m, Addr(m, p))
  BY <1>3 DEF Element
<1>11. Element(m, i) = s[i + 1]
  BY <1>4, <1>7, <1>8, <1>10
<1>12. s[i + 1] \in F.values
  BY <1>1, <1>9
<1>13. QED
  BY <1>11, <1>12

-----------------------------------------------------------------------------
(* Inserting at the ends                                                    *)

\* r holds t, or s if it threw; n blocks are left.
Ends(r, F, R, s, t) == (r.threw => Holds(r, F, R, s)) /\ (~ r.threw => Holds(r, F, R, t))
Fresh(m, F, n) == m.next + n <= F.last + 1

\* A local copy changes nothing but the copies that are left.
LEMMA LocalCopyDoes ==
  ASSUME NEW F, Framed(F), NEW R, NEW m, NEW s, Holds(m, F, R, s), NEW r, r = LocalCopy(m)
  PROVE  /\ Holds(r, F, R, s) /\ r.next = m.next /\ RoomAtFront(r) = RoomAtFront(m)
         /\ RoomAtBack(r) = RoomAtBack(m) /\ Size(r) = Size(m) /\ \A i : Element(r, i) = Element(m, i)
<1>1. CASE m.threw
  BY <1>1 DEF LocalCopy
<1>2. CASE ~ m.threw
  <2>1. r = Spend(m, 1)
    BY <1>2 DEF LocalCopy
  <2>2. Holds(r, F, R, s) /\ r.mem = m.mem /\ SameIterators(r, m)
    BY <2>1, SpendHolds
  <2>3. r.buf = F.buf /\ m.buf = F.buf
    BY <2>2, HoldsParts
  <2>4. \A i : Element(r, i) = Element(m, i)
    BY <2>2, <2>3 DEF SameIterators, Element, Cell, Inside, Addr, BlockAt, NodeOf
  <2>5. QED
    BY <2>2, <2>3, <2>4 DEF SameIterators, RoomAtFront, RoomAtBack, Size
<1>3. QED
  BY <1>1, <1>2

\* Inserting at the front, and at the back
LEMMA InsertAtFrontDoes ==
  ASSUME NEW F, Framed(F), NEW R, NEW m, NEW s, Holds(m, F, R, s), NEW values \in Seq(F.values),
         Fresh(m, F, Len(values)), NEW r, r = InsertAtFront(m, values), ~ m.threw
  PROVE  Ends(r, F, R, s, values \o s)
<1>1. PICK n \in Nat : n = Len(values)
  OBVIOUS
<1>2. PICK q : q = ReserveElementsAtFront(m, n)
  OBVIOUS
<1>3. (q.threw => Holds(q, F, R, s)) /\ (~ q.threw => FrontRoom(q, F, R, n, s))
  BY <1>1, <1>2, ReserveElementsAtFrontDoes DEF Fresh
<1>4. r = BuildAtFront(q, values)
  BY <1>1, <1>2 DEF InsertAtFront
<1>5. CASE q.threw
  BY <1>3, <1>4, <1>5 DEF BuildAtFront, Ends
<1>6. CASE ~ q.threw
  BY <1>1, <1>3, <1>4, <1>6, BuildAtFrontDoes DEF Ends
<1>7. QED
  BY <1>5, <1>6

\* The same behind the last element
LEMMA InsertAtBackDoes ==
  ASSUME NEW F, Framed(F), NEW R, NEW m, NEW s, Holds(m, F, R, s), NEW values \in Seq(F.values),
         Fresh(m, F, Len(values)), NEW r, r = InsertAtBack(m, values), ~ m.threw
  PROVE  Ends(r, F, R, s, s \o values)
<1>1. PICK n \in Nat : n = Len(values)
  OBVIOUS
<1>2. PICK q : q = ReserveElementsAtBack(m, n)
  OBVIOUS
<1>3. (q.threw => Holds(q, F, R, s)) /\ (~ q.threw => BackRoom(q, F, R, n, s))
  BY <1>1, <1>2, ReserveElementsAtBackDoes DEF Fresh
<1>4. r = BuildAtBack(q, values)
  BY <1>1, <1>2 DEF InsertAtBack
<1>5. CASE q.threw
  BY <1>3, <1>4, <1>5 DEF BuildAtBack, Ends
<1>6. CASE ~ q.threw
  BY <1>1, <1>3, <1>4, <1>6, BuildAtBackDoes DEF Ends
<1>7. QED
  BY <1>5, <1>6

\* push_front and push_back
LEMMA PushDoes ==
  ASSUME NEW F, Framed(F), NEW R, NEW m, NEW s, Holds(m, F, R, s), NEW value \in F.values,
         Fresh(m, F, 1)
  PROVE  /\ Ends(PushFront(m, value), F, R, s, << value >> \o s)
         /\ Ends(PushBack(m, value), F, R, s, s \o << value >>)
<1>1. << value >> \in Seq(F.values) /\ Len(<< value >>) = 1
  <2>1. PICK S : S = F.values
    OBVIOUS
  <2>2. value \in S
    BY <2>1
  <2>3. << value >> \in Seq(S)
    BY <2>2
  <2>4. Len(<< value >>) = 1
    OBVIOUS
  <2>5. QED
    BY <2>1, <2>3, <2>4
<1>2. ASSUME NEW q, q = m \/ q = LocalCopy(m)
      PROVE  /\ Ends(InsertAtFront(q, << value >>), F, R, s, << value >> \o s)
             /\ Ends(InsertAtBack(q, << value >>), F, R, s, s \o << value >>)
  <2>1. Holds(q, F, R, s) /\ q.next = m.next
    BY <1>2, LocalCopyDoes
  <2>2. CASE q.threw
    BY <2>1, <2>2, ThrownStays DEF Ends
  <2>3. CASE ~ q.threw
    <3>1. Fresh(q, F, Len(<< value >>))
      BY <1>1, <2>1 DEF Fresh
    <3>2. QED
      BY <1>1, <2>1, <2>3, <3>1, InsertAtFrontDoes, InsertAtBackDoes
  <2>4. QED
    BY <2>2, <2>3
<1>3. QED
  BY <1>2 DEF PushFront, PushBack

-----------------------------------------------------------------------------
(* What the moves make of the sequence                                      *)

\* Replacing the same elements of a sequence by the same values gives the same.
LEMMA SplicedSame ==
  ASSUME NEW S, NEW s \in Seq(S), NEW values \in Seq(S), NEW from \in Nat, NEW to \in Nat, from <= to, to <= Len(s),
         NEW t \in Seq(S), Spliced(t, s, from, to, values), NEW w \in Seq(S), Spliced(w, s, from, to, values)
  PROVE  w = t
<1>1. PICK l \in Nat, n \in Nat, e \in Nat : l = Len(s) /\ n = Len(values) /\ e = l - to
  OBVIOUS
<1>2. Len(t) = from + n + e /\ Len(w) = from + n + e
  BY <1>1 DEF Spliced
<1>3. ASSUME NEW k \in 1 .. Len(t) PROVE w[k] = t[k]
  <2>1. CASE k <= from
    BY <2>1 DEF Spliced
  <2>2. CASE ~ (k <= from) /\ k <= from + n
    <3>1. PICK j \in 1 .. n : k = from + j
      <4>1. k - from \in 1 .. n /\ k = from + (k - from)
        BY <2>2
      <4>2. QED
        BY <4>1
    <3>2. QED
      BY <1>1, <3>1 DEF Spliced
  <2>3. CASE ~ (k <= from + n)
    <3>1. PICK j \in 1 .. e : k = from + n + j
      <4>1. k - (from + n) \in 1 .. e /\ k = from + n + (k - (from + n))
        BY <1>2, <2>3
      <4>2. QED
        BY <4>1
    <3>2. QED
      BY <1>1, <3>1 DEF Spliced
  <2>4. QED
    BY <2>1, <2>2, <2>3
<1>4. QED
  BY <1>2, <1>3

\* A sequence in front of another one, and behind it
LEMMA JoinedSplices ==
  ASSUME NEW S, NEW s \in Seq(S), NEW values \in Seq(S)
  PROVE  /\ values \o s \in Seq(S) /\ Len(values \o s) = Len(s) + Len(values)
         /\ s \o values \in Seq(S) /\ Len(s \o values) = Len(s) + Len(values)
         /\ Spliced(values \o s, s, 0, 0, values) /\ Spliced(s \o values, s, Len(s), Len(s), values)
<1>1. PICK v : v = values \o s
  OBVIOUS
<1>2. Joined(v, S, values, s)
  BY <1>1, JoinedAre
<1>3. v \in Seq(S) /\ Len(v) = Len(s) + Len(values)
  BY <1>2 DEF Joined
<1>4. Spliced(v, s, 0, 0, values)
  <2>1. /\ \A j \in 1 .. Len(values) : v[j] = values[j]
        /\ \A j \in 1 .. Len(s) : v[Len(values) + j] = s[j]
    BY <1>2 DEF Joined
  <2>2. /\ \A j \in 1 .. Len(values) : v[0 + j] = values[j]
        /\ \A j \in 1 .. Len(s) - 0 : v[0 + Len(values) + j] = s[0 + j]
    BY <2>1
  <2>3. QED
    BY <1>3, <2>2 DEF Spliced
<1>5. PICK w : w = s \o values
  OBVIOUS
<1>6. Joined(w, S, s, values)
  BY <1>5, JoinedAre
<1>7. w \in Seq(S) /\ Len(w) = Len(s) + Len(values)
  BY <1>6 DEF Joined
<1>8. Spliced(w, s, Len(s), Len(s), values)
  BY <1>6, <1>7 DEF Spliced, Joined
<1>9. QED
  BY <1>1, <1>3, <1>4, <1>5, <1>7, <1>8

\* p has the k elements behind the first a of q; u is q with the elements of p behind from.
Taken(p, q, a, k) == Len(p) = k /\ \A j \in 1 .. k : p[j] = q[a + j]
Covered(u, q, from, p) ==
    /\ Len(u) = Len(q)
    /\ \A k \in 1 .. Len(q) : u[k] = IF from < k /\ k <= from + Len(p) THEN p[k - from] ELSE q[k]

\* That is what Piece and Over give.
LEMMA PieceTakes ==
  ASSUME NEW S, NEW q \in Seq(S), NEW a \in Nat, NEW b \in Nat, NEW k \in Nat, b = a + k, b <= Len(q)
  PROVE  Taken(Piece(q, a, b), q, a, k) /\ Piece(q, a, b) \in Seq(S)
<1>1. a <= b /\ b - a = k
  OBVIOUS
<1>2. /\ Piece(q, a, b) \in Seq(S) /\ Len(Piece(q, a, b)) = b - a
      /\ \A j \in 1 .. b - a : Piece(q, a, b)[j] = q[a + j]
  BY <1>1, PieceAre
<1>3. QED
  BY <1>1, <1>2 DEF Taken

\* It covers some of the elements.
LEMMA OverCovers ==
  ASSUME NEW S, NEW q \in Seq(S), NEW from \in Nat, NEW p \in Seq(S), from + Len(p) <= Len(q)
  PROVE  Covered(Over(q, from, p), q, from, p) /\ Over(q, from, p) \in Seq(S)
BY OverAre DEF Covered

\* q has the first n elements of s and then those of s.
Before(q, s, n) ==
    /\ Len(q) = Len(s) + n /\ \A j \in 1 .. n : q[j] = s[j]
    /\ \A j \in 1 .. Len(s) : q[n + j] = s[j]

\* q has the elements of s and then the last n of them.
Behind(q, s, n) ==
    /\ Len(q) = Len(s) + n /\ \A j \in 1 .. Len(s) : q[j] = s[j]
    /\ \A j \in 1 .. n : q[Len(s) + j] = s[Len(s) - n + j]

\* Moving the elements behind the first n down, up to index i, leaves room for n at i.
LEMMA FrontSplices ==
  ASSUME NEW S, NEW s \in Seq(S), NEW q \in Seq(S), NEW values \in Seq(S), NEW n \in Nat, Len(values) = n,
         NEW i \in Nat, n <= i, NEW l \in Nat, i <= l, Len(s) = l, Before(q, s, n),
         NEW a \in Nat, a = n + n, NEW h \in Nat, h = i - n, NEW p \in Seq(S), Taken(p, q, a, h),
         NEW u \in Seq(S), Covered(u, q, n, p), NEW v \in Seq(S), Covered(v, u, i, values)
  PROVE  Spliced(v, s, i, i, values)
<1>2. Len(q) = l + n /\ (\A j \in 1 .. n : q[j] = s[j]) /\ \A j \in 1 .. l : q[n + j] = s[j]
  BY DEF Before
<1>3. Len(p) = h /\ \A j \in 1 .. h : p[j] = q[a + j]
  BY DEF Taken
<1>4. Len(u) = l + n /\ \A k \in 1 .. l + n : u[k] = IF n < k /\ k <= n + h THEN p[k - n] ELSE q[k]
  BY <1>2, <1>3 DEF Covered
<1>5. Len(v) = l + n /\ \A k \in 1 .. l + n : v[k] = IF i < k /\ k <= i + n THEN values[k - i] ELSE u[k]
  BY <1>4 DEF Covered
<1>7. ASSUME NEW k \in 1 .. i PROVE v[k] = s[k]
  <2>1. k \in 1 .. l + n /\ v[k] = u[k]
    BY <1>5
  <2>2. CASE k <= n
    <3>1. u[k] = q[k]
      BY <1>4, <2>1, <2>2
    <3>2. QED
      BY <1>2, <2>1, <2>2, <3>1
  <2>3. CASE n < k
    <3>1. PICK j \in 1 .. h : k = n + j
      <4>1. k - n \in 1 .. h /\ k = n + (k - n)
        BY <2>3
      <4>2. QED
        BY <4>1
    <3>2. u[k] = p[j]
      <4>1. k - n = j /\ k <= n + h
        BY <3>1
      <4>2. u[k] = p[k - n]
        BY <1>4, <2>1, <2>3, <4>1
      <4>3. QED
        BY <4>1, <4>2
    <3>3. q[a + j] = s[k]
      <4>1. k \in 1 .. l /\ a + j = n + k
        BY <3>1
      <4>2. q[n + k] = s[k]
        BY <1>2, <4>1
      <4>3. QED
        BY <4>1, <4>2
    <3>4. QED
      BY <1>3, <2>1, <3>1, <3>2, <3>3
  <2>4. QED
    BY <2>2, <2>3
<1>8. ASSUME NEW j \in 1 .. n PROVE v[i + j] = values[j]
  <2>1. PICK k \in 1 .. l + n : k = i + j
    OBVIOUS
  <2>2. i < k /\ k <= i + n /\ k - i = j
    BY <2>1
  <2>3. v[k] = values[k - i]
    BY <1>5, <2>2
  <2>4. QED
    BY <2>1, <2>2, <2>3
<1>9. ASSUME NEW j \in 1 .. l - i PROVE v[i + n + j] = s[i + j]
  <2>1. PICK k \in 1 .. l + n, g \in 1 .. l : k = i + n + j /\ g = i + j
    OBVIOUS
  <2>2. ~ (k <= i + n) /\ ~ (k <= n + h) /\ k = n + g
    BY <2>1
  <2>3. v[k] = u[k] /\ u[k] = q[k]
    BY <1>4, <1>5, <2>2
  <2>4. q[n + g] = s[g]
    BY <1>2
  <2>5. QED
    BY <2>1, <2>2, <2>3, <2>4
<1>10. Len(v) = i + Len(values) + (Len(s) - i)
  BY <1>5
<1>11. QED
  BY <1>7, <1>8, <1>9, <1>10 DEF Spliced
\* Moving the elements behind index i up, but for the last n, leaves room for n at i.
LEMMA BackSplices ==
  ASSUME NEW S, NEW s \in Seq(S), NEW q \in Seq(S), NEW values \in Seq(S), NEW n \in Nat, Len(values) = n,
         NEW i \in Nat, NEW h \in Nat, NEW l \in Nat, l = i + h + n, Len(s) = l, Behind(q, s, n),
         NEW p \in Seq(S), Taken(p, q, i, h), NEW g \in Nat, g = i + n,
         NEW u \in Seq(S), Covered(u, q, g, p), NEW v \in Seq(S), Covered(v, u, i, values)
  PROVE  Spliced(v, s, i, i, values)
<1>2. /\ Len(q) = l + n /\ \A j \in 1 .. l : q[j] = s[j]
      /\ \A j \in 1 .. n : q[l + j] = s[l - n + j]
  BY DEF Behind
<1>3. Len(p) = h /\ \A j \in 1 .. h : p[j] = q[i + j]
  BY DEF Taken
<1>4. Len(u) = l + n /\ \A k \in 1 .. l + n : u[k] = IF g < k /\ k <= l THEN p[k - g] ELSE q[k]
  <2>1. g + Len(p) = l
    BY <1>3
  <2>2. QED
    BY <1>2, <2>1 DEF Covered
<1>5. Len(v) = l + n /\ \A k \in 1 .. l + n : v[k] = IF i < k /\ k <= g THEN values[k - i] ELSE u[k]
  BY <1>4 DEF Covered
<1>7. ASSUME NEW k \in 1 .. i PROVE v[k] = s[k]
  <2>1. k \in 1 .. l + n /\ k \in 1 .. l /\ ~ (i < k) /\ ~ (g < k)
    OBVIOUS
  <2>2. v[k] = u[k] /\ u[k] = q[k]
    BY <1>4, <1>5, <2>1
  <2>3. QED
    BY <1>2, <2>1, <2>2
<1>8. ASSUME NEW j \in 1 .. n PROVE v[i + j] = values[j]
  <2>1. PICK k \in 1 .. l + n : k = i + j
    OBVIOUS
  <2>2. i < k /\ k <= g /\ k - i = j
    BY <2>1
  <2>3. v[k] = values[k - i]
    BY <1>5, <2>2
  <2>4. QED
    BY <2>1, <2>2, <2>3
<1>9. ASSUME NEW j \in 1 .. l - i PROVE v[i + n + j] = s[i + j]
  <2>1. PICK k \in 1 .. l + n, e \in 1 .. l : k = g + j /\ e = i + j
    OBVIOUS
  <2>2. ~ (k <= g) /\ g < k /\ k = i + n + j
    BY <2>1
  <2>3. v[k] = u[k]
    BY <1>5, <2>2
  <2>4. CASE j <= h
    <3>1. k <= l /\ k - g = j /\ j \in 1 .. h
      BY <2>1, <2>4
    <3>2. u[k] = p[k - g]
      BY <1>4, <2>2, <3>1
    <3>3. p[j] = q[e]
      BY <1>3, <2>1, <3>1
    <3>4. QED
      BY <1>2, <2>1, <2>2, <2>3, <3>1, <3>2, <3>3
  <2>5. CASE ~ (j <= h)
    <3>1. PICK f \in 1 .. n : k = l + f
      <4>1. j - h \in 1 .. n /\ k = l + (j - h)
        BY <2>1, <2>5
      <4>2. QED
        BY <4>1
    <3>2. ~ (k <= l) /\ l - n + f = e
      BY <2>1, <3>1
    <3>3. u[k] = q[k]
      BY <1>4, <3>2
    <3>4. q[l + f] = s[l - n + f]
      BY <1>2
    <3>5. QED
      BY <2>1, <2>2, <2>3, <3>1, <3>2, <3>3, <3>4
  <2>6. QED
    BY <2>4, <2>5
<1>10. Len(v) = i + Len(values) + (Len(s) - i)
  BY <1>5
<1>11. QED
  BY <1>7, <1>8, <1>9, <1>10 DEF Spliced

\* An end of a sequence that is doubled
LEMMA EndsDoubled ==
  ASSUME NEW S, NEW s \in Seq(S), NEW n \in Nat, NEW l \in Nat, Len(s) = l, n <= l, NEW k \in Nat, k = l - n
  PROVE  /\ Piece(s, 0, n) \in Seq(S) /\ Len(Piece(s, 0, n)) = n /\ Before(Piece(s, 0, n) \o s, s, n)
         /\ Piece(s, k, l) \in Seq(S) /\ Len(Piece(s, k, l)) = n /\ Behind(s \o Piece(s, k, l), s, n)
<1>1. PICK p : p = Piece(s, 0, n)
  OBVIOUS
<1>2. p \in Seq(S) /\ Taken(p, s, 0, n)
  <2>1. n = 0 + n /\ 0 \in Nat
    OBVIOUS
  <2>2. QED
    BY <1>1, <2>1, PieceTakes
<1>3. Len(p) = n /\ \A j \in 1 .. n : p[j] = s[j]
  BY <1>2 DEF Taken
<1>4. Joined(p \o s, S, p, s)
  BY <1>2, JoinedAre
<1>5. Before(p \o s, s, n)
  <2>1. PICK q : q = p \o s
    OBVIOUS
  <2>2. /\ Len(q) = n + l /\ \A j \in 1 .. n : q[j] = p[j]
        /\ \A j \in 1 .. l : q[n + j] = s[j]
    BY <1>3, <1>4, <2>1 DEF Joined
  <2>3. QED
    BY <1>3, <2>1, <2>2 DEF Before
<1>6. PICK w : w = Piece(s, k, l)
  OBVIOUS
<1>7. w \in Seq(S) /\ Taken(w, s, k, n)
  <2>1. l = k + n
    OBVIOUS
  <2>2. QED
    BY <1>6, <2>1, PieceTakes
<1>8. Len(w) = n /\ \A j \in 1 .. n : w[j] = s[k + j]
  BY <1>7 DEF Taken
<1>9. Joined(s \o w, S, s, w)
  BY <1>7, JoinedAre
<1>10. Behind(s \o w, s, n)
  <2>1. PICK q : q = s \o w
    OBVIOUS
  <2>2. /\ Len(q) = l + n /\ \A j \in 1 .. l : q[j] = s[j]
        /\ \A j \in 1 .. n : q[l + j] = w[j]
    BY <1>8, <1>9, <2>1 DEF Joined
  <2>3. QED
    BY <1>8, <2>1, <2>2 DEF Behind
<1>11. QED
  BY <1>1, <1>2, <1>3, <1>5, <1>6, <1>7, <1>8, <1>10
\* The first and the last k values
LEMMA PartsTaken ==
  ASSUME NEW S, NEW s \in Seq(S), NEW n \in Nat, Len(s) = n, NEW k \in Nat, NEW h \in Nat, n = k + h
  PROVE  /\ First(s, k) \in Seq(S) /\ Taken(First(s, k), s, 0, k)
         /\ Last(s, h) \in Seq(S) /\ Taken(Last(s, h), s, k, h)
<1>1. Smaller(k, Len(s)) = k /\ Smaller(h, Len(s)) = h
  BY DEF Smaller
<1>2. First(s, k) \in Seq(S) /\ Len(First(s, k)) = k /\ \A j \in 1 .. k : First(s, k)[j] = s[j]
  BY <1>1, FirstAre
<1>3. Last(s, h) \in Seq(S) /\ Len(Last(s, h)) = h /\ \A j \in 1 .. h : Last(s, h)[j] = s[Len(s) - h + j]
  <2>1. PICK r \in Nat : r = Smaller(h, Len(s))
    BY <1>1
  <2>2. /\ Last(s, h) \in Seq(S) /\ Len(Last(s, h)) = r
        /\ \A j \in 1 .. r : Last(s, h)[j] = s[Len(s) - r + j]
    BY <2>1, LastAre
  <2>3. QED
    BY <1>1, <2>1, <2>2
<1>4. Len(s) - h = k
  OBVIOUS
<1>5. QED
  BY <1>2, <1>3, <1>4 DEF Taken

\* Three sequences in a row
Row3(q, a, b, c) ==
    /\ Len(q) = Len(a) + Len(b) + Len(c) /\ \A j \in 1 .. Len(a) : q[j] = a[j]
    /\ \A j \in 1 .. Len(b) : q[Len(a) + j] = b[j]
    /\ \A j \in 1 .. Len(c) : q[Len(a) + Len(b) + j] = c[j]

\* That is what joining them makes, in either order.
LEMMA JoinedRow ==
  ASSUME NEW S, NEW a \in Seq(S), NEW b \in Seq(S), NEW c \in Seq(S)
  PROVE  /\ (a \o b) \o c \in Seq(S) /\ Row3((a \o b) \o c, a, b, c)
         /\ a \o (b \o c) \in Seq(S) /\ Row3(a \o (b \o c), a, b, c)
<1>0. PICK k \in Nat, l \in Nat, n \in Nat : k = Len(a) /\ l = Len(b) /\ n = Len(c)
  OBVIOUS
<1>1. PICK w : w = a \o b
  OBVIOUS
<1>2. w \in Seq(S) /\ Joined(w, S, a, b)
  BY <1>1, JoinedAre DEF Joined
<1>3. /\ Len(w) = k + l /\ \A j \in 1 .. k : w[j] = a[j]
      /\ \A j \in 1 .. l : w[k + j] = b[j]
  BY <1>0, <1>2 DEF Joined
<1>4. PICK q : q = w \o c
  OBVIOUS
<1>5. Joined(q, S, w, c)
  BY <1>2, <1>4, JoinedAre
<1>6. /\ q \in Seq(S) /\ Len(q) = k + l + n /\ \A j \in 1 .. k + l : q[j] = w[j]
      /\ \A j \in 1 .. n : q[k + l + j] = c[j]
  BY <1>0, <1>3, <1>5 DEF Joined
<1>7. Row3(q, a, b, c)
  <2>1. ASSUME NEW j \in 1 .. k PROVE q[j] = a[j]
    BY <1>3, <1>6
  <2>2. ASSUME NEW j \in 1 .. l PROVE q[k + j] = b[j]
    <3>1. k + j \in 1 .. k + l
      OBVIOUS
    <3>2. QED
      BY <1>3, <1>6, <3>1
  <2>3. QED
    BY <1>0, <1>6, <2>1, <2>2 DEF Row3
<1>8. PICK v : v = b \o c
  OBVIOUS
<1>9. v \in Seq(S) /\ Joined(v, S, b, c)
  BY <1>8, JoinedAre DEF Joined
<1>10. /\ Len(v) = l + n /\ \A j \in 1 .. l : v[j] = b[j]
       /\ \A j \in 1 .. n : v[l + j] = c[j]
  BY <1>0, <1>9 DEF Joined
<1>11. PICK p : p = a \o v
  OBVIOUS
<1>12. Joined(p, S, a, v)
  BY <1>9, <1>11, JoinedAre
<1>13. /\ p \in Seq(S) /\ Len(p) = k + (l + n) /\ \A j \in 1 .. k : p[j] = a[j]
       /\ \A j \in 1 .. l + n : p[k + j] = v[j]
  BY <1>0, <1>10, <1>12 DEF Joined
<1>14. Row3(p, a, b, c)
  <2>1. ASSUME NEW j \in 1 .. l PROVE p[k + j] = b[j]
    <3>1. j \in 1 .. l + n
      OBVIOUS
    <3>2. QED
      BY <1>10, <1>13, <3>1
  <2>2. ASSUME NEW j \in 1 .. n PROVE p[k + l + j] = c[j]
    <3>1. PICK i \in 1 .. l + n : i = l + j
      OBVIOUS
    <3>2. p[k + i] = v[i] /\ k + i = k + l + j
      BY <1>13, <3>1
    <3>3. v[i] = c[j]
      BY <1>10, <3>1
    <3>4. QED
      BY <3>2, <3>3
  <2>3. QED
    BY <1>0, <1>13, <2>1, <2>2 DEF Row3
<1>15. QED
  BY <1>1, <1>4, <1>6, <1>7, <1>8, <1>11, <1>13, <1>14

\* Some of the elements before index i, and the first of the values, are in front of s, and
\* the others are written over its first ones.
LEMMA ManyFrontSplices ==
  ASSUME NEW S, NEW s \in Seq(S), NEW values \in Seq(S), NEW i \in Nat, NEW h \in Nat, NEW n \in Nat, n = i + h,
         Len(values) = n, NEW l \in Nat, Len(s) = l, i <= l,
         NEW head \in Seq(S), Taken(head, s, 0, i), NEW some \in Seq(S), Taken(some, values, 0, h),
         NEW rest \in Seq(S), Taken(rest, values, h, i), NEW q \in Seq(S), Row3(q, head, some, s),
         NEW v \in Seq(S), Covered(v, q, n, rest)
  PROVE  Spliced(v, s, i, i, values)
<1>1. /\ Len(head) = i /\ Len(some) = h /\ Len(rest) = i /\ \A j \in 1 .. i : head[j] = s[j] 
      /\ \A j \in 1 .. h : some[j] = values[j]
      /\ \A j \in 1 .. i : rest[j] = values[h + j]
  BY DEF Taken
<1>2. /\ Len(q) = n + l /\ \A j \in 1 .. i : q[j] = head[j]
      /\ \A j \in 1 .. h : q[i + j] = some[j]
      /\ \A j \in 1 .. l : q[n + j] = s[j]
  <2>1. i + h = n
    OBVIOUS
  <2>2. QED
    BY <1>1, <2>1 DEF Row3
<1>3. Len(v) = n + l /\ \A k \in 1 .. n + l : v[k] = IF n < k /\ k <= n + i THEN rest[k - n] ELSE q[k]
  BY <1>1, <1>2 DEF Covered
<1>4. ASSUME NEW k \in 1 .. i PROVE v[k] = s[k]
  <2>1. k \in 1 .. n + l /\ ~ (n < k)
    OBVIOUS
  <2>2. v[k] = q[k]
    BY <1>3, <2>1
  <2>3. QED
    BY <1>1, <1>2, <2>2
<1>5. ASSUME NEW j \in 1 .. n PROVE v[i + j] = values[j]
  <2>1. PICK k \in 1 .. n + l : k = i + j
    OBVIOUS
  <2>2. CASE j <= h
    <3>1. ~ (n < k) /\ j \in 1 .. h
      BY <2>1, <2>2
    <3>2. v[k] = q[k]
      BY <1>3, <3>1
    <3>3. QED
      BY <1>1, <1>2, <2>1, <3>1, <3>2
  <2>3. CASE ~ (j <= h)
    <3>1. PICK f \in 1 .. i : j = h + f
      <4>1. j - h \in 1 .. i /\ j = h + (j - h)
        BY <2>3
      <4>2. QED
        BY <4>1
    <3>2. n < k /\ k <= n + i /\ k - n = f
      BY <2>1, <3>1
    <3>3. v[k] = rest[k - n]
      BY <1>3, <3>2
    <3>4. rest[f] = values[h + f]
      BY <1>1
    <3>5. QED
      BY <2>1, <3>1, <3>2, <3>3, <3>4
  <2>4. QED
    BY <2>2, <2>3
<1>6. ASSUME NEW j \in 1 .. l - i PROVE v[i + n + j] = s[i + j]
  <2>1. PICK k \in 1 .. n + l, e \in 1 .. l : k = i + n + j /\ e = i + j
    OBVIOUS
  <2>2. ~ (k <= n + i) /\ k = n + e
    BY <2>1
  <2>3. v[k] = q[k]
    BY <1>3, <2>2
  <2>4. q[n + e] = s[e]
    BY <1>2
  <2>5. QED
    BY <2>1, <2>2, <2>3, <2>4
<1>7. Len(v) = i + Len(values) + (Len(s) - i)
  BY <1>3
<1>8. QED
  BY <1>4, <1>5, <1>6, <1>7 DEF Spliced

\* The last of the values, and the elements from index i on, are behind s, and the others
\* are written over its last ones.
LEMMA ManyBackSplices ==
  ASSUME NEW S, NEW s \in Seq(S), NEW values \in Seq(S), NEW a \in Nat, NEW h \in Nat, NEW n \in Nat, n = a + h,
         Len(values) = n, NEW l \in Nat, Len(s) = l, NEW i \in Nat, l = i + a,
         NEW some \in Seq(S), Taken(some, values, a, h), NEW tail \in Seq(S), Taken(tail, s, i, a),
         NEW rest \in Seq(S), Taken(rest, values, 0, a), NEW q \in Seq(S), Row3(q, s, some, tail),
         NEW v \in Seq(S), Covered(v, q, i, rest)
  PROVE  Spliced(v, s, i, i, values)
<1>1. /\ Len(tail) = a /\ Len(some) = h /\ Len(rest) = a /\ \A j \in 1 .. a : tail[j] = s[i + j]
      /\ \A j \in 1 .. h : some[j] = values[a + j]
      /\ \A j \in 1 .. a : rest[j] = values[j]
  BY DEF Taken
<1>2. /\ Len(q) = l + h + a /\ \A j \in 1 .. l : q[j] = s[j]
      /\ \A j \in 1 .. h : q[l + j] = some[j]
      /\ \A j \in 1 .. a : q[l + h + j] = tail[j]
  BY <1>1 DEF Row3
<1>3. Len(v) = n + l /\ \A k \in 1 .. n + l : v[k] = IF i < k /\ k <= l THEN rest[k - i] ELSE q[k]
  <2>1. Len(q) = n + l /\ i + Len(rest) = l
    BY <1>1, <1>2
  <2>2. QED
    BY <2>1 DEF Covered
<1>4. ASSUME NEW k \in 1 .. i PROVE v[k] = s[k]
  <2>1. k \in 1 .. n + l /\ ~ (i < k) /\ k \in 1 .. l
    OBVIOUS
  <2>2. v[k] = q[k]
    BY <1>3, <2>1
  <2>3. QED
    BY <1>2, <2>1, <2>2
<1>5. ASSUME NEW j \in 1 .. n PROVE v[i + j] = values[j]
  <2>1. PICK k \in 1 .. n + l : k = i + j
    OBVIOUS
  <2>2. CASE j <= a
    <3>1. i < k /\ k <= l /\ k - i = j /\ j \in 1 .. a
      BY <2>1, <2>2
    <3>2. v[k] = rest[k - i]
      BY <1>3, <3>1
    <3>3. QED
      BY <1>1, <2>1, <3>1, <3>2
  <2>3. CASE ~ (j <= a)
    <3>1. PICK f \in 1 .. h : j = a + f
      <4>1. j - a \in 1 .. h /\ j = a + (j - a)
        BY <2>3
      <4>2. QED
        BY <4>1
    <3>2. ~ (k <= l) /\ k = l + f
      BY <2>1, <3>1
    <3>3. v[k] = q[k]
      BY <1>3, <3>2
    <3>4. q[l + f] = some[f] /\ some[f] = values[a + f]
      BY <1>1, <1>2
    <3>5. QED
      BY <2>1, <3>1, <3>2, <3>3, <3>4
  <2>4. QED
    BY <2>2, <2>3
<1>6. ASSUME NEW j \in 1 .. l - i PROVE v[i + n + j] = s[i + j]
  <2>1. PICK k \in 1 .. n + l, e \in 1 .. a : k = i + n + j /\ e = j
    OBVIOUS
  <2>2. ~ (k <= l) /\ k = l + h + e
    BY <2>1
  <2>3. v[k] = q[k]
    BY <1>3, <2>2
  <2>4. q[l + h + e] = tail[e] /\ tail[e] = s[i + e]
    BY <1>1, <1>2
  <2>5. QED
    BY <2>1, <2>2, <2>3, <2>4
<1>7. Len(v) = i + Len(values) + (Len(s) - i)
  <2>1. PICK e \in Nat, f \in Nat : e = Len(v) /\ f = Len(values) /\ e = n + l /\ f = n
    BY <1>3
  <2>2. e = i + f + (l - i)
    BY <2>1
  <2>3. QED
    BY <2>1, <2>2
<1>8. QED
  BY <1>4, <1>5, <1>6, <1>7 DEF Spliced
\* Moving the first elements up, and dropping as many, leaves out a range.
LEMMA EraseFrontSplices ==
  ASSUME NEW S, NEW s \in Seq(S), NEW from \in Nat, NEW k \in Nat, NEW to \in Nat, to = from + k, NEW l \in Nat,
         Len(s) = l, to <= l, NEW e \in Nat, l = k + e, NEW p \in Seq(S), Taken(p, s, 0, from), NEW u \in Seq(S),
         Covered(u, s, k, p), NEW v \in Seq(S), Taken(v, u, k, e)
  PROVE  Spliced(v, s, from, to, << >>)
<1>1. Len(p) = from /\ \A j \in 1 .. from : p[j] = s[j]
  BY DEF Taken
<1>2. Len(u) = l /\ \A j \in 1 .. l : u[j] = IF k < j /\ j <= to THEN p[j - k] ELSE s[j]
  <2>1. k + Len(p) = to
    BY <1>1
  <2>2. QED
    BY <2>1 DEF Covered
<1>3. Len(v) = e /\ \A j \in 1 .. e : v[j] = u[k + j]
  BY DEF Taken
<1>4. ASSUME NEW j \in 1 .. from PROVE v[j] = s[j]
  <2>1. PICK g \in 1 .. l : g = k + j
    OBVIOUS
  <2>2. j \in 1 .. e /\ k < g /\ g <= to /\ g - k = j
    BY <2>1
  <2>3. u[g] = p[g - k] /\ v[j] = u[g]
    BY <1>2, <1>3, <2>1, <2>2
  <2>4. QED
    BY <1>1, <2>2, <2>3
<1>5. ASSUME NEW j \in 1 .. l - to PROVE v[from + 0 + j] = s[to + j]
  <2>1. PICK g \in 1 .. l, h \in 1 .. e : g = to + j /\ h = from + j
    OBVIOUS
  <2>2. ~ (g <= to) /\ g = k + h
    BY <2>1
  <2>3. u[g] = s[g] /\ v[h] = u[g]
    BY <1>2, <1>3, <2>2
  <2>4. QED
    BY <2>1, <2>3
<1>6. Len(<< >>) = 0 /\ Len(v) = from + 0 + (l - to)
  BY <1>3
<1>7. QED
  BY <1>4, <1>5, <1>6 DEF Spliced

\* Moving the elements behind a range down, and dropping the last ones, leaves it out.
LEMMA EraseBackSplices ==
  ASSUME NEW S, NEW s \in Seq(S), NEW from \in Nat, NEW k \in Nat, NEW to \in Nat, to = from + k, NEW l \in Nat,
         Len(s) = l, NEW h \in Nat, l = to + h, NEW e \in Nat, l = k + e, NEW p \in Seq(S), Taken(p, s, to, h),
         NEW u \in Seq(S), Covered(u, s, from, p), NEW v \in Seq(S), Taken(v, u, 0, e)
  PROVE  Spliced(v, s, from, to, << >>)
<1>1. Len(p) = h /\ \A j \in 1 .. h : p[j] = s[to + j]
  BY DEF Taken
<1>2. Len(u) = l /\ \A j \in 1 .. l : u[j] = IF from < j /\ j <= from + h THEN p[j - from] ELSE s[j]
  BY <1>1 DEF Covered
<1>3. Len(v) = e /\ \A j \in 1 .. e : v[j] = u[j]
  BY DEF Taken
<1>4. ASSUME NEW j \in 1 .. from PROVE v[j] = s[j]
  <2>1. j \in 1 .. l /\ j \in 1 .. e /\ ~ (from < j)
    OBVIOUS
  <2>2. QED
    BY <1>2, <1>3, <2>1
<1>5. ASSUME NEW j \in 1 .. l - to PROVE v[from + 0 + j] = s[to + j]
  <2>1. PICK g \in 1 .. l : g = from + j
    OBVIOUS
  <2>2. from < g /\ g <= from + h /\ g - from = j /\ g \in 1 .. e /\ j \in 1 .. h
    BY <2>1
  <2>3. u[g] = p[g - from] /\ v[g] = u[g]
    BY <1>2, <1>3, <2>2
  <2>4. QED
    BY <1>1, <2>1, <2>2, <2>3
<1>6. Len(<< >>) = 0 /\ Len(v) = from + 0 + (l - to)
  <2>1. e = from + 0 + (l - to)
    OBVIOUS
  <2>2. QED
    BY <1>3, <2>1
<1>7. QED
  BY <1>4, <1>5, <1>6 DEF Spliced

\* Assigning to the first elements and erasing the others leaves what was assigned.
LEMMA AssignedErased ==
  ASSUME NEW S, NEW s \in Seq(S), NEW values \in Seq(S), NEW n \in Nat, Len(values) = n, NEW l \in Nat, Len(s) = l,
         n <= l, NEW u \in Seq(S), Covered(u, s, 0, values), NEW w \in Seq(S), Spliced(w, u, n, l, << >>)
  PROVE  w = values
<1>1. Len(u) = l /\ \A j \in 1 .. l : u[j] = IF 0 < j /\ j <= n THEN values[j] ELSE s[j]
  BY DEF Covered
<1>2. Len(<< >>) = 0
  OBVIOUS
<1>3. Len(w) = n + 0 + (l - l) /\ \A j \in 1 .. n : w[j] = u[j]
  BY <1>1, <1>2 DEF Spliced
<1>4. Len(w) = n
  BY <1>3
<1>5. ASSUME NEW j \in 1 .. n PROVE w[j] = values[j]
  <2>1. j \in 1 .. l /\ 0 < j /\ j <= n
    OBVIOUS
  <2>2. QED
    BY <1>1, <1>3, <2>1
<1>6. QED
  BY <1>4, <1>5

\* Assigning to all elements and appending the other values leaves the values.
LEMMA AssignedAppended ==
  ASSUME NEW S, NEW s \in Seq(S), NEW values \in Seq(S), NEW l \in Nat, Len(s) = l,
         NEW k \in Nat, Len(values) = l + k, NEW some \in Seq(S), Taken(some, values, 0, l),
         NEW u \in Seq(S), Covered(u, s, 0, some),
         NEW rest \in Seq(S), Taken(rest, values, l, k), NEW w \in Seq(S), Spliced(w, u, l, l, rest)
  PROVE  w = values
<1>1. /\ Len(some) = l /\ Len(rest) = k /\ \A j \in 1 .. l : some[j] = values[j]
      /\ \A j \in 1 .. k : rest[j] = values[l + j]
  BY DEF Taken
<1>2. Len(u) = l /\ \A j \in 1 .. l : u[j] = IF 0 < j /\ j <= l THEN some[j] ELSE s[j]
  BY <1>1 DEF Covered
<1>3. /\ Len(w) = l + k + (l - l) /\ \A j \in 1 .. l : w[j] = u[j]
      /\ \A j \in 1 .. k : w[l + j] = rest[j]
  BY <1>1, <1>2 DEF Spliced
<1>4. Len(w) = l + k
  BY <1>3
<1>5. ASSUME NEW g \in 1 .. l + k PROVE w[g] = values[g]
  <2>1. CASE g <= l
    <3>1. g \in 1 .. l /\ 0 < g
      BY <2>1
    <3>2. w[g] = u[g] /\ u[g] = some[g] /\ some[g] = values[g]
      BY <1>1, <1>2, <1>3, <2>1, <3>1
    <3>3. QED
      BY <3>2
  <2>2. CASE ~ (g <= l)
    <3>1. PICK j \in 1 .. k : g = l + j
      <4>1. g - l \in 1 .. k /\ g = l + (g - l)
        BY <2>2
      <4>2. QED
        BY <4>1
    <3>2. QED
      BY <1>1, <1>3, <3>1
  <2>3. QED
    BY <2>1, <2>2
<1>6. QED
  BY <1>4, <1>5

-----------------------------------------------------------------------------
(* Operations                                                               *)

\* The deque that r holds is t, or if something threw s, where the operation is strong,
\* or something of a length between theirs.
Outcome(r, F, R, s, t, strong, w) ==
    /\ w \in Seq(F.values) /\ Holds(r, F, R, w)
    /\ ~ r.threw => w = t
    /\ r.threw => \/ w = s
                  \/ /\ ~ strong
                     /\ \/ Len(s) <= Len(w) /\ Len(w) <= Len(t)
                        \/ Len(t) <= Len(w) /\ Len(w) <= Len(s)
Does(r, F, R, s, t, strong) == \E w : Outcome(r, F, R, s, t, strong, w)

\* What is done at the ends is strong.
LEMMA EndsDoes ==
  ASSUME NEW F, NEW R, NEW r, NEW s \in Seq(F.values), NEW t \in Seq(F.values), Ends(r, F, R, s, t), NEW strong
  PROVE  Does(r, F, R, s, t, strong)
<1>1. CASE r.threw
  <2>1. Outcome(r, F, R, s, t, strong, s)
    BY <1>1 DEF Outcome, Ends
  <2>2. QED
    BY <2>1 DEF Does
<1>2. CASE ~ r.threw
  <2>1. Outcome(r, F, R, s, t, strong, t)
    BY <1>2 DEF Outcome, Ends
  <2>2. QED
    BY <2>1 DEF Does
<1>3. QED
  BY <1>1, <1>2

\* What threw before it changed anything did nothing.
LEMMA NothingDone ==
  ASSUME NEW F, NEW R, NEW r, NEW s \in Seq(F.values), Holds(r, F, R, s), r.threw, NEW t, NEW strong
  PROVE  Does(r, F, R, s, t, strong)
<1>1. Outcome(r, F, R, s, t, strong, s)
  BY DEF Outcome
<1>2. QED
  BY <1>1 DEF Does

\* Two rewrites of it, one after the other, or one that threw
TwiceRewritten(r, F, R, q, to, p, i, values) ==
    \E w \in Seq(F.values) :
       /\ Holds(r, F, R, w) /\ Len(w) = Len(q)
       /\ ~ r.threw => \E u \in Seq(F.values) : Covered(u, q, to, p) /\ Covered(w, u, i, values)

\* Assigning after some elements have moved, if they have
LEMMA PutAfter ==
  ASSUME NEW F, Framed(F), NEW R, NEW q \in Seq(F.values), NEW to \in Nat, NEW p \in Seq(F.values),
         to + Len(p) <= Len(q), NEW c, Rewritten(c, F, R, q, to, p), NEW i \in Nat, NEW values \in Seq(F.values),
         i + Len(values) <= Len(q), NEW r, r = Put(c, i, values)
  PROVE  TwiceRewritten(r, F, R, q, to, p, i, values)
<1> USE DEF TwiceRewritten
<1>1. CASE c.threw
  <2>1. r = c
    BY <1>1, ThrownStays
  <2>2. QED
    BY <1>1, <2>1 DEF Rewritten
<1>2. CASE ~ c.threw
  <2>1. PICK u : u = Over(q, to, p)
    OBVIOUS
  <2>2. u \in Seq(F.values) /\ Covered(u, q, to, p) /\ Len(u) = Len(q)
    <3>1. PICK S : S = F.values
      OBVIOUS
    <3>2. Covered(Over(q, to, p), q, to, p) /\ Over(q, to, p) \in Seq(S)
      BY <3>1, OverCovers
    <3>3. QED
      BY <2>1, <3>1, <3>2 DEF Covered
  <2>3. Holds(c, F, R, u)
    BY <1>2, <2>1 DEF Rewritten
  <2>4. Rewritten(r, F, R, u, i, values)
    BY <1>2, <2>2, <2>3, PutDoes
  <2>5. CASE r.threw
    BY <2>2, <2>4, <2>5 DEF Rewritten
  <2>6. CASE ~ r.threw
    <3>1. PICK w : w = Over(u, i, values)
      OBVIOUS
    <3>2. w \in Seq(F.values) /\ Covered(w, u, i, values) /\ Len(w) = Len(u)
      <4>1. PICK S : S = F.values
        OBVIOUS
      <4>2. i + Len(values) <= Len(u) /\ u \in Seq(S) /\ values \in Seq(S)
        BY <2>2, <4>1
      <4>3. Covered(Over(u, i, values), u, i, values) /\ Over(u, i, values) \in Seq(S)
        BY <4>2, OverCovers
      <4>4. QED
        BY <3>1, <4>1, <4>3 DEF Covered
    <3>3. Holds(r, F, R, w)
      BY <2>4, <2>6, <3>1 DEF Rewritten
    <3>4. QED
      BY <2>2, <3>2, <3>3
  <2>7. QED
    BY <2>5, <2>6
<1>3. QED
  BY <1>1, <1>2
\* A replacement is as long as it should be.
LEMMA SplicedLength ==
  ASSUME NEW S, NEW s \in Seq(S), NEW values \in Seq(S), NEW i \in Nat, NEW l \in Nat, Len(s) = l, i <= l,
         NEW n \in Nat, Len(values) = n, NEW t, Spliced(t, s, i, i, values)
  PROVE  Len(t) = l + n
<1>1. Len(t) = i + n + (l - i)
  BY DEF Spliced
<1>2. QED
  BY <1>1

\* What is left of an insertion inside: the new sequence, or something as long.
LEMMA InsertedDoes ==
  ASSUME NEW F, NEW R, NEW r, NEW s \in Seq(F.values), NEW values \in Seq(F.values), NEW i \in Nat, i <= Len(s),
         NEW t \in Seq(F.values), Spliced(t, s, i, i, values),
         NEW w \in Seq(F.values), Holds(r, F, R, w), Len(w) = Len(s) + Len(values),
         ~ r.threw => Spliced(w, s, i, i, values)
  PROVE  Does(r, F, R, s, t, FALSE)
<1>1. PICK S : S = F.values
  OBVIOUS
<1>2. Len(t) = Len(s) + Len(values)
  BY SplicedLength
<1>3. ASSUME ~ r.threw PROVE w = t
  <2>1. Spliced(w, s, i, i, values) /\ i <= i
    BY <1>3
  <2>2. QED
    BY <1>1, <2>1, SplicedSame
<1>4. Len(s) <= Len(w) /\ Len(w) <= Len(t)
  BY <1>2
<1>5. Outcome(r, F, R, s, t, FALSE, w)
  BY <1>3, <1>4 DEF Outcome
<1>6. QED
  BY <1>5 DEF Does

\* Elements before index i move down, once the first n of them are in front.
LEMMA FrontMoves ==
  ASSUME NEW F, Framed(F), NEW R, NEW c, NEW s \in Seq(F.values), NEW l \in Nat, Len(s) = l,
         NEW values \in Seq(F.values), NEW n \in Nat, Len(values) = n, NEW i \in Nat, n <= i, i <= l,
         NEW q \in Seq(F.values), Before(q, s, n), Ends(c, F, R, s, q),
         NEW t \in Seq(F.values), Spliced(t, s, i, i, values),
         NEW a \in Nat, a = n + n, NEW h \in Nat, h = i - n, NEW r, r = Put(CopyDown(c, a, h, n), i, values)
  PROVE  Does(r, F, R, s, t, FALSE)
<1>1. CASE c.threw
  <2>1. r = c
    BY <1>1, ThrownStays
  <2>2. QED
    BY <1>1, <2>1, NothingDone DEF Ends
<1>2. CASE ~ c.threw
  <2>1. Holds(c, F, R, q) /\ Len(q) = l + n
    BY <1>2 DEF Ends, Before
  <2>2. PICK b \in Nat : b = a + h
    OBVIOUS
  <2>3. b <= Len(q) /\ n + h = i /\ n + h <= Len(q) /\ a + h <= Len(q)
    BY <2>1, <2>2
  <2>4. PICK p : p = Piece(q, a, b)
    OBVIOUS
  <2>5. Rewritten(CopyDown(c, a, h, n), F, R, q, n, p)
    BY <1>2, <2>1, <2>2, <2>3, <2>4, MovesDo
  <2>6. p \in Seq(F.values) /\ Taken(p, q, a, h)
    <3>1. PICK S : S = F.values
      OBVIOUS
    <3>2. q \in Seq(S)
      BY <3>1
    <3>3. QED
      BY <2>2, <2>3, <2>4, <3>1, <3>2, PieceTakes
  <2>7. n + Len(p) <= Len(q) /\ i + Len(values) <= Len(q)
    BY <2>1, <2>3, <2>6 DEF Taken
  <2>8. PICK w \in Seq(F.values) :
          /\ Holds(r, F, R, w) /\ Len(w) = Len(q)
          /\ ~ r.threw => \E u \in Seq(F.values) : Covered(u, q, n, p) /\ Covered(w, u, i, values)
    <3>1. TwiceRewritten(r, F, R, q, n, p, i, values)
      BY <2>5, <2>6, <2>7, PutAfter
    <3>2. QED
      BY <3>1 DEF TwiceRewritten
  <2>9. ASSUME ~ r.threw PROVE Spliced(w, s, i, i, values)
    <3>1. PICK u \in Seq(F.values) : Covered(u, q, n, p) /\ Covered(w, u, i, values)
      BY <2>8, <2>9
    <3>2. PICK S : S = F.values
      OBVIOUS
    <3>3. s \in Seq(S) /\ q \in Seq(S) /\ values \in Seq(S) /\ p \in Seq(S) /\ u \in Seq(S) /\ w \in Seq(S)
      BY <2>6, <3>2
    <3>4. QED
      BY <2>6, <3>1, <3>3, FrontSplices
  <2>10. Len(w) = Len(s) + Len(values) /\ i <= Len(s)
    BY <2>1, <2>8
  <2>11. QED
    BY <2>8, <2>9, <2>10, InsertedDoes
<1>3. QED
  BY <1>1, <1>2

\* Elements behind index i move up, once the last n of them are behind.
LEMMA BackMoves ==
  ASSUME NEW F, Framed(F), NEW R, NEW c, NEW s \in Seq(F.values), NEW values \in Seq(F.values),
         NEW n \in Nat, Len(values) = n, NEW i \in Nat, NEW h \in Nat, NEW l \in Nat, l = i + h + n, Len(s) = l,
         NEW q \in Seq(F.values), Behind(q, s, n), Ends(c, F, R, s, q),
         NEW t \in Seq(F.values), Spliced(t, s, i, i, values),
         NEW g \in Nat, g = i + n, NEW r, r = Put(CopyUp(c, i, h, g), i, values)
  PROVE  Does(r, F, R, s, t, FALSE)
<1>1. CASE c.threw
  <2>1. r = c
    BY <1>1, ThrownStays
  <2>2. QED
    BY <1>1, <2>1, NothingDone DEF Ends
<1>2. CASE ~ c.threw
  <2>1. Holds(c, F, R, q) /\ Len(q) = l + n
    BY <1>2 DEF Ends, Behind
  <2>2. PICK b \in Nat : b = i + h
    OBVIOUS
  <2>3. b <= Len(q) /\ g + h = l /\ g + h <= Len(q) /\ i + h <= Len(q)
    BY <2>1, <2>2
  <2>4. PICK p : p = Piece(q, i, b)
    OBVIOUS
  <2>5. Rewritten(CopyUp(c, i, h, g), F, R, q, g, p)
    BY <1>2, <2>1, <2>2, <2>3, <2>4, MovesDo
  <2>6. p \in Seq(F.values) /\ Taken(p, q, i, h)
    <3>1. PICK S : S = F.values
      OBVIOUS
    <3>2. q \in Seq(S)
      BY <3>1
    <3>3. QED
      BY <2>2, <2>3, <2>4, <3>1, <3>2, PieceTakes
  <2>7. g + Len(p) <= Len(q) /\ i + Len(values) <= Len(q)
    BY <2>1, <2>3, <2>6 DEF Taken
  <2>8. PICK w \in Seq(F.values) :
          /\ Holds(r, F, R, w) /\ Len(w) = Len(q)
          /\ ~ r.threw => \E u \in Seq(F.values) : Covered(u, q, g, p) /\ Covered(w, u, i, values)
    <3>1. PICK d : d = CopyUp(c, i, h, g)
      OBVIOUS
    <3>2. Rewritten(d, F, R, q, g, p) /\ r = Put(d, i, values)
      BY <2>5, <3>1
    <3>3. TwiceRewritten(r, F, R, q, g, p, i, values)
      BY <2>6, <2>7, <3>2, PutAfter
    <3>4. QED
      BY <3>3 DEF TwiceRewritten
  <2>9. ASSUME ~ r.threw PROVE Spliced(w, s, i, i, values)
    <3>1. PICK u \in Seq(F.values) : Covered(u, q, g, p) /\ Covered(w, u, i, values)
      BY <2>8, <2>9
    <3>2. PICK S : S = F.values
      OBVIOUS
    <3>3. s \in Seq(S) /\ q \in Seq(S) /\ values \in Seq(S) /\ p \in Seq(S) /\ u \in Seq(S) /\ w \in Seq(S)
      BY <2>6, <3>2
    <3>4. QED
      BY <2>6, <3>1, <3>3, BackSplices
  <2>10. Len(w) = Len(s) + Len(values) /\ i <= Len(s)
    BY <2>1, <2>8
  <2>11. QED
    BY <2>8, <2>9, <2>10, InsertedDoes
<1>3. QED
  BY <1>1, <1>2
\* An element is put in where its place is: an end is doubled, and the elements between move.
LEMMA InsertBeforeDoes ==
  ASSUME NEW F, Framed(F), NEW R, NEW c, NEW s \in Seq(F.values), NEW l \in Nat, Len(s) = l, NEW value \in F.values,
         NEW i \in Nat, 1 <= i, i <= l, NEW e, e = s[1], Ends(c, F, R, s, << e >> \o s),
         NEW t \in Seq(F.values), Spliced(t, s, i, i, << value >>), NEW r, r = InsertBefore(c, i, value)
  PROVE  Does(r, F, R, s, t, FALSE)
<1>1. PICK S : S = F.values
  OBVIOUS
<1>2. s \in Seq(S) /\ value \in S /\ e \in S
  BY <1>1
<1>3. /\ << value >> \in Seq(S) /\ Len(<< value >>) = 1
      /\ << e >> \in Seq(S) /\ Len(<< e >>) = 1 /\ << e >>[1] = e
  BY <1>2
<1>4. PICK q : q = << e >> \o s
  OBVIOUS
<1>5. Joined(q, S, << e >>, s)
  BY <1>2, <1>3, <1>4, JoinedAre
<1>6. q \in Seq(S) /\ Before(q, s, 1)
  <2>1. /\ q \in Seq(S) /\ Len(q) = 1 + l /\ q[1] = e
        /\ \A j \in 1 .. l : q[1 + j] = s[j]
    BY <1>3, <1>5 DEF Joined
  <2>2. \A j \in 1 .. 1 : q[j] = s[j]
    BY <2>1
  <2>3. QED
    BY <2>1, <2>2 DEF Before
<1>7. PICK h \in Nat : h = i - 1
  OBVIOUS
<1>8. r = Put(CopyDown(c, 2, h, 1), i, << value >>)
  BY <1>7 DEF InsertBefore
<1>9. 1 \in Nat /\ 2 \in Nat /\ 2 = 1 + 1
  OBVIOUS
<1>10. Ends(c, F, R, s, q) /\ << value >> \in Seq(F.values) /\ q \in Seq(F.values)
  BY <1>1, <1>3, <1>4, <1>6
<1>11. QED
  BY <1>3, <1>6, <1>7, <1>8, <1>9, <1>10, FrontMoves

\* The same behind: c has one element more than s, unless it threw.
LEMMA InsertBehindDoes ==
  ASSUME NEW F, Framed(F), NEW R, NEW c, NEW s \in Seq(F.values), NEW l \in Nat, Len(s) = l, NEW value \in F.values,
         NEW i \in Nat, i < l, NEW e, e = s[l], Ends(c, F, R, s, s \o << e >>),
         NEW t \in Seq(F.values), Spliced(t, s, i, i, << value >>), NEW r, r = InsertBehind(c, i, value)
  PROVE  Does(r, F, R, s, t, FALSE)
<1>1. PICK S : S = F.values
  OBVIOUS
<1>2. s \in Seq(S) /\ value \in S /\ e \in S
  BY <1>1
<1>3. /\ << value >> \in Seq(S) /\ Len(<< value >>) = 1
      /\ << e >> \in Seq(S) /\ Len(<< e >>) = 1 /\ << e >>[1] = e
  BY <1>2
<1>4. PICK q : q = s \o << e >>
  OBVIOUS
<1>5. Joined(q, S, s, << e >>)
  BY <1>2, <1>3, <1>4, JoinedAre
<1>6. q \in Seq(S) /\ Behind(q, s, 1) /\ Len(q) = l + 1
  <2>1. /\ q \in Seq(S) /\ Len(q) = l + 1 /\ q[l + 1] = e
        /\ \A j \in 1 .. l : q[j] = s[j]
    BY <1>3, <1>5 DEF Joined
  <2>2. \A j \in 1 .. 1 : q[l + j] = s[l - 1 + j]
    BY <2>1
  <2>3. QED
    BY <2>1, <2>2 DEF Behind
<1>7. PICK h \in Nat, g \in Nat : l = i + h + 1 /\ g = i + 1
  <2>1. l - i - 1 \in Nat /\ l = i + (l - i - 1) + 1 /\ i + 1 \in Nat
    OBVIOUS
  <2>2. QED
    BY <2>1
<1>8. Ends(c, F, R, s, q) /\ << value >> \in Seq(F.values) /\ q \in Seq(F.values) /\ 1 \in Nat
  BY <1>1, <1>3, <1>4, <1>6
<1>9. CASE c.threw
  <2>1. r = c
    BY <1>9, ThrownStays DEF InsertBehind
  <2>2. QED
    BY <1>8, <1>9, <2>1, NothingDone DEF Ends
<1>10. CASE ~ c.threw
  <2>1. Size(c) = l + 1
    <3>1. Holds(c, F, R, q)
      BY <1>8, <1>10 DEF Ends
    <3>2. c.start \in Nat /\ c.finish = c.start + (l + 1)
      BY <1>6, <3>1, HoldsParts
    <3>3. QED
      BY <3>2 DEF Size
  <2>2. Size(c) - 2 - i = h
    BY <1>7, <2>1
  <2>3. r = Put(CopyUp(c, i, h, g), i, << value >>)
    BY <1>7, <2>2 DEF InsertBehind
  <2>4. QED
    BY <1>3, <1>6, <1>7, <1>8, <2>3, BackMoves
<1>11. QED
  BY <1>9, <1>10

\* Inserting a copy of an element, with a local one of it
LEMMA InsertInsideDoes ==
  ASSUME NEW F, Framed(F), NEW R, NEW m, NEW s, Holds(m, F, R, s), NEW l \in Nat, Len(s) = l,
         NEW value \in F.values, NEW i \in Nat, 1 <= i, i < l, Fresh(m, F, 1),
         NEW t \in Seq(F.values), Spliced(t, s, i, i, << value >>), NEW r, r = InsertInside(m, i, value)
  PROVE  Does(r, F, R, s, t, FALSE)
<1>1. s \in Seq(F.values) /\ Size(m) = l
  BY HoldsParts DEF Size
<1>2. PICK c : c = LocalCopy(m)
  OBVIOUS
<1>3. Holds(c, F, R, s) /\ Fresh(c, F, 1)
  BY <1>2, LocalCopyDoes DEF Fresh
<1>4. PICK e, f : e = s[1] /\ f = s[l]
  OBVIOUS
<1>5. Element(m, 0) = e /\ e \in F.values
  <2>1. 0 \in Nat /\ 0 < l /\ 0 + 1 = 1
    OBVIOUS
  <2>2. QED
    BY <1>4, <2>1, ElementIs
<1>6. Element(m, Size(m) - 1) = f /\ f \in F.values
  <2>1. PICK k \in Nat : k = l - 1
    OBVIOUS
  <2>2. k < l /\ k + 1 = l
    BY <2>1
  <2>3. QED
    BY <1>1, <1>4, <2>1, <2>2, ElementIs
<1>7. CASE i < Size(m) \div 2
  <2>1. r = InsertBefore(PushFront(c, e), i, value)
    BY <1>2, <1>5, <1>7 DEF InsertInside
  <2>2. PICK d : d = PushFront(c, e)
    OBVIOUS
  <2>3. Ends(d, F, R, s, << e >> \o s)
    BY <1>3, <1>5, <2>2, PushDoes
  <2>4. i <= l
    OBVIOUS
  <2>5. QED
    BY <1>1, <1>4, <2>1, <2>2, <2>3, <2>4, InsertBeforeDoes
<1>8. CASE ~ (i < Size(m) \div 2)
  <2>1. r = InsertBehind(PushBack(c, f), i, value)
    BY <1>2, <1>6, <1>8 DEF InsertInside
  <2>2. PICK d : d = PushBack(c, f)
    OBVIOUS
  <2>3. Ends(d, F, R, s, s \o << f >>)
    BY <1>3, <1>6, <2>2, PushDoes
  <2>4. QED
    BY <1>1, <1>4, <2>1, <2>2, <2>3, InsertBehindDoes
<1>9. QED
  BY <1>7, <1>8

\* Values in front of the sequence, or behind it, are what their insertion gives.
LEMMA EndSplices ==
  ASSUME NEW F, NEW s \in Seq(F.values), NEW values \in Seq(F.values), NEW t \in Seq(F.values)
  PROVE  /\ Spliced(t, s, 0, 0, values) => t = values \o s
         /\ Spliced(t, s, Len(s), Len(s), values) => t = s \o values
         /\ values \o s \in Seq(F.values) /\ s \o values \in Seq(F.values)
<1>1. PICK S : S = F.values
  OBVIOUS
<1>2. s \in Seq(S) /\ values \in Seq(S) /\ t \in Seq(S)
  BY <1>1
<1>3. PICK v, w : v = values \o s /\ w = s \o values
  OBVIOUS
<1>4. /\ v \in Seq(S) /\ w \in Seq(S)
      /\ Spliced(v, s, 0, 0, values) /\ Spliced(w, s, Len(s), Len(s), values)
  BY <1>2, <1>3, JoinedSplices
<1>5. 0 \in Nat /\ 0 <= Len(s) /\ 0 <= 0 /\ Len(s) \in Nat /\ Len(s) <= Len(s)
  OBVIOUS
<1>6. Spliced(t, s, 0, 0, values) => t = v
  BY <1>2, <1>4, <1>5, SplicedSame
<1>7. Spliced(t, s, Len(s), Len(s), values) => t = w
  BY <1>2, <1>4, <1>5, SplicedSame
<1>8. QED
  BY <1>1, <1>3, <1>4, <1>6, <1>7

\* insert of one element, push_front and push_back
LEMMA InsertOneDoes ==
  ASSUME NEW F, Framed(F), NEW R, NEW m, NEW s, Holds(m, F, R, s), NEW value \in F.values, Fresh(m, F, 1),
         NEW i \in Nat, i <= Len(s), NEW t \in Seq(F.values), Spliced(t, s, i, i, << value >>)
  PROVE  /\ Does(InsertOne(m, i, value), F, R, s, t, i \in {0, Len(s)})
         /\ i = 0 => Does(PushFront(m, value), F, R, s, t, TRUE)
         /\ i = Len(s) => Does(PushBack(m, value), F, R, s, t, TRUE)
<1>1. s \in Seq(F.values) /\ Size(m) = Len(s) /\ Len(s) \in Nat
  BY HoldsParts DEF Size
<1>2. << value >> \in Seq(F.values)
  <2>1. PICK S : S = F.values
    OBVIOUS
  <2>2. value \in S
    BY <2>1
  <2>3. << value >> \in Seq(S)
    BY <2>2
  <2>4. QED
    BY <2>1, <2>3
<1>3. /\ Ends(PushFront(m, value), F, R, s, << value >> \o s)
      /\ Ends(PushBack(m, value), F, R, s, s \o << value >>)
  BY PushDoes
<1>4. /\ i = 0 => t = << value >> \o s
      /\ i = Len(s) => t = s \o << value >>
  <2>1. PICK v : v = << value >>
    OBVIOUS
  <2>2. v \in Seq(F.values) /\ Spliced(t, s, i, i, v)
    BY <1>2, <2>1
  <2>3. /\ Spliced(t, s, 0, 0, v) => t = v \o s
        /\ Spliced(t, s, Len(s), Len(s), v) => t = s \o v
    BY <1>1, <2>2, EndSplices
  <2>4. QED
    BY <2>1, <2>2, <2>3
<1>5. ASSUME i = 0, NEW strong PROVE Does(PushFront(m, value), F, R, s, t, strong)
  BY <1>1, <1>3, <1>4, <1>5, EndsDoes
<1>6. ASSUME i = Len(s), NEW strong PROVE Does(PushBack(m, value), F, R, s, t, strong)
  BY <1>1, <1>3, <1>4, <1>6, EndsDoes
<1>7. CASE i = 0
  BY <1>5, <1>6, <1>7 DEF InsertOne
<1>8. CASE i # 0 /\ i = Len(s)
  BY <1>1, <1>6, <1>8 DEF InsertOne
<1>9. CASE i # 0 /\ i # Len(s)
  <2>1. InsertOne(m, i, value) = InsertInside(m, i, value) /\ (i \in {0, Len(s)}) = FALSE
    BY <1>1, <1>9 DEF InsertOne
  <2>2. PICK l \in Nat : l = Len(s)
    BY <1>1
  <2>3. 1 <= i /\ i < l
    BY <1>9, <2>2
  <2>4. Does(InsertInside(m, i, value), F, R, s, t, FALSE)
    BY <2>2, <2>3, InsertInsideDoes
  <2>5. QED
    BY <1>9, <2>1, <2>4
<1>10. QED
  BY <1>7, <1>8, <1>9
\* Where there is room, the elements at an end can be read.
LEMMA RoomReads ==
  ASSUME NEW F, Framed(F), NEW R, NEW m, NEW s, NEW n \in Nat, FrontRoom(m, F, R, n, s) \/ BackRoom(m, F, R, n, s),
         NEW a \in Nat, NEW b \in Nat, a <= b, b <= Len(s)
  PROVE  /\ Elems(m, m.start + a, m.start + b) = Piece(s, a, b)
         /\ m.start \in Nat /\ m.finish = m.start + Len(s) /\ s \in Seq(F.values)
<1>1. PICK lo, up : Laid(m, F, R, lo, up, m.start, s)
  BY DEF FrontRoom, BackRoom
<1>2. m.start \in Nat /\ s \in Seq(F.values)
  BY <1>1, LaidParts
<1>3. PICK from \in Nat, to \in Nat : from = m.start + a /\ to = m.start + b
  BY <1>2
<1>4. Elems(m, from, to) = Piece(s, a, b)
  BY <1>1, <1>3, LaidRead
<1>5. QED
  BY <1>2, <1>3, <1>4 DEF FrontRoom, BackRoom

\* Building at an end makes of the sequence what it says.
LEMMA BuildsEnd ==
  ASSUME NEW F, Framed(F), NEW R, NEW m, NEW s, ~ m.threw, NEW n \in Nat, NEW values \in Seq(F.values),
         Len(values) = n
  PROVE  /\ FrontRoom(m, F, R, n, s) => Ends(BuildAtFront(m, values), F, R, s, values \o s)
         /\ BackRoom(m, F, R, n, s) => Ends(BuildAtBack(m, values), F, R, s, s \o values)
<1>1. ASSUME FrontRoom(m, F, R, n, s) PROVE Ends(BuildAtFront(m, values), F, R, s, values \o s)
  BY <1>1, BuildAtFrontDoes DEF Ends
<1>2. ASSUME BackRoom(m, F, R, n, s) PROVE Ends(BuildAtBack(m, values), F, R, s, s \o values)
  BY <1>2, BuildAtBackDoes DEF Ends
<1>3. QED
  BY <1>1, <1>2

\* Few elements are put in, with room in front.
LEMMA FewAtFrontDoes ==
  ASSUME NEW F, Framed(F), NEW R, NEW m, NEW s \in Seq(F.values), ~ m.threw, NEW l \in Nat, Len(s) = l,
         NEW values \in Seq(F.values), NEW n \in Nat, Len(values) = n, FrontRoom(m, F, R, n, s),
         NEW i \in Nat, n <= i, i <= l, NEW t \in Seq(F.values), Spliced(t, s, i, i, values),
         NEW r, r = FewAtFront(m, i, values)
  PROVE  Does(r, F, R, s, t, FALSE)
<1>1. PICK p : p = Piece(s, 0, n)
  OBVIOUS
<1>2. p \in Seq(F.values) /\ Len(p) = n /\ Before(p \o s, s, n) /\ p \o s \in Seq(F.values)
  <2>1. PICK S : S = F.values
    OBVIOUS
  <2>2. s \in Seq(S)
    BY <2>1
  <2>3. PICK k \in Nat : k = l - n
    OBVIOUS
  <2>4. p \in Seq(S) /\ Len(p) = n /\ Before(p \o s, s, n)
    BY <1>1, <2>2, <2>3, EndsDoubled
  <2>5. p \o s \in Seq(S)
    BY <2>2, <2>4
  <2>6. QED
    BY <2>1, <2>4, <2>5
<1>3. Elems(m, m.start, m.start + n) = p
  <2>1. 0 \in Nat /\ 0 <= n /\ n <= Len(s)
    OBVIOUS
  <2>2. Elems(m, m.start + 0, m.start + n) = Piece(s, 0, n) /\ m.start \in Nat
    BY <2>1, RoomReads
  <2>3. m.start + 0 = m.start
    BY <2>2
  <2>4. QED
    BY <1>1, <2>2, <2>3
<1>4. PICK c : c = BuildAtFront(m, p)
  OBVIOUS
<1>5. Ends(c, F, R, s, p \o s)
  BY <1>2, <1>4, BuildsEnd
<1>6. PICK a \in Nat, h \in Nat : a = n + n /\ h = i - n
  <2>1. n + n \in Nat /\ i - n \in Nat
    OBVIOUS
  <2>2. QED
    BY <2>1
<1>7. 2 * n = a
  BY <1>6
<1>8. r = Put(CopyDown(c, a, h, n), i, values)
  BY <1>3, <1>4, <1>6, <1>7 DEF FewAtFront
<1>9. QED
  BY <1>2, <1>5, <1>6, <1>8, FrontMoves

\* Few elements are put in, with room behind.
LEMMA FewAtBackDoes ==
  ASSUME NEW F, Framed(F), NEW R, NEW m, NEW s \in Seq(F.values), ~ m.threw, NEW l \in Nat, Len(s) = l,
         NEW values \in Seq(F.values), NEW n \in Nat, Len(values) = n, BackRoom(m, F, R, n, s),
         NEW i \in Nat, NEW h \in Nat, l = i + h + n, NEW t \in Seq(F.values), Spliced(t, s, i, i, values),
         NEW r, r = FewAtBack(m, i, values)
  PROVE  Does(r, F, R, s, t, FALSE)
<1>0. PICK k \in Nat : k = l - n
  <2>1. l - n \in Nat
    OBVIOUS
  <2>2. QED
    BY <2>1
<1>1. PICK p : p = Piece(s, k, l)
  OBVIOUS
<1>2. p \in Seq(F.values) /\ Len(p) = n /\ Behind(s \o p, s, n) /\ s \o p \in Seq(F.values)
  <2>1. PICK S : S = F.values
    OBVIOUS
  <2>2. s \in Seq(S) /\ n <= l
    BY <2>1
  <2>4. p \in Seq(S) /\ Len(p) = n /\ Behind(s \o p, s, n)
    BY <1>0, <1>1, <2>2, EndsDoubled
  <2>5. s \o p \in Seq(S)
    BY <2>2, <2>4
  <2>6. QED
    BY <2>1, <2>4, <2>5
<1>3. Elems(m, m.finish - n, m.finish) = p /\ Size(m) = l
  <2>1. k <= l /\ l <= Len(s)
    BY <1>0
  <2>2. /\ Elems(m, m.start + k, m.start + l) = Piece(s, k, l) /\ m.start \in Nat
        /\ m.finish = m.start + l
    <3>1. FrontRoom(m, F, R, n, s) \/ BackRoom(m, F, R, n, s)
      OBVIOUS
    <3>2. Elems(m, m.start + k, m.start + l) = Piece(s, k, l)
      BY <2>1, <3>1, RoomReads
    <3>3. m.start \in Nat /\ m.finish = m.start + Len(s)
      BY <2>1, <3>1, RoomReads
    <3>4. QED
      BY <3>2, <3>3
  <2>3. m.start + k = m.finish - n /\ m.finish - m.start = l
    BY <1>0, <2>2
  <2>4. QED
    BY <1>1, <2>2, <2>3 DEF Size
<1>4. PICK c : c = BuildAtBack(m, p)
  OBVIOUS
<1>5. Ends(c, F, R, s, s \o p)
  BY <1>2, <1>4, BuildsEnd
<1>6. PICK g \in Nat : g = i + n
  OBVIOUS
<1>7. Size(m) - i - n = h
  BY <1>3
<1>8. r = Put(CopyUp(c, i, h, g), i, values)
  BY <1>3, <1>4, <1>6, <1>7 DEF FewAtBack
<1>9. QED
  BY <1>2, <1>5, <1>6, <1>8, BackMoves
\* Assigning once to some of the elements: what covers them, or something as long
LEMMA PutOnce ==
  ASSUME NEW F, Framed(F), NEW R, NEW q \in Seq(F.values), NEW c, Holds(c, F, R, q), ~ c.threw, NEW i \in Nat,
         NEW values \in Seq(F.values), i + Len(values) <= Len(q), NEW r, r = Put(c, i, values)
  PROVE  /\ r.next = c.next
         /\ \E w \in Seq(F.values) :
              Holds(r, F, R, w) /\ Len(w) = Len(q) /\ (~ r.threw => Covered(w, q, i, values))
<1>1. Rewritten(r, F, R, q, i, values) /\ r.next = c.next
  BY PutDoes
<1>2. CASE r.threw
  <2>1. PICK w \in Seq(F.values) : Len(w) = Len(q) /\ Holds(r, F, R, w)
    BY <1>1, <1>2 DEF Rewritten
  <2>2. QED
    BY <1>1, <1>2, <2>1
<1>3. CASE ~ r.threw
  <2>1. PICK w : w = Over(q, i, values)
    OBVIOUS
  <2>2. PICK S : S = F.values
    OBVIOUS
  <2>3. q \in Seq(S) /\ values \in Seq(S)
    BY <2>2
  <2>4. Covered(Over(q, i, values), q, i, values) /\ Over(q, i, values) \in Seq(S)
    BY <2>3, OverCovers
  <2>5. Len(w) = Len(q)
    BY <2>1, <2>4 DEF Covered
  <2>6. Holds(r, F, R, w)
    BY <1>1, <1>3, <2>1 DEF Rewritten
  <2>7. QED
    BY <1>1, <2>1, <2>2, <2>4, <2>5, <2>6
<1>4. QED
  BY <1>2, <1>3

\* Many elements are put in, with room in front.
LEMMA ManyAtFrontDoes ==
  ASSUME NEW F, Framed(F), NEW R, NEW m, NEW s \in Seq(F.values), ~ m.threw, NEW l \in Nat, Len(s) = l,
         NEW values \in Seq(F.values), NEW n \in Nat, Len(values) = n, FrontRoom(m, F, R, n, s),
         NEW i \in Nat, i <= l, NEW h \in Nat, n = i + h, NEW t \in Seq(F.values), Spliced(t, s, i, i, values),
         NEW r, r = ManyAtFront(m, i, values)
  PROVE  Does(r, F, R, s, t, FALSE)
<1>1. PICK S : S = F.values
  OBVIOUS
<1>2. s \in Seq(S) /\ values \in Seq(S)
  BY <1>1
<1>3. PICK head, some, rest : head = Piece(s, 0, i) /\ some = First(values, h) /\ rest = Last(values, i)
  OBVIOUS
<1>4. head \in Seq(S) /\ Taken(head, s, 0, i)
  <2>1. 0 \in Nat /\ i = 0 + i /\ i <= Len(s)
    OBVIOUS
  <2>2. QED
    BY <1>2, <1>3, <2>1, PieceTakes
<1>5. /\ some \in Seq(S) /\ Taken(some, values, 0, h)
      /\ rest \in Seq(S) /\ Taken(rest, values, h, i)
  <2>1. n = h + i
    OBVIOUS
  <2>2. QED
    BY <1>2, <1>3, <2>1, PartsTaken
<1>6. Len(head) = i /\ Len(some) = h /\ Len(rest) = i
  BY <1>4, <1>5 DEF Taken
<1>7. PICK p, q : p = head \o some /\ q = p \o s
  OBVIOUS
<1>8. q \in Seq(S) /\ Row3(q, head, some, s)
  BY <1>2, <1>4, <1>5, <1>7, JoinedRow
<1>9. p \in Seq(S) /\ Len(p) = n
  <2>1. Joined(p, S, head, some)
    BY <1>4, <1>5, <1>7, JoinedAre
  <2>2. QED
    BY <1>6, <2>1 DEF Joined
<1>10. Elems(m, m.start, m.start + i) = head
  <2>1. 0 \in Nat /\ 0 <= i /\ i <= Len(s)
    OBVIOUS
  <2>2. Elems(m, m.start + 0, m.start + i) = Piece(s, 0, i) /\ m.start \in Nat
    BY <2>1, RoomReads
  <2>3. m.start + 0 = m.start
    BY <2>2
  <2>4. QED
    BY <1>3, <2>2, <2>3
<1>11. PICK c : c = BuildAtFront(m, p)
  OBVIOUS
<1>12. Ends(c, F, R, s, q)
  BY <1>1, <1>7, <1>9, <1>11, BuildsEnd
<1>13. r = Put(c, n, rest)
  <2>1. Len(values) - i = h
    OBVIOUS
  <2>2. QED
    BY <1>3, <1>7, <1>10, <1>11, <2>1 DEF ManyAtFront
<1>14. CASE c.threw
  <2>1. r = c
    BY <1>13, <1>14, ThrownStays
  <2>2. QED
    BY <1>12, <1>14, <2>1, NothingDone DEF Ends
<1>15. CASE ~ c.threw
  <2>1. Holds(c, F, R, q)
    BY <1>12, <1>15 DEF Ends
  <2>2. Len(q) = l + n /\ n + Len(rest) <= Len(q)
    <3>1. Len(q) = i + h + l
      BY <1>6, <1>8 DEF Row3
    <3>2. QED
      BY <1>6, <3>1
  <2>3. q \in Seq(F.values) /\ rest \in Seq(F.values)
    BY <1>1, <1>5, <1>8
  <2>4. PICK w \in Seq(F.values) :
          Holds(r, F, R, w) /\ Len(w) = Len(q) /\ (~ r.threw => Covered(w, q, n, rest))
    BY <1>13, <1>15, <2>1, <2>2, <2>3, PutOnce
  <2>5. ASSUME ~ r.threw PROVE Spliced(w, s, i, i, values)
    <3>1. Covered(w, q, n, rest) /\ w \in Seq(S)
      BY <1>1, <2>4, <2>5
    <3>2. QED
      BY <1>2, <1>4, <1>5, <1>8, <3>1, ManyFrontSplices
  <2>6. Len(w) = Len(s) + Len(values) /\ i <= Len(s)
    BY <2>2, <2>4
  <2>7. QED
    BY <2>4, <2>5, <2>6, InsertedDoes
<1>16. QED
  BY <1>14, <1>15

\* Many elements are put in, with room behind.
LEMMA ManyAtBackDoes ==
  ASSUME NEW F, Framed(F), NEW R, NEW m, NEW s \in Seq(F.values), ~ m.threw, NEW l \in Nat, Len(s) = l,
         NEW values \in Seq(F.values), NEW n \in Nat, Len(values) = n, BackRoom(m, F, R, n, s),
         NEW i \in Nat, NEW a \in Nat, l = i + a, NEW h \in Nat, n = a + h,
         NEW t \in Seq(F.values), Spliced(t, s, i, i, values), NEW r, r = ManyAtBack(m, i, values)
  PROVE  Does(r, F, R, s, t, FALSE)
<1>1. PICK S : S = F.values
  OBVIOUS
<1>2. s \in Seq(S) /\ values \in Seq(S)
  BY <1>1
<1>3. PICK some, tail, rest : some = Last(values, h) /\ tail = Piece(s, i, l) /\ rest = First(values, a)
  OBVIOUS
<1>4. tail \in Seq(S) /\ Taken(tail, s, i, a)
  <2>1. l <= Len(s)
    OBVIOUS
  <2>2. QED
    BY <1>2, <1>3, <2>1, PieceTakes
<1>5. /\ some \in Seq(S) /\ Taken(some, values, a, h)
      /\ rest \in Seq(S) /\ Taken(rest, values, 0, a)
  BY <1>2, <1>3, PartsTaken
<1>6. Len(tail) = a /\ Len(some) = h /\ Len(rest) = a
  BY <1>4, <1>5 DEF Taken
<1>7. PICK p, q : p = some \o tail /\ q = s \o p
  OBVIOUS
<1>8. q \in Seq(S) /\ Row3(q, s, some, tail)
  BY <1>2, <1>4, <1>5, <1>7, JoinedRow
<1>9. p \in Seq(S) /\ Len(p) = n
  <2>1. Joined(p, S, some, tail)
    BY <1>4, <1>5, <1>7, JoinedAre
  <2>2. QED
    BY <1>6, <2>1 DEF Joined
<1>10. Elems(m, m.start + i, m.finish) = tail /\ Size(m) = l
  <2>1. i <= l /\ l <= Len(s) /\ (FrontRoom(m, F, R, n, s) \/ BackRoom(m, F, R, n, s))
    OBVIOUS
  <2>2. Elems(m, m.start + i, m.start + l) = Piece(s, i, l)
    BY <2>1, RoomReads
  <2>3. m.start \in Nat /\ m.finish = m.start + Len(s)
    BY <2>1, RoomReads
  <2>4. m.finish = m.start + l /\ m.finish - m.start = l
    BY <2>3
  <2>5. QED
    BY <1>3, <2>2, <2>4 DEF Size
<1>11. PICK c : c = BuildAtBack(m, p)
  OBVIOUS
<1>12. Ends(c, F, R, s, q)
  BY <1>1, <1>7, <1>9, <1>11, BuildsEnd
<1>13. r = Put(c, i, rest)
  <2>1. Size(m) - i = a /\ Len(values) - a = h
    BY <1>10
  <2>2. QED
    BY <1>3, <1>7, <1>10, <1>11, <2>1 DEF ManyAtBack
<1>14. CASE c.threw
  <2>1. r = c
    BY <1>13, <1>14, ThrownStays
  <2>2. QED
    BY <1>12, <1>14, <2>1, NothingDone DEF Ends
<1>15. CASE ~ c.threw
  <2>1. Holds(c, F, R, q)
    BY <1>12, <1>15 DEF Ends
  <2>2. Len(q) = l + n /\ i + Len(rest) <= Len(q)
    <3>1. Len(q) = l + h + a
      BY <1>6, <1>8 DEF Row3
    <3>2. QED
      BY <1>6, <3>1
  <2>3. q \in Seq(F.values) /\ rest \in Seq(F.values)
    BY <1>1, <1>5, <1>8
  <2>4. PICK w \in Seq(F.values) :
          Holds(r, F, R, w) /\ Len(w) = Len(q) /\ (~ r.threw => Covered(w, q, i, rest))
    BY <1>13, <1>15, <2>1, <2>2, <2>3, PutOnce
  <2>5. ASSUME ~ r.threw PROVE Spliced(w, s, i, i, values)
    <3>1. Covered(w, q, i, rest) /\ w \in Seq(S)
      BY <1>1, <2>4, <2>5
    <3>2. QED
      BY <1>2, <1>4, <1>5, <1>8, <3>1, ManyBackSplices
  <2>6. Len(w) = Len(s) + Len(values) /\ i <= Len(s)
    BY <2>2, <2>4
  <2>7. QED
    BY <2>4, <2>5, <2>6, InsertedDoes
<1>16. QED
  BY <1>14, <1>15

\* Inserting many elements inside
LEMMA InsertManyDoes ==
  ASSUME NEW F, Framed(F), NEW R, NEW m, NEW s, Holds(m, F, R, s), ~ m.threw, NEW l \in Nat, Len(s) = l,
         NEW values \in Seq(F.values), NEW n \in Nat, Len(values) = n, Fresh(m, F, n),
         NEW i \in Nat, i <= l, NEW t \in Seq(F.values), Spliced(t, s, i, i, values),
         NEW r, r = InsertMany(m, i, values)
  PROVE  Does(r, F, R, s, t, FALSE)
<1>1. s \in Seq(F.values)
  BY HoldsParts
<1>2. CASE i < Size(m) \div 2
  <2>1. PICK c : c = ReserveElementsAtFront(m, n)
    OBVIOUS
  <2>2. (c.threw => Holds(c, F, R, s)) /\ (~ c.threw => FrontRoom(c, F, R, n, s))
    BY <2>1, ReserveElementsAtFrontDoes DEF Fresh
  <2>3. r = InsertFront(c, i, values)
    BY <1>2, <2>1 DEF InsertMany
  <2>4. CASE c.threw
    BY <1>1, <2>2, <2>3, <2>4, NothingDone DEF InsertFront
  <2>5. CASE ~ c.threw /\ i >= n
    <3>1. r = FewAtFront(c, i, values) /\ n <= i
      BY <2>3, <2>5 DEF InsertFront
    <3>2. QED
      BY <1>1, <2>2, <2>5, <3>1, FewAtFrontDoes
  <2>6. CASE ~ c.threw /\ ~ (i >= n)
    <3>1. r = ManyAtFront(c, i, values)
      BY <2>3, <2>6 DEF InsertFront
    <3>2. PICK h \in Nat : n = i + h
      <4>1. n - i \in Nat /\ n = i + (n - i)
        BY <2>6
      <4>2. QED
        BY <4>1
    <3>3. QED
      BY <1>1, <2>2, <2>6, <3>1, <3>2, ManyAtFrontDoes
  <2>7. QED
    BY <2>4, <2>5, <2>6
<1>3. CASE ~ (i < Size(m) \div 2)
  <2>1. PICK c : c = ReserveElementsAtBack(m, n)
    OBVIOUS
  <2>2. (c.threw => Holds(c, F, R, s)) /\ (~ c.threw => BackRoom(c, F, R, n, s))
    BY <2>1, ReserveElementsAtBackDoes DEF Fresh
  <2>3. r = InsertBack(c, i, values)
    BY <1>3, <2>1 DEF InsertMany
  <2>4. CASE c.threw
    BY <1>1, <2>2, <2>3, <2>4, NothingDone DEF InsertBack
  <2>5. ASSUME ~ c.threw PROVE Size(c) = l
    <3>1. FrontRoom(c, F, R, n, s) \/ BackRoom(c, F, R, n, s)
      BY <2>2, <2>5
    <3>2. 0 \in Nat /\ 0 <= 0 /\ 0 <= Len(s)
      OBVIOUS
    <3>3. c.start \in Nat /\ c.finish = c.start + Len(s)
      BY <3>1, <3>2, RoomReads
    <3>4. QED
      BY <3>3 DEF Size
  <2>6. CASE ~ c.threw /\ l - i > n
    <3>1. r = FewAtBack(c, i, values)
      BY <2>3, <2>5, <2>6 DEF InsertBack
    <3>2. PICK h \in Nat : l = i + h + n
      <4>1. l - i - n \in Nat /\ l = i + (l - i - n) + n
        BY <2>6
      <4>2. QED
        BY <4>1
    <3>3. QED
      BY <1>1, <2>2, <2>6, <3>1, <3>2, FewAtBackDoes
  <2>7. CASE ~ c.threw /\ ~ (l - i > n)
    <3>1. r = ManyAtBack(c, i, values)
      BY <2>3, <2>5, <2>7 DEF InsertBack
    <3>2. PICK a \in Nat, h \in Nat : l = i + a /\ n = a + h
      <4>1. l - i \in Nat /\ n - (l - i) \in Nat /\ l = i + (l - i) /\ n = (l - i) + (n - (l - i))
        BY <2>7
      <4>2. QED
        BY <4>1
    <3>3. QED
      BY <1>1, <2>2, <2>7, <3>1, <3>2, ManyAtBackDoes
  <2>8. QED
    BY <2>4, <2>6, <2>7
<1>4. QED
  BY <1>2, <1>3

\* insert of a range
LEMMA InsertRangeDoes ==
  ASSUME NEW F, Framed(F), NEW R, NEW m, NEW s, Holds(m, F, R, s), ~ m.threw,
         NEW values \in Seq(F.values), Fresh(m, F, Len(values)),
         NEW i \in Nat, i <= Len(s), NEW t \in Seq(F.values), Spliced(t, s, i, i, values),
         NEW r, r = InsertRange(m, i, values)
  PROVE  Does(r, F, R, s, t, i \in {0, Len(s)})
<1>1. s \in Seq(F.values) /\ Size(m) = Len(s) /\ Len(s) \in Nat
  BY HoldsParts DEF Size
<1>2. CASE i = 0
  <2>1. r = InsertAtFront(m, values) /\ t = values \o s
    BY <1>1, <1>2, EndSplices DEF InsertRange
  <2>2. Ends(r, F, R, s, t)
    BY <2>1, InsertAtFrontDoes
  <2>3. QED
    BY <1>1, <2>2, EndsDoes
<1>3. CASE i # 0 /\ i = Len(s)
  <2>1. r = InsertAtBack(m, values)
    BY <1>1, <1>3 DEF InsertRange
  <2>2. t = s \o values
    BY <1>1, <1>3, EndSplices
  <2>3. Ends(r, F, R, s, t)
    BY <2>1, <2>2, InsertAtBackDoes
  <2>4. QED
    BY <1>1, <2>3, EndsDoes
<1>4. CASE i # 0 /\ i # Len(s)
  <2>1. r = InsertMany(m, i, values) /\ (i \in {0, Len(s)}) = FALSE
    BY <1>1, <1>4 DEF InsertRange
  <2>2. PICK l \in Nat, n \in Nat : l = Len(s) /\ n = Len(values)
    BY <1>1
  <2>3. Does(r, F, R, s, t, FALSE)
    BY <2>1, <2>2, InsertManyDoes
  <2>4. QED
    BY <2>1, <2>3
<1>5. QED
  BY <1>2, <1>3, <1>4

\* The operations on a memory where something threw
LEMMA ThrownRanges ==
  ASSUME NEW m, m.threw
  PROVE  /\ \A i, values : InsertRange(m, i, values) = m
         /\ \A from, to : EraseRange(m, from, to) = m
<1>1. \A n : ReserveElementsAtFront(m, n) = m /\ ReserveElementsAtBack(m, n) = m
  BY DEF ReserveElementsAtFront, ReserveElementsAtBack, NewElementsAtFront, NewElementsAtBack, NodesBefore,
         NodesBehind, NewNodes, ReserveMapAtFront, ReserveMapAtBack
<1>2. \A i, values : InsertMany(m, i, values) = m
  BY <1>1 DEF InsertMany, InsertFront, InsertBack
<1>3. \A i, values : InsertRange(m, i, values) = m
  BY <1>2, ThrownStays DEF InsertRange
<1>4. \A from, to : EraseRange(m, from, to) = m
  BY ThrownStays DEF EraseRange, Clear
<1>5. QED
  BY <1>3, <1>4

\* insert of copies, of a copy of the argument where they are put in inside
LEMMA InsertFillDoes ==
  ASSUME NEW F, Framed(F), NEW R, NEW m, NEW s, Holds(m, F, R, s), ~ m.threw, NEW n \in Nat, NEW value,
         NEW values \in Seq(F.values), values = Times(n, value), Fresh(m, F, Len(values)),
         NEW i \in Nat, i <= Len(s), NEW t \in Seq(F.values), Spliced(t, s, i, i, values),
         NEW r, r = InsertFill(m, i, n, value)
  PROVE  Does(r, F, R, s, t, i \in {0, Len(s)})
<1>1. PICK c : c = IF i \in 1 .. Size(m) - 1 THEN LocalCopy(m) ELSE m
  OBVIOUS
<1>2. Holds(c, F, R, s) /\ Fresh(c, F, Len(values)) /\ s \in Seq(F.values)
  <2>1. CASE c = m
    BY <2>1, HoldsParts
  <2>2. CASE c = LocalCopy(m)
    <3>1. Holds(c, F, R, s) /\ c.next = m.next
      BY <2>2, LocalCopyDoes
    <3>2. QED
      BY <3>1, HoldsParts DEF Fresh
  <2>3. QED
    BY <1>1, <2>1, <2>2
<1>3. r = InsertRange(c, i, values)
  BY <1>1 DEF InsertFill
<1>4. CASE c.threw
  <2>1. r = c
    BY <1>3, <1>4, ThrownRanges
  <2>2. QED
    BY <1>2, <1>4, <2>1, NothingDone
<1>5. CASE ~ c.threw
  BY <1>2, <1>3, <1>5, InsertRangeDoes
<1>6. QED
  BY <1>4, <1>5
\* Moving no element cannot throw.
LEMMA NothingMoves ==
  ASSUME NEW F, NEW m \in Memories(F), ~ m.threw, NEW from \in Nat, NEW to \in Nat
  PROVE  ~ CopyDown(m, from, 0, to).threw /\ ~ CopyUp(m, from, 0, to).threw
<1>1. m.start \in Nat /\ m.fuel \in Nat
  BY DEF Memories
<1>2. PICK p \in Nat : p = m.start + to
  BY <1>1
<1>3. PICK at : at = At(m, p, p)
  OBVIOUS
<1>4. Len(at) = 0
  <2>1. p <= p /\ p - p = 0
    OBVIOUS
  <2>2. Len(at) = p - p
    BY <1>3, <2>1, AtAre
  <2>3. QED
    BY <2>1, <2>2
<1>5. AtIndex(m, to, 0) = at
  BY <1>2, <1>3 DEF AtIndex
<1>6. ASSUME NEW values, NEW some PROVE Assign(m, values, some).fuel = m.fuel
  BY DEF Assign, Misused, Store, Memories
<1>7. ASSUME NEW values PROVE ~ CopyForward(m, values, at).threw /\ ~ CopyBackward(m, values, at).threw
  <2>1. ASSUME NEW v, NEW a PROVE ~ Spend(Assign(m, v, a), 0).threw
    <3>1. Spend(Assign(m, v, a), 0).threw = (0 > Assign(m, v, a).fuel)
      BY DEF Spend, Assign, Misused, Store, Memories
    <3>2. ~ (0 > m.fuel)
      BY <1>1
    <3>3. Assign(m, v, a).fuel = m.fuel
      BY <1>6
    <3>4. QED
      BY <3>1, <3>2, <3>3
  <2>2. QED
    BY <1>4, <2>1 DEF CopyForward, CopyBackward
<1>8. QED
  BY <1>5, <1>7 DEF CopyDown, CopyUp

\* A strong operation is one that is not.
LEMMA DoesWeaker ==
  ASSUME NEW F, NEW R, NEW r, NEW s, NEW t, NEW strong, Does(r, F, R, s, t, strong), NEW weak, weak => strong
  PROVE  Does(r, F, R, s, t, weak)
<1>1. PICK w : Outcome(r, F, R, s, t, strong, w)
  BY DEF Does
<1>2. Outcome(r, F, R, s, t, weak, w)
  BY <1>1 DEF Outcome
<1>3. QED
  BY <1>2 DEF Does

\* A shorter sequence, or what the moves left of the old one, is between the two.
LEMMA ErasedDoes ==
  ASSUME NEW F, NEW R, NEW r, NEW s \in Seq(F.values), NEW from \in Nat, NEW to \in Nat, from <= to, to <= Len(s),
         NEW t \in Seq(F.values), Spliced(t, s, from, to, << >>), NEW strong,
         NEW w \in Seq(F.values), Holds(r, F, R, w), r.threw => ~ strong /\ Len(w) = Len(s),
         ~ r.threw => Spliced(w, s, from, to, << >>)
  PROVE  Does(r, F, R, s, t, strong)
<1>1. PICK S : S = F.values
  OBVIOUS
<1>2. Len(t) <= Len(s)
  <2>1. Len(<< >>) = 0
    OBVIOUS
  <2>2. Len(t) = from + 0 + (Len(s) - to)
    BY <2>1 DEF Spliced
  <2>3. QED
    BY <2>2
<1>3. ASSUME ~ r.threw PROVE w = t
  <2>1. << >> \in Seq(S)
    OBVIOUS
  <2>2. w \in Seq(S) /\ t \in Seq(S) /\ s \in Seq(S) /\ Spliced(w, s, from, to, << >>)
    BY <1>1, <1>3
  <2>3. QED
    BY <2>1, <2>2, SplicedSame
<1>4. Len(w) \in Nat /\ Len(t) \in Nat
  OBVIOUS
<1>5. Outcome(r, F, R, s, t, strong, w)
  <2>1. r.threw => ~ strong /\ Len(t) <= Len(w) /\ Len(w) <= Len(s)
    BY <1>2, <1>4
  <2>2. QED
    BY <1>3, <2>1 DEF Outcome
<1>6. QED
  BY <1>5 DEF Does

\* The elements before a range move up, and as many as it has are dropped in front.
LEMMA EraseInFront ==
  ASSUME NEW F, Framed(F), NEW R, NEW m, NEW s, Holds(m, F, R, s), ~ m.threw, NEW l \in Nat, Len(s) = l,
         NEW from \in Nat, NEW k \in Nat, NEW to \in Nat, to = from + k, to <= l,
         NEW t \in Seq(F.values), Spliced(t, s, from, to, << >>),
         NEW r, r = DropFront(CopyUp(m, 0, from, k), k)
  PROVE  Does(r, F, R, s, t, from = 0)
<1>1. PICK S : S = F.values
  OBVIOUS
<1>2. s \in Seq(S) /\ s \in Seq(F.values) /\ m \in Memories(F)
  BY <1>1, HoldsParts
<1>3. PICK c : c = CopyUp(m, 0, from, k)
  OBVIOUS
<1>4. PICK p : p = Piece(s, 0, from)
  OBVIOUS
<1>5. p \in Seq(S) /\ Taken(p, s, 0, from)
  <2>1. from = 0 + from /\ from <= Len(s) /\ 0 \in Nat
    OBVIOUS
  <2>2. QED
    BY <1>2, <1>4, <2>1, PieceTakes
<1>6. Rewritten(c, F, R, s, k, p)
  <2>1. 0 \in Nat /\ 0 + from = from /\ from <= Len(s) /\ k + from <= Len(s)
    OBVIOUS
  <2>2. Rewritten(CopyUp(m, 0, from, k), F, R, s, k, Piece(s, 0, 0 + from))
    BY <2>1, MovesDo
  <2>3. QED
    BY <1>3, <1>4, <2>1, <2>2
<1>7. from <= to /\ to <= Len(s)
  OBVIOUS
<1>8. CASE c.threw
  <2>1. r = c
    BY <1>3, <1>8, ThrownStays
  <2>2. from # 0
    <3>1. ASSUME from = 0 PROVE FALSE
      <4>1. c = CopyUp(m, 0, 0, k) /\ 0 \in Nat
        BY <1>3, <3>1
      <4>2. QED
        BY <1>2, <1>8, <4>1, NothingMoves
    <3>2. QED
      BY <3>1
  <2>3. PICK v \in Seq(F.values) : Len(v) = Len(s) /\ Holds(r, F, R, v)
    BY <1>6, <1>8, <2>1 DEF Rewritten
  <2>4. QED
    BY <1>2, <1>7, <1>8, <2>1, <2>2, <2>3, ErasedDoes
<1>9. CASE ~ c.threw
  <2>1. PICK u : u = Over(s, k, p)
    OBVIOUS
  <2>2. u \in Seq(S) /\ Covered(u, s, k, p) /\ Len(u) = l
    <3>1. k + Len(p) <= Len(s)
      BY <1>5 DEF Taken
    <3>2. Covered(Over(s, k, p), s, k, p) /\ Over(s, k, p) \in Seq(S)
      BY <1>2, <1>5, <3>1, OverCovers
    <3>3. QED
      BY <2>1, <3>2 DEF Covered
  <2>3. Holds(c, F, R, u)
    BY <1>6, <1>9, <2>1 DEF Rewritten
  <2>4. PICK v : v = Piece(u, k, l)
    OBVIOUS
  <2>5. Holds(r, F, R, v) /\ ~ r.threw
    <3>1. k <= Len(u)
      BY <2>2
    <3>2. QED
      BY <1>3, <1>9, <2>2, <2>3, <2>4, <3>1, DropFrontDoes
  <2>6. PICK e \in Nat : l = k + e
    <3>1. l - k \in Nat /\ l = k + (l - k)
      OBVIOUS
    <3>2. QED
      BY <3>1
  <2>7. v \in Seq(S) /\ Taken(v, u, k, e)
    <3>1. l <= Len(u)
      BY <2>2
    <3>2. QED
      BY <2>2, <2>4, <2>6, <3>1, PieceTakes
  <2>8. Spliced(v, s, from, to, << >>)
    BY <1>2, <1>5, <2>2, <2>6, <2>7, EraseFrontSplices
  <2>9. v \in Seq(F.values)
    BY <1>1, <2>7
  <2>10. QED
    BY <1>2, <1>7, <2>5, <2>8, <2>9, ErasedDoes
<1>10. QED
  BY <1>8, <1>9

\* The elements behind a range move down, and as many as it has are dropped behind.
LEMMA EraseBehind ==
  ASSUME NEW F, Framed(F), NEW R, NEW m, NEW s, Holds(m, F, R, s), ~ m.threw, NEW l \in Nat, Len(s) = l,
         NEW from \in Nat, NEW k \in Nat, NEW to \in Nat, to = from + k, NEW h \in Nat, l = to + h,
         NEW t \in Seq(F.values), Spliced(t, s, from, to, << >>),
         NEW r, r = DropBack(CopyDown(m, to, h, from), k)
  PROVE  Does(r, F, R, s, t, to = l)
<1>1. PICK S : S = F.values
  OBVIOUS
<1>2. s \in Seq(S) /\ s \in Seq(F.values) /\ m \in Memories(F)
  BY <1>1, HoldsParts
<1>3. PICK c : c = CopyDown(m, to, h, from)
  OBVIOUS
<1>4. PICK p : p = Piece(s, to, l)
  OBVIOUS
<1>5. p \in Seq(S) /\ Taken(p, s, to, h)
  <2>1. l <= Len(s)
    OBVIOUS
  <2>2. QED
    BY <1>2, <1>4, <2>1, PieceTakes
<1>6. Rewritten(c, F, R, s, from, p)
  <2>1. to + h = l /\ to + h <= Len(s) /\ from + h <= Len(s)
    OBVIOUS
  <2>2. Rewritten(CopyDown(m, to, h, from), F, R, s, from, Piece(s, to, to + h))
    BY <2>1, MovesDo
  <2>3. QED
    BY <1>3, <1>4, <2>1, <2>2
<1>7. from <= to /\ to <= Len(s)
  OBVIOUS
<1>8. CASE c.threw
  <2>1. r = c
    BY <1>3, <1>8, ThrownStays
  <2>2. to # l
    <3>1. ASSUME to = l PROVE FALSE
      <4>1. h = 0
        BY <3>1
      <4>2. c = CopyDown(m, to, 0, from)
        BY <1>3, <4>1
      <4>3. QED
        BY <1>2, <1>8, <4>2, NothingMoves
    <3>2. QED
      BY <3>1
  <2>3. PICK v \in Seq(F.values) : Len(v) = Len(s) /\ Holds(r, F, R, v)
    BY <1>6, <1>8, <2>1 DEF Rewritten
  <2>4. QED
    BY <1>2, <1>7, <1>8, <2>1, <2>2, <2>3, ErasedDoes
<1>9. CASE ~ c.threw
  <2>1. PICK u : u = Over(s, from, p)
    OBVIOUS
  <2>2. u \in Seq(S) /\ Covered(u, s, from, p) /\ Len(u) = l
    <3>1. from + Len(p) <= Len(s)
      BY <1>5 DEF Taken
    <3>2. Covered(Over(s, from, p), s, from, p) /\ Over(s, from, p) \in Seq(S)
      BY <1>2, <1>5, <3>1, OverCovers
    <3>3. QED
      BY <2>1, <3>2 DEF Covered
  <2>3. Holds(c, F, R, u)
    BY <1>6, <1>9, <2>1 DEF Rewritten
  <2>4. PICK e \in Nat : l = k + e
    <3>1. l - k \in Nat /\ l = k + (l - k)
      OBVIOUS
    <3>2. QED
      BY <3>1
  <2>5. PICK v : v = Piece(u, 0, e)
    OBVIOUS
  <2>6. Holds(r, F, R, v) /\ ~ r.threw
    <3>1. k <= Len(u) /\ e = Len(u) - k
      BY <2>2, <2>4
    <3>2. QED
      BY <1>3, <1>9, <2>3, <2>5, <3>1, DropBackDoes
  <2>7. v \in Seq(S) /\ Taken(v, u, 0, e)
    <3>1. e <= Len(u) /\ e = 0 + e /\ 0 \in Nat
      BY <2>2, <2>4
    <3>2. QED
      BY <2>2, <2>5, <3>1, PieceTakes
  <2>8. Spliced(v, s, from, to, << >>)
    BY <1>2, <1>5, <2>2, <2>4, <2>7, EraseBackSplices
  <2>9. v \in Seq(F.values)
    BY <1>1, <2>7
  <2>10. QED
    BY <1>2, <1>7, <2>6, <2>8, <2>9, ErasedDoes
<1>10. QED
  BY <1>8, <1>9
\* The halves of small numbers
LEMMA HalvesAre ==
  ASSUME NEW n \in Nat
  PROVE  /\ n \div 2 \in Nat /\ 2 * (n \div 2) <= n /\ n <= 2 * (n \div 2) + 1
<1>1. n \div 2 \in Nat /\ n % 2 \in 0 .. 1 /\ n = ((n \div 2) * 2) + (n % 2)
  <2>1. 2 \in Nat \ {0}
    OBVIOUS
  <2>2. PICK b \in Nat \ {0} : b = 2
    BY <2>1
  <2>3. n \div b \in Nat /\ n % b \in 0 .. b - 1 /\ n = ((n \div b) * b) + (n % b)
    BY DivisionIs
  <2>4. QED
    BY <2>2, <2>3
<1>2. PICK h \in Nat, e \in Nat : h = n \div 2 /\ e = n % 2
  BY <1>1
<1>3. e <= 1 /\ n = h * 2 + e
  BY <1>1, <1>2
<1>4. 2 * h <= n /\ n <= 2 * h + 1
  BY <1>3
<1>5. QED
  BY <1>2, <1>4

\* erase of one element
LEMMA EraseOneDoes ==
  ASSUME NEW F, Framed(F), NEW R, NEW m, NEW s, Holds(m, F, R, s), ~ m.threw, NEW i \in Nat, i < Len(s),
         NEW to \in Nat, to = i + 1, NEW t \in Seq(F.values), Spliced(t, s, i, to, << >>), NEW r, r = EraseOne(m, i)
  PROVE  Does(r, F, R, s, t, i = 0 \/ to = Len(s))
<1>1. Size(m) = Len(s) /\ Len(s) \in Nat
  BY HoldsParts DEF Size
<1>2. PICK l \in Nat, h \in Nat : l = Len(s) /\ l = to + h
  <2>1. Len(s) - to \in Nat /\ Len(s) = to + (Len(s) - to)
    BY <1>1
  <2>2. QED
    BY <1>1, <2>1
<1>3. PICK half \in Nat : half = l \div 2 /\ 2 * half <= l /\ l <= 2 * half + 1
  BY HalvesAre
<1>4. PICK one \in Nat : one = 1
  OBVIOUS
<1>5. Len(s) = l /\ to = i + one /\ to <= l /\ l = to + h
  BY <1>2, <1>4
<1>6. CASE i < half
  <2>1. r = DropFront(CopyUp(m, 0, i, one), one)
    BY <1>1, <1>2, <1>3, <1>4, <1>6 DEF EraseOne, PopFront
  <2>2. Does(r, F, R, s, t, i = 0)
    BY <1>5, <2>1, EraseInFront
  <2>3. (i = 0 \/ to = l) => i = 0
    BY <1>3, <1>6
  <2>4. QED
    BY <1>2, <2>2, <2>3, DoesWeaker
<1>7. CASE ~ (i < half)
  <2>1. r = DropBack(CopyDown(m, to, h, i), one)
    <3>1. Size(m) - i - 1 = h /\ ~ (i < Size(m) \div 2)
      BY <1>1, <1>2, <1>3, <1>7
    <3>2. QED
      BY <1>4, <3>1 DEF EraseOne, PopBack
  <2>2. Does(r, F, R, s, t, to = l)
    BY <1>5, <2>1, EraseBehind
  <2>3. (i = 0 \/ to = l) => to = l
    BY <1>2, <1>3, <1>7
  <2>4. QED
    BY <1>2, <2>2, <2>3, DoesWeaker
<1>8. QED
  BY <1>6, <1>7

\* clear
LEMMA ClearDoes ==
  ASSUME NEW F, Framed(F), NEW R, NEW m, NEW s, Holds(m, F, R, s), ~ m.threw,
         NEW t \in Seq(F.values), Spliced(t, s, 0, Len(s), << >>), NEW r, r = Clear(m)
  PROVE  Does(r, F, R, s, t, TRUE)
<1>1. Size(m) = Len(s) /\ Len(s) \in Nat /\ s \in Seq(F.values)
  BY HoldsParts DEF Size
<1>2. PICK l \in Nat : l = Len(s)
  BY <1>1
<1>3. PICK w : w = Piece(s, 0, 0)
  OBVIOUS
<1>4. Holds(r, F, R, w) /\ ~ r.threw
  <2>1. r = DropBack(m, l) /\ l <= Len(s) /\ 0 \in Nat /\ 0 = Len(s) - l
    BY <1>1, <1>2 DEF Clear
  <2>2. QED
    BY <1>3, <2>1, DropBackDoes
<1>5. w = t /\ w \in Seq(F.values)
  <2>1. PICK S : S = F.values
    OBVIOUS
  <2>2. s \in Seq(S) /\ t \in Seq(S) /\ 0 \in Nat /\ 0 <= 0 /\ 0 <= Len(s)
    BY <1>1, <2>1
  <2>3. Piece(s, 0, 0) \in Seq(S) /\ Len(Piece(s, 0, 0)) = 0 - 0
    BY <2>2, PieceIs
  <2>4. Len(t) = 0
    <3>1. Len(<< >>) = 0
      OBVIOUS
    <3>2. Len(t) = 0 + 0 + (l - l)
      BY <1>2, <3>1 DEF Spliced
    <3>3. QED
      BY <3>2
  <2>5. Len(w) = 0
    BY <1>3, <2>3
  <2>6. w = t
    BY <1>3, <2>2, <2>3, <2>4, <2>5
  <2>7. QED
    BY <1>3, <2>1, <2>3, <2>6
<1>6. Outcome(r, F, R, s, t, TRUE, w)
  BY <1>4, <1>5 DEF Outcome
<1>7. QED
  BY <1>6 DEF Does

\* erase of a range
LEMMA EraseRangeDoes ==
  ASSUME NEW F, Framed(F), NEW R, NEW m, NEW s, Holds(m, F, R, s), ~ m.threw, NEW from \in Nat, NEW to \in Nat,
         from <= to, to <= Len(s), NEW t \in Seq(F.values), Spliced(t, s, from, to, << >>),
         NEW r, r = EraseRange(m, from, to)
  PROVE  Does(r, F, R, s, t, to = Len(s) \/ (from = 0 /\ Len(s) >= to + 2))
<1>1. Size(m) = Len(s) /\ Len(s) \in Nat
  BY HoldsParts DEF Size
<1>2. PICK l \in Nat, k \in Nat, h \in Nat, e \in Nat : l = Len(s) /\ l = to + h /\ to = from + k /\ e = from + h
  <2>1. /\ Len(s) - to \in Nat /\ Len(s) = to + (Len(s) - to)
        /\ to - from \in Nat /\ to = from + (to - from) /\ from + (Len(s) - to) \in Nat
    BY <1>1
  <2>2. QED
    BY <1>1, <2>1
<1>3. PICK half \in Nat : half = e \div 2 /\ 2 * half <= e /\ e <= 2 * half + 1
  BY HalvesAre
<1>4. 0 \in Nat /\ to <= l /\ to - from = k /\ Size(m) - to = h /\ Size(m) - (to - from) = e
  BY <1>1, <1>2
<1>5. Len(s) = l /\ to = from + k /\ to <= l /\ l = to + h
  BY <1>2
<1>6. CASE from = 0 /\ to = Size(m)
  <2>1. r = Clear(m) /\ Spliced(t, s, 0, Len(s), << >>)
    BY <1>1, <1>6 DEF EraseRange
  <2>2. Does(r, F, R, s, t, TRUE)
    BY <2>1, ClearDoes
  <2>3. QED
    BY <2>2, DoesWeaker
<1>7. CASE ~ (from = 0 /\ to = Size(m)) /\ from < half
  <2>1. r = DropFront(CopyUp(m, 0, from, k), k)
    BY <1>3, <1>4, <1>7 DEF EraseRange
  <2>2. Does(r, F, R, s, t, from = 0)
    BY <1>5, <2>1, EraseInFront
  <2>3. (to = l \/ (from = 0 /\ l >= to + 2)) => from = 0
    BY <1>2, <1>3, <1>7
  <2>4. QED
    BY <1>2, <2>2, <2>3, DoesWeaker
<1>8. CASE ~ (from = 0 /\ to = Size(m)) /\ ~ (from < half)
  <2>1. r = DropBack(CopyDown(m, to, h, from), k)
    BY <1>3, <1>4, <1>8 DEF EraseRange
  <2>2. Does(r, F, R, s, t, to = l)
    BY <1>5, <2>1, EraseBehind
  <2>3. (to = l \/ (from = 0 /\ l >= to + 2)) => to = l
    BY <1>2, <1>3, <1>8
  <2>4. QED
    BY <1>2, <2>2, <2>3, DoesWeaker
<1>9. QED
  BY <1>6, <1>7, <1>8

\* pop_front and pop_back
LEMMA PopsDo ==
  ASSUME NEW F, Framed(F), NEW R, NEW m, NEW s, Holds(m, F, R, s), ~ m.threw, NEW l \in Nat, l = Len(s), 1 <= l,
         NEW t \in Seq(F.values)
  PROVE  /\ Spliced(t, s, 0, 1, << >>) => Does(PopFront(m), F, R, s, t, TRUE)
         /\ \A k \in Nat : l = k + 1 /\ Spliced(t, s, k, l, << >>) => Does(PopBack(m), F, R, s, t, TRUE)
<1>1. s \in Seq(F.values)
  BY HoldsParts
<1>2. PICK S : S = F.values
  OBVIOUS
<1>3. s \in Seq(S) /\ 1 \in Nat /\ 0 \in Nat /\ 1 <= Len(s)
  BY <1>1, <1>2
<1>4. PICK e \in Nat : l = 1 + e
  <2>1. l - 1 \in Nat /\ l = 1 + (l - 1)
    OBVIOUS
  <2>2. QED
    BY <2>1
<1>5. PICK one \in Nat : one = 1
  OBVIOUS
<1>6. ASSUME Spliced(t, s, 0, 1, << >>) PROVE Does(PopFront(m), F, R, s, t, TRUE)
  <2>1. PICK v : v = Piece(s, 1, l)
    OBVIOUS
  <2>2. PICK r : r = PopFront(m)
    OBVIOUS
  <2>3. Holds(r, F, R, v) /\ ~ r.threw
    BY <1>3, <2>1, <2>2, DropFrontDoes DEF PopFront
  <2>4. v \in Seq(S) /\ Taken(v, s, 1, e)
    <3>1. l = one + e /\ l <= Len(s) /\ v = Piece(s, one, l)
      BY <1>3, <1>4, <1>5, <2>1
    <3>2. v \in Seq(S) /\ Taken(v, s, one, e)
      BY <1>3, <3>1, PieceTakes
    <3>3. QED
      BY <1>5, <3>2
  <2>5. Spliced(v, s, 0, 1, << >>)
    <3>1. Len(v) = e /\ \A j \in 1 .. e : v[j] = s[1 + j]
      BY <2>4 DEF Taken
    <3>2. Len(<< >>) = 0 /\ l - 1 = e
      BY <1>4
    <3>3. Len(v) = 0 + 0 + (l - 1)
      BY <3>1, <3>2
    <3>4. \A j \in 1 .. l - 1 : v[0 + 0 + j] = s[1 + j]
      BY <3>1, <3>2
    <3>5. QED
      BY <3>2, <3>3, <3>4 DEF Spliced
  <2>6. v \in Seq(F.values) /\ 0 <= 1
    BY <1>2, <2>4
  <2>7. Does(r, F, R, s, t, TRUE)
    BY <1>1, <1>3, <1>6, <2>3, <2>5, <2>6, ErasedDoes
  <2>8. QED
    BY <2>2, <2>7
<1>7. ASSUME NEW k \in Nat, l = k + 1, Spliced(t, s, k, l, << >>) PROVE Does(PopBack(m), F, R, s, t, TRUE)
  <2>1. PICK v : v = Piece(s, 0, k)
    OBVIOUS
  <2>2. PICK r : r = PopBack(m)
    OBVIOUS
  <2>3. Holds(r, F, R, v) /\ ~ r.threw
    <3>1. k = Len(s) - 1
      BY <1>7
    <3>2. QED
      BY <1>3, <2>1, <2>2, <3>1, DropBackDoes DEF PopBack
  <2>4. v \in Seq(S) /\ Taken(v, s, 0, k)
    <3>1. k = 0 + k /\ k <= Len(s)
      BY <1>7
    <3>2. QED
      BY <1>3, <2>1, <3>1, PieceTakes
  <2>5. Spliced(v, s, k, l, << >>)
    <3>1. Len(v) = k /\ \A j \in 1 .. k : v[j] = s[j]
      BY <2>4 DEF Taken
    <3>2. Len(<< >>) = 0
      OBVIOUS
    <3>3. Len(v) = k + 0 + (l - l)
      BY <3>1
    <3>4. \A j \in 1 .. l - l : v[k + 0 + j] = s[l + j]
      OBVIOUS
    <3>5. QED
      BY <3>1, <3>2, <3>3, <3>4 DEF Spliced
  <2>6. v \in Seq(F.values) /\ k <= l /\ l <= Len(s)
    BY <1>2, <1>7, <2>4
  <2>7. Does(r, F, R, s, t, TRUE)
    BY <1>1, <1>7, <2>3, <2>5, <2>6, ErasedDoes
  <2>8. QED
    BY <2>2, <2>7
<1>8. QED
  BY <1>6, <1>7
\* A strong operation on a sequence as long as another one is one, not strong, on that.
LEMMA SameLengthDoes ==
  ASSUME NEW F, NEW R, NEW r, NEW s \in Seq(F.values), NEW q \in Seq(F.values), Len(q) = Len(s),
         NEW t \in Seq(F.values), Does(r, F, R, q, t, TRUE)
  PROVE  Does(r, F, R, s, t, FALSE)
<1>1. PICK w : Outcome(r, F, R, q, t, TRUE, w)
  BY DEF Does
<1>2. w \in Seq(F.values) /\ Holds(r, F, R, w) /\ (~ r.threw => w = t) /\ (r.threw => w = q)
  BY <1>1 DEF Outcome
<1>3. Len(s) \in Nat /\ Len(t) \in Nat
  OBVIOUS
<1>4. Len(s) <= Len(t) \/ Len(t) <= Len(s)
  BY <1>3
<1>5. r.threw => \/ Len(s) <= Len(w) /\ Len(w) <= Len(t)
                 \/ Len(t) <= Len(w) /\ Len(w) <= Len(s)
  BY <1>2, <1>3, <1>4
<1>6. Outcome(r, F, R, s, t, FALSE, w)
  BY <1>2, <1>5 DEF Outcome
<1>7. QED
  BY <1>6 DEF Does

\* What threw and left a sequence as long as the old one
LEMMA ThrownDoes ==
  ASSUME NEW F, NEW R, NEW r, r.threw, NEW s \in Seq(F.values), NEW q \in Seq(F.values), Len(q) = Len(s),
         NEW t \in Seq(F.values), Holds(r, F, R, q)
  PROVE  Does(r, F, R, s, t, FALSE)
<1>1. Outcome(r, F, R, q, t, TRUE, q)
  BY DEF Outcome
<1>2. Does(r, F, R, q, t, TRUE)
  BY <1>1 DEF Does
<1>3. QED
  BY <1>2, SameLengthDoes

\* operator= and assign of a range: what is there is assigned to, then the rest
\* erased or appended.
LEMMA AssignRangeDoes ==
  ASSUME NEW F, Framed(F), NEW R, NEW m, NEW s, Holds(m, F, R, s), ~ m.threw,
         NEW values \in Seq(F.values), Fresh(m, F, Len(values)), NEW r, r = AssignRange(m, values)
  PROVE  Does(r, F, R, s, values, FALSE)
<1>1. s \in Seq(F.values) /\ Size(m) = Len(s)
  BY HoldsParts DEF Size
<1>2. PICK l \in Nat, n \in Nat : l = Len(s) /\ n = Len(values)
  BY <1>1
<1>3. PICK S : S = F.values
  OBVIOUS
<1>4. 0 \in Nat /\ s \in Seq(S) /\ values \in Seq(S)
  BY <1>1, <1>3
<1>5. CASE n <= l
  <2>1. PICK c : c = Put(m, 0, values)
    OBVIOUS
  <2>2. 0 + Len(values) <= Len(s)
    BY <1>2, <1>5
  <2>3. PICK q \in Seq(F.values) :
          Holds(c, F, R, q) /\ Len(q) = Len(s) /\ (~ c.threw => Covered(q, s, 0, values))
    BY <1>1, <1>4, <2>1, <2>2, PutOnce
  <2>4. r = EraseRange(c, n, l)
    BY <1>1, <1>2, <1>5, <2>1 DEF AssignRange
  <2>5. CASE c.threw
    <3>1. r = c
      BY <2>4, <2>5, ThrownRanges
    <3>2. QED
      BY <1>1, <2>3, <2>5, <3>1, ThrownDoes
  <2>6. CASE ~ c.threw
    <3>1. Len(q) = l /\ \A j \in 1 .. l : q[j] = IF 0 < j /\ j <= 0 + n THEN values[j - 0] ELSE s[j]
      BY <1>2, <2>3, <2>6 DEF Covered
    <3>2. ASSUME NEW j \in 1 .. n PROVE values[j] = q[j]
      <4>1. j \in 1 .. l /\ 0 < j /\ j <= 0 + n /\ j - 0 = j
        BY <1>5
      <4>2. QED
        BY <3>1, <4>1
    <3>3. Spliced(values, q, n, l, << >>)
      <4>1. Len(<< >>) = 0
        OBVIOUS
      <4>2. Len(values) = n + 0 + (l - l) /\ \A j \in 1 .. l - l : values[n + 0 + j] = q[l + j]
        BY <1>2
      <4>3. QED
        BY <3>1, <3>2, <4>1, <4>2 DEF Spliced
    <3>4. n <= l /\ l <= Len(q)
      BY <1>5, <3>1
    <3>5. Does(r, F, R, q, values, l = Len(q) \/ (n = 0 /\ Len(q) >= l + 2))
      BY <2>3, <2>4, <2>6, <3>3, <3>4, EraseRangeDoes
    <3>6. Does(r, F, R, q, values, TRUE)
      BY <3>1, <3>5, DoesWeaker
    <3>7. QED
      BY <1>1, <2>3, <3>6, SameLengthDoes
  <2>7. QED
    BY <2>5, <2>6
<1>6. CASE ~ (n <= l)
  <2>1. PICK k \in Nat : n = l + k
    <3>1. n - l \in Nat /\ n = l + (n - l)
      BY <1>6
    <3>2. QED
      BY <3>1
  <2>2. PICK some, rest : some = First(values, l) /\ rest = Last(values, k)
    OBVIOUS
  <2>3. some \in Seq(S) /\ rest \in Seq(S) /\ Taken(some, values, 0, l) /\ Taken(rest, values, l, k)
    BY <1>2, <1>4, <2>1, <2>2, PartsTaken
  <2>4. some \in Seq(F.values) /\ rest \in Seq(F.values) /\ Len(some) = l /\ Len(rest) = k
    BY <1>3, <2>3 DEF Taken
  <2>5. PICK c : c = Put(m, 0, some)
    OBVIOUS
  <2>6. 0 + Len(some) <= Len(s)
    BY <1>2, <2>4
  <2>7. /\ c.next = m.next
        /\ \E q \in Seq(F.values) :
             Holds(c, F, R, q) /\ Len(q) = Len(s) /\ (~ c.threw => Covered(q, s, 0, some))
    BY <1>1, <1>4, <2>4, <2>5, <2>6, PutOnce
  <2>8. PICK q \in Seq(F.values) :
          Holds(c, F, R, q) /\ Len(q) = Len(s) /\ (~ c.threw => Covered(q, s, 0, some))
    BY <2>7
  <2>9. r = InsertRange(c, l, rest)
    <3>1. Size(m) = l /\ Len(values) - Size(m) = k /\ ~ (Len(values) <= Size(m))
      BY <1>1, <1>2, <1>6, <2>1
    <3>2. QED
      BY <2>2, <2>5, <3>1 DEF AssignRange
  <2>10. CASE c.threw
    <3>1. r = c
      BY <2>9, <2>10, ThrownRanges
    <3>2. QED
      BY <1>1, <2>8, <2>10, <3>1, ThrownDoes
  <2>11. CASE ~ c.threw
    <3>1. Fresh(c, F, Len(rest))
      <4>0. m \in Memories(F)
        BY HoldsParts
      <4>1. m.next \in Nat /\ F.last \in Nat /\ m.next + n <= F.last + 1
        BY <1>2, <4>0 DEF Fresh, Framed, Memories
      <4>2. QED
        BY <2>1, <2>4, <2>7, <4>1 DEF Fresh
    <3>2. PICK w : w = q \o rest
      OBVIOUS
    <3>3. w \in Seq(S) /\ Spliced(w, q, l, l, rest)
      <4>1. Len(q) = l /\ q \in Seq(S)
        BY <1>2, <1>3, <2>8
      <4>2. QED
        BY <2>3, <3>2, <4>1, JoinedSplices
    <3>4. w = values
      <4>1. q \in Seq(S) /\ Covered(q, s, 0, some) /\ Len(s) = l /\ Len(values) = l + k
        BY <1>2, <1>3, <2>1, <2>8, <2>11
      <4>2. QED
        BY <1>4, <2>3, <3>3, <4>1, AssignedAppended
    <3>5. Does(r, F, R, q, values, l \in {0, Len(q)})
      <4>1. l <= Len(q) /\ Spliced(values, q, l, l, rest)
        BY <1>2, <2>8, <3>3, <3>4
      <4>2. QED
        BY <2>4, <2>8, <2>9, <2>11, <3>1, <4>1, InsertRangeDoes
    <3>6. l \in {0, Len(q)}
      BY <1>2, <2>8
    <3>7. Does(r, F, R, q, values, TRUE)
      BY <3>5, <3>6, DoesWeaker
    <3>8. QED
      BY <1>1, <2>8, <3>7, SameLengthDoes
  <2>12. QED
    BY <2>10, <2>11
<1>7. QED
  BY <1>5, <1>6

\* resize erases behind, or appends copies.
LEMMA ResizeDoes ==
  ASSUME NEW F, Framed(F), NEW R, NEW m, NEW s, Holds(m, F, R, s), ~ m.threw, NEW l \in Nat, Len(s) = l,
         NEW n \in Nat, NEW value, NEW t \in Seq(F.values), NEW r, r = Resize(m, n, value)
  PROVE  /\ n < l /\ Spliced(t, s, n, l, << >>) => Does(r, F, R, s, t, TRUE)
         /\ \A k \in Nat, values \in Seq(F.values) :
              n = l + k /\ values = Times(k, value) /\ Fresh(m, F, k) /\ Spliced(t, s, l, l, values)
                => Does(r, F, R, s, t, TRUE)
<1>1. Size(m) = l
  BY HoldsParts DEF Size
<1>2. ASSUME n < l, Spliced(t, s, n, l, << >>) PROVE Does(r, F, R, s, t, TRUE)
  <2>1. r = EraseRange(m, n, l) /\ n <= l /\ l <= Len(s)
    BY <1>1, <1>2 DEF Resize
  <2>2. Does(r, F, R, s, t, l = Len(s) \/ (n = 0 /\ Len(s) >= l + 2))
    BY <1>2, <2>1, EraseRangeDoes
  <2>3. QED
    BY <2>2, DoesWeaker
<1>3. ASSUME NEW k \in Nat, NEW values \in Seq(F.values), n = l + k, values = Times(k, value), Fresh(m, F, k),
             Spliced(t, s, l, l, values)
      PROVE  Does(r, F, R, s, t, TRUE)
  <2>1. r = InsertFill(m, l, k, value) /\ l <= Len(s)
    <3>1. ~ (n < Size(m)) /\ n - Size(m) = k
      BY <1>1, <1>3
    <3>2. QED
      BY <1>1, <3>1 DEF Resize
  <2>2. Fresh(m, F, Len(values))
    BY <1>3 DEF Times
  <2>3. Does(r, F, R, s, t, l \in {0, Len(s)})
    BY <1>3, <2>1, <2>2, InsertFillDoes
  <2>4. QED
    BY <2>3, DoesWeaker
<1>4. QED
  BY <1>2, <1>3
\* assigning to all of the elements copies of the argument
LEMMA FillAllDoes ==
  ASSUME NEW F, Framed(F), NEW R, NEW m, NEW s, Holds(m, F, R, s), ~ m.threw, NEW arg, NEW l \in Nat, Len(s) = l,
         NEW v, l > 0 => v \in F.values, l > 0 => Argument(m, arg) = v, NEW r, r = FillAll(m, arg)
  PROVE  /\ r.next = m.next
         /\ \E w \in Seq(F.values) :
              Holds(r, F, R, w) /\ Len(w) = l /\ (~ r.threw => w = Times(l, v))
<1>1. Size(m) = l /\ s \in Seq(F.values)
  BY HoldsParts DEF Size
<1>2. PICK values : values = Times(l, v)
  OBVIOUS
<1>3. values = Times(l, Argument(m, arg))
  <2>1. CASE l = 0
    BY <1>2, <2>1 DEF Times
  <2>2. CASE l > 0
    BY <1>2, <2>2
  <2>3. QED
    BY <2>1, <2>2
<1>4. values \in Seq(F.values) /\ Len(values) = l /\ \A j \in 1 .. l : values[j] = v
  <2>1. \A j \in 1 .. l : v \in F.values
    OBVIOUS
  <2>2. QED
    BY <1>2, <2>1 DEF Times
<1>5. r = Put(m, 0, values)
  BY <1>1, <1>3 DEF FillAll
<1>6. 0 \in Nat /\ 0 + Len(values) <= Len(s)
  BY <1>4
<1>7. /\ r.next = m.next
      /\ \E w \in Seq(F.values) :
           Holds(r, F, R, w) /\ Len(w) = Len(s) /\ (~ r.threw => Covered(w, s, 0, values))
  BY <1>1, <1>4, <1>5, <1>6, PutOnce
<1>8. PICK w \in Seq(F.values) :
        Holds(r, F, R, w) /\ Len(w) = Len(s) /\ (~ r.threw => Covered(w, s, 0, values))
  BY <1>7
<1>9. ASSUME ~ r.threw PROVE w = values
  <2>1. \A k \in 1 .. l : w[k] = IF 0 < k /\ k <= 0 + l THEN values[k - 0] ELSE s[k]
    BY <1>4, <1>8, <1>9 DEF Covered
  <2>2. ASSUME NEW k \in 1 .. l PROVE w[k] = values[k]
    <3>1. 0 < k /\ k <= 0 + l /\ k - 0 = k
      OBVIOUS
    <3>2. QED
      BY <2>1, <3>1
  <2>3. QED
    BY <1>4, <1>8, <2>2
<1>10. QED
  BY <1>2, <1>7, <1>8, <1>9

\* The argument of assign of n copies is v.
Survived(arg, s, n, v) ==
    \/ arg \in Value /\ v = arg
    \/ arg \notin Value /\ arg \in Nat /\ arg < n /\ arg < Len(s) /\ v = s[arg + 1]

\* It is v still where the first n elements are left.
LEMMA SurvivedIs ==
  ASSUME NEW F, Framed(F), NEW R, NEW m, NEW s, Holds(m, F, R, s),
         NEW q, NEW n, NEW arg, NEW v, Survived(arg, q, n, v),
         arg \in Nat /\ arg < n /\ arg < Len(q) => arg < Len(s) /\ s[arg + 1] = q[arg + 1]
  PROVE  Argument(m, arg) = v
<1>1. CASE arg \in Value
  BY <1>1 DEF Argument, Survived
<1>2. CASE arg \notin Value
  <2>1. arg \in Nat /\ arg < Len(s) /\ v = s[arg + 1]
    BY <1>2 DEF Survived
  <2>2. Element(m, arg) = s[arg + 1]
    BY <2>1, ElementIs
  <2>3. QED
    BY <1>2, <2>1, <2>2 DEF Argument
<1>3. QED
  BY <1>1, <1>2

\* assign of n copies
LEMMA AssignFillDoes ==
  ASSUME NEW F, Framed(F), NEW R, NEW m, NEW s, Holds(m, F, R, s), ~ m.threw, NEW n \in Nat, NEW arg, NEW v,
         n > 0 => v \in F.values, Survived(arg, s, n, v), Fresh(m, F, n), NEW r, r = AssignFill(m, n, arg)
  PROVE  Times(n, v) \in Seq(F.values) /\ Does(r, F, R, s, Times(n, v), FALSE)
<1>1. s \in Seq(F.values) /\ Size(m) = Len(s)
  BY HoldsParts DEF Size
<1>2. PICK l \in Nat : l = Len(s)
  BY <1>1
<1>3. PICK t : t = Times(n, v)
  OBVIOUS
<1>4. t \in Seq(F.values) /\ Len(t) = n /\ \A j \in 1 .. n : t[j] = v
  <2>1. \A j \in 1 .. n : v \in F.values
    OBVIOUS
  <2>2. QED
    BY <1>3, <2>1 DEF Times
<1>5. CASE n > l
  <2>1. Argument(m, arg) = v
    BY SurvivedIs
  <2>2. PICK c : c = FillAll(m, arg)
    OBVIOUS
  <2>3. l > 0 => v \in F.values
    BY <1>5
  <2>4. c.next = m.next /\ \E w \in Seq(F.values) : Holds(c, F, R, w) /\ Len(w) = l /\ (~ c.threw => w = Times(l, v))
    BY <1>2, <2>1, <2>2, <2>3, FillAllDoes
  <2>5. PICK q \in Seq(F.values) : Holds(c, F, R, q) /\ Len(q) = l /\ (~ c.threw => q = Times(l, v))
    BY <2>4
  <2>6. PICK k \in Nat : n = l + k /\ n - Size(m) = k
    <3>1. n - l \in Nat /\ n = l + (n - l)
      BY <1>5
    <3>2. QED
      BY <1>1, <1>2, <3>1
  <2>7. r = InsertFill(c, l, k, v)
    BY <1>1, <1>2, <1>5, <2>1, <2>2, <2>6 DEF AssignFill
  <2>8. CASE c.threw
    <3>1. InsertFill(c, l, k, v) = c
      BY <2>8, ThrownRanges DEF InsertFill, LocalCopy
    <3>2. QED
      BY <1>1, <1>2, <1>3, <1>4, <2>5, <2>7, <2>8, <3>1, ThrownDoes
  <2>9. CASE ~ c.threw
    <3>1. PICK values : values = Times(k, v)
      OBVIOUS
    <3>2. values \in Seq(F.values) /\ Len(values) = k /\ \A j \in 1 .. k : values[j] = v
      <4>1. \A j \in 1 .. k : v \in F.values
        BY <1>5
      <4>2. QED
        BY <3>1, <4>1 DEF Times
    <3>3. Fresh(c, F, Len(values))
      <4>1. m \in Memories(F)
        BY HoldsParts
      <4>2. m.next \in Nat /\ F.last \in Nat /\ m.next + n <= F.last + 1
        BY <4>1 DEF Fresh, Framed, Memories
      <4>3. QED
        BY <2>4, <2>6, <3>2, <4>2 DEF Fresh
    <3>4. Spliced(t, q, l, l, values)
      <4>1. Len(t) = l + Len(values) + (Len(q) - l)
        BY <1>4, <2>5, <2>6, <3>2
      <4>2. \A j \in 1 .. l : q[j] = v
        BY <2>5, <2>9 DEF Times
      <4>3. ASSUME NEW j \in 1 .. l PROVE t[j] = q[j]
        <5>1. j \in 1 .. n
          BY <2>6
        <5>2. QED
          BY <1>4, <4>2, <5>1
      <4>4. ASSUME NEW j \in 1 .. k PROVE t[l + j] = values[j]
        <5>1. l + j \in 1 .. n
          BY <2>6
        <5>2. QED
          BY <1>4, <3>2, <5>1
      <4>5. \A j \in 1 .. Len(q) - l : t[l + Len(values) + j] = q[l + j]
        BY <2>5
      <4>6. \A j \in 1 .. Len(values) : t[l + j] = values[j]
        BY <3>2, <4>4
      <4>7. QED
        BY <4>1, <4>3, <4>5, <4>6 DEF Spliced
    <3>5. l <= Len(q)
      BY <2>5
    <3>6. Does(r, F, R, q, t, l \in {0, Len(q)})
      BY <1>4, <2>5, <2>7, <2>9, <3>1, <3>2, <3>3, <3>4, <3>5, InsertFillDoes
    <3>7. l \in {0, Len(q)}
      BY <2>5
    <3>8. Does(r, F, R, q, t, TRUE)
      BY <3>6, <3>7, DoesWeaker
    <3>9. Does(r, F, R, s, t, FALSE)
      BY <1>1, <1>2, <1>4, <2>5, <3>8, SameLengthDoes
    <3>10. QED
      BY <1>3, <1>4, <3>9
  <2>10. QED
    BY <2>8, <2>9
<1>6. CASE ~ (n > l)
  <2>1. PICK c : c = EraseRange(m, n, l)
    OBVIOUS
  <2>2. r = FillAll(c, arg) /\ n <= l /\ l <= Len(s)
    BY <1>1, <1>2, <1>6, <2>1 DEF AssignFill
  <2>3. PICK q : q = Piece(s, 0, n)
    OBVIOUS
  <2>4. q \in Seq(F.values) /\ Len(q) = n /\ \A j \in 1 .. n : q[j] = s[j]
    <3>1. PICK S : S = F.values
      OBVIOUS
    <3>2. 0 \in Nat /\ n = 0 + n /\ n <= Len(s) /\ s \in Seq(S)
      BY <1>1, <2>2, <3>1
    <3>3. Taken(q, s, 0, n) /\ q \in Seq(S)
      BY <2>3, <3>2, PieceTakes
    <3>4. Len(q) = n /\ \A j \in 1 .. n : q[j] = s[0 + j]
      BY <3>3 DEF Taken
    <3>5. QED
      BY <3>1, <3>3, <3>4
  <2>5. Spliced(q, s, n, l, << >>)
    <3>1. Len(<< >>) = 0
      OBVIOUS
    <3>2. Len(q) = n + 0 + (l - l) /\ \A j \in 1 .. l - l : q[n + 0 + j] = s[l + j]
      BY <2>4
    <3>3. QED
      BY <1>2, <2>4, <3>1, <3>2 DEF Spliced
  <2>6. Does(c, F, R, s, q, l = Len(s) \/ (n = 0 /\ Len(s) >= l + 2))
    BY <2>1, <2>2, <2>4, <2>5, EraseRangeDoes
  <2>7. Does(c, F, R, s, q, TRUE)
    BY <1>2, <2>6, DoesWeaker
  <2>8. (c.threw => Holds(c, F, R, s)) /\ (~ c.threw => Holds(c, F, R, q))
    BY <2>7 DEF Does, Outcome
  <2>9. CASE c.threw
    <3>1. r = c
      BY <2>2, <2>9, ThrownStays DEF FillAll
    <3>2. QED
      BY <1>1, <1>3, <1>4, <2>8, <2>9, <3>1, ThrownDoes
  <2>10. CASE ~ c.threw
    <3>1. n > 0 => Argument(c, arg) = v
      <4>1. arg \in Nat /\ arg < n /\ arg < Len(s) => arg < Len(q) /\ q[arg + 1] = s[arg + 1]
        BY <2>4
      <4>2. QED
        BY <2>8, <2>10, <4>1, SurvivedIs
    <3>2. PICK w \in Seq(F.values) : Holds(r, F, R, w) /\ Len(w) = n /\ (~ r.threw => w = Times(n, v))
      <4>1. Holds(c, F, R, q) /\ Len(q) = n /\ r = FillAll(c, arg)
        BY <2>2, <2>4, <2>8, <2>10
      <4>2. \E w \in Seq(F.values) : Holds(r, F, R, w) /\ Len(w) = n /\ (~ r.threw => w = Times(n, v))
        BY <2>10, <3>1, <4>1, FillAllDoes
      <4>3. QED
        BY <4>2
    <3>3. Outcome(r, F, R, s, t, FALSE, w)
      <4>1. Len(t) <= Len(w) /\ Len(w) <= Len(s)
        BY <1>2, <1>4, <2>2, <3>2
      <4>2. QED
        BY <1>3, <3>2, <4>1 DEF Outcome
    <3>4. QED
      BY <1>3, <1>4, <3>3 DEF Does
  <2>11. QED
    BY <2>9, <2>10
<1>7. QED
  BY <1>5, <1>6

-----------------------------------------------------------------------------
(* Two maps in one memory: constructors, the destructor and swap            *)

\* The blocks of the nodes [lo, up)
Owned(m, lo, up) == {m.map[i] : i \in lo + 1 .. up}

\* The nodes of a map are still what they were when other nodes came and went: with the
\* iterators of that map, the memory has its sequence, and the other nodes are those of
\* another map.
LEMMA SwitchDoes ==
  ASSUME NEW F, Framed(F), NEW Q, NEW lo, NEW up, NEW m, NEW f, NEW w, Laid(m, F, Q, lo, up, f, w),
         NEW r, NEW lo2, NEW up2, Mapped(r, F, Owned(m, lo, up), lo2, up2),
         \A b \in Owned(m, lo, up) : r.mem[b] = m.mem[b], NEW x, x = WithIterators(r, m)
  PROVE  /\ Laid(x, F, Owned(r, lo2, up2), lo, up, f, w) /\ x.threw = r.threw /\ x.mem = r.mem
         /\ x.map = m.map /\ x.start = m.start /\ x.finish = m.finish
<1> DEFINE R2 == Owned(m, lo, up)
           R3 == Owned(r, lo2, up2)
<1>1. Mapped(m, F, Q, lo, up) /\ m \in Memories(F) /\ lo \in Nat /\ up \in Nat
  BY LaidParts
<1>2. r \in Memories(F)
  BY DEF Mapped
<1>3. /\ x \in Memories(F) /\ x.threw = r.threw /\ x.mem = r.mem /\ x.next = r.next
      /\ x.map = m.map /\ x.start = m.start /\ x.finish = m.finish
  BY <1>1, <1>2 DEF WithIterators, Memories
<1>4. /\ up <= Len(m.map) /\ lo <= up /\ Len(m.map) \in Nat
      /\ \A i \in 1 .. Len(m.map) :
           IF lo < i /\ i <= up THEN Len(m.mem[m.map[i]]) = F.buf ELSE m.map[i] = 0
      /\ \A i, j \in lo + 1 .. up : m.map[i] = m.map[j] => i = j
  <2>1. Len(m.map) \in Nat
    BY <1>1, MemoryParts
  <2>2. QED
    BY <1>1, <2>1 DEF Mapped
<1>5. \A i \in lo + 1 .. up : m.map[i] \in R2
  BY DEF Owned
<1>6. /\ lo2 \in Nat /\ up2 \in Nat /\ up2 <= Len(r.map) /\ R2 \subseteq 1 .. r.next - 1
      /\ \A i \in 1 .. Len(r.map) :
           lo2 < i /\ i <= up2 => r.map[i] \in 1 .. r.next - 1 /\ r.map[i] \notin R2
      /\ \A b \in 0 .. F.last : b \notin R2 /\ (\A i \in lo2 + 1 .. up2 : r.map[i] # b) => r.mem[b] = << >>
  BY DEF Mapped
<1>7. ASSUME NEW b \in R3 PROVE b \in 1 .. r.next - 1 /\ b \notin R2
  <2>1. PICK i \in lo2 + 1 .. up2 : b = r.map[i]
    BY DEF Owned
  <2>2. Len(r.map) \in Nat
    BY <1>2, MemoryParts
  <2>3. i \in 1 .. Len(r.map) /\ lo2 < i /\ i <= up2
    BY <1>6, <2>2
  <2>4. QED
    BY <1>6, <2>1, <2>3
<1>8. \A b \in 0 .. F.last : b \notin R3 /\ (\A i \in lo + 1 .. up : m.map[i] # b) => r.mem[b] = << >>
  <2>1. ASSUME NEW b \in 0 .. F.last, b \notin R3, \A i \in lo + 1 .. up : m.map[i] # b PROVE r.mem[b] = << >>
    <3>1. b \notin R2
      BY <2>1 DEF Owned
    <3>2. \A i \in lo2 + 1 .. up2 : r.map[i] # b
      BY <2>1 DEF Owned
    <3>3. QED
      BY <1>6, <3>1, <3>2
  <2>2. QED
    BY <2>1
<1> HIDE DEF R2, R3
<1>9. ASSUME NEW i \in 1 .. Len(m.map)
      PROVE  IF lo < i /\ i <= up
             THEN m.map[i] \in 1 .. r.next - 1 /\ m.map[i] \notin R3 /\ Len(r.mem[m.map[i]]) = F.buf
             ELSE m.map[i] = 0
  <2>1. CASE lo < i /\ i <= up
    <3>1. i \in lo + 1 .. up
      BY <1>1, <2>1
    <3>2. m.map[i] \in R2 /\ Len(m.mem[m.map[i]]) = F.buf
      BY <1>4, <1>5, <2>1, <3>1
    <3>3. r.mem[m.map[i]] = m.mem[m.map[i]] /\ m.map[i] \in 1 .. r.next - 1 /\ m.map[i] \notin R3
      BY <1>6, <1>7, <3>2 DEF R2
    <3>4. QED
      BY <2>1, <3>2, <3>3
  <2>2. CASE ~ (lo < i /\ i <= up)
    BY <1>4, <2>2
  <2>3. QED
    BY <2>1, <2>2
<1>10. Mapped(x, F, R3, lo, up)
  BY <1>1, <1>3, <1>4, <1>7, <1>8, <1>9 DEF Mapped
<1>11. ASSUME NEW p \in Positions(F, lo, up) PROVE Held(x, F, p) = Held(m, F, p)
  <2>1. Row(F, p) \in lo + 1 .. up
    BY <1>1, AddrIs
  <2>2. m.map[Row(F, p)] \in R2
    BY <1>5, <2>1
  <2>3. r.mem[m.map[Row(F, p)]] = m.mem[m.map[Row(F, p)]]
    BY <2>2 DEF R2
  <2>4. QED
    BY <1>3, <2>3 DEF Held
<1>12. Laid(x, F, R3, lo, up, f, w)
  BY <1>10, <1>11 DEF Laid
<1>13. QED
  BY <1>3, <1>12 DEF R3

\* A map of no nodes, beside another one
LEMMA NoNodesLaid ==
  ASSUME NEW F, Framed(F), NEW lo, NEW up, NEW m, Mapped(m, F, {}, lo, up), NEW r \in Memories(F), r.mem = m.mem,
         r.next = m.next, \A i \in 1 .. Len(r.map) : r.map[i] = 0, NEW first \in Nat, first <= Len(r.map),
         NEW f \in Nat, f = first * F.buf
  PROVE  Laid(r, F, Owned(m, lo, up), first, first, f, << >>)
<1> DEFINE R == Owned(m, lo, up)
<1>1. /\ lo \in Nat /\ up \in Nat /\ up <= Len(m.map) /\ m \in Memories(F)
      /\ \A i \in 1 .. Len(m.map) : lo < i /\ i <= up => m.map[i] \in 1 .. m.next - 1
      /\ \A b \in 0 .. F.last : (\A i \in lo + 1 .. up : m.map[i] # b) => m.mem[b] = << >>
  BY DEF Mapped
<1>2. R \subseteq 1 .. r.next - 1
  <2>1. ASSUME NEW b \in R PROVE b \in 1 .. r.next - 1
    <3>1. PICK i \in lo + 1 .. up : b = m.map[i]
      BY DEF Owned
    <3>2. Len(m.map) \in Nat
      BY <1>1, MemoryParts
    <3>3. i \in 1 .. Len(m.map) /\ lo < i /\ i <= up
      BY <1>1, <3>2
    <3>4. QED
      BY <1>1, <3>1, <3>3
  <2>2. QED
    BY <2>1
<1>3. \A b \in 0 .. F.last : b \notin R => r.mem[b] = << >>
  BY <1>1 DEF Owned
<1> HIDE DEF R
<1>4. Mapped(r, F, R, first, first)
  BY <1>2, <1>3 DEF Mapped
<1>5. << >> \in Seq(F.values) /\ Len(<< >>) = 0
  OBVIOUS
<1>6. Within(F, first, first, f, f + Len(<< >>))
  <2>1. f + Len(<< >>) = f
    BY <1>5
  <2>2. first * F.buf <= f /\ f <= first * F.buf
    OBVIOUS
  <2>3. QED
    BY <2>1, <2>2 DEF Within
<1>7. Positions(F, first, first) = {}
  <2>1. first * F.buf \in Nat
    OBVIOUS
  <2>2. QED
    BY <2>1 DEF Positions
<1>8. QED
  BY <1>4, <1>5, <1>6, <1>7 DEF Laid, R

\* No node is owned if there are none.
LEMMA OwnedNone ==
  ASSUME NEW m, NEW lo \in Nat
  PROVE  Owned(m, lo, lo) = {}
BY DEF Owned

\* The map and the nodes of a deque of n elements that is constructed beside another one,
\* or no nodes.
Initialized(r, F, R, first, n) ==
    /\ first \in Nat /\ r.start = first * F.buf /\ r.finish = r.start
    /\ ~ r.threw => Laid(r, F, R, first, first + ((n \div F.buf) + 1), r.start, << >>)
    /\ r.threw => Laid(r, F, R, first, first, r.start, << >>)

\* _M_initialize_map
LEMMA InitializeMapDoes ==
  ASSUME NEW F, Framed(F), InitialMapSize \in Nat, NEW lo, NEW up, NEW m, Mapped(m, F, {}, lo, up), ~ m.threw,
         m.fuel > 0, NEW n \in Nat, Fresh(m, F, n + 1), NEW r, r = InitializeMap(m, n)
  PROVE  /\ \E first : Initialized(r, F, Owned(m, lo, up), first, n)
         /\ \A b \in Owned(m, lo, up) : r.mem[b] = m.mem[b]
<1>1. /\ m \in Memories(F) /\ m.buf = F.buf /\ F.buf \in Nat \ {0} /\ m.fuel \in Nat /\ m.next \in Nat
      /\ F.last \in Nat
  <2>1. m \in Memories(F)
    BY DEF Mapped
  <2>2. QED
    BY <2>1, MemoryParts DEF Framed
<1>2. PICK q \in Nat, nodes \in Nat : q = n \div F.buf /\ nodes = q + 1 /\ q <= n
  <2>1. PICK b \in Nat \ {0} : b = F.buf
    BY <1>1
  <2>2. n \div b \in Nat /\ n % b \in 0 .. b - 1 /\ n = ((n \div b) * b) + (n % b)
    BY DivisionIs
  <2>3. PICK k \in Nat, e \in Nat : k = n \div b /\ e = n % b
    BY <2>2
  <2>4. n = k * b + e
    BY <2>2, <2>3
  <2>5. k <= k * b
    BY <2>1
  <2>6. k * b \in Nat
    BY <2>1
  <2>7. k <= n /\ k + 1 \in Nat
    BY <2>4, <2>5, <2>6
  <2>8. QED
    BY <2>1, <2>3, <2>7
<1>3. PICK size \in Nat, first \in Nat :
        size = MapSizeFor(nodes) /\ first = Centred(size, nodes) /\ first + nodes <= size
  <2>1. MapSizeFor(nodes) \in Nat /\ nodes <= MapSizeFor(nodes)
    BY DEF MapSizeFor, Larger
  <2>2. PICK z \in Nat : z = MapSizeFor(nodes)
    BY <2>1
  <2>3. Centred(z, nodes) \in Nat /\ Centred(z, nodes) + nodes <= z
    BY <2>1, <2>2, CentredIs
  <2>4. QED
    BY <2>2, <2>3
<1>4. PICK map : map = [i \in 1 .. size |-> 0]
  OBVIOUS
<1>5. map \in Seq(0 .. F.last) /\ Len(map) = size /\ \A i \in 1 .. size : map[i] = 0
  <2>1. 0 \in 0 .. F.last
    BY <1>1
  <2>2. QED
    BY <1>4, <2>1
<1>6. PICK f \in Nat : f = first * F.buf
  BY <1>1
<1>7. PICK a : a = [Spend(m, 1) EXCEPT !.map = map, !.start = f, !.finish = f]
  OBVIOUS
<1>8. /\ a \in Memories(F) /\ a.mem = m.mem /\ a.next = m.next /\ a.map = map /\ a.start = f /\ a.finish = f
      /\ ~ a.threw
  <2>1. PICK d : d = Spend(m, 1)
    OBVIOUS
  <2>2. d \in Memories(F) /\ d.mem = m.mem /\ SameIterators(d, m) /\ (d.threw <=> 1 > m.fuel)
    BY <1>1, <2>1, SpendDoes
  <2>3. a = [d EXCEPT !.map = map, !.start = f, !.finish = f]
    BY <1>7, <2>1
  <2>4. /\ a \in Memories(F) /\ a.mem = d.mem /\ a.next = d.next /\ a.map = map /\ a.start = f /\ a.finish = f
        /\ a.threw = d.threw
    BY <1>5, <2>2, <2>3 DEF Memories
  <2>5. ~ (1 > m.fuel)
    BY <1>1
  <2>6. QED
    BY <2>2, <2>4, <2>5 DEF SameIterators
<1>9. PICK R : R = Owned(m, lo, up)
  OBVIOUS
<1>10. Laid(a, F, R, first, first, f, << >>)
  <2>1. first <= Len(a.map) /\ \A i \in 1 .. Len(a.map) : a.map[i] = 0
    BY <1>3, <1>5, <1>8
  <2>2. QED
    BY <1>6, <1>8, <1>9, <2>1, NoNodesLaid
<1>11. PICK to \in Nat : to = first + nodes /\ to <= Len(a.map)
  BY <1>3, <1>5, <1>8
<1>12. r = NewNodes(a, first, to)
  <2>1. NodeOf(m, n) + 1 = nodes
    BY <1>1, <1>2 DEF NodeOf
  <2>2. QED
    BY <1>1, <1>3, <1>4, <1>6, <1>7, <1>11, <2>1 DEF InitializeMap
<1>13. a.next + (to - first) <= F.last + 1
  <2>1. m.next + (n + 1) <= F.last + 1 /\ to - first = nodes /\ nodes <= n + 1
    BY <1>2, <1>11 DEF Fresh
  <2>2. QED
    BY <1>1, <1>8, <2>1
<1>14. Beside(first, first, first, to, first, to)
  BY <1>11 DEF Beside
<1>15. /\ NodesKept(r, a, R)
       /\ ~ r.threw => Laid(r, F, R, first, to, f, << >>)
       /\ r.threw => Laid(r, F, R, first, first, f, << >>)
  BY <1>8, <1>10, <1>11, <1>12, <1>13, <1>14, NewNodesDoes
<1>16. r.start = f /\ r.finish = f /\ \A b \in R : r.mem[b] = m.mem[b]
  BY <1>8, <1>15 DEF NodesKept
<1>17. to = first + ((n \div F.buf) + 1)
  BY <1>2, <1>11
<1>18. Initialized(r, F, R, first, n)
  BY <1>6, <1>15, <1>16, <1>17 DEF Initialized
<1>19. QED
  BY <1>9, <1>16, <1>18
\* What the constructor of a deque of some values leaves beside another deque
Constructed(r, F, R, first, n, values) ==
    /\ first \in Nat /\ r.start = first * F.buf
    /\ ~ r.threw => /\ Laid(r, F, R, first, first + ((n \div F.buf) + 1), r.start, values)
                    /\ r.finish = r.start + n
    /\ r.threw => \/ Laid(r, F, R, first, first, r.start, << >>)
                  \/ /\ Laid(r, F, R, first, first + ((n \div F.buf) + 1), r.start, << >>)
                     /\ r.finish = r.start + n

\* The blocks R have what they had.
SameBlocks(r, m, R) == \A b \in R : r.mem[b] = m.mem[b]

\* n elements from the first position of a node on are in that node and those behind it.
LEMMA NodesForThem ==
  ASSUME NEW F, Framed(F), NEW first \in Nat, NEW n \in Nat, NEW f, f = first * F.buf, NEW up,
         up = first + ((n \div F.buf) + 1)
  PROVE  /\ f \in Nat /\ up \in Nat /\ first < up /\ Within(F, first, up, f, f + n)
         /\ f \div F.buf = first /\ ((f + n) \div F.buf) + 1 = up
<1>1. PICK b \in Nat \ {0} : b = F.buf
  BY DEF Framed
<1>2. PICK q \in Nat, e \in Nat : q = n \div b /\ n = q * b + e /\ e < b
  <2>1. n \div b \in Nat /\ n % b \in 0 .. b - 1 /\ n = ((n \div b) * b) + (n % b)
    BY DivisionIs
  <2>2. QED
    BY <2>1
<1>3. PICK k \in Nat : k = first + q
  OBVIOUS
<1>4. up = k + 1 /\ first < up /\ up \in Nat
  <2>1. up = first + (q + 1)
    BY <1>1, <1>2
  <2>2. QED
    BY <1>3, <2>1
<1>5. /\ first * b \in Nat /\ q * b \in Nat /\ k * b \in Nat /\ k * b = first * b + q * b
      /\ (k + 1) * b = k * b + b
  BY <1>3, ProductGrows
<1>6. PICK p \in Nat : p = f + n
  BY <1>1, <1>5
<1>7. p = k * b + e
  BY <1>1, <1>2, <1>5, <1>6
<1>8. p \div b = k
  <2>1. k * b <= p /\ p < k * b + b
    BY <1>2, <1>5, <1>7
  <2>2. QED
    BY <2>1, NodeIs
<1>9. f \in Nat /\ f \div b = first
  <2>1. first * b <= f /\ f < first * b + b /\ f \in Nat
    BY <1>1, <1>5
  <2>2. QED
    BY <2>1, NodeIs
<1>10. Within(F, first, up, f, f + n)
  <2>1. p <= up * b
    <3>1. up * b = k * b + b
      BY <1>4, <1>5
    <3>2. QED
      BY <1>2, <1>5, <1>7, <3>1
  <2>2. f <= f + n /\ f + n \in Nat /\ first * F.buf <= f /\ f + n <= up * F.buf
    BY <1>1, <1>5, <1>6, <1>9, <2>1
  <2>3. QED
    BY <1>9, <2>2 DEF Within
<1>11. QED
  BY <1>1, <1>4, <1>6, <1>8, <1>9, <1>10

\* The constructors put the elements into the nodes.
LEMMA BuildInitialDoes ==
  ASSUME NEW F, Framed(F), NEW R, NEW c, NEW first, NEW values \in Seq(F.values), NEW n \in Nat, Len(values) = n,
         Initialized(c, F, R, first, n), NEW r, r = BuildInitial(c, values)
  PROVE  Constructed(r, F, R, first, n, values) /\ SameBlocks(r, c, R)
<1>1. first \in Nat /\ c.start = first * F.buf /\ c.finish = c.start
  BY DEF Initialized
<1>2. CASE c.threw
  BY <1>1, <1>2 DEF BuildInitial, Initialized, Constructed, SameBlocks
<1>3. CASE ~ c.threw
  <2>1. PICK f, up : f = c.start /\ up = first + ((n \div F.buf) + 1)
    OBVIOUS
  <2>2. f \in Nat /\ up \in Nat /\ Within(F, first, up, f, f + n)
    BY <1>1, <2>1, NodesForThem
  <2>3. PICK to \in Nat : to = f + n
    BY <2>2
  <2>4. Laid(c, F, R, first, up, f, << >>) /\ c \in Memories(F)
    <3>1. Laid(c, F, R, first, up, f, << >>)
      BY <1>3, <2>1 DEF Initialized
    <3>2. QED
      BY <3>1, LaidParts
  <2>5. PICK a : a = [c EXCEPT !.finish = @ + n]
    OBVIOUS
  <2>6. /\ a \in Memories(F) /\ a.mem = c.mem /\ a.map = c.map /\ a.next = c.next /\ a.buf = c.buf
        /\ a.start = f /\ a.finish = to /\ ~ a.threw
    <3>1. c.finish = f /\ c.start = f
      BY <1>1, <2>1
    <3>2. a = [c EXCEPT !.finish = to]
      BY <2>3, <2>5, <3>1
    <3>3. QED
      BY <1>3, <2>4, <3>1, <3>2 DEF Memories
  <2>7. Laid(a, F, R, first, up, f, << >>)
    BY <2>4, <2>6, IteratorsLaid
  <2>8. At(c, f, to) = At(a, f, to)
    BY <2>6 DEF At, Addr, BlockAt, NodeOf
  <2>9. r = UninitializedCopy(a, values, At(a, f, to))
    BY <1>3, <2>1, <2>3, <2>5, <2>8 DEF BuildInitial
  <2>10. << >> \in Seq(F.values) /\ Len(<< >>) = 0
    OBVIOUS
  <2>11. f = f + Len(<< >>) /\ to = f + Len(values) /\ Within(F, first, up, f, to)
    BY <2>2, <2>3, <2>10
  <2>12. PICK w : w = << >> \o values
    OBVIOUS
  <2>13. /\ Kept(r, a, R)
         /\ ~ r.threw => Laid(r, F, R, first, up, f, w)
         /\ r.threw => Laid(r, F, R, first, up, f, << >>)
    BY <2>2, <2>6, <2>7, <2>9, <2>11, <2>12, BehindDoes
  <2>14. w = values
    BY <2>12
  <2>15. r.start = f /\ r.finish = r.start + n /\ \A b \in R : r.mem[b] = c.mem[b]
    BY <2>3, <2>6, <2>13 DEF Kept, SameIterators
  <2>16. Constructed(r, F, R, first, n, values)
    BY <1>1, <2>1, <2>13, <2>14, <2>15 DEF Constructed
  <2>17. QED
    BY <2>15, <2>16 DEF SameBlocks
<1>4. QED
  BY <1>2, <1>3

\* ~_Deque_base frees the nodes of a deque without elements.
LEMMA FreeNodesDoes ==
  ASSUME NEW F, Framed(F), NEW R, NEW m, NEW f, NEW lo, NEW up, Laid(m, F, R, lo, up, f, << >>),
         StartNode(m) = lo, FinishNode(m) + 1 = up, NEW r, r = FreeNodes(m)
  PROVE  Mapped(r, F, R, lo, lo) /\ r.threw = m.threw /\ \A b \in R : r.mem[b] = m.mem[b]
<1>1. Mapped(m, F, R, lo, up) /\ lo \in Nat /\ up \in Nat /\ lo <= up
  BY LaidParts DEF Mapped
<1>2. << >> \in Seq(F.values) /\ Len(<< >>) = 0
  OBVIOUS
<1>3. lo * F.buf \in Nat /\ up * F.buf \in Nat /\ lo * F.buf <= up * F.buf
  BY <1>1, ProductGrows DEF Framed
<1>4. PICK e \in Nat : e = lo * F.buf
  BY <1>3
<1>5. /\ Within(F, lo, up, e, e + Len(<< >>)) /\ Within(F, lo, lo, e, e + Len(<< >>))
  <2>1. e + Len(<< >>) = e /\ lo * F.buf <= e /\ e <= lo * F.buf /\ e <= up * F.buf
    BY <1>2, <1>3, <1>4
  <2>2. QED
    BY <2>1 DEF Within
<1>6. Laid(m, F, R, lo, up, e, << >>)
  <2>1. \A p \in Positions(F, lo, up) : Held(m, F, p) = Raw
    <3>1. \A p \in Positions(F, lo, up) : ~ (f <= p /\ p < f + Len(<< >>))
      <4>1. f \in Nat
        BY LaidParts
      <4>2. QED
        BY <1>2, <4>1 DEF Positions
    <3>2. QED
      BY <3>1 DEF Laid
  <2>2. \A p \in Positions(F, lo, up) : ~ (e <= p /\ p < e + Len(<< >>))
    BY <1>2 DEF Positions
  <2>3. QED
    BY <1>1, <1>2, <1>5, <2>1, <2>2 DEF Laid
<1>7. Beside(lo, lo, lo, up, lo, up)
  BY <1>1 DEF Beside
<1>8. r = DestroyNodes(m, lo, up)
  BY DEF FreeNodes
<1>9. Laid(r, F, R, lo, lo, e, << >>) /\ NodesKept(r, m, R) /\ SameEnds(r, m)
  BY <1>1, <1>5, <1>6, <1>7, <1>8, DestroyNodesDoes
<1>10. QED
  BY <1>9, LaidParts DEF NodesKept, SameEnds

\* The destructor leaves the nodes of the other deque.
LEMMA DestroyDequeDoes ==
  ASSUME NEW F, Framed(F), NEW m, NEW s, Holds(m, F, {}, s),
         NEW lo, NEW up, lo = StartNode(m), up = FinishNode(m) + 1, NEW b,
         NEW lo2, NEW up2, Mapped(b, F, Owned(m, lo, up), lo2, up2), ~ b.threw,
         \A k \in Owned(m, lo, up) : b.mem[k] = m.mem[k], NEW r, r = DestroyDeque(b, m)
  PROVE  /\ \E e \in Nat : Mapped(r, F, Owned(b, lo2, up2), e, e)
         /\ ~ r.threw /\ \A k \in Owned(b, lo2, up2) : r.mem[k] = b.mem[k]
<1>1. /\ Laid(m, F, {}, lo, up, m.start, s) /\ Len(s) \in Nat /\ m.finish = m.start + Len(s) /\ m.buf = F.buf
      /\ m.start \in Nat /\ s \in Seq(F.values)
  BY HoldsParts
<1>2. PICK x : x = WithIterators(b, m)
  OBVIOUS
<1>3. PICK R : R = Owned(b, lo2, up2)
  OBVIOUS
<1>4. /\ Laid(x, F, R, lo, up, m.start, s) /\ x.threw = b.threw /\ x.mem = b.mem
      /\ x.start = m.start /\ x.finish = m.finish
  BY <1>1, <1>2, <1>3, SwitchDoes
<1>5. Holds(x, F, R, s)
  <2>1. lo = m.start \div F.buf /\ up = (x.finish \div F.buf) + 1 /\ x.finish = m.start + Len(s)
    BY <1>1, <1>4 DEF StartNode, FinishNode, NodeOf
  <2>2. QED
    BY <1>4, <2>1, LaidHolds
<1>6. PICK l \in Nat : l = Len(s)
  BY <1>1
<1>7. PICK y : y = DropBack(x, l)
  OBVIOUS
<1>8. PICK none : none = Piece(s, 0, 0)
  OBVIOUS
<1>9. /\ Holds(y, F, R, none) /\ ~ y.threw /\ \A k \in R : y.mem[k] = x.mem[k]
  <2>1. ~ x.threw /\ l <= Len(s) /\ 0 \in Nat /\ 0 = Len(s) - l
    BY <1>4, <1>6
  <2>2. QED
    BY <1>5, <1>7, <1>8, <2>1, DropBackDoes
<1>10. none = << >>
  BY <1>1, <1>8 DEF Piece
<1>11. PICK e \in Nat, u \in Nat : e = StartNode(y) /\ u = FinishNode(y) + 1
  BY <1>9, HoldsParts
<1>12. Laid(y, F, R, e, u, y.start, << >>)
  BY <1>9, <1>10, <1>11, HoldsParts
<1>13. r = FreeNodes(y)
  <2>1. Size(m) = l
    BY <1>1, <1>6 DEF Size
  <2>2. QED
    BY <1>2, <1>7, <2>1 DEF DestroyDeque, WithIterators
<1>14. Mapped(r, F, R, e, e) /\ r.threw = y.threw /\ \A k \in R : r.mem[k] = y.mem[k]
  BY <1>11, <1>12, <1>13, FreeNodesDoes
<1>15. \A k \in R : r.mem[k] = b.mem[k]
  BY <1>4, <1>9, <1>14
<1>16. QED
  BY <1>3, <1>9, <1>14, <1>15
\* A deque is constructed beside the other one and takes its place, or goes again where
\* something throws.
LEMMA RebuildDoes ==
  ASSUME NEW F, Framed(F), InitialMapSize \in Nat, NEW m, NEW s, Holds(m, F, {}, s), ~ m.threw,
         NEW values \in Seq(F.values), Fresh(m, F, Len(values) + 1), NEW r, r = Rebuild(m, values)
  PROVE  Does(r, F, {}, s, values, TRUE)
<1>1. /\ m \in Memories(F) /\ m.buf = F.buf /\ m.fuel \in Nat /\ m.start \in Nat /\ m.finish = m.start + Len(s)
      /\ s \in Seq(F.values)
  <2>1. m \in Memories(F)
    BY HoldsParts
  <2>2. m.fuel \in Nat
    BY <2>1, MemoryParts
  <2>3. QED
    BY <2>1, <2>2, HoldsParts
<1>2. PICK lo, up : lo = StartNode(m) /\ up = FinishNode(m) + 1
  OBVIOUS
<1>3. Laid(m, F, {}, lo, up, m.start, s) /\ Mapped(m, F, {}, lo, up) /\ lo \in Nat
  BY <1>2, HoldsParts, LaidParts
<1>4. PICK n \in Nat : n = Len(values)
  OBVIOUS
<1>5. CASE m.fuel = 0
  <2>1. PICK one \in Nat : one = 1
    OBVIOUS
  <2>2. r = Spend(m, one)
    BY <1>5, <2>1 DEF Rebuild
  <2>3. Holds(r, F, {}, s) /\ (r.threw <=> one > m.fuel)
    BY <2>2, SpendHolds
  <2>4. r.threw
    BY <1>5, <2>1, <2>3
  <2>5. QED
    BY <1>1, <2>3, <2>4, NothingDone
<1>6. CASE m.fuel # 0
  <2>1. PICK c, b : c = InitializeMap(m, n) /\ b = BuildInitial(c, values)
    OBVIOUS
  <2>2. PICK R : R = Owned(m, lo, up)
    OBVIOUS
  <2>3. r = TakeOver(m, b)
    BY <1>4, <1>6, <2>1 DEF Rebuild
  <2>4. m.fuel > 0 /\ Fresh(m, F, n + 1)
    BY <1>1, <1>4, <1>6
  <2>5. /\ \E first : Initialized(c, F, R, first, n)
        /\ \A k \in R : c.mem[k] = m.mem[k]
    BY <1>3, <2>1, <2>2, <2>4, InitializeMapDoes
  <2>6. PICK first : Initialized(c, F, R, first, n)
    BY <2>5
  <2>7. Constructed(b, F, R, first, n, values) /\ \A k \in R : b.mem[k] = c.mem[k]
    <3>1. Len(values) = n /\ b = BuildInitial(c, values)
      BY <1>4, <2>1
    <3>2. Constructed(b, F, R, first, n, values)
      BY <2>6, <3>1, BuildInitialDoes
    <3>3. SameBlocks(b, c, R)
      BY <2>6, <3>1, BuildInitialDoes
    <3>4. QED
      BY <3>2, <3>3 DEF SameBlocks
  <2>8. first \in Nat /\ b.start = first * F.buf /\ \A k \in R : b.mem[k] = m.mem[k]
    BY <2>5, <2>7 DEF Constructed
  <2>9. PICK f, u : f = b.start /\ u = first + ((n \div F.buf) + 1)
    OBVIOUS
  <2>10. /\ f \in Nat /\ u \in Nat /\ first < u /\ f \div F.buf = first /\ ((f + n) \div F.buf) + 1 = u
    BY <2>8, <2>9, NodesForThem
  <2>11. CASE ~ b.threw
    <3>1. Laid(b, F, R, first, u, f, values) /\ b.finish = f + n
      BY <2>7, <2>9, <2>11 DEF Constructed
    <3>2. Mapped(b, F, R, first, u)
      BY <3>1, LaidParts
    <3>3. PICK z : z = DestroyDeque(b, m)
      OBVIOUS
    <3>4. PICK Q : Q = Owned(b, first, u)
      OBVIOUS
    <3>5. /\ \E e \in Nat : Mapped(z, F, Q, e, e)
          /\ ~ z.threw /\ \A k \in Q : z.mem[k] = b.mem[k]
      BY <1>2, <2>2, <2>8, <2>11, <3>2, <3>3, <3>4, DestroyDequeDoes
    <3>6. PICK e \in Nat : Mapped(z, F, Q, e, e)
      BY <3>5
    <3>7. r = WithIterators(z, b)
      BY <2>3, <2>11, <3>3 DEF TakeOver
    <3>8. /\ Laid(r, F, Owned(z, e, e), first, u, f, values) /\ r.threw = z.threw
          /\ r.start = b.start /\ r.finish = b.finish
      BY <3>1, <3>4, <3>5, <3>6, <3>7, SwitchDoes
    <3>9. Laid(r, F, {}, first, u, f, values)
      BY <3>8, OwnedNone
    <3>10. Holds(r, F, {}, values)
      <4>1. r.start = f /\ r.finish = f + Len(values) /\ first = f \div F.buf /\ u = (r.finish \div F.buf) + 1
        BY <1>4, <2>9, <2>10, <3>1, <3>8
      <4>2. QED
        BY <3>9, <4>1, LaidHolds
    <3>11. Outcome(r, F, {}, s, values, TRUE, values)
      BY <3>5, <3>8, <3>10 DEF Outcome
    <3>12. QED
      BY <3>11 DEF Does
  <2>12. CASE b.threw
    <3>1. PICK z : z = IF \A i \in DOMAIN b.map : b.map[i] = 0 THEN b ELSE FreeNodes(b)
      OBVIOUS
    <3>2. r = WithIterators(z, m)
      BY <2>3, <2>12, <3>1 DEF TakeOver
    <3>3. /\ \E e \in Nat : Mapped(z, F, R, e, e)
          /\ z.threw /\ \A k \in R : z.mem[k] = b.mem[k]
      <4>1. CASE Laid(b, F, R, first, first, f, << >>)
        <5>1. Mapped(b, F, R, first, first) /\ b \in Memories(F)
          BY <4>1, LaidParts
        <5>2. DOMAIN b.map = 1 .. Len(b.map)
          BY <5>1, MemoryParts
        <5>3. \A i \in DOMAIN b.map : b.map[i] = 0
          <6>1. \A i \in 1 .. Len(b.map) : ~ (first < i /\ i <= first) => b.map[i] = 0
            BY <5>1 DEF Mapped
          <6>2. \A i \in 1 .. Len(b.map) : ~ (first < i /\ i <= first)
            BY <2>8
          <6>3. QED
            BY <5>2, <6>1, <6>2
        <5>4. z = b
          BY <3>1, <5>3
        <5>5. QED
          BY <2>8, <2>12, <5>1, <5>4
      <4>2. CASE Laid(b, F, R, first, u, f, << >>) /\ b.finish = f + n
        <5>1. Mapped(b, F, R, first, u) /\ b \in Memories(F)
          BY <4>2, LaidParts
        <5>2. DOMAIN b.map = 1 .. Len(b.map) /\ b.buf = F.buf /\ Len(b.map) \in Nat
          BY <5>1, MemoryParts
        <5>3. first + 1 \in DOMAIN b.map /\ b.map[first + 1] # 0
          <6>1. first + 1 \in 1 .. Len(b.map) /\ first < first + 1 /\ first + 1 <= u
            BY <2>8, <2>10, <5>1, <5>2 DEF Mapped
          <6>2. b.map[first + 1] \in 1 .. b.next - 1
            BY <5>1, <6>1 DEF Mapped
          <6>3. QED
            BY <5>2, <6>1, <6>2
        <5>4. z = FreeNodes(b)
          BY <3>1, <5>3
        <5>5. StartNode(b) = first /\ FinishNode(b) + 1 = u
          BY <2>9, <2>10, <4>2, <5>2 DEF StartNode, FinishNode, NodeOf
        <5>6. Mapped(z, F, R, first, first) /\ z.threw = b.threw /\ \A k \in R : z.mem[k] = b.mem[k]
          BY <4>2, <5>4, <5>5, FreeNodesDoes
        <5>7. QED
          BY <2>8, <2>12, <5>6
      <4>3. QED
        BY <2>7, <2>9, <2>12, <4>1, <4>2 DEF Constructed
    <3>4. PICK e \in Nat : Mapped(z, F, R, e, e)
      BY <3>3
    <3>5. \A k \in R : z.mem[k] = m.mem[k]
      BY <2>8, <3>3
    <3>6. /\ Laid(r, F, Owned(z, e, e), lo, up, m.start, s) /\ r.threw = z.threw
          /\ r.start = m.start /\ r.finish = m.finish
      BY <1>3, <2>2, <3>2, <3>4, <3>5, SwitchDoes
    <3>7. Laid(r, F, {}, lo, up, m.start, s)
      BY <3>6, OwnedNone
    <3>8. Holds(r, F, {}, s)
      <4>1. /\ r.start = m.start /\ r.finish = m.start + Len(s) /\ lo = m.start \div F.buf
            /\ up = (r.finish \div F.buf) + 1
        BY <1>1, <1>2, <3>6 DEF StartNode, FinishNode, NodeOf
      <4>2. QED
        BY <3>7, <4>1, LaidHolds
    <3>9. QED
      BY <1>1, <3>3, <3>6, <3>8, NothingDone
  <2>13. QED
    BY <2>11, <2>12
<1>7. QED
  BY <1>5, <1>6

-----------------------------------------------------------------------------
(* Deques between calls                                                     *)

\* Raw is no value, a node has cells, the bounds of the model are numbers, and no range
\* has more elements than clients keep.
DequeParameters ==
    /\ Raw \notin Value /\ BufSizes \subseteq Nat \ {0} /\ InitialMapSize \in Nat /\ Plenty \in Nat
    /\ \A buf \in BufSizes : MaxSize[buf] \in Nat
    /\ \A values \in Ranges : values \in Seq(Value) /\ \A buf \in BufSizes : Len(values) <= MaxSize[buf]

\* A deque between calls
DequeType == [buf : BufSizes, map : Seq(Seq(Cellular(Value))), start : Nat, finish : Nat]

Intact(d) ==
    /\ d \in DequeType /\ d.start <= d.finish /\ FinishNode(d) < Len(d.map)
    /\ \A i \in 1 .. Len(d.map) :
         Len(d.map[i]) = IF StartNode(d) < i /\ i <= FinishNode(d) + 1 THEN d.buf ELSE 0
    /\ \A i \in 1 .. Len(d.map) : \A c \in 1 .. Len(d.map[i]) : \A p \in Nat :
         p + 1 = (i - 1) * d.buf + c => (d.map[i][c] # Raw <=> d.start <= p /\ p < d.finish)

\* The inductive invariant
IInv ==
    /\ deque \in [Deques -> DequeType]
    /\ \A x \in Deques : Intact(deque[x]) /\ Count(x) <= Most(x)
    /\ \A x, y \in Deques : deque[x].buf = deque[y].buf
    /\ bad = FALSE

\* The parts of a deque, as the provers need them
LEMMA IntactParts ==
  ASSUME BufSizes \subseteq Nat \ {0}, NEW d, Intact(d)
  PROVE  /\ d.buf \in Nat \ {0} /\ d.buf \in BufSizes /\ d.map \in Seq(Seq(Cellular(Value))) /\ Len(d.map) \in Nat
         /\ DOMAIN d.map = 1 .. Len(d.map) /\ d.start \in Nat /\ d.finish \in Nat /\ d.start <= d.finish
         /\ Size(d) \in Nat /\ d.finish = d.start + Size(d)
         /\ StartNode(d) \in Nat /\ FinishNode(d) \in Nat /\ StartNode(d) <= FinishNode(d)
         /\ FinishNode(d) < Len(d.map) /\ NodesOf(d) \in Nat /\ FinishNode(d) + 1 = StartNode(d) + NodesOf(d)
         /\ 1 <= NodesOf(d)
<1>1. /\ d.buf \in Nat \ {0} /\ d.buf \in BufSizes /\ d.map \in Seq(Seq(Cellular(Value)))
      /\ d.start \in Nat /\ d.finish \in Nat /\ d.start <= d.finish /\ FinishNode(d) < Len(d.map)
  BY DEF Intact, DequeType
<1>2. Len(d.map) \in Nat /\ DOMAIN d.map = 1 .. Len(d.map)
  BY <1>1
<1>3. Size(d) \in Nat /\ d.finish = d.start + Size(d)
  BY <1>1 DEF Size
<1>4. PICK b \in Nat \ {0}, p \in Nat, e \in Nat : b = d.buf /\ p = d.start /\ e = d.finish
  BY <1>1
<1>5. p \div b \in Nat /\ e \div b \in Nat /\ p \div b <= e \div b
  <2>1. p <= e
    BY <1>1, <1>4
  <2>2. p \div b \in Nat /\ e \div b \in Nat
    BY DivisionIs
  <2>3. QED
    BY <2>1, <2>2, NodeOrder
<1>6. StartNode(d) = p \div b /\ FinishNode(d) = e \div b
  BY <1>4 DEF StartNode, FinishNode, NodeOf
<1>7. PICK k \in Nat, l \in Nat : k = StartNode(d) /\ l = FinishNode(d) /\ k <= l
  BY <1>5, <1>6
<1>8. NodesOf(d) \in Nat /\ FinishNode(d) + 1 = StartNode(d) + NodesOf(d) /\ 1 <= NodesOf(d)
  BY <1>7 DEF NodesOf
<1>9. QED
  BY <1>1, <1>2, <1>3, <1>7, <1>8
\* The cell of a position
LEMMA CellAtIs ==
  ASSUME BufSizes \subseteq Nat \ {0}, NEW d, Intact(d), NEW F, Framed(F), F.buf = d.buf, NEW p \in Nat,
         StartNode(d) < Row(F, p), Row(F, p) <= FinishNode(d) + 1
  PROVE  /\ Row(F, p) \in 1 .. Len(d.map) /\ Column(F, p) \in 1 .. Len(d.map[Row(F, p)])
         /\ CellAt(d, p) = d.map[Row(F, p)][Column(F, p)] /\ CellAt(d, p) \in Cellular(Value)
         /\ CellAt(d, p) # Raw <=> d.start <= p /\ p < d.finish
<1>1. /\ d.buf \in Nat \ {0} /\ d.map \in Seq(Seq(Cellular(Value))) /\ Len(d.map) \in Nat
      /\ StartNode(d) \in Nat /\ FinishNode(d) \in Nat /\ FinishNode(d) < Len(d.map)
  BY IntactParts
<1>2. /\ Row(F, p) \in Nat /\ 1 <= Row(F, p) /\ Column(F, p) \in 1 .. F.buf
      /\ p + 1 = (Row(F, p) - 1) * F.buf + Column(F, p)
  BY PlaceIs
<1>3. PICK i \in Nat, c \in Nat : i = Row(F, p) /\ c = Column(F, p)
  BY <1>1, <1>2
<1>4. i \in 1 .. Len(d.map)
  BY <1>1, <1>2, <1>3
<1>5. Len(d.map[i]) = d.buf
  BY <1>3, <1>4 DEF Intact
<1>6. c \in 1 .. Len(d.map[i]) /\ p + 1 = (i - 1) * d.buf + c
  BY <1>2, <1>3, <1>5
<1>7. d.map[i] \in Seq(Cellular(Value))
  BY <1>1, <1>4
<1>8. d.map[i][c] \in Cellular(Value)
  BY <1>6, <1>7
<1>9. d.map[i][c] # Raw <=> d.start <= p /\ p < d.finish
  BY <1>4, <1>6 DEF Intact
<1>10. CellAt(d, p) = d.map[i][c]
  BY <1>3 DEF CellAt, NodeOf, Row, Column
<1>11. QED
  BY <1>3, <1>4, <1>6, <1>8, <1>9, <1>10

\* The content of a deque has values, and no raw cells.
LEMMA ContentAre ==
  ASSUME BufSizes \subseteq Nat \ {0}, NEW d, Intact(d)
  PROVE  /\ Content(d) \in Seq(Value) /\ Len(Content(d)) = Size(d)
         /\ \A j \in 1 .. Size(d) : Content(d)[j] = CellAt(d, d.start + j - 1)
         /\ \A p \in Nat : d.start <= p /\ p < d.finish => CellAt(d, p) \in Value
<1>1. /\ d.buf \in Nat \ {0} /\ d.start \in Nat /\ d.finish \in Nat /\ Size(d) \in Nat /\ d.finish = d.start + Size(d)
  BY IntactParts
<1>2. PICK F : F = [buf |-> d.buf, last |-> 0, values |-> {}]
  OBVIOUS
<1>3. Framed(F) /\ F.buf = d.buf
  BY <1>1, <1>2 DEF Framed
<1>4. ASSUME NEW p \in Nat, d.start <= p, p < d.finish PROVE CellAt(d, p) \in Value
  <2>1. PICK b \in Nat \ {0}, f \in Nat, e \in Nat : b = d.buf /\ f = d.start /\ e = d.finish
    BY <1>1
  <2>2. f <= p /\ p <= e
    BY <1>4, <2>1
  <2>3. f \div b \in Nat /\ p \div b \in Nat /\ e \div b \in Nat /\ f \div b <= p \div b /\ p \div b <= e \div b
    BY <2>2, NodeOrder
  <2>4. PICK i \in Nat, j \in Nat, k \in Nat : i = f \div b /\ j = p \div b /\ k = e \div b
    BY <2>3
  <2>5. StartNode(d) = i /\ FinishNode(d) = k /\ Row(F, p) = j + 1
    BY <1>3, <2>1, <2>4 DEF StartNode, FinishNode, NodeOf, Row
  <2>6. StartNode(d) < Row(F, p) /\ Row(F, p) <= FinishNode(d) + 1
    BY <2>3, <2>4, <2>5
  <2>7. CellAt(d, p) \in Cellular(Value) /\ CellAt(d, p) # Raw
    BY <1>3, <1>4, <2>6, CellAtIs
  <2>8. QED
    BY <2>7 DEF Cellular
<1>5. PICK n \in Nat : n = Size(d)
  BY <1>1
<1>6. PICK s : s = Content(d)
  OBVIOUS
<1>7. s = [j \in 1 .. n |-> CellAt(d, d.start + j - 1)]
  BY <1>5, <1>6 DEF Content
<1>8. ASSUME NEW j \in 1 .. n PROVE CellAt(d, d.start + j - 1) \in Value
  <2>1. PICK p \in Nat : p = d.start + j - 1
    BY <1>1
  <2>2. d.start <= p /\ p < d.finish
    BY <1>1, <1>5, <2>1
  <2>3. QED
    BY <1>4, <2>1, <2>2
<1>9. s \in Seq(Value) /\ Len(s) = n /\ \A j \in 1 .. n : s[j] = CellAt(d, d.start + j - 1)
  BY <1>7, <1>8
<1>10. QED
  BY <1>4, <1>5, <1>6, <1>9

\* A memory that begins with a deque holds its content.
LEMMA StartHolds ==
  ASSUME BufSizes \subseteq Nat \ {0}, NEW d, Intact(d), MaxSize[d.buf] \in Nat, NEW fuel \in Nat,
         NEW F, Framed(F), F.buf = d.buf, F.last = NodesOf(d) + MaxSize[d.buf] + 2,
         Content(d) \in Seq(F.values), NEW m, m = Start(d, fuel)
  PROVE  /\ Holds(m, F, {}, Content(d)) /\ ~ m.threw /\ m.next = NodesOf(d) + 1 /\ m.start = d.start
         /\ m.fuel = fuel
<1>1. /\ d.buf \in Nat \ {0} /\ d.map \in Seq(Seq(Cellular(Value))) /\ Len(d.map) \in Nat
      /\ DOMAIN d.map = 1 .. Len(d.map) /\ d.start \in Nat /\ d.finish \in Nat /\ d.start <= d.finish
      /\ Size(d) \in Nat /\ d.finish = d.start + Size(d)
      /\ StartNode(d) \in Nat /\ FinishNode(d) \in Nat /\ FinishNode(d) < Len(d.map) /\ NodesOf(d) \in Nat
      /\ FinishNode(d) + 1 = StartNode(d) + NodesOf(d)
  BY IntactParts
<1>2. /\ Len(Content(d)) = Size(d) /\ \A j \in 1 .. Size(d) : Content(d)[j] = CellAt(d, d.start + j - 1)
  BY ContentAre
<1>3. PICK lo \in Nat, n \in Nat, up \in Nat, last \in Nat, size \in Nat :
        /\ lo = StartNode(d) /\ n = NodesOf(d) /\ up = lo + n /\ last = F.last /\ size = Len(d.map)
        /\ n <= last /\ up <= size /\ up = FinishNode(d) + 1
  <2>1. PICK k \in Nat, g \in Nat : k = MaxSize[d.buf] /\ g = NodesOf(d)
    BY <1>1
  <2>2. NodesOf(d) <= F.last /\ F.last \in Nat
    <3>1. F.last = g + k + 2
      BY <2>1
    <3>2. QED
      BY <2>1, <3>1
  <2>3. FinishNode(d) + 1 \in Nat /\ FinishNode(d) + 1 <= Len(d.map)
    BY <1>1
  <2>4. QED
    BY <1>1, <2>2, <2>3
<1>4. PICK s : s = Content(d)
  OBVIOUS
<1>5. s \in Seq(F.values) /\ Len(s) = Size(d) /\ \A j \in 1 .. Size(d) : s[j] = CellAt(d, d.start + j - 1)
  BY <1>2, <1>4
<1>6. PICK mem : mem = [b \in 0 .. last |-> IF b \in 1 .. n THEN d.map[lo + b] ELSE << >>]
  OBVIOUS
<1>7. PICK map : map = [i \in 1 .. size |-> IF i - lo \in 1 .. n THEN i - lo ELSE 0]
  OBVIOUS
<1>8. m = [mem |-> mem, map |-> map, buf |-> d.buf, start |-> d.start, finish |-> d.finish, next |-> n + 1,
           fuel |-> fuel, threw |-> FALSE, bad |-> FALSE]
  BY <1>1, <1>3, <1>6, <1>7 DEF Start
<1>9. ASSUME NEW i \in 1 .. size, NEW c \in 1 .. Len(d.map[i])
      PROVE  /\ d.map[i][c] \in Cellular(F.values)
             /\ \A p \in Nat : p + 1 = (i - 1) * d.buf + c =>
                  d.map[i][c] = IF d.start <= p /\ p < d.start + Len(s) THEN s[p - d.start + 1] ELSE Raw
  <2>1. Len(d.map[i]) = d.buf /\ lo < i /\ i <= up
    <3>1. Len(d.map[i]) = IF lo < i /\ i <= up THEN d.buf ELSE 0
      BY <1>3 DEF Intact
    <3>2. Len(d.map[i]) # 0
      BY <1>9
    <3>3. QED
      BY <3>1, <3>2
  <2>2. PICK p \in Nat : p + 1 = (i - 1) * d.buf + c
    <3>1. PICK k \in Nat : i = k + 1
      <4>1. i - 1 \in Nat /\ i = (i - 1) + 1
        OBVIOUS
      <4>2. QED
        BY <4>1
    <3>2. k * d.buf \in Nat
      BY <1>1, ProductGrows
    <3>3. PICK x \in Nat, g \in Nat : x = k * d.buf /\ c = g + 1
      <4>1. c - 1 \in Nat /\ c = (c - 1) + 1
        BY <1>1, <2>1
      <4>2. QED
        BY <3>2, <4>1
    <3>4. (x + g) + 1 = (i - 1) * d.buf + c /\ x + g \in Nat
      BY <3>1, <3>3
    <3>5. QED
      BY <3>4
  <2>3. Row(F, p) = i /\ Column(F, p) = c
    <3>1. i \in Nat /\ 1 <= i /\ c \in 1 .. F.buf /\ p + 1 = (i - 1) * F.buf + c
      BY <2>1, <2>2
    <3>2. QED
      BY <3>1, PlaceOf
  <2>4. /\ CellAt(d, p) = d.map[i][c] /\ (CellAt(d, p) # Raw <=> d.start <= p /\ p < d.finish)
    <3>1. StartNode(d) < Row(F, p) /\ Row(F, p) <= FinishNode(d) + 1
      BY <1>3, <2>1, <2>3
    <3>2. QED
      BY <2>3, <3>1, CellAtIs
  <2>5. d.map[i][c] = IF d.start <= p /\ p < d.start + Len(s) THEN s[p - d.start + 1] ELSE Raw
    <3>1. CASE d.start <= p /\ p < d.start + Len(s)
      <4>1. PICK j \in 1 .. Size(d) : j = p - d.start + 1
        <5>1. PICK f \in Nat, l \in Nat : f = d.start /\ l = Size(d)
          BY <1>1
        <5>2. f <= p /\ p < f + l
          BY <1>5, <3>1, <5>1
        <5>3. p - f + 1 \in 1 .. l
          BY <5>2
        <5>4. QED
          BY <5>1, <5>3
      <4>2. d.start + j - 1 = p
        BY <1>1, <4>1
      <4>3. s[j] = CellAt(d, p)
        BY <1>5, <4>2
      <4>4. QED
        BY <2>4, <3>1, <4>1, <4>3
    <3>2. CASE ~ (d.start <= p /\ p < d.start + Len(s))
      BY <1>1, <1>5, <2>4, <3>2
    <3>3. QED
      BY <3>1, <3>2
  <2>6. d.map[i][c] \in Cellular(F.values)
    <3>1. CASE d.start <= p /\ p < d.start + Len(s)
      <4>1. p - d.start + 1 \in 1 .. Len(s)
        <5>1. PICK f \in Nat, l \in Nat : f = d.start /\ l = Len(s)
          BY <1>1, <1>5
        <5>2. f <= p /\ p < f + l
          BY <3>1, <5>1
        <5>3. p - f + 1 \in 1 .. l
          BY <5>2
        <5>4. QED
          BY <5>1, <5>3
      <4>2. s[p - d.start + 1] \in F.values
        BY <1>5, <4>1
      <4>3. QED
        BY <2>5, <3>1, <4>2 DEF Cellular
    <3>2. CASE ~ (d.start <= p /\ p < d.start + Len(s))
      BY <2>5, <3>2 DEF Cellular
    <3>3. QED
      BY <3>1, <3>2
  <2>7. ASSUME NEW q \in Nat, q + 1 = (i - 1) * d.buf + c PROVE q = p
    BY <2>2, <2>7
  <2>8. QED
    BY <2>5, <2>6, <2>7
<1>10. ASSUME NEW i \in 1 .. size PROVE d.map[i] \in Seq(Cellular(F.values))
  <2>1. d.map[i] \in Seq(Cellular(Value))
    BY <1>1, <1>3
  <2>2. \A c \in 1 .. Len(d.map[i]) : d.map[i][c] \in Cellular(F.values)
    BY <1>9
  <2>3. \A T, U : \A q \in Seq(T) : (\A c \in 1 .. Len(q) : q[c] \in U) => q \in Seq(U)
    OBVIOUS
  <2>4. QED
    BY <2>1, <2>2, <2>3
<1>11. mem \in [0 .. last -> Seq(Cellular(F.values))]
  <2>1. << >> \in Seq(Cellular(F.values))
    OBVIOUS
  <2>2. ASSUME NEW b \in 1 .. n PROVE d.map[lo + b] \in Seq(Cellular(F.values))
    <3>1. lo + b \in 1 .. size
      BY <1>3
    <3>2. QED
      BY <1>10, <3>1
  <2>3. QED
    BY <1>6, <2>1, <2>2
<1>12. map \in Seq(0 .. last) /\ Len(map) = size
  <2>1. \A i \in 1 .. size : (IF i - lo \in 1 .. n THEN i - lo ELSE 0) \in 0 .. last
    BY <1>3
  <2>2. QED
    BY <1>7, <2>1
<1>13. m \in Memories(F)
  <2>1. n + 1 \in 1 .. last + 1
    BY <1>3
  <2>2. /\ mem \in [0 .. F.last -> Seq(Cellular(F.values))] /\ map \in Seq(0 .. F.last) /\ n + 1 \in 1 .. F.last + 1
        /\ d.buf \in {F.buf} /\ d.start \in Nat /\ d.finish \in Nat
    BY <1>1, <1>3, <1>11, <1>12, <2>1
  <2>3. QED
    BY <1>8, <2>2 DEF Memories
<1>14. /\ m.mem = mem /\ m.map = map /\ m.start = d.start /\ m.finish = d.finish /\ m.next = n + 1
       /\ ~ m.threw /\ m.fuel = fuel
  BY <1>8
<1>15. Mapped(m, F, {}, lo, up)
  <2>1. ASSUME NEW i \in 1 .. Len(m.map)
        PROVE  IF lo < i /\ i <= up
               THEN m.map[i] \in 1 .. m.next - 1 /\ m.map[i] \notin {} /\ Len(m.mem[m.map[i]]) = F.buf
               ELSE m.map[i] = 0
    <3>1. i \in 1 .. size
      BY <1>12, <1>14
    <3>2. CASE lo < i /\ i <= up
      <4>1. PICK b \in 1 .. n : i = lo + b /\ b \in 0 .. last
        <5>1. i - lo \in 1 .. n /\ i = lo + (i - lo)
          BY <1>3, <3>1, <3>2
        <5>2. lo < i /\ i <= lo + n /\ n <= last
          BY <1>3, <3>2
        <5>3. i - lo \in 0 .. last
          BY <3>1, <5>2
        <5>4. QED
          BY <5>1, <5>3
      <4>2. map[i] = b
        BY <1>7, <3>1, <4>1
      <4>3. mem[b] = d.map[i]
        BY <1>6, <4>1
      <4>4. Len(d.map[i]) = d.buf
        BY <1>3, <3>1, <3>2 DEF Intact
      <4>5. b \in 1 .. m.next - 1
        BY <1>14
      <4>6. QED
        BY <1>14, <3>2, <4>2, <4>3, <4>4, <4>5
    <3>3. CASE ~ (lo < i /\ i <= up)
      <4>1. ~ (i - lo \in 1 .. n)
        BY <1>3, <3>1, <3>3
      <4>2. QED
        BY <1>7, <1>14, <3>1, <3>3, <4>1
    <3>4. QED
      BY <3>2, <3>3
  <2>2. \A i \in lo + 1 .. up : i \in 1 .. size /\ i - lo \in 1 .. n
    BY <1>3
  <2>3. \A i \in lo + 1 .. up : m.map[i] = i - lo
    BY <1>7, <1>14, <2>2
  <2>4. \A i, j \in lo + 1 .. up : m.map[i] = m.map[j] => i = j
    BY <1>3, <2>3
  <2>5. ASSUME NEW b \in 0 .. F.last, \A i \in lo + 1 .. up : m.map[i] # b PROVE m.mem[b] = << >>
    <3>1. ASSUME b \in 1 .. n PROVE FALSE
      <4>1. lo + b \in lo + 1 .. up /\ (lo + b) - lo = b
        BY <1>3, <3>1
      <4>2. m.map[lo + b] = b
        BY <2>3, <4>1
      <4>3. QED
        BY <2>5, <4>1, <4>2
    <3>2. QED
      BY <1>3, <1>6, <1>14, <3>1
  <2>6. lo <= up /\ up <= Len(m.map) /\ {} \subseteq 1 .. m.next - 1
    BY <1>3, <1>12, <1>14
  <2>7. QED
    BY <1>13, <2>1, <2>4, <2>5, <2>6 DEF Mapped
<1>16. PICK b \in Nat \ {0}, f \in Nat, e \in Nat : b = F.buf /\ f = d.start /\ e = d.finish
  BY <1>1
<1>17. Within(F, lo, up, f, e)
  <2>1. f <= e
    BY <1>1, <1>16
  <2>2. (f \div b) * b <= f /\ e <= ((e \div b) + 1) * b
    BY <2>1, NodeOrder
  <2>3. lo = f \div b /\ up = (e \div b) + 1
    BY <1>3, <1>16 DEF StartNode, FinishNode, NodeOf
  <2>4. lo * F.buf <= f /\ e <= up * F.buf
    BY <1>16, <2>2, <2>3
  <2>5. QED
    BY <2>1, <2>4 DEF Within
<1>18. ASSUME NEW p \in Positions(F, lo, up)
       PROVE  Held(m, F, p) = IF f <= p /\ p < f + Len(s) THEN s[p - f + 1] ELSE Raw
  <2>1. p \in Nat /\ lo < Row(F, p) /\ Row(F, p) <= up
    BY <1>15, <1>18, AddrIs, RowIs
  <2>2. /\ Row(F, p) \in Nat /\ 1 <= Row(F, p) /\ Column(F, p) \in 1 .. F.buf
        /\ p + 1 = (Row(F, p) - 1) * F.buf + Column(F, p)
    BY <2>1, PlaceIs
  <2>3. PICK i \in Nat, c \in Nat : i = Row(F, p) /\ c = Column(F, p)
    BY <1>16, <2>2
  <2>4. i \in 1 .. size /\ Len(d.map[i]) = d.buf
    <3>1. i \in 1 .. size
      BY <1>3, <2>1, <2>2, <2>3
    <3>2. QED
      BY <1>3, <2>1, <2>3, <3>1 DEF Intact
  <2>5. c \in 1 .. Len(d.map[i]) /\ p + 1 = (i - 1) * d.buf + c
    BY <2>2, <2>3, <2>4
  <2>6. d.map[i][c] = IF f <= p /\ p < f + Len(s) THEN s[p - f + 1] ELSE Raw
    BY <1>9, <1>16, <2>1, <2>4, <2>5
  <2>7. PICK g \in 1 .. n : i = lo + g /\ g \in 0 .. last
    <3>1. lo < i /\ i <= lo + n /\ n <= last
      BY <1>3, <2>1, <2>3
    <3>2. i - lo \in 1 .. n /\ i = lo + (i - lo) /\ i - lo \in 0 .. last
      BY <3>1
    <3>3. QED
      BY <3>2
  <2>8. map[i] = g /\ mem[g] = d.map[i]
    BY <1>6, <1>7, <2>4, <2>7
  <2>9. Held(m, F, p) = d.map[i][c]
    BY <1>14, <2>3, <2>8 DEF Held
  <2>10. QED
    BY <2>6, <2>9
<1>19. e = f + Len(s)
  BY <1>1, <1>5, <1>16
<1>20. Laid(m, F, {}, lo, up, f, s)
  BY <1>5, <1>15, <1>17, <1>18, <1>19 DEF Laid
<1>21. Holds(m, F, {}, s)
  <2>1. m.start = f /\ m.finish = f + Len(s) /\ lo = f \div F.buf /\ up = (m.finish \div F.buf) + 1
    BY <1>3, <1>14, <1>16, <1>19 DEF StartNode, FinishNode, NodeOf
  <2>2. QED
    BY <1>20, <2>1, LaidHolds
<1>22. QED
  BY <1>3, <1>4, <1>14, <1>21
\* The deque that a call leaves
Left(d, m) == [d EXCEPT !.map = Nodes(m), !.start = m.start, !.finish = m.finish]

\* It has the sequence that the memory holds, and no other block has anything.
LEMMA LeftAre ==
  ASSUME BufSizes \subseteq Nat \ {0}, NEW d, Intact(d), NEW F, Framed(F), F.buf = d.buf, F.values \subseteq Value,
         NEW m, NEW w, Holds(m, F, {}, w)
  PROVE  /\ Intact(Left(d, m)) /\ Left(d, m).buf = d.buf /\ Content(Left(d, m)) = w
         /\ Size(Left(d, m)) = Len(w) /\ ~ m.bad /\ ~ Lost(m)
<1>1. /\ Laid(m, F, {}, StartNode(m), FinishNode(m) + 1, m.start, w) /\ m \in Memories(F) /\ m.buf = F.buf
      /\ F.buf \in Nat \ {0} /\ w \in Seq(F.values) /\ Len(w) \in Nat
      /\ m.start \in Nat /\ m.finish \in Nat /\ m.finish = m.start + Len(w)
      /\ StartNode(m) \in Nat /\ FinishNode(m) \in Nat /\ FinishNode(m) < Len(m.map) /\ Len(m.map) \in Nat
  BY HoldsParts
<1>2. PICK lo \in Nat, up \in Nat, size \in Nat, l \in Nat, f \in Nat :
        /\ lo = StartNode(m) /\ up = FinishNode(m) + 1 /\ size = Len(m.map) /\ up <= size /\ l = Len(w)
        /\ f = m.start
  <2>1. FinishNode(m) + 1 \in Nat /\ FinishNode(m) + 1 <= Len(m.map)
    BY <1>1
  <2>2. QED
    BY <1>1, <2>1
<1>3. Mapped(m, F, {}, lo, up)
  BY <1>1, <1>2, LaidParts
<1>4. /\ m.mem \in [0 .. F.last -> Seq(Cellular(F.values))] /\ m.map \in Seq(0 .. F.last)
      /\ DOMAIN m.map = 1 .. size /\ m.bad = FALSE /\ F.last \in Nat /\ m.next \in Nat /\ m.next <= F.last + 1
  BY <1>1, <1>2, MemoryParts
<1>5. PICK e : e = Left(d, m)
  OBVIOUS
<1>6. e.map = Nodes(m) /\ e.start = f /\ e.finish = m.finish /\ e.buf = d.buf
  BY <1>2, <1>5 DEF Left, Intact, DequeType
<1>7. Nodes(m) = [i \in 1 .. size |-> m.mem[m.map[i]]]
  BY <1>4 DEF Nodes
<1>8. \A i \in 1 .. size : m.map[i] \in 0 .. F.last
  BY <1>4
<1>9. \A i \in 1 .. size : m.mem[m.map[i]] \in Seq(Cellular(Value))
  <2>1. Cellular(F.values) \subseteq Cellular(Value)
    BY DEF Cellular
  <2>2. Seq(Cellular(F.values)) \subseteq Seq(Cellular(Value))
    BY <2>1, WiderSequences
  <2>3. QED
    BY <1>4, <1>8, <2>2
<1>10. e.map \in Seq(Seq(Cellular(Value))) /\ Len(e.map) = size /\ \A i \in 1 .. size : e.map[i] = m.mem[m.map[i]]
  BY <1>6, <1>7, <1>9
<1>11. \A i \in 1 .. size : IF lo < i /\ i <= up
                            THEN m.map[i] \in 1 .. m.next - 1 /\ Len(m.mem[m.map[i]]) = F.buf
                            ELSE m.map[i] = 0
  BY <1>2, <1>3 DEF Mapped
<1>12. m.mem[0] = << >>
  <2>1. \A i \in lo + 1 .. up : m.map[i] # 0
    <3>1. ASSUME NEW i \in lo + 1 .. up PROVE m.map[i] # 0
      <4>1. i \in 1 .. size /\ lo < i /\ i <= up
        BY <1>2
      <4>2. m.map[i] \in 1 .. m.next - 1
        BY <1>11, <4>1
      <4>3. QED
        BY <4>2
    <3>2. QED
      BY <3>1
  <2>2. 0 \in 0 .. F.last /\ 0 \notin {}
    BY <1>4
  <2>3. QED
    BY <1>3, <2>1, <2>2 DEF Mapped
<1>13. ~ Lost(m)
  <2>1. ASSUME NEW b \in DOMAIN m.mem, m.mem[b] # << >> PROVE \E i \in DOMAIN m.map : m.map[i] = b
    <3>1. b \in 0 .. F.last /\ b \notin {}
      BY <1>4
    <3>2. PICK i \in lo + 1 .. up : m.map[i] = b
      BY <1>3, <2>1, <3>1 DEF Mapped
    <3>3. i \in 1 .. size
      BY <1>2
    <3>4. QED
      BY <1>4, <3>2, <3>3
  <2>2. QED
    BY <2>1 DEF Lost
<1>14. StartNode(e) = lo /\ FinishNode(e) + 1 = up
  BY <1>1, <1>2, <1>6 DEF StartNode, FinishNode, NodeOf
<1>15. ASSUME NEW i \in 1 .. size PROVE Len(e.map[i]) = IF lo < i /\ i <= up THEN e.buf ELSE 0
  <2>1. Len(<< >>) = 0
    OBVIOUS
  <2>2. QED
    BY <1>6, <1>10, <1>11, <1>12, <2>1
<1>16. ASSUME NEW p \in Nat, lo < Row(F, p), Row(F, p) <= up
       PROVE  /\ e.map[Row(F, p)][Column(F, p)] = IF f <= p /\ p < f + l THEN w[p - f + 1] ELSE Raw
              /\ f <= p /\ p < f + l => w[p - f + 1] \in F.values
  <2>1. p \in Positions(F, lo, up)
    BY <1>16, RowIs
  <2>2. Row(F, p) \in 1 .. size
    BY <1>2, <1>3, <2>1, AddrIs
  <2>3. Held(m, F, p) = e.map[Row(F, p)][Column(F, p)]
    BY <1>10, <2>2 DEF Held
  <2>4. Held(m, F, p) = IF f <= p /\ p < f + l THEN w[p - f + 1] ELSE Raw
    BY <1>1, <1>2, <2>1 DEF Laid
  <2>5. f <= p /\ p < f + l => p - f + 1 \in 1 .. l
    BY <1>2
  <2>6. f <= p /\ p < f + l => w[p - f + 1] \in F.values
    BY <1>1, <1>2, <2>5
  <2>7. QED
    BY <2>3, <2>4, <2>6
<1>17. Raw \notin F.values
  BY DEF Framed
<1>18. ASSUME NEW i \in 1 .. size, NEW c \in 1 .. Len(e.map[i]), NEW p \in Nat, p + 1 = (i - 1) * e.buf + c
       PROVE  e.map[i][c] # Raw <=> f <= p /\ p < f + l
  <2>1. lo < i /\ i <= up /\ c \in 1 .. F.buf
    <3>1. Len(e.map[i]) = IF lo < i /\ i <= up THEN e.buf ELSE 0
      BY <1>15
    <3>2. Len(e.map[i]) # 0
      BY <1>18
    <3>3. QED
      BY <1>6, <3>1, <3>2
  <2>2. Row(F, p) = i /\ Column(F, p) = c
    <3>1. i \in Nat /\ 1 <= i /\ p + 1 = (i - 1) * F.buf + c
      BY <1>6, <1>18
    <3>2. QED
      BY <2>1, <3>1, PlaceOf
  <2>3. e.map[i][c] = IF f <= p /\ p < f + l THEN w[p - f + 1] ELSE Raw
    BY <1>16, <2>1, <2>2
  <2>4. f <= p /\ p < f + l => w[p - f + 1] \in F.values
    BY <1>16, <2>1, <2>2
  <2>5. QED
    BY <1>17, <2>3, <2>4
<1>19. Intact(e)
  <2>1. e \in DequeType
    <3>1. Nodes(m) \in Seq(Seq(Cellular(Value)))
      BY <1>6, <1>10
    <3>2. QED
      BY <1>1, <1>5, <3>1 DEF Left, Intact, DequeType
  <2>2. e.start <= e.finish /\ FinishNode(e) < Len(e.map)
    <3>1. e.start <= e.finish
      BY <1>1, <1>2, <1>6
    <3>2. FinishNode(e) = FinishNode(m)
      BY <1>1, <1>2, <1>6 DEF FinishNode, NodeOf
    <3>3. QED
      BY <1>1, <1>2, <1>10, <3>1, <3>2
  <2>3. f + l = e.finish
    BY <1>1, <1>2, <1>6
  <2>4. \A i \in 1 .. Len(e.map) : Len(e.map[i]) = IF StartNode(e) < i /\ i <= FinishNode(e) + 1 THEN e.buf ELSE 0
    BY <1>10, <1>14, <1>15
  <2>5. \A i \in 1 .. Len(e.map) : \A c \in 1 .. Len(e.map[i]) : \A p \in Nat :
          p + 1 = (i - 1) * e.buf + c => (e.map[i][c] # Raw <=> e.start <= p /\ p < e.finish)
    BY <1>6, <1>10, <1>18, <2>3
  <2>6. QED
    BY <2>1, <2>2, <2>4, <2>5 DEF Intact
<1>20. Size(e) = l
  BY <1>1, <1>2, <1>6 DEF Size
<1>21. Content(e) = w
  <2>1. /\ Content(e) \in Seq(Value) /\ Len(Content(e)) = l
        /\ \A j \in 1 .. l : Content(e)[j] = CellAt(e, f + j - 1)
    BY <1>6, <1>19, <1>20, ContentAre
  <2>2. ASSUME NEW j \in 1 .. l PROVE Content(e)[j] = w[j]
    <3>1. PICK p \in Nat : p = f + j - 1 /\ f <= p /\ p < f + l /\ p - f + 1 = j
      <4>1. f + j - 1 \in Nat
        OBVIOUS
      <4>2. QED
        BY <4>1
    <3>2. p \in Positions(F, lo, up)
      <4>1. Within(F, lo, up, f, f + l)
        BY <1>1, <1>2 DEF Laid
      <4>2. QED
        BY <3>1, <4>1, InRange
    <3>3. lo < Row(F, p) /\ Row(F, p) <= up
      BY <3>2, RowIs
    <3>4. e.map[Row(F, p)][Column(F, p)] = w[j]
      BY <1>16, <3>1, <3>3
    <3>5. CellAt(e, p) = e.map[Row(F, p)][Column(F, p)]
      BY <1>6 DEF CellAt, NodeOf, Row, Column
    <3>6. QED
      BY <2>1, <3>1, <3>4, <3>5
  <2>3. w \in Seq(Value)
    BY <1>1, WiderSequences
  <2>4. QED
    BY <1>2, <2>1, <2>2, <2>3
<1>22. QED
  BY <1>2, <1>4, <1>5, <1>6, <1>13, <1>19, <1>20, <1>21

-----------------------------------------------------------------------------
(* Calls                                                                    *)

\* What a call must make of the deque, the values that it may use, and what it works with
Target(x, c) == Sequence!Replaced(Content(deque[x]), c)
Palette(x, c) == Sequence!Values(Content(deque[x])) \union Sequence!Values(Target(x, c))
FrameOf(x, c) ==
    [values |-> Palette(x, c), buf |-> deque[x].buf, last |-> NodesOf(deque[x]) + Most(x) + 2]

\* A call may replace a range by so many values.
Replaceable(x, from, to, values) ==
    /\ from \in Nat /\ to \in Nat /\ from <= to /\ to <= Count(x) /\ values \in Seq(Value)
    /\ from + Len(values) + (Count(x) - to) <= Most(x)

\* What AbstractSequences says of a replacement, element by element
LEMMA ReplacedAre ==
  ASSUME NEW V, NEW s \in Seq(V), NEW values \in Seq(V), NEW from \in Nat, NEW to \in Nat, from <= to,
         to <= Len(s), NEW strong
  PROVE  /\ Sequence!Replaced(s, Replaces(from, to, values, strong)) \in Seq(V)
         /\ Spliced(Sequence!Replaced(s, Replaces(from, to, values, strong)), s, from, to, values)
<1> DEFINE head == SubSeq(s, 1, from)
           tail == SubSeq(s, to + 1, Len(s))
           u == head \o values
           t == u \o tail
<1>1. Sequence!Replaced(s, Replaces(from, to, values, strong)) = t
  BY DEF Sequence!Replaced, Replaces
<1>2. head \in Seq(V) /\ Len(head) = from /\ \A i \in 1 .. from : head[i] = s[i]
  OBVIOUS
<1>3. tail \in Seq(V) /\ Len(tail) = Len(s) - to /\ \A j \in 1 .. Len(s) - to : tail[j] = s[to + j]
  OBVIOUS
<1> HIDE DEF head, tail
<1>4. Joined(u, V, head, values)
  BY <1>2, JoinedAre
<1>5. /\ u \in Seq(V) /\ Len(u) = from + Len(values) /\ \A i \in 1 .. from : u[i] = s[i]
      /\ \A j \in 1 .. Len(values) : u[from + j] = values[j]
  <2> HIDE DEF u
  <2>1. QED
    BY <1>2, <1>4 DEF Joined
<1> HIDE DEF u
<1>6. Joined(t, V, u, tail)
  BY <1>3, <1>5, JoinedAre
<1> HIDE DEF t
<1>7. t \in Seq(V) /\ Len(t) = from + Len(values) + (Len(s) - to)
  BY <1>3, <1>5, <1>6 DEF Joined
<1>8. ASSUME NEW i \in 1 .. from PROVE t[i] = s[i]
  <2>1. i \in 1 .. Len(u)
    BY <1>5
  <2>2. QED
    BY <1>5, <1>6, <2>1 DEF Joined
<1>9. ASSUME NEW j \in 1 .. Len(values) PROVE t[from + j] = values[j]
  <2>1. PICK i \in 1 .. Len(u) : i = from + j
    BY <1>5
  <2>2. t[i] = u[i]
    BY <1>6 DEF Joined
  <2>3. QED
    BY <1>5, <2>1, <2>2
<1>10. ASSUME NEW j \in 1 .. Len(s) - to PROVE t[from + Len(values) + j] = s[to + j]
  <2>1. t[Len(u) + j] = tail[j]
    BY <1>3, <1>6 DEF Joined
  <2>2. QED
    BY <1>3, <1>5, <2>1
<1>11. Spliced(t, s, from, to, values)
  BY <1>7, <1>8, <1>9, <1>10 DEF Spliced
<1>12. QED
  BY <1>1, <1>7, <1>11

\* The deques as they are between calls
LEMMA DequesAre ==
  ASSUME DequeParameters, IInv, NEW x \in Deques
  PROVE  /\ Intact(deque[x]) /\ Content(deque[x]) \in Seq(Value) /\ Len(Content(deque[x])) = Count(x)
         /\ Count(x) \in Nat /\ Most(x) \in Nat /\ Count(x) <= Most(x) /\ Most(x) = MaxSize[deque[x].buf]
         /\ deque[x].buf \in Nat \ {0} /\ NodesOf(deque[x]) \in Nat
<1>1. Intact(deque[x]) /\ Count(x) <= Most(x) /\ BufSizes \subseteq Nat \ {0}
  BY DEF IInv, DequeParameters
<1>2. /\ deque[x].buf \in Nat \ {0} /\ deque[x].buf \in BufSizes /\ NodesOf(deque[x]) \in Nat
      /\ Size(deque[x]) \in Nat
  BY <1>1, IntactParts
<1>3. Content(deque[x]) \in Seq(Value) /\ Len(Content(deque[x])) = Size(deque[x])
  BY <1>1, ContentAre
<1>4. Most(x) \in Nat /\ Most(x) = MaxSize[deque[x].buf]
  BY <1>2 DEF Most, DequeParameters
<1>5. QED
  BY <1>1, <1>2, <1>3, <1>4 DEF Count

\* What a call works on, and what it must make of it
Begun(m, x, F, s, t, from, to, values) ==
    /\ Framed(F) /\ Holds(m, F, {}, s) /\ ~ m.threw
    /\ s \in Seq(F.values) /\ t \in Seq(F.values) /\ values \in Seq(F.values)
    /\ Spliced(t, s, from, to, values) /\ Len(s) = Count(x)
    /\ \A k \in Nat : k <= Most(x) + 2 => Fresh(m, F, k)

\* A call begins on a memory that holds the content of the deque, with values of what is
\* there before it or should be there after it.
LEMMA CallBegins ==
  ASSUME DequeParameters, IInv, NEW x \in Deques, NEW from, NEW to, NEW values,
         Replaceable(x, from, to, values), NEW strong, NEW c, c = Replaces(from, to, values, strong),
         NEW fuel \in Nat
  PROVE  Begun(Start(deque[x], fuel), x, FrameOf(x, c), Content(deque[x]), Target(x, c), from, to, values)
<1>1. /\ from \in Nat /\ to \in Nat /\ from <= to /\ to <= Count(x) /\ values \in Seq(Value)
  BY DEF Replaceable
<1>2. PICK d, s, t, S, F, m : /\ d = deque[x] /\ s = Content(d) /\ t = Target(x, c) /\ S = Palette(x, c)
                              /\ F = FrameOf(x, c) /\ m = Start(d, fuel)
  OBVIOUS
<1>3. /\ Intact(d) /\ s \in Seq(Value) /\ Len(s) = Count(x) /\ Count(x) \in Nat /\ Most(x) \in Nat
      /\ Most(x) = MaxSize[d.buf] /\ d.buf \in Nat \ {0} /\ NodesOf(d) \in Nat
  BY <1>2, DequesAre
<1>4. t \in Seq(Value) /\ Spliced(t, s, from, to, values)
  <2>1. to <= Len(s)
    BY <1>1, <1>3
  <2>2. QED
    BY <1>1, <1>2, <1>3, <2>1, ReplacedAre DEF Target
<1>5. S \subseteq Value /\ s \in Seq(S) /\ t \in Seq(S)
  <2>1. S = Sequence!Values(s) \union Sequence!Values(t)
    BY <1>2 DEF Palette
  <2>2. /\ S \subseteq Value /\ \A i \in 1 .. Len(s) : s[i] \in S
        /\ \A i \in 1 .. Len(t) : t[i] \in S
    BY <1>3, <1>4, <2>1 DEF Sequence!Values
  <2>3. \A T : \A q \in Seq(T) : (\A i \in 1 .. Len(q) : q[i] \in S) => q \in Seq(S)
    OBVIOUS
  <2>4. QED
    BY <1>3, <1>4, <2>2, <2>3
<1>6. values \in Seq(S)
  <2>1. ASSUME NEW j \in 1 .. Len(values) PROVE values[j] \in S
    <3>1. t[from + j] = values[j] /\ Len(t) = from + Len(values) + (Len(s) - to)
      BY <1>4 DEF Spliced
    <3>2. from + j \in 1 .. Len(t)
      BY <1>1, <1>3, <3>1
    <3>3. QED
      BY <1>5, <3>1, <3>2
  <2>2. QED
    BY <1>1, <2>1
<1>7. F.values = S /\ F.buf = d.buf /\ F.last = NodesOf(d) + Most(x) + 2
  BY <1>2 DEF FrameOf
<1>8. Framed(F)
  <2>1. Raw \notin F.values
    BY <1>5, <1>7 DEF DequeParameters
  <2>2. F.last \in Nat
    BY <1>3, <1>7
  <2>3. QED
    BY <1>3, <1>7, <2>1, <2>2 DEF Framed
<1>9. Holds(m, F, {}, s) /\ ~ m.threw /\ m.next = NodesOf(d) + 1
  <2>1. BufSizes \subseteq Nat \ {0}
    BY DEF DequeParameters
  <2>2. MaxSize[d.buf] \in Nat /\ F.last = NodesOf(d) + MaxSize[d.buf] + 2
    BY <1>3, <1>7
  <2>3. Content(d) \in Seq(F.values)
    BY <1>2, <1>5, <1>7
  <2>4. QED
    BY <1>2, <1>3, <1>7, <1>8, <2>1, <2>2, <2>3, StartHolds
<1>10. \A k \in Nat : k <= Most(x) + 2 => Fresh(m, F, k)
  <2>1. PICK most \in Nat, n \in Nat : most = Most(x) /\ n = NodesOf(d)
    BY <1>3
  <2>2. \A k \in Nat : k <= most + 2 => n + 1 + k <= n + most + 2 + 1
    OBVIOUS
  <2>3. QED
    BY <1>7, <1>9, <2>1, <2>2 DEF Fresh
<1>11. Begun(m, x, F, s, t, from, to, values)
  BY <1>3, <1>4, <1>5, <1>6, <1>7, <1>8, <1>9, <1>10 DEF Begun
<1>12. QED
  BY <1>2, <1>11

\* A call that does what it should has the effect that AbstractSequences allows: all of
\* it, or none, or values and lengths between.
LEMMA EffectAre ==
  ASSUME NEW F, NEW R, NEW r, NEW s, NEW t, NEW strong \in BOOLEAN, NEW w, NEW V, s \in Seq(V), t \in Seq(V),
         F.values = Sequence!Values(s) \union Sequence!Values(t), Outcome(r, F, R, s, t, strong, w)
  PROVE  IF ~ r.threw THEN w = t ELSE IF strong THEN w = s ELSE Sequence!Basic(s, t, w)
<1>1. /\ w \in Seq(F.values)
      /\ ~ r.threw => w = t
      /\ r.threw => \/ w = s
                    \/ /\ ~ strong
                       /\ \/ Len(s) <= Len(w) /\ Len(w) <= Len(t)
                          \/ Len(t) <= Len(w) /\ Len(w) <= Len(s)
  BY DEF Outcome
<1>2. ASSUME r.threw PROVE Sequence!Basic(s, t, w)
  <2>1. Sequence!Values(w) \subseteq Sequence!Values(s) \union Sequence!Values(t)
    BY <1>1 DEF Sequence!Values
  <2>2. Len(w) \in Nat /\ Len(s) \in Nat /\ Len(t) \in Nat
    BY <1>1
  <2>3. /\ Len(w) <= Len(s) \/ Len(w) <= Len(t)
        /\ Len(w) >= Len(s) \/ Len(w) >= Len(t)
    BY <1>1, <1>2, <2>2
  <2>4. QED
    BY <2>1, <2>3 DEF Sequence!Basic
<1>3. QED
  BY <1>1, <1>2
\* What a call makes of the deque it is given
Good(m, x, c) == Does(m, FrameOf(x, c), {}, Content(deque[x]), Target(x, c), c.strong)

\* A call that does what it should keeps the invariant, and is a call on sequences.
LEMMA FinishStep ==
  ASSUME DequeParameters, IInv, NEW x \in Deques, NEW from, NEW to, NEW values,
         Replaceable(x, from, to, values), NEW strong \in BOOLEAN, NEW c, c = Replaces(from, to, values, strong),
         NEW m, Good(m, x, c), Finish(x, m, c)
  PROVE  IInv' /\ Sequence!SequencesNext
<1>1. c.from = from /\ c.to = to /\ c.values = values /\ c.strong = strong
  BY DEF Replaces
<1>2. PICK d, s, t, F : d = deque[x] /\ s = Content(d) /\ t = Target(x, c) /\ F = FrameOf(x, c)
  OBVIOUS
<1>3. /\ Intact(d) /\ s \in Seq(Value) /\ Len(s) = Count(x) /\ Count(x) \in Nat /\ Most(x) \in Nat
      /\ Count(x) <= Most(x)
  BY <1>2, DequesAre
<1>4. Begun(Start(d, 0), x, F, s, t, from, to, values)
  BY <1>2, CallBegins
<1>5. Framed(F) /\ t \in Seq(F.values) /\ s \in Seq(F.values) /\ Spliced(t, s, from, to, values)
  BY <1>4 DEF Begun
<1>6. F.values = Sequence!Values(s) \union Sequence!Values(t) /\ F.buf = d.buf
  BY <1>2 DEF FrameOf, Palette
<1>7. /\ from \in Nat /\ to \in Nat /\ from <= to /\ to <= Count(x) /\ values \in Seq(Value)
      /\ from + Len(values) + (Count(x) - to) <= Most(x)
  BY DEF Replaceable
<1>8. t \in Seq(Value) /\ Len(t) <= Most(x)
  <2>1. Len(t) = from + Len(values) + (Len(s) - to)
    BY <1>5 DEF Spliced
  <2>2. t \in Seq(Value)
    BY <1>1, <1>2, <1>3, <1>7, ReplacedAre DEF Target
  <2>3. QED
    BY <1>3, <1>7, <2>1, <2>2
<1>9. F.values \subseteq Value
  BY <1>3, <1>6, <1>8 DEF Sequence!Values
<1>10. PICK w : Outcome(m, F, {}, s, t, strong, w)
  BY <1>1, <1>2 DEF Good, Does
<1>11. w \in Seq(F.values) /\ Holds(m, F, {}, w)
  BY <1>10 DEF Outcome
<1>12. PICK e : e = Left(d, m)
  OBVIOUS
<1>13. Intact(e) /\ e.buf = d.buf /\ Content(e) = w /\ Size(e) = Len(w) /\ ~ m.bad /\ ~ Lost(m)
  <2>1. BufSizes \subseteq Nat \ {0}
    BY DEF DequeParameters
  <2>2. QED
    BY <1>3, <1>5, <1>6, <1>9, <1>11, <1>12, <2>1, LeftAre
<1>14. Len(w) <= Most(x)
  <2>1. Len(w) <= Len(s) \/ Len(w) <= Len(t)
    BY <1>3, <1>8, <1>10 DEF Outcome
  <2>2. QED
    BY <1>3, <1>8, <1>11, <2>1
<1>15. IF ~ m.threw THEN w = t ELSE IF strong THEN w = s ELSE Sequence!Basic(s, t, w)
  BY <1>3, <1>6, <1>8, <1>10, EffectAre
<1>16. /\ deque' = [deque EXCEPT ![x] = e]
       /\ bad' = (bad \/ m.bad \/ Lost(m))
       /\ call' = [op |-> "replace", on |-> x, turn |-> 1 - call.turn, threw |-> m.threw,
                   from |-> c.from, to |-> c.to, values |-> c.values, strong |-> c.strong]
  <2>1. [deque EXCEPT ![x].map = Nodes(m), ![x].start = m.start, ![x].finish = m.finish] = [deque EXCEPT ![x] = e]
    BY <1>2, <1>12 DEF Left, IInv, DequeType
  <2>2. QED
    BY <2>1 DEF Finish
<1>17. deque'[x] = e /\ \A y \in Deques : y # x => deque'[y] = deque[y]
  BY <1>16 DEF IInv
<1>18. IInv'
  <2>1. deque' \in [Deques -> DequeType]
    BY <1>13, <1>16 DEF IInv, Intact
  <2>2. ASSUME NEW y \in Deques PROVE Intact(deque'[y]) /\ Size(deque'[y]) <= MaxSize[deque'[y].buf]
    <3>1. CASE y = x
      <4>1. Most(x) = MaxSize[e.buf]
        BY <1>2, <1>13 DEF Most
      <4>2. QED
        BY <1>13, <1>14, <1>17, <3>1, <4>1
    <3>2. CASE y # x
      BY <1>17, <3>2 DEF IInv, Count, Most
    <3>3. QED
      BY <3>1, <3>2
  <2>3. \A y \in Deques : deque'[y].buf = deque[y].buf
    BY <1>2, <1>13, <1>17
  <2>4. \A y, z \in Deques : deque'[y].buf = deque'[z].buf
    BY <2>3 DEF IInv
  <2>5. bad' = FALSE
    BY <1>13, <1>16 DEF IInv
  <2>6. QED
    BY <2>1, <2>2, <2>4, <2>5 DEF IInv, Count, Most
<1>19. Sequence!SequencesNext
  <2>1. /\ call'.turn = 1 - call.turn /\ call'.op = "replace" /\ call'.on = x
        /\ call'.threw = m.threw /\ call'.strong = strong
    BY <1>1, <1>16
  <2>2. Sequence!Replaced(s, call') = t
    <3>1. call'.from = c.from /\ call'.to = c.to /\ call'.values = c.values
      BY <1>16
    <3>2. QED
      BY <1>2, <3>1 DEF Target, Sequence!Replaced
  <2>3. Sequence!Effect(call', Content(deque[x]), Content(deque'[x]))
    BY <1>2, <1>13, <1>15, <1>17, <2>1, <2>2 DEF Sequence!Effect
  <2>4. ASSUME NEW y \in Deques
        PROVE  IF y = call'.on
               THEN call'.op = "replace" /\ Sequence!Effect(call', Content(deque[y]), Content(deque'[y]))
               ELSE Content(deque'[y]) = Content(deque[y])
    BY <1>17, <2>1, <2>3
  <2>5. QED
    BY <2>1, <2>4 DEF Sequence!SequencesNext
<1>20. QED
  BY <1>18, <1>19

\* A call does what it should, however many allocations and copies succeed: it runs with
\* enough for all of them, or stops at one of them.
LEMMA CallStep ==
  ASSUME DequeParameters, IInv, NEW x \in Deques, NEW from, NEW to, NEW values,
         Replaceable(x, from, to, values), NEW strong \in BOOLEAN, NEW c, c = Replaces(from, to, values, strong),
         NEW g, \A fuel \in Nat : Good(g[fuel], x, c), \E fuel \in Nat : Finish(x, g[fuel], c)
  PROVE  IInv' /\ Sequence!SequencesNext
<1>1. PICK fuel \in Nat : Finish(x, g[fuel], c)
  OBVIOUS
<1>2. Good(g[fuel], x, c)
  OBVIOUS
<1>3. QED
  BY <1>1, <1>2, FinishStep

\* An argument of a call is a value, whichever it is.
LEMMA ArgumentAre ==
  ASSUME DequeParameters, IInv, NEW x \in Deques, NEW arg \in Arguments(x)
  PROVE  /\ Given(x, arg) \in Value
         /\ arg \notin Value => arg \in Nat /\ arg < Count(x) /\ Given(x, arg) = Content(deque[x])[arg + 1]
<1>1. PICK d : d = deque[x]
  OBVIOUS
<1>2. Intact(d) /\ BufSizes \subseteq Nat \ {0} /\ Count(x) = Size(d)
  BY <1>1 DEF IInv, DequeParameters, Count
<1>3. /\ d.start \in Nat /\ d.finish \in Nat /\ Size(d) \in Nat /\ d.finish = d.start + Size(d)
  BY <1>2, IntactParts
<1>4. /\ Content(d) \in Seq(Value) /\ Len(Content(d)) = Size(d)
      /\ \A j \in 1 .. Size(d) : Content(d)[j] = CellAt(d, d.start + j - 1)
  BY <1>2, ContentAre
<1>5. CASE arg \in Value
  BY <1>5 DEF Given
<1>6. CASE arg \notin Value
  <2>1. arg \in Nat /\ arg < Size(d) /\ arg + 1 \in 1 .. Size(d)
    BY <1>2, <1>3, <1>6 DEF Arguments
  <2>2. Content(d)[arg + 1] = CellAt(d, d.start + (arg + 1) - 1) /\ Content(d)[arg + 1] \in Value
    BY <1>4, <2>1
  <2>3. d.start + (arg + 1) - 1 = d.start + arg
    BY <1>3, <2>1
  <2>4. Given(x, arg) = Content(d)[arg + 1]
    BY <1>1, <1>6, <2>2, <2>3 DEF Given
  <2>5. QED
    BY <1>1, <1>2, <2>1, <2>2, <2>4
<1>7. QED
  BY <1>5, <1>6

\* The call finds it where it begins.
LEMMA ArgumentIs ==
  ASSUME DequeParameters, IInv, NEW x \in Deques, NEW arg \in Arguments(x),
         NEW m, NEW F, Framed(F), Holds(m, F, {}, Content(deque[x]))
  PROVE  Argument(m, arg) = Given(x, arg)
<1>1. CASE arg \in Value
  BY <1>1 DEF Argument, Given
<1>2. CASE arg \notin Value
  <2>1. arg \in Nat /\ arg < Count(x) /\ Given(x, arg) = Content(deque[x])[arg + 1]
    BY <1>2, ArgumentAre
  <2>2. arg < Len(Content(deque[x]))
    BY <2>1, DequesAre
  <2>3. Element(m, arg) = Content(deque[x])[arg + 1]
    BY <2>1, <2>2, ElementIs
  <2>4. QED
    BY <1>2, <2>1, <2>3 DEF Argument
<1>3. QED
  BY <1>1, <1>2

-----------------------------------------------------------------------------
(* Steps on one deque                                                       *)

\* A call of insert, of a value or an element of the deque itself, keeps the invariant, and
\* inserts that value into the sequence.
LEMMA InsertStep ==
  ASSUME DequeParameters, IInv, NEW x \in Deques,
         NEW arg \in Arguments(x), NEW i \in 0 .. Count(x), Count(x) < Most(x), CallInsert(x, i, arg)
  PROVE  IInv' /\ Sequence!SequencesNext
<1>1. PICK v \in Value : v = Given(x, arg)
  BY ArgumentAre
<1>2. PICK n \in Nat, most \in Nat : n = Count(x) /\ most = Most(x) /\ n <= most
  BY DequesAre
<1>3. PICK values, strong, c :
        /\ values = << v >>
        /\ strong = AtEnd(x, i)
        /\ c = Replaces(i, i, values, strong)
  OBVIOUS
<1>4. Replaceable(x, i, i, values) /\ strong \in BOOLEAN
  <2>1. i \in Nat /\ i <= n /\ n + 1 <= most
    BY <1>2
  <2>2. values \in Seq(Value) /\ Len(values) = 1
    BY <1>1, <1>3
  <2>3. i + Len(values) + (n - i) <= most
    BY <2>1, <2>2
  <2>4. QED
    BY <1>2, <1>3, <2>1, <2>2, <2>3 DEF Replaceable, AtEnd
<1>5. PICK g :
        g = [fuel \in Nat |-> InsertOne(Start(deque[x], fuel), i, Argument(Start(deque[x], fuel), arg))]
  OBVIOUS
<1>6. ASSUME NEW fuel \in Nat PROVE Good(g[fuel], x, c)
  <2>1. PICK m, F, s, t : /\ m = Start(deque[x], fuel) /\ F = FrameOf(x, c) /\ s = Content(deque[x])
                          /\ t = Target(x, c)
    OBVIOUS
  <2>2. Begun(m, x, F, s, t, i, i, values)
    BY <1>3, <1>4, <2>1, CallBegins
  <2>3. /\ Framed(F) /\ Holds(m, F, {}, s) /\ ~ m.threw
        /\ s \in Seq(F.values) /\ t \in Seq(F.values) /\ values \in Seq(F.values)
        /\ Spliced(t, s, i, i, values) /\ Len(s) = n
        /\ \A k \in Nat : k <= most + 2 => Fresh(m, F, k)
    BY <1>2, <2>2 DEF Begun
  <2>4. PICK r : r = g[fuel]
    OBVIOUS
  <2>5. Argument(m, arg) = v
    BY <1>1, <2>1, <2>3, ArgumentIs
  <2>6. r = InsertOne(m, i, v)
    BY <1>5, <2>1, <2>4, <2>5
  <2>7. Does(r, F, {}, s, t, strong)
    <3>1. v \in F.values /\ Fresh(m, F, 1)
      <4>1. 1 <= most + 2
        OBVIOUS
      <4>2. values[1] = v /\ 1 \in 1 .. Len(values)
        BY <1>3
      <4>3. v \in F.values
        BY <2>3, <4>2
      <4>4. QED
        BY <2>3, <4>1, <4>3
    <3>2. i \in Nat /\ i <= Len(s) /\ Spliced(t, s, i, i, << v >>)
      BY <1>2, <1>3, <2>3
    <3>3. Does(InsertOne(m, i, v), F, {}, s, t, i \in {0, Len(s)})
      BY <2>3, <3>1, <3>2, InsertOneDoes
    <3>4. QED
      BY <1>2, <1>3, <2>3, <2>6, <3>3 DEF AtEnd
  <2>8. c.strong = strong
    BY <1>3 DEF Replaces
  <2>9. QED
    BY <2>1, <2>4, <2>7, <2>8 DEF Good
<1>7. c = Replaces(i, i, << Given(x, arg) >>,
                     AtEnd(x, i))
  BY <1>2, <1>3, <1>1
<1>8. PICK k \in 0 .. Plenty - InsertOne(Start(deque[x], Plenty), i, Argument(Start(deque[x], Plenty), arg)).fuel :
        Finish(x, InsertOne(Start(deque[x], IF k = 0 THEN Plenty ELSE k - 1), i,
                            Argument(Start(deque[x], IF k = 0 THEN Plenty ELSE k - 1), arg)),
               Replaces(i, i,
                        << Given(x, arg) >>, AtEnd(x, i)))
  BY DEF CallInsert, Call
<1>9. PICK fuel \in Nat : fuel = IF k = 0 THEN Plenty ELSE k - 1
  BY DEF DequeParameters
<1>10. Finish(x, g[fuel], c)
  BY <1>5, <1>7, <1>8, <1>9
<1>11. QED
  BY <1>3, <1>4, <1>6, <1>10, CallStep

\* A call of push_front does so before the first element.
LEMMA PushFrontStep ==
  ASSUME DequeParameters, IInv, NEW x \in Deques,
         NEW arg \in Arguments(x), Count(x) < Most(x), CallPushFront(x, arg)
  PROVE  IInv' /\ Sequence!SequencesNext
<1>1. PICK v \in Value : v = Given(x, arg)
  BY ArgumentAre
<1>2. PICK n \in Nat, most \in Nat : n = Count(x) /\ most = Most(x) /\ n <= most
  BY DequesAre
<1>3. PICK values, strong, c :
        /\ values = << v >>
        /\ strong = TRUE
        /\ c = Replaces(0, 0, values, strong)
  OBVIOUS
<1>4. Replaceable(x, 0, 0, values) /\ strong \in BOOLEAN
  <2>1. 0 \in Nat /\ 0 <= n /\ n + 1 <= most
    BY <1>2
  <2>2. values \in Seq(Value) /\ Len(values) = 1
    BY <1>1, <1>3
  <2>3. 0 + Len(values) + (n - 0) <= most
    BY <2>1, <2>2
  <2>4. QED
    BY <1>2, <1>3, <2>1, <2>2, <2>3 DEF Replaceable, AtEnd
<1>5. PICK g :
        g = [fuel \in Nat |-> PushFront(Start(deque[x], fuel), Argument(Start(deque[x], fuel), arg))]
  OBVIOUS
<1>6. ASSUME NEW fuel \in Nat PROVE Good(g[fuel], x, c)
  <2>1. PICK m, F, s, t : /\ m = Start(deque[x], fuel) /\ F = FrameOf(x, c) /\ s = Content(deque[x])
                          /\ t = Target(x, c)
    OBVIOUS
  <2>2. Begun(m, x, F, s, t, 0, 0, values)
    BY <1>3, <1>4, <2>1, CallBegins
  <2>3. /\ Framed(F) /\ Holds(m, F, {}, s) /\ ~ m.threw
        /\ s \in Seq(F.values) /\ t \in Seq(F.values) /\ values \in Seq(F.values)
        /\ Spliced(t, s, 0, 0, values) /\ Len(s) = n
        /\ \A k \in Nat : k <= most + 2 => Fresh(m, F, k)
    BY <1>2, <2>2 DEF Begun
  <2>4. PICK r : r = g[fuel]
    OBVIOUS
  <2>5. Argument(m, arg) = v
    BY <1>1, <2>1, <2>3, ArgumentIs
  <2>6. r = PushFront(m, v)
    BY <1>5, <2>1, <2>4, <2>5
  <2>7. Does(r, F, {}, s, t, strong)
    <3>1. v \in F.values /\ Fresh(m, F, 1)
      <4>1. 1 <= most + 2
        OBVIOUS
      <4>2. values[1] = v /\ 1 \in 1 .. Len(values)
        BY <1>3
      <4>3. v \in F.values
        BY <2>3, <4>2
      <4>4. QED
        BY <2>3, <4>1, <4>3
    <3>2. 0 \in Nat /\ 0 <= Len(s) /\ Spliced(t, s, 0, 0, << v >>)
      BY <1>2, <1>3, <2>3
    <3>3. 0 = 0 => Does(PushFront(m, v), F, {}, s, t, TRUE)
      BY <2>3, <3>1, <3>2, InsertOneDoes
    <3>4. QED
      BY <1>2, <1>3, <2>3, <2>6, <3>3 DEF AtEnd
  <2>8. c.strong = strong
    BY <1>3 DEF Replaces
  <2>9. QED
    BY <2>1, <2>4, <2>7, <2>8 DEF Good
<1>7. c = Replaces(0, 0, << Given(x, arg) >>,
                     TRUE)
  BY <1>2, <1>3, <1>1
<1>8. PICK k \in 0 .. Plenty - PushFront(Start(deque[x], Plenty), Argument(Start(deque[x], Plenty), arg)).fuel :
        Finish(x, PushFront(Start(deque[x], IF k = 0 THEN Plenty ELSE k - 1),
                            Argument(Start(deque[x], IF k = 0 THEN Plenty ELSE k - 1), arg)),
               Replaces(0, 0,
                        << Given(x, arg) >>, TRUE))
  BY DEF CallPushFront, Call
<1>9. PICK fuel \in Nat : fuel = IF k = 0 THEN Plenty ELSE k - 1
  BY DEF DequeParameters
<1>10. Finish(x, g[fuel], c)
  BY <1>5, <1>7, <1>8, <1>9
<1>11. QED
  BY <1>3, <1>4, <1>6, <1>10, CallStep

\* A call of push_back does so behind the last one.
LEMMA PushBackStep ==
  ASSUME DequeParameters, IInv, NEW x \in Deques,
         NEW arg \in Arguments(x), Count(x) < Most(x), CallPushBack(x, arg)
  PROVE  IInv' /\ Sequence!SequencesNext
<1>1. PICK v \in Value : v = Given(x, arg)
  BY ArgumentAre
<1>2. PICK n \in Nat, most \in Nat : n = Count(x) /\ most = Most(x) /\ n <= most
  BY DequesAre
<1>3. PICK values, strong, c :
        /\ values = << v >>
        /\ strong = TRUE
        /\ c = Replaces(n, n, values, strong)
  OBVIOUS
<1>4. Replaceable(x, n, n, values) /\ strong \in BOOLEAN
  <2>1. n \in Nat /\ n <= n /\ n + 1 <= most
    BY <1>2
  <2>2. values \in Seq(Value) /\ Len(values) = 1
    BY <1>1, <1>3
  <2>3. n + Len(values) + (n - n) <= most
    BY <2>1, <2>2
  <2>4. QED
    BY <1>2, <1>3, <2>1, <2>2, <2>3 DEF Replaceable, AtEnd
<1>5. PICK g :
        g = [fuel \in Nat |-> PushBack(Start(deque[x], fuel), Argument(Start(deque[x], fuel), arg))]
  OBVIOUS
<1>6. ASSUME NEW fuel \in Nat PROVE Good(g[fuel], x, c)
  <2>1. PICK m, F, s, t : /\ m = Start(deque[x], fuel) /\ F = FrameOf(x, c) /\ s = Content(deque[x])
                          /\ t = Target(x, c)
    OBVIOUS
  <2>2. Begun(m, x, F, s, t, n, n, values)
    BY <1>3, <1>4, <2>1, CallBegins
  <2>3. /\ Framed(F) /\ Holds(m, F, {}, s) /\ ~ m.threw
        /\ s \in Seq(F.values) /\ t \in Seq(F.values) /\ values \in Seq(F.values)
        /\ Spliced(t, s, n, n, values) /\ Len(s) = n
        /\ \A k \in Nat : k <= most + 2 => Fresh(m, F, k)
    BY <1>2, <2>2 DEF Begun
  <2>4. PICK r : r = g[fuel]
    OBVIOUS
  <2>5. Argument(m, arg) = v
    BY <1>1, <2>1, <2>3, ArgumentIs
  <2>6. r = PushBack(m, v)
    BY <1>5, <2>1, <2>4, <2>5
  <2>7. Does(r, F, {}, s, t, strong)
    <3>1. v \in F.values /\ Fresh(m, F, 1)
      <4>1. 1 <= most + 2
        OBVIOUS
      <4>2. values[1] = v /\ 1 \in 1 .. Len(values)
        BY <1>3
      <4>3. v \in F.values
        BY <2>3, <4>2
      <4>4. QED
        BY <2>3, <4>1, <4>3
    <3>2. n \in Nat /\ n <= Len(s) /\ Spliced(t, s, n, n, << v >>)
      BY <1>2, <1>3, <2>3
    <3>3. n = Len(s) => Does(PushBack(m, v), F, {}, s, t, TRUE)
      BY <2>3, <3>1, <3>2, InsertOneDoes
    <3>4. QED
      BY <1>2, <1>3, <2>3, <2>6, <3>3 DEF AtEnd
  <2>8. c.strong = strong
    BY <1>3 DEF Replaces
  <2>9. QED
    BY <2>1, <2>4, <2>7, <2>8 DEF Good
<1>7. c = Replaces(Count(x), Count(x), << Given(x, arg) >>,
                     TRUE)
  BY <1>2, <1>3, <1>1
<1>8. PICK k \in 0 .. Plenty - PushBack(Start(deque[x], Plenty), Argument(Start(deque[x], Plenty), arg)).fuel :
        Finish(x, PushBack(Start(deque[x], IF k = 0 THEN Plenty ELSE k - 1),
                           Argument(Start(deque[x], IF k = 0 THEN Plenty ELSE k - 1), arg)),
               Replaces(Count(x), Count(x),
                        << Given(x, arg) >>, TRUE))
  BY DEF CallPushBack, Call
<1>9. PICK fuel \in Nat : fuel = IF k = 0 THEN Plenty ELSE k - 1
  BY DEF DequeParameters
<1>10. Finish(x, g[fuel], c)
  BY <1>5, <1>7, <1>8, <1>9
<1>11. QED
  BY <1>3, <1>4, <1>6, <1>10, CallStep

\* A call of erase keeps the invariant, and removes its element from the sequence.
LEMMA EraseStep ==
  ASSUME DequeParameters, IInv, NEW x \in Deques,
         NEW i \in 0 .. Count(x) - 1, CallErase(x, i)
  PROVE  IInv' /\ Sequence!SequencesNext
<1>2. PICK n \in Nat, most \in Nat : n = Count(x) /\ most = Most(x) /\ n <= most
  BY DequesAre
<1>3. PICK values, strong, c :
        /\ values = << >>
        /\ strong = (i = 0 \/ i + 1 = Count(x))
        /\ c = Replaces(i, i + 1, values, strong)
  OBVIOUS
<1>4. Replaceable(x, i, i + 1, values) /\ strong \in BOOLEAN
  <2>1. i \in Nat /\ i + 1 \in Nat /\ i <= i + 1 /\ i + 1 <= n
    BY <1>2
  <2>2. values \in Seq(Value) /\ Len(values) = 0
    BY <1>3
  <2>3. i + Len(values) + (n - (i + 1)) <= most
    BY <1>2, <2>1, <2>2
  <2>4. QED
    BY <1>2, <1>3, <2>1, <2>2, <2>3 DEF Replaceable
<1>5. PICK g :
        g = [fuel \in Nat |-> EraseOne(Start(deque[x], fuel), i)]
  OBVIOUS
<1>6. ASSUME NEW fuel \in Nat PROVE Good(g[fuel], x, c)
  <2>1. PICK m, F, s, t : /\ m = Start(deque[x], fuel) /\ F = FrameOf(x, c) /\ s = Content(deque[x])
                          /\ t = Target(x, c)
    OBVIOUS
  <2>2. Begun(m, x, F, s, t, i, i + 1, values)
    BY <1>3, <1>4, <2>1, CallBegins
  <2>3. /\ Framed(F) /\ Holds(m, F, {}, s) /\ ~ m.threw
        /\ s \in Seq(F.values) /\ t \in Seq(F.values) /\ values \in Seq(F.values)
        /\ Spliced(t, s, i, i + 1, values) /\ Len(s) = n
        /\ \A k \in Nat : k <= most + 2 => Fresh(m, F, k)
    BY <1>2, <2>2 DEF Begun
  <2>4. PICK r : r = g[fuel]
    OBVIOUS
  <2>6. r = EraseOne(m, i)
    BY <1>5, <2>1, <2>4
  <2>7. Does(r, F, {}, s, t, strong)
    <3>1. PICK to \in Nat : to = i + 1
      BY <1>2
    <3>2. i \in Nat /\ i < Len(s) /\ Spliced(t, s, i, to, << >>)
      BY <1>2, <1>3, <2>3, <3>1
    <3>3. Does(r, F, {}, s, t, i = 0 \/ to = Len(s))
      BY <2>3, <2>6, <3>1, <3>2, EraseOneDoes
    <3>4. QED
      BY <1>2, <1>3, <2>3, <3>1, <3>3
  <2>8. c.strong = strong
    BY <1>3 DEF Replaces
  <2>9. QED
    BY <2>1, <2>4, <2>7, <2>8 DEF Good
<1>7. c = Replaces(i, i + 1, << >>,
                     (i = 0 \/ i + 1 = Count(x)))
  BY <1>2, <1>3
<1>8. PICK k \in 0 .. Plenty - EraseOne(Start(deque[x], Plenty), i).fuel :
        Finish(x, EraseOne(Start(deque[x], IF k = 0 THEN Plenty ELSE k - 1), i),
               Replaces(i, i + 1,
                        << >>, (i = 0 \/ i + 1 = Count(x))))
  BY DEF CallErase, Call
<1>9. PICK fuel \in Nat : fuel = IF k = 0 THEN Plenty ELSE k - 1
  BY DEF DequeParameters
<1>10. Finish(x, g[fuel], c)
  BY <1>5, <1>7, <1>8, <1>9
<1>11. QED
  BY <1>3, <1>4, <1>6, <1>10, CallStep

\* A call of erase(first, last) removes the range.
LEMMA EraseRangeStep ==
  ASSUME DequeParameters, IInv, NEW x \in Deques,
         NEW from \in 0 .. Count(x), NEW to \in 0 .. Count(x), from <= to, CallEraseRange(x, from, to)
  PROVE  IInv' /\ Sequence!SequencesNext
<1>2. PICK n \in Nat, most \in Nat : n = Count(x) /\ most = Most(x) /\ n <= most
  BY DequesAre
<1>3. PICK values, strong, c :
        /\ values = << >>
        /\ strong = (to = Count(x) \/ (from = 0 /\ Count(x) >= to + 2))
        /\ c = Replaces(from, to, values, strong)
  OBVIOUS
<1>4. Replaceable(x, from, to, values) /\ strong \in BOOLEAN
  <2>1. from \in Nat /\ to \in Nat /\ from <= to /\ to <= n
    BY <1>2
  <2>2. values \in Seq(Value) /\ Len(values) = 0
    BY <1>3
  <2>3. from + Len(values) + (n - (to)) <= most
    BY <1>2, <2>1, <2>2
  <2>4. QED
    BY <1>2, <1>3, <2>1, <2>2, <2>3 DEF Replaceable
<1>5. PICK g :
        g = [fuel \in Nat |-> EraseRange(Start(deque[x], fuel), from, to)]
  OBVIOUS
<1>6. ASSUME NEW fuel \in Nat PROVE Good(g[fuel], x, c)
  <2>1. PICK m, F, s, t : /\ m = Start(deque[x], fuel) /\ F = FrameOf(x, c) /\ s = Content(deque[x])
                          /\ t = Target(x, c)
    OBVIOUS
  <2>2. Begun(m, x, F, s, t, from, to, values)
    BY <1>3, <1>4, <2>1, CallBegins
  <2>3. /\ Framed(F) /\ Holds(m, F, {}, s) /\ ~ m.threw
        /\ s \in Seq(F.values) /\ t \in Seq(F.values) /\ values \in Seq(F.values)
        /\ Spliced(t, s, from, to, values) /\ Len(s) = n
        /\ \A k \in Nat : k <= most + 2 => Fresh(m, F, k)
    BY <1>2, <2>2 DEF Begun
  <2>4. PICK r : r = g[fuel]
    OBVIOUS
  <2>6. r = EraseRange(m, from, to)
    BY <1>5, <2>1, <2>4
  <2>7. Does(r, F, {}, s, t, strong)
    <3>1. from \in Nat /\ to \in Nat /\ to <= Len(s) /\ Spliced(t, s, from, to, << >>)
      BY <1>2, <1>3, <2>3
    <3>2. Does(r, F, {}, s, t, to = Len(s) \/ (from = 0 /\ Len(s) >= to + 2))
      BY <2>3, <2>6, <3>1, EraseRangeDoes
    <3>3. QED
      BY <1>2, <1>3, <2>3, <3>2
  <2>8. c.strong = strong
    BY <1>3 DEF Replaces
  <2>9. QED
    BY <2>1, <2>4, <2>7, <2>8 DEF Good
<1>7. c = Replaces(from, to, << >>,
                     (to = Count(x) \/ (from = 0 /\ Count(x) >= to + 2)))
  BY <1>2, <1>3
<1>8. PICK k \in 0 .. Plenty - EraseRange(Start(deque[x], Plenty), from, to).fuel :
        Finish(x, EraseRange(Start(deque[x], IF k = 0 THEN Plenty ELSE k - 1), from, to),
               Replaces(from, to,
                        << >>, (to = Count(x) \/ (from = 0 /\ Count(x) >= to + 2))))
  BY DEF CallEraseRange, Call
<1>9. PICK fuel \in Nat : fuel = IF k = 0 THEN Plenty ELSE k - 1
  BY DEF DequeParameters
<1>10. Finish(x, g[fuel], c)
  BY <1>5, <1>7, <1>8, <1>9
<1>11. QED
  BY <1>3, <1>4, <1>6, <1>10, CallStep

\* A call of clear removes all elements.
LEMMA ClearStep ==
  ASSUME DequeParameters, IInv, NEW x \in Deques, CallClear(x)
  PROVE  IInv' /\ Sequence!SequencesNext
<1>2. PICK n \in Nat, most \in Nat : n = Count(x) /\ most = Most(x) /\ n <= most
  BY DequesAre
<1>3. PICK values, strong, c :
        /\ values = << >>
        /\ strong = TRUE
        /\ c = Replaces(0, n, values, strong)
  OBVIOUS
<1>4. Replaceable(x, 0, n, values) /\ strong \in BOOLEAN
  <2>1. 0 \in Nat /\ n \in Nat /\ 0 <= n /\ n <= n
    BY <1>2
  <2>2. values \in Seq(Value) /\ Len(values) = 0
    BY <1>3
  <2>3. 0 + Len(values) + (n - (n)) <= most
    BY <1>2, <2>1, <2>2
  <2>4. QED
    BY <1>2, <1>3, <2>1, <2>2, <2>3 DEF Replaceable
<1>5. PICK g :
        g = [fuel \in Nat |-> Clear(Start(deque[x], fuel))]
  OBVIOUS
<1>6. ASSUME NEW fuel \in Nat PROVE Good(g[fuel], x, c)
  <2>1. PICK m, F, s, t : /\ m = Start(deque[x], fuel) /\ F = FrameOf(x, c) /\ s = Content(deque[x])
                          /\ t = Target(x, c)
    OBVIOUS
  <2>2. Begun(m, x, F, s, t, 0, n, values)
    BY <1>3, <1>4, <2>1, CallBegins
  <2>3. /\ Framed(F) /\ Holds(m, F, {}, s) /\ ~ m.threw
        /\ s \in Seq(F.values) /\ t \in Seq(F.values) /\ values \in Seq(F.values)
        /\ Spliced(t, s, 0, n, values) /\ Len(s) = n
        /\ \A k \in Nat : k <= most + 2 => Fresh(m, F, k)
    BY <1>2, <2>2 DEF Begun
  <2>4. PICK r : r = g[fuel]
    OBVIOUS
  <2>6. r = Clear(m)
    BY <1>5, <2>1, <2>4
  <2>7. Does(r, F, {}, s, t, strong)
    <3>1. Spliced(t, s, 0, Len(s), << >>)
      BY <1>3, <2>3
    <3>2. QED
      BY <1>3, <2>3, <2>6, <3>1, ClearDoes
  <2>8. c.strong = strong
    BY <1>3 DEF Replaces
  <2>9. QED
    BY <2>1, <2>4, <2>7, <2>8 DEF Good
<1>7. c = Replaces(0, Count(x), << >>,
                     TRUE)
  BY <1>2, <1>3
<1>8. PICK k \in 0 .. Plenty - Clear(Start(deque[x], Plenty)).fuel :
        Finish(x, Clear(Start(deque[x], IF k = 0 THEN Plenty ELSE k - 1)),
               Replaces(0, Count(x),
                        << >>, TRUE))
  BY DEF CallClear, Call
<1>9. PICK fuel \in Nat : fuel = IF k = 0 THEN Plenty ELSE k - 1
  BY DEF DequeParameters
<1>10. Finish(x, g[fuel], c)
  BY <1>5, <1>7, <1>8, <1>9
<1>11. QED
  BY <1>3, <1>4, <1>6, <1>10, CallStep

\* A call of pop_front removes the first element.
LEMMA PopFrontStep ==
  ASSUME DequeParameters, IInv, NEW x \in Deques, CallPopFront(x)
  PROVE  IInv' /\ Sequence!SequencesNext
<1>2. PICK n \in Nat, most \in Nat : n = Count(x) /\ most = Most(x) /\ n <= most
  BY DequesAre
<1>3. PICK values, strong, c :
        /\ values = << >>
        /\ strong = TRUE
        /\ c = Replaces(0, 1, values, strong)
  OBVIOUS
<1>0. 1 <= n
  BY <1>2 DEF CallPopFront
<1>4. Replaceable(x, 0, 1, values) /\ strong \in BOOLEAN
  <2>1. 0 \in Nat /\ 1 \in Nat /\ 0 <= 1 /\ 1 <= n
    BY <1>2, <1>0
  <2>2. values \in Seq(Value) /\ Len(values) = 0
    BY <1>3
  <2>3. 0 + Len(values) + (n - (1)) <= most
    BY <1>2, <2>1, <2>2
  <2>4. QED
    BY <1>2, <1>3, <2>1, <2>2, <2>3 DEF Replaceable
<1>5. PICK g :
        g = [fuel \in Nat |-> PopFront(Start(deque[x], fuel))]
  OBVIOUS
<1>6. ASSUME NEW fuel \in Nat PROVE Good(g[fuel], x, c)
  <2>1. PICK m, F, s, t : /\ m = Start(deque[x], fuel) /\ F = FrameOf(x, c) /\ s = Content(deque[x])
                          /\ t = Target(x, c)
    OBVIOUS
  <2>2. Begun(m, x, F, s, t, 0, 1, values)
    BY <1>3, <1>4, <2>1, CallBegins
  <2>3. /\ Framed(F) /\ Holds(m, F, {}, s) /\ ~ m.threw
        /\ s \in Seq(F.values) /\ t \in Seq(F.values) /\ values \in Seq(F.values)
        /\ Spliced(t, s, 0, 1, values) /\ Len(s) = n
        /\ \A k \in Nat : k <= most + 2 => Fresh(m, F, k)
    BY <1>2, <2>2 DEF Begun
  <2>4. PICK r : r = g[fuel]
    OBVIOUS
  <2>6. r = PopFront(m)
    BY <1>5, <2>1, <2>4
  <2>7. Does(r, F, {}, s, t, strong)
    <3>1. Spliced(t, s, 0, 1, << >>)
      BY <1>3, <2>3
    <3>2. Spliced(t, s, 0, 1, << >>) => Does(PopFront(m), F, {}, s, t, TRUE)
      BY <1>0, <2>3, PopsDo
    <3>3. QED
      BY <1>3, <2>6, <3>1, <3>2
  <2>8. c.strong = strong
    BY <1>3 DEF Replaces
  <2>9. QED
    BY <2>1, <2>4, <2>7, <2>8 DEF Good
<1>7. c = Replaces(0, 1, << >>,
                     TRUE)
  BY <1>2, <1>3
<1>8. PICK k \in 0 .. Plenty - PopFront(Start(deque[x], Plenty)).fuel :
        Finish(x, PopFront(Start(deque[x], IF k = 0 THEN Plenty ELSE k - 1)),
               Replaces(0, 1,
                        << >>, TRUE))
  BY DEF CallPopFront, Call
<1>9. PICK fuel \in Nat : fuel = IF k = 0 THEN Plenty ELSE k - 1
  BY DEF DequeParameters
<1>10. Finish(x, g[fuel], c)
  BY <1>5, <1>7, <1>8, <1>9
<1>11. QED
  BY <1>3, <1>4, <1>6, <1>10, CallStep

\* A call of pop_back removes the last element.
LEMMA PopBackStep ==
  ASSUME DequeParameters, IInv, NEW x \in Deques, CallPopBack(x)
  PROVE  IInv' /\ Sequence!SequencesNext
<1>2. PICK n \in Nat, most \in Nat : n = Count(x) /\ most = Most(x) /\ n <= most
  BY DequesAre
<1>3. PICK values, strong, c :
        /\ values = << >>
        /\ strong = TRUE
        /\ c = Replaces(n - 1, n, values, strong)
  OBVIOUS
<1>0. 1 <= n
  BY <1>2 DEF CallPopBack
<1>4. Replaceable(x, n - 1, n, values) /\ strong \in BOOLEAN
  <2>1. n - 1 \in Nat /\ n \in Nat /\ n - 1 <= n /\ n <= n
    BY <1>2, <1>0
  <2>2. values \in Seq(Value) /\ Len(values) = 0
    BY <1>3
  <2>3. n - 1 + Len(values) + (n - (n)) <= most
    BY <1>2, <2>1, <2>2
  <2>4. QED
    BY <1>2, <1>3, <2>1, <2>2, <2>3 DEF Replaceable
<1>5. PICK g :
        g = [fuel \in Nat |-> PopBack(Start(deque[x], fuel))]
  OBVIOUS
<1>6. ASSUME NEW fuel \in Nat PROVE Good(g[fuel], x, c)
  <2>1. PICK m, F, s, t : /\ m = Start(deque[x], fuel) /\ F = FrameOf(x, c) /\ s = Content(deque[x])
                          /\ t = Target(x, c)
    OBVIOUS
  <2>2. Begun(m, x, F, s, t, n - 1, n, values)
    BY <1>3, <1>4, <2>1, CallBegins
  <2>3. /\ Framed(F) /\ Holds(m, F, {}, s) /\ ~ m.threw
        /\ s \in Seq(F.values) /\ t \in Seq(F.values) /\ values \in Seq(F.values)
        /\ Spliced(t, s, n - 1, n, values) /\ Len(s) = n
        /\ \A k \in Nat : k <= most + 2 => Fresh(m, F, k)
    BY <1>2, <2>2 DEF Begun
  <2>4. PICK r : r = g[fuel]
    OBVIOUS
  <2>6. r = PopBack(m)
    BY <1>5, <2>1, <2>4
  <2>7. Does(r, F, {}, s, t, strong)
    <3>1. PICK k \in Nat : k = n - 1 /\ n = k + 1
      BY <1>2, <1>0
    <3>2. Spliced(t, s, k, n, << >>)
      BY <1>3, <2>3, <3>1
    <3>3. \A j \in Nat : n = j + 1 /\ Spliced(t, s, j, n, << >>) => Does(PopBack(m), F, {}, s, t, TRUE)
      BY <1>2, <1>0, <2>3, PopsDo
    <3>4. QED
      BY <1>3, <2>6, <3>1, <3>2, <3>3
  <2>8. c.strong = strong
    BY <1>3 DEF Replaces
  <2>9. QED
    BY <2>1, <2>4, <2>7, <2>8 DEF Good
<1>7. c = Replaces(Count(x) - 1, Count(x), << >>,
                     TRUE)
  BY <1>2, <1>3
<1>8. PICK k \in 0 .. Plenty - PopBack(Start(deque[x], Plenty)).fuel :
        Finish(x, PopBack(Start(deque[x], IF k = 0 THEN Plenty ELSE k - 1)),
               Replaces(Count(x) - 1, Count(x),
                        << >>, TRUE))
  BY DEF CallPopBack, Call
<1>9. PICK fuel \in Nat : fuel = IF k = 0 THEN Plenty ELSE k - 1
  BY DEF DequeParameters
<1>10. Finish(x, g[fuel], c)
  BY <1>5, <1>7, <1>8, <1>9
<1>11. QED
  BY <1>3, <1>4, <1>6, <1>10, CallStep

\* A call of insert(pos, n, x) keeps the invariant, and inserts n times x.
LEMMA InsertFillStep ==
  ASSUME DequeParameters, IInv, NEW x \in Deques,
         NEW value \in Value, NEW i \in 0 .. Count(x), NEW times \in 0 .. Most(x) - Count(x),
         CallInsertFill(x, i, times, value)
  PROVE  IInv' /\ Sequence!SequencesNext
<1>2. PICK n \in Nat, most \in Nat : n = Count(x) /\ most = Most(x) /\ n <= most
  BY DequesAre
<1>3. PICK values, strong, c :
        /\ values = Times(times, Given(x, value))
        /\ strong = AtEnd(x, i)
        /\ c = Replaces(i, i, values, strong)
  OBVIOUS
<1>0. Given(x, value) = value /\ \A m : Argument(m, value) = value
  BY DEF Given, Argument
<1>4. Replaceable(x, i, i, values) /\ strong \in BOOLEAN
  <2>1. i \in Nat /\ i <= n
    BY <1>2
  <2>2. values \in Seq(Value) /\ n + Len(values) <= most
    BY <1>2, <1>3, <1>0 DEF Times
  <2>3. i + Len(values) + (n - i) <= most
    BY <1>2, <2>1, <2>2
  <2>4. QED
    BY <1>2, <1>3, <2>1, <2>2, <2>3 DEF Replaceable, AtEnd
<1>5. PICK g :
        g = [fuel \in Nat |-> InsertFill(Start(deque[x], fuel), i, times, Argument(Start(deque[x], fuel), value))]
  OBVIOUS
<1>6. ASSUME NEW fuel \in Nat PROVE Good(g[fuel], x, c)
  <2>1. PICK m, F, s, t : /\ m = Start(deque[x], fuel) /\ F = FrameOf(x, c) /\ s = Content(deque[x])
                          /\ t = Target(x, c)
    OBVIOUS
  <2>2. Begun(m, x, F, s, t, i, i, values)
    BY <1>3, <1>4, <2>1, CallBegins
  <2>3. /\ Framed(F) /\ Holds(m, F, {}, s) /\ ~ m.threw
        /\ s \in Seq(F.values) /\ t \in Seq(F.values) /\ values \in Seq(F.values)
        /\ Spliced(t, s, i, i, values) /\ Len(s) = n
        /\ \A k \in Nat : k <= most + 2 => Fresh(m, F, k)
    BY <1>2, <2>2 DEF Begun
  <2>4. PICK r : r = g[fuel]
    OBVIOUS
  <2>6. r = InsertFill(m, i, times, Argument(m, value))
    BY <1>5, <2>1, <2>4
  <2>7. Does(r, F, {}, s, t, strong)
    <3>1. Len(values) \in Nat /\ Len(values) <= most
      BY <1>2, <1>4 DEF Replaceable
    <3>2. times \in Nat /\ values = Times(times, value) /\ Fresh(m, F, Len(values))
      BY <1>0, <1>2, <1>3, <2>3, <3>1
    <3>3. i \in Nat /\ i <= Len(s)
      BY <1>2, <2>3
    <3>4. r = InsertFill(m, i, times, value)
      BY <1>0, <2>6
    <3>5. Does(r, F, {}, s, t, i \in {0, Len(s)})
      BY <2>3, <3>2, <3>3, <3>4, InsertFillDoes
    <3>6. QED
      BY <1>2, <1>3, <2>3, <3>5 DEF AtEnd
  <2>8. c.strong = strong
    BY <1>3 DEF Replaces
  <2>9. QED
    BY <2>1, <2>4, <2>7, <2>8 DEF Good
<1>7. c = Replaces(i, i, Times(times, Given(x, value)),
                     AtEnd(x, i))
  BY <1>2, <1>3
<1>8. PICK k \in 0 .. Plenty - InsertFill(Start(deque[x], Plenty), i, times,
                                         Argument(Start(deque[x], Plenty), value)).fuel :
        Finish(x, InsertFill(Start(deque[x], IF k = 0 THEN Plenty ELSE k - 1), i, times,
                             Argument(Start(deque[x], IF k = 0 THEN Plenty ELSE k - 1), value)),
               Replaces(i, i,
                        Times(times, Given(x, value)), AtEnd(x, i)))
  BY DEF CallInsertFill, Call
<1>9. PICK fuel \in Nat : fuel = IF k = 0 THEN Plenty ELSE k - 1
  BY DEF DequeParameters
<1>10. Finish(x, g[fuel], c)
  BY <1>5, <1>7, <1>8, <1>9
<1>11. QED
  BY <1>3, <1>4, <1>6, <1>10, CallStep

\* A call of insert(pos, first, last) keeps the invariant, and inserts the range.
LEMMA InsertRangeStep ==
  ASSUME DequeParameters, IInv, NEW x \in Deques,
         NEW range \in Ranges, NEW i \in 0 .. Count(x), Count(x) + Len(range) <= Most(x), CallInsertRange(x, i, range)
  PROVE  IInv' /\ Sequence!SequencesNext
<1>2. PICK n \in Nat, most \in Nat : n = Count(x) /\ most = Most(x) /\ n <= most
  BY DequesAre
<1>3. PICK values, strong, c :
        /\ values = range
        /\ strong = AtEnd(x, i)
        /\ c = Replaces(i, i, values, strong)
  OBVIOUS
<1>0. range \in Seq(Value)
  BY DEF DequeParameters
<1>4. Replaceable(x, i, i, values) /\ strong \in BOOLEAN
  <2>1. i \in Nat /\ i <= n
    BY <1>2
  <2>2. values \in Seq(Value) /\ n + Len(values) <= most
    BY <1>2, <1>3, <1>0
  <2>3. i + Len(values) + (n - i) <= most
    BY <1>2, <2>1, <2>2
  <2>4. QED
    BY <1>2, <1>3, <2>1, <2>2, <2>3 DEF Replaceable, AtEnd
<1>5. PICK g :
        g = [fuel \in Nat |-> InsertRange(Start(deque[x], fuel), i, range)]
  OBVIOUS
<1>6. ASSUME NEW fuel \in Nat PROVE Good(g[fuel], x, c)
  <2>1. PICK m, F, s, t : /\ m = Start(deque[x], fuel) /\ F = FrameOf(x, c) /\ s = Content(deque[x])
                          /\ t = Target(x, c)
    OBVIOUS
  <2>2. Begun(m, x, F, s, t, i, i, values)
    BY <1>3, <1>4, <2>1, CallBegins
  <2>3. /\ Framed(F) /\ Holds(m, F, {}, s) /\ ~ m.threw
        /\ s \in Seq(F.values) /\ t \in Seq(F.values) /\ values \in Seq(F.values)
        /\ Spliced(t, s, i, i, values) /\ Len(s) = n
        /\ \A k \in Nat : k <= most + 2 => Fresh(m, F, k)
    BY <1>2, <2>2 DEF Begun
  <2>4. PICK r : r = g[fuel]
    OBVIOUS
  <2>6. r = InsertRange(m, i, range)
    BY <1>5, <2>1, <2>4
  <2>7. Does(r, F, {}, s, t, strong)
    <3>1. Len(values) \in Nat /\ Len(values) <= most
      BY <1>2, <1>4 DEF Replaceable
    <3>2. Fresh(m, F, Len(values)) /\ r = InsertRange(m, i, values)
      BY <1>3, <2>3, <2>6, <3>1
    <3>3. i \in Nat /\ i <= Len(s)
      BY <1>2, <2>3
    <3>4. Does(r, F, {}, s, t, i \in {0, Len(s)})
      BY <2>3, <3>2, <3>3, InsertRangeDoes
    <3>5. QED
      BY <1>2, <1>3, <2>3, <3>4 DEF AtEnd
  <2>8. c.strong = strong
    BY <1>3 DEF Replaces
  <2>9. QED
    BY <2>1, <2>4, <2>7, <2>8 DEF Good
<1>7. c = Replaces(i, i, range,
                     AtEnd(x, i))
  BY <1>2, <1>3
<1>8. PICK k \in 0 .. Plenty - InsertRange(Start(deque[x], Plenty), i, range).fuel :
        Finish(x, InsertRange(Start(deque[x], IF k = 0 THEN Plenty ELSE k - 1), i, range),
               Replaces(i, i,
                        range, AtEnd(x, i)))
  BY DEF CallInsertRange, Call
<1>9. PICK fuel \in Nat : fuel = IF k = 0 THEN Plenty ELSE k - 1
  BY DEF DequeParameters
<1>10. Finish(x, g[fuel], c)
  BY <1>5, <1>7, <1>8, <1>9
<1>11. QED
  BY <1>3, <1>4, <1>6, <1>10, CallStep

\* A call of operator= or assign(first, last) keeps the invariant, and leaves the range.
LEMMA AssignStep ==
  ASSUME DequeParameters, IInv, NEW x \in Deques,
         NEW y \in Deques, CallAssign(x, y)
  PROVE  IInv' /\ Sequence!SequencesNext
<1>2. PICK n \in Nat, most \in Nat : n = Count(x) /\ most = Most(x) /\ n <= most
  BY DequesAre
<1>3. PICK values, strong, c :
        /\ values = Content(deque[y])
        /\ strong = FALSE
        /\ c = Replaces(0, n, values, strong)
  OBVIOUS
<1>0. Content(deque[y]) \in Seq(Value) /\ Len(Content(deque[y])) <= most
  <2>1. Most(y) = Most(x)
    BY DEF IInv, Most
  <2>2. QED
    BY <1>2, <2>1, DequesAre
<1>4. Replaceable(x, 0, n, values) /\ strong \in BOOLEAN
  <2>1. values \in Seq(Value) /\ Len(values) <= most
    BY <1>2, <1>3, <1>0
  <2>2. 0 + Len(values) + (n - n) <= most
    BY <1>2, <2>1
  <2>3. strong \in BOOLEAN
    BY <1>3
  <2>4. QED
    BY <1>2, <1>3, <2>1, <2>2, <2>3 DEF Replaceable
<1>5. PICK g :
        g = [fuel \in Nat |-> AssignRange(Start(deque[x], fuel), Content(deque[y]))]
  OBVIOUS
<1>6. ASSUME NEW fuel \in Nat PROVE Good(g[fuel], x, c)
  <2>1. PICK m, F, s, t : /\ m = Start(deque[x], fuel) /\ F = FrameOf(x, c) /\ s = Content(deque[x])
                          /\ t = Target(x, c)
    OBVIOUS
  <2>2. Begun(m, x, F, s, t, 0, n, values)
    BY <1>3, <1>4, <2>1, CallBegins
  <2>3. /\ Framed(F) /\ Holds(m, F, {}, s) /\ ~ m.threw
        /\ s \in Seq(F.values) /\ t \in Seq(F.values) /\ values \in Seq(F.values)
        /\ Spliced(t, s, 0, n, values) /\ Len(s) = n
        /\ \A k \in Nat : k <= most + 2 => Fresh(m, F, k)
    BY <1>2, <2>2 DEF Begun
  <2>4. PICK r : r = g[fuel]
    OBVIOUS
  <2>6. r = AssignRange(m, Content(deque[y]))
    BY <1>5, <2>1, <2>4
  <2>7. Does(r, F, {}, s, t, strong)
    <3>1. Len(values) \in Nat /\ Len(values) <= most
      BY <1>0, <1>3
    <3>2. Fresh(m, F, Len(values)) /\ r = AssignRange(m, values)
      BY <1>3, <2>3, <2>6, <3>1
    <3>3. Spliced(t, s, 0, Len(s), values)
      BY <2>3
    <3>4. t = values
      BY <2>3, <3>3, SplicedAll
    <3>5. Does(r, F, {}, s, values, FALSE)
      BY <2>3, <3>2, AssignRangeDoes
    <3>6. QED
      BY <1>3, <3>4, <3>5
  <2>8. c.strong = strong
    BY <1>3 DEF Replaces
  <2>9. QED
    BY <2>1, <2>4, <2>7, <2>8 DEF Good
<1>7. c = Replaces(0, Count(x), Content(deque[y]),
                     FALSE)
  BY <1>2, <1>3
<1>8. PICK k \in 0 .. Plenty - AssignRange(Start(deque[x], Plenty), Content(deque[y])).fuel :
        Finish(x, AssignRange(Start(deque[x], IF k = 0 THEN Plenty ELSE k - 1), Content(deque[y])),
               Replaces(0, Count(x),
                        Content(deque[y]), FALSE))
  BY DEF CallAssign, Call
<1>9. PICK fuel \in Nat : fuel = IF k = 0 THEN Plenty ELSE k - 1
  BY DEF DequeParameters
<1>10. Finish(x, g[fuel], c)
  BY <1>5, <1>7, <1>8, <1>9
<1>11. QED
  BY <1>3, <1>4, <1>6, <1>10, CallStep

\* A call of a constructor or of assign through swap leaves the range that it is given.
LEMMA RebuildStep ==
  ASSUME DequeParameters, IInv, NEW x \in Deques,
         NEW range \in Ranges, CallRebuild(x, range)
  PROVE  IInv' /\ Sequence!SequencesNext
<1>2. PICK n \in Nat, most \in Nat : n = Count(x) /\ most = Most(x) /\ n <= most
  BY DequesAre
<1>3. PICK values, strong, c :
        /\ values = range
        /\ strong = TRUE
        /\ c = Replaces(0, n, values, strong)
  OBVIOUS
<1>0. range \in Seq(Value) /\ Len(range) <= most
  <2>1. deque[x].buf \in BufSizes
    BY IntactParts DEF DequeParameters, IInv
  <2>2. QED
    BY <1>2, <2>1 DEF DequeParameters, Most
<1>4. Replaceable(x, 0, n, values) /\ strong \in BOOLEAN
  <2>1. values \in Seq(Value) /\ Len(values) <= most
    BY <1>2, <1>3, <1>0
  <2>2. 0 + Len(values) + (n - n) <= most
    BY <1>2, <2>1
  <2>3. strong \in BOOLEAN
    BY <1>3
  <2>4. QED
    BY <1>2, <1>3, <2>1, <2>2, <2>3 DEF Replaceable
<1>5. PICK g :
        g = [fuel \in Nat |-> Rebuild(Start(deque[x], fuel), range)]
  OBVIOUS
<1>6. ASSUME NEW fuel \in Nat PROVE Good(g[fuel], x, c)
  <2>1. PICK m, F, s, t : /\ m = Start(deque[x], fuel) /\ F = FrameOf(x, c) /\ s = Content(deque[x])
                          /\ t = Target(x, c)
    OBVIOUS
  <2>2. Begun(m, x, F, s, t, 0, n, values)
    BY <1>3, <1>4, <2>1, CallBegins
  <2>3. /\ Framed(F) /\ Holds(m, F, {}, s) /\ ~ m.threw
        /\ s \in Seq(F.values) /\ t \in Seq(F.values) /\ values \in Seq(F.values)
        /\ Spliced(t, s, 0, n, values) /\ Len(s) = n
        /\ \A k \in Nat : k <= most + 2 => Fresh(m, F, k)
    BY <1>2, <2>2 DEF Begun
  <2>4. PICK r : r = g[fuel]
    OBVIOUS
  <2>6. r = Rebuild(m, range)
    BY <1>5, <2>1, <2>4
  <2>7. Does(r, F, {}, s, t, strong)
    <3>1. Len(values) + 1 \in Nat /\ Len(values) + 1 <= most + 2
      BY <1>0, <1>2, <1>3
    <3>2. Fresh(m, F, Len(values) + 1) /\ r = Rebuild(m, values)
      BY <1>3, <2>3, <2>6, <3>1
    <3>3. Spliced(t, s, 0, Len(s), values)
      BY <2>3
    <3>4. t = values
      BY <2>3, <3>3, SplicedAll
    <3>5. Does(r, F, {}, s, values, TRUE)
      <4>1. InitialMapSize \in Nat
        BY DEF DequeParameters
      <4>2. QED
        BY <2>3, <3>2, <4>1, RebuildDoes
    <3>6. QED
      BY <1>3, <3>4, <3>5
  <2>8. c.strong = strong
    BY <1>3 DEF Replaces
  <2>9. QED
    BY <2>1, <2>4, <2>7, <2>8 DEF Good
<1>7. c = Replaces(0, Count(x), range,
                     TRUE)
  BY <1>2, <1>3
<1>8. PICK k \in 0 .. Plenty - Rebuild(Start(deque[x], Plenty), range).fuel :
        Finish(x, Rebuild(Start(deque[x], IF k = 0 THEN Plenty ELSE k - 1), range),
               Replaces(0, Count(x),
                        range, TRUE))
  BY DEF CallRebuild, Call
<1>9. PICK fuel \in Nat : fuel = IF k = 0 THEN Plenty ELSE k - 1
  BY DEF DequeParameters
<1>10. Finish(x, g[fuel], c)
  BY <1>5, <1>7, <1>8, <1>9
<1>11. QED
  BY <1>3, <1>4, <1>6, <1>10, CallStep

\* A call of assign(n, x), with x still there for the first n elements, leaves n times x.
LEMMA AssignFillStep ==
  ASSUME DequeParameters, IInv, NEW x \in Deques,
         NEW arg \in Arguments(x), NEW times \in 0 .. Most(x), Survives(times, arg), CallAssignFill(x, times, arg)
  PROVE  IInv' /\ Sequence!SequencesNext
<1>2. PICK n \in Nat, most \in Nat : n = Count(x) /\ most = Most(x) /\ n <= most
  BY DequesAre
<1>3. PICK values, strong, c :
        /\ values = Times(times, Given(x, arg))
        /\ strong = FALSE
        /\ c = Replaces(0, n, values, strong)
  OBVIOUS
<1>0. Given(x, arg) \in Value /\ times \in Nat
  BY <1>2, ArgumentAre
<1>4. Replaceable(x, 0, n, values) /\ strong \in BOOLEAN
  <2>1. values \in Seq(Value) /\ Len(values) <= most
    BY <1>2, <1>3, <1>0 DEF Times
  <2>2. 0 + Len(values) + (n - n) <= most
    BY <1>2, <2>1
  <2>3. strong \in BOOLEAN
    BY <1>3
  <2>4. QED
    BY <1>2, <1>3, <2>1, <2>2, <2>3 DEF Replaceable
<1>5. PICK g :
        g = [fuel \in Nat |-> AssignFill(Start(deque[x], fuel), times, arg)]
  OBVIOUS
<1>6. ASSUME NEW fuel \in Nat PROVE Good(g[fuel], x, c)
  <2>1. PICK m, F, s, t : /\ m = Start(deque[x], fuel) /\ F = FrameOf(x, c) /\ s = Content(deque[x])
                          /\ t = Target(x, c)
    OBVIOUS
  <2>2. Begun(m, x, F, s, t, 0, n, values)
    BY <1>3, <1>4, <2>1, CallBegins
  <2>3. /\ Framed(F) /\ Holds(m, F, {}, s) /\ ~ m.threw
        /\ s \in Seq(F.values) /\ t \in Seq(F.values) /\ values \in Seq(F.values)
        /\ Spliced(t, s, 0, n, values) /\ Len(s) = n
        /\ \A k \in Nat : k <= most + 2 => Fresh(m, F, k)
    BY <1>2, <2>2 DEF Begun
  <2>4. PICK r : r = g[fuel]
    OBVIOUS
  <2>6. r = AssignFill(m, times, arg)
    BY <1>5, <2>1, <2>4
  <2>7. Does(r, F, {}, s, t, strong)
    <3>1. PICK v : v = Given(x, arg) /\ v \in Value
      BY <1>0
    <3>2. values = Times(times, v) /\ Len(values) = times
      BY <1>0, <1>3, <3>1 DEF Times
    <3>3. Fresh(m, F, times)
      BY <1>0, <1>2, <2>3
    <3>4. times > 0 => v \in F.values
      <4>1. times > 0 => 1 \in 1 .. Len(values) /\ values[1] = v
        BY <1>0, <3>2 DEF Times
      <4>2. QED
        BY <2>3, <4>1
    <3>5. Survived(arg, s, times, v)
      <4>1. CASE arg \in Value
        BY <3>1, <4>1 DEF Survived, Given
      <4>2. CASE arg \notin Value
        <5>1. arg \in Nat /\ arg < Count(x) /\ v = s[arg + 1]
          BY <2>1, <3>1, <4>2, ArgumentAre
        <5>2. arg < times
          BY <1>0, <4>2 DEF Survives
        <5>3. QED
          BY <1>2, <2>3, <4>2, <5>1, <5>2 DEF Survived
      <4>3. QED
        BY <4>1, <4>2
    <3>6. Spliced(t, s, 0, Len(s), values)
      BY <2>3
    <3>7. t = values
      BY <2>3, <3>6, SplicedAll
    <3>8. Does(r, F, {}, s, Times(times, v), FALSE)
      BY <1>0, <2>3, <2>6, <3>3, <3>4, <3>5, AssignFillDoes
    <3>9. QED
      BY <1>3, <3>2, <3>7, <3>8
  <2>8. c.strong = strong
    BY <1>3 DEF Replaces
  <2>9. QED
    BY <2>1, <2>4, <2>7, <2>8 DEF Good
<1>7. c = Replaces(0, Count(x), Times(times, Given(x, arg)),
                     FALSE)
  BY <1>2, <1>3
<1>8. PICK k \in 0 .. Plenty - AssignFill(Start(deque[x], Plenty), times, arg).fuel :
        Finish(x, AssignFill(Start(deque[x], IF k = 0 THEN Plenty ELSE k - 1), times, arg),
               Replaces(0, Count(x),
                        Times(times, Given(x, arg)), FALSE))
  BY DEF CallAssignFill, Call
<1>9. PICK fuel \in Nat : fuel = IF k = 0 THEN Plenty ELSE k - 1
  BY DEF DequeParameters
<1>10. Finish(x, g[fuel], c)
  BY <1>5, <1>7, <1>8, <1>9
<1>11. QED
  BY <1>3, <1>4, <1>6, <1>10, CallStep

\* A call of resize keeps the invariant, and erases or appends at the end.
LEMMA ResizeStep ==
  ASSUME DequeParameters, IInv, NEW x \in Deques,
         NEW value \in Value, NEW length \in 0 .. Most(x), CallResize(x, length, value)
  PROVE  IInv' /\ Sequence!SequencesNext
<1>2. PICK n \in Nat, most \in Nat : n = Count(x) /\ most = Most(x) /\ n <= most
  BY DequesAre
<1>3. PICK values, strong, c :
        /\ values = (IF length < Count(x) THEN << >> ELSE Times(length - Count(x), Given(x, value)))
        /\ strong = TRUE
        /\ c = Replaces(Smaller(length, Count(x)), n, values, strong)
  OBVIOUS
<1>0. /\ Given(x, value) = value /\ \A m : Argument(m, value) = value
      /\ length \in Nat /\ length <= most /\ Smaller(length, Count(x)) = IF length < n THEN length ELSE n
  <2>1. \A m : Argument(m, value) = value
    BY DEF Argument
  <2>2. length \in Nat /\ length <= most
    BY <1>2
  <2>3. Smaller(length, Count(x)) = IF length < n THEN length ELSE n
    BY <1>2, <2>2 DEF Smaller
  <2>4. QED
    BY <2>1, <2>2, <2>3 DEF Given
<1>4. Replaceable(x, Smaller(length, Count(x)), n, values) /\ strong \in BOOLEAN
  <2>1. CASE length < n
    <3>1. values \in Seq(Value) /\ Len(values) = 0
      BY <1>2, <1>3, <2>1
    <3>2. length + Len(values) + (n - n) <= most
      BY <1>0, <1>2, <3>1
    <3>3. QED
      BY <1>0, <1>2, <1>3, <2>1, <3>1, <3>2 DEF Replaceable
  <2>2. CASE ~ (length < n)
    <3>1. PICK k \in Nat : k = length - n /\ length = n + k
      BY <1>0, <2>2
    <3>2. values = Times(k, value)
      BY <1>0, <1>2, <1>3, <2>2, <3>1
    <3>3. values \in Seq(Value) /\ Len(values) = k
      BY <3>2 DEF Times
    <3>4. n + Len(values) + (n - n) <= most
      BY <1>0, <3>1, <3>3
    <3>5. QED
      BY <1>0, <1>2, <1>3, <2>2, <3>3, <3>4 DEF Replaceable
  <2>3. QED
    BY <2>1, <2>2
<1>5. PICK g :
        g = [fuel \in Nat |-> Resize(Start(deque[x], fuel), length, Argument(Start(deque[x], fuel), value))]
  OBVIOUS
<1>6. ASSUME NEW fuel \in Nat PROVE Good(g[fuel], x, c)
  <2>1. PICK m, F, s, t : /\ m = Start(deque[x], fuel) /\ F = FrameOf(x, c) /\ s = Content(deque[x])
                          /\ t = Target(x, c)
    OBVIOUS
  <2>2. Begun(m, x, F, s, t, Smaller(length, Count(x)), n, values)
    BY <1>3, <1>4, <2>1, CallBegins
  <2>3. /\ Framed(F) /\ Holds(m, F, {}, s) /\ ~ m.threw
        /\ s \in Seq(F.values) /\ t \in Seq(F.values) /\ values \in Seq(F.values)
        /\ Spliced(t, s, Smaller(length, Count(x)), n, values) /\ Len(s) = n
        /\ \A k \in Nat : k <= most + 2 => Fresh(m, F, k)
    BY <1>2, <2>2 DEF Begun
  <2>4. PICK r : r = g[fuel]
    OBVIOUS
  <2>6. r = Resize(m, length, Argument(m, value))
    BY <1>5, <2>1, <2>4
  <2>7. Does(r, F, {}, s, t, strong)
    <3>1. r = Resize(m, length, value) /\ strong = TRUE
      BY <1>0, <1>3, <2>6
    <3>2. /\ length < n /\ Spliced(t, s, length, n, << >>) => Does(r, F, {}, s, t, TRUE)
          /\ \A k \in Nat, q \in Seq(F.values) :
               length = n + k /\ q = Times(k, value) /\ Fresh(m, F, k) /\ Spliced(t, s, n, n, q)
                 => Does(r, F, {}, s, t, TRUE)
      BY <1>0, <2>3, <3>1, ResizeDoes
    <3>3. CASE length < n
      <4>1. Spliced(t, s, length, n, << >>)
        BY <1>0, <1>2, <1>3, <2>3, <3>3
      <4>2. QED
        BY <3>1, <3>2, <3>3, <4>1
    <3>4. CASE ~ (length < n)
      <4>1. PICK k \in Nat : k = length - n /\ length = n + k /\ k <= most + 2
        <5>1. length - n \in Nat /\ length = n + (length - n) /\ length - n <= most + 2
          BY <1>0, <3>4
        <5>2. QED
          BY <5>1
      <4>2. values = Times(k, value) /\ Fresh(m, F, k)
        BY <1>0, <1>2, <1>3, <2>3, <3>4, <4>1
      <4>3. Spliced(t, s, n, n, values)
        BY <1>0, <2>3, <3>4
      <4>4. QED
        BY <2>3, <3>1, <3>2, <4>1, <4>2, <4>3
    <3>5. QED
      BY <3>3, <3>4
  <2>8. c.strong = strong
    BY <1>3 DEF Replaces
  <2>9. QED
    BY <2>1, <2>4, <2>7, <2>8 DEF Good
<1>7. c = Replaces(Smaller(length, Count(x)), Count(x),
                  (IF length < Count(x) THEN << >> ELSE Times(length - Count(x), Given(x, value))),
                     TRUE)
  BY <1>2, <1>3
<1>8. PICK k \in 0 .. Plenty - Resize(Start(deque[x], Plenty), length, Argument(Start(deque[x], Plenty), value)).fuel :
        Finish(x, Resize(Start(deque[x], IF k = 0 THEN Plenty ELSE k - 1), length,
                         Argument(Start(deque[x], IF k = 0 THEN Plenty ELSE k - 1), value)),
               Replaces(Smaller(length, Count(x)), Count(x),
                        (IF length < Count(x) THEN << >> ELSE Times(length - Count(x), Given(x, value))), TRUE))
  BY DEF CallResize, Call
<1>9. PICK fuel \in Nat : fuel = IF k = 0 THEN Plenty ELSE k - 1
  BY DEF DequeParameters
<1>10. Finish(x, g[fuel], c)
  BY <1>5, <1>7, <1>8, <1>9
<1>11. QED
  BY <1>3, <1>4, <1>6, <1>10, CallStep

-----------------------------------------------------------------------------
(* Steps on two deques                                                      *)

\* swap exchanges two deques, maps, nodes and all.
LEMMA SwapStep ==
  ASSUME IInv, NEW x \in Deques, NEW y \in Deques, CallSwap(x, y)
  PROVE  IInv' /\ Sequence!SequencesNext
<1>1. /\ x # y /\ deque' = [deque EXCEPT ![x] = deque[y], ![y] = deque[x]] /\ bad' = bad
      /\ call' = [op |-> "swap", on |-> x, from |-> y, turn |-> 1 - call.turn]
  BY DEF CallSwap
<1>2. /\ deque'[x] = deque[y] /\ deque'[y] = deque[x]
      /\ \A z \in Deques : z # x /\ z # y => deque'[z] = deque[z]
  BY <1>1 DEF IInv
<1>3. IInv'
  <2>1. deque' \in [Deques -> DequeType]
    BY <1>1 DEF IInv
  <2>2. \A z \in Deques : Intact(deque'[z]) /\ Size(deque'[z]) <= MaxSize[deque'[z].buf]
    BY <1>2 DEF IInv, Count, Most
  <2>3. \A z \in Deques : deque'[z].buf = deque[x].buf
    BY <1>2 DEF IInv
  <2>4. \A z, w \in Deques : deque'[z].buf = deque'[w].buf
    BY <2>3
  <2>5. bad' = FALSE
    BY <1>1 DEF IInv
  <2>6. QED
    BY <2>1, <2>2, <2>4, <2>5 DEF IInv, Count, Most
<1>4. Sequence!SequencesNext
  <2>1. call'.turn = 1 - call.turn /\ call'.op = "swap" /\ call'.on = x /\ call'.from = y
    BY <1>1
  <2>2. ASSUME NEW z \in Deques
        PROVE  Content(deque'[z]) = Content(deque[IF z = x THEN y ELSE IF z = y THEN x ELSE z])
    BY <1>1, <1>2
  <2>3. ASSUME NEW z \in Deques
        PROVE  [w \in Deques |-> Content(deque'[w])][z] =
                 [w \in Deques |-> Content(deque[w])][IF z = x THEN y ELSE IF z = y THEN x ELSE z]
    BY <2>2
  <2>4. QED
    BY <2>1, <2>3 DEF Sequence!SequencesNext
<1>5. QED
  BY <1>3, <1>4

\* An empty deque has one node, in the middle of the map.
LEMMA EmptyDequeIs ==
  ASSUME DequeParameters, NEW buf \in BufSizes, NEW d, d = EmptyDeque(buf, Centred(MapSizeFor(1), 1))
  PROVE  Intact(d) /\ d.buf = buf /\ Size(d) = 0 /\ Content(d) = << >>
<1>1. PICK b \in Nat \ {0}, size \in Nat, first \in Nat :
        /\ b = buf /\ size = MapSizeFor(1) /\ first = Centred(MapSizeFor(1), 1) /\ first + 1 <= size
  <2>1. PICK one \in Nat : one = 1
    OBVIOUS
  <2>2. MapSizeFor(1) \in Nat /\ one <= MapSizeFor(1)
    BY <2>1 DEF MapSizeFor, Larger, DequeParameters
  <2>3. Centred(MapSizeFor(1), one) \in Nat /\ Centred(MapSizeFor(1), one) + one <= MapSizeFor(1)
    BY <2>2, CentredIs
  <2>4. buf \in Nat \ {0}
    BY DEF DequeParameters
  <2>5. QED
    BY <2>1, <2>2, <2>3, <2>4
<1>2. PICK p \in Nat : p = first * b
  <2>1. first * b \in Nat
    BY ProductGrows
  <2>2. QED
    BY <2>1
<1>3. PICK node, map : /\ node = Times(b, Raw)
                       /\ map = [i \in 1 .. size |-> IF i = first + 1 THEN node ELSE << >>]
  OBVIOUS
<1>4. d = [buf |-> b, start |-> p, finish |-> p, map |-> map]
  BY <1>1, <1>2, <1>3 DEF EmptyDeque
<1>5. d.buf = b /\ d.start = p /\ d.finish = p /\ d.map = map
  BY <1>4
<1>6. p \div b = first
  <2>1. first * b <= p /\ p < first * b + b
    BY <1>2
  <2>2. QED
    BY <2>1, NodeIs
<1>7. StartNode(d) = first /\ FinishNode(d) = first
  BY <1>5, <1>6 DEF StartNode, FinishNode, NodeOf
<1>8. node \in Seq(Cellular(Value)) /\ Len(node) = b /\ \A c \in 1 .. b : node[c] = Raw
  BY <1>3 DEF Times, Cellular
<1>9. /\ map \in Seq(Seq(Cellular(Value))) /\ Len(map) = size
      /\ \A i \in 1 .. size : map[i] = IF i = first + 1 THEN node ELSE << >>
  <2>1. << >> \in Seq(Cellular(Value))
    OBVIOUS
  <2>2. QED
    BY <1>3, <1>8, <2>1
<1>10. d \in DequeType
  BY <1>1, <1>4, <1>9 DEF DequeType
<1>11. d.start <= d.finish /\ FinishNode(d) < Len(d.map)
  BY <1>1, <1>5, <1>7, <1>9
<1>12. Len(<< >>) = 0
  OBVIOUS
<1>13. ASSUME NEW i \in 1 .. Len(d.map)
       PROVE  Len(d.map[i]) = IF StartNode(d) < i /\ i <= FinishNode(d) + 1 THEN d.buf ELSE 0
  <2>1. i \in 1 .. size /\ (first < i /\ i <= first + 1 <=> i = first + 1)
    BY <1>5, <1>9
  <2>2. QED
    BY <1>5, <1>7, <1>8, <1>9, <1>12, <2>1
<1>14. ASSUME NEW i \in 1 .. Len(d.map), NEW c \in 1 .. Len(d.map[i]), NEW q \in Nat, q + 1 = (i - 1) * d.buf + c
       PROVE  d.map[i][c] # Raw <=> d.start <= q /\ q < d.finish
  <2>1. d.map[i] = node /\ c \in 1 .. b
    BY <1>5, <1>8, <1>9, <1>12
  <2>2. d.map[i][c] = Raw
    BY <1>8, <2>1
  <2>3. ~ (p <= q /\ q < p)
    OBVIOUS
  <2>4. QED
    BY <1>5, <2>2, <2>3
<1>15. Intact(d)
  BY <1>10, <1>11, <1>13, <1>14 DEF Intact
<1>16. Size(d) = 0
  BY <1>5 DEF Size
<1>17. Content(d) = << >>
  BY <1>16 DEF Content
<1>18. QED
  BY <1>1, <1>5, <1>15, <1>16, <1>17

\* Deques are constructed empty.
LEMMA InitHolds ==
  ASSUME DequeParameters, Init
  PROVE  IInv /\ Sequence!SequencesInit
<1>1. PICK buf \in BufSizes : deque = [x \in Deques |-> EmptyDeque(buf, Centred(MapSizeFor(1), 1))]
  BY DEF Init
<1>2. PICK d : d = EmptyDeque(buf, Centred(MapSizeFor(1), 1))
  OBVIOUS
<1>3. Intact(d) /\ d.buf = buf /\ Size(d) = 0 /\ Content(d) = << >>
  BY <1>2, EmptyDequeIs
<1>4. deque = [x \in Deques |-> d]
  BY <1>1, <1>2
<1>5. \A x \in Deques : deque[x] = d
  BY <1>4
<1>6. IInv
  <2>1. deque \in [Deques -> DequeType]
    BY <1>3, <1>4 DEF Intact
  <2>2. 0 <= MaxSize[d.buf]
    BY <1>3 DEF DequeParameters
  <2>3. \A x \in Deques : Intact(deque[x]) /\ Count(x) <= Most(x)
    BY <1>3, <1>5, <2>2 DEF Count, Most
  <2>4. QED
    BY <1>5, <2>1, <2>3 DEF IInv, Init
<1>7. Sequence!SequencesInit
  BY <1>3, <1>5 DEF Init, Sequence!SequencesInit
<1>8. QED
  BY <1>6, <1>7

\* Every step keeps the invariant, and does what a call on sequences does.
LEMMA NextHolds ==
  ASSUME DequeParameters, IInv, Next
  PROVE  IInv' /\ Sequence!SequencesNext
<1>1. PICK x \in Deques :
        \/ \E arg \in Arguments(x) :
             \/ Count(x) < Most(x) /\ (CallPushFront(x, arg) \/ CallPushBack(x, arg))
             \/ \E i \in 0 .. Count(x) : Count(x) < Most(x) /\ CallInsert(x, i, arg)
             \/ \E n \in 0 .. Most(x) : Survives(n, arg) /\ CallAssignFill(x, n, arg)
        \/ \E value \in Value :
             \/ \E i \in 0 .. Count(x) : \E n \in 0 .. Most(x) - Count(x) : CallInsertFill(x, i, n, value)
             \/ \E n \in 0 .. Most(x) : CallResize(x, n, value)
        \/ \E i \in 0 .. Count(x) - 1 : CallErase(x, i)
        \/ \E from, to \in 0 .. Count(x) : from <= to /\ CallEraseRange(x, from, to)
        \/ CallPopFront(x) \/ CallPopBack(x) \/ CallClear(x)
        \/ \E y \in Deques : CallAssign(x, y) \/ CallSwap(x, y)
        \/ \E values \in Ranges :
             \/ CallRebuild(x, values)
             \/ \E i \in 0 .. Count(x) : Count(x) + Len(values) <= Most(x) /\ CallInsertRange(x, i, values)
  BY DEF Next
<1>2. CASE \E arg \in Arguments(x) : Count(x) < Most(x) /\ CallPushFront(x, arg)
  BY <1>2, PushFrontStep
<1>3. CASE \E arg \in Arguments(x) : Count(x) < Most(x) /\ CallPushBack(x, arg)
  BY <1>3, PushBackStep
<1>4. CASE \E arg \in Arguments(x) : \E i \in 0 .. Count(x) : Count(x) < Most(x) /\ CallInsert(x, i, arg)
  BY <1>4, InsertStep
<1>5. CASE \E arg \in Arguments(x) : \E n \in 0 .. Most(x) : Survives(n, arg) /\ CallAssignFill(x, n, arg)
  BY <1>5, AssignFillStep
<1>6. CASE \E value \in Value : \E i \in 0 .. Count(x) : \E n \in 0 .. Most(x) - Count(x) :
             CallInsertFill(x, i, n, value)
  BY <1>6, InsertFillStep
<1>7. CASE \E value \in Value : \E n \in 0 .. Most(x) : CallResize(x, n, value)
  BY <1>7, ResizeStep
<1>8. CASE \E i \in 0 .. Count(x) - 1 : CallErase(x, i)
  BY <1>8, EraseStep
<1>9. CASE \E from, to \in 0 .. Count(x) : from <= to /\ CallEraseRange(x, from, to)
  BY <1>9, EraseRangeStep
<1>10. CASE CallPopFront(x)
  BY <1>10, PopFrontStep
<1>11. CASE CallPopBack(x)
  BY <1>11, PopBackStep
<1>12. CASE CallClear(x)
  BY <1>12, ClearStep
<1>13. CASE \E y \in Deques : CallAssign(x, y)
  BY <1>13, AssignStep
<1>14. CASE \E y \in Deques : CallSwap(x, y)
  BY <1>14, SwapStep
<1>15. CASE \E values \in Ranges : CallRebuild(x, values)
  BY <1>15, RebuildStep
<1>16. CASE \E values \in Ranges : \E i \in 0 .. Count(x) :
              Count(x) + Len(values) <= Most(x) /\ CallInsertRange(x, i, values)
  BY <1>16, InsertRangeStep
<1>17. QED
  BY <1>1, <1>2, <1>3, <1>4, <1>5, <1>6, <1>7, <1>8, <1>9, <1>10, <1>11, <1>12, <1>13, <1>14, <1>15, <1>16

\* What changes no deque changes no sequence.
LEMMA StutterHolds ==
  ASSUME IInv, UNCHANGED vars
  PROVE  IInv' /\ UNCHANGED << [x \in Deques |-> Content(deque[x])], call >>
BY DEF IInv, vars, Count, Most

-----------------------------------------------------------------------------
(* Theorems                                                                 *)

\* Between calls the map of a deque points to nodes exactly from _M_start's to _M_finish's,
\* exactly the cells between the two hold elements, and nothing is misused or lost: what
\* every call of stl_deque.h keeps, wherever something throws.
THEOREM IInvHolds ==
  ASSUME DequeParameters
  PROVE  Spec => []IInv
<1>1. Init => IInv
  BY InitHolds
<1>2. IInv /\ [Next]_vars => IInv'
  BY NextHolds, StutterHolds
<1>3. QED
  BY <1>1, <1>2, PTL DEF Spec

\* The nodes are cells with values or nothing, and the iterators are positions.
THEOREM DequeTypeCorrect ==
  ASSUME DequeParameters
  PROVE  Spec => []TypeOK
<1>1. IInv => TypeOK
  <2>1. SUFFICES ASSUME IInv, NEW x \in Deques
        PROVE  /\ \A i \in DOMAIN deque[x].map : deque[x].map[i] \in Seq(Value \union {Raw})
               /\ deque[x].start \in Nat /\ deque[x].finish \in Nat /\ bad \in BOOLEAN
    BY DEF TypeOK, IInv
  <2>2. PICK d : d = deque[x]
    OBVIOUS
  <2>3. d.map \in Seq(Seq(Cellular(Value))) /\ d.start \in Nat /\ d.finish \in Nat
    BY <2>1, <2>2 DEF IInv, DequeType
  <2>4. \A i \in DOMAIN d.map : d.map[i] \in Seq(Value \union {Raw})
    BY <2>3 DEF Cellular
  <2>5. bad \in BOOLEAN
    BY <2>1 DEF IInv
  <2>6. QED
    BY <2>2, <2>3, <2>4, <2>5
<1>2. QED
  BY <1>1, IInvHolds, PTL

\* The class invariants that stl_deque.h lists: _M_finish is dereferenceable, the map points
\* to nodes exactly where it should, and the cells between _M_start and _M_finish are those
\* that hold elements.
THEOREM DequesWellFormed ==
  ASSUME DequeParameters
  PROVE  Spec => []WellFormed
<1>1. IInv => WellFormed
  <2>1. SUFFICES ASSUME IInv, NEW x \in Deques, NEW d, d = deque[x]
        PROVE  /\ d.start <= d.finish /\ FinishNode(d) < Len(d.map)
               /\ \A i \in DOMAIN d.map :
                    /\ Len(d.map[i]) = IF i - 1 \in StartNode(d) .. FinishNode(d) THEN d.buf ELSE 0
                    /\ \A c \in DOMAIN d.map[i] :
                         d.map[i][c] # Raw <=> (i - 1) * d.buf + c - 1 \in d.start .. d.finish - 1
    BY DEF WellFormed
  <2>2. Intact(d) /\ BufSizes \subseteq Nat \ {0}
    BY <2>1 DEF IInv, DequeParameters
  <2>3. /\ d.buf \in Nat \ {0} /\ d.map \in Seq(Seq(Cellular(Value))) /\ Len(d.map) \in Nat
        /\ DOMAIN d.map = 1 .. Len(d.map) /\ d.start \in Nat /\ d.finish \in Nat /\ d.start <= d.finish
        /\ StartNode(d) \in Nat /\ FinishNode(d) \in Nat /\ FinishNode(d) < Len(d.map)
    BY <2>2, IntactParts
  <2>4. ASSUME NEW i \in 1 .. Len(d.map)
        PROVE  Len(d.map[i]) = IF i - 1 \in StartNode(d) .. FinishNode(d) THEN d.buf ELSE 0
    <3>1. Len(d.map[i]) = IF StartNode(d) < i /\ i <= FinishNode(d) + 1 THEN d.buf ELSE 0
      BY <2>2 DEF Intact
    <3>2. i - 1 \in StartNode(d) .. FinishNode(d) <=> StartNode(d) < i /\ i <= FinishNode(d) + 1
      BY <2>3
    <3>3. QED
      BY <3>1, <3>2
  <2>5. ASSUME NEW i \in 1 .. Len(d.map), NEW c \in 1 .. Len(d.map[i])
        PROVE  d.map[i][c] # Raw <=> (i - 1) * d.buf + c - 1 \in d.start .. d.finish - 1
    <3>1. i - 1 \in Nat /\ c \in Nat /\ 1 <= c
      BY <2>3
    <3>2. PICK k \in Nat : k = (i - 1) * d.buf
      <4>1. (i - 1) * d.buf \in Nat
        BY <2>3, <3>1, ProductGrows
      <4>2. QED
        BY <4>1
    <3>3. PICK p \in Nat : p = k + c - 1 /\ p + 1 = k + c
      <4>1. k + c - 1 \in Nat /\ (k + c - 1) + 1 = k + c
        BY <3>1
      <4>2. QED
        BY <4>1
    <3>4. d.map[i][c] # Raw <=> d.start <= p /\ p < d.finish
      BY <2>2, <3>2, <3>3 DEF Intact
    <3>5. p \in d.start .. d.finish - 1 <=> d.start <= p /\ p < d.finish
      BY <2>3
    <3>6. QED
      BY <3>2, <3>3, <3>4, <3>5
  <2>6. \A i \in DOMAIN d.map : DOMAIN d.map[i] = 1 .. Len(d.map[i])
    BY <2>3
  <2>7. QED
    BY <2>3, <2>4, <2>5, <2>6
<1>2. QED
  BY <1>1, IInvHolds, PTL

\* No element is constructed over another, read, assigned to or destroyed where there is
\* none, and no element or node is lost.
THEOREM DequesLoseNothing ==
  ASSUME DequeParameters
  PROVE  Spec => []NothingLost
<1>1. IInv => NothingLost
  BY DEF IInv, NothingLost
<1>2. QED
  BY <1>1, IInvHolds, PTL

\* The deques are the sequences that their calls say: a call that ends has replaced what
\* it says, a strong one that throws has changed nothing, and another one keeps to the
\* values and the lengths between.
THEOREM DequesImplementSequences ==
  ASSUME DequeParameters
  PROVE  Spec => ImplementsSequences
<1>1. Init => Sequence!SequencesInit
  BY InitHolds
<1>2. IInv /\ [Next]_vars => [Sequence!SequencesNext]_<< [x \in Deques |-> Content(deque[x])], call >>
  BY NextHolds, StutterHolds
<1>3. QED
  BY <1>1, <1>2, IInvHolds, PTL DEF Spec, ImplementsSequences, Sequence!SequencesSpec
=============================================================================
