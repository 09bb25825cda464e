--------------------------- MODULE ElementsProofs ---------------------------
(***************************************************************************)
(* What the steps on raw memory do, for any memory, values and fuel: the   *)
(* library's copying and filling writes what it is given, all or nothing   *)
(* where it constructs, a part of it where it assigns, and misuses nothing *)
(* if it constructs on raw cells only, and assigns to elements only.       *)
(*                                                                         *)
(* Each operation has a lemma that says it does one of Turned, Copied,     *)
(* Assigned and Allocated: the proofs of the containers use these alone.   *)
(***************************************************************************)
EXTENDS Elements, TLAPS

\* A vector has one block, and another one while it replaces it.
Blocks == {"old", "new"}
\* What a cell holds: one of the values S, or no element
Cellular(S) == S \union {Raw}
\* The memory and the local variables of an operation on elements with values of S
States(S) == [mem : [Blocks -> Seq(Cellular(S))], size : Nat, built : Nat, fuel : Nat,
              threw : BOOLEAN, bad : BOOLEAN]

\* r is m, but for what its memory holds.
SameLocals(r, m) ==
    r.size = m.size /\ r.built = m.built /\ r.fuel = m.fuel /\ r.threw = m.threw

\* The cells behind from hold values, the others what they held.
Written(r, m, b, from, values) ==
    /\ Len(r.mem[b]) = Len(m.mem[b])
    /\ \A i \in 1 .. Len(m.mem[b]) :
         r.mem[b][i] = IF from < i /\ i <= from + Len(values) THEN values[i - from] ELSE m.mem[b][i]
    /\ \A c \in Blocks : c # b => r.mem[c] = m.mem[c]

\* r is m, but for the cells behind from of block b, which hold values.
Turned(r, m, S, b, from, values) ==
    r \in States(S) /\ SameLocals(r, m) /\ r.bad = m.bad /\ Written(r, m, b, from, values)

\* The addresses from from to to are that many, one after the other.
LEMMA CellsAre ==
  ASSUME NEW b, NEW from \in Nat, NEW to \in Nat, from <= to
  PROVE  /\ Cells(b, from, to) \in Seq({b} \X Nat) /\ Len(Cells(b, from, to)) = to - from
         /\ DOMAIN Cells(b, from, to) = 1 .. to - from
         /\ \A j \in 1 .. to - from : Cells(b, from, to)[j] = << b, from + j >>
BY DEF Cells

\* The first k of a sequence, or all of it
LEMMA FirstAre ==
  ASSUME NEW S, NEW s \in Seq(S), NEW k \in Nat
  PROVE  /\ First(s, k) \in Seq(S) /\ Len(First(s, k)) = Smaller(k, Len(s))
         /\ \A j \in 1 .. Smaller(k, Len(s)) : First(s, k)[j] = s[j]
BY DEF First, Smaller

\* The last k of a sequence, or all of it
LEMMA LastAre ==
  ASSUME NEW S, NEW s \in Seq(S), NEW k \in Nat
  PROVE  /\ Last(s, k) \in Seq(S) /\ Len(Last(s, k)) = Smaller(k, Len(s))
         /\ \A j \in 1 .. Smaller(k, Len(s)) : Last(s, k)[j] = s[Len(s) - Smaller(k, Len(s)) + j]
<1> DEFINE n == Smaller(k, Len(s))
<1>1. n \in 0 .. Len(s)
  BY DEF Smaller
<1> HIDE DEF n
<1>2. /\ SubSeq(s, Len(s) + 1 - n, Len(s)) \in Seq(S)
      /\ Len(SubSeq(s, Len(s) + 1 - n, Len(s))) = n
      /\ \A j \in 1 .. n : SubSeq(s, Len(s) + 1 - n, Len(s))[j] = s[Len(s) - n + j]
  BY <1>1
<1>3. QED
  BY <1>2 DEF Last, n

\* The first addresses of a range are a range.
LEMMA FirstCells ==
  ASSUME NEW b, NEW from \in Nat, NEW to \in Nat, from <= to, NEW k \in Nat
  PROVE  First(Cells(b, from, to), k) = Cells(b, from, from + Smaller(k, to - from))
BY CellsAre DEF First, Smaller, Cells

\* The last addresses of a range are a range.
LEMMA LastCells ==
  ASSUME NEW b, NEW from \in Nat, NEW to \in Nat, from <= to, NEW k \in Nat
  PROVE  Last(Cells(b, from, to), k) = Cells(b, to - Smaller(k, to - from), to)
BY CellsAre DEF Last, Smaller, Cells

\* values are what the cells from from to to of b hold.
IsRead(values, m, S, b, from, to) ==
    /\ values \in Seq(Cellular(S)) /\ Len(values) = to - from
    /\ \A j \in 1 .. to - from : values[j] = m.mem[b][from + j]

\* Reading a range of cells gives what they hold.
LEMMA ReadAre ==
  ASSUME NEW S, NEW m \in States(S), NEW b \in Blocks, NEW from \in Nat, NEW to \in Nat, from <= to,
         to <= Len(m.mem[b])
  PROVE  IsRead(Read(m, Cells(b, from, to)), m, S, b, from, to)
<1>1. m.mem[b] \in Seq(Cellular(S))
  BY DEF States
<1>2. ASSUME NEW j \in 1 .. to - from PROVE Cell(m, << b, from + j >>) = m.mem[b][from + j]
  BY <1>1 DEF Cell, Inside
<1>3. Read(m, Cells(b, from, to)) = [j \in 1 .. to - from |-> m.mem[b][from + j]]
  BY <1>2, CellsAre DEF Read
<1>4. QED
  BY <1>1, <1>3 DEF IsRead

\* Writing a range of cells leaves every other cell as it was.
LEMMA StoreAre ==
  ASSUME NEW S, NEW m \in States(S), NEW b \in Blocks, NEW from \in Nat, NEW values \in Seq(Cellular(S)),
         NEW to \in Nat, Len(values) = to - from, to <= Len(m.mem[b])
  PROVE  Turned(Store(m, values, Cells(b, from, to)), m, S, b, from, values)
<1> DEFINE at == Cells(b, from, to)
           Stored(c, i) == IF \E j \in DOMAIN at : at[j] = << c, i >>
                           THEN values[CHOOSE j \in DOMAIN at : at[j] = << c, i >>] ELSE m.mem[c][i]
           New(c) == [i \in DOMAIN m.mem[c] |-> Stored(c, i)]
           r == Store(m, values, at)
<1>0. from <= to
  OBVIOUS
<1>1. /\ DOMAIN at = 1 .. Len(values)
      /\ \A j \in 1 .. Len(values) : at[j] = << b, from + j >>
  BY <1>0, CellsAre
<1> HIDE DEF at
<1>2. r = [m EXCEPT !.mem = [c \in DOMAIN @ |-> New(c)]]
  BY DEF Store
<1>3. \A c \in Blocks : m.mem[c] \in Seq(Cellular(S)) /\ DOMAIN m.mem[c] = 1 .. Len(m.mem[c])
  BY DEF States
<1>4. ASSUME NEW i \in 1 .. Len(m.mem[b])
      PROVE  Stored(b, i) = IF from < i /\ i <= from + Len(values) THEN values[i - from] ELSE m.mem[b][i]
  <2>1. CASE from < i /\ i <= from + Len(values)
    <3>0. i - from \in 1 .. Len(values) /\ from + (i - from) = i
      BY <1>3, <2>1
    <3>1. i - from \in DOMAIN at /\ at[i - from] = << b, i >>
      BY <1>1, <3>0
    <3>2. \A j \in DOMAIN at : at[j] = << b, i >> => j = i - from
      BY <1>1
    <3>3. (CHOOSE j \in DOMAIN at : at[j] = << b, i >>) = i - from
      BY <3>1, <3>2
    <3>4. QED
      BY <2>1, <3>1, <3>3
  <2>2. CASE ~ (from < i /\ i <= from + Len(values))
    <3>1. \A j \in DOMAIN at : at[j] # << b, i >>
      BY <1>1, <1>3, <2>2
    <3>2. QED
      BY <2>2, <3>1
  <2>3. QED
    BY <2>1, <2>2
<1>5. ASSUME NEW c \in Blocks, c # b, NEW i \in DOMAIN m.mem[c] PROVE Stored(c, i) = m.mem[c][i]
  BY <1>1, <1>5
<1> HIDE DEF Stored
<1>6. ASSUME NEW c \in Blocks, c # b PROVE New(c) = m.mem[c]
  BY <1>3, <1>5, <1>6
<1>7. /\ New(b) \in Seq(Cellular(S)) /\ Len(New(b)) = Len(m.mem[b])
      /\ \A i \in 1 .. Len(m.mem[b]) : New(b)[i] = Stored(b, i)
  <2>1. \A i \in 1 .. Len(m.mem[b]) : Stored(b, i) \in Cellular(S)
    BY <1>3, <1>4
  <2>2. QED
    BY <1>3, <2>1
<1> HIDE DEF New
<1>8. /\ r = [m EXCEPT !.mem = [c \in Blocks |-> New(c)]]
      /\ [c \in Blocks |-> New(c)] \in [Blocks -> Seq(Cellular(S))]
  BY <1>2, <1>6, <1>7, <1>3 DEF States
<1> HIDE DEF r
<1>9. r \in States(S) /\ SameLocals(r, m) /\ r.bad = m.bad /\ r.mem = [c \in Blocks |-> New(c)]
  BY <1>8 DEF States, SameLocals
<1>10. Written(r, m, b, from, values)
  BY <1>4, <1>6, <1>7, <1>9 DEF Written
<1>11. QED
  BY <1>9, <1>10 DEF r, at, Turned

\* The values of a sequence are those at its positions.
LEMMA ValuesAre ==
  ASSUME NEW S, NEW s \in Seq(S), NEW v
  PROVE  v \in ValuesIn(s) <=> \E j \in 1 .. Len(s) : s[j] = v
BY DEF ValuesIn

\* A misuse is recorded, and nothing else changes.
LEMMA NotMisused ==
  ASSUME NEW S, NEW m \in States(S), NEW misuse \in BOOLEAN
  PROVE  /\ Misused(m, misuse) \in States(S) /\ Misused(m, misuse).mem = m.mem
         /\ SameLocals(Misused(m, misuse), m)
         /\ Misused(m, misuse).bad = (m.bad \/ misuse)
BY DEF Misused, States, SameLocals

\* Where nothing is misused, recording that changes nothing.
LEMMA StillTurned ==
  ASSUME NEW S, NEW m, NEW b, NEW from, NEW values, NEW r \in States(S), Turned(r, m, S, b, from, values)
  PROVE  Turned(Misused(r, FALSE), m, S, b, from, values)
<1>1. /\ Misused(r, FALSE) \in States(S) /\ Misused(r, FALSE).mem = r.mem
      /\ SameLocals(Misused(r, FALSE), r)
      /\ Misused(r, FALSE).bad = (r.bad \/ FALSE)
  BY NotMisused
<1>2. Misused(r, FALSE).bad = r.bad
  BY <1>1 DEF States
<1> DEFINE q == Misused(r, FALSE)
<1> HIDE DEF q
<1>3. q \in States(S) /\ q.mem = r.mem /\ SameLocals(q, r) /\ q.bad = r.bad
  BY <1>1, <1>2 DEF q
<1>4. Turned(q, m, S, b, from, values)
  BY <1>3 DEF Turned, SameLocals, Written
<1>5. QED
  BY <1>4 DEF q

\* Elements that are constructed on raw cells are there, and nothing was misused.
LEMMA ConstructAre ==
  ASSUME NEW S, Raw \notin S, NEW m \in States(S), NEW b \in Blocks, NEW from \in Nat, NEW to \in Nat,
         NEW values \in Seq(S), Len(values) = to - from, to <= Len(m.mem[b]),
         \A i \in from + 1 .. to : m.mem[b][i] = Raw
  PROVE  Turned(Construct(m, values, Cells(b, from, to)), m, S, b, from, values)
<1> DEFINE at == Cells(b, from, to)
           s == Store(m, values, at)
           there == Read(m, at)
<1>1. values \in Seq(Cellular(S)) /\ from <= to
  BY DEF Cellular
<1>2. Turned(s, m, S, b, from, values) /\ s \in States(S)
  BY <1>1, StoreAre DEF Turned
<1>3. Raw \notin ValuesIn(values)
  BY ValuesAre
<1>4. ValuesIn(there) \subseteq {Raw}
  <2>0. IsRead(there, m, S, b, from, to)
    BY <1>1, ReadAre
  <2>1. /\ there \in Seq(Cellular(S)) /\ Len(there) = to - from
        /\ \A j \in 1 .. to - from : there[j] = m.mem[b][from + j]
    BY <2>0 DEF IsRead
  <2> HIDE DEF there
  <2>2. \A j \in 1 .. Len(there) : there[j] = Raw
    BY <2>1
  <2>3. QED
    BY <2>1, <2>2, ValuesAre
<1>5. ~ Outside(m, at)
  <2>1. /\ DOMAIN at = 1 .. to - from
        /\ \A j \in 1 .. to - from : at[j] = << b, from + j >>
    BY <1>1, CellsAre
  <2>2. m.mem[b] \in Seq(Cellular(S))
    BY DEF States
  <2> HIDE DEF at
  <2>3. \A j \in 1 .. to - from : from + j \in DOMAIN m.mem[b]
    BY <2>2
  <2>4. \A j \in DOMAIN at : Inside(m, at[j])
    BY <2>1, <2>3 DEF Inside
  <2>5. QED
    BY <2>4 DEF Outside
<1> HIDE DEF s
<1>6. Construct(m, values, at) = Misused(s, \/ Outside(m, at) \/ Raw \in ValuesIn(values)
                                            \/ ValuesIn(there) \ {Raw} # {})
  BY DEF Construct, s
<1> HIDE DEF there, at
<1>7. Construct(m, values, at) = Misused(s, FALSE)
  BY <1>6, <1>3, <1>4, <1>5
<1>8. QED
  BY <1>2, <1>7, StillTurned DEF at

\* Elements that are destroyed leave raw cells, and nothing was misused.
LEMMA DestroyAre ==
  ASSUME NEW S, NEW m \in States(S), NEW b \in Blocks, NEW from \in Nat, NEW to \in Nat,
         from <= to, to <= Len(m.mem[b]),
         \A i \in from + 1 .. to : m.mem[b][i] # Raw
  PROVE  Turned(Destroy(m, Cells(b, from, to)), m, S, b, from, Times(to - from, Raw))
<1> DEFINE at == Cells(b, from, to)
           none == Times(to - from, Raw)
           s == Store(m, none, at)
           there == Read(m, at)
<1>1. none \in Seq(Cellular(S)) /\ Len(none) = to - from
  <2>1. to - from \in Nat /\ Raw \in Cellular(S)
    BY DEF Cellular
  <2>2. QED
    BY <2>1 DEF Times
<1>a. Len(at) = to - from
  BY CellsAre
<1> HIDE DEF none
<1>2. Turned(s, m, S, b, from, none) /\ s \in States(S)
  <2>1. Turned(s, m, S, b, from, none)
    BY <1>1, StoreAre
  <2>2. QED
    BY <2>1 DEF Turned
<1>3. Raw \notin ValuesIn(there)
  <2>0. IsRead(there, m, S, b, from, to)
    BY ReadAre
  <2>1. /\ there \in Seq(Cellular(S)) /\ Len(there) = to - from
        /\ \A j \in 1 .. to - from : there[j] = m.mem[b][from + j]
    BY <2>0 DEF IsRead
  <2> HIDE DEF there
  <2>2. \A j \in 1 .. Len(there) : there[j] # Raw
    BY <2>1
  <2>3. QED
    BY <2>1, <2>2, ValuesAre
<1> HIDE DEF s
<1> DEFINE misuse == Raw \in ValuesIn(there)
<1>4. Destroy(m, at) = Misused(s, misuse) /\ misuse = FALSE
  BY <1>a, <1>3 DEF Destroy, s, none
<1> HIDE DEF there, at, misuse
<1>5. Destroy(m, at) = Misused(s, FALSE)
  BY <1>4
<1>6. QED
  BY <1>2, <1>5, StillTurned DEF at, none

\* Elements that are assigned to have the new values, and nothing was misused.
LEMMA AssignAre ==
  ASSUME NEW S, Raw \notin S, NEW m \in States(S), NEW b \in Blocks, NEW from \in Nat, NEW to \in Nat,
         NEW values \in Seq(S), Len(values) = to - from, to <= Len(m.mem[b]),
         \A i \in from + 1 .. to : m.mem[b][i] # Raw
  PROVE  Turned(Assign(m, values, Cells(b, from, to)), m, S, b, from, values)
<1> DEFINE at == Cells(b, from, to)
           s == Store(m, values, at)
           there == Read(m, at)
<1>1. values \in Seq(Cellular(S)) /\ from <= to
  BY DEF Cellular
<1>2. Turned(s, m, S, b, from, values) /\ s \in States(S)
  BY <1>1, StoreAre DEF Turned
<1>3. Raw \notin ValuesIn(values)
  BY ValuesAre
<1>4. Raw \notin ValuesIn(there)
  <2>0. IsRead(there, m, S, b, from, to)
    BY <1>1, ReadAre
  <2>1. /\ there \in Seq(Cellular(S)) /\ Len(there) = to - from
        /\ \A j \in 1 .. to - from : there[j] = m.mem[b][from + j]
    BY <2>0 DEF IsRead
  <2> HIDE DEF there
  <2>2. \A j \in 1 .. Len(there) : there[j] # Raw
    BY <2>1
  <2>3. QED
    BY <2>1, <2>2, ValuesAre
<1> HIDE DEF s
<1> DEFINE misuse == Raw \in ValuesIn(values) \union ValuesIn(there)
<1>5. Assign(m, values, at) = Misused(s, misuse) /\ misuse = FALSE
  BY <1>3, <1>4 DEF Assign, s
<1> HIDE DEF there, at, misuse
<1>6. Assign(m, values, at) = Misused(s, FALSE)
  BY <1>5
<1>7. QED
  BY <1>2, <1>6, StillTurned DEF at

\* r differs from m in its memory, and in what is left until it throws.
Frame(r, m) == r.size = m.size /\ r.built = m.built /\ r.bad = m.bad

\* n copies are counted, and an exception if there were not as many left.
IsSpent(r, m, S, n) == r \in States(S) /\ r.mem = m.mem /\ Frame(r, m) /\ (r.threw <=> n > m.fuel)

\* Counting copies changes no memory.
LEMMA SpendIs ==
  ASSUME NEW S, NEW m \in States(S), NEW n \in Nat
  PROVE  IsSpent(Spend(m, n), m, S, n)
<1>1. m.fuel - Smaller(m.fuel, n) \in Nat
  BY DEF Smaller, States
<1>2. (n > m.fuel) \in BOOLEAN
  OBVIOUS
<1>3. Spend(m, n) = [m EXCEPT !.fuel = m.fuel - Smaller(m.fuel, n), !.threw = n > m.fuel]
  BY DEF Spend, States
<1>4. QED
  BY <1>1, <1>2, <1>3 DEF IsSpent, States, Frame

\* What uninitialized_copy does: all or nothing.
Copied(r, m, S, b, from, values) ==
    /\ r \in States(S) /\ Frame(r, m)
    /\ m.threw => r = m
    /\ r.threw => r.mem = m.mem /\ (m.threw \/ Len(values) > 0)
    /\ ~ r.threw => ~ m.threw /\ Written(r, m, b, from, values)

\* A memory with the same cells is the same memory.
LEMMA SameMemory ==
  ASSUME NEW S, NEW m \in States(S), NEW r \in States(S), NEW b \in Blocks,
         Len(r.mem[b]) = Len(m.mem[b]), \A i \in 1 .. Len(m.mem[b]) : r.mem[b][i] = m.mem[b][i],
         \A c \in Blocks : c # b => r.mem[c] = m.mem[c]
  PROVE  r.mem = m.mem
<1>1. \A q \in States(S) : q.mem \in [Blocks -> Seq(Cellular(S))]
  BY DEF States
<1>2. r.mem \in [Blocks -> Seq(Cellular(S))] /\ m.mem \in [Blocks -> Seq(Cellular(S))]
  BY <1>1
<1>3. r.mem[b] \in Seq(Cellular(S)) /\ m.mem[b] \in Seq(Cellular(S))
  BY <1>2
<1>4. r.mem[b] = m.mem[b]
  BY <1>3
<1>5. \A c \in Blocks : r.mem[c] = m.mem[c]
  BY <1>4
<1>6. QED
  BY <1>2, <1>5

\* uninitialized_copy and uninitialized_fill_n of stl_uninitialized.h construct all
\* elements, or destroy those that they constructed and throw.
LEMMA UninitializedCopyDoes ==
  ASSUME NEW S, Raw \notin S, NEW m \in States(S), NEW b \in Blocks, NEW from \in Nat, NEW to \in Nat,
         NEW values \in Seq(S), Len(values) = to - from,
         ~ m.threw => /\ to <= Len(m.mem[b])
                      /\ \A i \in from + 1 .. to : m.mem[b][i] = Raw
  PROVE  Copied(UninitializedCopy(m, values, Cells(b, from, to)), m, S, b, from, values)
<1> DEFINE at == Cells(b, from, to)
           r == UninitializedCopy(m, values, at)
<1>0. /\ from <= to /\ m.fuel \in Nat /\ m.threw \in BOOLEAN /\ to - from \in Nat
      /\ m.mem[b] \in Seq(Cellular(S))
  BY DEF States
<1>1. CASE m.threw
  <2>1. r = m
    BY <1>1 DEF UninitializedCopy
  <2>2. QED
    BY <1>1, <2>1 DEF Copied, Frame
<1>2. CASE ~ m.threw /\ to - from <= m.fuel
  <2> DEFINE c == Construct(m, values, at)
  <2>1. Turned(c, m, S, b, from, values)
    BY <1>2, ConstructAre
  <2>2. Len(at) = to - from
    BY <1>0, CellsAre
  <2> HIDE DEF c
  <2>3. c \in States(S) /\ SameLocals(c, m) /\ c.bad = m.bad /\ Written(c, m, b, from, values)
    BY <2>1 DEF Turned
  <2>4. IsSpent(Spend(c, to - from), c, S, to - from)
    BY <1>0, <2>3, SpendIs
  <2>5. r = Spend(c, to - from)
    BY <1>2, <2>2 DEF UninitializedCopy, c
  <2> HIDE DEF r
  <2>6. r \in States(S) /\ r.mem = c.mem /\ Frame(r, c) /\ (r.threw <=> to - from > m.fuel)
    BY <2>3, <2>4, <2>5 DEF IsSpent, SameLocals
  <2>7. Frame(r, m) /\ ~ r.threw
    BY <2>3, <2>6, <1>2, <1>0 DEF Frame, SameLocals
  <2>8. Written(r, m, b, from, values)
    BY <2>3, <2>6 DEF Written
  <2>9. Copied(r, m, S, b, from, values)
    BY <1>2, <2>6, <2>7, <2>8 DEF Copied
  <2>10. QED
    BY <2>9 DEF r
<1>3. CASE ~ m.threw /\ ~ (to - from <= m.fuel)
  <2>0. PICK k \in Nat : k = m.fuel
    BY <1>0
  <2> DEFINE some == First(values, k)
             where == Cells(b, from, from + k)
             c == Construct(m, some, where)
             d == Destroy(c, where)
  <2>1. Smaller(k, to - from) = k /\ k \in Nat /\ from + k \in Nat /\ from + k <= to /\ from <= from + k
        /\ from + k - from = k
    BY <1>0, <1>3, <2>0 DEF Smaller
  <2>2. some \in Seq(S) /\ Len(some) = k
    BY <1>0, <2>1, FirstAre
  <2>3. First(at, k) = where
    <3>1. First(at, k) = Cells(b, from, from + Smaller(k, to - from))
      BY <1>0, FirstCells
    <3>2. QED
      BY <2>1, <3>1
  <2>4. Len(at) = to - from
    BY <1>0, CellsAre
  <2>5. Turned(c, m, S, b, from, some)
    <3>1. \A i \in from + 1 .. from + k : m.mem[b][i] = Raw
      BY <1>0, <1>3, <2>1
    <3>2. from + k <= Len(m.mem[b]) /\ Len(some) = from + k - from
      BY <1>0, <1>3, <2>1, <2>2
    <3> HIDE DEF some
    <3>3. QED
      BY <2>1, <2>2, <3>1, <3>2, ConstructAre
  <2>6. r = Spend(d, to - from)
    BY <1>0, <1>3, <2>0, <2>3, <2>4 DEF UninitializedCopy
  <2> HIDE DEF r, d, c, some
  <2>7. c \in States(S) /\ SameLocals(c, m) /\ c.bad = m.bad /\ Written(c, m, b, from, some)
    BY <2>5 DEF Turned
  <2>8. /\ Len(c.mem[b]) = Len(m.mem[b])
        /\ \A i \in from + 1 .. from + k : c.mem[b][i] # Raw
    <3>1. \A i \in from + 1 .. from + k : some[i - from] \in S /\ i \in 1 .. Len(m.mem[b])
      BY <1>0, <1>3, <2>1, <2>2
    <3>2. QED
      BY <2>1, <2>2, <2>7, <3>1 DEF Written
  <2>9. Turned(d, c, S, b, from, Times(k, Raw))
    <3>1. from + k <= Len(c.mem[b])
      BY <1>0, <1>3, <2>1, <2>8
    <3>2. Turned(d, c, S, b, from, Times(from + k - from, Raw))
      BY <2>1, <2>7, <2>8, <3>1, DestroyAre DEF d
    <3>3. QED
      BY <2>1, <3>2
  <2>10. d \in States(S) /\ SameLocals(d, c) /\ d.bad = c.bad /\ Written(d, c, b, from, Times(k, Raw))
    BY <2>9 DEF Turned
  <2>11. d.mem = m.mem
    <3>1. Len(Times(k, Raw)) = k /\ \A i \in from + 1 .. from + k : Times(k, Raw)[i - from] = Raw
      BY <2>1 DEF Times
    <3>2. ASSUME NEW i \in 1 .. Len(m.mem[b]) PROVE d.mem[b][i] = m.mem[b][i]
      <4>1. CASE from < i /\ i <= from + k
        <5>1. d.mem[b][i] = Raw
          BY <2>8, <2>10, <3>1, <4>1, <2>1 DEF Written
        <5>2. m.mem[b][i] = Raw
          BY <1>3, <4>1, <2>1, <1>0
        <5>3. QED
          BY <5>1, <5>2
      <4>2. CASE ~ (from < i /\ i <= from + k)
        BY <2>2, <2>7, <2>8, <2>10, <3>1, <4>2 DEF Written
      <4>3. QED
        BY <4>1, <4>2
    <3>3. Len(d.mem[b]) = Len(m.mem[b]) /\ \A x \in Blocks : x # b => d.mem[x] = m.mem[x]
      BY <2>7, <2>10 DEF Written
    <3>4. QED
      BY <2>10, <3>2, <3>3, SameMemory
  <2>12. IsSpent(r, d, S, to - from)
    BY <1>0, <2>6, <2>10, SpendIs
  <2>13. r \in States(S) /\ r.mem = m.mem /\ Frame(r, m) /\ (r.threw <=> to - from > k)
    BY <2>7, <2>10, <2>11, <2>12, <2>0 DEF IsSpent, Frame, SameLocals
  <2>14. r.threw
    BY <2>13, <1>3, <1>0, <2>1, <2>0
  <2>a. Len(values) > 0
    BY <1>0, <1>3
  <2>15. Copied(r, m, S, b, from, values)
    BY <1>3, <2>13, <2>14, <2>a DEF Copied
  <2>16. QED
    BY <2>15 DEF r
<1>4. QED
  BY <1>0, <1>1, <1>2, <1>3

\* Some of the cells behind from may hold other values, but what is raw stays so.
Touched(r, m, b, from, to) ==
    /\ Len(r.mem[b]) = Len(m.mem[b])
    /\ \A i \in 1 .. Len(m.mem[b]) : /\ r.mem[b][i] = Raw <=> m.mem[b][i] = Raw
                                     /\ ~ (from < i /\ i <= to) => r.mem[b][i] = m.mem[b][i]
    /\ \A c \in Blocks : c # b => r.mem[c] = m.mem[c]

\* What copy, copy_backward and fill do: those assigned before an exception stay.
Assigned(r, m, S, b, from, to, values) ==
    /\ r \in States(S) /\ Frame(r, m)
    /\ m.threw => r = m
    /\ ~ m.threw => Touched(r, m, b, from, to)
    /\ r.threw => m.threw \/ Len(values) > 0
    /\ ~ r.threw => ~ m.threw /\ Written(r, m, b, from, values)

\* Writing some of the elements of a range touches that range only.
LEMMA WrittenTouches ==
  ASSUME NEW S, Raw \notin S, NEW m \in States(S), NEW b \in Blocks, NEW from \in Nat, NEW to \in Nat,
         NEW low \in Nat, NEW some \in Seq(S), from <= low, low + Len(some) <= to, to <= Len(m.mem[b]),
         \A i \in from + 1 .. to : m.mem[b][i] # Raw,
         NEW r, Written(r, m, b, low, some)
  PROVE  Touched(r, m, b, from, to)
<1>1. ASSUME NEW i \in 1 .. Len(m.mem[b])
      PROVE  /\ r.mem[b][i] = Raw <=> m.mem[b][i] = Raw
             /\ ~ (from < i /\ i <= to) => r.mem[b][i] = m.mem[b][i]
  <2>1. CASE low < i /\ i <= low + Len(some)
    <3>1. r.mem[b][i] = some[i - low] /\ some[i - low] \in S
      BY <2>1 DEF Written
    <3>2. i \in from + 1 .. to
      BY <2>1
    <3>3. QED
      BY <3>1, <3>2
  <2>2. CASE ~ (low < i /\ i <= low + Len(some))
    BY <2>2 DEF Written
  <2>3. QED
    BY <2>1, <2>2
<1>2. QED
  BY <1>1 DEF Written, Touched

\* Assigning as many as there is fuel for, from either end, is all, or it throws.
LEMMA AssignSome ==
  ASSUME NEW S, Raw \notin S, NEW m \in States(S), ~ m.threw, NEW b \in Blocks,
         NEW from \in Nat, NEW to \in Nat, NEW values \in Seq(S), Len(values) = to - from,
         to <= Len(m.mem[b]), \A i \in from + 1 .. to : m.mem[b][i] # Raw,
         NEW low \in Nat, NEW high \in Nat, NEW some \in Seq(S), from <= low, high <= to,
         Len(some) = high - low, Len(some) = Smaller(m.fuel, to - from),
         \A j \in 1 .. Len(some) : some[j] = values[low - from + j]
  PROVE  Assigned(Spend(Assign(m, some, Cells(b, low, high)), to - from), m, S, b, from, to, values)
<1> DEFINE a == Assign(m, some, Cells(b, low, high))
           r == Spend(a, to - from)
<1>0. /\ low <= high /\ from <= to /\ m.fuel \in Nat /\ to - from \in Nat
      /\ m.mem[b] \in Seq(Cellular(S)) /\ m.threw \in BOOLEAN
  BY DEF States
<1>1. Turned(a, m, S, b, low, some)
  <2>1. high <= Len(m.mem[b]) /\ \A i \in low + 1 .. high : m.mem[b][i] # Raw
    BY <1>0
  <2>2. QED
    BY <2>1, AssignAre
<1> HIDE DEF a
<1>2. a \in States(S) /\ SameLocals(a, m) /\ a.bad = m.bad /\ Written(a, m, b, low, some)
  BY <1>1 DEF Turned
<1>3. IsSpent(r, a, S, to - from)
  BY <1>0, <1>2, SpendIs
<1> HIDE DEF r
<1>4. r \in States(S) /\ r.mem = a.mem /\ Frame(r, m) /\ (r.threw <=> to - from > m.fuel)
  BY <1>2, <1>3 DEF IsSpent, SameLocals, Frame
<1>5. Touched(r, m, b, from, to)
  <2>1. Written(r, m, b, low, some)
    BY <1>2, <1>4 DEF Written
  <2>2. low + Len(some) <= to
    BY <1>0
  <2>3. QED
    BY <2>1, <2>2, WrittenTouches
<1>6. ASSUME ~ r.threw PROVE Written(r, m, b, from, values)
  <2>1. Len(some) = to - from
    BY <1>0, <1>4, <1>6 DEF Smaller
  <2>2. low = from /\ high = to
    BY <1>0, <2>1
  <2>3. \A j \in 1 .. Len(some) : some[j] = values[j]
    BY <2>2
  <2>4. QED
    BY <1>0, <1>2, <1>4, <2>1, <2>2, <2>3 DEF Written
<1>a. r.threw => Len(values) > 0
  BY <1>0, <1>4
<1>7. Assigned(r, m, S, b, from, to, values)
  BY <1>4, <1>5, <1>6, <1>a DEF Assigned
<1>8. QED
  BY <1>7 DEF r, a

\* copy and fill of stl_algobase.h assign from the first on, and throw where one throws.
LEMMA CopyForwardDoes ==
  ASSUME NEW S, Raw \notin S, NEW m \in States(S), NEW b \in Blocks, NEW from \in Nat, NEW to \in Nat,
         NEW values \in Seq(S), Len(values) = to - from,
         ~ m.threw => /\ to <= Len(m.mem[b])
                      /\ \A i \in from + 1 .. to : m.mem[b][i] # Raw
  PROVE  Assigned(CopyForward(m, values, Cells(b, from, to)), m, S, b, from, to, values)
<1> DEFINE at == Cells(b, from, to)
           r == CopyForward(m, values, at)
<1>0. from <= to /\ m.fuel \in Nat /\ m.threw \in BOOLEAN /\ to - from \in Nat
  BY DEF States
<1>1. CASE m.threw
  <2>1. r = m
    BY <1>1 DEF CopyForward
  <2>2. QED
    BY <1>1, <2>1 DEF Assigned, Frame
<1>2. CASE ~ m.threw
  <2>1. PICK k \in Nat : k = Smaller(m.fuel, to - from)
    BY <1>0 DEF Smaller
  <2>2. k <= to - from
    BY <1>0, <2>1 DEF Smaller
  <2>a. PICK low \in Nat, high \in Nat : low = from /\ high = from + k
    OBVIOUS
  <2> DEFINE some == First(values, m.fuel)
             where == Cells(b, low, high)
  <2>3. some \in Seq(S) /\ Len(some) = k /\ \A j \in 1 .. k : some[j] = values[j]
    BY <1>0, <2>1, FirstAre
  <2>4. First(at, m.fuel) = where
    BY <1>0, <2>1, <2>a, FirstCells
  <2>5. Len(at) = to - from
    BY <1>0, CellsAre
  <2>6. r = Spend(Assign(m, some, where), to - from)
    BY <1>2, <2>4, <2>5 DEF CopyForward
  <2> HIDE DEF some
  <2>7. /\ from <= low /\ high <= to /\ Len(some) = high - low
        /\ \A j \in 1 .. Len(some) : some[j] = values[low - from + j]
    <3>1. from <= low /\ high <= to /\ k = high - low
      BY <1>0, <2>2, <2>a
    <3>2. \A j \in 1 .. k : j = low - from + j
      BY <1>0, <2>2, <2>a
    <3>3. QED
      BY <2>3, <3>1, <3>2
  <2>8. Len(some) = Smaller(m.fuel, to - from)
    BY <2>1, <2>3
  <2>9. to <= Len(m.mem[b]) /\ \A i \in from + 1 .. to : m.mem[b][i] # Raw
    BY <1>2
  <2>10. Assigned(Spend(Assign(m, some, Cells(b, low, high)), to - from), m, S, b, from, to, values)
    BY <1>2, <2>3, <2>7, <2>8, <2>9, AssignSome
  <2>11. QED
    BY <2>6, <2>10
<1>3. QED
  BY <1>0, <1>1, <1>2

\* copy_backward assigns from the last on, and throws where one throws.
LEMMA CopyBackwardDoes ==
  ASSUME NEW S, Raw \notin S, NEW m \in States(S), NEW b \in Blocks, NEW from \in Nat, NEW to \in Nat,
         NEW values \in Seq(S), Len(values) = to - from,
         ~ m.threw => /\ to <= Len(m.mem[b])
                      /\ \A i \in from + 1 .. to : m.mem[b][i] # Raw
  PROVE  Assigned(CopyBackward(m, values, Cells(b, from, to)), m, S, b, from, to, values)
<1> DEFINE at == Cells(b, from, to)
           r == CopyBackward(m, values, at)
<1>0. from <= to /\ m.fuel \in Nat /\ m.threw \in BOOLEAN /\ to - from \in Nat
  BY DEF States
<1>1. CASE m.threw
  <2>1. r = m
    BY <1>1 DEF CopyBackward
  <2>2. QED
    BY <1>1, <2>1 DEF Assigned, Frame
<1>2. CASE ~ m.threw
  <2>1. PICK k \in Nat : k = Smaller(m.fuel, to - from)
    BY <1>0 DEF Smaller
  <2>2. k <= to - from
    BY <1>0, <2>1 DEF Smaller
  <2>a. PICK low \in Nat, high \in Nat : low = to - k /\ high = to
    BY <1>0, <2>2
  <2> DEFINE some == Last(values, m.fuel)
             where == Cells(b, low, high)
  <2>3. some \in Seq(S) /\ Len(some) = k /\ \A j \in 1 .. k : some[j] = values[(to - from) - k + j]
    <3>1. /\ some \in Seq(S) /\ Len(some) = Smaller(m.fuel, Len(values))
          /\ \A j \in 1 .. Smaller(m.fuel, Len(values)) :
               some[j] = values[Len(values) - Smaller(m.fuel, Len(values)) + j]
      BY <1>0, LastAre
    <3> HIDE DEF some
    <3>2. Smaller(m.fuel, Len(values)) = k
      BY <2>1
    <3>3. QED
      BY <3>1, <3>2
  <2>4. Last(at, m.fuel) = where
    BY <1>0, <2>1, <2>a, LastCells
  <2>5. Len(at) = to - from
    BY <1>0, CellsAre
  <2>6. r = Spend(Assign(m, some, where), to - from)
    BY <1>2, <2>4, <2>5 DEF CopyBackward
  <2> HIDE DEF some
  <2>7. /\ from <= low /\ high <= to /\ Len(some) = high - low
        /\ \A j \in 1 .. Len(some) : some[j] = values[low - from + j]
    <3>1. from <= low /\ high <= to /\ k = high - low
      BY <1>0, <2>2, <2>a
    <3>2. \A j \in 1 .. k : (to - from) - k + j = low - from + j
      BY <1>0, <2>2, <2>a
    <3>3. QED
      BY <2>3, <3>1, <3>2
  <2>8. Len(some) = Smaller(m.fuel, to - from)
    BY <2>1, <2>3
  <2>9. to <= Len(m.mem[b]) /\ \A i \in from + 1 .. to : m.mem[b][i] # Raw
    BY <1>2
  <2>10. Assigned(Spend(Assign(m, some, Cells(b, low, high)), to - from), m, S, b, from, to, values)
    BY <1>2, <2>3, <2>7, <2>8, <2>9, AssignSome
  <2>11. QED
    BY <2>6, <2>10
<1>3. QED
  BY <1>0, <1>1, <1>2

\* What allocate does: an empty block gets n raw cells.
Allocated(r, m, S, b, n) ==
    /\ r \in States(S) /\ Frame(r, m)
    /\ m.threw => r = m
    /\ r.threw => r.mem = m.mem
    /\ ~ r.threw => /\ ~ m.threw /\ Len(r.mem[b]) = n /\ \A i \in 1 .. n : r.mem[b][i] = Raw
                    /\ \A c \in Blocks : c # b => r.mem[c] = m.mem[c]

\* allocate gives raw cells, or throws and changes nothing.
LEMMA AllocateDoes ==
  ASSUME NEW S, NEW m \in States(S), NEW b \in Blocks, NEW n \in Nat
  PROVE  Allocated(Allocate(m, b, n), m, S, b, n)
<1> DEFINE r == Allocate(m, b, n)
           a == [m EXCEPT !.mem[b] = Times(n, Raw)]
<1>0. m.threw \in BOOLEAN /\ m.fuel \in Nat /\ m.mem \in [Blocks -> Seq(Cellular(S))]
  BY DEF States
<1>1. CASE m.threw
  <2>1. r = m
    BY <1>1 DEF Allocate
  <2>2. QED
    BY <1>1, <2>1 DEF Allocated, Frame
<1>2. CASE ~ m.threw /\ m.fuel = 0
  <2>1. IsSpent(Spend(m, 1), m, S, 1) /\ r = Spend(m, 1)
    BY <1>2, SpendIs DEF Allocate
  <2> HIDE DEF r
  <2>2. r \in States(S) /\ r.mem = m.mem /\ Frame(r, m) /\ (r.threw <=> 1 > m.fuel)
    BY <2>1 DEF IsSpent
  <2>3. Allocated(r, m, S, b, n)
    BY <1>2, <2>2 DEF Allocated
  <2>4. QED
    BY <2>3 DEF r
<1>3. CASE ~ m.threw /\ m.fuel # 0
  <2> DEFINE cells == Times(n, Raw)
             mem == [m.mem EXCEPT ![b] = cells]
  <2>1. cells \in Seq(Cellular(S)) /\ Len(cells) = n /\ \A i \in 1 .. n : cells[i] = Raw
    BY DEF Times, Cellular
  <2>2. r = Spend(a, 1) /\ a = [m EXCEPT !.mem = mem]
    BY <1>3 DEF Allocate
  <2> HIDE DEF a, cells
  <2>3. /\ mem \in [Blocks -> Seq(Cellular(S))] /\ mem[b] = cells
        /\ \A c \in Blocks : c # b => mem[c] = m.mem[c]
    BY <1>0, <2>1
  <2> HIDE DEF mem
  <2>4. a \in States(S) /\ a.mem = mem /\ SameLocals(a, m) /\ a.bad = m.bad
    BY <2>2, <2>3 DEF States, SameLocals
  <2>5. IsSpent(Spend(a, 1), a, S, 1)
    BY <2>4, SpendIs
  <2> HIDE DEF r
  <2>6. r \in States(S) /\ r.mem = mem /\ Frame(r, m) /\ (r.threw <=> 1 > m.fuel)
    BY <2>2, <2>4, <2>5 DEF IsSpent, Frame, SameLocals
  <2>7. ~ r.threw
    BY <1>0, <1>3, <2>6
  <2>8. Allocated(r, m, S, b, n)
    BY <1>3, <2>1, <2>3, <2>6, <2>7 DEF Allocated
  <2>9. QED
    BY <2>8 DEF r
<1>4. QED
  BY <1>0, <1>1, <1>2, <1>3

\* deallocate of a block without elements loses none.
LEMMA DeallocateDoes ==
  ASSUME NEW S, NEW m \in States(S), NEW b \in Blocks, \A i \in 1 .. Len(m.mem[b]) : m.mem[b][i] = Raw
  PROVE  /\ Deallocate(m, b) \in States(S) /\ SameLocals(Deallocate(m, b), m)
         /\ Deallocate(m, b).bad = m.bad /\ Deallocate(m, b).mem[b] = << >>
         /\ \A c \in Blocks : c # b => Deallocate(m, b).mem[c] = m.mem[c]
<1> DEFINE mem == [m.mem EXCEPT ![b] = << >>]
           d == [m EXCEPT !.mem[b] = << >>]
           misuse == ValuesIn(m.mem[b]) \ {Raw} # {}
<1>0. m.mem \in [Blocks -> Seq(Cellular(S))] /\ m.mem[b] \in Seq(Cellular(S))
  BY DEF States
<1>1. misuse = FALSE
  BY <1>0, ValuesAre
<1>2. Deallocate(m, b) = Misused(d, misuse) /\ d = [m EXCEPT !.mem = mem]
  BY DEF Deallocate
<1>3. << >> \in Seq(Cellular(S))
  OBVIOUS
<1>4. /\ mem \in [Blocks -> Seq(Cellular(S))] /\ mem[b] = << >>
      /\ \A c \in Blocks : c # b => mem[c] = m.mem[c]
  BY <1>0, <1>3
<1> HIDE DEF mem, misuse, d
<1>5. d \in States(S) /\ d.mem = mem /\ SameLocals(d, m) /\ d.bad = m.bad
  BY <1>2, <1>4 DEF States, SameLocals
<1>6. Deallocate(m, b) = Misused(d, FALSE)
  BY <1>1, <1>2
<1>7. /\ Misused(d, FALSE) \in States(S) /\ Misused(d, FALSE).mem = d.mem
      /\ SameLocals(Misused(d, FALSE), d)
      /\ Misused(d, FALSE).bad = (d.bad \/ FALSE)
  BY <1>5, NotMisused
<1> DEFINE r == Deallocate(m, b)
<1> HIDE DEF r
<1>8. r \in States(S) /\ r.mem = d.mem /\ SameLocals(r, d) /\ r.bad = d.bad
  <2>1. d.bad \in BOOLEAN
    BY <1>5 DEF States
  <2>2. QED
    BY <1>6, <1>7, <2>1 DEF r
<1>9. r \in States(S) /\ SameLocals(r, m) /\ r.bad = m.bad /\ r.mem = mem
  BY <1>5, <1>8 DEF SameLocals
<1>10. QED
  BY <1>4, <1>9 DEF r

-----------------------------------------------------------------------------
(* Blocks of which the first cells hold elements                            *)

\* The first k cells hold elements, the others none.
Alive(cells, k) == k <= Len(cells) /\ \A i \in 1 .. Len(cells) : cells[i] # Raw <=> i <= k

\* The parts of a memory, as the provers need them
LEMMA StateParts ==
  ASSUME NEW S, NEW m \in States(S)
  PROVE  /\ m.mem["old"] \in Seq(Cellular(S)) /\ m.mem["new"] \in Seq(Cellular(S))
         /\ Len(m.mem["old"]) \in Nat /\ Len(m.mem["new"]) \in Nat
         /\ m.size \in Nat /\ m.built \in Nat /\ m.fuel \in Nat
         /\ m.threw \in BOOLEAN /\ m.bad \in BOOLEAN
         /\ "old" \in Blocks /\ "new" \in Blocks
<1>1. m.mem \in [Blocks -> Seq(Cellular(S))]
  BY DEF States
<1>2. m.mem["old"] \in Seq(Cellular(S)) /\ m.mem["new"] \in Seq(Cellular(S))
  BY <1>1 DEF Blocks
<1>3. QED
  BY <1>2 DEF States, Blocks

\* destroy of all elements of a block leaves it raw, whatever it held.
LEMMA DestroyAll ==
  ASSUME NEW S, NEW m \in States(S), NEW b \in Blocks, NEW k \in Nat, Alive(m.mem[b], k)
  PROVE  /\ Destroy(m, Cells(b, 0, k)) \in States(S) /\ SameLocals(Destroy(m, Cells(b, 0, k)), m)
         /\ Destroy(m, Cells(b, 0, k)).bad = m.bad
         /\ \A i \in 1 .. Len(Destroy(m, Cells(b, 0, k)).mem[b]) : Destroy(m, Cells(b, 0, k)).mem[b][i] = Raw
         /\ \A c \in Blocks : c # b => Destroy(m, Cells(b, 0, k)).mem[c] = m.mem[c]
<1> DEFINE d == Destroy(m, Cells(b, 0, k))
<1>1. k <= Len(m.mem[b]) /\ \A i \in 1 .. Len(m.mem[b]) : m.mem[b][i] # Raw <=> i <= k
  BY DEF Alive
<1>a. m.mem[b] \in Seq(Cellular(S)) /\ Len(m.mem[b]) \in Nat
  <2>1. m.mem \in [Blocks -> Seq(Cellular(S))]
    BY DEF States
  <2>2. QED
    BY <2>1
<1>2. Turned(d, m, S, b, 0, Times(k, Raw))
  <2>0. PICK from \in Nat : from = 0
    OBVIOUS
  <2>1. \A i \in from + 1 .. k : m.mem[b][i] # Raw
    BY <1>1, <1>a, <2>0
  <2>2. Turned(Destroy(m, Cells(b, from, k)), m, S, b, from, Times(k - from, Raw))
    BY <1>1, <1>a, <2>0, <2>1, DestroyAre
  <2>3. k - from = k
    BY <2>0
  <2>4. QED
    BY <2>0, <2>2, <2>3
<1> HIDE DEF d
<1>3. d \in States(S) /\ SameLocals(d, m) /\ d.bad = m.bad /\ Written(d, m, b, 0, Times(k, Raw))
  BY <1>2 DEF Turned
<1>4. ASSUME NEW i \in 1 .. Len(d.mem[b]) PROVE d.mem[b][i] = Raw
  <2>1. Len(Times(k, Raw)) = k /\ \A j \in 1 .. k : Times(k, Raw)[j] = Raw
    BY DEF Times
  <2>2. i \in 1 .. Len(m.mem[b])
    BY <1>3 DEF Written
  <2>3. d.mem[b][i] = IF 0 < i /\ i <= 0 + Len(Times(k, Raw)) THEN Times(k, Raw)[i - 0] ELSE m.mem[b][i]
    BY <1>3, <2>2 DEF Written
  <2>4. CASE i <= k
    <3>1. i - 0 = i /\ i \in 1 .. k
      BY <1>a, <2>2, <2>4
    <3>2. QED
      BY <2>1, <2>3, <3>1
  <2>5. CASE ~ (i <= k)
    <3>1. m.mem[b][i] = Raw
      BY <1>1, <2>2, <2>5
    <3>2. QED
      BY <2>1, <2>3, <2>5, <3>1
  <2>6. QED
    BY <2>4, <2>5
<1>5. \A c \in Blocks : c # b => d.mem[c] = m.mem[c]
  BY <1>3 DEF Written
<1>6. QED
  BY <1>3, <1>4, <1>5 DEF d

-----------------------------------------------------------------------------
(* Sequences                                                                *)

\* t is s with the elements behind from and up to to replaced by values.
Spliced(t, s, from, to, values) ==
    /\ Len(t) = from + Len(values) + (Len(s) - to)
    /\ \A i \in 1 .. from : t[i] = s[i]
    /\ \A j \in 1 .. Len(values) : t[from + j] = values[j]
    /\ \A j \in 1 .. Len(s) - to : t[from + Len(values) + j] = s[to + j]

\* Values joined to a sequence
Joined(t, S, s, w) ==
    /\ t \in Seq(S) /\ Len(t) = Len(s) + Len(w)
    /\ \A i \in 1 .. Len(s) : t[i] = s[i]
    /\ \A j \in 1 .. Len(w) : t[Len(s) + j] = w[j]

\* Two sequences one after the other
LEMMA JoinedAre ==
  ASSUME NEW S, NEW s \in Seq(S), NEW w \in Seq(S)
  PROVE  Joined(s \o w, S, s, w)
BY DEF Joined

\* A sequence of some values is a sequence of more.
LEMMA WiderSequences ==
  ASSUME NEW S, NEW U, S \subseteq U
  PROVE  Seq(S) \subseteq Seq(U)
OBVIOUS

\* Replacing all elements leaves the new ones.
LEMMA SplicedAll ==
  ASSUME NEW S, NEW s \in Seq(S), NEW t \in Seq(S), NEW values \in Seq(S), Spliced(t, s, 0, Len(s), values)
  PROVE  t = values
<1>1. Len(t) = 0 + Len(values) + (Len(s) - Len(s)) /\ \A j \in 1 .. Len(values) : t[0 + j] = values[j]
  BY DEF Spliced
<1>2. Len(t) = Len(values)
  BY <1>1
<1>3. \A j \in 1 .. Len(values) : t[j] = values[j]
  BY <1>1
<1>4. QED
  BY <1>2, <1>3

\* Replacing no element by none changes nothing.
LEMMA SplicedNone ==
  ASSUME NEW S, NEW s \in Seq(S), NEW t \in Seq(S), Spliced(t, s, Len(s), Len(s), << >>)
  PROVE  t = s
<1>1. Len(<< >>) = 0
  OBVIOUS
<1>2. Len(t) = Len(s) + 0 + (Len(s) - Len(s)) /\ \A i \in 1 .. Len(s) : t[i] = s[i]
  BY <1>1 DEF Spliced
<1>3. Len(t) = Len(s)
  BY <1>2
<1>4. QED
  BY <1>2, <1>3

-----------------------------------------------------------------------------
(* Blocks that hold a sequence                                              *)

\* The first cells hold the elements of w, the others none.
Fills(cells, w) == Alive(cells, Len(w)) /\ \A i \in 1 .. Len(w) : cells[i] = w[i]

\* A block has cells, and the others are those of other blocks.
LEMMA BlockParts ==
  ASSUME NEW S, NEW m \in States(S), NEW b \in Blocks
  PROVE  m.mem[b] \in Seq(Cellular(S)) /\ Len(m.mem[b]) \in Nat
<1>1. m.mem \in [Blocks -> Seq(Cellular(S))]
  BY DEF States
<1>2. QED
  BY <1>1

\* What is constructed behind the elements is joined to them, or it throws.
Built(r, m, S, b, w, values) ==
    /\ r \in States(S) /\ Frame(r, m)
    /\ m.threw => r = m
    /\ r.threw => r.mem = m.mem
    /\ ~ r.threw => /\ ~ m.threw /\ Len(r.mem[b]) = Len(m.mem[b]) /\ Fills(r.mem[b], w \o values)
                    /\ \A c \in Blocks : c # b => r.mem[c] = m.mem[c]

\* uninitialized_copy to the cells behind the elements
LEMMA BuildFills ==
  ASSUME NEW S, Raw \notin S, NEW m \in States(S), NEW b \in Blocks, NEW w \in Seq(S), Fills(m.mem[b], w),
         NEW values \in Seq(S), NEW to \in Nat, to = Len(w) + Len(values),
         ~ m.threw => to <= Len(m.mem[b])
  PROVE  Built(UninitializedCopy(m, values, Cells(b, Len(w), to)), m, S, b, w, values)
<1> DEFINE r == UninitializedCopy(m, values, Cells(b, Len(w), to))
           k == Len(w)
           v == w \o values
<1>0. k \in Nat /\ Len(values) \in Nat /\ Len(values) = to - k
  OBVIOUS
<1>1. /\ m.mem[b] \in Seq(Cellular(S)) /\ Len(m.mem[b]) \in Nat
      /\ k <= Len(m.mem[b]) /\ \A i \in 1 .. Len(m.mem[b]) : m.mem[b][i] # Raw <=> i <= k
      /\ \A i \in 1 .. k : m.mem[b][i] = w[i]
  BY BlockParts DEF Fills, Alive
<1>2. Joined(v, S, w, values)
  BY JoinedAre
<1>3. /\ v \in Seq(S) /\ Len(v) = to /\ \A i \in 1 .. k : v[i] = w[i]
      /\ \A j \in 1 .. Len(values) : v[k + j] = values[j]
  BY <1>2 DEF Joined
<1> HIDE DEF k, v
<1>4. Copied(UninitializedCopy(m, values, Cells(b, k, to)), m, S, b, k, values)
  <2>1. ~ m.threw => to <= Len(m.mem[b]) /\ \A i \in k + 1 .. to : m.mem[b][i] = Raw
    BY <1>0, <1>1
  <2>2. QED
    BY <1>0, <2>1, UninitializedCopyDoes
<1>5. Copied(r, m, S, b, k, values)
  BY <1>4 DEF k
<1> HIDE DEF r
<1>6. ASSUME ~ r.threw
      PROVE  /\ ~ m.threw /\ Len(r.mem[b]) = Len(m.mem[b]) /\ Fills(r.mem[b], v)
             /\ \A c \in Blocks : c # b => r.mem[c] = m.mem[c]
  <2>1. /\ ~ m.threw /\ Len(r.mem[b]) = Len(m.mem[b]) /\ to <= Len(m.mem[b])
        /\ \A i \in 1 .. Len(m.mem[b]) :
             r.mem[b][i] = IF k < i /\ i <= k + Len(values) THEN values[i - k] ELSE m.mem[b][i]
        /\ \A c \in Blocks : c # b => r.mem[c] = m.mem[c]
    BY <1>5, <1>6 DEF Copied, Written
  <2>2. ASSUME NEW i \in 1 .. to PROVE r.mem[b][i] = v[i]
    <3>1. i \in 1 .. Len(m.mem[b])
      BY <1>1, <2>1
    <3>2. CASE i <= k
      BY <1>0, <1>1, <1>3, <2>1, <3>1, <3>2
    <3>3. CASE ~ (i <= k)
      <4>1. PICK j \in 1 .. Len(values) : j = i - k
        BY <1>0, <3>3
      <4>2. r.mem[b][i] = values[j] /\ i = k + j
        BY <1>0, <2>1, <3>1, <3>3, <4>1
      <4>3. QED
        BY <1>3, <4>2
    <3>4. QED
      BY <3>2, <3>3
  <2>3. ASSUME NEW i \in 1 .. Len(m.mem[b]) PROVE r.mem[b][i] # Raw <=> i <= to
    <3>1. CASE i <= to
      <4>1. i \in 1 .. to
        BY <3>1
      <4>2. r.mem[b][i] = v[i] /\ v[i] \in S
        BY <1>3, <2>2, <4>1
      <4>3. QED
        BY <3>1, <4>2
    <3>2. CASE ~ (i <= to)
      <4>1. ~ (i <= k + Len(values)) /\ ~ (i <= k)
        BY <1>0, <3>2
      <4>2. r.mem[b][i] = m.mem[b][i] /\ m.mem[b][i] = Raw
        BY <1>1, <2>1, <4>1
      <4>3. QED
        BY <3>2, <4>2
    <3>3. QED
      BY <3>1, <3>2
  <2>4. Alive(r.mem[b], to)
    BY <2>1, <2>3 DEF Alive
  <2>5. QED
    BY <1>3, <2>1, <2>2, <2>4 DEF Fills
<1>7. Built(r, m, S, b, w, values)
  BY <1>5, <1>6 DEF Built, Copied, v
<1>8. QED
  BY <1>7 DEF r

\* The block is left with w, nothing was misused, and no other block is another one.
Refilled(r, m, S, b, w) ==
    /\ r \in States(S) /\ SameLocals(r, m) /\ r.bad = m.bad
    /\ Len(r.mem[b]) = Len(m.mem[b]) /\ Fills(r.mem[b], w)
    /\ \A c \in Blocks : c # b => r.mem[c] = m.mem[c]

\* destroy of the last elements
LEMMA DestroyFills ==
  ASSUME NEW S, NEW m \in States(S), NEW b \in Blocks, NEW w \in Seq(S), Fills(m.mem[b], w),
         NEW n \in Nat, n <= Len(w)
  PROVE  Refilled(Destroy(m, Cells(b, n, Len(w))), m, S, b, SubSeq(w, 1, n))
<1> DEFINE r == Destroy(m, Cells(b, n, Len(w)))
           k == Len(w)
           v == SubSeq(w, 1, n)
           none == Times(k - n, Raw)
<1>0. k \in Nat /\ k - n \in Nat
  OBVIOUS
<1>1. /\ m.mem[b] \in Seq(Cellular(S)) /\ Len(m.mem[b]) \in Nat
      /\ k <= Len(m.mem[b]) /\ \A i \in 1 .. Len(m.mem[b]) : m.mem[b][i] # Raw <=> i <= k
      /\ \A i \in 1 .. k : m.mem[b][i] = w[i]
  BY BlockParts DEF Fills, Alive
<1>2. v \in Seq(S) /\ Len(v) = n /\ \A i \in 1 .. n : v[i] = w[i]
  OBVIOUS
<1> HIDE DEF k, v
<1>3. Len(none) = k - n /\ \A j \in 1 .. k - n : none[j] = Raw
  BY <1>0 DEF Times
<1>4. Turned(Destroy(m, Cells(b, n, k)), m, S, b, n, none)
  <2>1. n <= k /\ \A i \in n + 1 .. k : m.mem[b][i] # Raw
    BY <1>0, <1>1 DEF k
  <2>2. QED
    BY <1>0, <1>1, <2>1, DestroyAre
<1> HIDE DEF none
<1>5. Turned(r, m, S, b, n, none)
  BY <1>4 DEF k
<1> HIDE DEF r
<1>6. /\ r \in States(S) /\ SameLocals(r, m) /\ r.bad = m.bad /\ Len(r.mem[b]) = Len(m.mem[b])
      /\ \A i \in 1 .. Len(m.mem[b]) :
           r.mem[b][i] = IF n < i /\ i <= n + Len(none) THEN none[i - n] ELSE m.mem[b][i]
      /\ \A c \in Blocks : c # b => r.mem[c] = m.mem[c]
  BY <1>5 DEF Turned, Written
<1>a. n <= k
  BY DEF k
<1>7. ASSUME NEW i \in 1 .. Len(m.mem[b])
      PROVE  r.mem[b][i] = IF n < i /\ i <= k THEN Raw ELSE m.mem[b][i]
  <2>1. CASE n < i /\ i <= k
    <3>1. i - n \in 1 .. k - n /\ i <= n + Len(none)
      BY <1>0, <1>3, <2>1
    <3>2. QED
      BY <1>3, <1>6, <2>1, <3>1
  <2>2. CASE ~ (n < i /\ i <= k)
    <3>1. ~ (n < i /\ i <= n + Len(none))
      BY <1>0, <1>3, <2>2
    <3>2. QED
      BY <1>6, <2>2, <3>1
  <2>3. QED
    BY <2>1, <2>2
<1>8. Alive(r.mem[b], n)
  <2>1. ASSUME NEW i \in 1 .. Len(m.mem[b]) PROVE r.mem[b][i] # Raw <=> i <= n
    <3>1. /\ r.mem[b][i] = IF n < i /\ i <= k THEN Raw ELSE m.mem[b][i]
          /\ m.mem[b][i] # Raw <=> i <= k
      BY <1>1, <1>7
    <3>2. CASE i <= n
      <4>1. ~ (n < i) /\ i <= k
        BY <1>0, <1>a, <3>2
      <4>2. QED
        BY <3>1, <3>2, <4>1
    <3>3. CASE ~ (i <= n)
      <4>1. n < i
        BY <3>3
      <4>2. QED
        BY <3>1, <3>3, <4>1
    <3>4. QED
      BY <3>2, <3>3
  <2>2. n <= Len(m.mem[b])
    BY <1>0, <1>1, <1>a
  <2>3. QED
    BY <1>6, <2>1, <2>2 DEF Alive
<1>9. ASSUME NEW i \in 1 .. n PROVE r.mem[b][i] = v[i]
  <2>1. i \in 1 .. Len(m.mem[b]) /\ i \in 1 .. k /\ ~ (n < i)
    BY <1>0, <1>1, <1>a
  <2>2. QED
    BY <1>1, <1>2, <1>7, <2>1
<1>10. Refilled(r, m, S, b, v)
  BY <1>2, <1>6, <1>8, <1>9 DEF Refilled, Fills
<1>11. QED
  BY <1>10 DEF r, v

\* w with values behind from in the place of what is there
Over(w, from, values) ==
    [i \in 1 .. Len(w) |-> IF from < i /\ i <= from + Len(values) THEN values[i - from] ELSE w[i]]

\* It is as long as w.
LEMMA OverAre ==
  ASSUME NEW S, NEW w \in Seq(S), NEW from \in Nat, NEW values \in Seq(S), from + Len(values) <= Len(w)
  PROVE  /\ Over(w, from, values) \in Seq(S) /\ Len(Over(w, from, values)) = Len(w)
         /\ \A i \in 1 .. Len(w) : Over(w, from, values)[i] =
              IF from < i /\ i <= from + Len(values) THEN values[i - from] ELSE w[i]
<1>1. ASSUME NEW i \in 1 .. Len(w)
      PROVE  (IF from < i /\ i <= from + Len(values) THEN values[i - from] ELSE w[i]) \in S
  <2>1. CASE from < i /\ i <= from + Len(values)
    <3>1. i - from \in 1 .. Len(values)
      BY <2>1
    <3>2. QED
      BY <2>1, <3>1
  <2>2. CASE ~ (from < i /\ i <= from + Len(values))
    BY <2>2
  <2>3. QED
    BY <2>1, <2>2
<1>2. Len(w) \in Nat
  OBVIOUS
<1>3. QED
  BY <1>1, <1>2 DEF Over

\* Elements that are assigned to some of the elements
LEMMA AssignFills ==
  ASSUME NEW S, Raw \notin S, NEW m \in States(S), NEW b \in Blocks, NEW w \in Seq(S), Fills(m.mem[b], w),
         NEW values \in Seq(S), NEW from \in Nat, NEW to \in Nat, to = from + Len(values), to <= Len(w)
  PROVE  Refilled(Assign(m, values, Cells(b, from, to)), m, S, b, Over(w, from, values))
<1> DEFINE r == Assign(m, values, Cells(b, from, to))
           k == Len(w)
           v == Over(w, from, values)
<1>0. k \in Nat /\ Len(values) \in Nat /\ Len(values) = to - from /\ to <= k
  OBVIOUS
<1>1. /\ m.mem[b] \in Seq(Cellular(S)) /\ Len(m.mem[b]) \in Nat
      /\ k <= Len(m.mem[b]) /\ \A i \in 1 .. Len(m.mem[b]) : m.mem[b][i] # Raw <=> i <= k
      /\ \A i \in 1 .. k : m.mem[b][i] = w[i]
  BY BlockParts DEF Fills, Alive
<1>2. /\ v \in Seq(S) /\ Len(v) = k
      /\ \A i \in 1 .. k : v[i] = IF from < i /\ i <= from + Len(values) THEN values[i - from] ELSE w[i]
  BY OverAre
<1> HIDE DEF k, v
<1>3. Turned(r, m, S, b, from, values)
  <2>1. to <= Len(m.mem[b]) /\ \A i \in from + 1 .. to : m.mem[b][i] # Raw
    BY <1>0, <1>1
  <2>2. QED
    BY <1>0, <2>1, AssignAre
<1> HIDE DEF r
<1>4. /\ r \in States(S) /\ SameLocals(r, m) /\ r.bad = m.bad /\ Len(r.mem[b]) = Len(m.mem[b])
      /\ \A i \in 1 .. Len(m.mem[b]) :
           r.mem[b][i] = IF from < i /\ i <= from + Len(values) THEN values[i - from] ELSE m.mem[b][i]
      /\ \A c \in Blocks : c # b => r.mem[c] = m.mem[c]
  BY <1>3 DEF Turned, Written
<1>5. ASSUME NEW i \in 1 .. k PROVE r.mem[b][i] = v[i]
  <2>1. i \in 1 .. Len(m.mem[b])
    BY <1>0, <1>1
  <2>2. QED
    BY <1>1, <1>2, <1>4, <2>1
<1>6. Alive(r.mem[b], k)
  <2>1. ASSUME NEW i \in 1 .. Len(m.mem[b]) PROVE r.mem[b][i] # Raw <=> i <= k
    <3>1. CASE i <= k
      <4>1. i \in 1 .. k
        BY <3>1
      <4>2. v[i] \in S
        BY <1>2, <4>1
      <4>3. QED
        BY <1>5, <3>1, <4>1, <4>2
    <3>2. CASE ~ (i <= k)
      <4>1. ~ (i <= from + Len(values))
        BY <1>0, <3>2
      <4>2. r.mem[b][i] = m.mem[b][i] /\ m.mem[b][i] = Raw
        BY <1>1, <1>4, <3>2, <4>1
      <4>3. QED
        BY <3>2, <4>2
    <3>3. QED
      BY <3>1, <3>2
  <2>2. QED
    BY <1>1, <1>4, <2>1 DEF Alive
<1>7. Refilled(r, m, S, b, v)
  BY <1>2, <1>4, <1>5, <1>6 DEF Refilled, Fills
<1>8. QED
  BY <1>7 DEF r, v

\* The elements from from to to of w
Piece(w, from, to) == SubSeq(w, from + 1, to)

\* There are as many.
LEMMA PieceAre ==
  ASSUME NEW S, NEW w \in Seq(S), NEW from \in Nat, NEW to \in Nat, from <= to, to <= Len(w)
  PROVE  /\ Piece(w, from, to) \in Seq(S) /\ Len(Piece(w, from, to)) = to - from
         /\ \A j \in 1 .. to - from : Piece(w, from, to)[j] = w[from + j]
BY DEF Piece

\* Elements that are read are those of the sequence.
LEMMA ReadFills ==
  ASSUME NEW S, NEW m \in States(S), NEW b \in Blocks, NEW w \in Seq(S), Fills(m.mem[b], w),
         NEW from \in Nat, NEW to \in Nat, from <= to, to <= Len(w)
  PROVE  Read(m, Cells(b, from, to)) = Piece(w, from, to)
<1> DEFINE r == Read(m, Cells(b, from, to))
           p == Piece(w, from, to)
<1>1. /\ m.mem[b] \in Seq(Cellular(S)) /\ Len(m.mem[b]) \in Nat /\ Len(w) \in Nat
      /\ Len(w) <= Len(m.mem[b]) /\ \A i \in 1 .. Len(w) : m.mem[b][i] = w[i]
  BY BlockParts DEF Fills, Alive
<1>2. /\ p \in Seq(S) /\ Len(p) = to - from /\ \A j \in 1 .. to - from : p[j] = w[from + j]
  BY PieceAre
<1> HIDE DEF p
<1>3. IsRead(r, m, S, b, from, to)
  <2>1. to <= Len(m.mem[b])
    BY <1>1
  <2>2. QED
    BY <2>1, ReadAre
<1> HIDE DEF r
<1>4. /\ r \in Seq(Cellular(S)) /\ Len(r) = to - from
      /\ \A j \in 1 .. to - from : r[j] = m.mem[b][from + j]
  BY <1>3 DEF IsRead
<1>5. ASSUME NEW j \in 1 .. to - from PROVE r[j] = p[j]
  <2>1. from + j \in 1 .. Len(w)
    BY <1>1
  <2>2. QED
    BY <1>1, <1>2, <1>4, <2>1
<1>6. p \in Seq(Cellular(S))
  <2>1. S \subseteq Cellular(S)
    BY DEF Cellular
  <2>2. QED
    BY <1>2, <2>1, WiderSequences
<1>7. r = p
  BY <1>2, <1>4, <1>5, <1>6
<1>8. QED
  BY <1>7 DEF r, p
=============================================================================
