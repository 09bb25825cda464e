-------------------------- MODULE BasicStringProofs --------------------------
(***************************************************************************)
(* Why a string stays one, and is what its calls say, for any characters,  *)
(* lengths and fuel.  Between two calls the block holds the characters and *)
(* the null, and nothing else (IInv); every call turns a memory that holds *)
(* s into one that holds Splice(s, from, to, values), or throws and leaves *)
(* s, or what was assigned before: each operation has a lemma that says    *)
(* so with Gives.  The one insertion that may lose characters of the new   *)
(* block, where it throws, has MayGive instead.                            *)
(*                                                                         *)
(* The null is a character like the others to the operations: they work on *)
(* Whole(s), whose characters the lemmas on Filled follow.                 *)
(***************************************************************************)
EXTENDS BasicString, ElementsProofs, WellFoundedInduction

\* What a string has in its block
Chars == Value \union {NullChar}
Whole(s) == s \o << NullChar >>

\* The string's block holds w, and nothing was misused.
Filled(m, w) ==
    /\ m \in States(Chars) /\ ~ m.bad /\ m.mem["new"] = << >>
    /\ w \in Seq(Chars) /\ Fills(m.mem["old"], w)

\* The memory holds the string s.
IsString(m, s) == s \in Seq(Value) /\ Filled(m, Whole(s)) /\ m.size = Len(s)

\* Raw is no character, and the bounds of the model are numbers.
StringParameters ==
    /\ Raw \notin Chars /\ InitialCells \in Nat \ {0} /\ Plenty \in Nat /\ MaxLength \in Nat
    /\ InsertedMayThrow \in BOOLEAN

\* What is searched has positions that fit into size_type, and no character is before itself.
SearchParameters ==
    /\ StringParameters
    /\ Npos \in Nat /\ 2 <= Npos /\ MaxLength <= Npos
    /\ \A c \in Value : ~ CharLess(c, c)

\* The room of the string's block
Room(m) == Len(m.mem["old"])

\* r holds w, and differs from m in that only.
Holding(r, m, w) == Filled(r, w) /\ SameLocals(r, m) /\ Room(r) = Room(m)

\* Of a string that m has, steps have left w, or v if they threw.
Grows(r, m, v, w) ==
    /\ r.size = m.size /\ Room(r) = Room(m) /\ r.threw \in BOOLEAN
    /\ r.threw => Filled(r, v)
    /\ ~ r.threw => Filled(r, w)

-----------------------------------------------------------------------------
(* Strings and their nulls                                                  *)

\* A string, and the null behind it
LEMMA WholeAre ==
  ASSUME NEW s \in Seq(Value)
  PROVE  /\ s \in Seq(Chars) /\ Whole(s) \in Seq(Chars) /\ Len(Whole(s)) = Len(s) + 1 /\ Len(s) \in Nat
         /\ \A i \in 1 .. Len(s) : Whole(s)[i] = s[i]
         /\ Whole(s)[Len(s) + 1] = NullChar
<1>1. s \in Seq(Chars) /\ << NullChar >> \in Seq(Chars) /\ Len(<< NullChar >>) = 1 /\ << NullChar >>[1] = NullChar
  BY WiderSequences DEF Chars
<1>2. Joined(Whole(s), Chars, s, << NullChar >>)
  BY <1>1, JoinedAre DEF Whole
<1> DEFINE w == Whole(s)
<1> HIDE DEF w
<1>3. /\ w \in Seq(Chars) /\ Len(w) = Len(s) + Len(<< NullChar >>)
      /\ \A i \in 1 .. Len(s) : w[i] = s[i]
      /\ \A j \in 1 .. Len(<< NullChar >>) : w[Len(s) + j] = << NullChar >>[j]
  BY <1>2 DEF Joined, w
<1>4. w[Len(s) + 1] = NullChar
  BY <1>1, <1>3
<1>5. Len(w) = Len(s) + 1
  BY <1>1, <1>3
<1>6. QED
  BY <1>1, <1>3, <1>4, <1>5 DEF w

\* The parts of a memory that holds w
LEMMA FilledParts ==
  ASSUME NEW m, NEW w, Filled(m, w)
  PROVE  /\ m \in States(Chars) /\ ~ m.bad /\ m.mem["new"] = << >> /\ w \in Seq(Chars) /\ Len(w) \in Nat
         /\ m.mem["old"] \in Seq(Cellular(Chars)) /\ Room(m) \in Nat
         /\ Fills(m.mem["old"], w) /\ Alive(m.mem["old"], Len(w)) /\ Len(w) <= Room(m)
         /\ m.size \in Nat /\ m.built \in Nat /\ m.fuel \in Nat /\ m.threw \in BOOLEAN
<1>1. m \in States(Chars) /\ w \in Seq(Chars) /\ Fills(m.mem["old"], w)
  BY DEF Filled
<1>2. m.mem["old"] \in Seq(Cellular(Chars)) /\ Len(m.mem["old"]) \in Nat /\ m.size \in Nat
      /\ m.built \in Nat /\ m.fuel \in Nat /\ m.threw \in BOOLEAN
  BY <1>1, StateParts
<1>3. Alive(m.mem["old"], Len(w)) /\ Len(w) <= Len(m.mem["old"])
  BY <1>1 DEF Fills, Alive
<1>4. QED
  BY <1>1, <1>2, <1>3 DEF Filled, Room

\* Characters that are moved over others
LEMMA MoveFilled ==
  ASSUME Raw \notin Chars, NEW m, NEW w, Filled(m, w), ~ m.threw, NEW values \in Seq(Chars),
         NEW from \in Nat, NEW to \in Nat, to = from + Len(values), to <= Len(w)
  PROVE  Holding(Move(m, values, OldCells(from, to)), m, Over(w, from, values))
<1> DEFINE r == Move(m, values, OldCells(from, to))
           v == Over(w, from, values)
<1>1. /\ m \in States(Chars) /\ ~ m.bad /\ m.mem["new"] = << >> /\ w \in Seq(Chars) /\ Fills(m.mem["old"], w)
      /\ "old" \in Blocks /\ "new" \in Blocks
  BY FilledParts DEF Blocks
<1>2. r = Assign(m, values, Cells("old", from, to))
  BY DEF Move, OldCells
<1>3. Refilled(Assign(m, values, Cells("old", from, to)), m, Chars, "old", v)
  BY <1>1, AssignFills
<1>4. v \in Seq(Chars)
  BY <1>1, OverAre
<1> HIDE DEF r, v
<1>5. /\ r \in States(Chars) /\ SameLocals(r, m) /\ r.bad = m.bad
      /\ Len(r.mem["old"]) = Len(m.mem["old"]) /\ Fills(r.mem["old"], v)
      /\ \A c \in Blocks : c # "old" => r.mem[c] = m.mem[c]
  BY <1>2, <1>3 DEF Refilled
<1>6. r.mem["new"] = << >>
  BY <1>1, <1>5
<1>7. Holding(r, m, v)
  BY <1>1, <1>4, <1>5, <1>6 DEF Holding, Filled, Room
<1>8. QED
  BY <1>7 DEF r, v

\* Characters that are built behind the others
LEMMA BuildFilled ==
  ASSUME Raw \notin Chars, NEW m, NEW w, Filled(m, w), NEW values \in Seq(Chars), NEW k \in Nat, k = Len(w),
         ~ m.threw => k + Len(values) <= Room(m)
  PROVE  Grows(Build(m, values, k), m, w, w \o values)
<1> DEFINE r == Build(m, values, k)
           v == w \o values
<1>1. /\ m \in States(Chars) /\ ~ m.bad /\ m.mem["new"] = << >> /\ w \in Seq(Chars) /\ Fills(m.mem["old"], w)
      /\ "old" \in Blocks /\ "new" \in Blocks
  BY FilledParts DEF Blocks
<1>2. PICK to \in Nat : to = k + Len(values)
  OBVIOUS
<1>3. r = UninitializedCopy(m, values, Cells("old", Len(w), to))
  BY <1>2 DEF Build, OldCells
<1>4. Built(UninitializedCopy(m, values, Cells("old", Len(w), to)), m, Chars, "old", w, values)
  BY <1>1, <1>2, BuildFills DEF Room
<1>5. v \in Seq(Chars)
  BY <1>1
<1> HIDE DEF r, v
<1>6. /\ r \in States(Chars) /\ r.size = m.size /\ r.bad = m.bad
      /\ m.threw => r = m
      /\ r.threw => r.mem = m.mem
      /\ ~ r.threw => /\ ~ m.threw /\ Len(r.mem["old"]) = Len(m.mem["old"]) /\ Fills(r.mem["old"], v)
                      /\ \A c \in Blocks : c # "old" => r.mem[c] = m.mem[c]
  BY <1>3, <1>4 DEF Built, Frame, v
<1>a. r.threw \in BOOLEAN
  BY <1>6, StateParts
<1>7. ASSUME r.threw PROVE Grows(r, m, w, v)
  BY <1>1, <1>6, <1>7, <1>a DEF Grows, Filled, Room
<1>8. ASSUME ~ r.threw PROVE Grows(r, m, w, v)
  <2>1. r.mem["new"] = << >>
    BY <1>1, <1>6, <1>8
  <2>2. Filled(r, v)
    BY <1>1, <1>5, <1>6, <1>8, <2>1 DEF Filled
  <2>3. QED
    BY <1>6, <1>8, <1>a, <2>2 DEF Grows, Room
<1>9. Grows(r, m, w, v)
  BY <1>7, <1>8, <1>a
<1>10. QED
  BY <1>9 DEF r, v

\* Characters at the end that are destroyed
LEMMA DestroyFilled ==
  ASSUME NEW m, NEW w, Filled(m, w), NEW n \in Nat, n <= Len(w), NEW to, to = Len(w)
  PROVE  Holding(Destroy(m, OldCells(n, to)), m, SubSeq(w, 1, n))
<1> DEFINE r == Destroy(m, OldCells(n, to))
           v == SubSeq(w, 1, n)
<1>1. /\ m \in States(Chars) /\ ~ m.bad /\ m.mem["new"] = << >> /\ w \in Seq(Chars) /\ Fills(m.mem["old"], w)
      /\ "old" \in Blocks /\ "new" \in Blocks
  BY FilledParts DEF Blocks
<1>2. r = Destroy(m, Cells("old", n, Len(w)))
  BY DEF OldCells
<1>3. Refilled(Destroy(m, Cells("old", n, Len(w))), m, Chars, "old", v)
  BY <1>1, DestroyFills
<1>4. v \in Seq(Chars)
  BY <1>1
<1> HIDE DEF r, v
<1>5. /\ r \in States(Chars) /\ SameLocals(r, m) /\ r.bad = m.bad
      /\ Len(r.mem["old"]) = Len(m.mem["old"]) /\ Fills(r.mem["old"], v)
      /\ \A c \in Blocks : c # "old" => r.mem[c] = m.mem[c]
  BY <1>2, <1>3 DEF Refilled
<1>6. r.mem["new"] = << >>
  BY <1>1, <1>5
<1>7. Holding(r, m, v)
  BY <1>1, <1>4, <1>5, <1>6 DEF Holding, Filled, Room
<1>8. QED
  BY <1>7 DEF r, v

\* values are those of w from from to to.
IsPiece(values, w, from, to) ==
    /\ values \in Seq(Chars) /\ Len(values) = to - from
    /\ \A j \in 1 .. to - from : values[j] = w[from + j]

\* Characters that are read
LEMMA OldsFilled ==
  ASSUME NEW m, NEW w, Filled(m, w), NEW from \in Nat, NEW to \in Nat, from <= to, to <= Len(w)
  PROVE  IsPiece(Olds(m, from, to), w, from, to)
<1>1. m \in States(Chars) /\ w \in Seq(Chars) /\ Fills(m.mem["old"], w) /\ "old" \in Blocks
  BY FilledParts DEF Blocks
<1>2. Olds(m, from, to) = Piece(w, from, to)
  <2>1. Read(m, Cells("old", from, to)) = Piece(w, from, to)
    BY <1>1, ReadFills
  <2>2. QED
    BY <2>1 DEF Olds, OldCells
<1>3. /\ Piece(w, from, to) \in Seq(Chars) /\ Len(Piece(w, from, to)) = to - from
      /\ \A j \in 1 .. to - from : Piece(w, from, to)[j] = w[from + j]
  BY <1>1, PieceAre
<1>4. QED
  BY <1>2, <1>3 DEF IsPiece

-----------------------------------------------------------------------------
(* Replacements                                                             *)

\* s with values in the place of [from, to), as AbstractSequences says it
Splice(s, from, to, values) == SubSeq(s, 1, from) \o values \o SubSeq(s, to + 1, Len(s))

\* t is w with values in the place of [from, to), by index.
Replaced(t, w, from, to, values) ==
    /\ Len(t) = from + Len(values) + (Len(w) - to)
    /\ \A i \in 1 .. Len(t) :
         t[i] = IF i <= from THEN w[i]
                ELSE IF i <= from + Len(values) THEN values[i - from]
                ELSE w[i - (from + Len(values)) + to]

\* Two sequences one after the other, by index
LEMMA JoinedAt ==
  ASSUME NEW S, NEW s \in Seq(S), NEW w \in Seq(S)
  PROVE  /\ s \o w \in Seq(S) /\ Len(s \o w) = Len(s) + Len(w)
         /\ \A i \in 1 .. Len(s) + Len(w) : (s \o w)[i] = IF i <= Len(s) THEN s[i] ELSE w[i - Len(s)]
OBVIOUS

\* What Splice is
LEMMA SpliceAre ==
  ASSUME NEW V, NEW s \in Seq(V), NEW values \in Seq(V), NEW from \in Nat, NEW to \in Nat, from <= to,
         to <= Len(s)
  PROVE  Splice(s, from, to, values) \in Seq(V) /\ Replaced(Splice(s, from, to, values), s, from, to, values)
<1> DEFINE head == SubSeq(s, 1, from)
           tail == SubSeq(s, to + 1, Len(s))
           u == head \o values
           t == u \o tail
<1>0. Splice(s, from, to, values) = t
  BY DEF Splice
<1>1. head \in Seq(V) /\ Len(head) = from /\ \A i \in 1 .. from : head[i] = s[i]
  OBVIOUS
<1>2. /\ tail \in Seq(V) /\ Len(tail) = Len(s) - to /\ Len(tail) \in Nat
      /\ \A j \in 1 .. Len(s) - to : tail[j] = s[to + j]
  OBVIOUS
<1> HIDE DEF head, tail
<1>3. PICK k \in Nat : k = from + Len(values)
  OBVIOUS
<1>4. /\ u \in Seq(V) /\ Len(u) = k
      /\ \A i \in 1 .. k : u[i] = IF i <= from THEN head[i] ELSE values[i - from]
  BY <1>1, <1>3, JoinedAt
<1> HIDE DEF u
<1>5. /\ t \in Seq(V) /\ Len(t) = k + (Len(s) - to)
      /\ \A i \in 1 .. k + (Len(s) - to) : t[i] = IF i <= k THEN u[i] ELSE tail[i - k]
  <2>1. /\ u \o tail \in Seq(V) /\ Len(u \o tail) = Len(u) + Len(tail)
        /\ \A i \in 1 .. Len(u) + Len(tail) : (u \o tail)[i] = IF i <= Len(u) THEN u[i] ELSE tail[i - Len(u)]
    BY <1>2, <1>4, JoinedAt
  <2>2. QED
    BY <1>2, <1>4, <2>1
<1> HIDE DEF t
<1>6. ASSUME NEW i \in 1 .. Len(t)
      PROVE  t[i] = IF i <= from THEN s[i] ELSE IF i <= k THEN values[i - from] ELSE s[i - k + to]
  <2>1. CASE i <= from
    <3>1. i \in 1 .. from /\ i \in 1 .. k /\ i <= k
      BY <1>3, <1>5, <2>1
    <3>2. QED
      BY <1>1, <1>4, <1>5, <2>1, <3>1
  <2>2. CASE ~ (i <= from) /\ i <= k
    <3>1. i \in 1 .. k
      BY <1>5, <2>2
    <3>2. QED
      BY <1>4, <1>5, <2>2, <3>1
  <2>3. CASE ~ (i <= k)
    <3>1. PICK j \in 1 .. Len(s) - to : j = i - k
      BY <1>5, <2>3
    <3>a. to + j = i - k + to /\ ~ (i <= from)
      BY <1>3, <1>5, <2>3, <3>1
    <3>b. t[i] = tail[j]
      BY <1>5, <2>3, <3>1
    <3>2. t[i] = s[to + j] /\ to + j = i - k + to /\ ~ (i <= from)
      BY <1>2, <3>1, <3>a, <3>b
    <3>3. QED
      BY <2>3, <3>2
  <2>4. QED
    BY <1>3, <2>1, <2>2, <2>3
<1>7. Replaced(t, s, from, to, values)
  BY <1>3, <1>5, <1>6 DEF Replaced
<1>8. QED
  BY <1>0, <1>5, <1>7

\* What is replaced in the characters and their null is replaced in the string.
LEMMA SpliceIs ==
  ASSUME NEW s \in Seq(Value), NEW values \in Seq(Value), NEW from \in Nat, NEW to \in Nat, from <= to,
         to <= Len(s), NEW w \in Seq(Chars), Replaced(w, Whole(s), from, to, values)
  PROVE  /\ Splice(s, from, to, values) \in Seq(Value)
         /\ w = Whole(Splice(s, from, to, values))
         /\ Len(Splice(s, from, to, values)) = from + Len(values) + (Len(s) - to)
<1> DEFINE t == Splice(s, from, to, values)
           ws == Whole(s)
           wt == Whole(t)
<1>1. t \in Seq(Value) /\ Replaced(t, s, from, to, values)
  BY SpliceAre
<1> HIDE DEF t
<1>2. PICK k \in Nat : k = from + Len(values)
  OBVIOUS
<1>3. /\ Len(t) = k + (Len(s) - to)
      /\ \A i \in 1 .. Len(t) :
           t[i] = IF i <= from THEN s[i] ELSE IF i <= k THEN values[i - from] ELSE s[i - k + to]
  BY <1>1, <1>2 DEF Replaced
<1>4. /\ wt \in Seq(Chars) /\ Len(wt) = Len(t) + 1 /\ Len(t) \in Nat
      /\ \A i \in 1 .. Len(t) : wt[i] = t[i]
      /\ wt[Len(t) + 1] = NullChar
  BY <1>1, WholeAre
<1>5. /\ ws \in Seq(Chars) /\ Len(ws) = Len(s) + 1 /\ Len(s) \in Nat
      /\ \A i \in 1 .. Len(s) : ws[i] = s[i]
      /\ ws[Len(s) + 1] = NullChar
  BY WholeAre
<1> HIDE DEF ws, wt
<1>6. /\ Len(w) = k + (Len(ws) - to)
      /\ \A i \in 1 .. Len(w) :
           w[i] = IF i <= from THEN ws[i] ELSE IF i <= k THEN values[i - from] ELSE ws[i - k + to]
  BY <1>2 DEF Replaced, ws
<1>7. Len(w) = Len(wt) /\ Len(w) = Len(t) + 1
  BY <1>3, <1>4, <1>5, <1>6
<1>8. ASSUME NEW i \in 1 .. Len(w) PROVE w[i] = wt[i]
  <2>1. CASE i <= from
    <3>1. i \in 1 .. Len(t) /\ i \in 1 .. Len(s)
      BY <1>2, <1>3, <1>4, <1>5, <2>1
    <3>2. QED
      BY <1>3, <1>4, <1>5, <1>6, <2>1, <3>1
  <2>2. CASE ~ (i <= from) /\ i <= k
    <3>1. i \in 1 .. Len(t)
      BY <1>3, <1>4, <1>5, <2>2
    <3>2. QED
      BY <1>3, <1>4, <1>6, <2>2, <3>1
  <2>3. CASE ~ (i <= k) /\ i <= Len(t)
    <3>1. i \in 1 .. Len(t) /\ ~ (i <= from)
      BY <1>2, <1>4, <2>3
    <3>2. PICK j \in 1 .. Len(s) : j = i - k + to
      BY <1>3, <1>5, <2>3
    <3>3. w[i] = ws[j] /\ t[i] = s[j]
      BY <1>3, <1>6, <2>3, <3>1, <3>2
    <3>4. QED
      BY <1>4, <1>5, <3>1, <3>2, <3>3
  <2>4. CASE ~ (i <= Len(t))
    <3>0. from <= k /\ Len(t) = k + (Len(s) - to) /\ Len(t) \in Nat /\ Len(s) \in Nat
      BY <1>2, <1>3, <1>4, <1>5
    <3>1. i = Len(t) + 1 /\ ~ (i <= from) /\ ~ (i <= k) /\ i - k + to = Len(s) + 1
      BY <1>7, <2>4, <3>0
    <3>2. QED
      BY <1>4, <1>5, <1>6, <3>1
  <2>5. QED
    BY <1>2, <1>3, <1>4, <1>5, <2>1, <2>2, <2>3, <2>4
<1>9. w = wt
  BY <1>4, <1>7, <1>8
<1>10. QED
  BY <1>1, <1>2, <1>3, <1>9 DEF t, wt

\* Replacing nothing by nothing changes nothing.
LEMMA SpliceNone ==
  ASSUME NEW s \in Seq(Value), NEW from \in Nat, from <= Len(s)
  PROVE  Splice(s, from, from, << >>) = s
<1> DEFINE t == Splice(s, from, from, << >>)
<1>1. << >> \in Seq(Value) /\ Len(<< >>) = 0
  OBVIOUS
<1>2. t \in Seq(Value) /\ Replaced(t, s, from, from, << >>)
  <2>1. PICK none \in Seq(Value) : none = << >>
    BY <1>1
  <2>2. from <= from
    OBVIOUS
  <2>3. Splice(s, from, from, none) \in Seq(Value) /\ Replaced(Splice(s, from, from, none), s, from, from, none)
    BY <2>2, SpliceAre
  <2>4. QED
    BY <2>1, <2>3
<1> HIDE DEF t
<1>3. /\ Len(t) = from + 0 + (Len(s) - from)
      /\ \A i \in 1 .. Len(t) : t[i] = IF i <= from THEN s[i]
                                       ELSE IF i <= from + 0 THEN << >>[i - from]
                                       ELSE s[i - (from + 0) + from]
  BY <1>1, <1>2 DEF Replaced
<1>4. Len(t) = Len(s)
  BY <1>3
<1>5. ASSUME NEW i \in 1 .. Len(s) PROVE t[i] = s[i]
  <2>1. CASE i <= from
    BY <1>3, <1>4, <2>1
  <2>2. CASE ~ (i <= from)
    <3>1. ~ (i <= from + 0) /\ i - (from + 0) + from = i
      BY <2>2
    <3>2. QED
      BY <1>3, <1>4, <2>2, <3>1
  <2>3. QED
    BY <2>1, <2>2
<1>6. t = s
  BY <1>2, <1>4, <1>5
<1>7. QED
  BY <1>6 DEF t

\* Replacing everything leaves what comes.
LEMMA SpliceAll ==
  ASSUME NEW s \in Seq(Value), NEW values \in Seq(Value)
  PROVE  Splice(s, 0, Len(s), values) = values
<1> DEFINE t == Splice(s, 0, Len(s), values)
<1>1. Len(s) \in Nat /\ 0 <= Len(s) /\ Len(s) <= Len(s) /\ 0 \in Nat
  OBVIOUS
<1>2. t \in Seq(Value) /\ Replaced(t, s, 0, Len(s), values)
  BY <1>1, SpliceAre
<1> HIDE DEF t
<1>3. /\ Len(t) = 0 + Len(values) + (Len(s) - Len(s))
      /\ \A i \in 1 .. Len(t) : t[i] = IF i <= 0 THEN s[i]
                                       ELSE IF i <= 0 + Len(values) THEN values[i - 0]
                                       ELSE s[i - (0 + Len(values)) + Len(s)]
  BY <1>2 DEF Replaced
<1>4. Len(t) = Len(values)
  BY <1>1, <1>3
<1>5. ASSUME NEW i \in 1 .. Len(values) PROVE t[i] = values[i]
  <2>1. ~ (i <= 0) /\ i <= 0 + Len(values) /\ i - 0 = i /\ i \in 1 .. Len(t)
    BY <1>4
  <2>2. QED
    BY <1>3, <2>1
<1>6. t = values
  BY <1>2, <1>4, <1>5
<1>7. QED
  BY <1>6 DEF t

-----------------------------------------------------------------------------
(* The new block                                                            *)

\* The new block has room for n and holds v, unless something threw; m is the string.
InNew(g, m, n, v) ==
    /\ g \in States(Chars) /\ ~ g.bad /\ g.size = m.size /\ g.mem["old"] = m.mem["old"]
    /\ Alive(g.mem["new"], g.built)
    /\ v \in Seq(Chars) /\ (~ g.threw => Len(g.mem["new"]) = n /\ g.built = Len(v) /\ Fills(g.mem["new"], v))

\* r holds t, or u if it threw.
Gives(r, t, u) == IsString(r, IF r.threw THEN u ELSE t)

\* It does so, but may have lost characters of the new block if the inserted one may throw.
Forgiven(r) == [r EXCEPT !.bad = FALSE]
MayGive(r, t, u) == r \in States(Chars) /\ Gives(Forgiven(r), t, u) /\ (r.bad => InsertedMayThrow)

\* The new block has characters of which the handler does not know.
Forgotten(g, m) ==
    /\ g \in States(Chars) /\ ~ g.bad /\ g.threw /\ g.built = 0
    /\ g.size = m.size /\ g.mem["old"] = m.mem["old"]

\* _M_allocate: the new block has room, and holds nothing yet.
LEMMA AllocateNew ==
  ASSUME NEW m, NEW w, Filled(m, w), m.built = 0, NEW n \in Nat
  PROVE  InNew(Allocate(m, "new", n), m, n, << >>)
<1> DEFINE g == Allocate(m, "new", n)
<1>1. m \in States(Chars) /\ ~ m.bad /\ m.mem["new"] = << >> /\ "new" \in Blocks /\ "old" \in Blocks
  BY DEF Filled, Blocks
<1>2. Allocated(g, m, Chars, "new", n)
  BY <1>1, AllocateDoes
<1> HIDE DEF g
<1>3. g \in States(Chars) /\ g.size = m.size /\ g.built = 0 /\ g.bad = m.bad
  BY <1>2 DEF Allocated, Frame
<1>4. g.mem["old"] = m.mem["old"]
  BY <1>1, <1>2, <1>3, StateParts DEF Allocated
<1>5. << >> \in Seq(Chars) /\ Len(<< >>) = 0
  OBVIOUS
<1>6. Alive(g.mem["new"], 0)
  <2>1. ASSUME g.threw PROVE Alive(g.mem["new"], 0)
    BY <1>1, <1>2, <1>5, <2>1 DEF Allocated, Alive
  <2>2. ASSUME ~ g.threw PROVE Alive(g.mem["new"], 0)
    BY <1>2, <2>2 DEF Allocated, Alive
  <2>3. QED
    BY <2>1, <2>2
<1>7. ~ g.threw => Len(g.mem["new"]) = n /\ g.built = Len(<< >>) /\ Fills(g.mem["new"], << >>)
  BY <1>2, <1>3, <1>5, <1>6 DEF Allocated, Fills
<1>8. InNew(g, m, n, << >>)
  BY <1>1, <1>3, <1>4, <1>5, <1>6, <1>7 DEF InNew
<1>9. QED
  BY <1>8 DEF g

\* Copying the next characters into the new block, after those it holds.
LEMMA ExtendDoes ==
  ASSUME Raw \notin Chars, NEW m, NEW n \in Nat, NEW v, NEW g, InNew(g, m, n, v), NEW values \in Seq(Chars),
         Len(v) + Len(values) <= n
  PROVE  InNew(Extend(g, values), m, n, v \o values)
<1> DEFINE u == UninitializedCopy(g, values, Cells("new", g.built, g.built + Len(values)))
           r == Extend(g, values)
           w == v \o values
<1>1. /\ g \in States(Chars) /\ ~ g.bad /\ g.size = m.size /\ g.mem["old"] = m.mem["old"]
      /\ Alive(g.mem["new"], g.built) /\ v \in Seq(Chars) /\ "new" \in Blocks /\ "old" \in Blocks
      /\ ~ g.threw => Len(g.mem["new"]) = n /\ g.built = Len(v) /\ Fills(g.mem["new"], v)
  BY DEF InNew, Blocks
<1>2. r = IF u.threw THEN u ELSE [u EXCEPT !.built = u.built + Len(values)]
  BY DEF Extend
<1>3. w \in Seq(Chars) /\ Len(w) = Len(v) + Len(values) /\ Len(v) \in Nat /\ Len(values) \in Nat
  BY <1>1
<1> HIDE DEF w
<1>4. CASE g.threw
  <2>1. r = g
    BY <1>2, <1>4 DEF UninitializedCopy
  <2> HIDE DEF r
  <2>2. InNew(r, m, n, w)
    BY <1>1, <1>3, <1>4, <2>1 DEF InNew
  <2>3. QED
    BY <2>2 DEF r, w
<1>5. CASE ~ g.threw
  <2>1. Built(u, g, Chars, "new", v, values)
    <3>1. PICK to \in Nat : to = Len(v) + Len(values)
      BY <1>3
    <3>2. to <= Len(g.mem["new"]) /\ g.built + Len(values) = to /\ g.built = Len(v)
      BY <1>1, <1>5, <3>1
    <3>3. Built(UninitializedCopy(g, values, Cells("new", Len(v), to)), g, Chars, "new", v, values)
      BY <1>1, <1>5, <3>1, <3>2, BuildFills
    <3>4. QED
      BY <3>2, <3>3
  <2> HIDE DEF u
  <2>2. u \in States(Chars) /\ u.size = g.size /\ u.built = g.built /\ u.bad = g.bad
    BY <2>1 DEF Built, Frame
  <2> HIDE DEF r
  <2>3. ASSUME u.threw PROVE InNew(r, m, n, w)
    <3>1. r = u /\ u.mem = g.mem
      BY <1>2, <2>1, <2>3 DEF Built
    <3>2. QED
      BY <1>1, <1>3, <2>2, <2>3, <3>1 DEF InNew
  <2>4. ASSUME ~ u.threw PROVE InNew(r, m, n, w)
    <3>1. /\ Len(u.mem["new"]) = Len(g.mem["new"]) /\ Fills(u.mem["new"], w)
          /\ u.mem["old"] = g.mem["old"]
      BY <1>1, <2>1, <2>4 DEF Built, w
    <3>2. PICK k \in Nat : k = u.built + Len(values)
      BY <1>3, <2>2, StateParts
    <3>3. r = [u EXCEPT !.built = k]
      BY <1>2, <2>4, <3>2
    <3>4. /\ r \in States(Chars) /\ r.mem = u.mem /\ r.size = u.size /\ r.bad = u.bad /\ r.built = k
          /\ r.threw = u.threw
      BY <2>2, <3>3 DEF States
    <3>5. k = Len(w)
      BY <1>1, <1>3, <1>5, <2>2, <3>2
    <3>6. Alive(r.mem["new"], k)
      BY <3>1, <3>4, <3>5 DEF Fills
    <3>7. QED
      BY <1>1, <1>3, <1>5, <2>2, <3>1, <3>4, <3>5, <3>6 DEF InNew
  <2>5. InNew(r, m, n, w)
    BY <2>3, <2>4
  <2>6. QED
    BY <2>5 DEF r, w
<1>6. QED
  BY <1>4, <1>5

\* A copy that has fuel does not throw.
LEMMA OneMoreDoes ==
  ASSUME NEW g \in States(Chars), ~ g.threw, g.fuel > 0, NEW c
  PROVE  ~ Extend(g, << c >>).threw
<1> DEFINE at == Cells("new", g.built, g.built + Len(<< c >>))
           done == Construct(g, << c >>, at)
           u == UninitializedCopy(g, << c >>, at)
<1>1. Len(at) = 1
  <2>1. PICK k \in Nat : k = g.built
    BY StateParts
  <2>2. Len(<< c >>) = 1
    OBVIOUS
  <2>3. PICK l \in Nat : l = k + 1
    OBVIOUS
  <2>4. at = Cells("new", k, l)
    BY <2>1, <2>2, <2>3
  <2> HIDE DEF at
  <2>5. k <= l /\ l - k = 1
    BY <2>3
  <2>6. Len(Cells("new", k, l)) = l - k
    BY <2>5, CellsAre
  <2>7. QED
    BY <2>4, <2>5, <2>6
<1>2. 1 <= g.fuel
  BY StateParts
<1>3. Extend(g, << c >>).threw = u.threw
  BY DEF Extend
<1>4. u = Spend(done, 1)
  BY <1>1, <1>2 DEF UninitializedCopy
<1>5. done.fuel = g.fuel
  BY DEF Construct, Misused, Store, States
<1> HIDE DEF at, done, u
<1>6. u.threw = (1 > done.fuel)
  BY <1>4 DEF Spend
<1>7. QED
  BY <1>2, <1>3, <1>5, <1>6, StateParts

\* The one character of _M_insert_aux, whose copy throws after those before it only if it may
LEMMA ExtendByOneDoes ==
  ASSUME StringParameters, NEW m, NEW n \in Nat, NEW v, NEW g, InNew(g, m, n, v), NEW c \in Chars,
         Len(v) + 1 <= n
  PROVE  \/ InNew(ExtendByOne(g, c), m, n, v \o << c >>)
         \/ InsertedMayThrow /\ Forgotten(ExtendByOne(g, c), m)
<1> DEFINE f == IF InsertedMayThrow THEN g ELSE [g EXCEPT !.fuel = g.fuel + 1]
           h == Extend(f, << c >>)
           r == ExtendByOne(g, c)
           w == v \o << c >>
<1>1. g \in States(Chars) /\ v \in Seq(Chars) /\ << c >> \in Seq(Chars) /\ Len(<< c >>) = 1 /\ g.fuel \in Nat
  BY StateParts DEF InNew
<1>2. /\ f \in States(Chars) /\ f.mem = g.mem /\ f.size = g.size /\ f.built = g.built
      /\ f.bad = g.bad /\ f.threw = g.threw /\ (~ InsertedMayThrow => f.fuel > 0)
  BY <1>1 DEF States
<1>3. r = IF h.threw /\ ~ g.threw THEN [h EXCEPT !.built = 0] ELSE h
  BY DEF ExtendByOne
<1> HIDE DEF f
<1>4. InNew(f, m, n, v)
  BY <1>2 DEF InNew
<1>5. InNew(h, m, n, w)
  BY <1>1, <1>4, ExtendDoes DEF StringParameters
<1>6. ASSUME h.threw, ~ g.threw PROVE InsertedMayThrow
  BY <1>2, <1>6, OneMoreDoes
<1> HIDE DEF h, r, w
<1>7. CASE h.threw /\ ~ g.threw
  <2>1. h \in States(Chars) /\ ~ h.bad /\ h.size = m.size /\ h.mem["old"] = m.mem["old"]
    BY <1>5 DEF InNew
  <2>2. r = [h EXCEPT !.built = 0]
    BY <1>3, <1>7
  <2>3. /\ r \in States(Chars) /\ ~ r.bad /\ r.threw /\ r.built = 0
        /\ r.size = m.size /\ r.mem["old"] = m.mem["old"]
    BY <1>7, <2>1, <2>2 DEF States
  <2>4. QED
    BY <1>6, <1>7, <2>3 DEF Forgotten, r
<1>8. CASE ~ (h.threw /\ ~ g.threw)
  BY <1>3, <1>5, <1>8 DEF r, w
<1>9. QED
  BY <1>7, <1>8

\* What is left if something threw: the string as it was
LEMMA UnwindDoes ==
  ASSUME NEW m, NEW s, IsString(m, s), NEW u \in States(Chars), ~ u.bad, u.size = m.size,
         u.mem["old"] = m.mem["old"], Alive(u.mem["new"], u.built)
  PROVE  IsString(Unwind(u), s) /\ Unwind(u).threw = u.threw
<1> DEFINE r == Unwind(u)
<1>1. /\ s \in Seq(Value) /\ m.size = Len(s) /\ Whole(s) \in Seq(Chars) /\ Fills(m.mem["old"], Whole(s))
      /\ "old" \in Blocks /\ "new" \in Blocks /\ u.built \in Nat
  BY StateParts DEF IsString, Filled
<1>2. CASE u.mem["new"] = << >>
  <2>1. r = u
    BY <1>2 DEF Unwind
  <2> HIDE DEF r
  <2>2. IsString(r, s) /\ r.threw = u.threw
    BY <1>1, <1>2, <2>1 DEF IsString, Filled
  <2>3. QED
    BY <2>2 DEF r
<1>3. CASE u.mem["new"] # << >>
  <2> DEFINE d == Destroy(u, Cells("new", 0, u.built))
  <2>1. r = Deallocate(d, "new")
    BY <1>3 DEF Unwind
  <2>2. /\ d \in States(Chars) /\ SameLocals(d, u) /\ d.bad = u.bad
        /\ \A i \in 1 .. Len(d.mem["new"]) : d.mem["new"][i] = Raw
        /\ \A c \in Blocks : c # "new" => d.mem[c] = u.mem[c]
    BY <1>1, DestroyAll
  <2> HIDE DEF d, r
  <2>3. /\ r \in States(Chars) /\ SameLocals(r, d) /\ r.bad = d.bad /\ r.mem["new"] = << >>
        /\ \A c \in Blocks : c # "new" => r.mem[c] = d.mem[c]
    BY <1>1, <2>1, <2>2, DeallocateDoes
  <2>4. r.mem["old"] = m.mem["old"]
    BY <1>1, <2>2, <2>3
  <2>5. r.size = m.size /\ ~ r.bad /\ r.threw = u.threw
    BY <2>2, <2>3 DEF SameLocals
  <2>6. IsString(r, s) /\ r.threw = u.threw
    BY <1>1, <2>3, <2>4, <2>5 DEF IsString, Filled
  <2>7. QED
    BY <2>6 DEF r
<1>4. QED
  BY <1>2, <1>3

\* What is left if the handler does not know of the characters in the new block: the string
\* as it was, and they are lost
LEMMA UnwindForgotten ==
  ASSUME NEW m, NEW s, IsString(m, s), NEW g, Forgotten(g, m)
  PROVE  Unwind(g) \in States(Chars) /\ Unwind(g).threw /\ IsString(Forgiven(Unwind(g)), s)
<1> DEFINE r == Unwind(g)
           d == Destroy(g, Cells("new", 0, 0))
           e == [d EXCEPT !.mem["new"] = << >>]
           lost == ValuesIn(d.mem["new"]) \ {Raw} # {}
<1>1. /\ s \in Seq(Value) /\ m.size = Len(s) /\ Whole(s) \in Seq(Chars) /\ Fills(m.mem["old"], Whole(s))
      /\ "old" \in Blocks /\ "new" \in Blocks
  BY StateParts DEF IsString, Filled
<1>2. /\ g \in States(Chars) /\ ~ g.bad /\ g.threw /\ g.built = 0 /\ g.size = m.size
      /\ g.mem["old"] = m.mem["old"] /\ Len(g.mem["new"]) \in Nat
  BY StateParts DEF Forgotten
<1>3. r \in States(Chars) /\ r.threw /\ r.size = m.size /\ r.mem["old"] = m.mem["old"] /\ r.mem["new"] = << >>
  <2>1. CASE g.mem["new"] = << >>
    BY <1>2, <2>1 DEF Unwind
  <2>2. CASE g.mem["new"] # << >>
    <3>1. r = Misused(e, lost)
      BY <1>2, <2>2 DEF Unwind, Deallocate
    <3>2. Turned(d, g, Chars, "new", 0, Times(0 - 0, Raw))
      <4>1. 0 \in Nat /\ 0 <= 0 /\ 0 <= Len(g.mem["new"]) /\ \A i \in 0 + 1 .. 0 : g.mem["new"][i] # Raw
        BY <1>2
      <4>2. QED
        BY <1>1, <1>2, <4>1, DestroyAre
    <3>3. /\ d \in States(Chars) /\ d.threw /\ d.size = m.size /\ d.mem["old"] = m.mem["old"]
      BY <1>1, <1>2, <3>2 DEF Turned, SameLocals, Written
    <3>4. lost \in BOOLEAN
      OBVIOUS
    <3> HIDE DEF d, lost, r
    <3>5. e \in States(Chars) /\ e.threw /\ e.size = m.size /\ e.mem["old"] = m.mem["old"] /\ e.mem["new"] = << >>
      <4>1. d.mem \in [Blocks -> Seq(Cellular(Chars))] /\ << >> \in Seq(Cellular(Chars))
        BY <3>3 DEF States
      <4>2. [d.mem EXCEPT !["new"] = << >>] \in [Blocks -> Seq(Cellular(Chars))]
        BY <4>1
      <4>3. QED
        BY <3>3, <4>1, <4>2 DEF States, Blocks
    <3> HIDE DEF e
    <3>6. QED
      BY <3>1, <3>4, <3>5, NotMisused DEF SameLocals
  <2>3. QED
    BY <2>1, <2>2
<1> HIDE DEF r
<1>4. /\ Forgiven(r) \in States(Chars) /\ ~ Forgiven(r).bad /\ Forgiven(r).mem = r.mem
      /\ Forgiven(r).size = r.size
  BY <1>3 DEF Forgiven, States
<1>5. IsString(Forgiven(r), s)
  BY <1>1, <1>3, <1>4 DEF IsString, Filled
<1>6. QED
  BY <1>3, <1>5 DEF r

\* What is left if nothing threw: the new block
LEMMA AdoptDoes ==
  ASSUME NEW u \in States(Chars), ~ u.bad, Alive(u.mem["old"], u.size + 1), NEW v \in Seq(Value),
         Fills(u.mem["new"], Whole(v)), u.built = Len(v)
  PROVE  IsString(Adopt(u), v) /\ Adopt(u).threw = u.threw /\ Room(Adopt(u)) = Len(u.mem["new"])
<1> DEFINE r == Adopt(u)
           d == Destroy(u, OldCells(0, u.size + 1))
           f == Deallocate(d, "old")
           mem == [b \in {"old", "new"} |-> IF b = "old" THEN u.mem["new"] ELSE << >>]
<1>1. /\ u.mem["new"] \in Seq(Cellular(Chars)) /\ u.size + 1 \in Nat /\ u.built \in Nat
      /\ "old" \in Blocks /\ "new" \in Blocks /\ << >> \in Seq(Cellular(Chars))
  BY StateParts
<1>2. r = [f EXCEPT !.mem = mem, !.size = u.built]
  BY DEF Adopt
<1>3. /\ d \in States(Chars) /\ SameLocals(d, u) /\ d.bad = u.bad
      /\ \A i \in 1 .. Len(d.mem["old"]) : d.mem["old"][i] = Raw
  BY <1>1, DestroyAll DEF OldCells
<1> HIDE DEF d
<1>4. f \in States(Chars) /\ SameLocals(f, d) /\ f.bad = d.bad
  BY <1>1, <1>3, DeallocateDoes
<1> HIDE DEF f, r
<1>5. mem \in [Blocks -> Seq(Cellular(Chars))] /\ mem["old"] = u.mem["new"] /\ mem["new"] = << >>
  BY <1>1 DEF Blocks
<1> HIDE DEF mem
<1>6. r \in States(Chars) /\ r.mem = mem /\ r.size = u.built /\ r.threw = f.threw /\ r.bad = f.bad
  BY <1>1, <1>2, <1>4, <1>5 DEF States
<1>7. r.threw = u.threw /\ ~ r.bad
  BY <1>3, <1>4, <1>6 DEF SameLocals
<1>8. Whole(v) \in Seq(Chars)
  BY WholeAre
<1>9. IsString(r, v) /\ Room(r) = Len(u.mem["new"])
  BY <1>5, <1>6, <1>7, <1>8 DEF IsString, Filled, Room
<1>10. QED
  BY <1>7, <1>9 DEF r

\* r holds t in a block of n cells, or s if it threw.
Remade(r, n, t, s) == Gives(r, t, s) /\ r.threw \in BOOLEAN /\ (~ r.threw => Room(r) = n)

\* The null is built, and the new block takes the old one's place: no character and no
\* block is lost on either way.
LEMMA TerminateDoes ==
  ASSUME Raw \notin Chars, NEW m, NEW s, IsString(m, s), NEW n \in Nat, NEW v \in Seq(Value), NEW g,
         InNew(g, m, n, v), Len(v) + 1 <= n
  PROVE  Remade(Terminate(g), n, v, s)
<1> DEFINE null == << NullChar >>
           u == UninitializedCopy(g, null, Cells("new", g.built, g.built + 1))
           r == Terminate(g)
<1>1. /\ g \in States(Chars) /\ ~ g.bad /\ g.size = m.size /\ g.mem["old"] = m.mem["old"]
      /\ Alive(g.mem["new"], g.built) /\ v \in Seq(Chars) /\ "new" \in Blocks /\ "old" \in Blocks
      /\ ~ g.threw => Len(g.mem["new"]) = n /\ g.built = Len(v) /\ Fills(g.mem["new"], v)
  BY DEF InNew, Blocks
<1>2. null \in Seq(Chars) /\ Len(null) = 1 /\ v \o null = Whole(v)
  BY DEF Chars, Whole
<1>3. r = IF u.threw THEN Unwind(u) ELSE Adopt(u)
  BY DEF Terminate
<1>a. s \in Seq(Value) /\ m.size = Len(s) /\ Len(Whole(s)) = Len(s) + 1 /\ Alive(m.mem["old"], Len(s) + 1)
  BY WholeAre DEF IsString, Filled, Fills
<1> HIDE DEF null, r
<1>4. ASSUME g.threw PROVE Remade(r, n, v, s)
  <2>1. u = g
    BY <1>4 DEF UninitializedCopy
  <2>2. r = Unwind(g)
    BY <1>3, <1>4, <2>1
  <2>3. IsString(r, s) /\ r.threw = g.threw
    BY <1>1, <2>2, UnwindDoes
  <2>4. g.threw \in BOOLEAN
    BY <1>1, StateParts
  <2>5. QED
    BY <1>4, <2>3, <2>4 DEF Remade, Gives
<1>5. ASSUME ~ g.threw PROVE Remade(r, n, v, s)
  <2>1. Built(u, g, Chars, "new", v, null)
    <3>1. PICK to \in Nat : to = Len(v) + 1
      OBVIOUS
    <3>2. to <= Len(g.mem["new"]) /\ g.built + 1 = to /\ g.built = Len(v)
      BY <1>1, <1>5, <3>1
    <3>3. Built(UninitializedCopy(g, null, Cells("new", Len(v), to)), g, Chars, "new", v, null)
      BY <1>1, <1>2, <1>5, <3>1, <3>2, BuildFills
    <3>4. QED
      BY <3>2, <3>3
  <2> HIDE DEF u
  <2>2. u \in States(Chars) /\ u.size = g.size /\ u.built = g.built /\ u.bad = g.bad
    BY <2>1 DEF Built, Frame
  <2>3. u.threw \in BOOLEAN
    BY <2>2, StateParts
  <2>4. ASSUME u.threw PROVE Remade(r, n, v, s)
    <3>1. u.mem = g.mem /\ r = Unwind(u)
      BY <1>3, <2>1, <2>4 DEF Built
    <3>2. IsString(r, s) /\ r.threw = u.threw
      BY <1>1, <2>2, <3>1, UnwindDoes
    <3>3. QED
      BY <2>3, <2>4, <3>2 DEF Remade, Gives
  <2>5. ASSUME ~ u.threw PROVE Remade(r, n, v, s)
    <3>1. /\ Len(u.mem["new"]) = n /\ Fills(u.mem["new"], Whole(v)) /\ u.mem["old"] = m.mem["old"]
          /\ r = Adopt(u) /\ u.built = Len(v)
      BY <1>1, <1>2, <1>3, <1>5, <2>1, <2>2, <2>5 DEF Built
    <3>2. Alive(u.mem["old"], u.size + 1) /\ ~ u.bad
      BY <1>1, <1>a, <2>2, <3>1
    <3>3. IsString(r, v) /\ r.threw = u.threw /\ Room(r) = n
      BY <2>2, <3>1, <3>2, AdoptDoes
    <3>4. QED
      BY <2>3, <2>5, <3>3 DEF Remade, Gives
  <2>6. QED
    BY <2>3, <2>4, <2>5
<1>6. g.threw \in BOOLEAN
  BY <1>1, StateParts
<1>7. Remade(r, n, v, s)
  BY <1>4, <1>5, <1>6
<1>8. QED
  BY <1>7 DEF r

\* What a call begins with
Ready(m, s) == IsString(m, s) /\ ~ m.threw /\ m.built = 0

\* The characters before and behind a position, as the string and its block have them
LEMMA EndsAre ==
  ASSUME NEW m, NEW s, IsString(m, s), NEW pos \in Nat, pos <= Len(s)
  PROVE  /\ SubSeq(s, 1, pos) \in Seq(Value) /\ Len(SubSeq(s, 1, pos)) = pos
         /\ SubSeq(s, pos + 1, Len(s)) \in Seq(Value) /\ Len(SubSeq(s, pos + 1, Len(s))) = Len(s) - pos
         /\ Olds(m, 0, pos) = SubSeq(s, 1, pos) /\ Olds(m, pos, m.size) = SubSeq(s, pos + 1, Len(s))
<1> DEFINE w == Whole(s)
           k == Len(s)
<1>1. s \in Seq(Value) /\ m.size = k /\ Filled(m, w) /\ k \in Nat
  BY DEF IsString
<1>2. w \in Seq(Chars) /\ Len(w) = k + 1 /\ \A i \in 1 .. k : w[i] = s[i]
  BY <1>1, WholeAre
<1> HIDE DEF w
<1> DEFINE head == SubSeq(s, 1, pos)
           tail == SubSeq(s, pos + 1, Len(s))
           p == Olds(m, 0, pos)
           q == Olds(m, pos, k)
<1>3. IsPiece(p, w, 0, pos)
  <2>1. PICK from \in Nat : from = 0
    OBVIOUS
  <2>2. from <= pos /\ pos <= Len(w)
    BY <1>1, <1>2, <2>1
  <2>3. IsPiece(Olds(m, from, pos), w, from, pos)
    BY <1>1, <2>2, OldsFilled
  <2>4. QED
    BY <2>1, <2>3
<1>4. IsPiece(q, w, pos, k)
  <2>1. PICK to \in Nat : to = k
    BY <1>1
  <2>2. pos <= to /\ to <= Len(w)
    BY <1>1, <1>2, <2>1
  <2>3. IsPiece(Olds(m, pos, to), w, pos, to)
    BY <1>1, <2>2, OldsFilled
  <2>4. QED
    BY <2>1, <2>3
<1>5. head \in Seq(Value) /\ Len(head) = pos /\ \A j \in 1 .. pos : head[j] = s[j]
  BY <1>1
<1>6. tail \in Seq(Value) /\ Len(tail) = k - pos /\ \A j \in 1 .. k - pos : tail[j] = s[pos + j]
  BY <1>1
<1> HIDE DEF head, tail, p, q
<1>7. p = head
  <2>1. /\ p \in Seq(Chars) /\ Len(p) = pos - 0
        /\ \A j \in 1 .. pos - 0 : p[j] = w[0 + j]
    BY <1>3 DEF IsPiece
  <2>2. ASSUME NEW j \in 1 .. pos PROVE p[j] = head[j]
    <3>1. j \in 1 .. pos - 0 /\ 0 + j = j /\ j \in 1 .. k
      BY <1>1
    <3>2. QED
      BY <1>2, <1>5, <2>1, <3>1
  <2>3. Len(p) = pos
    BY <2>1
  <2>4. QED
    BY <1>5, <2>1, <2>2, <2>3
<1>8. q = tail
  <2>1. /\ q \in Seq(Chars) /\ Len(q) = k - pos
        /\ \A j \in 1 .. k - pos : q[j] = w[pos + j]
    BY <1>4 DEF IsPiece
  <2>2. ASSUME NEW j \in 1 .. k - pos PROVE q[j] = tail[j]
    <3>1. pos + j \in 1 .. k
      BY <1>1
    <3>2. QED
      BY <1>2, <1>6, <2>1, <3>1
  <2>3. QED
    BY <1>6, <2>1, <2>2
<1>9. QED
  BY <1>1, <1>5, <1>6, <1>7, <1>8 DEF head, tail, p, q

\* The characters before the position go into the new block first.
LEMMA HeadInNew ==
  ASSUME Raw \notin Chars, NEW m, NEW s, Ready(m, s), NEW pos \in Nat, pos <= Len(s), NEW n \in Nat, pos <= n
  PROVE  InNew(Extend(Allocate(m, "new", n), Olds(m, 0, pos)), m, n, SubSeq(s, 1, pos))
<1> DEFINE before == SubSeq(s, 1, pos)
           g == Allocate(m, "new", n)
<1>1. IsString(m, s) /\ m.built = 0 /\ Filled(m, Whole(s))
  BY DEF Ready, IsString
<1>2. before \in Seq(Value) /\ Len(before) = pos /\ Olds(m, 0, pos) = before
  BY <1>1, EndsAre
<1> HIDE DEF before
<1>3. before \in Seq(Chars) /\ Len(<< >>) = 0 /\ << >> \o before = before
  BY <1>2, WiderSequences DEF Chars
<1>4. InNew(g, m, n, << >>)
  BY <1>1, AllocateNew
<1> HIDE DEF g
<1>5. InNew(Extend(g, before), m, n, << >> \o before)
  <2>1. Len(<< >>) + Len(before) <= n
    BY <1>2, <1>3
  <2>2. QED
    BY <1>3, <1>4, <2>1, ExtendDoes
<1>6. QED
  BY <1>2, <1>3, <1>5 DEF before, g

\* With those behind the position and the null, the new block is complete.
LEMMA TailInNew ==
  ASSUME Raw \notin Chars, NEW m, NEW s, Ready(m, s), NEW pos \in Nat, pos <= Len(s), NEW values \in Seq(Value),
         NEW n \in Nat, Len(s) + Len(values) + 1 <= n, NEW f, InNew(f, m, n, SubSeq(s, 1, pos) \o values)
  PROVE  Remade(Terminate(Extend(f, Olds(m, pos, m.size))), n, Splice(s, pos, pos, values), s)
<1> DEFINE before == SubSeq(s, 1, pos)
           after == SubSeq(s, pos + 1, Len(s))
           b == before \o values
           r == Extend(f, after)
           t == Splice(s, pos, pos, values)
<1>1. IsString(m, s) /\ s \in Seq(Value) /\ Len(s) \in Nat
  BY DEF Ready, IsString
<1>2. /\ before \in Seq(Value) /\ Len(before) = pos /\ after \in Seq(Value) /\ Len(after) = Len(s) - pos
      /\ Olds(m, pos, m.size) = after
  BY <1>1, EndsAre
<1>3. t \in Seq(Value) /\ t = b \o after
  <2>1. pos <= pos
    OBVIOUS
  <2>2. QED
    BY <1>1, <2>1, SpliceAre DEF Splice
<1>4. InNew(f, m, n, b)
  OBVIOUS
<1> HIDE DEF before, after, t
<1>5. b \in Seq(Chars) /\ after \in Seq(Chars) /\ Len(b) = pos + Len(values)
  <2>1. before \in Seq(Chars) /\ values \in Seq(Chars) /\ after \in Seq(Chars)
    BY <1>2, WiderSequences DEF Chars
  <2>2. Joined(b, Chars, before, values)
    BY <2>1, JoinedAre
  <2> HIDE DEF b
  <2>3. QED
    BY <1>2, <2>1, <2>2 DEF Joined
<1> HIDE DEF b
<1>6. Len(t) = Len(s) + Len(values)
  <2>1. Joined(b \o after, Chars, b, after)
    BY <1>5, JoinedAre
  <2>2. Len(t) = Len(b) + Len(after)
    BY <1>3, <2>1 DEF Joined
  <2>3. QED
    BY <1>1, <1>2, <1>5, <2>2
<1>7. InNew(r, m, n, t)
  <2>1. Len(b) + Len(after) <= n
    BY <1>1, <1>2, <1>5
  <2>2. QED
    BY <1>3, <1>4, <1>5, <2>1, ExtendDoes
<1> HIDE DEF r
<1>8. Remade(Terminate(r), n, t, s)
  BY <1>1, <1>3, <1>6, <1>7, TerminateDoes
<1>9. QED
  BY <1>2, <1>8 DEF t, r

\* An insertion into a new block, which append, insert and reserve do, has no effect if it
\* throws.
LEMMA InsertInNewDoes ==
  ASSUME Raw \notin Chars, NEW m, NEW s, Ready(m, s), NEW values \in Seq(Value), NEW pos \in Nat, pos <= Len(s),
         NEW n \in Nat, Len(s) + Len(values) + 1 <= n
  PROVE  Remade(InsertInNew(m, pos, values, n), n, Splice(s, pos, pos, values), s)
<1> DEFINE before == SubSeq(s, 1, pos)
           h == Extend(Allocate(m, "new", n), Olds(m, 0, pos))
           f == Extend(h, values)
<1>1. s \in Seq(Value) /\ Len(s) \in Nat /\ values \in Seq(Chars) /\ Len(before) = pos
  BY EndsAre, WiderSequences DEF Ready, IsString, Chars
<1>2. pos <= n /\ Len(before) + Len(values) <= n
  BY <1>1
<1>3. InNew(h, m, n, before)
  BY <1>2, HeadInNew
<1> HIDE DEF h, before
<1>4. InNew(f, m, n, before \o values)
  BY <1>1, <1>2, <1>3, ExtendDoes
<1> HIDE DEF f
<1>5. Remade(Terminate(Extend(f, Olds(m, pos, m.size))), n, Splice(s, pos, pos, values), s)
  BY <1>4, TailInNew DEF before
<1>6. QED
  BY <1>5 DEF InsertInNew, h, f

\* What gives something also may.
LEMMA GivesMayGive ==
  ASSUME NEW r, NEW t, NEW u, Gives(r, t, u)
  PROVE  MayGive(r, t, u)
<1>1. r \in States(Chars) /\ ~ r.bad
  BY DEF Gives, IsString, Filled
<1>2. Forgiven(r) = r
  BY <1>1 DEF Forgiven, States
<1>3. QED
  BY <1>1, <1>2 DEF MayGive

\* The insertion of one character into a new block, in _M_insert_aux, has no effect either if
\* it throws, but what is in the new block is lost if the copy of that character does.
LEMMA InsertOneInNewDoes ==
  ASSUME StringParameters, NEW m, NEW s, Ready(m, s), NEW c \in Value, NEW pos \in Nat, pos <= Len(s)
  PROVE  MayGive(InsertOneInNew(m, pos, c), Splice(s, pos, pos, << c >>), s)
<1> DEFINE n == m.size + Larger(m.size, 1) + 1
           before == SubSeq(s, 1, pos)
           after == Olds(m, pos, m.size)
           h == Extend(Allocate(m, "new", n), Olds(m, 0, pos))
           f == ExtendByOne(h, c)
           r == InsertOneInNew(m, pos, c)
           t == Splice(s, pos, pos, << c >>)
<1>1. s \in Seq(Value) /\ Len(s) \in Nat /\ << c >> \in Seq(Value) /\ Len(<< c >>) = 1 /\ c \in Chars
      /\ Len(before) = pos /\ m.size = Len(s) /\ Raw \notin Chars /\ IsString(m, s)
  BY EndsAre DEF Ready, IsString, Chars, StringParameters
<1>2. n \in Nat /\ pos <= n /\ Len(before) + 1 <= n /\ Len(s) + Len(<< c >>) + 1 <= n
  BY <1>1 DEF Larger
<1>3. r = Terminate(Extend(f, after))
  BY DEF InsertOneInNew
<1> HIDE DEF n, r
<1>4. InNew(h, m, n, before)
  BY <1>1, <1>2, HeadInNew
<1> HIDE DEF h, before, after
<1>5. InNew(f, m, n, before \o << c >>) \/ (InsertedMayThrow /\ Forgotten(f, m))
  BY <1>1, <1>2, <1>4, ExtendByOneDoes
<1> HIDE DEF f
<1>6. CASE InNew(f, m, n, before \o << c >>)
  <2>1. Remade(Terminate(Extend(f, after)), n, t, s)
    BY <1>1, <1>2, <1>6, TailInNew DEF before, after
  <2> HIDE DEF t
  <2>2. Gives(r, t, s)
    BY <1>3, <2>1 DEF Remade
  <2>3. MayGive(r, t, s)
    BY <2>2, GivesMayGive
  <2>4. QED
    BY <2>3 DEF r, t
<1>7. CASE InsertedMayThrow /\ Forgotten(f, m)
  <2>1. f.threw
    BY <1>7 DEF Forgotten
  <2>2. Extend(f, after) = f
    <3> DEFINE u == UninitializedCopy(f, after, Cells("new", f.built, f.built + Len(after)))
    <3>1. Extend(f, after) = IF u.threw THEN u ELSE [u EXCEPT !.built = @ + Len(after)]
      BY DEF Extend
    <3>2. u = f
      BY <2>1 DEF UninitializedCopy
    <3> HIDE DEF u
    <3>3. QED
      BY <2>1, <3>1, <3>2
  <2>3. Terminate(f) = Unwind(f)
    BY <2>1 DEF Terminate, UninitializedCopy
  <2>4. r = Unwind(f)
    BY <1>3, <2>2, <2>3
  <2>5. r \in States(Chars) /\ r.threw /\ IsString(Forgiven(r), s)
    BY <1>1, <1>7, <2>4, UnwindForgotten
  <2>6. Forgiven(r).threw
    BY <2>5 DEF Forgiven, States
  <2> HIDE DEF t
  <2>7. MayGive(r, t, s)
    BY <1>7, <2>5, <2>6 DEF MayGive, Gives
  <2>8. QED
    BY <2>7 DEF r, t
<1>8. QED
  BY <1>5, <1>6, <1>7

\* reserve makes room, and leaves the string as it was.
LEMMA ReserveDoes ==
  ASSUME Raw \notin Chars, NEW m, NEW s, Ready(m, s), NEW n \in Nat
  PROVE  Remade(Reserve(m, n), Larger(n, Len(s)) + 1, s, s)
<1>1. s \in Seq(Value) /\ Len(s) \in Nat /\ m.size = Len(s) /\ << >> \in Seq(Value) /\ Len(<< >>) = 0
  BY DEF Ready, IsString
<1>2. PICK k \in Nat : k = Larger(n, Len(s)) + 1
  BY <1>1 DEF Larger
<1>3. Len(s) + Len(<< >>) + 1 <= k /\ Len(s) <= Len(s)
  BY <1>1, <1>2 DEF Larger
<1>4. Remade(InsertInNew(m, Len(s), << >>, k), k, Splice(s, Len(s), Len(s), << >>), s)
  BY <1>1, <1>3, InsertInNewDoes
<1>5. Splice(s, Len(s), Len(s), << >>) = s
  BY <1>1, <1>3, SpliceNone
<1>6. QED
  BY <1>1, <1>2, <1>4, <1>5 DEF Reserve

\* A string that is constructed has what it is given.
LEMMA RangeInitializeDoes ==
  ASSUME Raw \notin Chars, NEW m, NEW s, Ready(m, s), NEW values \in Seq(Value)
  PROVE  Gives(RangeInitialize(m, values), values, s)
<1> DEFINE n == Len(values) + 1
           g == Allocate(m, "new", n)
           h == Extend(g, values)
<1>1. IsString(m, s) /\ m.built = 0 /\ Filled(m, Whole(s)) /\ values \in Seq(Chars)
  BY WiderSequences DEF Ready, IsString, Chars
<1>2. n \in Nat /\ Len(values) + 1 <= n /\ Len(<< >>) = 0 /\ Len(<< >>) + Len(values) <= n
      /\ << >> \o values = values
  OBVIOUS
<1>a. RangeInitialize(m, values) = Terminate(h)
  BY DEF RangeInitialize
<1> HIDE DEF n
<1>3. InNew(g, m, n, << >>)
  BY <1>1, <1>2, AllocateNew
<1> HIDE DEF g
<1>4. InNew(h, m, n, << >> \o values)
  BY <1>1, <1>2, <1>3, ExtendDoes
<1> HIDE DEF h
<1>5. Remade(Terminate(h), n, values, s)
  BY <1>1, <1>2, <1>4, TerminateDoes
<1>6. QED
  BY <1>a, <1>5 DEF Remade

-----------------------------------------------------------------------------
(* The same block                                                           *)

\* Characters are moved unless something threw.
LEMMA MoveGrows ==
  ASSUME Raw \notin Chars, NEW m, NEW v, NEW w \in Seq(Chars), NEW q, Grows(q, m, v, w), NEW values \in Seq(Chars),
         NEW from \in Nat, NEW to \in Nat, to = from + Len(values), to <= Len(w)
  PROVE  Grows(Move(q, values, OldCells(from, to)), m, v, Over(w, from, values))
<1> DEFINE r == Move(q, values, OldCells(from, to))
<1>1. q.size = m.size /\ Room(q) = Room(m) /\ q.threw \in BOOLEAN
  BY DEF Grows
<1>2. ASSUME q.threw PROVE Grows(r, m, v, Over(w, from, values))
  <2>1. r = q
    BY <1>2 DEF Move
  <2> HIDE DEF r
  <2>2. QED
    BY <1>1, <1>2, <2>1 DEF Grows
<1>3. ASSUME ~ q.threw PROVE Grows(r, m, v, Over(w, from, values))
  <2>1. Filled(q, w)
    BY <1>3 DEF Grows
  <2>2. Holding(r, q, Over(w, from, values))
    BY <1>3, <2>1, MoveFilled
  <2> HIDE DEF r
  <2>3. QED
    BY <1>1, <1>3, <2>2 DEF Grows, Holding, SameLocals
<1>4. QED
  BY <1>1, <1>2, <1>3

\* Characters are built behind others that were, and if that throws both are destroyed.
LEMMA BuildUnwound ==
  ASSUME Raw \notin Chars, NEW m, NEW v \in Seq(Chars), NEW a \in Seq(Chars), NEW q, Grows(q, m, v, v \o a),
         NEW values \in Seq(Chars), NEW k \in Nat, k = Len(v) + Len(a), k + Len(values) <= Room(m),
         NEW from, from = Len(v), NEW r, r = Build(q, values, k)
  PROVE  Grows(IF r.threw /\ ~ q.threw THEN Destroy(r, OldCells(from, k)) ELSE r, m, v, v \o a \o values)
<1> DEFINE w == v \o a
           u == IF r.threw /\ ~ q.threw THEN Destroy(r, OldCells(from, k)) ELSE r
           x == w \o values
<1>1. w \in Seq(Chars) /\ Len(w) = k /\ from \in Nat /\ from <= k /\ SubSeq(w, 1, from) = v
  <2>1. Joined(w, Chars, v, a)
    BY JoinedAre
  <2> HIDE DEF w
  <2>2. w \in Seq(Chars) /\ Len(w) = k /\ from \in Nat /\ from <= k
    BY <2>1 DEF Joined
  <2>3. /\ SubSeq(w, 1, from) \in Seq(Chars) /\ Len(SubSeq(w, 1, from)) = from
        /\ \A i \in 1 .. from : SubSeq(w, 1, from)[i] = w[i]
    BY <2>2
  <2>4. SubSeq(w, 1, from) = v
    BY <2>1, <2>3 DEF Joined
  <2>5. QED
    BY <2>2, <2>4
<1>2. Grows(q, m, v, w)
  OBVIOUS
<1> HIDE DEF w, x
<1>3. q.size = m.size /\ Room(q) = Room(m) /\ q.threw \in BOOLEAN
  BY <1>2 DEF Grows
<1>4. ASSUME q.threw PROVE Grows(u, m, v, x)
  <2>1. u = q
    BY <1>4 DEF Build, UninitializedCopy
  <2> HIDE DEF u
  <2>2. QED
    BY <1>2, <1>3, <1>4, <2>1 DEF Grows
<1>5. ASSUME ~ q.threw PROVE Grows(u, m, v, x)
  <2>1. Filled(q, w)
    BY <1>2, <1>5 DEF Grows
  <2>2. Grows(r, q, w, x)
    BY <1>1, <1>3, <2>1, BuildFilled DEF x
  <2>3. r.size = q.size /\ Room(r) = Room(q) /\ r.threw \in BOOLEAN
    BY <2>2 DEF Grows
  <2>4. ASSUME r.threw PROVE Grows(u, m, v, x)
    <3>1. u = Destroy(r, OldCells(from, k)) /\ Filled(r, w)
      BY <1>5, <2>2, <2>4 DEF Grows
    <3>2. Holding(u, r, SubSeq(w, 1, from))
      BY <1>1, <3>1, DestroyFilled
    <3> HIDE DEF u
    <3>3. QED
      BY <1>1, <1>3, <2>3, <2>4, <3>2 DEF Grows, Holding, SameLocals
  <2>5. ASSUME ~ r.threw PROVE Grows(u, m, v, x)
    <3>1. u = r
      BY <2>5
    <3> HIDE DEF u
    <3>2. QED
      BY <1>3, <2>2, <2>3, <2>5, <3>1 DEF Grows
  <2>6. QED
    BY <2>3, <2>4, <2>5
<1>6. Grows(u, m, v, x)
  BY <1>3, <1>4, <1>5
<1>7. QED
  BY <1>6 DEF u, x, w

\* _M_finish is set if nothing threw.
LEMMA FinishGrows ==
  ASSUME NEW m, NEW s, IsString(m, s), NEW values \in Seq(Value), NEW from \in Nat, NEW to \in Nat, from <= to,
         to <= Len(s), NEW q, NEW w, Grows(q, m, Whole(s), w),
         ~ q.threw => Replaced(w, Whole(s), from, to, values),
         NEW n, n = from + Len(values) + (Len(s) - to)
  PROVE  Gives(Finished(q, n), Splice(s, from, to, values), s)
<1> DEFINE r == Finished(q, n)
           t == Splice(s, from, to, values)
<1>1. q.size = m.size /\ q.threw \in BOOLEAN /\ s \in Seq(Value) /\ m.size = Len(s)
  BY DEF Grows, IsString
<1>2. ASSUME q.threw PROVE Gives(r, t, s)
  <2>1. r = q
    BY <1>2 DEF Finished
  <2> HIDE DEF r
  <2>2. QED
    BY <1>1, <1>2, <2>1 DEF Grows, Gives, IsString
<1>3. ASSUME ~ q.threw PROVE Gives(r, t, s)
  <2>1. Filled(q, w) /\ w \in Seq(Chars) /\ Replaced(w, Whole(s), from, to, values)
    BY <1>3 DEF Grows, Filled
  <2>2. t \in Seq(Value) /\ w = Whole(t) /\ Len(t) = n
    BY <1>1, <2>1, SpliceIs
  <2> HIDE DEF t
  <2>3. r = [q EXCEPT !.size = n] /\ n \in Nat
    BY <1>3, <2>2 DEF Finished
  <2> HIDE DEF r
  <2>4. q \in States(Chars)
    BY <2>1 DEF Filled
  <2>5. r \in States(Chars) /\ r.mem = q.mem /\ r.size = n /\ r.bad = q.bad /\ r.threw = q.threw
    BY <2>3, <2>4 DEF States
  <2>6. IsString(r, t)
    BY <2>1, <2>2, <2>5 DEF IsString, Filled
  <2>7. QED
    BY <1>3, <2>5, <2>6 DEF Gives
<1>4. Gives(r, t, s)
  BY <1>1, <1>2, <1>3
<1>5. QED
  BY <1>4 DEF r, t

\* t is the k characters of a and the n of b, by index.
JoinOf(t, a, k, b, n) ==
    /\ t \in Seq(Chars) /\ Len(t) = k + n
    /\ \A i \in 1 .. k + n : t[i] = IF i <= k THEN a[i] ELSE b[i - k]

\* t is the k characters of w, with values from from to to.
OverOf(t, w, k, from, to, values) ==
    /\ t \in Seq(Chars) /\ Len(t) = k
    /\ \A i \in 1 .. k : t[i] = IF from < i /\ i <= to THEN values[i - from] ELSE w[i]

\* Joining, by index
LEMMA JoinAt ==
  ASSUME NEW a \in Seq(Chars), NEW b \in Seq(Chars), NEW k \in Nat, k = Len(a), NEW n \in Nat, n = Len(b)
  PROVE  JoinOf(a \o b, a, k, b, n)
<1>1. /\ a \o b \in Seq(Chars) /\ Len(a \o b) = Len(a) + Len(b)
      /\ \A i \in 1 .. Len(a) + Len(b) : (a \o b)[i] = IF i <= Len(a) THEN a[i] ELSE b[i - Len(a)]
  BY JoinedAt
<1>2. QED
  BY <1>1 DEF JoinOf

\* Overwriting, by index
LEMMA OverAt ==
  ASSUME NEW w \in Seq(Chars), NEW k \in Nat, k = Len(w), NEW values \in Seq(Chars), NEW from \in Nat,
         NEW to \in Nat, to = from + Len(values), to <= k
  PROVE  OverOf(Over(w, from, values), w, k, from, to, values)
<1>1. /\ Over(w, from, values) \in Seq(Chars) /\ Len(Over(w, from, values)) = Len(w)
      /\ \A i \in 1 .. Len(w) : Over(w, from, values)[i] =
           IF from < i /\ i <= from + Len(values) THEN values[i - from] ELSE w[i]
  BY OverAre
<1>2. QED
  BY <1>1 DEF OverOf

\* One character
LEMMA OneAre ==
  ASSUME NEW c \in Chars
  PROVE  << c >> \in Seq(Chars) /\ Len(<< c >>) = 1 /\ << c >>[1] = c
OBVIOUS

\* The shape of what append leaves: the null of the string is overwritten last.
LEMMA AppendShape ==
  ASSUME NEW w, NEW k \in Nat, Len(w) = k + 1, w[k + 1] = NullChar, NEW values, NEW n \in Nat \ {0}, Len(values) = n,
         NEW tail, \A j \in 1 .. n - 1 : tail[j] = values[j + 1], NEW one, one[1] = values[1],
         NEW null, null[1] = NullChar, NEW a, JoinOf(a, w, k + 1, tail, n - 1), NEW b, JoinOf(b, a, k + n, null, 1),
         NEW f, OverOf(f, b, k + n + 1, k, k + 1, one)
  PROVE  Replaced(f, w, k, k, values)
<1>1. Len(f) = k + n + 1 /\ \A i \in 1 .. k + n + 1 : f[i] = IF k < i /\ i <= k + 1 THEN one[i - k] ELSE b[i]
  BY DEF OverOf
<1>2. \A i \in 1 .. k + n + 1 : b[i] = IF i <= k + n THEN a[i] ELSE null[i - (k + n)]
  BY DEF JoinOf
<1>3. \A i \in 1 .. k + n : a[i] = IF i <= k + 1 THEN w[i] ELSE tail[i - (k + 1)]
  <2>1. (k + 1) + (n - 1) = k + n
    OBVIOUS
  <2>2. QED
    BY <2>1 DEF JoinOf
<1>4. ASSUME NEW i \in 1 .. k + n + 1
      PROVE  f[i] = IF i <= k THEN w[i] ELSE IF i <= k + n THEN values[i - k] ELSE w[i - (k + n) + k]
  <2>1. CASE i <= k
    <3>1. i \in 1 .. k + n /\ ~ (k < i) /\ i <= k + n /\ i <= k + 1
      BY <2>1
    <3>2. QED
      BY <1>1, <1>2, <1>3, <2>1, <3>1
  <2>2. CASE i = k + 1
    <3>1. i - k = 1 /\ i <= k + n /\ k < i /\ ~ (i <= k) /\ i <= k + 1
      BY <2>2
    <3>2. QED
      BY <1>1, <3>1
  <2>3. CASE ~ (i <= k + 1) /\ i <= k + n
    <3>1. PICK j \in 1 .. n - 1 : j = i - (k + 1)
      BY <2>3
    <3>2. j + 1 = i - k /\ ~ (i <= k) /\ i \in 1 .. k + n
      BY <2>3, <3>1
    <3>3. f[i] = b[i] /\ b[i] = a[i] /\ a[i] = tail[j]
      BY <1>1, <1>2, <1>3, <2>3, <3>1, <3>2
    <3>4. QED
      BY <2>3, <3>1, <3>2, <3>3
  <2>4. CASE i = k + n + 1
    <3>1. i - (k + n) = 1 /\ ~ (i <= k) /\ ~ (i <= k + n) /\ ~ (i <= k + 1) /\ i - (k + n) + k = k + 1
      BY <2>4
    <3>2. QED
      BY <1>1, <1>2, <3>1
  <2>5. QED
    BY <2>1, <2>2, <2>3, <2>4
<1>5. Len(f) = k + n + (Len(w) - k)
  BY <1>1
<1>6. QED
  BY <1>1, <1>4, <1>5 DEF Replaced

\* append with room has no effect if it throws: what it built is destroyed.
LEMMA AppendInPlaceDoes ==
  ASSUME Raw \notin Chars, NEW m, NEW s, IsString(m, s), ~ m.threw, NEW values \in Seq(Value), values # << >>,
         Len(s) + Len(values) + 1 <= Room(m)
  PROVE  Gives(AppendInPlace(m, values), Splice(s, Len(s), Len(s), values), s)
<1> DEFINE w == Whole(s)
           tail == Tail(values)
           one == << Head(values) >>
           null == << NullChar >>
           built == Build(m, tail, m.size + 1)
           both == Build(built, null, m.size + Len(values))
           unwound == IF both.threw /\ ~built.threw
                      THEN Destroy(both, OldCells(m.size + 1, m.size + Len(values))) ELSE both
           moved == Move(unwound, one, OldCells(m.size, m.size + 1))
<1>1. s \in Seq(Value) /\ Filled(m, w) /\ m.size = Len(s) /\ Room(m) \in Nat
  BY FilledParts DEF IsString
<1>2. PICK k \in Nat : k = Len(s)
  BY <1>1
<1>3. PICK n \in Nat \ {0} : n = Len(values)
  OBVIOUS
<1>4. w \in Seq(Chars) /\ Len(w) = k + 1 /\ w[k + 1] = NullChar
  BY <1>1, <1>2, WholeAre
<1>5. tail \in Seq(Chars) /\ Len(tail) = n - 1 /\ \A j \in 1 .. n - 1 : tail[j] = values[j + 1]
  <2>1. values \in Seq(Chars)
    BY WiderSequences DEF Chars
  <2>2. QED
    BY <1>3, <2>1
<1>6. one \in Seq(Chars) /\ Len(one) = 1 /\ one[1] = values[1]
  <2>1. Head(values) = values[1] /\ values[1] \in Chars
    BY <1>3 DEF Chars
  <2>2. QED
    BY <2>1, OneAre
<1>7. null \in Seq(Chars) /\ Len(null) = 1 /\ null[1] = NullChar
  BY OneAre DEF Chars
<1>a. AppendInPlace(m, values) = Finished(moved, m.size + Len(values))
  BY DEF AppendInPlace
<1> HIDE DEF w, tail, one, null
<1>8. Grows(built, m, w, w \o tail)
  <2>1. k + 1 + Len(tail) <= Room(m)
    BY <1>1, <1>2, <1>3, <1>5
  <2>2. Grows(Build(m, tail, k + 1), m, w, w \o tail)
    BY <1>1, <1>4, <1>5, <2>1, BuildFilled
  <2>3. QED
    BY <1>1, <1>2, <2>2
<1> HIDE DEF built
<1>9. Grows(unwound, m, w, w \o tail \o null)
  <2>1. PICK to \in Nat : to = m.size + Len(values)
    BY <1>1, <1>2, <1>3
  <2>2. to = Len(w) + Len(tail) /\ to + Len(null) <= Room(m) /\ m.size + 1 = Len(w)
    BY <1>1, <1>2, <1>3, <1>4, <1>5, <1>7, <2>1
  <2>3. both = Build(built, null, to)
    BY <2>1
  <2> HIDE DEF both
  <2>4. Grows(IF both.threw /\ ~ built.threw THEN Destroy(both, OldCells(m.size + 1, to)) ELSE both,
              m, w, w \o tail \o null)
    BY <1>4, <1>5, <1>7, <1>8, <2>2, <2>3, BuildUnwound
  <2>5. QED
    BY <2>1, <2>4
<1> HIDE DEF unwound
<1>b. JoinOf(w \o tail, w, k + 1, tail, n - 1)
  <2>1. k + 1 \in Nat /\ n - 1 \in Nat
    OBVIOUS
  <2>2. QED
    BY <1>4, <1>5, <2>1, JoinAt
<1> DEFINE a == w \o tail
           b == a \o null
           f == Over(b, k, one)
<1>c. a \in Seq(Chars) /\ Len(a) = k + n
  <2>1. Len(a) = k + 1 + (n - 1)
    BY <1>b DEF JoinOf
  <2>2. QED
    BY <1>b, <2>1 DEF JoinOf
<1> HIDE DEF a
<1>d. JoinOf(b, a, k + n, null, 1)
  <2>1. k + n \in Nat
    OBVIOUS
  <2>2. QED
    BY <1>c, <1>7, <2>1, JoinAt
<1>e. b \in Seq(Chars) /\ Len(b) = k + n + 1
  BY <1>d DEF JoinOf
<1> HIDE DEF b
<1>f. OverOf(f, b, k + n + 1, k, k + 1, one)
  <2>1. k + n + 1 \in Nat /\ k + 1 \in Nat /\ k + 1 = k + Len(one) /\ k + 1 <= k + n + 1
    BY <1>6
  <2>2. QED
    BY <1>6, <1>e, <2>1, OverAt
<1>10. Grows(moved, m, w, f)
  <2>1. k + 1 \in Nat /\ k + 1 = k + Len(one) /\ k + 1 <= Len(b)
    BY <1>6, <1>e
  <2>2. Grows(unwound, m, w, b)
    BY <1>9 DEF a, b
  <2>3. Grows(Move(unwound, one, OldCells(k, k + 1)), m, w, f)
    BY <1>6, <1>e, <2>1, <2>2, MoveGrows
  <2>4. QED
    BY <1>1, <1>2, <2>3
<1> HIDE DEF f, moved
<1>11. Replaced(f, w, k, k, values)
  <2>1. JoinOf(a, w, k + 1, tail, n - 1)
    BY <1>b DEF a
  <2>2. QED
    BY <1>3, <1>4, <1>5, <1>6, <1>7, <1>d, <1>f, <2>1, AppendShape
<1>12. Gives(Finished(moved, k + n), Splice(s, k, k, values), s)
  <2>1. k <= k /\ k <= Len(s) /\ k + n = k + Len(values) + (Len(s) - k)
    BY <1>2, <1>3
  <2>2. QED
    BY <1>10, <1>11, <2>1, FinishGrows DEF w
<1>13. QED
  BY <1>1, <1>2, <1>3, <1>a, <1>12

\* n times a character
LEMMA TimesAre ==
  ASSUME NEW V, NEW c \in V, NEW n \in Nat
  PROVE  /\ Times(n, c) \in Seq(V) /\ Len(Times(n, c)) = n /\ \A j \in 1 .. n : Times(n, c)[j] = c
         /\ (n = 0 => Times(n, c) = << >>)
BY DEF Times

\* append of n times a character has no effect if it throws.
LEMMA AppendFillDoes ==
  ASSUME Raw \notin Chars, NEW m, NEW s, Ready(m, s), NEW n \in Nat, NEW c \in Value
  PROVE  Gives(AppendFill(m, n, c), Splice(s, Len(s), Len(s), Times(n, c)), s)
<1> DEFINE values == Times(n, c)
           t == Splice(s, Len(s), Len(s), values)
           k == Len(s)
<1>1. IsString(m, s) /\ ~ m.threw /\ s \in Seq(Value) /\ m.size = k /\ k \in Nat /\ Room(m) \in Nat
  BY FilledParts DEF Ready, IsString
<1>2. values \in Seq(Value) /\ Len(values) = n /\ (n = 0 => values = << >>)
  BY TimesAre
<1> HIDE DEF values
<1>3. CASE n = 0
  <2>1. AppendFill(m, n, c) = m /\ t = s
    BY <1>1, <1>2, <1>3, SpliceNone DEF AppendFill
  <2>2. QED
    BY <1>1, <2>1 DEF Gives, values
<1>4. CASE n # 0 /\ HasRoom(m, n)
  <2>1. AppendFill(m, n, c) = AppendInPlace(m, values)
    BY <1>1, <1>4 DEF AppendFill, values
  <2>2. Len(s) + Len(values) + 1 <= Room(m)
    <3>1. k + n <= Room(m) - 1
      BY <1>1, <1>4 DEF HasRoom, Capacity, Room
    <3>2. QED
      BY <1>1, <1>2, <3>1
  <2>3. values # << >>
    BY <1>2, <1>4
  <2>4. Gives(AppendInPlace(m, values), t, s)
    BY <1>1, <1>2, <2>2, <2>3, AppendInPlaceDoes
  <2>5. QED
    BY <2>1, <2>4 DEF values
<1>5. CASE n # 0 /\ ~ HasRoom(m, n)
  <2> DEFINE r == Reserve(m, m.size + Larger(m.size, n))
  <2>1. PICK size \in Nat : size = m.size + Larger(m.size, n)
    BY <1>1 DEF Larger
  <2>2. AppendFill(m, n, c) = IF r.threw THEN r ELSE AppendInPlace(r, values)
    BY <1>5 DEF AppendFill, values
  <2>3. Remade(r, Larger(size, k) + 1, s, s)
    BY <2>1, ReserveDoes
  <2> HIDE DEF r
  <2>4. IsString(r, s) /\ r.threw \in BOOLEAN
    BY <2>3 DEF Remade, Gives
  <2>5. ASSUME r.threw PROVE Gives(AppendFill(m, n, c), t, s)
    BY <2>2, <2>4, <2>5 DEF Gives
  <2>6. ASSUME ~ r.threw PROVE Gives(AppendFill(m, n, c), t, s)
    <3>1. Room(r) = Larger(size, k) + 1
      BY <2>3, <2>6 DEF Remade
    <3>2. k + n + 1 <= Larger(size, k) + 1
      <4>1. size = k + (IF k < n THEN n ELSE k)
        BY <1>1, <2>1 DEF Larger
      <4>2. QED
        BY <1>1, <4>1 DEF Larger
    <3>3. Len(s) + Len(values) + 1 <= Room(r) /\ values # << >>
      BY <1>2, <1>5, <3>1, <3>2
    <3>4. Gives(AppendInPlace(r, values), t, s)
      BY <1>2, <2>4, <2>6, <3>3, AppendInPlaceDoes
    <3>5. QED
      BY <2>2, <2>6, <3>4
  <2>7. Gives(AppendFill(m, n, c), t, s)
    BY <2>4, <2>5, <2>6
  <2>8. QED
    BY <2>7 DEF values
<1>6. QED
  BY <1>3, <1>4, <1>5 DEF HasRoom

\* append of a range has no effect if it throws.
LEMMA AppendRangeDoes ==
  ASSUME Raw \notin Chars, NEW m, NEW s, Ready(m, s), NEW values \in Seq(Value)
  PROVE  Gives(AppendRange(m, values), Splice(s, Len(s), Len(s), values), s)
<1> DEFINE t == Splice(s, Len(s), Len(s), values)
           k == Len(s)
<1>1. IsString(m, s) /\ ~ m.threw /\ s \in Seq(Value) /\ m.size = k /\ k \in Nat /\ Room(m) \in Nat
  BY FilledParts DEF Ready, IsString
<1>2. CASE values = << >>
  <2>1. AppendRange(m, values) = m /\ t = s
    BY <1>1, <1>2, SpliceNone DEF AppendRange
  <2>2. QED
    BY <1>1, <2>1 DEF Gives
<1>3. CASE values # << >> /\ HasRoom(m, Len(values))
  <2>1. AppendRange(m, values) = AppendInPlace(m, values)
    BY <1>3 DEF AppendRange
  <2>2. Len(s) + Len(values) + 1 <= Room(m)
    <3>1. k + Len(values) <= Room(m) - 1
      BY <1>1, <1>3 DEF HasRoom, Capacity, Room
    <3>2. QED
      BY <1>1, <3>1
  <2>3. QED
    BY <1>1, <1>3, <2>1, <2>2, AppendInPlaceDoes
<1>4. CASE values # << >> /\ ~ HasRoom(m, Len(values))
  <2>1. PICK n \in Nat : n = Enlarged(m, Len(values))
    BY <1>1 DEF Enlarged, Larger
  <2>2. Len(s) + Len(values) + 1 <= n /\ k <= Len(s)
    BY <1>1, <2>1 DEF Enlarged, Larger
  <2>3. Remade(InsertInNew(m, k, values, n), n, t, s)
    BY <1>1, <2>2, InsertInNewDoes
  <2>4. AppendRange(m, values) = InsertInNew(m, k, values, n)
    BY <1>1, <1>4, <2>1 DEF AppendRange
  <2>5. QED
    BY <2>3, <2>4 DEF Remade
<1>5. QED
  BY <1>2, <1>3, <1>4 DEF HasRoom

\* push_back has no effect if it throws.
LEMMA PushBackDoes ==
  ASSUME Raw \notin Chars, NEW m, NEW s, Ready(m, s), NEW c \in Value
  PROVE  Gives(PushBack(m, c), Splice(s, Len(s), Len(s), << c >>), s)
<1>1. Times(1, c) = << c >>
  BY DEF Times
<1>2. Gives(AppendFill(m, 1, c), Splice(s, Len(s), Len(s), Times(1, c)), s)
  BY AppendFillDoes
<1>3. QED
  BY <1>1, <1>2 DEF PushBack

\* The shape of what the insertion of one character leaves
LEMMA InsertAuxShape ==
  ASSUME NEW w, NEW k \in Nat, Len(w) = k + 1, w[k + 1] = NullChar, NEW pos \in Nat, pos <= k, NEW one,
         Len(one) = 1, NEW null, null[1] = NullChar, NEW p, \A j \in 1 .. k - pos : p[j] = w[pos + j],
         NEW a, JoinOf(a, w, k + 1, null, 1), NEW b, OverOf(b, a, k + 2, pos + 1, k + 1, p),
         NEW f, OverOf(f, b, k + 2, pos, pos + 1, one)
  PROVE  Replaced(f, w, pos, pos, one)
<1>1. Len(f) = k + 2 /\ \A i \in 1 .. k + 2 : f[i] = IF pos < i /\ i <= pos + 1 THEN one[i - pos] ELSE b[i]
  BY DEF OverOf
<1>2. \A i \in 1 .. k + 2 : b[i] = IF pos + 1 < i /\ i <= k + 1 THEN p[i - (pos + 1)] ELSE a[i]
  BY DEF OverOf
<1>3. \A i \in 1 .. k + 2 : a[i] = IF i <= k + 1 THEN w[i] ELSE null[i - (k + 1)]
  <2>1. k + 1 + 1 = k + 2
    OBVIOUS
  <2>2. QED
    BY <2>1 DEF JoinOf
<1>4. ASSUME NEW i \in 1 .. k + 2
      PROVE  f[i] = IF i <= pos THEN w[i] ELSE IF i <= pos + 1 THEN one[i - pos] ELSE w[i - (pos + 1) + pos]
  <2>1. CASE i <= pos
    <3>1. ~ (pos < i) /\ ~ (pos + 1 < i) /\ i <= k + 1
      BY <2>1
    <3>2. QED
      BY <1>1, <1>2, <1>3, <2>1, <3>1
  <2>2. CASE i = pos + 1
    <3>1. pos < i /\ i <= pos + 1 /\ ~ (i <= pos)
      BY <2>2
    <3>2. QED
      BY <1>1, <3>1
  <2>3. CASE pos + 1 < i /\ i <= k + 1
    <3>1. PICK j \in 1 .. k - pos : j = i - (pos + 1)
      BY <2>3
    <3>2. pos + j = i - (pos + 1) + pos /\ ~ (i <= pos + 1) /\ ~ (i <= pos)
      BY <2>3, <3>1
    <3>3. f[i] = b[i] /\ b[i] = p[j]
      BY <1>1, <1>2, <2>3, <3>1, <3>2
    <3>4. QED
      BY <3>1, <3>2, <3>3
  <2>4. CASE i = k + 2
    <3>1. i - (k + 1) = 1 /\ ~ (i <= pos + 1) /\ ~ (i <= pos) /\ ~ (i <= k + 1) /\ i - (pos + 1) + pos = k + 1
      BY <2>4
    <3>2. f[i] = b[i] /\ b[i] = a[i] /\ a[i] = null[1]
      BY <1>1, <1>2, <1>3, <3>1
    <3>3. QED
      BY <3>1, <3>2
  <2>5. QED
    BY <2>1, <2>2, <2>3, <2>4
<1>5. Len(f) = pos + Len(one) + (Len(w) - pos)
  BY <1>1
<1>6. QED
  BY <1>1, <1>4, <1>5 DEF Replaced

\* insert of one character has no effect on the string if it throws.
LEMMA InsertAuxDoes ==
  ASSUME StringParameters, NEW m, NEW s, Ready(m, s), NEW c \in Value, NEW pos \in Nat, pos <= Len(s)
  PROVE  MayGive(InsertAux(m, pos, c), Splice(s, pos, pos, << c >>), s)
<1> DEFINE w == Whole(s)
           null == << NullChar >>
           one == << c >>
           p == Olds(m, pos, m.size)
           built == Build(m, null, m.size + 1)
           up == Move(built, p, OldCells(pos + 1, m.size + 1))
           moved == Move(up, one, OldCells(pos, pos + 1))
           t == Splice(s, pos, pos, one)
<1>1. /\ IsString(m, s) /\ ~ m.threw /\ s \in Seq(Value) /\ Filled(m, w) /\ m.size = Len(s)
      /\ Room(m) \in Nat /\ Raw \notin Chars
  BY FilledParts DEF Ready, IsString, StringParameters
<1>2. PICK k \in Nat : k = Len(s)
  BY <1>1
<1>3. w \in Seq(Chars) /\ Len(w) = k + 1 /\ w[k + 1] = NullChar
  BY <1>1, <1>2, WholeAre
<1>4. CASE HasRoom(m, 1)
  <2>1. InsertAux(m, pos, c) = Finished(moved, m.size + 1)
    BY <1>4 DEF InsertAux
  <2>2. IsPiece(p, w, pos, k)
    <3>1. pos <= k /\ k <= Len(w)
      BY <1>2, <1>3
    <3>2. IsPiece(Olds(m, pos, k), w, pos, k)
      BY <1>1, <3>1, OldsFilled
    <3>3. QED
      BY <1>1, <1>2, <3>2
  <2>3. null \in Seq(Chars) /\ Len(null) = 1 /\ null[1] = NullChar
    BY OneAre DEF Chars
  <2>4. one \in Seq(Chars) /\ Len(one) = 1 /\ one \in Seq(Value)
    BY OneAre DEF Chars
  <2> HIDE DEF w, p, null, one
  <2>5. p \in Seq(Chars) /\ Len(p) = k - pos /\ \A j \in 1 .. k - pos : p[j] = w[pos + j]
    BY <2>2 DEF IsPiece
  <2>6. Grows(built, m, w, w \o null)
    <3>1. k + 1 + Len(null) <= Room(m)
      <4>1. k + 1 <= Room(m) - 1
        BY <1>1, <1>2, <1>4 DEF HasRoom, Capacity, Room
      <4>2. QED
        BY <1>1, <2>3, <4>1
    <3>a. k + 1 \in Nat /\ k + 1 = Len(w)
      BY <1>3
    <3>2. Grows(Build(m, null, k + 1), m, w, w \o null)
      BY <1>1, <1>3, <2>3, <3>1, <3>a, BuildFilled
    <3>3. QED
      BY <1>1, <1>2, <3>2
  <2> HIDE DEF built
  <2> DEFINE a == w \o null
             b == Over(a, pos + 1, p)
             f == Over(b, pos, one)
  <2>7. JoinOf(a, w, k + 1, null, 1)
    <3>1. k + 1 \in Nat /\ 1 \in Nat
      OBVIOUS
    <3>2. QED
      BY <1>3, <2>3, <3>1, JoinAt
  <2>8. a \in Seq(Chars) /\ Len(a) = k + 2
    BY <2>7 DEF JoinOf
  <2>9. Grows(built, m, w, a)
    BY <2>6
  <2> HIDE DEF a
  <2>10. k + 1 = pos + 1 + Len(p) /\ k + 1 <= k + 2 /\ pos + 1 \in Nat /\ k + 1 \in Nat /\ k + 2 \in Nat
    BY <1>2, <2>5
  <2>11. OverOf(b, a, k + 2, pos + 1, k + 1, p)
    BY <2>5, <2>8, <2>10, OverAt
  <2>12. Grows(up, m, w, b)
    <3>1. Grows(Move(built, p, OldCells(pos + 1, k + 1)), m, w, b)
      BY <1>1, <2>5, <2>8, <2>9, <2>10, MoveGrows
    <3>2. QED
      BY <1>1, <1>2, <3>1
  <2>13. b \in Seq(Chars) /\ Len(b) = k + 2
    BY <2>11 DEF OverOf
  <2> HIDE DEF b, up
  <2>14. pos + 1 = pos + Len(one) /\ pos + 1 <= k + 2
    BY <1>2, <2>4
  <2>15. OverOf(f, b, k + 2, pos, pos + 1, one)
    BY <2>4, <2>10, <2>13, <2>14, OverAt
  <2>16. Grows(moved, m, w, f)
    BY <1>1, <2>4, <2>10, <2>12, <2>13, <2>14, MoveGrows
  <2> HIDE DEF f, moved
  <2>17. Replaced(f, w, pos, pos, one)
    BY <1>2, <1>3, <2>3, <2>4, <2>5, <2>7, <2>11, <2>15, InsertAuxShape
  <2>18. Gives(Finished(moved, k + 1), t, s)
    <3>1. pos <= pos /\ k + 1 = pos + Len(one) + (Len(s) - pos)
      BY <1>2, <2>4
    <3>2. QED
      BY <1>1, <2>4, <2>16, <2>17, <3>1, FinishGrows DEF w
  <2>19. MayGive(Finished(moved, k + 1), t, s)
    BY <2>18, GivesMayGive
  <2>20. QED
    BY <1>1, <1>2, <2>1, <2>19 DEF one, moved, up, built, w, null, p
<1>5. CASE ~ HasRoom(m, 1)
  <2>1. InsertAux(m, pos, c) = InsertOneInNew(m, pos, c)
    BY <1>5 DEF InsertAux
  <2>2. QED
    BY <2>1, InsertOneInNewDoes
<1>6. QED
  BY <1>4, <1>5 DEF HasRoom

\* insert of one character appends it at the end.
LEMMA InsertOneDoes ==
  ASSUME StringParameters, NEW m, NEW s, Ready(m, s), NEW c \in Value, NEW pos \in Nat, pos <= Len(s)
  PROVE  MayGive(InsertOne(m, pos, c), Splice(s, pos, pos, << c >>), s)
<1>1. m.size = Len(s) /\ Raw \notin Chars
  BY DEF Ready, IsString, StringParameters
<1>2. CASE pos = Len(s)
  <2>1. Gives(PushBack(m, c), Splice(s, pos, pos, << c >>), s)
    BY <1>1, <1>2, PushBackDoes
  <2>2. QED
    BY <1>1, <1>2, <2>1, GivesMayGive DEF InsertOne
<1>3. CASE pos # Len(s)
  BY <1>1, <1>3, InsertAuxDoes DEF InsertOne
<1>4. QED
  BY <1>2, <1>3

\* The shape of what the insertion of fewer characters than come after pos leaves: its
\* first part is the end with the null, its second part what is moved up.
LEMMA InsertFewShape ==
  ASSUME NEW w, NEW k \in Nat, Len(w) = k + 1, NEW pos \in Nat, NEW values, NEW n \in Nat, Len(values) = n,
         pos + n <= k, NEW p1, \A j \in 1 .. n : p1[j] = w[k - n + 1 + j],
         NEW p2, \A j \in 1 .. k - n + 1 - pos : p2[j] = w[pos + j],
         NEW a, JoinOf(a, w, k + 1, p1, n), NEW b, OverOf(b, a, k + n + 1, pos + n, k + 1, p2),
         NEW f, OverOf(f, b, k + n + 1, pos, pos + n, values)
  PROVE  Replaced(f, w, pos, pos, values)
<1>1. Len(f) = k + n + 1 /\ \A i \in 1 .. k + n + 1 : f[i] = IF pos < i /\ i <= pos + n THEN values[i - pos] ELSE b[i]
  BY DEF OverOf
<1>2. \A i \in 1 .. k + n + 1 : b[i] = IF pos + n < i /\ i <= k + 1 THEN p2[i - (pos + n)] ELSE a[i]
  BY DEF OverOf
<1>3. \A i \in 1 .. k + n + 1 : a[i] = IF i <= k + 1 THEN w[i] ELSE p1[i - (k + 1)]
  <2>1. k + 1 + n = k + n + 1
    OBVIOUS
  <2>2. QED
    BY <2>1 DEF JoinOf
<1>4. ASSUME NEW i \in 1 .. k + n + 1
      PROVE  f[i] = IF i <= pos THEN w[i] ELSE IF i <= pos + n THEN values[i - pos] ELSE w[i - (pos + n) + pos]
  <2>1. CASE i <= pos
    <3>1. ~ (pos < i) /\ ~ (pos + n < i) /\ i <= k + 1
      BY <2>1
    <3>2. QED
      BY <1>1, <1>2, <1>3, <2>1, <3>1
  <2>2. CASE pos < i /\ i <= pos + n
    <3>1. ~ (i <= pos)
      BY <2>2
    <3>2. QED
      BY <1>1, <2>2, <3>1
  <2>3. CASE pos + n < i /\ i <= k + 1
    <3>1. PICK j \in 1 .. k - n + 1 - pos : j = i - (pos + n)
      BY <2>3
    <3>2. pos + j = i - (pos + n) + pos /\ ~ (i <= pos + n) /\ ~ (i <= pos)
      BY <2>3, <3>1
    <3>3. f[i] = b[i] /\ b[i] = p2[j]
      BY <1>1, <1>2, <2>3, <3>1, <3>2
    <3>4. QED
      BY <3>1, <3>2, <3>3
  <2>4. CASE k + 1 < i
    <3>1. PICK j \in 1 .. n : j = i - (k + 1)
      BY <2>4
    <3>2. /\ k - n + 1 + j = i - (pos + n) + pos /\ ~ (i <= pos + n) /\ ~ (i <= pos) /\ ~ (i <= k + 1)
      BY <2>4, <3>1
    <3>3. f[i] = b[i] /\ b[i] = a[i] /\ a[i] = p1[j]
      BY <1>1, <1>2, <1>3, <3>1, <3>2
    <3>4. QED
      BY <3>1, <3>2, <3>3
  <2>5. QED
    BY <2>1, <2>2, <2>3, <2>4
<1>5. Len(f) = pos + Len(values) + (Len(w) - pos)
  BY <1>1
<1>6. QED
  BY <1>1, <1>4, <1>5 DEF Replaced

\* insert, with room, of fewer characters than come after pos has no effect if it throws;
\* nothing throws once the first part is built and the size is set.
LEMMA InsertFewDoes ==
  ASSUME Raw \notin Chars, NEW m, NEW s, Ready(m, s), NEW values \in Seq(Value), NEW pos \in Nat,
         pos + Len(values) <= Len(s), Len(s) + Len(values) + 1 <= Room(m)
  PROVE  Gives(InsertFew(m, pos, values), Splice(s, pos, pos, values), s)
<1> DEFINE w == Whole(s)
           p1 == Olds(m, m.size - Len(values) + 1, m.size + 1)
           p2 == Olds(m, pos, m.size - Len(values) + 1)
           first == Build(m, p1, m.size + 1)
           built == Finished(first, m.size + Len(values))
           up == Move(built, p2, OldCells(pos + Len(values), m.size + 1))
           r == Move(up, values, OldCells(pos, pos + Len(values)))
           t == Splice(s, pos, pos, values)
<1>1. IsString(m, s) /\ ~ m.threw /\ s \in Seq(Value) /\ Filled(m, w) /\ m.size = Len(s)
  BY DEF Ready, IsString
<1>2. PICK k \in Nat : k = Len(s)
  BY <1>1
<1>3. PICK n \in Nat : n = Len(values)
  OBVIOUS
<1>4. w \in Seq(Chars) /\ Len(w) = k + 1 /\ Room(m) \in Nat
  BY <1>1, <1>2, WholeAre, FilledParts
<1>5. values \in Seq(Chars)
  BY WiderSequences DEF Chars
<1>a. InsertFew(m, pos, values) = r
  BY DEF InsertFew
<1>b. PICK low \in Nat : low = k - n + 1
  BY <1>2, <1>3
<1>6. IsPiece(p1, w, low, k + 1)
  <2>1. low <= k + 1 /\ k + 1 <= Len(w) /\ k + 1 \in Nat
    BY <1>4, <1>b
  <2>2. IsPiece(Olds(m, low, k + 1), w, low, k + 1)
    BY <1>1, <2>1, OldsFilled
  <2>3. QED
    BY <1>1, <1>2, <1>3, <1>b, <2>2
<1>7. IsPiece(p2, w, pos, low)
  <2>1. pos <= low /\ low <= Len(w)
    BY <1>2, <1>3, <1>4, <1>b
  <2>2. IsPiece(Olds(m, pos, low), w, pos, low)
    BY <1>1, <2>1, OldsFilled
  <2>3. QED
    BY <1>1, <1>2, <1>3, <1>b, <2>2
<1> HIDE DEF w, p1, p2
<1>8. p1 \in Seq(Chars) /\ Len(p1) = n /\ \A j \in 1 .. n : p1[j] = w[k - n + 1 + j]
  <2>1. k + 1 - low = n
    BY <1>b
  <2>2. p1 \in Seq(Chars) /\ Len(p1) = k + 1 - low /\ \A j \in 1 .. k + 1 - low : p1[j] = w[low + j]
    BY ONLY <1>6 DEF IsPiece
  <2>3. p1 \in Seq(Chars) /\ Len(p1) = n /\ \A j \in 1 .. n : p1[j] = w[low + j]
    BY ONLY <2>1, <2>2
  <2>4. QED
    BY ONLY <1>b, <2>3
<1>9. p2 \in Seq(Chars) /\ Len(p2) = k - n + 1 - pos /\ \A j \in 1 .. k - n + 1 - pos : p2[j] = w[pos + j]
  BY <1>7, <1>b DEF IsPiece
<1> DEFINE a == w \o p1
           b == Over(a, pos + n, p2)
           f == Over(b, pos, values)
<1>10. JoinOf(a, w, k + 1, p1, n)
  <2>1. k + 1 \in Nat
    OBVIOUS
  <2>2. QED
    BY <1>4, <1>8, <2>1, JoinAt
<1>11. Grows(first, m, w, a)
  <2>1. k + 1 + Len(p1) <= Room(m) /\ k + 1 \in Nat /\ k + 1 = Len(w)
    BY <1>2, <1>3, <1>4, <1>8
  <2>2. Grows(Build(m, p1, k + 1), m, w, w \o p1)
    BY <1>1, <1>4, <1>8, <2>1, BuildFilled
  <2>3. QED
    BY <1>1, <1>2, <2>2
<1>12. a \in Seq(Chars) /\ Len(a) = k + n + 1
  <2>1. k + 1 + n = k + n + 1
    OBVIOUS
  <2>2. QED
    BY <1>10, <2>1 DEF JoinOf
<1> HIDE DEF a, first
<1>13. /\ k + 1 = pos + n + Len(p2) /\ k + 1 <= k + n + 1 /\ pos + n \in Nat /\ k + 1 \in Nat /\ k + n + 1 \in Nat
       /\ pos + n = pos + Len(values) /\ pos + n <= k + n + 1 /\ k + n \in Nat /\ pos + n <= k
  BY <1>2, <1>3, <1>9
<1>14. OverOf(b, a, k + n + 1, pos + n, k + 1, p2)
  BY <1>9, <1>12, <1>13, OverAt
<1>15. b \in Seq(Chars) /\ Len(b) = k + n + 1
  BY <1>14 DEF OverOf
<1> HIDE DEF b
<1>16. OverOf(f, b, k + n + 1, pos, pos + n, values)
  BY <1>5, <1>13, <1>15, OverAt
<1> HIDE DEF f
<1>17. Replaced(f, w, pos, pos, values)
  BY <1>3, <1>4, <1>8, <1>9, <1>10, <1>13, <1>14, <1>16, InsertFewShape
<1>18. ASSUME first.threw PROVE Gives(r, t, s)
  <2>1. r = first
    BY <1>18 DEF Finished, Move
  <2> HIDE DEF r
  <2>2. Filled(r, Whole(s)) /\ r.size = m.size /\ r.threw
    BY <1>11, <1>18, <2>1 DEF Grows, w
  <2>3. QED
    BY <1>1, <2>2 DEF Gives, IsString
<1>19. ASSUME ~ first.threw PROVE Gives(r, t, s)
  <2>1. built = [first EXCEPT !.size = k + n]
    BY <1>1, <1>2, <1>3, <1>19 DEF Finished
  <2>2. Filled(first, a) /\ first \in States(Chars)
    BY <1>11, <1>19 DEF Grows, Filled
  <2> HIDE DEF built
  <2>3. /\ built \in States(Chars) /\ built.mem = first.mem /\ built.size = k + n /\ built.bad = first.bad
        /\ built.threw = first.threw
    BY <1>13, <2>1, <2>2 DEF States
  <2>4. Filled(built, a) /\ ~ built.threw
    BY <1>19, <2>2, <2>3 DEF Filled
  <2>5. Holding(up, built, b)
    <3>1. Holding(Move(built, p2, OldCells(pos + n, k + 1)), built, Over(a, pos + n, p2))
      BY <1>9, <1>12, <1>13, <2>4, MoveFilled
    <3>2. QED
      BY <1>1, <1>2, <1>3, <3>1 DEF b
  <2> HIDE DEF up
  <2>6. Filled(up, b) /\ up.size = k + n /\ ~ up.threw
    BY <2>3, <2>4, <2>5 DEF Holding, SameLocals
  <2>7. Holding(r, up, f)
    <3>1. Holding(Move(up, values, OldCells(pos, pos + n)), up, Over(b, pos, values))
      BY <1>5, <1>13, <1>15, <2>6, MoveFilled
    <3>2. QED
      BY <1>3, <3>1 DEF f
  <2> HIDE DEF r
  <2>8. Filled(r, f) /\ r.size = k + n /\ ~ r.threw /\ f \in Seq(Chars)
    BY <2>6, <2>7 DEF Holding, SameLocals, Filled
  <2>9. t \in Seq(Value) /\ f = Whole(t) /\ Len(t) = pos + Len(values) + (Len(s) - pos)
    <3>1. pos <= pos /\ pos <= Len(s)
      BY <1>2, <1>13
    <3>2. QED
      BY <1>1, <1>17, <2>8, <3>1, SpliceIs DEF w
  <2> HIDE DEF t
  <2>10. Len(t) = k + n
    BY <1>2, <1>3, <2>9
  <2>11. QED
    BY <2>8, <2>9, <2>10 DEF Gives, IsString
<1>20. first.threw \in BOOLEAN
  BY <1>11 DEF Grows
<1>21. QED
  BY <1>18, <1>19, <1>20, <1>a

\* The shape of what the insertion of at least as many characters as come after pos leaves:
\* the last of them, then what comes after pos with the null.
LEMMA InsertManyShape ==
  ASSUME NEW w, NEW k \in Nat, Len(w) = k + 1, NEW pos \in Nat, NEW after \in Nat, after = k - pos,
         NEW values, NEW n \in Nat, Len(values) = n, after < n,
         NEW last, \A j \in 1 .. n - after - 1 : last[j] = values[after + 1 + j],
         NEW p, \A j \in 1 .. after + 1 : p[j] = w[pos + j],
         NEW head, \A j \in 1 .. after + 1 : head[j] = values[j],
         NEW a, JoinOf(a, w, k + 1, last, n - after - 1), NEW b, JoinOf(b, a, pos + n, p, after + 1),
         NEW f, OverOf(f, b, k + n + 1, pos, k + 1, head)
  PROVE  Replaced(f, w, pos, pos, values)
<1>1. Len(f) = k + n + 1 /\ \A i \in 1 .. k + n + 1 : f[i] = IF pos < i /\ i <= k + 1 THEN head[i - pos] ELSE b[i]
  BY DEF OverOf
<1>2. \A i \in 1 .. k + n + 1 : b[i] = IF i <= pos + n THEN a[i] ELSE p[i - (pos + n)]
  <2>1. pos + n + (after + 1) = k + n + 1
    OBVIOUS
  <2>2. QED
    BY <2>1 DEF JoinOf
<1>3. \A i \in 1 .. pos + n : a[i] = IF i <= k + 1 THEN w[i] ELSE last[i - (k + 1)]
  <2>1. k + 1 + (n - after - 1) = pos + n
    OBVIOUS
  <2>2. QED
    BY <2>1 DEF JoinOf
<1>4. ASSUME NEW i \in 1 .. k + n + 1
      PROVE  f[i] = IF i <= pos THEN w[i] ELSE IF i <= pos + n THEN values[i - pos] ELSE w[i - (pos + n) + pos]
  <2>1. CASE i <= pos
    <3>1. ~ (pos < i) /\ i <= pos + n /\ i <= k + 1 /\ i \in 1 .. pos + n
      BY <2>1
    <3>2. f[i] = b[i] /\ b[i] = a[i] /\ a[i] = w[i]
      BY <1>1, <1>2, <1>3, <3>1
    <3>3. QED
      BY <2>1, <3>2
  <2>2. CASE pos < i /\ i <= k + 1
    <3>1. PICK j \in 1 .. after + 1 : j = i - pos
      BY <2>2
    <3>2. ~ (i <= pos) /\ i <= pos + n
      BY <2>2
    <3>3. f[i] = head[j]
      BY <1>1, <2>2, <3>1
    <3>4. QED
      BY <3>1, <3>2, <3>3
  <2>3. CASE k + 1 < i /\ i <= pos + n
    <3>1. PICK j \in 1 .. n - after - 1 : j = i - (k + 1)
      BY <2>3
    <3>2. after + 1 + j = i - pos /\ ~ (i <= pos) /\ ~ (i <= k + 1) /\ i \in 1 .. pos + n
      BY <2>3, <3>1
    <3>3. f[i] = b[i] /\ b[i] = a[i] /\ a[i] = last[j]
      BY <1>1, <1>2, <1>3, <2>3, <3>1, <3>2
    <3>4. QED
      BY <2>3, <3>1, <3>2, <3>3
  <2>4. CASE pos + n < i
    <3>1. PICK j \in 1 .. after + 1 : j = i - (pos + n)
      BY <2>4
    <3>2. pos + j = i - (pos + n) + pos /\ ~ (i <= pos) /\ ~ (i <= k + 1) /\ ~ (i <= pos + n)
      BY <2>4, <3>1
    <3>3. f[i] = b[i] /\ b[i] = p[j]
      BY <1>1, <1>2, <3>1, <3>2
    <3>4. QED
      BY <3>1, <3>2, <3>3
  <2>5. QED
    BY <2>1, <2>2, <2>3, <2>4
<1>5. Len(f) = pos + Len(values) + (Len(w) - pos)
  BY <1>1
<1>6. QED
  BY <1>1, <1>4, <1>5 DEF Replaced

\* insert, with room, of at least as many characters as come after pos has no effect if it
\* throws: what it built is destroyed.
LEMMA InsertManyDoes ==
  ASSUME Raw \notin Chars, NEW m, NEW s, Ready(m, s), NEW values \in Seq(Value), NEW pos \in Nat, pos <= Len(s),
         Len(s) - pos < Len(values), Len(s) + Len(values) + 1 <= Room(m)
  PROVE  Gives(InsertMany(m, pos, values), Splice(s, pos, pos, values), s)
<1> DEFINE w == Whole(s)
           back == m.size - pos
           last == Last(values, Len(values) - back - 1)
           head == First(values, back + 1)
           p == Olds(m, pos, m.size + 1)
           first == Build(m, last, m.size + 1)
           both == Build(first, p, m.size + Len(values) - back)
           unwound == IF both.threw /\ ~first.threw
                      THEN Destroy(both, OldCells(m.size + 1, m.size + Len(values) - back)) ELSE both
           moved == Move(unwound, head, OldCells(pos, m.size + 1))
<1>1. IsString(m, s) /\ ~ m.threw /\ s \in Seq(Value) /\ Filled(m, w) /\ m.size = Len(s)
  BY DEF Ready, IsString
<1>2. PICK k \in Nat : k = Len(s)
  BY <1>1
<1>3. PICK n \in Nat : n = Len(values)
  OBVIOUS
<1>4. w \in Seq(Chars) /\ Len(w) = k + 1 /\ Room(m) \in Nat
  BY <1>1, <1>2, WholeAre, FilledParts
<1>5. values \in Seq(Chars)
  BY WiderSequences DEF Chars
<1>b. PICK after \in Nat : after = k - pos
  <2>1. k - pos \in Nat
    BY <1>2
  <2>2. QED
    BY <2>1
<1>c. m.size = k /\ back = after /\ after < n
  BY <1>1, <1>2, <1>3, <1>b
<1>a. InsertMany(m, pos, values) = Finished(moved, m.size + Len(values))
  BY DEF InsertMany
<1>6. /\ last \in Seq(Chars) /\ Len(last) = n - after - 1
      /\ \A j \in 1 .. n - after - 1 : last[j] = values[after + 1 + j]
  <2>1. PICK size \in Nat : size = n - after - 1
    BY <1>c
  <2>2. Smaller(size, Len(values)) = size
    BY <1>3, <1>c, <2>1 DEF Smaller
  <2>a. /\ Last(values, size) \in Seq(Chars) /\ Len(Last(values, size)) = Smaller(size, Len(values))
        /\ \A j \in 1 .. Smaller(size, Len(values)) :
             Last(values, size)[j] = values[Len(values) - Smaller(size, Len(values)) + j]
    BY <1>5, LastAre
  <2>3. /\ Last(values, size) \in Seq(Chars) /\ Len(Last(values, size)) = size
        /\ \A j \in 1 .. size : Last(values, size)[j] = values[Len(values) - size + j]
    BY <2>2, <2>a
  <2>4. last = Last(values, size) /\ \A j \in 1 .. size : Len(values) - size + j = after + 1 + j
    BY <1>3, <1>c, <2>1
  <2> HIDE DEF last
  <2>5. QED
    BY <2>1, <2>3, <2>4
<1>7. head \in Seq(Chars) /\ Len(head) = after + 1 /\ \A j \in 1 .. after + 1 : head[j] = values[j]
  <2>1. PICK size \in Nat : size = after + 1
    OBVIOUS
  <2>2. Smaller(size, Len(values)) = size
    BY <1>3, <1>c, <2>1 DEF Smaller
  <2>3. /\ First(values, size) \in Seq(Chars) /\ Len(First(values, size)) = size
        /\ \A j \in 1 .. size : First(values, size)[j] = values[j]
    BY <1>5, <2>2, FirstAre
  <2>4. head = First(values, size)
    BY <1>c, <2>1
  <2> HIDE DEF head
  <2>5. QED
    BY <2>1, <2>3, <2>4
<1>8. IsPiece(p, w, pos, k + 1)
  <2>1. pos <= k + 1 /\ k + 1 <= Len(w) /\ k + 1 \in Nat
    BY <1>2, <1>4
  <2>2. IsPiece(Olds(m, pos, k + 1), w, pos, k + 1)
    BY <1>1, <2>1, OldsFilled
  <2>3. QED
    BY <1>c, <2>2
<1> HIDE DEF w, p, last, head
<1>9. p \in Seq(Chars) /\ Len(p) = after + 1 /\ \A j \in 1 .. after + 1 : p[j] = w[pos + j]
  <2>1. k + 1 - pos = after + 1
    BY <1>b
  <2>2. QED
    BY <1>8, <2>1 DEF IsPiece
<1>10. /\ k + 1 \in Nat /\ k + 1 = Len(w) /\ n - after - 1 \in Nat /\ after + 1 \in Nat
       /\ pos + n = k + n - after /\ pos + n \in Nat /\ k + n + 1 \in Nat
       /\ k + 1 = pos + Len(head) /\ k + 1 <= k + n + 1 /\ k + n + 1 <= Room(m)
       /\ k + 1 + Len(last) = pos + n /\ pos + n + Len(p) = k + n + 1
  BY <1>2, <1>3, <1>4, <1>6, <1>7, <1>9, <1>b, <1>c
<1>11. Grows(first, m, w, w \o last)
  <2>1. k + 1 + Len(last) <= Room(m)
    BY <1>4, <1>10, <1>c
  <2>2. Grows(Build(m, last, k + 1), m, w, w \o last)
    BY <1>1, <1>4, <1>6, <1>10, <2>1, BuildFilled
  <2>3. QED
    BY <1>c, <2>2
<1> HIDE DEF first
<1>12. Grows(unwound, m, w, w \o last \o p)
  <2>1. PICK to \in Nat : to = m.size + Len(values) - back
    BY <1>3, <1>c, <1>10
  <2>2. to = Len(w) + Len(last) /\ to + Len(p) <= Room(m) /\ m.size + 1 = Len(w)
    BY <1>3, <1>4, <1>6, <1>9, <1>10, <1>c, <2>1
  <2>3. both = Build(first, p, to)
    BY <2>1
  <2> HIDE DEF both
  <2>4. Grows(IF both.threw /\ ~ first.threw THEN Destroy(both, OldCells(m.size + 1, to)) ELSE both,
              m, w, w \o last \o p)
    <3>1. /\ w \in Seq(Chars) /\ last \in Seq(Chars) /\ p \in Seq(Chars) /\ to \in Nat
          /\ to = Len(w) + Len(last) /\ to + Len(p) <= Room(m) /\ m.size + 1 = Len(w)
      BY <1>4, <1>6, <1>9, <2>1, <2>2
    <3>2. QED
      BY <1>11, <2>3, <3>1, BuildUnwound
  <2>5. QED
    BY <2>1, <2>4
<1> HIDE DEF unwound
<1>13. JoinOf(w \o last, w, k + 1, last, n - after - 1)
  BY <1>4, <1>6, <1>10, JoinAt
<1> DEFINE a == w \o last
           b == a \o p
           f == Over(b, pos, head)
<1>14. a \in Seq(Chars) /\ Len(a) = pos + n
  <2>1. k + 1 + (n - after - 1) = pos + n
    BY <1>b
  <2>2. QED
    BY <1>13, <2>1 DEF JoinOf
<1>15. JoinOf(a, w, k + 1, last, n - after - 1)
  BY <1>13
<1>e. Grows(unwound, m, w, a \o p)
  BY <1>12
<1> HIDE DEF a
<1>16. JoinOf(a \o p, a, pos + n, p, after + 1)
  BY <1>9, <1>10, <1>14, JoinAt
<1>17. JoinOf(b, a, pos + n, p, after + 1) /\ Grows(unwound, m, w, b)
  BY <1>e, <1>16
<1> HIDE DEF b
<1>18. b \in Seq(Chars) /\ Len(b) = k + n + 1
  <2>1. pos + n + (after + 1) = k + n + 1
    BY <1>b
  <2>2. QED
    BY <1>17, <2>1 DEF JoinOf
<1>19. OverOf(f, b, k + n + 1, pos, k + 1, head)
  BY <1>7, <1>10, <1>18, OverAt
<1>20. Grows(moved, m, w, f)
  <2>1. Grows(Move(unwound, head, OldCells(pos, k + 1)), m, w, Over(b, pos, head))
    BY <1>7, <1>10, <1>17, <1>18, MoveGrows
  <2>2. QED
    BY <1>c, <2>1
<1> HIDE DEF f, moved, back
<1>21. Replaced(f, w, pos, pos, values)
  BY <1>3, <1>4, <1>6, <1>7, <1>9, <1>15, <1>17, <1>19, <1>b, <1>c, InsertManyShape
<1>22. Gives(Finished(moved, k + n), Splice(s, pos, pos, values), s)
  <2>1. pos <= pos /\ k + n = pos + Len(values) + (Len(s) - pos)
    BY <1>2, <1>3
  <2>2. QED
    BY <1>1, <1>20, <1>21, <2>1, FinishGrows DEF w
<1>23. QED
  BY <1>3, <1>a, <1>c, <1>22

\* insert of a range or of n times a character has no effect if it throws.
LEMMA InsertAllDoes ==
  ASSUME Raw \notin Chars, NEW m, NEW s, Ready(m, s), NEW values \in Seq(Value), NEW pos \in Nat, pos <= Len(s)
  PROVE  Gives(InsertAll(m, pos, values), Splice(s, pos, pos, values), s)
<1> DEFINE t == Splice(s, pos, pos, values)
<1>1. /\ IsString(m, s) /\ ~ m.threw /\ s \in Seq(Value) /\ m.size = Len(s) /\ Len(s) \in Nat
      /\ Room(m) \in Nat /\ Len(values) \in Nat
  BY FilledParts DEF Ready, IsString
<1>2. CASE values = << >>
  <2>1. InsertAll(m, pos, values) = m /\ t = s
    BY <1>1, <1>2, SpliceNone DEF InsertAll
  <2>2. QED
    BY <1>1, <2>1 DEF Gives
<1>3. CASE values # << >> /\ ~ HasRoom(m, Len(values))
  <2>1. PICK n \in Nat : n = Enlarged(m, Len(values))
    BY <1>1 DEF Enlarged, Larger
  <2>2. Len(s) + Len(values) + 1 <= n
    BY <1>1, <2>1 DEF Enlarged, Larger
  <2>3. Remade(InsertInNew(m, pos, values, n), n, t, s)
    BY <2>2, InsertInNewDoes
  <2>4. InsertAll(m, pos, values) = InsertInNew(m, pos, values, n)
    BY <1>3, <2>1 DEF InsertAll
  <2>5. QED
    BY <2>3, <2>4 DEF Remade
<1>4. CASE values # << >> /\ HasRoom(m, Len(values))
  <2>1. Len(s) + Len(values) + 1 <= Room(m)
    <3>1. Len(s) + Len(values) <= Room(m) - 1
      BY <1>1, <1>4 DEF HasRoom, Capacity, Room
    <3>2. QED
      BY <1>1, <3>1
  <2>2. CASE m.size - pos >= Len(values)
    <3>1. pos + Len(values) <= Len(s)
      BY <1>1, <2>2
    <3>2. InsertAll(m, pos, values) = InsertFew(m, pos, values)
      BY <1>4, <2>2 DEF InsertAll
    <3>3. QED
      BY <2>1, <3>1, <3>2, InsertFewDoes
  <2>3. CASE ~ (m.size - pos >= Len(values))
    <3>1. Len(s) - pos < Len(values)
      BY <1>1, <2>3
    <3>2. InsertAll(m, pos, values) = InsertMany(m, pos, values)
      BY <1>4, <2>3 DEF InsertAll
    <3>3. QED
      BY <2>1, <3>1, <3>2, InsertManyDoes
  <2>4. QED
    BY <2>2, <2>3
<1>5. QED
  BY <1>2, <1>3, <1>4 DEF HasRoom

-----------------------------------------------------------------------------
(* Fewer characters                                                         *)

\* f is the first n of b, by index.
HeadOf(f, b, n) == Len(f) = n /\ \A i \in 1 .. n : f[i] = b[i]

\* The shape of what moving the end down and destroying what is behind it leaves
LEMMA ShiftShape ==
  ASSUME NEW w, NEW k \in Nat, Len(w) = k + 1, NEW from \in Nat, NEW to \in Nat, from <= to, to <= k,
         NEW n \in Nat, n = k - (to - from), NEW p, IsPiece(p, w, to, k + 1),
         NEW b, OverOf(b, w, k + 1, from, n + 1, p), NEW f, HeadOf(f, b, n + 1),
         NEW none, Len(none) = 0
  PROVE  Replaced(f, w, from, to, none)
<1>1. \A i \in 1 .. k + 1 : b[i] = IF from < i /\ i <= n + 1 THEN p[i - from] ELSE w[i]
  BY DEF OverOf
<1>2. ASSUME NEW i \in 1 .. n + 1
      PROVE  f[i] = IF i <= from THEN w[i] ELSE IF i <= from + 0 THEN none[i - from] ELSE w[i - (from + 0) + to]
  <2>0. i \in 1 .. k + 1 /\ f[i] = b[i]
    BY DEF HeadOf
  <2>1. CASE i <= from
    <3>1. ~ (from < i)
      BY <2>1
    <3>2. QED
      BY <1>1, <2>0, <2>1, <3>1
  <2>2. CASE from < i
    <3>1. PICK j \in 1 .. k + 1 - to : j = i - from
      BY <2>2
    <3>2. to + j = i - (from + 0) + to /\ ~ (i <= from) /\ ~ (i <= from + 0) /\ i <= n + 1
      BY <2>2, <3>1
    <3>3. b[i] = p[j]
      BY <1>1, <2>0, <2>2, <3>1, <3>2
    <3>4. p[j] = w[to + j]
      BY DEF IsPiece
    <3>5. QED
      BY <2>0, <3>2, <3>3, <3>4
  <2>3. QED
    BY <2>1, <2>2
<1>3. Len(f) = from + Len(none) + (Len(w) - to)
  BY DEF HeadOf
<1>4. QED
  BY <1>2, <1>3 DEF Replaced

\* erase, pop_back and clear: the end moves down with the null, and what it leaves is
\* destroyed.  Nothing throws.
LEMMA ShiftDownDoes ==
  ASSUME Raw \notin Chars, NEW m, NEW s, IsString(m, s), ~ m.threw, NEW from \in Nat, NEW to \in Nat, from <= to,
         to <= Len(s), NEW p, IsPiece(p, Whole(s), to, Len(s) + 1), NEW n \in Nat, n = Len(s) - (to - from)
  PROVE  Gives(Finished(Destroy(Move(m, p, OldCells(from, n + 1)), OldCells(n + 1, Len(s) + 1)), n),
               Splice(s, from, to, << >>), s)
<1> DEFINE w == Whole(s)
           moved == Move(m, p, OldCells(from, n + 1))
           less == Destroy(moved, OldCells(n + 1, Len(s) + 1))
           t == Splice(s, from, to, << >>)
           b == Over(w, from, p)
           f == SubSeq(b, 1, n + 1)
<1>1. s \in Seq(Value) /\ Filled(m, w) /\ m.size = Len(s)
  BY DEF IsString
<1>2. PICK k \in Nat : k = Len(s)
  BY <1>1
<1>3. w \in Seq(Chars) /\ Len(w) = k + 1
  BY <1>1, <1>2, WholeAre
<1>4. p \in Seq(Chars) /\ Len(p) = k + 1 - to /\ \A j \in 1 .. k + 1 - to : p[j] = w[to + j]
  BY <1>2 DEF IsPiece
<1> HIDE DEF w
<1>5. /\ n + 1 \in Nat /\ k + 1 \in Nat /\ n + 1 = from + Len(p) /\ n + 1 <= k + 1 /\ k + 1 = Len(w)
      /\ n = k - (to - from)
  BY <1>2, <1>3, <1>4
<1>6. OverOf(b, w, k + 1, from, n + 1, p)
  BY <1>3, <1>4, <1>5, OverAt
<1>7. Holding(moved, m, b)
  BY <1>1, <1>3, <1>4, <1>5, MoveFilled
<1> HIDE DEF b, moved
<1>8. Filled(moved, b) /\ moved.size = m.size /\ moved.threw = m.threw /\ b \in Seq(Chars) /\ Len(b) = k + 1
  BY <1>6, <1>7 DEF Holding, SameLocals, OverOf
<1>9. f \in Seq(Chars) /\ Len(f) = n + 1 /\ \A i \in 1 .. n + 1 : f[i] = b[i]
  BY <1>5, <1>8
<1>10. Holding(less, moved, f)
  <2>1. n + 1 <= Len(b) /\ Len(s) + 1 = Len(b)
    BY <1>2, <1>5, <1>8
  <2>2. QED
    BY <1>5, <1>8, <2>1, DestroyFilled
<1> HIDE DEF f, less
<1>11. PICK none \in Seq(Value) : none = << >> /\ Len(none) = 0
  <2>1. << >> \in Seq(Value) /\ Len(<< >>) = 0
    OBVIOUS
  <2>2. QED
    BY <2>1
<1>12. Replaced(f, w, from, to, none)
  <2>1. to <= k /\ Len(w) = k + 1 /\ n = k - (to - from) /\ Len(none) = 0
    BY <1>2, <1>3, <1>5, <1>11
  <2>2. IsPiece(p, w, to, k + 1) /\ HeadOf(f, b, n + 1)
    BY <1>2, <1>9 DEF HeadOf, w
  <2>3. QED
    BY <1>6, <2>1, <2>2, ShiftShape
<1>13. Grows(less, m, w, f)
  <2>1. less.threw = FALSE
    BY <1>8, <1>10 DEF Holding, SameLocals
  <2>2. Filled(less, f) /\ less.size = m.size /\ Room(less) = Room(m)
    BY <1>7, <1>8, <1>10 DEF Holding, SameLocals
  <2>3. QED
    BY <2>1, <2>2 DEF Grows
<1>14. Gives(Finished(less, n), Splice(s, from, to, none), s)
  <2>1. n = from + Len(none) + (Len(s) - to)
    BY <1>2, <1>5, <1>11
  <2>2. QED
    BY <1>12, <1>13, <2>1, FinishGrows DEF w
<1>15. QED
  BY <1>11, <1>14 DEF less, moved

\* The null is the end of the string.
LEMMA NullIsPiece ==
  ASSUME NEW s \in Seq(Value)
  PROVE  IsPiece(<< NullChar >>, Whole(s), Len(s), Len(s) + 1)
<1>1. Whole(s)[Len(s) + 1] = NullChar /\ Len(s) \in Nat
  BY WholeAre
<1>2. PICK k \in Nat : k = Len(s)
  OBVIOUS
<1>3. << NullChar >> \in Seq(Chars) /\ Len(<< NullChar >>) = 1 /\ << NullChar >>[1] = NullChar
  BY OneAre DEF Chars
<1> DEFINE p == << NullChar >>
           w == Whole(s)
<1> HIDE DEF p, w
<1>4. IsPiece(p, w, k, k + 1)
  <2>1. k + 1 - k = 1
    OBVIOUS
  <2>2. p[1] = w[k + 1]
    BY <1>1, <1>2, <1>3 DEF p, w
  <2>3. \A j \in 1 .. 1 : p[j] = w[k + j]
    BY <2>2
  <2>4. QED
    BY <1>3, <2>1, <2>3 DEF IsPiece, p
<1>5. QED
  BY <1>2, <1>4 DEF p, w

\* erase removes [from, to), and does not throw.
LEMMA EraseDoes ==
  ASSUME Raw \notin Chars, NEW m, NEW s, IsString(m, s), ~ m.threw, NEW from \in Nat, NEW to \in Nat, from <= to,
         to <= Len(s)
  PROVE  Gives(Erase(m, from, to), Splice(s, from, to, << >>), s)
<1>1. s \in Seq(Value) /\ Filled(m, Whole(s)) /\ m.size = Len(s) /\ Len(s) \in Nat
  BY DEF IsString
<1>2. CASE from = to
  <2>1. Erase(m, from, to) = m /\ Splice(s, from, to, << >>) = s
    BY <1>1, <1>2, SpliceNone DEF Erase
  <2>2. QED
    BY <2>1 DEF Gives
<1>3. CASE from # to
  <2>1. PICK n \in Nat : n = Len(s) - (to - from)
    <3>1. Len(s) - (to - from) \in Nat
      BY <1>1
    <3>2. QED
      BY <3>1
  <2> DEFINE p == Olds(m, to, m.size + 1)
  <2>2. IsPiece(p, Whole(s), to, Len(s) + 1)
    <3>1. PICK k \in Nat : k = Len(s) + 1
      BY <1>1
    <3>2. to <= k /\ k <= Len(Whole(s))
      BY <1>1, <3>1, WholeAre
    <3>3. IsPiece(Olds(m, to, k), Whole(s), to, k)
      BY <1>1, <3>2, OldsFilled
    <3>4. QED
      BY <1>1, <3>1, <3>3
  <2>3. Erase(m, from, to)
          = Finished(Destroy(Move(m, p, OldCells(from, n + 1)), OldCells(n + 1, Len(s) + 1)), n)
    BY <1>1, <1>3, <2>1 DEF Erase
  <2> HIDE DEF p
  <2>4. QED
    BY <2>1, <2>2, <2>3, ShiftDownDoes
<1>4. QED
  BY <1>2, <1>3

\* clear removes everything.
LEMMA ClearDoes ==
  ASSUME Raw \notin Chars, NEW m, NEW s, IsString(m, s), ~ m.threw
  PROVE  Gives(Clear(m), Splice(s, 0, Len(s), << >>), s)
<1>1. s \in Seq(Value) /\ m.size = Len(s) /\ Len(s) \in Nat
  BY DEF IsString
<1>2. CASE m.size = 0
  <2>1. Splice(s, 0, 0, << >>) = s
    BY <1>1, SpliceNone
  <2>2. Clear(m) = m /\ Splice(s, 0, Len(s), << >>) = s
    BY <1>1, <1>2, <2>1 DEF Clear
  <2>3. QED
    BY <2>2 DEF Gives
<1>3. CASE m.size # 0
  <2>1. PICK n \in Nat : n = 0
    OBVIOUS
  <2> DEFINE p == << NullChar >>
  <2>2. IsPiece(p, Whole(s), Len(s), Len(s) + 1)
    BY <1>1, NullIsPiece
  <2>3. Clear(m) = Finished(Destroy(Move(m, p, OldCells(0, 1)), OldCells(1, Len(s) + 1)), 0)
    BY <1>1, <1>3 DEF Clear
  <2> HIDE DEF p
  <2>4. n <= Len(s) /\ Len(s) <= Len(s) /\ n = Len(s) - (Len(s) - n) /\ n + 1 = 1
    BY <1>1, <2>1
  <2>5. Gives(Finished(Destroy(Move(m, p, OldCells(n, n + 1)), OldCells(n + 1, Len(s) + 1)), n),
              Splice(s, n, Len(s), << >>), s)
    BY <1>1, <2>2, <2>4, ShiftDownDoes
  <2>6. QED
    BY <2>1, <2>3, <2>4, <2>5
<1>4. QED
  BY <1>2, <1>3

\* pop_back removes the last one.
LEMMA PopBackDoes ==
  ASSUME Raw \notin Chars, NEW m, NEW s, IsString(m, s), ~ m.threw, Len(s) > 0
  PROVE  Gives(PopBack(m), Splice(s, Len(s) - 1, Len(s), << >>), s)
<1>1. s \in Seq(Value) /\ m.size = Len(s) /\ Len(s) \in Nat
  BY DEF IsString
<1>2. PICK n \in Nat : n = Len(s) - 1
  BY <1>1
<1> DEFINE p == << NullChar >>
<1>3. IsPiece(p, Whole(s), Len(s), Len(s) + 1)
  BY <1>1, NullIsPiece
<1>4. PopBack(m) = Finished(Destroy(Move(m, p, OldCells(Len(s) - 1, Len(s))), OldCells(Len(s), Len(s) + 1)), Len(s) - 1)
  BY <1>1 DEF PopBack
<1> HIDE DEF p
<1>5. n <= Len(s) /\ Len(s) <= Len(s) /\ n = Len(s) - (Len(s) - n) /\ n + 1 = Len(s)
  BY <1>1, <1>2
<1>6. Gives(Finished(Destroy(Move(m, p, OldCells(n, n + 1)), OldCells(n + 1, Len(s) + 1)), n),
            Splice(s, n, Len(s), << >>), s)
  BY <1>1, <1>3, <1>5, ShiftDownDoes
<1>7. QED
  BY <1>2, <1>4, <1>5, <1>6

\* resize removes characters from the end, or appends to it.
LEMMA ResizeDoes ==
  ASSUME Raw \notin Chars, NEW m, NEW s, Ready(m, s), NEW n \in Nat, NEW c \in Value
  PROVE  /\ n <= Len(s) => Gives(Resize(m, n, c), Splice(s, n, Len(s), << >>), s)
         /\ ~ (n <= Len(s)) => Gives(Resize(m, n, c), Splice(s, Len(s), Len(s), Times(n - Len(s), c)), s)
<1>1. IsString(m, s) /\ ~ m.threw /\ m.size = Len(s) /\ Len(s) \in Nat
  BY DEF Ready, IsString
<1>2. ASSUME n <= Len(s) PROVE Gives(Resize(m, n, c), Splice(s, n, Len(s), << >>), s)
  <2>1. Gives(Erase(m, n, Len(s)), Splice(s, n, Len(s), << >>), s)
    BY <1>1, <1>2, EraseDoes
  <2>2. QED
    BY <1>1, <1>2, <2>1 DEF Resize
<1>3. ASSUME ~ (n <= Len(s)) PROVE Gives(Resize(m, n, c), Splice(s, Len(s), Len(s), Times(n - Len(s), c)), s)
  <2>1. PICK k \in Nat : k = n - Len(s)
    BY <1>1, <1>3
  <2>2. Gives(AppendFill(m, k, c), Splice(s, Len(s), Len(s), Times(k, c)), s)
    BY AppendFillDoes
  <2>3. QED
    BY <1>1, <1>3, <2>1, <2>2 DEF Resize
<1>4. QED
  BY <1>2, <1>3

-----------------------------------------------------------------------------
(* Assignments                                                              *)

\* The characters of a string some of which are assigned to
LEMMA OverString ==
  ASSUME NEW s \in Seq(Value), NEW values \in Seq(Value), NEW from \in Nat, from + Len(values) <= Len(s)
  PROVE  /\ Over(s, from, values) \in Seq(Value) /\ Len(Over(s, from, values)) = Len(s)
         /\ \A i \in 1 .. Len(s) : Over(s, from, values)[i] =
              IF from < i /\ i <= from + Len(values) THEN values[i - from] ELSE s[i]
  BY OverAre

\* Characters that are assigned to leave a string.
LEMMA OverReady ==
  ASSUME Raw \notin Chars, NEW m, NEW s, Ready(m, s), NEW values \in Seq(Value), NEW from \in Nat, NEW to \in Nat,
         to = from + Len(values), to <= Len(s)
  PROVE  Ready(Move(m, values, OldCells(from, to)), Over(s, from, values))
<1> DEFINE u == Over(s, from, values)
           w == Whole(s)
           x == Whole(u)
           b == Over(w, from, values)
           r == Move(m, values, OldCells(from, to))
<1>1. s \in Seq(Value) /\ Filled(m, w) /\ m.size = Len(s) /\ ~ m.threw /\ m.built = 0
  BY DEF Ready, IsString
<1>2. PICK k \in Nat : k = Len(s)
  BY <1>1
<1>3. w \in Seq(Chars) /\ Len(w) = k + 1 /\ w[k + 1] = NullChar /\ \A i \in 1 .. k : w[i] = s[i]
  BY <1>1, <1>2, WholeAre
<1>4. values \in Seq(Chars)
  BY WiderSequences DEF Chars
<1>5. /\ u \in Seq(Value) /\ Len(u) = k
      /\ \A i \in 1 .. k : u[i] = IF from < i /\ i <= to THEN values[i - from] ELSE s[i]
  BY <1>1, <1>2, OverString
<1> HIDE DEF u
<1>6. x \in Seq(Chars) /\ Len(x) = k + 1 /\ x[k + 1] = NullChar /\ \A i \in 1 .. k : x[i] = u[i]
  BY <1>5, WholeAre
<1> HIDE DEF w, x
<1>7. OverOf(b, w, k + 1, from, to, values)
  <2>1. k + 1 \in Nat /\ to <= k + 1 /\ k + 1 = Len(w)
    BY <1>2, <1>3
  <2>2. QED
    BY <1>3, <1>4, <2>1, OverAt
<1>8. Holding(r, m, b)
  <2>1. to <= Len(w)
    BY <1>2, <1>3
  <2>2. QED
    BY <1>1, <1>3, <1>4, <2>1, MoveFilled
<1> HIDE DEF b, r
<1>9. /\ b \in Seq(Chars) /\ Len(b) = k + 1
      /\ \A i \in 1 .. k + 1 : b[i] = IF from < i /\ i <= to THEN values[i - from] ELSE w[i]
  BY <1>7 DEF OverOf
<1>10. ASSUME NEW i \in 1 .. k + 1 PROVE b[i] = x[i]
  <2>1. CASE i <= k
    <3>1. i \in 1 .. k
      BY <2>1
    <3>2. QED
      BY <1>3, <1>5, <1>6, <1>9, <3>1
  <2>2. CASE i = k + 1
    <3>1. ~ (i <= to)
      BY <1>2, <2>2
    <3>2. QED
      BY <1>3, <1>6, <1>9, <2>2, <3>1
  <2>3. QED
    BY <2>1, <2>2
<1>11. b = x
  BY <1>6, <1>9, <1>10
<1>12. Filled(r, x) /\ r.size = m.size /\ r.threw = m.threw /\ r.built = m.built
  BY <1>8, <1>11 DEF Holding, SameLocals
<1>13. QED
  BY <1>1, <1>2, <1>5, <1>12 DEF Ready, IsString, r, u, x

\* q holds u, which is s with the first of the values from from on; taking the rest of s
\* away, or inserting the rest of the values, makes the replacement.
Overwrites(q, u, s, from, to, values) ==
    /\ Ready(q, u) /\ Len(u) = Len(s) /\ Sequence!Basic(s, Splice(s, from, to, values), u)
    /\ Len(values) <= to - from => Splice(u, from + Len(values), to, << >>) = Splice(s, from, to, values)
    /\ ~ (Len(values) <= to - from) =>
         Splice(u, to, to, Last(values, Len(values) - (to - from))) = Splice(s, from, to, values)

\* If there are not more values than characters, the rest of the characters goes.
LEMMA SpliceLess ==
  ASSUME NEW s \in Seq(Value), NEW values \in Seq(Value), NEW from \in Nat, NEW to \in Nat, from <= to, to <= Len(s),
         Len(values) <= to - from
  PROVE  Splice(Over(s, from, values), from + Len(values), to, << >>) = Splice(s, from, to, values)
<1> DEFINE u == Over(s, from, values)
           t == Splice(s, from, to, values)
<1>1. PICK k \in Nat : k = from + Len(values)
  OBVIOUS
<1>2. k <= to /\ k <= Len(s)
  BY <1>1
<1>3. /\ u \in Seq(Value) /\ Len(u) = Len(s)
      /\ \A i \in 1 .. Len(s) : u[i] = IF from < i /\ i <= k THEN values[i - from] ELSE s[i]
  BY <1>1, <1>2, OverAre
<1> HIDE DEF u
<1>4. t \in Seq(Value) /\ Replaced(t, s, from, to, values)
  BY SpliceAre
<1> HIDE DEF t
<1>5. /\ Len(t) = k + (Len(s) - to)
      /\ \A i \in 1 .. Len(t) :
           t[i] = IF i <= from THEN s[i] ELSE IF i <= k THEN values[i - from] ELSE s[i - k + to]
  BY <1>1, <1>4 DEF Replaced
<1>6. PICK none \in Seq(Value) : none = << >> /\ Len(none) = 0
  <2>1. << >> \in Seq(Value) /\ Len(<< >>) = 0
    OBVIOUS
  <2>2. QED
    BY <2>1
<1> DEFINE v == Splice(u, k, to, none)
<1>7. v \in Seq(Value) /\ Replaced(v, u, k, to, none)
  BY <1>2, <1>3, SpliceAre
<1> HIDE DEF v
<1>8. /\ Len(v) = k + (Len(s) - to)
      /\ \A i \in 1 .. Len(v) : v[i] = IF i <= k THEN u[i] ELSE IF i <= k + 0 THEN none[i - k] ELSE u[i - (k + 0) + to]
  BY <1>3, <1>6, <1>7 DEF Replaced
<1>9. ASSUME NEW i \in 1 .. Len(t) PROVE v[i] = t[i]
  <2>0. i \in 1 .. Len(v) /\ Len(s) \in Nat /\ from <= k /\ i <= k + (Len(s) - to)
    BY <1>1, <1>5, <1>8
  <2>1. CASE i <= k
    <3>1. i \in 1 .. Len(s)
      BY <1>2, <2>0, <2>1
    <3>2. v[i] = IF from < i /\ i <= k THEN values[i - from] ELSE s[i]
      BY <1>3, <1>8, <2>0, <2>1, <3>1
    <3>3. i <= from <=> ~ (from < i)
      BY <2>0
    <3>4. QED
      BY <1>5, <2>1, <3>2, <3>3
  <2>2. CASE ~ (i <= k)
    <3>1. PICK j \in 1 .. Len(s) : j = i - k + to
      BY <1>2, <2>0, <2>2
    <3>2. i - (k + 0) + to = j /\ ~ (i <= k + 0) /\ ~ (i <= from) /\ ~ (j <= k)
      BY <1>2, <2>0, <2>2, <3>1
    <3>3. v[i] = u[j]
      BY <1>8, <2>0, <2>2, <3>2
    <3>4. u[j] = s[j]
      BY <1>3, <3>2
    <3>5. QED
      BY <1>5, <2>2, <3>1, <3>2, <3>3, <3>4
  <2>3. QED
    BY <2>1, <2>2
<1>10. v = t
  BY <1>4, <1>5, <1>7, <1>8, <1>9
<1>11. QED
  BY <1>1, <1>6, <1>10 DEF v, t, u

\* f is the n characters of b behind the first k, by index.
BackOf(f, b, k, n) == Len(f) = n /\ \A i \in 1 .. n : f[i] = b[k + i]

\* If there are more values than characters, the rest of the values comes.
LEMMA SpliceMore ==
  ASSUME NEW s \in Seq(Value), NEW values \in Seq(Value), NEW from \in Nat, NEW to \in Nat, from <= to, to <= Len(s),
         NEW first \in Seq(Value), HeadOf(first, values, to - from), NEW last \in Seq(Value),
         BackOf(last, values, to - from, Len(values) - (to - from))
  PROVE  Splice(Over(s, from, first), to, to, last) = Splice(s, from, to, values)
<1> DEFINE u == Over(s, from, first)
           t == Splice(s, from, to, values)
           v == Splice(u, to, to, last)
<1>1. PICK k \in Nat : k = from + Len(values)
  OBVIOUS
<1>2. to <= k /\ from + Len(first) = to /\ to + Len(last) = k /\ Len(s) \in Nat
  BY <1>1 DEF HeadOf, BackOf
<1>3. /\ u \in Seq(Value) /\ Len(u) = Len(s)
      /\ \A i \in 1 .. Len(s) : u[i] = IF from < i /\ i <= to THEN first[i - from] ELSE s[i]
  BY <1>2, OverAre
<1> HIDE DEF u
<1>4. t \in Seq(Value) /\ Replaced(t, s, from, to, values)
  BY SpliceAre
<1>5. v \in Seq(Value) /\ Replaced(v, u, to, to, last)
  <2>1. to <= to /\ to <= Len(u)
    BY <1>3
  <2>2. QED
    BY <1>3, <2>1, SpliceAre
<1> HIDE DEF t, v
<1>6. /\ Len(t) = k + (Len(s) - to)
      /\ \A i \in 1 .. Len(t) :
           t[i] = IF i <= from THEN s[i] ELSE IF i <= k THEN values[i - from] ELSE s[i - k + to]
  BY <1>1, <1>4 DEF Replaced
<1>7. /\ Len(v) = k + (Len(s) - to)
      /\ \A i \in 1 .. Len(v) : v[i] = IF i <= to THEN u[i] ELSE IF i <= k THEN last[i - to] ELSE u[i - k + to]
  BY <1>2, <1>3, <1>5 DEF Replaced
<1>8. ASSUME NEW i \in 1 .. Len(t) PROVE v[i] = t[i]
  <2>0. i \in 1 .. Len(v) /\ i <= k + (Len(s) - to)
    BY <1>6, <1>7
  <2>1. CASE i <= from
    <3>1. i \in 1 .. Len(s) /\ i <= to /\ ~ (from < i)
      BY <2>1
    <3>2. QED
      BY <1>3, <1>6, <1>7, <2>0, <2>1, <3>1
  <2>2. CASE ~ (i <= from) /\ i <= to
    <3>1. PICK j \in 1 .. to - from : j = i - from
      BY <2>2
    <3>2. i \in 1 .. Len(s) /\ from < i /\ i <= k
      BY <1>2, <2>2
    <3>3. v[i] = first[j] /\ t[i] = values[j]
      BY <1>3, <1>6, <1>7, <2>0, <2>2, <3>1, <3>2
    <3>4. QED
      BY <3>3 DEF HeadOf
  <2>3. CASE ~ (i <= to) /\ i <= k
    <3>1. PICK j \in 1 .. Len(values) - (to - from) : j = i - to
      BY <1>1, <2>3
    <3>2. to - from + j = i - from /\ ~ (i <= from)
      BY <2>3, <3>1
    <3>3. v[i] = last[j] /\ t[i] = values[to - from + j]
      BY <1>6, <1>7, <2>0, <2>3, <3>1, <3>2
    <3>4. QED
      BY <3>3 DEF BackOf
  <2>4. CASE ~ (i <= k)
    <3>1. PICK j \in 1 .. Len(s) : j = i - k + to
      BY <2>0, <2>4
    <3>2. ~ (j <= to) /\ ~ (i <= to) /\ ~ (i <= from)
      BY <1>2, <2>4, <3>1
    <3>3. v[i] = u[j] /\ t[i] = s[j]
      BY <1>6, <1>7, <2>0, <2>4, <3>1, <3>2
    <3>4. QED
      BY <1>3, <3>2, <3>3
  <2>5. QED
    BY <2>1, <2>2, <2>3, <2>4
<1>9. v = t
  BY <1>4, <1>5, <1>6, <1>7, <1>8
<1>10. QED
  BY <1>9 DEF v, t, u

\* What is left in between keeps to the characters of both strings.
LEMMA OverBasic ==
  ASSUME NEW s \in Seq(Value), NEW values \in Seq(Value), NEW from \in Nat, NEW to \in Nat, from <= to, to <= Len(s),
         NEW first \in Seq(Value), Len(first) <= to - from, Len(first) <= Len(values),
         \A j \in 1 .. Len(first) : first[j] = values[j]
  PROVE  Sequence!Basic(s, Splice(s, from, to, values), Over(s, from, first))
<1> DEFINE u == Over(s, from, first)
           t == Splice(s, from, to, values)
<1>1. PICK k \in Nat : k = from + Len(first)
  OBVIOUS
<1>2. k <= to /\ k <= Len(s) /\ k <= from + Len(values) /\ Len(s) \in Nat /\ Len(values) \in Nat
  BY <1>1
<1>3. /\ u \in Seq(Value) /\ Len(u) = Len(s)
      /\ \A i \in 1 .. Len(s) : u[i] = IF from < i /\ i <= k THEN first[i - from] ELSE s[i]
  BY <1>1, <1>2, OverAre
<1> HIDE DEF u
<1>4. t \in Seq(Value) /\ Replaced(t, s, from, to, values)
  BY SpliceAre
<1> HIDE DEF t
<1>5. /\ Len(t) = from + Len(values) + (Len(s) - to)
      /\ \A i \in 1 .. Len(t) : t[i] = IF i <= from THEN s[i]
                                       ELSE IF i <= from + Len(values) THEN values[i - from]
                                       ELSE s[i - (from + Len(values)) + to]
  BY <1>4 DEF Replaced
<1>6. ASSUME NEW i \in 1 .. Len(u) PROVE u[i] \in Sequence!Values(s) \union Sequence!Values(t)
  <2>1. CASE from < i /\ i <= k
    <3>1. PICK j \in 1 .. Len(first) : j = i - from
      BY <1>1, <2>1
    <3>2. i \in 1 .. Len(t) /\ ~ (i <= from) /\ i <= from + Len(values)
      BY <1>2, <1>5, <2>1
    <3>3. u[i] = first[j] /\ t[i] = values[j]
      BY <1>3, <1>5, <2>1, <3>1, <3>2
    <3>4. u[i] = t[i]
      BY <3>3
    <3>5. QED
      BY <1>4, <3>2, <3>4 DEF Sequence!Values
  <2>2. CASE ~ (from < i /\ i <= k)
    <3>1. u[i] = s[i] /\ i \in 1 .. Len(s)
      BY <1>3, <2>2
    <3>2. QED
      BY <3>1 DEF Sequence!Values
  <2>3. QED
    BY <2>1, <2>2
<1>7. Sequence!Values(u) \subseteq Sequence!Values(s) \union Sequence!Values(t)
  BY <1>3, <1>6 DEF Sequence!Values
<1>8. Len(u) <= Len(s) /\ Len(u) >= Len(s)
  BY <1>2, <1>3
<1>9. QED
  BY <1>7, <1>8 DEF Sequence!Basic, u, t

\* The characters that are there are assigned to.
LEMMA OverwritesDoes ==
  ASSUME Raw \notin Chars, NEW m, NEW s, Ready(m, s), NEW values \in Seq(Value), NEW from \in Nat, NEW to \in Nat,
         from <= to, to <= Len(s), NEW end, end = from + Smaller(to - from, Len(values))
  PROVE  Overwrites(Move(m, First(values, to - from), OldCells(from, end)), Over(s, from, First(values, to - from)),
                    s, from, to, values)
<1> DEFINE first == First(values, to - from)
           t == Splice(s, from, to, values)
           u == Over(s, from, first)
           q == Move(m, first, OldCells(from, end))
<1>1. s \in Seq(Value) /\ Len(s) \in Nat /\ Len(values) \in Nat
  BY DEF Ready, IsString
<1>2. PICK room \in Nat : room = to - from
  OBVIOUS
<1>3. PICK n \in Nat : n = Len(values)
  OBVIOUS
<1>4. PICK k \in Nat : k = Smaller(room, n)
  BY DEF Smaller
<1>5. k <= room /\ k <= n /\ (n <= room => k = n) /\ (~ (n <= room) => k = room)
  BY <1>4 DEF Smaller
<1>6. first \in Seq(Value) /\ Len(first) = k /\ \A j \in 1 .. k : first[j] = values[j]
  <2>1. /\ First(values, room) \in Seq(Value) /\ Len(First(values, room)) = Smaller(room, Len(values))
        /\ \A j \in 1 .. Smaller(room, Len(values)) : First(values, room)[j] = values[j]
    BY FirstAre
  <2>2. QED
    BY <1>2, <1>3, <1>4, <2>1
<1>7. n <= room => first = values
  BY <1>3, <1>5, <1>6
<1> HIDE DEF first
<1>8. PICK high \in Nat : high = end /\ high = from + Len(first) /\ high <= Len(s)
  <2>1. end = from + k
    BY <1>2, <1>3, <1>4
  <2>2. from + k \in Nat /\ from + k <= Len(s)
    BY <1>1, <1>2, <1>5
  <2>3. QED
    BY <1>6, <2>1, <2>2
<1>9. Ready(q, u)
  BY <1>6, <1>8, OverReady
<1>10. Len(u) = Len(s)
  <2>1. from + Len(first) <= Len(s)
    BY <1>8
  <2>2. QED
    BY <1>1, <1>6, <2>1, OverAre
<1>11. Sequence!Basic(s, t, u)
  <2>1. Len(first) <= to - from /\ Len(first) <= Len(values) /\ \A j \in 1 .. Len(first) : first[j] = values[j]
    BY <1>2, <1>3, <1>5, <1>6
  <2>2. QED
    BY <1>1, <1>6, <2>1, OverBasic
<1>12. Len(values) <= to - from => Splice(u, from + Len(values), to, << >>) = t
  <2>1. ASSUME Len(values) <= to - from PROVE Splice(u, from + Len(values), to, << >>) = t
    <3>1. first = values
      BY <1>2, <1>3, <1>7, <2>1
    <3>2. Splice(Over(s, from, values), from + Len(values), to, << >>) = Splice(s, from, to, values)
      BY <1>1, <2>1, SpliceLess
    <3>3. QED
      BY <3>1, <3>2
  <2>2. QED
    BY <2>1
<1>13. ~ (Len(values) <= to - from) => Splice(u, to, to, Last(values, Len(values) - (to - from))) = t
  <2>1. ASSUME ~ (Len(values) <= to - from)
        PROVE  Splice(u, to, to, Last(values, Len(values) - (to - from))) = t
    <3>1. PICK rest \in Nat : rest = Len(values) - (to - from)
      BY <1>1, <1>2, <2>1
    <3>2. Smaller(rest, Len(values)) = rest
      BY <1>1, <1>2, <3>1 DEF Smaller
    <3> DEFINE last == Last(values, rest)
    <3>3. /\ last \in Seq(Value) /\ Len(last) = Smaller(rest, Len(values))
          /\ \A j \in 1 .. Smaller(rest, Len(values)) : last[j] = values[Len(values) - Smaller(rest, Len(values)) + j]
      BY LastAre
    <3> HIDE DEF last
    <3>4. Len(values) - rest = to - from
      BY <1>1, <3>1
    <3>5. BackOf(last, values, to - from, Len(values) - (to - from))
      BY <3>1, <3>2, <3>3, <3>4 DEF BackOf
    <3>6. HeadOf(first, values, to - from)
      BY <1>2, <1>3, <1>5, <1>6, <2>1 DEF HeadOf
    <3>7. Splice(Over(s, from, first), to, to, last) = Splice(s, from, to, values)
      BY <1>1, <1>6, <3>3, <3>5, <3>6, SpliceMore
    <3>8. QED
      BY <3>1, <3>7 DEF last
  <2>2. QED
    BY <2>1
<1>14. Overwrites(q, u, s, from, to, values)
  BY <1>9, <1>10, <1>11, <1>12, <1>13 DEF Overwrites
<1>15. QED
  BY <1>14 DEF first

\* r holds t, or, if it threw, something that keeps to the characters of s and t.
Yields(r, s, t) == \E u : Gives(r, t, u) /\ Sequence!Basic(s, t, u)

\* replace, of a range or by n times a character
LEMMA ReplaceRangeDoes ==
  ASSUME Raw \notin Chars, NEW m, NEW s, Ready(m, s), NEW values \in Seq(Value), NEW from \in Nat, NEW to \in Nat,
         from <= to, to <= Len(s)
  PROVE  Yields(ReplaceRange(m, from, to, values), s, Splice(s, from, to, values))
<1> DEFINE end == Smaller(to, from + Len(values))
           first == First(values, to - from)
           u == Over(s, from, first)
           q == Move(m, first, OldCells(from, end))
           t == Splice(s, from, to, values)
           r == ReplaceRange(m, from, to, values)
<1>1. s \in Seq(Value) /\ Len(s) \in Nat /\ Len(values) \in Nat
  BY DEF Ready, IsString
<1>2. end = from + Smaller(to - from, Len(values))
  BY <1>1 DEF Smaller
<1>3. Overwrites(q, u, s, from, to, values)
  BY <1>2, OverwritesDoes
<1>a. r = IF Len(values) <= to - from THEN Erase(q, from + Len(values), to)
          ELSE InsertAll(q, to, Last(values, Len(values) - (to - from)))
  BY DEF ReplaceRange
<1> HIDE DEF q, u, t, r
<1>4. Ready(q, u) /\ IsString(q, u) /\ ~ q.threw /\ Len(u) = Len(s) /\ Sequence!Basic(s, t, u)
  BY <1>3 DEF Overwrites, Ready, t
<1>5. ASSUME Len(values) <= to - from PROVE Yields(r, s, t)
  <2>1. from + Len(values) \in Nat /\ from + Len(values) <= to /\ to <= Len(u)
    BY <1>1, <1>4, <1>5
  <2>2. Gives(Erase(q, from + Len(values), to), Splice(u, from + Len(values), to, << >>), u)
    BY <1>4, <2>1, EraseDoes
  <2>3. Splice(u, from + Len(values), to, << >>) = t
    BY <1>3, <1>5 DEF Overwrites, t
  <2>4. QED
    BY <1>4, <1>5, <1>a, <2>2, <2>3 DEF Yields
<1>6. ASSUME ~ (Len(values) <= to - from) PROVE Yields(r, s, t)
  <2> DEFINE last == Last(values, Len(values) - (to - from))
  <2>1. last \in Seq(Value) /\ to <= Len(u)
    <3>1. PICK rest \in Nat : rest = Len(values) - (to - from)
      BY <1>1, <1>6
    <3>2. Last(values, rest) \in Seq(Value)
      BY LastAre
    <3>3. QED
      BY <1>4, <3>1, <3>2
  <2> HIDE DEF last
  <2>2. Gives(InsertAll(q, to, last), Splice(u, to, to, last), u)
    BY <1>4, <2>1, InsertAllDoes
  <2>3. Splice(u, to, to, last) = t
    BY <1>3, <1>6 DEF Overwrites, t, last
  <2>4. QED
    BY <1>4, <1>6, <1>a, <2>2, <2>3 DEF Yields, last
<1>7. QED
  BY <1>5, <1>6 DEF r, t

\* assign of a range, and operator=
LEMMA AssignRangeDoes ==
  ASSUME Raw \notin Chars, NEW m, NEW s, Ready(m, s), NEW values \in Seq(Value)
  PROVE  Yields(AssignRange(m, values), s, Splice(s, 0, Len(s), values))
<1>1. /\ s \in Seq(Value) /\ Len(s) \in Nat /\ Len(values) \in Nat /\ m.size = Len(s)
  BY DEF Ready, IsString
<1>2. PICK from \in Nat : from = 0
  OBVIOUS
<1>3. PICK k \in Nat : k = Len(s)
  BY <1>1
<1> DEFINE end == Smaller(Len(values), k)
           first == First(values, k)
           u == Over(s, from, first)
           q == Move(m, first, OldCells(0, end))
           t == Splice(s, 0, k, values)
           r == AssignRange(m, values)
<1>4. Overwrites(q, u, s, from, k, values)
  <2>1. end = from + Smaller(k - from, Len(values)) /\ k - from = k /\ from <= k /\ k <= Len(s)
    BY <1>1, <1>2, <1>3 DEF Smaller
  <2>2. Overwrites(Move(m, First(values, k - from), OldCells(from, end)), Over(s, from, First(values, k - from)),
                   s, from, k, values)
    BY <2>1, OverwritesDoes
  <2>3. QED
    BY <1>2, <2>1, <2>2
<1>a. r = IF Len(values) <= k THEN Erase(q, Len(values), k) ELSE AppendRange(q, Last(values, Len(values) - k))
  BY <1>1, <1>3 DEF AssignRange
<1> HIDE DEF q, u, r
<1>b. t = Splice(s, from, k, values)
  BY <1>2
<1> HIDE DEF t
<1>5. Ready(q, u) /\ IsString(q, u) /\ ~ q.threw /\ Len(u) = k /\ Sequence!Basic(s, t, u)
  BY <1>3, <1>4, <1>b DEF Overwrites, Ready
<1>6. ASSUME Len(values) <= k PROVE Yields(r, s, t)
  <2>1. Len(values) \in Nat /\ k <= Len(u) /\ from + Len(values) = Len(values) /\ Len(values) <= k - from
    BY <1>1, <1>2, <1>5, <1>6
  <2>2. Gives(Erase(q, Len(values), k), Splice(u, Len(values), k, << >>), u)
    BY <1>5, <1>6, <2>1, EraseDoes
  <2>3. Splice(u, Len(values), k, << >>) = t
    BY <1>4, <1>b, <2>1 DEF Overwrites
  <2>4. QED
    BY <1>5, <1>6, <1>a, <2>2, <2>3 DEF Yields
<1>7. ASSUME ~ (Len(values) <= k) PROVE Yields(r, s, t)
  <2>1. PICK rest \in Nat : rest = Len(values) - k
    BY <1>1, <1>7
  <2> DEFINE last == Last(values, rest)
  <2>2. last \in Seq(Value)
    BY LastAre
  <2> HIDE DEF last
  <2>3. Gives(AppendRange(q, last), Splice(u, k, k, last), u)
    BY <1>5, <2>2, AppendRangeDoes
  <2>4. Splice(u, k, k, last) = t
    <3>1. ~ (Len(values) <= k - from) /\ Len(values) - (k - from) = rest
      BY <1>1, <1>2, <1>7, <2>1
    <3>2. QED
      BY <1>4, <1>b, <3>1 DEF Overwrites, last
  <2>5. QED
    BY <1>5, <1>7, <1>a, <2>1, <2>3, <2>4 DEF Yields, last
<1>8. QED
  BY <1>3, <1>6, <1>7 DEF r, t

\* The first and the last of equal characters
LEMMA TimesParts ==
  ASSUME NEW c \in Value, NEW n \in Nat, NEW k \in Nat
  PROVE  First(Times(n, c), k) = Times(Smaller(n, k), c) /\ Last(Times(n, c), k) = Times(Smaller(k, n), c)
<1> DEFINE v == Times(n, c)
           z == Times(Smaller(n, k), c)
<1>1. v \in Seq(Value) /\ Len(v) = n /\ \A j \in 1 .. n : v[j] = c
  BY TimesAre
<1>2. PICK i \in Nat : i = Smaller(n, k) /\ i = Smaller(k, n) /\ i <= n
  BY DEF Smaller
<1>3. z \in Seq(Value) /\ Len(z) = i /\ \A j \in 1 .. i : z[j] = c
  <2>1. Times(i, c) \in Seq(Value) /\ Len(Times(i, c)) = i /\ \A j \in 1 .. i : Times(i, c)[j] = c
    BY TimesAre
  <2>2. QED
    BY <1>2, <2>1
<1> HIDE DEF v, z
<1>4. /\ First(v, k) \in Seq(Value) /\ Len(First(v, k)) = i
      /\ \A j \in 1 .. i : First(v, k)[j] = v[j]
  BY <1>1, <1>2, FirstAre
<1>5. /\ Last(v, k) \in Seq(Value) /\ Len(Last(v, k)) = i
      /\ \A j \in 1 .. i : Last(v, k)[j] = v[n - i + j]
  <2>1. /\ Last(v, k) \in Seq(Value) /\ Len(Last(v, k)) = Smaller(k, Len(v))
        /\ \A j \in 1 .. Smaller(k, Len(v)) : Last(v, k)[j] = v[Len(v) - Smaller(k, Len(v)) + j]
    BY <1>1, LastAre
  <2>2. QED
    BY <1>1, <1>2, <2>1
<1>6. \A j \in 1 .. i : j \in 1 .. n /\ n - i + j \in 1 .. n
  BY <1>2
<1>7. \A j \in 1 .. i : First(v, k)[j] = z[j] /\ Last(v, k)[j] = z[j]
  BY <1>1, <1>3, <1>4, <1>5, <1>6
<1>8. First(v, k) = z
  BY <1>3, <1>4, <1>7
<1>9. Last(v, k) = z
  BY <1>3, <1>5, <1>7
<1>10. QED
  BY <1>2, <1>8, <1>9 DEF v, z

\* assign of n times a character
LEMMA AssignFillDoes ==
  ASSUME Raw \notin Chars, NEW m, NEW s, Ready(m, s), NEW n \in Nat, NEW c \in Value
  PROVE  Yields(AssignFill(m, n, c), s, Splice(s, 0, Len(s), Times(n, c)))
<1>1. /\ s \in Seq(Value) /\ Len(s) \in Nat /\ m.size = Len(s)
  BY DEF Ready, IsString
<1>2. PICK from \in Nat : from = 0
  OBVIOUS
<1>3. PICK k \in Nat : k = Len(s)
  BY <1>1
<1> DEFINE values == Times(n, c)
           end == Smaller(n, k)
           first == Times(end, c)
           u == Over(s, from, first)
           q == Move(m, first, OldCells(0, end))
           t == Splice(s, 0, k, values)
           r == AssignFill(m, n, c)
<1>c. values \in Seq(Value) /\ Len(values) = n
  BY TimesAre
<1>d. First(values, k) = first
  BY TimesParts
<1>a. r = IF n <= k THEN Erase(q, n, k) ELSE AppendFill(q, n - k, c)
  BY <1>1, <1>3 DEF AssignFill
<1> HIDE DEF values, first
<1>4. Overwrites(q, u, s, from, k, values)
  <2>1. end = from + Smaller(k - from, Len(values)) /\ k - from = k /\ from <= k /\ k <= Len(s)
    BY <1>1, <1>2, <1>3, <1>c DEF Smaller
  <2>2. Overwrites(Move(m, First(values, k - from), OldCells(from, end)), Over(s, from, First(values, k - from)),
                   s, from, k, values)
    BY <1>c, <2>1, OverwritesDoes
  <2>3. QED
    BY <1>2, <1>d, <2>1, <2>2
<1> HIDE DEF q, u, r
<1>b. t = Splice(s, from, k, values)
  BY <1>2
<1> HIDE DEF t
<1>5. Ready(q, u) /\ IsString(q, u) /\ ~ q.threw /\ Len(u) = k /\ Sequence!Basic(s, t, u)
  BY <1>3, <1>4, <1>b DEF Overwrites, Ready
<1>6. ASSUME n <= k PROVE Yields(r, s, t)
  <2>1. k <= Len(u) /\ from + Len(values) = n /\ Len(values) <= k - from
    BY <1>2, <1>5, <1>6, <1>c
  <2>2. Gives(Erase(q, n, k), Splice(u, n, k, << >>), u)
    BY <1>5, <1>6, <2>1, EraseDoes
  <2>3. Splice(u, n, k, << >>) = t
    BY <1>4, <1>b, <2>1 DEF Overwrites
  <2>4. QED
    BY <1>5, <1>6, <1>a, <2>2, <2>3 DEF Yields
<1>7. ASSUME ~ (n <= k) PROVE Yields(r, s, t)
  <2>1. PICK rest \in Nat : rest = n - k
    BY <1>7
  <2>2. Gives(AppendFill(q, rest, c), Splice(u, k, k, Times(rest, c)), u)
    BY <1>5, AppendFillDoes
  <2>3. Last(values, rest) = Times(rest, c)
    <3>1. Smaller(rest, n) = rest
      BY <1>7, <2>1 DEF Smaller
    <3>2. QED
      BY <3>1, TimesParts DEF values
  <2>4. Splice(u, k, k, Times(rest, c)) = t
    <3>1. ~ (Len(values) <= k - from) /\ Len(values) - (k - from) = rest
      BY <1>2, <1>7, <1>c, <2>1
    <3>2. QED
      BY <1>4, <1>b, <2>3, <3>1 DEF Overwrites
  <2>5. QED
    BY <1>5, <1>7, <1>a, <2>1, <2>2, <2>4 DEF Yields
<1>8. QED
  BY <1>3, <1>6, <1>7 DEF r, t, values


-----------------------------------------------------------------------------
(* Calls                                                                    *)

\* A string between calls: its block holds the characters and the null.
Intact(v) ==
    /\ v \in [cells : Seq(Cellular(Chars)), size : Nat]
    /\ Content(v) \in Seq(Value) /\ Len(Content(v)) = v.size /\ Fills(v.cells, Whole(Content(v)))

\* The inductive invariant: the strings are intact in any case, and nothing was ever misused or
\* lost unless the copy of the character of _M_insert_aux may throw.
IInv ==
    /\ string \in [Strings -> [cells : Seq(Cellular(Chars)), size : Nat]]
    /\ \A x \in Strings : Intact(string[x])
    /\ bad \in BOOLEAN /\ (bad => InsertedMayThrow)

\* A call begins on a memory that holds the string.
LEMMA CallBegins ==
  ASSUME StringParameters, IInv, NEW x \in Strings, NEW fuel \in Nat
  PROVE  /\ Ready(Start(string[x], fuel), Content(string[x])) /\ Raw \notin Chars
         /\ Content(string[x]) \in Seq(Value) /\ Len(Content(string[x])) = Size(x) /\ Size(x) \in Nat
<1> DEFINE v == string[x]
           s == Content(v)
           m == Start(v, fuel)
           mem == [b \in {"old", "new"} |-> IF b = "old" THEN v.cells ELSE << >>]
<1>1. Intact(v)
  BY DEF IInv
<1>2. /\ v.cells \in Seq(Cellular(Chars)) /\ v.size \in Nat /\ s \in Seq(Value) /\ Len(s) = v.size
      /\ Fills(v.cells, Whole(s))
  BY <1>1 DEF Intact
<1>3. m = [mem |-> mem, size |-> v.size, built |-> 0, fuel |-> fuel, threw |-> FALSE, bad |-> FALSE]
  BY DEF Start
<1>4. mem \in [Blocks -> Seq(Cellular(Chars))] /\ mem["old"] = v.cells /\ mem["new"] = << >>
  <2>1. << >> \in Seq(Cellular(Chars))
    OBVIOUS
  <2>2. QED
    BY <1>2, <2>1 DEF Blocks
<1> HIDE DEF mem, m, s
<1>5. m.mem = mem /\ m.size = v.size /\ m.built = 0 /\ ~ m.threw /\ ~ m.bad
  BY <1>3
<1>6. m \in States(Chars)
  BY <1>2, <1>3, <1>4 DEF States
<1>7. Whole(s) \in Seq(Chars)
  BY <1>2, WholeAre
<1>8. Ready(m, s)
  BY <1>2, <1>4, <1>5, <1>6, <1>7 DEF Ready, IsString, Filled
<1>9. QED
  BY <1>2, <1>8 DEF s, m, Size, StringParameters

\* The string that a call leaves
Left(m) == [cells |-> m.mem["old"], size |-> m.size]

\* A call leaves the string that the memory holds.
LEMMA LeftAre ==
  ASSUME NEW m, NEW s, IsString(m, s)
  PROVE  Intact(Left(m)) /\ Content(Left(m)) = s
<1> DEFINE v == Left(m)
           cells == m.mem["old"]
           w == Whole(s)
<1>1. /\ s \in Seq(Value) /\ m.size = Len(s) /\ Len(s) \in Nat
      /\ cells \in Seq(Cellular(Chars)) /\ Fills(cells, w)
  BY FilledParts DEF IsString
<1>2. w \in Seq(Chars) /\ Len(w) = Len(s) + 1 /\ \A i \in 1 .. Len(s) : w[i] = s[i]
  BY <1>1, WholeAre
<1>3. v.cells = cells /\ v.size = Len(s) /\ v \in [cells : Seq(Cellular(Chars)), size : Nat]
  BY <1>1 DEF Left
<1> HIDE DEF v, cells, w
<1>4. Len(cells) \in Nat /\ Len(w) <= Len(cells) /\ \A i \in 1 .. Len(w) : cells[i] = w[i]
  BY <1>1, <1>2 DEF Fills, Alive
<1>5. \A i \in 1 .. Len(s) : cells[i] = s[i]
  BY <1>1, <1>2, <1>4
<1>6. Content(v) = s
  <2>1. Len(s) <= Len(cells)
    BY <1>1, <1>2, <1>4
  <2>2. /\ SubSeq(cells, 1, Len(s)) \in Seq(Cellular(Chars)) /\ Len(SubSeq(cells, 1, Len(s))) = Len(s)
        /\ \A i \in 1 .. Len(s) : SubSeq(cells, 1, Len(s))[i] = cells[i]
    BY <1>1, <2>1
  <2>3. SubSeq(cells, 1, Len(s)) = s
    BY <1>1, <1>5, <2>2
  <2>4. QED
    BY <1>3, <2>3 DEF Content
<1>7. Intact(v)
  BY <1>1, <1>3, <1>6 DEF Intact, w
<1>8. QED
  BY <1>6, <1>7 DEF v

\* What a call leaves: all of its effect, or none, or, if it is not strong, a part of it
Good(m, s, t, strong) == IF strong THEN Gives(m, t, s) ELSE Yields(m, s, t)

\* It is the memory of some string.
LEMMA GoodAre ==
  ASSUME NEW m, NEW s, NEW t, NEW strong \in BOOLEAN, Good(m, s, t, strong)
  PROVE  \E u : /\ IsString(m, u)
                /\ IF ~ m.threw THEN u = t ELSE IF strong THEN u = s ELSE Sequence!Basic(s, t, u)
<1>1. CASE strong
  <2>1. IsString(m, IF m.threw THEN s ELSE t)
    BY <1>1 DEF Good, Gives
  <2>2. QED
    BY <1>1, <2>1
<1>2. CASE ~ strong
  <2>1. PICK u : IsString(m, IF m.threw THEN u ELSE t) /\ Sequence!Basic(s, t, u)
    BY <1>2 DEF Good, Yields, Gives
  <2>2. QED
    BY <1>2, <2>1
<1>3. QED
  BY <1>1, <1>2

\* A call runs with enough of everything, or with less than it needs.
LEMMA FuelLeft ==
  ASSUME StringParameters, NEW m, NEW s, NEW t, NEW strong \in BOOLEAN, Good(m, s, t, strong),
         NEW k \in 0 .. Plenty - m.fuel
  PROVE  (IF k = 0 THEN Plenty ELSE k - 1) \in Nat
<1>1. m.fuel \in Nat
  BY GoodAre, FilledParts DEF IsString
<1>2. QED
  BY <1>1 DEF StringParameters

\* A call that leaves the string that it should, whatever it lost, is a call on sequences.
LEMMA FinishEffect ==
  ASSUME IInv, NEW x \in Strings, NEW from, NEW to, NEW values, NEW strong \in BOOLEAN,
         NEW m \in States(Chars), m.bad => InsertedMayThrow,
         Good(Forgiven(m), Content(string[x]), Splice(Content(string[x]), from, to, values), strong),
         Finish(x, m, Replaces(from, to, values, strong))
  PROVE  IInv' /\ Sequence!SequencesNext
<1> DEFINE c == Replaces(from, to, values, strong)
           s == Content(string[x])
           t == Splice(s, from, to, values)
           v == Left(m)
<1>0. c.from = from /\ c.to = to /\ c.values = values /\ c.strong = strong
  BY DEF Replaces
<1>1. /\ string' = [string EXCEPT ![x] = v]
      /\ bad' = (bad \/ m.bad \/ m.mem["new"] # << >>)
      /\ call' = [op |-> "replace", on |-> x, turn |-> 1 - call.turn, threw |-> m.threw,
                  from |-> c.from, to |-> c.to, values |-> c.values, strong |-> c.strong]
  BY DEF Finish, Left
<1>2. PICK u : /\ IsString(Forgiven(m), u)
               /\ IF ~ Forgiven(m).threw THEN u = t ELSE IF strong THEN u = s ELSE Sequence!Basic(s, t, u)
  BY GoodAre
<1>b. Forgiven(m).threw = m.threw /\ Forgiven(m).mem = m.mem /\ Forgiven(m).size = m.size /\ m.bad \in BOOLEAN
  BY DEF Forgiven, States
<1>a. Sequence!Replaced(s, c) = t
  BY <1>0 DEF Sequence!Replaced, Splice
<1> HIDE DEF c, t
<1>3. Intact(v) /\ Content(v) = u
  <2>1. Left(Forgiven(m)) = v
    BY <1>b DEF Left
  <2>2. QED
    BY <1>2, <2>1, LeftAre
<1>4. m.mem["new"] = << >>
  BY <1>2, <1>b DEF IsString, Filled
<1> HIDE DEF v
<1>5. string'[x] = v /\ \A y \in Strings : y # x => string'[y] = string[y]
  BY <1>1 DEF IInv
<1>6. IInv'
  <2>1. string' \in [Strings -> [cells : Seq(Cellular(Chars)), size : Nat]]
    BY <1>1, <1>3 DEF IInv, Intact
  <2>2. \A y \in Strings : Intact(string'[y])
    BY <1>3, <1>5 DEF IInv
  <2>3. bad' \in BOOLEAN /\ (bad' => InsertedMayThrow)
    BY <1>1, <1>4, <1>b DEF IInv
  <2>4. QED
    BY <2>1, <2>2, <2>3 DEF IInv, Intact
<1>7. Sequence!SequencesNext
  <2>1. /\ call'.turn = 1 - call.turn /\ call'.op = "replace" /\ call'.on = x
        /\ call'.threw = m.threw /\ call'.strong = strong
    BY <1>0, <1>1
  <2>2. Sequence!Replaced(s, call') = t
    <3>1. call'.from = c.from /\ call'.to = c.to /\ call'.values = c.values
      BY <1>1
    <3>2. QED
      BY <1>a, <3>1 DEF Sequence!Replaced
  <2>3. Sequence!Effect(call', Content(string[x]), Content(string'[x]))
    BY <1>2, <1>3, <1>5, <1>b, <2>1, <2>2 DEF Sequence!Effect
  <2>4. ASSUME NEW y \in Strings
        PROVE  IF y = call'.on
               THEN call'.op = "replace" /\ Sequence!Effect(call', Content(string[y]), Content(string'[y]))
               ELSE Content(string'[y]) = Content(string[y])
    BY <1>5, <2>1, <2>3
  <2>5. QED
    BY <2>1, <2>4 DEF Sequence!SequencesNext
<1>8. QED
  BY <1>6, <1>7

\* A call that does what it should loses nothing, either.
LEMMA FinishStep ==
  ASSUME IInv, NEW x \in Strings, NEW from, NEW to, NEW values, NEW strong \in BOOLEAN, NEW m,
         Good(m, Content(string[x]), Splice(Content(string[x]), from, to, values), strong),
         Finish(x, m, Replaces(from, to, values, strong))
  PROVE  IInv' /\ Sequence!SequencesNext
<1>1. m \in States(Chars) /\ ~ m.bad
  BY GoodAre DEF IsString, Filled
<1>2. Forgiven(m) = m
  BY <1>1 DEF Forgiven, States
<1>3. QED
  BY <1>1, <1>2, FinishEffect

\* A part of a string is characters.
LEMMA PartAre ==
  ASSUME StringParameters, IInv, NEW y \in Strings, NEW from \in 0 .. Size(y), NEW to \in 0 .. Size(y), from <= to
  PROVE  Part(y, from, to) \in Seq(Value) /\ Len(Part(y, from, to)) = to - from
<1>1. Content(string[y]) \in Seq(Value) /\ Len(Content(string[y])) = Size(y) /\ Size(y) \in Nat
  BY CallBegins, 0 \in Nat
<1>2. QED
  BY <1>1 DEF Part

\* A call of reserve keeps the invariant, and leaves the sequence as it was.
LEMMA ReserveStep ==
  ASSUME StringParameters, IInv, NEW x \in Strings, NEW n \in Nat,
         CallReserve(x, n)
  PROVE  IInv' /\ Sequence!SequencesNext
<1> DEFINE s == Content(string[x])
           t == Splice(s, Size(x), Size(x), << >>)
           m(fuel) == Start(string[x], fuel)
<1>1. \A fuel \in Nat : Ready(m(fuel), s)
  BY CallBegins
<1>2. /\ Raw \notin Chars /\ s \in Seq(Value) /\ Len(s) = Size(x) /\ Size(x) \in Nat
      /\ Plenty \in Nat
  BY CallBegins, 0 \in Nat DEF StringParameters
<1>3. ASSUME NEW fuel \in Nat PROVE Good(Reserve(m(fuel), n), s, t, TRUE)
  <2>1. Ready(m(fuel), s)
    BY <1>1
  <2> HIDE DEF m, s
  <2>a. Remade(Reserve(m(fuel), n), Larger(n, Len(s)) + 1, s, s)
    BY <1>2, <2>1, ReserveDoes
  <2>b. t = s
    BY <1>2, SpliceNone
  <2> HIDE DEF t
  <2>2. Gives(Reserve(m(fuel), n), t, s)
    BY <2>a, <2>b DEF Remade
  <2>3. QED
    BY <2>2 DEF Good
<1>4. PICK k \in 0 .. Plenty - Reserve(m(Plenty), n).fuel :
        Finish(x, Reserve(m(IF k = 0 THEN Plenty ELSE k - 1), n), Replaces(Size(x), Size(x), << >>, TRUE))
  BY DEF CallReserve, Call
<1> HIDE DEF m, s, t
<1>5. (IF k = 0 THEN Plenty ELSE k - 1) \in Nat
  <2>1. Good(Reserve(m(Plenty), n), s, t, TRUE)
    BY <1>2, <1>3
  <2>2. QED
    BY <2>1, FuelLeft
<1>6. Good(Reserve(m(IF k = 0 THEN Plenty ELSE k - 1), n), s, t, TRUE)
  BY <1>3, <1>5
<1>7. QED
  BY <1>4, <1>6, FinishStep DEF s, t

\* A call of push_back keeps the invariant, and appends its character.
LEMMA PushBackStep ==
  ASSUME StringParameters, IInv, NEW x \in Strings, NEW c \in Value,
         CallPushBack(x, c)
  PROVE  IInv' /\ Sequence!SequencesNext
<1> DEFINE s == Content(string[x])
           t == Splice(s, Size(x), Size(x), << c >>)
           m(fuel) == Start(string[x], fuel)
<1>1. \A fuel \in Nat : Ready(m(fuel), s)
  BY CallBegins
<1>2. /\ Raw \notin Chars /\ s \in Seq(Value) /\ Len(s) = Size(x) /\ Size(x) \in Nat
      /\ Plenty \in Nat
  BY CallBegins, 0 \in Nat DEF StringParameters
<1>3. ASSUME NEW fuel \in Nat PROVE Good(PushBack(m(fuel), c), s, t, TRUE)
  <2>1. Ready(m(fuel), s)
    BY <1>1
  <2> HIDE DEF m, s
  <2>2. Gives(PushBack(m(fuel), c), t, s)
    BY <1>2, <2>1, PushBackDoes
  <2>3. QED
    BY <2>2 DEF Good
<1>4. PICK k \in 0 .. Plenty - PushBack(m(Plenty), c).fuel :
        Finish(x, PushBack(m(IF k = 0 THEN Plenty ELSE k - 1), c), Replaces(Size(x), Size(x), << c >>, TRUE))
  BY DEF CallPushBack, Call
<1> HIDE DEF m, s, t
<1>5. (IF k = 0 THEN Plenty ELSE k - 1) \in Nat
  <2>1. Good(PushBack(m(Plenty), c), s, t, TRUE)
    BY <1>2, <1>3
  <2>2. QED
    BY <2>1, FuelLeft
<1>6. Good(PushBack(m(IF k = 0 THEN Plenty ELSE k - 1), c), s, t, TRUE)
  BY <1>3, <1>5
<1>7. QED
  BY <1>4, <1>6, FinishStep DEF s, t

\* A call of append(n, c) keeps the invariant, and appends n times c.
LEMMA AppendFillStep ==
  ASSUME StringParameters, IInv, NEW x \in Strings, NEW n \in Nat, NEW c \in Value,
         CallAppendFill(x, n, c)
  PROVE  IInv' /\ Sequence!SequencesNext
<1> DEFINE s == Content(string[x])
           t == Splice(s, Size(x), Size(x), Times(n, c))
           m(fuel) == Start(string[x], fuel)
<1>1. \A fuel \in Nat : Ready(m(fuel), s)
  BY CallBegins
<1>2. /\ Raw \notin Chars /\ s \in Seq(Value) /\ Len(s) = Size(x) /\ Size(x) \in Nat
      /\ Plenty \in Nat
  BY CallBegins, 0 \in Nat DEF StringParameters
<1>3. ASSUME NEW fuel \in Nat PROVE Good(AppendFill(m(fuel), n, c), s, t, TRUE)
  <2>1. Ready(m(fuel), s)
    BY <1>1
  <2> HIDE DEF m, s
  <2>2. Gives(AppendFill(m(fuel), n, c), t, s)
    BY <1>2, <2>1, AppendFillDoes
  <2>3. QED
    BY <2>2 DEF Good
<1>4. PICK k \in 0 .. Plenty - AppendFill(m(Plenty), n, c).fuel :
        Finish(x, AppendFill(m(IF k = 0 THEN Plenty ELSE k - 1), n, c), Replaces(Size(x), Size(x), Times(n, c), TRUE))
  BY DEF CallAppendFill, Call
<1> HIDE DEF m, s, t
<1>5. (IF k = 0 THEN Plenty ELSE k - 1) \in Nat
  <2>1. Good(AppendFill(m(Plenty), n, c), s, t, TRUE)
    BY <1>2, <1>3
  <2>2. QED
    BY <2>1, FuelLeft
<1>6. Good(AppendFill(m(IF k = 0 THEN Plenty ELSE k - 1), n, c), s, t, TRUE)
  BY <1>3, <1>5
<1>7. QED
  BY <1>4, <1>6, FinishStep DEF s, t

\* A call of append(first, last) keeps the invariant, and appends the range.
LEMMA AppendStep ==
  ASSUME StringParameters, IInv, NEW x \in Strings, NEW values \in Seq(Value),
         CallAppend(x, values)
  PROVE  IInv' /\ Sequence!SequencesNext
<1> DEFINE s == Content(string[x])
           t == Splice(s, Size(x), Size(x), values)
           m(fuel) == Start(string[x], fuel)
<1>1. \A fuel \in Nat : Ready(m(fuel), s)
  BY CallBegins
<1>2. /\ Raw \notin Chars /\ s \in Seq(Value) /\ Len(s) = Size(x) /\ Size(x) \in Nat
      /\ Plenty \in Nat
  BY CallBegins, 0 \in Nat DEF StringParameters
<1>3. ASSUME NEW fuel \in Nat PROVE Good(AppendRange(m(fuel), values), s, t, TRUE)
  <2>1. Ready(m(fuel), s)
    BY <1>1
  <2> HIDE DEF m, s
  <2>2. Gives(AppendRange(m(fuel), values), t, s)
    BY <1>2, <2>1, AppendRangeDoes
  <2>3. QED
    BY <2>2 DEF Good
<1>4. PICK k \in 0 .. Plenty - AppendRange(m(Plenty), values).fuel :
        Finish(x, AppendRange(m(IF k = 0 THEN Plenty ELSE k - 1), values), Replaces(Size(x), Size(x), values, TRUE))
  BY DEF CallAppend, Call
<1> HIDE DEF m, s, t
<1>5. (IF k = 0 THEN Plenty ELSE k - 1) \in Nat
  <2>1. Good(AppendRange(m(Plenty), values), s, t, TRUE)
    BY <1>2, <1>3
  <2>2. QED
    BY <2>1, FuelLeft
<1>6. Good(AppendRange(m(IF k = 0 THEN Plenty ELSE k - 1), values), s, t, TRUE)
  BY <1>3, <1>5
<1>7. QED
  BY <1>4, <1>6, FinishStep DEF s, t

\* A call of insert(pos, c) keeps the invariant, and inserts its character.
LEMMA InsertStep ==
  ASSUME StringParameters, IInv, NEW x \in Strings, NEW pos \in 0 .. Size(x), NEW c \in Value,
         CallInsert(x, pos, c)
  PROVE  IInv' /\ Sequence!SequencesNext
<1> DEFINE s == Content(string[x])
           t == Splice(s, pos, pos, << c >>)
           m(fuel) == Start(string[x], fuel)
<1>1. \A fuel \in Nat : Ready(m(fuel), s)
  BY CallBegins
<1>2. /\ Raw \notin Chars /\ s \in Seq(Value) /\ Len(s) = Size(x) /\ Size(x) \in Nat
      /\ Plenty \in Nat
  BY CallBegins, 0 \in Nat DEF StringParameters
<1>3. ASSUME NEW fuel \in Nat PROVE MayGive(InsertOne(m(fuel), pos, c), t, s)
  <2>1. Ready(m(fuel), s)
    BY <1>1
  <2> HIDE DEF m, s
  <2>2. pos \in Nat /\ pos <= Len(s)
    BY <1>2
  <2>3. QED
    BY <1>2, <2>1, <2>2, InsertOneDoes
<1>4. PICK k \in 0 .. Plenty - InsertOne(m(Plenty), pos, c).fuel :
        Finish(x, InsertOne(m(IF k = 0 THEN Plenty ELSE k - 1), pos, c), Replaces(pos, pos, << c >>, TRUE))
  BY DEF CallInsert, Call
<1> HIDE DEF m, s, t
<1>5. PICK fuel \in Nat : fuel = IF k = 0 THEN Plenty ELSE k - 1
  <2>1. InsertOne(m(Plenty), pos, c) \in States(Chars)
    BY <1>2, <1>3 DEF MayGive
  <2>2. InsertOne(m(Plenty), pos, c).fuel \in Nat
    BY <2>1, StateParts
  <2>3. QED
    BY <1>2, <2>2
<1> DEFINE r == InsertOne(m(fuel), pos, c)
<1>6. MayGive(r, t, s) /\ Finish(x, r, Replaces(pos, pos, << c >>, TRUE))
  BY <1>3, <1>4, <1>5
<1> HIDE DEF r
<1>7. r \in States(Chars) /\ (r.bad => InsertedMayThrow) /\ Good(Forgiven(r), s, t, TRUE)
  BY <1>6 DEF MayGive, Good
<1>8. QED
  BY <1>6, <1>7, FinishEffect DEF s, t

\* A call of insert(pos, n, c) or insert(pos, first, last) keeps the invariant, and inserts
\* the characters.
LEMMA InsertAllStep ==
  ASSUME StringParameters, IInv, NEW x \in Strings, NEW pos \in 0 .. Size(x), NEW values \in Seq(Value),
         CallInsertAll(x, pos, values)
  PROVE  IInv' /\ Sequence!SequencesNext
<1> DEFINE s == Content(string[x])
           t == Splice(s, pos, pos, values)
           m(fuel) == Start(string[x], fuel)
<1>1. \A fuel \in Nat : Ready(m(fuel), s)
  BY CallBegins
<1>2. /\ Raw \notin Chars /\ s \in Seq(Value) /\ Len(s) = Size(x) /\ Size(x) \in Nat
      /\ Plenty \in Nat
  BY CallBegins, 0 \in Nat DEF StringParameters
<1>3. ASSUME NEW fuel \in Nat PROVE Good(InsertAll(m(fuel), pos, values), s, t, TRUE)
  <2>1. Ready(m(fuel), s)
    BY <1>1
  <2> HIDE DEF m, s
  <2>a. pos \in Nat /\ pos <= Len(s)
    BY <1>2
  <2>2. Gives(InsertAll(m(fuel), pos, values), t, s)
    BY <1>2, <2>1, <2>a, InsertAllDoes
  <2>3. QED
    BY <2>2 DEF Good
<1>4. PICK k \in 0 .. Plenty - InsertAll(m(Plenty), pos, values).fuel :
        Finish(x, InsertAll(m(IF k = 0 THEN Plenty ELSE k - 1), pos, values), Replaces(pos, pos, values, TRUE))
  BY DEF CallInsertAll, Call
<1> HIDE DEF m, s, t
<1>5. (IF k = 0 THEN Plenty ELSE k - 1) \in Nat
  <2>1. Good(InsertAll(m(Plenty), pos, values), s, t, TRUE)
    BY <1>2, <1>3
  <2>2. QED
    BY <2>1, FuelLeft
<1>6. Good(InsertAll(m(IF k = 0 THEN Plenty ELSE k - 1), pos, values), s, t, TRUE)
  BY <1>3, <1>5
<1>7. QED
  BY <1>4, <1>6, FinishStep DEF s, t

\* A call of erase keeps the invariant, and removes its range.
LEMMA EraseStep ==
  ASSUME StringParameters, IInv, NEW x \in Strings, NEW from \in 0 .. Size(x), NEW to \in 0 .. Size(x), from <= to,
         CallErase(x, from, to)
  PROVE  IInv' /\ Sequence!SequencesNext
<1> DEFINE s == Content(string[x])
           t == Splice(s, from, to, << >>)
           m(fuel) == Start(string[x], fuel)
<1>1. \A fuel \in Nat : Ready(m(fuel), s)
  BY CallBegins
<1>2. /\ Raw \notin Chars /\ s \in Seq(Value) /\ Len(s) = Size(x) /\ Size(x) \in Nat
      /\ Plenty \in Nat
  BY CallBegins, 0 \in Nat DEF StringParameters
<1>3. ASSUME NEW fuel \in Nat PROVE Good(Erase(m(fuel), from, to), s, t, TRUE)
  <2>1. Ready(m(fuel), s)
    BY <1>1
  <2> HIDE DEF m, s
  <2>a. from \in Nat /\ to \in Nat /\ to <= Len(s) /\ IsString(m(fuel), s) /\ ~ m(fuel).threw
    BY <1>2, <2>1 DEF Ready
  <2>2. Gives(Erase(m(fuel), from, to), t, s)
    BY <1>2, <2>1, <2>a, EraseDoes
  <2>3. QED
    BY <2>2 DEF Good
<1>4. PICK k \in 0 .. Plenty - Erase(m(Plenty), from, to).fuel :
        Finish(x, Erase(m(IF k = 0 THEN Plenty ELSE k - 1), from, to), Replaces(from, to, << >>, TRUE))
  BY DEF CallErase, Call
<1> HIDE DEF m, s, t
<1>5. (IF k = 0 THEN Plenty ELSE k - 1) \in Nat
  <2>1. Good(Erase(m(Plenty), from, to), s, t, TRUE)
    BY <1>2, <1>3
  <2>2. QED
    BY <2>1, FuelLeft
<1>6. Good(Erase(m(IF k = 0 THEN Plenty ELSE k - 1), from, to), s, t, TRUE)
  BY <1>3, <1>5
<1>7. QED
  BY <1>4, <1>6, FinishStep DEF s, t

\* A call of pop_back keeps the invariant, and removes the last character.
LEMMA PopBackStep ==
  ASSUME StringParameters, IInv, NEW x \in Strings,
         CallPopBack(x)
  PROVE  IInv' /\ Sequence!SequencesNext
<1> DEFINE s == Content(string[x])
           t == Splice(s, Size(x) - 1, Size(x), << >>)
           m(fuel) == Start(string[x], fuel)
<1>1. \A fuel \in Nat : Ready(m(fuel), s)
  BY CallBegins
<1>2. /\ Raw \notin Chars /\ s \in Seq(Value) /\ Len(s) = Size(x) /\ Size(x) \in Nat
      /\ Plenty \in Nat
  BY CallBegins, 0 \in Nat DEF StringParameters
<1>3. ASSUME NEW fuel \in Nat PROVE Good(PopBack(m(fuel)), s, t, TRUE)
  <2>1. Ready(m(fuel), s)
    BY <1>1
  <2> HIDE DEF m, s
  <2>a. IsString(m(fuel), s) /\ ~ m(fuel).threw /\ Len(s) > 0
    BY <1>2, <2>1 DEF Ready, CallPopBack
  <2>2. Gives(PopBack(m(fuel)), t, s)
    BY <1>2, <2>a, PopBackDoes
  <2>3. QED
    BY <2>2 DEF Good
<1>4. PICK k \in 0 .. Plenty - PopBack(m(Plenty)).fuel :
        Finish(x, PopBack(m(IF k = 0 THEN Plenty ELSE k - 1)), Replaces(Size(x) - 1, Size(x), << >>, TRUE))
  BY DEF CallPopBack, Call
<1> HIDE DEF m, s, t
<1>5. (IF k = 0 THEN Plenty ELSE k - 1) \in Nat
  <2>1. Good(PopBack(m(Plenty)), s, t, TRUE)
    BY <1>2, <1>3
  <2>2. QED
    BY <2>1, FuelLeft
<1>6. Good(PopBack(m(IF k = 0 THEN Plenty ELSE k - 1)), s, t, TRUE)
  BY <1>3, <1>5
<1>7. QED
  BY <1>4, <1>6, FinishStep DEF s, t

\* A call of clear keeps the invariant, and removes all characters.
LEMMA ClearStep ==
  ASSUME StringParameters, IInv, NEW x \in Strings,
         CallClear(x)
  PROVE  IInv' /\ Sequence!SequencesNext
<1> DEFINE s == Content(string[x])
           t == Splice(s, 0, Size(x), << >>)
           m(fuel) == Start(string[x], fuel)
<1>1. \A fuel \in Nat : Ready(m(fuel), s)
  BY CallBegins
<1>2. /\ Raw \notin Chars /\ s \in Seq(Value) /\ Len(s) = Size(x) /\ Size(x) \in Nat
      /\ Plenty \in Nat
  BY CallBegins, 0 \in Nat DEF StringParameters
<1>3. ASSUME NEW fuel \in Nat PROVE Good(Clear(m(fuel)), s, t, TRUE)
  <2>1. Ready(m(fuel), s)
    BY <1>1
  <2> HIDE DEF m, s
  <2>a. IsString(m(fuel), s) /\ ~ m(fuel).threw
    BY <2>1 DEF Ready
  <2>2. Gives(Clear(m(fuel)), t, s)
    BY <1>2, <2>a, ClearDoes
  <2>3. QED
    BY <2>2 DEF Good
<1>4. PICK k \in 0 .. Plenty - Clear(m(Plenty)).fuel :
        Finish(x, Clear(m(IF k = 0 THEN Plenty ELSE k - 1)), Replaces(0, Size(x), << >>, TRUE))
  BY DEF CallClear, Call
<1> HIDE DEF m, s, t
<1>5. (IF k = 0 THEN Plenty ELSE k - 1) \in Nat
  <2>1. Good(Clear(m(Plenty)), s, t, TRUE)
    BY <1>2, <1>3
  <2>2. QED
    BY <2>1, FuelLeft
<1>6. Good(Clear(m(IF k = 0 THEN Plenty ELSE k - 1)), s, t, TRUE)
  BY <1>3, <1>5
<1>7. QED
  BY <1>4, <1>6, FinishStep DEF s, t

\* A call of resize to less keeps the invariant, and removes the characters behind it.
LEMMA ResizeDownStep ==
  ASSUME StringParameters, IInv, NEW x \in Strings, NEW n \in Nat, NEW c \in Value, n <= Size(x),
         CallResize(x, n, c)
  PROVE  IInv' /\ Sequence!SequencesNext
<1> DEFINE s == Content(string[x])
           t == Splice(s, n, Size(x), << >>)
           m(fuel) == Start(string[x], fuel)
<1>1. \A fuel \in Nat : Ready(m(fuel), s)
  BY CallBegins
<1>2. /\ Raw \notin Chars /\ s \in Seq(Value) /\ Len(s) = Size(x) /\ Size(x) \in Nat
      /\ Plenty \in Nat
  BY CallBegins, 0 \in Nat DEF StringParameters
<1>3. ASSUME NEW fuel \in Nat PROVE Good(Resize(m(fuel), n, c), s, t, TRUE)
  <2>1. Ready(m(fuel), s)
    BY <1>1
  <2> HIDE DEF m, s
  <2>2. Gives(Resize(m(fuel), n, c), t, s)
    BY <1>2, <2>1, ResizeDoes
  <2>3. QED
    BY <2>2 DEF Good
<1>4. PICK k \in 0 .. Plenty - Resize(m(Plenty), n, c).fuel :
        Finish(x, Resize(m(IF k = 0 THEN Plenty ELSE k - 1), n, c), Replaces(n, Size(x), << >>, TRUE))
  BY DEF CallResize, Call
<1> HIDE DEF m, s, t
<1>5. (IF k = 0 THEN Plenty ELSE k - 1) \in Nat
  <2>1. Good(Resize(m(Plenty), n, c), s, t, TRUE)
    BY <1>2, <1>3
  <2>2. QED
    BY <2>1, FuelLeft
<1>6. Good(Resize(m(IF k = 0 THEN Plenty ELSE k - 1), n, c), s, t, TRUE)
  BY <1>3, <1>5
<1>7. QED
  BY <1>4, <1>6, FinishStep DEF s, t

\* A call of resize to more keeps the invariant, and appends the missing characters.
LEMMA ResizeUpStep ==
  ASSUME StringParameters, IInv, NEW x \in Strings, NEW n \in Nat, NEW c \in Value, ~ (n <= Size(x)),
         CallResize(x, n, c)
  PROVE  IInv' /\ Sequence!SequencesNext
<1> DEFINE s == Content(string[x])
           t == Splice(s, Size(x), Size(x), Times(n - Size(x), c))
           m(fuel) == Start(string[x], fuel)
<1>1. \A fuel \in Nat : Ready(m(fuel), s)
  BY CallBegins
<1>2. /\ Raw \notin Chars /\ s \in Seq(Value) /\ Len(s) = Size(x) /\ Size(x) \in Nat
      /\ Plenty \in Nat
  BY CallBegins, 0 \in Nat DEF StringParameters
<1>3. ASSUME NEW fuel \in Nat PROVE Good(Resize(m(fuel), n, c), s, t, TRUE)
  <2>1. Ready(m(fuel), s)
    BY <1>1
  <2> HIDE DEF m, s
  <2>2. Gives(Resize(m(fuel), n, c), t, s)
    BY <1>2, <2>1, ResizeDoes
  <2>3. QED
    BY <2>2 DEF Good
<1>4. PICK k \in 0 .. Plenty - Resize(m(Plenty), n, c).fuel :
        Finish(x, Resize(m(IF k = 0 THEN Plenty ELSE k - 1), n, c), Replaces(Size(x), Size(x), Times(n - Size(x), c), TRUE))
  BY DEF CallResize, Call
<1> HIDE DEF m, s, t
<1>5. (IF k = 0 THEN Plenty ELSE k - 1) \in Nat
  <2>1. Good(Resize(m(Plenty), n, c), s, t, TRUE)
    BY <1>2, <1>3
  <2>2. QED
    BY <2>1, FuelLeft
<1>6. Good(Resize(m(IF k = 0 THEN Plenty ELSE k - 1), n, c), s, t, TRUE)
  BY <1>3, <1>5
<1>7. QED
  BY <1>4, <1>6, FinishStep DEF s, t

\* A call of assign(n, c) keeps the invariant, and leaves n times c.
LEMMA AssignFillStep ==
  ASSUME StringParameters, IInv, NEW x \in Strings, NEW n \in Nat, NEW c \in Value,
         CallAssignFill(x, n, c)
  PROVE  IInv' /\ Sequence!SequencesNext
<1> DEFINE s == Content(string[x])
           t == Splice(s, 0, Size(x), Times(n, c))
           m(fuel) == Start(string[x], fuel)
<1>1. \A fuel \in Nat : Ready(m(fuel), s)
  BY CallBegins
<1>2. /\ Raw \notin Chars /\ s \in Seq(Value) /\ Len(s) = Size(x) /\ Size(x) \in Nat
      /\ Plenty \in Nat
  BY CallBegins, 0 \in Nat DEF StringParameters
<1>3. ASSUME NEW fuel \in Nat PROVE Good(AssignFill(m(fuel), n, c), s, t, FALSE)
  <2>1. Ready(m(fuel), s)
    BY <1>1
  <2> HIDE DEF m, s
  <2>2. Yields(AssignFill(m(fuel), n, c), s, t)
    BY <1>2, <2>1, AssignFillDoes
  <2>3. QED
    BY <2>2 DEF Good
<1>4. PICK k \in 0 .. Plenty - AssignFill(m(Plenty), n, c).fuel :
        Finish(x, AssignFill(m(IF k = 0 THEN Plenty ELSE k - 1), n, c), Replaces(0, Size(x), Times(n, c), FALSE))
  BY DEF CallAssignFill, Call
<1> HIDE DEF m, s, t
<1>5. (IF k = 0 THEN Plenty ELSE k - 1) \in Nat
  <2>1. Good(AssignFill(m(Plenty), n, c), s, t, FALSE)
    BY <1>2, <1>3
  <2>2. QED
    BY <2>1, FuelLeft
<1>6. Good(AssignFill(m(IF k = 0 THEN Plenty ELSE k - 1), n, c), s, t, FALSE)
  BY <1>3, <1>5
<1>7. QED
  BY <1>4, <1>6, FinishStep DEF s, t

\* A call of assign(first, last) keeps the invariant, and leaves the range.
LEMMA AssignStep ==
  ASSUME StringParameters, IInv, NEW x \in Strings, NEW values \in Seq(Value),
         CallAssign(x, values)
  PROVE  IInv' /\ Sequence!SequencesNext
<1> DEFINE s == Content(string[x])
           t == Splice(s, 0, Size(x), values)
           m(fuel) == Start(string[x], fuel)
<1>1. \A fuel \in Nat : Ready(m(fuel), s)
  BY CallBegins
<1>2. /\ Raw \notin Chars /\ s \in Seq(Value) /\ Len(s) = Size(x) /\ Size(x) \in Nat
      /\ Plenty \in Nat
  BY CallBegins, 0 \in Nat DEF StringParameters
<1>3. ASSUME NEW fuel \in Nat PROVE Good(AssignRange(m(fuel), values), s, t, FALSE)
  <2>1. Ready(m(fuel), s)
    BY <1>1
  <2> HIDE DEF m, s
  <2>2. Yields(AssignRange(m(fuel), values), s, t)
    BY <1>2, <2>1, AssignRangeDoes
  <2>3. QED
    BY <2>2 DEF Good
<1>4. PICK k \in 0 .. Plenty - AssignRange(m(Plenty), values).fuel :
        Finish(x, AssignRange(m(IF k = 0 THEN Plenty ELSE k - 1), values), Replaces(0, Size(x), values, FALSE))
  BY DEF CallAssign, Call
<1> HIDE DEF m, s, t
<1>5. (IF k = 0 THEN Plenty ELSE k - 1) \in Nat
  <2>1. Good(AssignRange(m(Plenty), values), s, t, FALSE)
    BY <1>2, <1>3
  <2>2. QED
    BY <2>1, FuelLeft
<1>6. Good(AssignRange(m(IF k = 0 THEN Plenty ELSE k - 1), values), s, t, FALSE)
  BY <1>3, <1>5
<1>7. QED
  BY <1>4, <1>6, FinishStep DEF s, t

\* A call of replace keeps the invariant, and replaces its range.
LEMMA ReplaceStep ==
  ASSUME StringParameters, IInv, NEW x \in Strings, NEW from \in 0 .. Size(x), NEW to \in 0 .. Size(x), from <= to,
         NEW values \in Seq(Value),
         CallReplace(x, from, to, values)
  PROVE  IInv' /\ Sequence!SequencesNext
<1> DEFINE s == Content(string[x])
           t == Splice(s, from, to, values)
           m(fuel) == Start(string[x], fuel)
<1>1. \A fuel \in Nat : Ready(m(fuel), s)
  BY CallBegins
<1>2. /\ Raw \notin Chars /\ s \in Seq(Value) /\ Len(s) = Size(x) /\ Size(x) \in Nat
      /\ Plenty \in Nat
  BY CallBegins, 0 \in Nat DEF StringParameters
<1>3. ASSUME NEW fuel \in Nat PROVE Good(ReplaceRange(m(fuel), from, to, values), s, t, FALSE)
  <2>1. Ready(m(fuel), s)
    BY <1>1
  <2> HIDE DEF m, s
  <2>a. from \in Nat /\ to \in Nat /\ to <= Len(s) /\ IsString(m(fuel), s) /\ ~ m(fuel).threw
    BY <1>2, <2>1 DEF Ready
  <2>2. Yields(ReplaceRange(m(fuel), from, to, values), s, t)
    BY <1>2, <2>1, <2>a, ReplaceRangeDoes
  <2>3. QED
    BY <2>2 DEF Good
<1>4. PICK k \in 0 .. Plenty - ReplaceRange(m(Plenty), from, to, values).fuel :
        Finish(x, ReplaceRange(m(IF k = 0 THEN Plenty ELSE k - 1), from, to, values), Replaces(from, to, values, FALSE))
  BY DEF CallReplace, Call
<1> HIDE DEF m, s, t
<1>5. (IF k = 0 THEN Plenty ELSE k - 1) \in Nat
  <2>1. Good(ReplaceRange(m(Plenty), from, to, values), s, t, FALSE)
    BY <1>2, <1>3
  <2>2. QED
    BY <2>1, FuelLeft
<1>6. Good(ReplaceRange(m(IF k = 0 THEN Plenty ELSE k - 1), from, to, values), s, t, FALSE)
  BY <1>3, <1>5
<1>7. QED
  BY <1>4, <1>6, FinishStep DEF s, t

\* A construction keeps the invariant, and leaves what it is given.
LEMMA ConstructStep ==
  ASSUME StringParameters, IInv, NEW x \in Strings, NEW values \in Seq(Value),
         CallConstruct(x, values)
  PROVE  IInv' /\ Sequence!SequencesNext
<1> DEFINE s == Content(string[x])
           t == Splice(s, 0, Size(x), values)
           m(fuel) == Start(string[x], fuel)
<1>1. \A fuel \in Nat : Ready(m(fuel), s)
  BY CallBegins
<1>2. /\ Raw \notin Chars /\ s \in Seq(Value) /\ Len(s) = Size(x) /\ Size(x) \in Nat
      /\ Plenty \in Nat
  BY CallBegins, 0 \in Nat DEF StringParameters
<1>3. ASSUME NEW fuel \in Nat PROVE Good(RangeInitialize(m(fuel), values), s, t, TRUE)
  <2>1. Ready(m(fuel), s)
    BY <1>1
  <2> HIDE DEF m, s
  <2>a. t = values
    BY <1>2, SpliceAll
  <2> HIDE DEF t
  <2>b. Gives(RangeInitialize(m(fuel), values), values, s)
    BY <1>2, <2>1, RangeInitializeDoes
  <2>2. Gives(RangeInitialize(m(fuel), values), t, s)
    BY <2>a, <2>b
  <2>3. QED
    BY <2>2 DEF Good
<1>4. PICK k \in 0 .. Plenty - RangeInitialize(m(Plenty), values).fuel :
        Finish(x, RangeInitialize(m(IF k = 0 THEN Plenty ELSE k - 1), values), Replaces(0, Size(x), values, TRUE))
  BY DEF CallConstruct, Call
<1> HIDE DEF m, s, t
<1>5. (IF k = 0 THEN Plenty ELSE k - 1) \in Nat
  <2>1. Good(RangeInitialize(m(Plenty), values), s, t, TRUE)
    BY <1>2, <1>3
  <2>2. QED
    BY <2>1, FuelLeft
<1>6. Good(RangeInitialize(m(IF k = 0 THEN Plenty ELSE k - 1), values), s, t, TRUE)
  BY <1>3, <1>5
<1>7. QED
  BY <1>4, <1>6, FinishStep DEF s, t

\* swap exchanges two strings, blocks and all.
LEMMA SwapStep ==
  ASSUME IInv, NEW x \in Strings, NEW y \in Strings, CallSwap(x, y)
  PROVE  IInv' /\ Sequence!SequencesNext
<1>1. /\ x # y /\ string' = [string EXCEPT ![x] = string[y], ![y] = string[x]] /\ bad' = bad
      /\ call' = [op |-> "swap", on |-> x, from |-> y, turn |-> 1 - call.turn]
  BY DEF CallSwap
<1>2. /\ string'[x] = string[y] /\ string'[y] = string[x]
      /\ \A z \in Strings : z # x /\ z # y => string'[z] = string[z]
  BY <1>1 DEF IInv
<1>3. IInv'
  <2>1. string' \in [Strings -> [cells : Seq(Cellular(Chars)), size : Nat]]
    BY <1>1 DEF IInv
  <2>2. \A z \in Strings : Intact(string'[z])
    BY <1>2 DEF IInv
  <2>3. bad' \in BOOLEAN /\ (bad' => InsertedMayThrow)
    BY <1>1 DEF IInv
  <2>4. QED
    BY <2>1, <2>2, <2>3 DEF IInv, Intact
<1>4. Sequence!SequencesNext
  <2>1. call'.turn = 1 - call.turn /\ call'.op = "swap" /\ call'.on = x /\ call'.from = y
    BY <1>1
  <2>2. ASSUME NEW z \in Strings
        PROVE  Content(string'[z]) = Content(string[IF z = x THEN y ELSE IF z = y THEN x ELSE z])
    BY <1>1, <1>2
  <2>3. ASSUME NEW z \in Strings
        PROVE  [w \in Strings |-> Content(string'[w])][z] =
                 [w \in Strings |-> Content(string[w])][IF z = x THEN y ELSE IF z = y THEN x ELSE z]
    BY <2>2
  <2>4. QED
    BY <2>1, <2>3 DEF Sequence!SequencesNext
<1>5. QED
  BY <1>3, <1>4

\* Strings are constructed empty: a null, and raw memory.
LEMMA InitHolds ==
  ASSUME StringParameters, Init
  PROVE  IInv /\ Sequence!SequencesInit
<1> DEFINE null == << NullChar >>
           raw == Times(InitialCells - 1, Raw)
           cells == null \o raw
           v == [cells |-> cells, size |-> 0]
           none == << >>
<1>1. PICK n \in Nat : n = InitialCells - 1
  BY DEF StringParameters
<1>2. null \in Seq(Cellular(Chars)) /\ Len(null) = 1 /\ null[1] = NullChar /\ null \in Seq(Chars)
  <2>1. NullChar \in Chars /\ NullChar \in Cellular(Chars)
    BY DEF Chars, Cellular
  <2>2. QED
    BY <2>1
<1>3. raw \in Seq(Cellular(Chars)) /\ Len(raw) = n /\ \A j \in 1 .. n : raw[j] = Raw
  <2>1. Raw \in Cellular(Chars)
    BY DEF Cellular
  <2>2. Times(n, Raw) \in Seq(Cellular(Chars)) /\ Len(Times(n, Raw)) = n /\ \A j \in 1 .. n : Times(n, Raw)[j] = Raw
    BY <2>1, TimesAre
  <2>3. QED
    BY <1>1, <2>2
<1>4. none \in Seq(Value) /\ Len(none) = 0 /\ Whole(none) = null
  <2>1. << >> \o null = null
    BY <1>2
  <2>2. QED
    BY <2>1 DEF Whole
<1>5. Init => string = [x \in Strings |-> v]
  BY DEF Init
<1> HIDE DEF null, raw, none
<1>6. /\ cells \in Seq(Cellular(Chars)) /\ Len(cells) = 1 + n
      /\ \A i \in 1 .. 1 + n : cells[i] = IF i <= 1 THEN null[i] ELSE raw[i - 1]
  BY <1>2, <1>3, JoinedAt
<1> HIDE DEF cells
<1>7. ASSUME NEW i \in 1 .. 1 + n PROVE cells[i] = Raw <=> ~ (i <= 1)
  <2>1. CASE i <= 1
    <3>1. i = 1
      BY <2>1
    <3>2. cells[i] = NullChar
      BY <1>2, <1>6, <3>1
    <3>3. NullChar # Raw
      BY DEF StringParameters, Chars
    <3>4. QED
      BY <2>1, <3>2, <3>3
  <2>2. CASE ~ (i <= 1)
    <3>1. PICK j \in 1 .. n : j = i - 1
      BY <2>2
    <3>2. QED
      BY <1>3, <1>6, <2>2, <3>1
  <2>3. QED
    BY <2>1, <2>2
<1>8. Fills(cells, null)
  <2>1. Alive(cells, 1)
    BY <1>6, <1>7 DEF Alive
  <2>2. \A i \in 1 .. 1 : cells[i] = null[i]
    BY <1>6
  <2>3. QED
    BY <1>2, <2>1, <2>2 DEF Fills
<1>9. Content(v) = none /\ v \in [cells : Seq(Cellular(Chars)), size : Nat] /\ v.cells = cells /\ v.size = 0
  <2>1. SubSeq(cells, 1, 0) = none
    BY <1>6 DEF none
  <2>2. QED
    BY <1>6, <2>1 DEF Content
<1> HIDE DEF v
<1>10. Intact(v)
  BY <1>4, <1>8, <1>9 DEF Intact
<1>11. \A x \in Strings : string[x] = v
  BY <1>5
<1>12. IInv
  <2>1. string \in [Strings -> [cells : Seq(Cellular(Chars)), size : Nat]]
    BY <1>5, <1>9
  <2>2. QED
    BY <1>10, <1>11, <2>1 DEF IInv, Init
<1>13. \A x \in Strings : Content(string[x]) = << >>
  BY <1>9, <1>11 DEF none
<1>14. Sequence!SequencesInit
  BY <1>13 DEF Init, Sequence!SequencesInit
<1>15. QED
  BY <1>12, <1>14

\* A call of resize keeps the invariant, and is a call on sequences.
LEMMA ResizeStep ==
  ASSUME StringParameters, IInv, NEW x \in Strings, NEW n \in Nat, NEW c \in Value, CallResize(x, n, c)
  PROVE  IInv' /\ Sequence!SequencesNext
<1>1. CASE n <= Size(x)
  BY <1>1, ResizeDownStep
<1>2. CASE ~ (n <= Size(x))
  BY <1>2, ResizeUpStep
<1>3. QED
  BY <1>1, <1>2

\* The calls of one string with a character
LEMMA CharacterCalls ==
  ASSUME StringParameters, IInv, NEW x \in Strings, NEW c \in Value,
         \/ \E n \in 0 .. MaxLength :
              \/ CallResize(x, n, c) \/ CallAssignFill(x, n, c) \/ CallAppendFill(x, n, c)
              \/ \E pos \in 0 .. Size(x) : CallInsertAll(x, pos, Times(n, c)) \/ CallInsert(x, pos, c)
         \/ CallPushBack(x, c)
  PROVE  IInv' /\ Sequence!SequencesNext
<1>1. CASE CallPushBack(x, c)
  BY <1>1, PushBackStep
<1>2. CASE \E n \in 0 .. MaxLength :
             \/ CallResize(x, n, c) \/ CallAssignFill(x, n, c) \/ CallAppendFill(x, n, c)
             \/ \E pos \in 0 .. Size(x) : CallInsertAll(x, pos, Times(n, c)) \/ CallInsert(x, pos, c)
  <2>1. PICK n \in 0 .. MaxLength :
          \/ CallResize(x, n, c) \/ CallAssignFill(x, n, c) \/ CallAppendFill(x, n, c)
          \/ \E pos \in 0 .. Size(x) : CallInsertAll(x, pos, Times(n, c)) \/ CallInsert(x, pos, c)
    BY <1>2
  <2>2. n \in Nat /\ Times(n, c) \in Seq(Value)
    <3>1. n \in Nat
      BY DEF StringParameters
    <3>2. QED
      BY <3>1, TimesAre
  <2>3. CASE CallResize(x, n, c)
    BY <2>2, <2>3, ResizeStep
  <2>4. CASE CallAssignFill(x, n, c)
    BY <2>2, <2>4, AssignFillStep
  <2>5. CASE CallAppendFill(x, n, c)
    BY <2>2, <2>5, AppendFillStep
  <2>6. CASE \E pos \in 0 .. Size(x) : CallInsertAll(x, pos, Times(n, c))
    BY <2>2, <2>6, InsertAllStep
  <2>7. CASE \E pos \in 0 .. Size(x) : CallInsert(x, pos, c)
    BY <2>7, InsertStep
  <2>8. QED
    BY <2>1, <2>3, <2>4, <2>5, <2>6, <2>7
<1>3. QED
  BY <1>1, <1>2

\* The calls of one string on a range of its own
LEMMA RangeCalls ==
  ASSUME StringParameters, IInv, NEW x \in Strings, NEW from \in 0 .. Size(x), NEW to \in 0 .. Size(x), from <= to,
         \/ CallErase(x, from, to) \/ CallConstruct(x, Part(x, from, to)) \/ CallAppend(x, Part(x, from, to))
         \/ \E c \in Value : \E n \in 0 .. MaxLength - Size(x) + to - from :
              CallReplace(x, from, to, Times(n, c))
  PROVE  IInv' /\ Sequence!SequencesNext
<1>0. Part(x, from, to) \in Seq(Value) /\ Size(x) \in Nat /\ MaxLength \in Nat
  BY PartAre, CallBegins, 0 \in Nat DEF StringParameters
<1>1. CASE CallErase(x, from, to)
  BY <1>1, EraseStep
<1>2. CASE CallConstruct(x, Part(x, from, to))
  BY <1>0, <1>2, ConstructStep
<1>3. CASE CallAppend(x, Part(x, from, to))
  BY <1>0, <1>3, AppendStep
<1>4. CASE \E c \in Value : \E n \in 0 .. MaxLength - Size(x) + to - from : CallReplace(x, from, to, Times(n, c))
  <2>1. PICK c \in Value, n \in 0 .. MaxLength - Size(x) + to - from : CallReplace(x, from, to, Times(n, c))
    BY <1>4
  <2>2. n \in Nat
    BY <1>0
  <2>3. Times(n, c) \in Seq(Value)
    BY <2>2, TimesAre
  <2>4. QED
    BY <2>1, <2>3, ReplaceStep
<1>5. QED
  BY <1>1, <1>2, <1>3, <1>4

\* The calls of a string with a part of another one
LEMMA PartCalls ==
  ASSUME StringParameters, IInv, NEW x \in Strings, NEW y \in Strings, NEW from \in 0 .. Size(y), NEW to \in 0 .. Size(y),
         from <= to,
         \/ CallAssign(x, Part(y, from, to)) \/ CallConstruct(x, Part(y, from, to)) \/ CallAppend(x, Part(y, from, to))
         \/ \E pos \in 0 .. Size(x) : CallInsertAll(x, pos, Part(y, from, to))
         \/ \E pos, end \in 0 .. Size(x) : pos <= end /\ CallReplace(x, pos, end, Part(y, from, to))
  PROVE  IInv' /\ Sequence!SequencesNext
<1>0. Part(y, from, to) \in Seq(Value)
  BY PartAre
<1>1. CASE CallAssign(x, Part(y, from, to))
  BY <1>0, <1>1, AssignStep
<1>2. CASE CallConstruct(x, Part(y, from, to))
  BY <1>0, <1>2, ConstructStep
<1>3. CASE CallAppend(x, Part(y, from, to))
  BY <1>0, <1>3, AppendStep
<1>4. CASE \E pos \in 0 .. Size(x) : CallInsertAll(x, pos, Part(y, from, to))
  BY <1>0, <1>4, InsertAllStep
<1>5. CASE \E pos, end \in 0 .. Size(x) : pos <= end /\ CallReplace(x, pos, end, Part(y, from, to))
  BY <1>0, <1>5, ReplaceStep
<1>6. QED
  BY <1>1, <1>2, <1>3, <1>4, <1>5

\* Every step keeps the invariant, and does what a call on sequences does.
LEMMA NextHolds ==
  ASSUME StringParameters, IInv, Next
  PROVE  IInv' /\ Sequence!SequencesNext
<1>1. PICK x \in Strings :
        \/ \E c \in Value : \E n \in 0 .. MaxLength :
             \/ CallResize(x, n, c) \/ CallAssignFill(x, n, c)
             \/ Size(x) + n <= MaxLength /\ CallAppendFill(x, n, c)
             \/ \E pos \in 0 .. Size(x) :
                  /\ Size(x) + n <= MaxLength
                  /\ CallInsertAll(x, pos, Times(n, c)) \/ (n = 1 /\ CallInsert(x, pos, c))
        \/ \E c \in Value : Size(x) < MaxLength /\ CallPushBack(x, c)
        \/ \E n \in 0 .. MaxLength : CallReserve(x, n)
        \/ CallPopBack(x) \/ CallClear(x)
        \/ \E from, to \in 0 .. Size(x) :
             /\ from <= to
             /\ \/ CallErase(x, from, to)
                \/ CallConstruct(x, Part(x, from, to))
                \/ Size(x) + to - from <= MaxLength /\ CallAppend(x, Part(x, from, to))
                \/ \E c \in Value : \E n \in 0 .. MaxLength - Size(x) + to - from :
                     CallReplace(x, from, to, Times(n, c))
        \/ \E y \in Strings :
             \/ CallSwap(x, y)
             \/ \E from, to \in 0 .. Size(y) :
                  /\ x # y /\ from <= to
                  /\ \/ CallAssign(x, Part(y, from, to))
                     \/ CallConstruct(x, Part(y, from, to))
                     \/ /\ Size(x) + to - from <= MaxLength
                        /\ \/ CallAppend(x, Part(y, from, to))
                           \/ \E pos \in 0 .. Size(x) : CallInsertAll(x, pos, Part(y, from, to))
                           \/ \E pos, end \in 0 .. Size(x) :
                                pos <= end /\ CallReplace(x, pos, end, Part(y, from, to))
  BY DEF Next
<1>2. CASE \E c \in Value :
             \/ \E n \in 0 .. MaxLength :
                  \/ CallResize(x, n, c) \/ CallAssignFill(x, n, c) \/ CallAppendFill(x, n, c)
                  \/ \E pos \in 0 .. Size(x) : CallInsertAll(x, pos, Times(n, c)) \/ CallInsert(x, pos, c)
             \/ CallPushBack(x, c)
  BY <1>2, CharacterCalls
<1>3. CASE \E n \in 0 .. MaxLength : CallReserve(x, n)
  <2>1. PICK n \in 0 .. MaxLength : CallReserve(x, n)
    BY <1>3
  <2>2. n \in Nat
    BY DEF StringParameters
  <2>3. QED
    BY <2>1, <2>2, ReserveStep
<1>4. CASE CallPopBack(x)
  BY <1>4, PopBackStep
<1>5. CASE CallClear(x)
  BY <1>5, ClearStep
<1>6. CASE \E from, to \in 0 .. Size(x) :
             /\ from <= to
             /\ \/ CallErase(x, from, to) \/ CallConstruct(x, Part(x, from, to)) \/ CallAppend(x, Part(x, from, to))
                \/ \E c \in Value : \E n \in 0 .. MaxLength - Size(x) + to - from :
                     CallReplace(x, from, to, Times(n, c))
  BY <1>6, RangeCalls
<1>7. CASE \E y \in Strings : CallSwap(x, y)
  BY <1>7, SwapStep
<1>8. CASE \E y \in Strings : \E from, to \in 0 .. Size(y) :
             /\ from <= to
             /\ \/ CallAssign(x, Part(y, from, to)) \/ CallConstruct(x, Part(y, from, to))
                \/ CallAppend(x, Part(y, from, to))
                \/ \E pos \in 0 .. Size(x) : CallInsertAll(x, pos, Part(y, from, to))
                \/ \E pos, end \in 0 .. Size(x) : pos <= end /\ CallReplace(x, pos, end, Part(y, from, to))
  BY <1>8, PartCalls
<1>9. QED
  BY <1>1, <1>2, <1>3, <1>4, <1>5, <1>6, <1>7, <1>8

\* What changes no string changes no sequence.
LEMMA StutterHolds ==
  ASSUME IInv, UNCHANGED vars
  PROVE  IInv' /\ UNCHANGED << [x \in Strings |-> Content(string[x])], call >>
BY DEF IInv, vars, Intact

-----------------------------------------------------------------------------
(* Theorems                                                                 *)

\* Between calls, a block holds the characters and the null behind them, and the rest of it is
\* raw: what every call of the file string keeps, wherever something throws.  Nothing is
\* misused or lost either, unless the copy at the line 1329 of string may throw.
THEOREM StringsHold ==
  ASSUME StringParameters
  PROVE  Spec => []IInv
<1>1. Init => IInv
  BY InitHolds
<1>2. IInv /\ [Next]_vars => IInv'
  BY NextHolds, StutterHolds
<1>3. QED
  BY <1>1, <1>2, PTL DEF Spec

\* The cells of an intact string, as the properties say it
LEMMA IntactAre ==
  ASSUME StringParameters, NEW v, Intact(v)
  PROVE  /\ v.cells \in Seq(Value \union {NullChar, Raw}) /\ v.size \in Nat /\ Len(v.cells) \in Nat
         /\ v.size < Len(v.cells) /\ v.cells[v.size + 1] = NullChar
         /\ \A i \in 1 .. Len(v.cells) : /\ i <= v.size => v.cells[i] \in Value
                                         /\ i > v.size + 1 => v.cells[i] = Raw
<1> DEFINE s == Content(v)
           w == Whole(s)
<1>1. /\ v.cells \in Seq(Cellular(Chars)) /\ v.size \in Nat /\ s \in Seq(Value) /\ Len(s) = v.size /\ Fills(v.cells, w)
  BY DEF Intact
<1>2. /\ w \in Seq(Chars) /\ Len(w) = Len(s) + 1 /\ w[Len(s) + 1] = NullChar
      /\ \A i \in 1 .. Len(s) : w[i] = s[i]
  BY <1>1, WholeAre
<1> HIDE DEF w, s
<1>3. /\ Len(v.cells) \in Nat /\ Len(w) <= Len(v.cells) /\ \A i \in 1 .. Len(w) : v.cells[i] = w[i]
      /\ \A i \in 1 .. Len(v.cells) : v.cells[i] # Raw <=> i <= Len(w)
  BY <1>1, <1>2 DEF Fills, Alive
<1>4. v.size < Len(v.cells) /\ v.cells[v.size + 1] = NullChar
  <2>1. v.size + 1 \in 1 .. Len(w)
    BY <1>1, <1>2
  <2>2. QED
    BY <1>1, <1>2, <1>3, <2>1
<1>5. ASSUME NEW i \in 1 .. Len(v.cells), i <= v.size PROVE v.cells[i] \in Value
  <2>1. i \in 1 .. Len(w) /\ i \in 1 .. Len(s)
    BY <1>1, <1>2, <1>5
  <2>2. v.cells[i] = s[i]
    BY <1>2, <1>3, <2>1
  <2>3. QED
    BY <1>1, <2>1, <2>2
<1>6. ASSUME NEW i \in 1 .. Len(v.cells), i > v.size + 1 PROVE v.cells[i] = Raw
  BY <1>1, <1>2, <1>3, <1>6
<1>7. v.cells \in Seq(Value \union {NullChar, Raw})
  <2>1. Cellular(Chars) = Value \union {NullChar, Raw}
    BY DEF Cellular, Chars
  <2>2. QED
    BY <1>1, <2>1
<1>8. QED
  BY <1>1, <1>3, <1>4, <1>5, <1>6, <1>7

\* The block has room for the characters, and its cells hold characters, the null or nothing.
THEOREM StringTypeCorrect ==
  ASSUME StringParameters
  PROVE  Spec => []TypeOK
<1>1. IInv => TypeOK
  <2>1. SUFFICES ASSUME IInv, NEW x \in Strings
        PROVE  /\ string[x].cells \in Seq(Value \union {NullChar, Raw})
               /\ string[x].size \in 0 .. Len(string[x].cells) /\ bad \in BOOLEAN
    BY DEF TypeOK, IInv
  <2>2. Intact(string[x]) /\ bad \in BOOLEAN
    BY <2>1 DEF IInv
  <2>3. QED
    BY <2>2, IntactAre
<1>2. QED
  BY <1>1, StringsHold, PTL

\* The characters, a null behind them, and raw memory: c_str() always ends.
THEOREM StringsWellFormed ==
  ASSUME StringParameters
  PROVE  Spec => []WellFormed
<1>1. IInv => WellFormed
  <2>1. SUFFICES ASSUME IInv, NEW x \in Strings
        PROVE  /\ string[x].size < Len(string[x].cells) /\ string[x].cells[string[x].size + 1] = NullChar
               /\ \A i \in DOMAIN string[x].cells :
                    /\ i <= string[x].size => string[x].cells[i] \in Value
                    /\ i > string[x].size + 1 => string[x].cells[i] = Raw
    BY DEF WellFormed
  <2>2. Intact(string[x])
    BY <2>1 DEF IInv
  <2>3. DOMAIN string[x].cells = 1 .. Len(string[x].cells)
    BY <2>2, IntactAre
  <2>4. QED
    BY <2>2, <2>3, IntactAre
<1>2. QED
  BY <1>1, StringsHold, PTL

\* If the copy at the line 1329 of string does not throw, whatever else does: no character is
\* constructed over another, read, assigned to or destroyed where there is none, and none is
\* lost with its block.
THEOREM StringsLoseNothing ==
  ASSUME StringParameters, ~ InsertedMayThrow
  PROVE  Spec => []NothingLost
<1>1. IInv => NothingLost
  BY DEF IInv, NothingLost
<1>2. QED
  BY <1>1, StringsHold, PTL

\* The strings are the sequences that their calls say: a call that ends has replaced what
\* it says; if it throws it has changed nothing, or, for assign and replace, keeps to the
\* characters and the lengths between.
THEOREM StringsImplementSequences ==
  ASSUME StringParameters
  PROVE  Spec => ImplementsSequences
<1>1. Init => Sequence!SequencesInit
  BY InitHolds
<1>2. IInv /\ [Next]_vars => [Sequence!SequencesNext]_<< [x \in Strings |-> Content(string[x])], call >>
  BY NextHolds, StutterHolds
<1>3. QED
  BY <1>1, <1>2, StringsHold, PTL DEF Spec, ImplementsSequences, Sequence!SequencesSpec

-----------------------------------------------------------------------------
(* Searches                                                                 *)

\* The least of some positions is what no other one is below.
LEMMA LeastIs ==
  ASSUME NEW S, S \subseteq Nat, NEW none, NEW i \in S, \A j \in S : i <= j
  PROVE  LeastOr(S, none) = i
<1> DEFINE l == CHOOSE k \in S : \A j \in S : k <= j
<1>1. l \in S /\ \A j \in S : l <= j
  OBVIOUS
<1>2. LeastOr(S, none) = l
  BY DEF LeastOr
<1> HIDE DEF l
<1>3. l \in Nat /\ i \in Nat /\ l <= i /\ i <= l
  BY <1>1
<1>4. QED
  BY <1>2, <1>3

\* There is one, if there are positions.
LEMMA LeastAre ==
  ASSUME NEW S, S \subseteq Nat, S # {}
  PROVE  \E i \in S : \A j \in S : i <= j
<1>1. PICK i \in S : \A j \in S : ~ (<< j, i >> \in OpToRel(<, Nat))
  BY NatLessThanWellFounded, WFMin
<1>2. ASSUME NEW j \in S PROVE i <= j
  <2>1. j < i => << j, i >> \in OpToRel(<, Nat)
    BY DEF OpToRel
  <2>2. i \in Nat /\ j \in Nat /\ ~ (j < i)
    BY <1>1, <2>1
  <2>3. QED
    BY <2>2
<1>3. QED
  BY <1>2

\* The greatest of some positions is what no other one is above.
LEMMA GreatestIs ==
  ASSUME NEW S, S \subseteq Nat, NEW none, NEW i \in S, \A j \in S : i >= j
  PROVE  GreatestOr(S, none) = i
<1> DEFINE g == CHOOSE k \in S : \A j \in S : k >= j
<1>1. g \in S /\ \A j \in S : g >= j
  OBVIOUS
<1>2. GreatestOr(S, none) = g
  BY DEF GreatestOr
<1> HIDE DEF g
<1>3. g \in Nat /\ i \in Nat /\ g <= i /\ i <= g
  BY <1>1
<1>4. QED
  BY <1>2, <1>3

\* There is one, if there are positions, up to some n.
LEMMA GreatestAre ==
  ASSUME NEW n \in Nat, NEW S, S \subseteq 0 .. n, S # {}
  PROVE  \E i \in S : \A j \in S : i >= j
<1> DEFINE T == {n - i : i \in S}
<1>1. T \subseteq Nat /\ T # {}
  <2>1. PICK i \in S : TRUE
    OBVIOUS
  <2>2. n - i \in T
    OBVIOUS
  <2>3. \A j \in S : n - j \in Nat
    OBVIOUS
  <2>4. QED
    BY <2>2, <2>3
<1>2. PICK k \in T : \A j \in T : k <= j
  BY <1>1, LeastAre
<1>3. PICK i \in S : k = n - i
  BY <1>2
<1>4. ASSUME NEW j \in S PROVE i >= j
  <2>1. n - i <= n - j
    BY <1>2, <1>3
  <2>2. i \in Nat /\ j \in Nat
    OBVIOUS
  <2>3. QED
    BY <2>1, <2>2
<1>5. QED
  BY <1>4

\* A search forwards that returns the end of its range, or what is there, found nothing.
LEMMA FirstFound ==
  ASSUME NEW last \in Nat, NEW S, S \subseteq 0 .. last
  PROVE  FoundBefore(LeastOr(S, last), last) = LeastOr({i \in S : i < last}, Npos)
<1> DEFINE T == {i \in S : i < last}
<1>1. CASE T = {}
  <2>1. \A i \in S : i = last
    <3>1. SUFFICES ASSUME NEW i \in S PROVE i = last
      OBVIOUS
    <3>2. i \notin T /\ i \in 0 .. last
      BY <1>1
    <3>3. QED
      BY <3>2
  <2>2. LeastOr(S, last) = last
    <3>1. CASE S = {}
      BY <3>1 DEF LeastOr
    <3>2. CASE S # {}
      <4>1. PICK i \in S : TRUE
        BY <3>2
      <4>2. last \in S /\ S \subseteq Nat /\ \A j \in S : last <= j
        BY <2>1, <4>1
      <4>3. QED
        BY <4>2, LeastIs
    <3>3. QED
      BY <3>1, <3>2
  <2>3. QED
    BY <1>1, <2>2 DEF FoundBefore, LeastOr
<1>2. CASE T # {}
  <2>1. S \subseteq Nat
    OBVIOUS
  <2>a. T \subseteq Nat
    BY <2>1
  <2>2. PICK i \in T : \A j \in T : i <= j
    BY <1>2, <2>a, LeastAre
  <2>3. \A j \in S : i <= j
    BY <2>2
  <2>4. LeastOr(T, Npos) = i
    BY <2>a, <2>2, LeastIs
  <2>5. i \in S /\ i # last
    OBVIOUS
  <2>6. LeastOr(S, last) = i
    BY <2>1, <2>3, <2>5, LeastIs
  <2>7. QED
    BY <2>4, <2>5, <2>6 DEF FoundBefore
<1>3. QED
  BY <1>1, <1>2

\* A search backwards for a string returns its position, or the end if it found nothing.
LEMMA LastFound ==
  ASSUME NEW n \in Nat, NEW S, S \subseteq 0 .. n, NEW last, last \notin S
  PROVE  FoundBefore(GreatestOr(S, last), last) = GreatestOr(S, Npos)
<1>1. CASE S = {}
  BY <1>1 DEF FoundBefore, GreatestOr
<1>2. CASE S # {}
  <2>1. S \subseteq Nat
    OBVIOUS
  <2>2. PICK i \in S : \A j \in S : i >= j
    BY <1>2, GreatestAre
  <2>3. GreatestOr(S, last) = i /\ GreatestOr(S, Npos) = i
    BY <2>1, <2>2, GreatestIs
  <2>4. QED
    BY <2>3 DEF FoundBefore
<1>3. QED
  BY <1>1, <1>2

\* A search backwards for a character returns the base of its position, which is one more,
\* or 0 if it found nothing.
LEMMA LastBaseFound ==
  ASSUME NEW n \in Nat, NEW S, S \subseteq 0 .. n, NEW B, B \subseteq 1 .. n + 1,
         \A i \in Nat : i \in S <=> i + 1 \in B
  PROVE  FoundBase(GreatestOr(B, 0)) = GreatestOr(S, Npos)
<1>1. CASE S = {}
  <2>1. B = {}
    <3>1. ASSUME NEW i \in B PROVE FALSE
      <4>1. i - 1 \in Nat /\ i - 1 + 1 = i
        OBVIOUS
      <4>2. QED
        BY <1>1, <4>1
    <3>2. QED
      BY <3>1
  <2>2. QED
    BY <1>1, <2>1 DEF FoundBase, GreatestOr
<1>2. CASE S # {}
  <2>1. S \subseteq Nat /\ B \subseteq Nat
    OBVIOUS
  <2>2. PICK i \in S : \A j \in S : i >= j
    BY <1>2, GreatestAre
  <2>3. i \in Nat /\ i + 1 \in B
    OBVIOUS
  <2>4. \A j \in B : i + 1 >= j
    <3>1. SUFFICES ASSUME NEW j \in B PROVE i + 1 >= j
      OBVIOUS
    <3>2. j \in Nat /\ j - 1 \in Nat /\ j - 1 + 1 = j
      OBVIOUS
    <3>3. j - 1 \in S
      BY <3>2
    <3>4. QED
      BY <2>2, <2>3, <3>2, <3>3
  <2>5. GreatestOr(S, Npos) = i /\ GreatestOr(B, 0) = i + 1
    BY <2>1, <2>2, <2>3, <2>4, GreatestIs
  <2>6. QED
    BY <2>3, <2>5 DEF FoundBase
<1>3. QED
  BY <1>1, <1>2

\* find finds the first place from pos on where the whole pattern is.
LEMMA FindAgrees ==
  ASSUME Npos \in Nat, NEW s \in Seq(Value), Len(s) <= Npos, NEW p \in Seq(Value), NEW pos \in Nat,
         pos + Len(p) <= Npos
  PROVE  Find(s, p, pos) = Least({i \in Occurrences(s, p) \cap {i \in SizeType : i >= pos} : i < Len(s)})
<1> DEFINE S == {i \in pos .. Len(s) : OccursAt(s, i, p, Len(s))}
           T == {i \in S : i < Len(s)}
<1>1. Len(s) \in Nat /\ Len(p) \in Nat
  OBVIOUS
<1>2. {i \in Occurrences(s, p) \cap {i \in SizeType : i >= pos} : i < Len(s)} = T
  BY <1>1 DEF Occurrences, SizeType
<1>3. (pos + Len(p)) % (Npos + 1) = pos + Len(p)
  BY <1>1
<1>4. CASE pos + Len(p) > Len(s)
  <2>1. T = {}
    BY <1>1, <1>4 DEF OccursAt
  <2>2. QED
    BY <1>2, <1>3, <1>4, <2>1 DEF Find, Least, LeastOr
<1>5. CASE pos + Len(p) <= Len(s)
  <2>1. Find(s, p, pos) = FoundBefore(LeastOr(S, Len(s)), Len(s))
    BY <1>1, <1>3, <1>5 DEF Find, SearchIn
  <2>2. S \subseteq 0 .. Len(s)
    BY <1>1
  <2> HIDE DEF S
  <2>3. QED
    BY <1>1, <1>2, <2>1, <2>2, FirstFound DEF Least
<1>6. QED
  BY <1>1, <1>4, <1>5

\* A search forwards for one of some characters finds the first from pos on.
LEMMA FindInAgrees ==
  ASSUME Npos \in Nat, NEW s \in Seq(Value), Len(s) <= Npos, NEW chars, NEW pos \in Nat, pos <= Len(s)
  PROVE  FoundBefore(FindIn(s, pos, Len(s), chars), Len(s))
           = Least(Places(s, chars) \cap {i \in SizeType : i >= pos})
<1> DEFINE S == {i \in pos .. Len(s) - 1 : s[i + 1] \in chars}
<1>1. Len(s) \in Nat
  OBVIOUS
<1>2. Places(s, chars) \cap {i \in SizeType : i >= pos} = S
  BY <1>1 DEF Places, Positions, SizeType
<1>3. S \subseteq 0 .. Len(s) /\ {i \in S : i < Len(s)} = S
  BY <1>1
<1>4. FindIn(s, pos, Len(s), chars) = LeastOr(S, Len(s))
  BY DEF FindIn
<1> HIDE DEF S
<1>5. QED
  BY <1>1, <1>2, <1>3, <1>4, FirstFound DEF Least

\* There is no character from the end on.
LEMMA NoneBehind ==
  ASSUME NEW s \in Seq(Value), NEW chars, NEW pos \in Nat, pos >= Len(s)
  PROVE  Least(Places(s, chars) \cap {i \in SizeType : i >= pos}) = Npos
<1>1. Places(s, chars) \cap {i \in SizeType : i >= pos} = {}
  BY Len(s) \in Nat DEF Places, Positions
<1>2. QED
  BY <1>1 DEF Least, LeastOr

\* Every search forwards finds the first place from pos on.
LEMMA FindsFirstHolds ==
  ASSUME Npos \in Nat, NEW s \in Seq(Value), Len(s) <= Npos, NEW p \in Seq(Value), NEW pos \in Nat
  PROVE  FindsFirst(s, p, pos)
<1> DEFINE from == {i \in SizeType : i >= pos}
<1>1. pos + Len(p) <= Npos => Find(s, p, pos) = Least({i \in Occurrences(s, p) \cap from : i < Len(s)})
  BY FindAgrees
<1>2. ASSUME NEW chars
      PROVE  /\ pos <= Len(s) => FoundBefore(FindIn(s, pos, Len(s), chars), Len(s)) = Least(Places(s, chars) \cap from)
             /\ pos >= Len(s) => Least(Places(s, chars) \cap from) = Npos
             /\ Len(s) \in Nat
  BY FindInAgrees, NoneBehind
<1> HIDE DEF from
<1>3. FindFirstOf(s, p, pos) = Least(Places(s, Characters(p)) \cap from)
  <2> DEFINE chars == Characters(p)
  <2>1. /\ pos <= Len(s) => FoundBefore(FindIn(s, pos, Len(s), chars), Len(s)) = Least(Places(s, chars) \cap from)
        /\ pos >= Len(s) => Least(Places(s, chars) \cap from) = Npos
        /\ Len(s) \in Nat
    BY <1>2
  <2> HIDE DEF from
  <2>2. CASE pos <= Len(s)
    BY <2>1, <2>2 DEF FindFirstOf
  <2>3. CASE pos > Len(s)
    BY <2>1, <2>3 DEF FindFirstOf
  <2>4. QED
    BY <2>1, <2>2, <2>3
<1>4. FindFirstNotOf(s, p, pos) = Least(Places(s, Value \ Characters(p)) \cap from)
  <2> DEFINE chars == Value \ Characters(p)
  <2>1. /\ pos <= Len(s) => FoundBefore(FindIn(s, pos, Len(s), chars), Len(s)) = Least(Places(s, chars) \cap from)
        /\ pos >= Len(s) => Least(Places(s, chars) \cap from) = Npos
        /\ Len(s) \in Nat
    BY <1>2
  <2> HIDE DEF from
  <2>2. CASE pos <= Len(s)
    BY <2>1, <2>2 DEF FindFirstNotOf
  <2>3. CASE pos > Len(s)
    BY <2>1, <2>3 DEF FindFirstNotOf
  <2>4. QED
    BY <2>1, <2>2, <2>3
<1>5. ASSUME NEW c \in Value PROVE FindChar(s, c, pos) = Least(Places(s, {c}) \cap from)
  <2>1. /\ pos <= Len(s) => FoundBefore(FindIn(s, pos, Len(s), {c}), Len(s)) = Least(Places(s, {c}) \cap from)
        /\ pos >= Len(s) => Least(Places(s, {c}) \cap from) = Npos
        /\ Len(s) \in Nat
    BY <1>2
  <2> HIDE DEF from
  <2>2. CASE pos >= Len(s)
    BY <2>1, <2>2 DEF FindChar
  <2>3. CASE pos < Len(s)
    BY <2>1, <2>3 DEF FindChar
  <2>4. QED
    BY <2>1, <2>2, <2>3
<1>6. QED
  BY <1>1, <1>3, <1>4, <1>5 DEF FindsFirst, from

\* rfind finds the last place up to pos where the whole pattern is.
LEMMA RFindAgrees ==
  ASSUME NEW s \in Seq(Value), NEW p \in Seq(Value), NEW pos \in Nat
  PROVE  RFind(s, p, pos) = Greatest(Occurrences(s, p) \cap 0 .. pos)
<1> DEFINE S == Occurrences(s, p) \cap 0 .. pos
<1>1. Len(s) \in Nat /\ Len(p) \in Nat
  OBVIOUS
<1>2. CASE Len(p) > Len(s)
  <2>1. S = {}
    BY <1>1, <1>2 DEF Occurrences, OccursAt
  <2>2. QED
    BY <1>2, <2>1 DEF RFind, Greatest, GreatestOr
<1>3. CASE Len(p) = 0
  <2> DEFINE m == Smallest(Len(s), pos)
  <2>1. m \in Nat /\ m <= Len(s) /\ m <= pos /\ (m = Len(s) \/ m = pos)
    BY <1>1 DEF Smallest
  <2>2. RFind(s, p, pos) = m
    BY <1>1, <1>3 DEF RFind
  <2> HIDE DEF m
  <2>3. \A i \in 0 .. Len(s) : SubSeq(s, i + 1, i + Len(p)) = p
    <3>1. p = << >>
      BY <1>3
    <3>2. SUFFICES ASSUME NEW i \in 0 .. Len(s) PROVE SubSeq(s, i + 1, i) = << >>
      BY <1>3, <3>1
    <3>3. QED
      BY <1>1
  <2>4. m \in S /\ \A j \in S : m >= j
    BY <1>1, <1>3, <2>1, <2>3 DEF Occurrences, OccursAt
  <2>5. S \subseteq Nat
    BY DEF Occurrences
  <2> HIDE DEF S
  <2>6. QED
    BY <2>2, <2>4, <2>5, GreatestIs DEF Greatest, S
<1>4. CASE Len(p) <= Len(s) /\ Len(p) # 0
  <2> DEFINE m == Smallest(Len(s) - Len(p), pos)
             last == m + Len(p)
  <2>1. m \in Nat /\ m + Len(p) <= Len(s) /\ m <= pos /\ (m + Len(p) = Len(s) \/ m = pos)
    BY <1>1, <1>4 DEF Smallest
  <2>2. RFind(s, p, pos) = FoundBefore(FindEndIn(s, last, p), last)
    BY <1>1, <1>4 DEF RFind
  <2> HIDE DEF m
  <2>3. {i \in 0 .. last : OccursAt(s, i, p, last)} = S
    BY <1>1, <1>4, <2>1 DEF Occurrences, OccursAt
  <2>4. last \notin S
    BY <1>1, <1>4, <2>1, <2>3 DEF OccursAt
  <2>5. S \subseteq 0 .. pos
    OBVIOUS
  <2>6. FindEndIn(s, last, p) = GreatestOr(S, last)
    BY <2>3 DEF FindEndIn
  <2> HIDE DEF S, last
  <2>7. FoundBefore(GreatestOr(S, last), last) = GreatestOr(S, Npos)
    BY <2>4, <2>5, LastFound
  <2>8. QED
    BY <2>2, <2>6, <2>7 DEF Greatest, S
<1>5. QED
  BY <1>1, <1>2, <1>3, <1>4

\* A search backwards for one of some characters finds the last up to pos.
LEMMA FindLastAgrees ==
  ASSUME NEW s \in Seq(Value), NEW chars, NEW pos \in Nat
  PROVE  FindLast(s, chars, pos) = Greatest(Places(s, chars) \cap 0 .. pos)
<1> DEFINE S == Places(s, chars) \cap 0 .. pos
           m == Smallest(Len(s) - 1, pos)
           B == {i \in 1 .. m + 1 : s[i] \in chars}
<1>1. Len(s) \in Nat
  OBVIOUS
<1>2. CASE Len(s) < 1
  <2>1. S = {}
    BY <1>1, <1>2 DEF Places, Positions
  <2>2. QED
    BY <1>2, <2>1 DEF FindLast, Greatest, GreatestOr
<1>3. CASE Len(s) >= 1
  <2>1. m \in Nat /\ m <= Len(s) - 1 /\ m <= pos /\ (m = Len(s) - 1 \/ m = pos)
    BY <1>1, <1>3 DEF Smallest
  <2>2. FindLast(s, chars, pos) = FoundBase(GreatestOr(B, 0))
    BY <1>1, <1>3 DEF FindLast, ReverseFindIn
  <2> HIDE DEF m
  <2>3. S \subseteq 0 .. m /\ B \subseteq 1 .. m + 1
    BY <1>1, <2>1 DEF Places, Positions
  <2>4. \A i \in Nat : i \in S <=> i + 1 \in B
    BY <1>1, <2>1 DEF Places, Positions
  <2> HIDE DEF S, B
  <2>5. QED
    BY <2>1, <2>2, <2>3, <2>4, LastBaseFound DEF Greatest, S
<1>4. QED
  BY <1>1, <1>2, <1>3

\* Every search backwards finds the last place up to pos.
LEMMA FindsLastHolds ==
  ASSUME NEW s \in Seq(Value), NEW p \in Seq(Value), NEW pos \in Nat
  PROVE  FindsLast(s, p, pos)
<1>1. RFind(s, p, pos) = Greatest(Occurrences(s, p) \cap 0 .. pos)
  BY RFindAgrees
<1>2. FindLastOf(s, p, pos) = Greatest(Places(s, Characters(p)) \cap 0 .. pos)
  BY FindLastAgrees DEF FindLastOf
<1>3. FindLastNotOf(s, p, pos) = Greatest(Places(s, Value \ Characters(p)) \cap 0 .. pos)
  BY FindLastAgrees DEF FindLastNotOf
<1>4. ASSUME NEW c \in Value PROVE RFindChar(s, c, pos) = Greatest(Places(s, {c}) \cap 0 .. pos)
  BY FindLastAgrees DEF RFindChar
<1>5. QED
  BY <1>1, <1>2, <1>3, <1>4 DEF FindsLast

\* The first n characters of a string
LEMMA PrefixAre ==
  ASSUME NEW t \in Seq(Value), NEW n \in 0 .. Len(t)
  PROVE  /\ SubSeq(t, 1, n) \in Seq(Value) /\ Len(SubSeq(t, 1, n)) = n
         /\ \A k \in 1 .. n : SubSeq(t, 1, n)[k] = t[k]
OBVIOUS

\* compare finds the first difference, and else goes by the lengths.
LEMMA ComparesHolds ==
  ASSUME \A c \in Value : ~ CharLess(c, c), NEW s \in Seq(Value), NEW t \in Seq(Value)
  PROVE  Compares(s, t)
<1> DEFINE n == Smallest(Len(s), Len(t))
           D == {k \in 1 .. n : s[k] # t[k]}
           i == LeastOr(D, 0)
<1>1. Len(s) \in Nat /\ Len(t) \in Nat /\ n \in Nat /\ n <= Len(s) /\ n <= Len(t) /\ (n = Len(s) \/ n = Len(t))
  BY DEF Smallest
<1>2. DOMAIN s \cap DOMAIN t = 1 .. n
  BY <1>1
<1>3. Compare(s, t) = LET cmp == IF i = 0 THEN "equal" ELSE IF CharLess(s[i], t[i]) THEN "less" ELSE "greater"
                      IN  IF cmp # "equal" THEN cmp
                          ELSE IF Len(s) < Len(t) THEN "less" ELSE IF Len(s) > Len(t) THEN "greater" ELSE "equal"
  BY DEF Compare, CompareN
<1> HIDE DEF n
<1>4. CASE D = {}
  <2>1. i = 0
    BY <1>4 DEF LeastOr
  <2>2. \A k \in 1 .. n : s[k] = t[k] /\ s[k] \in Value
    BY <1>1, <1>4
  <2>3. ~ \E k \in DOMAIN s \cap DOMAIN t : SubSeq(s, 1, k - 1) = SubSeq(t, 1, k - 1) /\ CharLess(s[k], t[k])
    BY <1>2, <2>2
  <2>4. Len(s) = Len(t) => s = t
    BY <1>1, <2>2
  <2>5. s = t => Len(s) = Len(t)
    OBVIOUS
  <2>6. Len(s) < Len(t) => Prefix(s, t)
    <3>1. SUFFICES ASSUME Len(s) < Len(t) PROVE Prefix(s, t)
      OBVIOUS
    <3> DEFINE f == SubSeq(t, 1, Len(s))
    <3>2. f \in Seq(Value) /\ Len(f) = Len(s) /\ \A k \in 1 .. Len(s) : f[k] = t[k]
      BY <1>1, <3>1, PrefixAre
    <3>3. \A k \in 1 .. Len(s) : t[k] = s[k]
      BY <1>1, <2>2, <3>1
    <3> HIDE DEF f
    <3>4. f = s
      BY <1>1, <3>2, <3>3
    <3>5. SubSeq(t, 1, Len(s)) = s
      BY <3>4 DEF f
    <3>6. Len(s) <= Len(t)
      BY <1>1, <3>1
    <3>7. QED
      BY <3>5, <3>6 DEF Prefix
  <2>7. Len(s) > Len(t) => ~ Prefix(s, t)
    BY <1>1 DEF Prefix
  <2>a. Before(s, t) <=> Prefix(s, t) /\ s # t
    BY <2>3 DEF Before
  <2>b. Compare(s, t) = IF Len(s) < Len(t) THEN "less" ELSE IF Len(s) > Len(t) THEN "greater" ELSE "equal"
    BY <1>3, <2>1
  <2> HIDE DEF i, D
  <2>8. CASE Len(s) < Len(t)
    <3>1. s # t /\ Before(s, t) /\ Compare(s, t) = "less"
      BY <2>5, <2>6, <2>8, <2>a, <2>b, <1>1
    <3>2. QED
      BY <3>1 DEF Compares
  <2>9. CASE Len(s) > Len(t)
    <3>1. s # t /\ ~ Before(s, t) /\ Compare(s, t) = "greater"
      BY <2>5, <2>7, <2>9, <2>a, <2>b, <1>1
    <3>2. QED
      BY <3>1 DEF Compares
  <2>10. CASE Len(s) = Len(t)
    <3>1. s = t
      BY <2>4, <2>10
    <3>2. ~ (Len(s) < Len(t)) /\ ~ (Len(s) > Len(t))
      BY <1>1, <2>10
    <3>3. Compare(s, t) = "equal"
      BY <2>b, <3>2
    <3>4. QED
      BY <3>1, <3>3 DEF Compares
  <2>11. Len(s) < Len(t) \/ Len(s) > Len(t) \/ Len(s) = Len(t)
    BY <1>1
  <2>12. QED
    BY <2>8, <2>9, <2>10, <2>11
<1>5. CASE D # {}
  <2>1. D \subseteq Nat
    BY <1>1
  <2>2. PICK k \in D : \A j \in D : k <= j
    BY <1>5, <2>1, LeastAre
  <2>3. i = k
    BY <2>1, <2>2, LeastIs
  <2>4. k \in 1 .. n /\ s[k] # t[k] /\ \A j \in 1 .. n : j < k => s[j] = t[j] /\ s[j] \in Value
    <3>1. k \in 1 .. n /\ s[k] # t[k]
      OBVIOUS
    <3>2. ASSUME NEW j \in 1 .. n, j < k PROVE s[j] = t[j] /\ s[j] \in Value
      <4>1. j \notin D
        BY <1>1, <2>2, <3>1, <3>2
      <4>2. QED
        BY <1>1, <4>1
    <3>3. QED
      BY <3>1, <3>2
  <2> HIDE DEF i, D
  <2>5. s # t
    BY <2>4
  <2>6. ~ Prefix(s, t)
    <3>1. SUFFICES ASSUME Len(s) <= Len(t), SubSeq(t, 1, Len(s)) = s PROVE FALSE
      BY DEF Prefix
    <3>2. k \in 1 .. Len(s)
      BY <1>1, <2>4
    <3>3. SubSeq(t, 1, Len(s))[k] = t[k]
      <4>a. Len(s) <= Len(t)
        BY <3>1, Zenon
      <4>1. Len(s) \in 0 .. Len(t)
        BY <1>1, <4>a
      <4>2. \A j \in 1 .. Len(s) : SubSeq(t, 1, Len(s))[j] = t[j]
        BY <4>1, PrefixAre
      <4>3. QED
        BY <3>2, <4>2
    <3>4. QED
      BY <2>4, <3>1, <3>3
  <2>7. SubSeq(s, 1, k - 1) = SubSeq(t, 1, k - 1)
    <3> DEFINE f == SubSeq(s, 1, k - 1)
               g == SubSeq(t, 1, k - 1)
    <3>1. f \in Seq(Value) /\ g \in Seq(Value) /\ Len(f) = k - 1 /\ Len(g) = k - 1
          /\ \A j \in 1 .. k - 1 : f[j] = s[j] /\ g[j] = t[j]
      BY <1>1, <2>4
    <3>2. \A j \in 1 .. k - 1 : s[j] = t[j]
      BY <1>1, <2>4
    <3> HIDE DEF f, g
    <3>3. \A j \in 1 .. Len(f) : f[j] = g[j]
      BY <3>1, <3>2
    <3>4. f = g
      BY <3>1, <3>3
    <3>5. QED
      BY <3>4 DEF f, g
  <2>8. CharLess(s[k], t[k]) => Before(s, t)
    BY <1>2, <2>4, <2>7 DEF Before
  <2>9. Before(s, t) => CharLess(s[k], t[k])
    <3>1. SUFFICES ASSUME Before(s, t) PROVE CharLess(s[k], t[k])
      OBVIOUS
    <3>2. PICK j \in 1 .. n : SubSeq(s, 1, j - 1) = SubSeq(t, 1, j - 1) /\ CharLess(s[j], t[j])
      BY <1>2, <2>6, <3>1 DEF Before
    <3>3. ~ (j < k)
      BY <2>4, <3>2
    <3>4. ~ (k < j)
      <4>1. SUFFICES ASSUME k < j PROVE FALSE
        OBVIOUS
      <4>2. k \in 1 .. j - 1 /\ j - 1 <= Len(s) /\ j - 1 <= Len(t) /\ j - 1 \in Nat
        BY <1>1, <2>4, <4>1
      <4>3. SubSeq(s, 1, j - 1)[k] = s[k] /\ SubSeq(t, 1, j - 1)[k] = t[k]
        BY <1>1, <4>2
      <4>4. QED
        BY <2>4, <3>2, <4>3
    <3>5. j = k
      BY <1>1, <2>4, <3>3, <3>4
    <3>6. QED
      BY <3>2, <3>5
  <2>10. k # 0
    BY <1>1, <2>4
  <2>11. QED
    BY <1>3, <2>3, <2>5, <2>8, <2>9, <2>10 DEF Compares
<1>6. QED
  BY <1>4, <1>5

-----------------------------------------------------------------------------
(* Lengths, which searches depend on                                        *)

\* No string is longer than its clients make it.
Bounded == \A x \in Strings : Size(x) <= MaxLength

\* The last call was one that, if it is done as it says, leaves no string that is longer.
Fits ==
    \/ call'.op = "swap" /\ call'.on \in Strings /\ call'.from \in Strings
    \/ /\ call'.op = "replace" /\ call'.on \in Strings
       /\ call'.from \in 0 .. Size(call'.on) /\ call'.to \in 0 .. Size(call'.on) /\ call'.from <= call'.to
       /\ call'.values \in Seq(Value)
       /\ Size(call'.on) - (call'.to - call'.from) + Len(call'.values) <= MaxLength

\* A call that replaces a range of a string
LEMMA FinishFits ==
  ASSUME NEW x \in Strings, NEW from \in 0 .. Size(x), NEW to \in 0 .. Size(x), from <= to,
         NEW values \in Seq(Value), Size(x) - (to - from) + Len(values) <= MaxLength, NEW strong, NEW m,
         Finish(x, m, Replaces(from, to, values, strong))
  PROVE  Fits
<1> DEFINE c == Replaces(from, to, values, strong)
<1>1. c.from = from /\ c.to = to /\ c.values = values
  BY DEF Replaces
<1>2. call' = [op |-> "replace", on |-> x, turn |-> 1 - call.turn, threw |-> m.threw,
               from |-> c.from, to |-> c.to, values |-> c.values, strong |-> c.strong]
  BY DEF Finish
<1>3. call'.op = "replace" /\ call'.on = x /\ call'.from = from /\ call'.to = to /\ call'.values = values
  BY <1>1, <1>2
<1>4. QED
  BY <1>3 DEF Fits

\* The calls that append, insert and remove one character or n of them
LEMMA CharacterFits ==
  ASSUME StringParameters, Bounded, NEW x \in Strings, Size(x) \in Nat, NEW c \in Value, NEW n \in 0 .. MaxLength,
         \/ CallResize(x, n, c) \/ CallAssignFill(x, n, c) \/ CallReserve(x, n)
         \/ Size(x) + n <= MaxLength /\ CallAppendFill(x, n, c)
         \/ Size(x) < MaxLength /\ CallPushBack(x, c)
         \/ \E pos \in 0 .. Size(x) :
              /\ Size(x) + n <= MaxLength
              /\ CallInsertAll(x, pos, Times(n, c)) \/ (n = 1 /\ CallInsert(x, pos, c))
  PROVE  Fits
<1>1. n \in Nat /\ MaxLength \in Nat /\ Size(x) <= MaxLength
  BY DEF StringParameters, Bounded
<1>2. Times(n, c) \in Seq(Value) /\ Len(Times(n, c)) = n
  BY <1>1, TimesAre
<1>3. << >> \in Seq(Value) /\ Len(<< >>) = 0 /\ << c >> \in Seq(Value) /\ Len(<< c >>) = 1
  OBVIOUS
<1>4. CASE CallResize(x, n, c)
  <2>1. CASE n <= Size(x)
    <3>1. \E m : Finish(x, m, Replaces(n, Size(x), << >>, TRUE))
      BY <1>4, <2>1 DEF CallResize, Call
    <3>2. n \in 0 .. Size(x) /\ Size(x) \in 0 .. Size(x) /\ Size(x) - (Size(x) - n) + 0 <= MaxLength
      BY <1>1, <2>1
    <3>3. QED
      BY <1>3, <2>1, <3>1, <3>2, FinishFits
  <2>2. CASE ~ (n <= Size(x))
    <3>1. PICK k \in Nat : k = n - Size(x)
      BY <1>1, <2>2
    <3>2. \E m : Finish(x, m, Replaces(Size(x), Size(x), Times(k, c), TRUE))
      BY <1>4, <2>2, <3>1 DEF CallResize, Call
    <3>3. Times(k, c) \in Seq(Value) /\ Len(Times(k, c)) = k
      BY TimesAre
    <3>4. Size(x) \in 0 .. Size(x) /\ Size(x) <= Size(x) /\ Size(x) - (Size(x) - Size(x)) + k <= MaxLength
      BY <1>1, <3>1
    <3>5. QED
      BY <3>2, <3>3, <3>4, FinishFits
  <2>3. QED
    BY <2>1, <2>2
<1>5. CASE CallAssignFill(x, n, c)
  <2>1. \E m : Finish(x, m, Replaces(0, Size(x), Times(n, c), FALSE))
    BY <1>5 DEF CallAssignFill, Call
  <2>2. 0 \in 0 .. Size(x) /\ Size(x) \in 0 .. Size(x) /\ 0 <= Size(x) /\ Size(x) - (Size(x) - 0) + n <= MaxLength
    BY <1>1
  <2>3. QED
    BY <1>2, <2>1, <2>2, FinishFits
<1>6. CASE CallReserve(x, n)
  <2>1. \E m : Finish(x, m, Replaces(Size(x), Size(x), << >>, TRUE))
    BY <1>6 DEF CallReserve, Call
  <2>2. Size(x) \in 0 .. Size(x) /\ Size(x) <= Size(x) /\ Size(x) - (Size(x) - Size(x)) + 0 <= MaxLength
    BY <1>1
  <2>3. QED
    BY <1>3, <2>1, <2>2, FinishFits
<1>7. CASE Size(x) + n <= MaxLength /\ CallAppendFill(x, n, c)
  <2>1. \E m : Finish(x, m, Replaces(Size(x), Size(x), Times(n, c), TRUE))
    BY <1>7 DEF CallAppendFill, Call
  <2>2. Size(x) \in 0 .. Size(x) /\ Size(x) <= Size(x) /\ Size(x) - (Size(x) - Size(x)) + n <= MaxLength
    BY <1>1, <1>7
  <2>3. QED
    BY <1>2, <2>1, <2>2, FinishFits
<1>8. CASE Size(x) < MaxLength /\ CallPushBack(x, c)
  <2>1. \E m : Finish(x, m, Replaces(Size(x), Size(x), << c >>, TRUE))
    BY <1>8 DEF CallPushBack, Call
  <2>2. Size(x) \in 0 .. Size(x) /\ Size(x) <= Size(x) /\ Size(x) - (Size(x) - Size(x)) + 1 <= MaxLength
    BY <1>1, <1>8
  <2>3. QED
    BY <1>3, <2>1, <2>2, FinishFits
<1>9. CASE \E pos \in 0 .. Size(x) : Size(x) + n <= MaxLength /\ CallInsertAll(x, pos, Times(n, c))
  <2>1. PICK pos \in 0 .. Size(x) : Size(x) + n <= MaxLength /\ CallInsertAll(x, pos, Times(n, c))
    BY <1>9
  <2>2. \E m : Finish(x, m, Replaces(pos, pos, Times(n, c), TRUE))
    BY <2>1 DEF CallInsertAll, Call
  <2>3. pos <= pos /\ Size(x) - (pos - pos) + n <= MaxLength
    BY <1>1, <2>1
  <2>4. QED
    BY <1>2, <2>2, <2>3, FinishFits
<1>10. CASE \E pos \in 0 .. Size(x) : Size(x) + n <= MaxLength /\ n = 1 /\ CallInsert(x, pos, c)
  <2>1. PICK pos \in 0 .. Size(x) : Size(x) + 1 <= MaxLength /\ CallInsert(x, pos, c)
    BY <1>10
  <2>2. \E m : Finish(x, m, Replaces(pos, pos, << c >>, TRUE))
    BY <2>1 DEF CallInsert, Call
  <2>3. pos <= pos /\ Size(x) - (pos - pos) + 1 <= MaxLength
    BY <1>1, <2>1
  <2>4. QED
    BY <1>3, <2>2, <2>3, FinishFits
<1>11. QED
  BY <1>4, <1>5, <1>6, <1>7, <1>8, <1>9, <1>10

\* The calls on a range of a string, with n times a character, or none
LEMMA RangeFits ==
  ASSUME StringParameters, Bounded, NEW x \in Strings, Size(x) \in Nat,
         NEW from \in 0 .. Size(x), NEW to \in 0 .. Size(x), from <= to,
         \/ CallErase(x, from, to) \/ CallClear(x) \/ CallPopBack(x)
         \/ \E c \in Value : \E n \in 0 .. MaxLength - Size(x) + to - from : CallReplace(x, from, to, Times(n, c))
  PROVE  Fits
<1>1. MaxLength \in Nat /\ Size(x) <= MaxLength
  BY DEF StringParameters, Bounded
<1>2. << >> \in Seq(Value) /\ Len(<< >>) = 0
  OBVIOUS
<1>3. CASE CallErase(x, from, to)
  <2>1. \E m : Finish(x, m, Replaces(from, to, << >>, TRUE))
    BY <1>3 DEF CallErase, Call
  <2>2. Size(x) - (to - from) + 0 <= MaxLength
    BY <1>1
  <2>3. QED
    BY <1>2, <2>1, <2>2, FinishFits
<1>4. CASE CallClear(x)
  <2>1. \E m : Finish(x, m, Replaces(0, Size(x), << >>, TRUE))
    BY <1>4 DEF CallClear, Call
  <2>2. 0 \in 0 .. Size(x) /\ Size(x) \in 0 .. Size(x) /\ 0 <= Size(x) /\ Size(x) - (Size(x) - 0) + 0 <= MaxLength
    BY <1>1
  <2>3. QED
    BY <1>2, <2>1, <2>2, FinishFits
<1>5. CASE CallPopBack(x)
  <2>1. Size(x) > 0 /\ \E m : Finish(x, m, Replaces(Size(x) - 1, Size(x), << >>, TRUE))
    BY <1>5 DEF CallPopBack, Call
  <2>2. /\ Size(x) - 1 \in 0 .. Size(x) /\ Size(x) \in 0 .. Size(x) /\ Size(x) - 1 <= Size(x)
        /\ Size(x) - (Size(x) - (Size(x) - 1)) + 0 <= MaxLength
    BY <1>1, <2>1
  <2>3. QED
    BY <1>2, <2>1, <2>2, FinishFits
<1>6. CASE \E c \in Value : \E n \in 0 .. MaxLength - Size(x) + to - from : CallReplace(x, from, to, Times(n, c))
  <2>1. PICK c \in Value, n \in 0 .. MaxLength - Size(x) + to - from : CallReplace(x, from, to, Times(n, c))
    BY <1>6
  <2>2. n \in Nat /\ Size(x) - (to - from) + n <= MaxLength
    BY <1>1
  <2>3. Times(n, c) \in Seq(Value) /\ Len(Times(n, c)) = n
    BY <2>2, TimesAre
  <2>4. \E m : Finish(x, m, Replaces(from, to, Times(n, c), FALSE))
    BY <2>1 DEF CallReplace, Call
  <2>5. QED
    BY <2>2, <2>3, <2>4, FinishFits
<1>7. QED
  BY <1>3, <1>4, <1>5, <1>6

\* The calls with a part of a string
LEMMA PartFits ==
  ASSUME StringParameters, Bounded, NEW x \in Strings, Size(x) \in Nat, NEW values \in Seq(Value), Len(values) <= MaxLength,
         \/ CallAssign(x, values) \/ CallConstruct(x, values)
         \/ /\ Size(x) + Len(values) <= MaxLength
            /\ \/ CallAppend(x, values)
               \/ \E pos \in 0 .. Size(x) : CallInsertAll(x, pos, values)
               \/ \E pos, end \in 0 .. Size(x) : pos <= end /\ CallReplace(x, pos, end, values)
  PROVE  Fits
<1>1. MaxLength \in Nat /\ Size(x) <= MaxLength /\ Len(values) \in Nat
  BY DEF StringParameters, Bounded
<1>2. /\ 0 \in 0 .. Size(x) /\ Size(x) \in 0 .. Size(x) /\ 0 <= Size(x) /\ Size(x) <= Size(x)
      /\ Size(x) - (Size(x) - 0) + Len(values) <= MaxLength
  BY <1>1
<1>3. CASE CallAssign(x, values)
  <2>1. \E m : Finish(x, m, Replaces(0, Size(x), values, FALSE))
    BY <1>3 DEF CallAssign, Call
  <2>2. QED
    BY <1>2, <2>1, FinishFits
<1>4. CASE CallConstruct(x, values)
  <2>1. \E m : Finish(x, m, Replaces(0, Size(x), values, TRUE))
    BY <1>4 DEF CallConstruct, Call
  <2>2. QED
    BY <1>2, <2>1, FinishFits
<1>5. CASE Size(x) + Len(values) <= MaxLength /\ CallAppend(x, values)
  <2>1. \E m : Finish(x, m, Replaces(Size(x), Size(x), values, TRUE))
    BY <1>5 DEF CallAppend, Call
  <2>2. Size(x) - (Size(x) - Size(x)) + Len(values) <= MaxLength
    BY <1>1, <1>5
  <2>3. QED
    BY <1>2, <2>1, <2>2, FinishFits
<1>6. CASE Size(x) + Len(values) <= MaxLength /\ \E pos \in 0 .. Size(x) : CallInsertAll(x, pos, values)
  <2>1. PICK pos \in 0 .. Size(x) : CallInsertAll(x, pos, values)
    BY <1>6
  <2>2. \E m : Finish(x, m, Replaces(pos, pos, values, TRUE))
    BY <2>1 DEF CallInsertAll, Call
  <2>3. pos <= pos /\ Size(x) - (pos - pos) + Len(values) <= MaxLength
    BY <1>1, <1>6
  <2>4. QED
    BY <2>2, <2>3, FinishFits
<1>7. CASE /\ Size(x) + Len(values) <= MaxLength
           /\ \E pos, end \in 0 .. Size(x) : pos <= end /\ CallReplace(x, pos, end, values)
  <2>1. PICK pos \in 0 .. Size(x), end \in 0 .. Size(x) : pos <= end /\ CallReplace(x, pos, end, values)
    BY <1>7
  <2>2. \E m : Finish(x, m, Replaces(pos, end, values, FALSE))
    BY <2>1 DEF CallReplace, Call
  <2>3. Size(x) - (end - pos) + Len(values) <= MaxLength
    BY <1>1, <1>7, <2>1
  <2>4. QED
    BY <2>1, <2>2, <2>3, FinishFits
<1>8. QED
  BY <1>3, <1>4, <1>5, <1>6, <1>7

\* Every step is one of these calls.
LEMMA NextFits ==
  ASSUME StringParameters, IInv, Bounded, Next
  PROVE  Fits
<1>1. PICK x \in Strings :
        \/ \E c \in Value : \E n \in 0 .. MaxLength :
             \/ CallResize(x, n, c) \/ CallAssignFill(x, n, c)
             \/ Size(x) + n <= MaxLength /\ CallAppendFill(x, n, c)
             \/ \E pos \in 0 .. Size(x) :
                  /\ Size(x) + n <= MaxLength
                  /\ CallInsertAll(x, pos, Times(n, c)) \/ (n = 1 /\ CallInsert(x, pos, c))
        \/ \E c \in Value : Size(x) < MaxLength /\ CallPushBack(x, c)
        \/ \E n \in 0 .. MaxLength : CallReserve(x, n)
        \/ CallPopBack(x) \/ CallClear(x)
        \/ \E from, to \in 0 .. Size(x) :
             /\ from <= to
             /\ \/ CallErase(x, from, to)
                \/ CallConstruct(x, Part(x, from, to))
                \/ Size(x) + to - from <= MaxLength /\ CallAppend(x, Part(x, from, to))
                \/ \E c \in Value : \E n \in 0 .. MaxLength - Size(x) + to - from :
                     CallReplace(x, from, to, Times(n, c))
        \/ \E y \in Strings :
             \/ CallSwap(x, y)
             \/ \E from, to \in 0 .. Size(y) :
                  /\ x # y /\ from <= to
                  /\ \/ CallAssign(x, Part(y, from, to))
                     \/ CallConstruct(x, Part(y, from, to))
                     \/ /\ Size(x) + to - from <= MaxLength
                        /\ \/ CallAppend(x, Part(y, from, to))
                           \/ \E pos \in 0 .. Size(x) : CallInsertAll(x, pos, Part(y, from, to))
                           \/ \E pos, end \in 0 .. Size(x) :
                                pos <= end /\ CallReplace(x, pos, end, Part(y, from, to))
  BY DEF Next
<1>2. Size(x) \in Nat /\ MaxLength \in Nat /\ 0 \in 0 .. MaxLength
  BY CallBegins, 0 \in Nat DEF StringParameters
<1>3. CASE \E c \in Value : \E n \in 0 .. MaxLength :
             \/ CallResize(x, n, c) \/ CallAssignFill(x, n, c)
             \/ Size(x) + n <= MaxLength /\ CallAppendFill(x, n, c)
             \/ \E pos \in 0 .. Size(x) :
                  /\ Size(x) + n <= MaxLength
                  /\ CallInsertAll(x, pos, Times(n, c)) \/ (n = 1 /\ CallInsert(x, pos, c))
  <2>1. PICK c \in Value, n \in 0 .. MaxLength :
             \/ CallResize(x, n, c) \/ CallAssignFill(x, n, c)
             \/ Size(x) + n <= MaxLength /\ CallAppendFill(x, n, c)
             \/ \E pos \in 0 .. Size(x) :
                  /\ Size(x) + n <= MaxLength
                  /\ CallInsertAll(x, pos, Times(n, c)) \/ (n = 1 /\ CallInsert(x, pos, c))
    BY <1>3
  <2>2. QED
    BY <1>2, <2>1, CharacterFits
<1>4. CASE \E c \in Value : Size(x) < MaxLength /\ CallPushBack(x, c)
  BY <1>2, <1>4, CharacterFits
<1>5. CASE \E n \in 0 .. MaxLength : CallReserve(x, n)
  <2>1. PICK n \in 0 .. MaxLength : CallReserve(x, n)
    BY <1>5
  <2>2. \E m : Finish(x, m, Replaces(Size(x), Size(x), << >>, TRUE))
    BY <2>1 DEF CallReserve, Call
  <2>3. /\ Size(x) \in 0 .. Size(x) /\ Size(x) <= Size(x) /\ Size(x) - (Size(x) - Size(x)) + 0 <= MaxLength
        /\ << >> \in Seq(Value) /\ Len(<< >>) = 0
    BY <1>2 DEF Bounded
  <2>4. QED
    BY <2>2, <2>3, FinishFits
<1>6. CASE CallPopBack(x) \/ CallClear(x)
  <2>1. 0 \in 0 .. Size(x) /\ 0 <= 0
    BY <1>2
  <2>2. QED
    BY <1>2, <1>6, <2>1, RangeFits
<1>7. CASE \E from, to \in 0 .. Size(x) :
             /\ from <= to
             /\ \/ CallErase(x, from, to)
                \/ \E c \in Value : \E n \in 0 .. MaxLength - Size(x) + to - from :
                     CallReplace(x, from, to, Times(n, c))
  BY <1>2, <1>7, RangeFits
<1>8. CASE \E y \in Strings : CallSwap(x, y)
  <2>1. PICK y \in Strings : call' = [op |-> "swap", on |-> x, from |-> y, turn |-> 1 - call.turn]
    BY <1>8 DEF CallSwap
  <2>2. call'.op = "swap" /\ call'.on = x /\ call'.from = y
    BY <2>1
  <2>3. QED
    BY <2>2 DEF Fits
<1>9. CASE \E y \in Strings : \E from, to \in 0 .. Size(y) :
             /\ from <= to
             /\ \/ CallAssign(x, Part(y, from, to)) \/ CallConstruct(x, Part(y, from, to))
                \/ /\ Size(x) + to - from <= MaxLength
                   /\ \/ CallAppend(x, Part(y, from, to))
                      \/ \E pos \in 0 .. Size(x) : CallInsertAll(x, pos, Part(y, from, to))
                      \/ \E pos, end \in 0 .. Size(x) :
                           pos <= end /\ CallReplace(x, pos, end, Part(y, from, to))
  <2>1. PICK y \in Strings : \E from, to \in 0 .. Size(y) :
             /\ from <= to
             /\ \/ CallAssign(x, Part(y, from, to)) \/ CallConstruct(x, Part(y, from, to))
                \/ /\ Size(x) + to - from <= MaxLength
                   /\ \/ CallAppend(x, Part(y, from, to))
                      \/ \E pos \in 0 .. Size(x) : CallInsertAll(x, pos, Part(y, from, to))
                      \/ \E pos, end \in 0 .. Size(x) :
                           pos <= end /\ CallReplace(x, pos, end, Part(y, from, to))
    BY <1>9
  <2>2. PICK from \in 0 .. Size(y), to \in 0 .. Size(y) :
             /\ from <= to
             /\ \/ CallAssign(x, Part(y, from, to)) \/ CallConstruct(x, Part(y, from, to))
                \/ /\ Size(x) + to - from <= MaxLength
                   /\ \/ CallAppend(x, Part(y, from, to))
                      \/ \E pos \in 0 .. Size(x) : CallInsertAll(x, pos, Part(y, from, to))
                      \/ \E pos, end \in 0 .. Size(x) :
                           pos <= end /\ CallReplace(x, pos, end, Part(y, from, to))
    BY <2>1
  <2>3. Part(y, from, to) \in Seq(Value) /\ Len(Part(y, from, to)) = to - from
    BY <2>2, PartAre
  <2>4. Size(y) \in Nat /\ Size(y) <= MaxLength
    BY CallBegins, 0 \in Nat DEF Bounded
  <2>5. Len(Part(y, from, to)) <= MaxLength
    BY <1>2, <2>3, <2>4
  <2>6. Size(x) + to - from <= MaxLength => Size(x) + Len(Part(y, from, to)) <= MaxLength
    BY <1>2, <2>3, <2>4
  <2>7. QED
    BY <1>2, <2>2, <2>3, <2>5, <2>6, PartFits
<1>10. QED
  <2>1. CASE \E from, to \in 0 .. Size(x) :
             /\ from <= to
             /\ \/ CallConstruct(x, Part(x, from, to))
                \/ Size(x) + to - from <= MaxLength /\ CallAppend(x, Part(x, from, to))
    BY <1>9, <2>1
  <2>2. CASE \E y \in Strings : \E from, to \in 0 .. Size(y) :
                  /\ x # y /\ from <= to
                  /\ \/ CallAssign(x, Part(y, from, to))
                     \/ CallConstruct(x, Part(y, from, to))
                     \/ /\ Size(x) + to - from <= MaxLength
                        /\ \/ CallAppend(x, Part(y, from, to))
                           \/ \E pos \in 0 .. Size(x) : CallInsertAll(x, pos, Part(y, from, to))
                           \/ \E pos, end \in 0 .. Size(x) :
                                pos <= end /\ CallReplace(x, pos, end, Part(y, from, to))
    BY <1>9, <2>2
  <2>3. QED
    BY <1>1, <1>3, <1>4, <1>5, <1>6, <1>7, <1>8, <2>1, <2>2

\* A range of a string is replaced.
LEMMA SpliceLength ==
  ASSUME NEW s \in Seq(Value), NEW from \in 0 .. Len(s), NEW to \in 0 .. Len(s), from <= to, NEW values \in Seq(Value)
  PROVE  Len(Splice(s, from, to, values)) = Len(s) - (to - from) + Len(values)
<1> DEFINE f == SubSeq(s, 1, from)
           g == SubSeq(s, to + 1, Len(s))
<1>1. f \in Seq(Value) /\ g \in Seq(Value) /\ Len(f) = from /\ Len(g) = Len(s) - to
  OBVIOUS
<1>2. Splice(s, from, to, values) = (f \o values) \o g
  BY DEF Splice
<1> HIDE DEF f, g
<1>3. f \o values \in Seq(Value) /\ Len(f \o values) = Len(f) + Len(values) /\ Len(values) \in Nat /\ Len(s) \in Nat
  BY <1>1
<1>4. Len((f \o values) \o g) = Len(f \o values) + Len(g)
  BY <1>1, <1>3
<1>5. QED
  BY <1>1, <1>2, <1>3, <1>4

\* A call that fits leaves no string that is longer than MaxLength.
LEMMA BoundHolds ==
  ASSUME StringParameters, IInv, Bounded, Fits, IInv', Sequence!SequencesNext
  PROVE  Bounded'
<1>1. \A z \in Strings : /\ Content(string[z]) \in Seq(Value) /\ Len(Content(string[z])) = string[z].size
                         /\ string[z].size \in Nat /\ string[z].size <= MaxLength
  BY DEF IInv, Intact, Bounded, Size
<1>2. \A z \in Strings : Len(Content(string'[z])) = string'[z].size
  BY DEF IInv, Intact
<1>3. SUFFICES ASSUME NEW z \in Strings PROVE Len(Content(string'[z])) <= MaxLength
  BY <1>2 DEF Bounded, Size
<1>4. MaxLength \in Nat
  BY DEF StringParameters
<1>5. CASE call'.op = "swap"
  <2>1. call'.on \in Strings /\ call'.from \in Strings
    BY <1>5 DEF Fits
  <2>2. Content(string'[z]) = Content(string[IF z = call'.on THEN call'.from ELSE IF z = call'.from THEN call'.on ELSE z])
    BY <1>5, <2>1 DEF Sequence!SequencesNext
  <2>3. QED
    BY <1>1, <2>1, <2>2
<1>6. CASE call'.op # "swap" /\ z # call'.on
  <2>1. Content(string'[z]) = Content(string[z])
    BY <1>6 DEF Sequence!SequencesNext
  <2>2. QED
    BY <1>1, <2>1
<1>7. CASE call'.op # "swap" /\ z = call'.on
  <2> DEFINE s == Content(string[z])
             u == Content(string'[z])
             t == Splice(s, call'.from, call'.to, call'.values)
  <2>1. /\ call'.from \in 0 .. Len(s) /\ call'.to \in 0 .. Len(s) /\ call'.from <= call'.to
        /\ call'.values \in Seq(Value)
        /\ Len(s) - (call'.to - call'.from) + Len(call'.values) <= MaxLength
    BY <1>1, <1>7 DEF Fits, Size
  <2>2. Sequence!Effect(call', s, u)
    BY <1>7 DEF Sequence!SequencesNext
  <2>3. Sequence!Replaced(s, call') = t
    BY DEF Sequence!Replaced, Splice
  <2>4. Len(t) <= MaxLength /\ Len(s) <= MaxLength
    BY <1>1, <2>1, SpliceLength
  <2> HIDE DEF s, t, u
  <2>5. u = t \/ u = s \/ Len(u) <= Len(s) \/ Len(u) <= Len(t)
    BY <2>2, <2>3 DEF Sequence!Effect, Sequence!Basic
  <2>6. Len(u) \in Nat /\ Len(s) \in Nat /\ Len(t) \in Nat
    <3>1. Len(u) \in Nat
      BY DEF IInv, Intact, u
    <3>2. Len(s) \in Nat
      BY <1>1 DEF s
    <3>3. Len(t) \in Nat
      <4>1. s \in Seq(Value)
        BY <1>1 DEF s
      <4>2. Len(t) = Len(s) - (call'.to - call'.from) + Len(call'.values)
        BY <2>1, <4>1, SpliceLength DEF t
      <4>3. Len(call'.values) \in Nat
        BY <2>1
      <4>4. QED
        BY <2>1, <3>2, <4>2, <4>3
    <3>4. QED
      BY <3>1, <3>2, <3>3
  <2>7. Len(u) <= MaxLength
    BY <1>4, <2>4, <2>5, <2>6
  <2>8. QED
    BY <2>7 DEF u
<1>8. QED
  BY <1>5, <1>6, <1>7

\* Every search finds the first or the last place that there is, wherever it starts, and
\* compare orders strings as their first difference does, or else their lengths.
THEOREM StringSearchesAgree ==
  ASSUME SearchParameters
  PROVE  Spec => []SearchesAgree
<1>1. Init => IInv /\ Bounded
  <2>1. SUFFICES ASSUME Init PROVE Bounded
    BY InitHolds DEF SearchParameters
  <2>2. \A x \in Strings : string[x].size = 0
    BY <2>1 DEF Init
  <2>3. QED
    BY <2>2 DEF Bounded, Size, SearchParameters, StringParameters
<1>2. IInv /\ Bounded /\ [Next]_vars => IInv' /\ Bounded'
  <2>1. SUFFICES ASSUME IInv, Bounded, [Next]_vars PROVE IInv' /\ Bounded'
    OBVIOUS
  <2>2. CASE Next
    <3>1. StringParameters
      BY DEF SearchParameters
    <3>2. IInv' /\ Sequence!SequencesNext /\ Fits
      BY <2>1, <2>2, <3>1, NextHolds, NextFits
    <3>3. QED
      BY <2>1, <3>1, <3>2, BoundHolds
  <2>3. CASE UNCHANGED vars
    BY <2>1, <2>3, StutterHolds DEF Bounded, Size, vars
  <2>4. QED
    BY <2>1, <2>2, <2>3
<1>3. IInv /\ Bounded => SearchesAgree
  <2>1. SUFFICES ASSUME IInv, Bounded, NEW x \in Strings
        PROVE  LET s == Content(string[x]) IN
                 \A p \in Patterns : \A pos \in 0 .. Len(s) + 1 \union {Npos - 2, Npos} :
                   /\ FindsFirst(s, p, pos) /\ FindsLast(s, p, pos)
                   /\ pos <= Len(s) => \A n \in {0, 1, 2, Npos} : Compares(Substr(s, pos, n), p)
    BY DEF SearchesAgree
  <2> DEFINE s == Content(string[x])
  <2>2. s \in Seq(Value) /\ Len(s) \in Nat /\ Len(s) <= Npos /\ Npos \in Nat /\ Npos - 2 \in Nat
    <3>1. s \in Seq(Value) /\ Len(s) = string[x].size /\ string[x].size \in Nat
      BY <2>1 DEF IInv, Intact
    <3>2. string[x].size <= MaxLength
      BY <2>1 DEF Bounded, Size
    <3>3. QED
      BY <3>1, <3>2 DEF SearchParameters, StringParameters
  <2> HIDE DEF s
  <2>3. SUFFICES ASSUME NEW p \in Patterns, NEW pos \in 0 .. Len(s) + 1 \union {Npos - 2, Npos}
        PROVE  /\ FindsFirst(s, p, pos) /\ FindsLast(s, p, pos)
               /\ pos <= Len(s) => \A n \in {0, 1, 2, Npos} : Compares(Substr(s, pos, n), p)
    BY DEF s
  <2>4. p \in Seq(Value)
    <3>1. PICK n \in 0 .. 2 : p \in [1 .. n -> Value]
      BY DEF Patterns
    <3>2. QED
      BY <3>1
  <2>5. pos \in Nat
    BY <2>2
  <2>6. FindsFirst(s, p, pos) /\ FindsLast(s, p, pos)
    BY <2>2, <2>4, <2>5, FindsFirstHolds, FindsLastHolds
  <2>7. ASSUME pos <= Len(s), NEW n \in {0, 1, 2, Npos} PROVE Compares(Substr(s, pos, n), p)
    <3>1. n \in Nat
      BY <2>2
    <3>2. Smallest(n, Len(s) - pos) \in Nat /\ pos + Smallest(n, Len(s) - pos) <= Len(s)
      BY <2>2, <2>5, <2>7, <3>1 DEF Smallest
    <3>3. Substr(s, pos, n) \in Seq(Value)
      BY <2>2, <2>5, <3>2 DEF Substr
    <3>4. QED
      BY <2>4, <3>3, ComparesHolds DEF SearchParameters
  <2>8. QED
    BY <2>6, <2>7
<1>4. QED
  BY <1>1, <1>2, <1>3, PTL DEF Spec
=============================================================================
