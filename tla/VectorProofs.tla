---------------------------- MODULE VectorProofs ----------------------------
(***************************************************************************)
(* The vectors, for any values, vectors and bounds, wherever a call runs   *)
(* out of memory or a copy throws: no element is lost or misused, the      *)
(* first cells are the elements, and every call is a call on sequences.    *)
(*                                                                         *)
(* Of each operation a lemma says that it Does what it should on a memory  *)
(* that holds a sequence; of each call another one, that it keeps the      *)
(* invariant and takes a step of AbstractSequences.                        *)
(***************************************************************************)
EXTENDS Vector, ElementsProofs

-----------------------------------------------------------------------------
(* What a call works on                                                    *)

\* Between the operations on the block: no other one, and nothing was misused.
Plain(m, S) ==
    m \in States(S) /\ ~ m.bad /\ Alive(m.mem["old"], m.size) /\ m.mem["new"] = << >>

\* While the block is replaced
Moving(m, S) ==
    m \in States(S) /\ ~ m.bad /\ Alive(m.mem["old"], m.size) /\ Alive(m.mem["new"], m.built)

\* The elements of the block are those of s.
Holds(m, s) == m.size = Len(s) /\ \A i \in 1 .. Len(s) : m.mem["old"][i] = s[i]

\* Elements that are read
IsOlds(values, m, S, from, to) ==
    /\ values \in Seq(S) /\ Len(values) = to - from
    /\ \A j \in 1 .. to - from : values[j] = m.mem["old"][from + j]

\* Reading elements of a vector gives values, never raw memory.
LEMMA OldsAre ==
  ASSUME NEW S, NEW m \in States(S), Alive(m.mem["old"], m.size),
         NEW from \in Nat, NEW to \in Nat, from <= to, to <= m.size
  PROVE  IsOlds(Olds(m, from, to), m, S, from, to)
<1> DEFINE r == Olds(m, from, to)
<1>1. IsRead(r, m, S, "old", from, to)
  <2>1. to <= Len(m.mem["old"])
    BY StateParts DEF Alive
  <2>2. QED
    BY <2>1, StateParts, ReadAre DEF Olds, OldCells
<1> HIDE DEF r
<1>2. /\ r \in Seq(Cellular(S)) /\ Len(r) = to - from
      /\ \A j \in 1 .. to - from : r[j] = m.mem["old"][from + j]
  BY <1>1 DEF IsRead
<1>3. ASSUME NEW j \in 1 .. to - from PROVE r[j] \in S
  <2>1. from + j \in 1 .. Len(m.mem["old"]) /\ from + j <= m.size
    BY StateParts DEF Alive
  <2>2. m.mem["old"][from + j] # Raw
    BY <2>1 DEF Alive
  <2>3. r[j] \in Cellular(S)
    BY <1>2
  <2>4. QED
    BY <1>2, <2>2, <2>3 DEF Cellular
<1>4. r \in Seq(S)
  BY <1>2, <1>3
<1>5. QED
  BY <1>2, <1>4 DEF IsOlds, r

-----------------------------------------------------------------------------
(* Steps on the block                                                      *)

\* Copying over elements, also if it throws halfway, leaves as many elements.
LEMMA AssignedKeeps ==
  ASSUME NEW S, NEW m, Plain(m, S), NEW from, NEW to, NEW values, NEW r,
         Assigned(r, m, S, "old", from, to, values)
  PROVE  /\ Plain(r, S) /\ r.size = m.size /\ r.built = m.built
         /\ Len(r.mem["old"]) = Len(m.mem["old"])
<1>1. r \in States(S) /\ Frame(r, m) /\ m \in States(S)
  BY DEF Assigned, Plain
<1>2. CASE m.threw
  BY <1>1, <1>2 DEF Assigned, Plain, Frame
<1>3. CASE ~ m.threw
  <2>1. Touched(r, m, "old", from, to)
    BY <1>3 DEF Assigned
  <2>2. r.mem["new"] = m.mem["new"] /\ Len(r.mem["old"]) = Len(m.mem["old"])
    BY <2>1 DEF Touched, Blocks
  <2>3. Alive(r.mem["old"], r.size)
    BY <1>1, <2>1 DEF Touched, Alive, Plain, Frame
  <2>4. QED
    BY <1>1, <2>2, <2>3 DEF Plain, Frame
<1>4. QED
  BY <1>2, <1>3

\* What construct behind the end does: all or nothing.
Appended(r, m, S, values) ==
    /\ Plain(r, S) /\ r.built = m.built /\ Len(r.mem["old"]) = Len(m.mem["old"])
    /\ m.threw => r = m
    /\ r.threw => r.mem = m.mem /\ r.size = m.size /\ (m.threw \/ Len(values) > 0)
    /\ ~ r.threw => /\ ~ m.threw /\ r.size = m.size + Len(values)
                    /\ Written(r, m, "old", m.size, values)

\* Constructing behind the end adds all elements, or none and throws.
LEMMA ConstructAtEndDoes ==
  ASSUME NEW S, Raw \notin S, NEW m, Plain(m, S), NEW values \in Seq(S),
         ~ m.threw => m.size + Len(values) <= Len(m.mem["old"])
  PROVE  Appended(ConstructAtEnd(m, values), m, S, values)
<1> DEFINE u == UninitializedCopy(m, values, OldCells(m.size, m.size + Len(values)))
           r == ConstructAtEnd(m, values)
<1>1. m \in States(S) /\ Alive(m.mem["old"], m.size) /\ ~ m.bad /\ m.mem["new"] = << >>
  BY DEF Plain
<1>2. PICK to \in Nat : to = m.size + Len(values)
  BY <1>1, StateParts
<1>3. Copied(u, m, S, "old", m.size, values)
  <2>1. Len(values) = to - m.size
    BY <1>1, <1>2, StateParts
  <2>2. ~ m.threw => /\ to <= Len(m.mem["old"])
                     /\ \A i \in m.size + 1 .. to : m.mem["old"][i] = Raw
    <3>1. ASSUME ~ m.threw, NEW i \in m.size + 1 .. to PROVE m.mem["old"][i] = Raw
      <4>1. m.size \in Nat /\ Len(m.mem["old"]) \in Nat /\ to <= Len(m.mem["old"])
        BY <1>1, <1>2, <3>1, StateParts
      <4>2. i \in 1 .. Len(m.mem["old"]) /\ ~ (i <= m.size)
        BY <4>1
      <4>3. QED
        BY <1>1, <4>2 DEF Alive
    <3>2. QED
      BY <1>2, <3>1
  <2>3. Copied(UninitializedCopy(m, values, Cells("old", m.size, to)), m, S, "old", m.size, values)
    BY <1>1, <2>1, <2>2, StateParts, UninitializedCopyDoes
  <2>4. QED
    BY <1>2, <2>3 DEF OldCells
<1> HIDE DEF u
<1>4. r = IF u.threw THEN u ELSE [u EXCEPT !.size = to]
  BY <1>2 DEF ConstructAtEnd, Finished, u
<1>5. u \in States(S) /\ Frame(u, m)
  BY <1>3 DEF Copied
<1> HIDE DEF r
<1>6. CASE u.threw
  <2>1. r = u /\ u.mem = m.mem /\ (m.threw \/ Len(values) > 0)
    BY <1>3, <1>4, <1>6 DEF Copied
  <2>2. Plain(r, S) /\ r.size = m.size /\ r.built = m.built
    BY <1>1, <1>5, <2>1 DEF Plain, Frame
  <2>3. m.threw => r = m
    BY <1>3, <2>1 DEF Copied
  <2>4. Appended(r, m, S, values)
    BY <1>6, <2>1, <2>2, <2>3 DEF Appended
  <2>5. QED
    BY <2>4 DEF r
<1>7. CASE ~ u.threw
  <2>1. r = [u EXCEPT !.size = to]
    BY <1>4, <1>7
  <2>2. /\ r \in States(S) /\ r.mem = u.mem /\ r.built = u.built /\ r.threw = u.threw
        /\ r.bad = u.bad /\ r.size = to
    BY <1>2, <1>5, <2>1 DEF States
  <2>3. ~ m.threw /\ Written(u, m, "old", m.size, values)
    BY <1>3, <1>7 DEF Copied
  <2>4. Written(r, m, "old", m.size, values)
    BY <2>2, <2>3 DEF Written
  <2>5. Len(r.mem["old"]) = Len(m.mem["old"]) /\ r.mem["new"] = m.mem["new"]
    BY <2>4 DEF Written, Blocks
  <2>6. Alive(r.mem["old"], to)
    <3>1. to <= Len(m.mem["old"]) /\ Len(values) = to - m.size
      BY <1>1, <1>2, <2>3, StateParts
    <3>2. ASSUME NEW i \in 1 .. Len(m.mem["old"]) PROVE r.mem["old"][i] # Raw <=> i <= to
      <4>0. /\ m.size \in Nat /\ Len(m.mem["old"]) \in Nat /\ i \in Nat
            /\ r.mem["old"][i] = IF m.size < i /\ i <= m.size + Len(values)
                                 THEN values[i - m.size] ELSE m.mem["old"][i]
            /\ m.mem["old"][i] # Raw <=> i <= m.size
        BY <1>1, <2>4, StateParts DEF Written, Alive
      <4>1. CASE i <= m.size
        BY <1>2, <4>0, <4>1
      <4>2. CASE m.size < i /\ i <= to
        <5>1. i - m.size \in 1 .. Len(values)
          BY <1>1, <3>1, <4>2, StateParts
        <5>2. r.mem["old"][i] = values[i - m.size]
          BY <1>2, <2>4, <4>2 DEF Written
        <5>3. QED
          BY <4>2, <5>1, <5>2
      <4>3. CASE i > to
        BY <1>2, <4>0, <4>3
      <4>4. QED
        BY <1>1, <1>2, <4>1, <4>2, <4>3, StateParts
    <3>3. QED
      BY <2>5, <3>1, <3>2 DEF Alive
  <2>7. Plain(r, S)
    BY <1>1, <1>5, <2>2, <2>5, <2>6 DEF Plain, Frame
  <2>8. Appended(r, m, S, values)
    BY <1>2, <1>5, <1>7, <2>2, <2>3, <2>4, <2>5, <2>7 DEF Appended, Frame
  <2>9. QED
    BY <2>8 DEF r
<1>8. QED
  BY <1>5, <1>6, <1>7, StateParts

\* What destroying the elements behind n does
Truncated(r, m, S, n) ==
    /\ Plain(r, S) /\ (r.threw <=> m.threw)
    /\ m.threw => r = m
    /\ ~ m.threw => r.size = n /\ \A i \in 1 .. n : r.mem["old"][i] = m.mem["old"][i]

\* Destroying the last elements keeps the first ones.
LEMMA TruncateDoes ==
  ASSUME NEW S, Raw \notin S, NEW m, Plain(m, S), NEW n \in Nat, ~ m.threw => n <= m.size
  PROVE  Truncated(Truncate(m, n), m, S, n)
<1> DEFINE r == Truncate(m, n)
           d == Destroy(m, Cells("old", n, m.size))
<1>1. m \in States(S) /\ Alive(m.mem["old"], m.size) /\ ~ m.bad /\ m.mem["new"] = << >>
  BY DEF Plain
<1>2. CASE m.threw
  BY <1>2 DEF Truncate, Truncated
<1>3. CASE ~ m.threw
  <2>1. m.size \in Nat /\ n <= m.size /\ m.size <= Len(m.mem["old"]) /\ Len(m.mem["old"]) \in Nat
    BY <1>1, <1>3, StateParts DEF Alive
  <2>2. Turned(d, m, S, "old", n, Times(m.size - n, Raw))
    <3>1. \A i \in n + 1 .. m.size : m.mem["old"][i] # Raw
      <4>1. ASSUME NEW i \in n + 1 .. m.size PROVE m.mem["old"][i] # Raw
        <5>1. i \in 1 .. Len(m.mem["old"]) /\ i <= m.size
          BY <2>1
        <5>2. QED
          BY <1>1, <5>1 DEF Alive
      <4>2. QED
        BY <4>1
    <3>2. QED
      BY <1>1, <2>1, <3>1, StateParts, DestroyAre
  <2>3. r = [d EXCEPT !.size = n]
    BY <1>3 DEF Truncate, OldCells
  <2>4. d \in States(S) /\ SameLocals(d, m) /\ d.bad = m.bad /\ Written(d, m, "old", n, Times(m.size - n, Raw))
    BY <2>2 DEF Turned
  <2> HIDE DEF d
  <2>5. r \in States(S) /\ r.mem = d.mem /\ r.size = n /\ r.threw = m.threw /\ r.bad = m.bad
    BY <2>3, <2>4 DEF States, SameLocals
  <2> HIDE DEF r
  <2>6. \A i \in 1 .. Len(m.mem["old"]) :
          r.mem["old"][i] = IF n < i /\ i <= m.size THEN Raw ELSE m.mem["old"][i]
    <3>1. Len(Times(m.size - n, Raw)) = m.size - n /\ \A j \in 1 .. m.size - n : Times(m.size - n, Raw)[j] = Raw
      BY <2>1 DEF Times
    <3> DEFINE none == Times(m.size - n, Raw)
    <3> HIDE DEF none
    <3>2. \A i \in 1 .. Len(m.mem["old"]) :
            r.mem["old"][i] = IF n < i /\ i <= n + Len(none) THEN none[i - n] ELSE m.mem["old"][i]
      BY <2>4, <2>5 DEF Written, none
    <3>3. Len(none) = m.size - n /\ \A j \in 1 .. m.size - n : none[j] = Raw
      BY <3>1 DEF none
    <3>4. ASSUME NEW i \in 1 .. Len(m.mem["old"])
          PROVE  r.mem["old"][i] = IF n < i /\ i <= m.size THEN Raw ELSE m.mem["old"][i]
      <4>1. CASE n < i /\ i <= m.size
        <5>1. i - n \in 1 .. m.size - n /\ i <= n + Len(none)
          BY <2>1, <3>3, <4>1
        <5>2. QED
          BY <3>2, <3>3, <4>1, <5>1
      <4>2. CASE ~ (n < i /\ i <= m.size)
        <5>1. ~ (n < i /\ i <= n + Len(none))
          BY <2>1, <3>3, <4>2
        <5>2. QED
          BY <3>2, <4>2, <5>1
      <4>3. QED
        BY <4>1, <4>2
    <3>5. QED
      BY <3>4
  <2>7. Len(r.mem["old"]) = Len(m.mem["old"]) /\ r.mem["new"] = m.mem["new"]
    BY <2>4, <2>5 DEF Written, Blocks
  <2>8. Alive(r.mem["old"], n)
    <3>1. \A i \in 1 .. Len(m.mem["old"]) : m.mem["old"][i] # Raw <=> i <= m.size
      BY <1>1 DEF Alive
    <3>2. \A i \in 1 .. Len(m.mem["old"]) : r.mem["old"][i] # Raw <=> i <= n
      BY <2>1, <2>6, <3>1
    <3>3. QED
      BY <2>1, <2>7, <3>2 DEF Alive
  <2>9. \A i \in 1 .. n : r.mem["old"][i] = m.mem["old"][i]
    BY <2>1, <2>6
  <2>10. Plain(r, S)
    BY <1>1, <2>5, <2>7, <2>8 DEF Plain
  <2>11. Truncated(r, m, S, n)
    BY <1>3, <2>5, <2>9, <2>10 DEF Truncated
  <2>12. QED
    BY <2>11 DEF r
<1>4. QED
  BY <1>1, <1>2, <1>3, StateParts

-----------------------------------------------------------------------------
(* Replacing the block                                                      *)

\* The new block has room for n, and holds the first k of t, unless it threw.
InNew(g, m, S, n, t, k) ==
    /\ Moving(g, S) /\ g.size = m.size /\ g.mem["old"] = m.mem["old"]
    /\ ~ g.threw => /\ Len(g.mem["new"]) = n /\ g.built = k
                    /\ \A i \in 1 .. k : g.mem["new"][i] = t[i]

\* _M_allocate: the new block has room, and holds nothing yet.
LEMMA AllocateNew ==
  ASSUME NEW S, NEW m, Plain(m, S), m.built = 0, NEW n \in Nat, NEW t
  PROVE  InNew(Allocate(m, "new", n), m, S, n, t, 0)
<1> DEFINE g == Allocate(m, "new", n)
<1>1. m \in States(S) /\ Alive(m.mem["old"], m.size) /\ ~ m.bad /\ m.mem["new"] = << >>
  BY DEF Plain
<1>2. Allocated(g, m, S, "new", n)
  BY <1>1, StateParts, AllocateDoes
<1> HIDE DEF g
<1>3. g \in States(S) /\ Frame(g, m)
  BY <1>2 DEF Allocated
<1>4. g.mem["old"] = m.mem["old"]
  BY <1>2, <1>3, StateParts DEF Allocated, Blocks
<1>5. Alive(g.mem["new"], 0)
  <2>1. CASE g.threw
    BY <1>1, <1>2, <2>1 DEF Allocated, Alive
  <2>2. CASE ~ g.threw
    BY <1>2, <2>2 DEF Allocated, Alive
  <2>3. QED
    BY <2>1, <2>2
<1>6. Moving(g, S) /\ g.size = m.size
  BY <1>1, <1>3, <1>4, <1>5 DEF Moving, Frame
<1>7. ~ g.threw => Len(g.mem["new"]) = n /\ g.built = 0
  BY <1>2, <1>3 DEF Allocated, Frame
<1>8. InNew(g, m, S, n, t, 0)
  BY <1>4, <1>6, <1>7 DEF InNew
<1>9. QED
  BY <1>8 DEF g

\* Copying the next elements into the new block, after those it holds.
LEMMA ExtendDoes ==
  ASSUME NEW S, Raw \notin S, NEW m, NEW n \in Nat, NEW t, NEW k \in Nat, NEW g, InNew(g, m, S, n, t, k),
         NEW values \in Seq(S), NEW to \in Nat, to = k + Len(values), to <= n,
         \A j \in 1 .. Len(values) : values[j] = t[k + j]
  PROVE  InNew(Extend(g, values), m, S, n, t, to)
<1> DEFINE u == UninitializedCopy(g, values, Cells("new", g.built, g.built + Len(values)))
           r == Extend(g, values)
<1>1. g \in States(S) /\ Alive(g.mem["old"], g.size) /\ ~ g.bad /\ Alive(g.mem["new"], g.built)
      /\ g.size = m.size /\ g.mem["old"] = m.mem["old"]
  BY DEF InNew, Moving
<1>2. r = IF u.threw THEN u ELSE [u EXCEPT !.built = u.built + Len(values)]
  BY DEF Extend
<1>3. CASE g.threw
  <2>1. r = g
    BY <1>2, <1>3 DEF UninitializedCopy
  <2>2. QED
    BY <1>3, <2>1 DEF InNew
<1>4. CASE ~ g.threw
  <2>1. Len(g.mem["new"]) = n /\ g.built = k /\ \A i \in 1 .. k : g.mem["new"][i] = t[i]
    BY <1>4 DEF InNew
  <2>2. Copied(u, g, S, "new", k, values)
    <3>1. Len(values) = to - k
      OBVIOUS
    <3>2. to <= Len(g.mem["new"])
      BY <2>1
    <3>3. \A i \in k + 1 .. to : g.mem["new"][i] = Raw
      BY <1>1, <2>1 DEF Alive
    <3>4. Copied(UninitializedCopy(g, values, Cells("new", k, to)), g, S, "new", k, values)
      BY <1>1, <3>1, <3>2, <3>3, StateParts, UninitializedCopyDoes
    <3>5. g.built + Len(values) = to
      BY <2>1
    <3>6. QED
      BY <2>1, <3>4, <3>5
  <2> HIDE DEF u
  <2>3. u \in States(S) /\ Frame(u, g)
    BY <2>2 DEF Copied
  <2> HIDE DEF r
  <2>4. CASE u.threw
    <3>1. r = u /\ u.mem = g.mem
      BY <1>2, <2>2, <2>4 DEF Copied
    <3>2. InNew(r, m, S, n, t, to)
      BY <1>1, <2>3, <2>4, <3>1 DEF InNew, Moving, Frame
    <3>3. QED
      BY <3>2 DEF r
  <2>5. CASE ~ u.threw
    <3>1. r = [u EXCEPT !.built = to]
      BY <1>2, <2>1, <2>3, <2>5 DEF Frame
    <3>2. r \in States(S) /\ r.mem = u.mem /\ r.size = u.size /\ r.bad = u.bad /\ r.built = to
      BY <2>3, <3>1 DEF States
    <3>3. Written(u, g, "new", k, values)
      BY <2>2, <2>5 DEF Copied
    <3>4. /\ Len(r.mem["new"]) = n /\ r.mem["old"] = g.mem["old"]
          /\ \A i \in 1 .. n : r.mem["new"][i] = IF k < i /\ i <= to THEN values[i - k] ELSE g.mem["new"][i]
      BY <2>1, <3>2, <3>3 DEF Written, Blocks
    <3>5. \A i \in 1 .. to : r.mem["new"][i] = t[i]
      <4>1. ASSUME NEW i \in 1 .. to PROVE r.mem["new"][i] = t[i]
        <5>1. CASE i <= k
          BY <2>1, <3>4, <5>1
        <5>2. CASE k < i
          <6>1. i - k \in 1 .. Len(values) /\ k + (i - k) = i
            BY <5>2
          <6>2. values[i - k] = t[i]
            BY <6>1
          <6>3. QED
            BY <3>4, <5>2, <6>2
        <5>3. QED
          BY <5>1, <5>2
      <4>2. QED
        BY <4>1
    <3>6. Alive(r.mem["new"], to)
      <4>1. \A i \in 1 .. n : g.mem["new"][i] # Raw <=> i <= k
        BY <1>1, <2>1 DEF Alive
      <4>2. \A j \in 1 .. Len(values) : values[j] # Raw
        OBVIOUS
      <4>3. ASSUME NEW i \in 1 .. n PROVE r.mem["new"][i] # Raw <=> i <= to
        <5>1. CASE k < i /\ i <= to
          <6>1. i - k \in 1 .. Len(values)
            BY <5>1
          <6>2. QED
            BY <3>4, <4>2, <5>1, <6>1
        <5>2. CASE ~ (k < i /\ i <= to)
          <6>1. r.mem["new"][i] = g.mem["new"][i]
            BY <3>4, <5>2
          <6>2. i <= k <=> i <= to
            BY <5>2
          <6>3. QED
            BY <4>1, <6>1, <6>2
        <5>3. QED
          BY <5>1, <5>2
      <4>4. QED
        BY <3>4, <4>3 DEF Alive
    <3>7. Moving(r, S) /\ r.size = m.size /\ r.mem["old"] = m.mem["old"]
      BY <1>1, <2>3, <3>2, <3>4, <3>6 DEF Moving, Frame
    <3>8. InNew(r, m, S, n, t, to)
      BY <3>2, <3>4, <3>5, <3>7 DEF InNew
    <3>9. QED
      BY <3>8 DEF r
  <2>6. QED
    BY <2>4, <2>5
<1>5. QED
  BY <1>1, <1>3, <1>4, StateParts

\* An operation on a block that holds s turns that into t; it has no effect if it throws
\* when it is strong.
Does(r, S, s, t, strong) ==
    /\ Plain(r, S)
    /\ ~ r.threw => Holds(r, t)
    /\ r.threw /\ strong => Holds(r, s)
    /\ r.threw => \/ Len(s) <= r.size /\ r.size <= Len(t)
                  \/ Len(t) <= r.size /\ r.size <= Len(s)

\* If nothing threw the vector has the new block, else it has what it had: no element
\* and no block is lost on either way.
LEMMA ReplaceDoes ==
  ASSUME NEW S, NEW m, Plain(m, S), NEW n, NEW s, NEW t \in Seq(S), NEW g, InNew(g, m, S, n, t, Len(t)),
         Holds(m, s), Len(s) <= Len(t)
  PROVE  Does(Replace(g), S, s, t, TRUE)
<1> DEFINE r == Replace(g)
<1>1. g \in States(S) /\ Alive(g.mem["old"], g.size) /\ ~ g.bad /\ Alive(g.mem["new"], g.built)
      /\ g.size = m.size /\ g.mem["old"] = m.mem["old"]
  BY DEF InNew, Moving
<1>2. CASE g.threw
  <2>1. r = Unwind(g)
    BY <1>2 DEF Replace
  <2>2. CASE g.mem["new"] = << >>
    <3>1. r = g
      BY <2>1, <2>2 DEF Unwind
    <3>2. Holds(g, s)
      BY <1>1 DEF Holds
    <3> HIDE DEF r
    <3>3. Plain(r, S) /\ r.threw /\ Holds(r, s)
      BY <1>1, <1>2, <2>2, <3>1, <3>2 DEF Plain
    <3>4. Does(r, S, s, t, TRUE)
      BY <3>3 DEF Does, Holds
    <3>5. QED
      BY <3>4 DEF r
  <2>3. CASE g.mem["new"] # << >>
    <3> DEFINE d == Destroy(g, Cells("new", 0, g.built))
    <3>1. r = Deallocate(d, "new")
      BY <2>1, <2>3 DEF Unwind
    <3>2. /\ d \in States(S) /\ SameLocals(d, g) /\ d.bad = g.bad
          /\ \A i \in 1 .. Len(d.mem["new"]) : d.mem["new"][i] = Raw
          /\ \A c \in Blocks : c # "new" => d.mem[c] = g.mem[c]
      BY <1>1, StateParts, DestroyAll
    <3> HIDE DEF d, r
    <3>3. /\ r \in States(S) /\ SameLocals(r, d) /\ r.bad = d.bad /\ r.mem["new"] = << >>
          /\ \A c \in Blocks : c # "new" => r.mem[c] = d.mem[c]
      BY <3>1, <3>2, StateParts, DeallocateDoes
    <3>4. r.mem["old"] = m.mem["old"] /\ r.size = m.size /\ r.threw /\ ~ r.bad
      BY <1>1, <1>2, <3>2, <3>3 DEF SameLocals, Blocks
    <3>5. Plain(r, S) /\ Holds(r, s)
      BY <1>1, <3>3, <3>4 DEF Plain, Holds
    <3>6. Does(r, S, s, t, TRUE)
      BY <3>4, <3>5 DEF Does, Holds
    <3>7. QED
      BY <3>6 DEF r
  <2>4. QED
    BY <2>2, <2>3
<1>3. CASE ~ g.threw
  <2> DEFINE d == Destroy(g, Cells("old", 0, g.size))
             f == Deallocate(d, "old")
             mem == [b \in {"old", "new"} |-> IF b = "old" THEN g.mem["new"] ELSE << >>]
  <2>1. r = [f EXCEPT !.mem = mem, !.size = g.built]
    BY <1>3 DEF Replace, Adopt, OldCells
  <2>2. /\ d \in States(S) /\ SameLocals(d, g) /\ d.bad = g.bad
        /\ \A i \in 1 .. Len(d.mem["old"]) : d.mem["old"][i] = Raw
    BY <1>1, StateParts, DestroyAll
  <2> HIDE DEF d
  <2>3. f \in States(S) /\ SameLocals(f, d) /\ f.bad = d.bad
    BY <2>2, StateParts, DeallocateDoes
  <2> HIDE DEF f, r
  <2>4. mem \in [Blocks -> Seq(Cellular(S))] /\ mem["old"] = g.mem["new"] /\ mem["new"] = << >>
    <3>1. g.mem["new"] \in Seq(Cellular(S)) /\ << >> \in Seq(Cellular(S))
      BY <1>1, StateParts
    <3>2. QED
      BY <3>1 DEF Blocks
  <2> HIDE DEF mem
  <2>5. r \in States(S) /\ r.mem = mem /\ r.size = g.built /\ r.threw = f.threw /\ r.bad = f.bad
    BY <1>1, <2>1, <2>3, <2>4, StateParts DEF States
  <2>6. ~ r.threw /\ ~ r.bad
    BY <1>1, <1>3, <2>2, <2>3, <2>5 DEF SameLocals
  <2>7. Plain(r, S)
    BY <1>1, <2>4, <2>5, <2>6 DEF Plain
  <2>8. Holds(r, t)
    BY <1>3, <2>4, <2>5 DEF InNew, Holds
  <2>9. Does(r, S, s, t, TRUE)
    BY <2>6, <2>7, <2>8 DEF Does
  <2>10. QED
    BY <2>9 DEF r
<1>4. QED
  BY <1>1, <1>2, <1>3, StateParts

\* _M_allocate_and_copy, which reserve and assign call, has no effect if it throws.
LEMMA CopyToNewDoes ==
  ASSUME NEW S, Raw \notin S, NEW m, Plain(m, S), m.built = 0, NEW s, Holds(m, s), NEW n \in Nat,
         NEW t \in Seq(S), Len(t) <= n, Len(s) <= Len(t)
  PROVE  Does(CopyToNew(m, n, t), S, s, t, TRUE)
<1> DEFINE g == Allocate(m, "new", n)
           h == Extend(g, t)
<1>1. InNew(g, m, S, n, t, 0)
  BY AllocateNew
<1> HIDE DEF g
<1>2. InNew(h, m, S, n, t, Len(t))
  <2>1. Len(t) = 0 + Len(t) /\ \A j \in 1 .. Len(t) : t[j] = t[0 + j]
    OBVIOUS
  <2>2. QED
    BY <1>1, <2>1, ExtendDoes
<1> HIDE DEF h
<1>3. Does(Replace(h), S, s, t, TRUE)
  BY <1>2, ReplaceDoes
<1>4. QED
  BY <1>3 DEF CopyToNew, h, g

-----------------------------------------------------------------------------
(* Insertions                                                               *)

\* What a call begins with
Ready(m, S, s) == Plain(m, S) /\ m.built = 0 /\ s \in Seq(S) /\ Holds(m, s)

\* Elements of s
PartOf(values, S, s, from, to) ==
    /\ values \in Seq(S) /\ Len(values) = to - from
    /\ \A j \in 1 .. to - from : values[j] = s[from + j]

\* Elements of the vector are elements of the sequence that it holds.
LEMMA OldsHeld ==
  ASSUME NEW S, NEW m, Plain(m, S), NEW s, Holds(m, s), NEW from \in Nat, NEW to \in Nat,
         from <= to, to <= Len(s)
  PROVE  PartOf(Olds(m, from, to), S, s, from, to)
<1>1. m \in States(S) /\ Alive(m.mem["old"], m.size) /\ m.size = Len(s) /\ Len(s) \in Nat
      /\ \A i \in 1 .. Len(s) : m.mem["old"][i] = s[i]
  BY StateParts DEF Plain, Holds
<1>2. IsOlds(Olds(m, from, to), m, S, from, to)
  BY <1>1, OldsAre
<1>3. /\ Olds(m, from, to) \in Seq(S) /\ Len(Olds(m, from, to)) = to - from
      /\ \A j \in 1 .. to - from : Olds(m, from, to)[j] = m.mem["old"][from + j]
  BY <1>2 DEF IsOlds
<1>4. \A j \in 1 .. to - from : from + j \in 1 .. Len(s)
  BY <1>1
<1>5. QED
  BY <1>1, <1>3, <1>4 DEF PartOf

\* An insertion without room, in _M_insert_aux and _M_fill_insert, has no effect if it throws.
LEMMA InsertInNewDoes ==
  ASSUME NEW S, Raw \notin S, NEW m, NEW s, Ready(m, S, s), NEW t \in Seq(S), NEW values \in Seq(S),
         NEW pos \in Nat, pos <= Len(s), Spliced(t, s, pos, pos, values), NEW n \in Nat, Len(t) <= n
  PROVE  Does(InsertInNew(m, pos, values, n), S, s, t, TRUE)
<1> DEFINE a == Allocate(m, "new", n)
           before == Olds(m, 0, pos)
           after == Olds(m, pos, m.size)
           g == Extend(a, before)
           h == Extend(g, values)
           f == Extend(h, after)
<1>1. Plain(m, S) /\ m.built = 0 /\ s \in Seq(S) /\ Holds(m, s) /\ Len(s) \in Nat /\ m.size = Len(s)
  BY DEF Ready, Holds
<1>2. PICK next \in Nat : next = pos + Len(values)
  OBVIOUS
<1>3. /\ Len(t) = next + (Len(s) - pos) /\ next <= Len(t) /\ Len(t) \in Nat /\ Len(s) <= Len(t)
      /\ \A i \in 1 .. pos : t[i] = s[i]
      /\ \A j \in 1 .. Len(values) : t[pos + j] = values[j]
      /\ \A j \in 1 .. Len(s) - pos : t[next + j] = s[pos + j]
  BY <1>1, <1>2 DEF Spliced
<1>4. InNew(a, m, S, n, t, 0)
  BY <1>1, AllocateNew
<1> HIDE DEF a
<1>5. before \in Seq(S) /\ Len(before) = pos /\ \A j \in 1 .. pos : before[j] = s[j]
  <2>0. PICK from \in Nat : from = 0
    OBVIOUS
  <2>1. PartOf(Olds(m, from, pos), S, s, from, pos)
    BY <1>1, <2>0, OldsHeld
  <2>2. QED
    BY <2>0, <2>1 DEF PartOf
<1>6. /\ after \in Seq(S) /\ Len(after) = Len(s) - pos
      /\ \A j \in 1 .. Len(s) - pos : after[j] = s[pos + j]
  <2>0. PICK to \in Nat : to = Len(s)
    BY <1>1
  <2>1. PartOf(Olds(m, pos, to), S, s, pos, to)
    BY <1>1, <2>0, OldsHeld
  <2>2. after = Olds(m, pos, to)
    BY <1>1, <2>0
  <2> HIDE DEF after
  <2>3. QED
    BY <2>0, <2>1, <2>2 DEF PartOf
<1> HIDE DEF before, after
<1>7. InNew(g, m, S, n, t, pos)
  <2>0. pos <= n /\ pos = 0 + Len(before)
    BY <1>2, <1>3, <1>5
  <2>a. ASSUME NEW j \in 1 .. Len(before) PROVE before[j] = t[0 + j]
    <3>1. j \in 1 .. pos /\ 0 + j = j
      BY <1>5
    <3>2. QED
      BY <1>3, <1>5, <3>1
  <2>1. pos = 0 + Len(before) /\ pos <= n /\ \A j \in 1 .. Len(before) : before[j] = t[0 + j]
    BY <2>0, <2>a
  <2>2. QED
    BY <1>4, <1>5, <2>1, ExtendDoes
<1> HIDE DEF g
<1>8. InNew(h, m, S, n, t, next)
  <2>1. next <= n /\ \A j \in 1 .. Len(values) : values[j] = t[pos + j]
    BY <1>2, <1>3
  <2>2. QED
    BY <1>2, <1>7, <2>1, ExtendDoes
<1> HIDE DEF h
<1>9. InNew(f, m, S, n, t, Len(t))
  <2>1. Len(t) = next + Len(after) /\ \A j \in 1 .. Len(after) : after[j] = t[next + j]
    BY <1>3, <1>6
  <2>2. QED
    BY <1>3, <1>6, <1>8, <2>1, ExtendDoes
<1> HIDE DEF f
<1>10. Does(Replace(f), S, s, t, TRUE)
  BY <1>1, <1>3, <1>9, ReplaceDoes
<1>11. QED
  BY <1>10 DEF InsertInNew, f, h, g, a, before, after

\* The elements behind the end become those of t, the others stay.
Grown(c, S, s, t) ==
    /\ Plain(c, S)
    /\ c.threw => Len(s) <= c.size /\ c.size <= Len(t)
    /\ ~ c.threw => /\ c.size = Len(t)
                    /\ \A i \in 1 .. Len(s) : c.mem["old"][i] = s[i]
                    /\ \A i \in Len(s) + 1 .. Len(t) : c.mem["old"][i] = t[i]

\* After constructing behind the end the vector holds both sequences, or the first one.
LEMMA AppendedHolds ==
  ASSUME NEW S, NEW m, Plain(m, S), NEW s, Holds(m, s), NEW values \in Seq(S), NEW r, Appended(r, m, S, values)
  PROVE  /\ Plain(r, S) /\ Len(r.mem["old"]) = Len(m.mem["old"])
         /\ r.threw => Holds(r, s)
         /\ ~ r.threw => /\ r.size = Len(s) + Len(values)
                         /\ \A i \in 1 .. Len(s) : r.mem["old"][i] = s[i]
                         /\ \A j \in 1 .. Len(values) : r.mem["old"][Len(s) + j] = values[j]
<1>1. m \in States(S) /\ Alive(m.mem["old"], m.size) /\ m.size = Len(s) /\ Len(s) \in Nat
      /\ \A i \in 1 .. Len(s) : m.mem["old"][i] = s[i]
  BY StateParts DEF Plain, Holds
<1>2. Plain(r, S) /\ Len(r.mem["old"]) = Len(m.mem["old"])
  BY DEF Appended
<1>3. r.threw => Holds(r, s)
  BY DEF Appended, Holds
<1>4. ASSUME ~ r.threw
      PROVE  /\ r.size = Len(s) + Len(values)
             /\ \A i \in 1 .. Len(s) : r.mem["old"][i] = s[i]
             /\ \A j \in 1 .. Len(values) : r.mem["old"][Len(s) + j] = values[j]
  <2>1. r.size = m.size + Len(values) /\ Written(r, m, "old", m.size, values)
    BY <1>4 DEF Appended
  <2>2. r.size <= Len(m.mem["old"]) /\ Len(m.mem["old"]) \in Nat
    BY <1>1, <1>2, StateParts DEF Plain, Alive
  <2>3. \A i \in 1 .. Len(m.mem["old"]) :
          r.mem["old"][i] = IF m.size < i /\ i <= m.size + Len(values) THEN values[i - m.size]
                            ELSE m.mem["old"][i]
    BY <2>1 DEF Written
  <2>4. ASSUME NEW i \in 1 .. Len(s) PROVE r.mem["old"][i] = s[i]
    <3>1. i \in 1 .. Len(m.mem["old"]) /\ ~ (m.size < i)
      BY <1>1, <2>1, <2>2
    <3>2. QED
      BY <1>1, <2>3, <3>1
  <2>5. ASSUME NEW j \in 1 .. Len(values) PROVE r.mem["old"][Len(s) + j] = values[j]
    <3>1. PICK i \in 1 .. Len(m.mem["old"]) : i = Len(s) + j
      BY <1>1, <2>1, <2>2
    <3>2. m.size < i /\ i <= m.size + Len(values) /\ i - m.size = j
      BY <1>1, <3>1
    <3>3. QED
      BY <2>3, <3>1, <3>2
  <2>6. QED
    BY <1>1, <2>1, <2>4, <2>5
<1>5. QED
  BY <1>2, <1>3, <1>4

\* The elements from pos move up, from the last one on, and the new ones take their places.
LEMMA ShiftedDoes ==
  ASSUME NEW S, Raw \notin S, NEW s \in Seq(S), NEW t \in Seq(S), NEW values \in Seq(S), NEW pos \in Nat,
         pos + Len(values) <= Len(s), Spliced(t, s, pos, pos, values), NEW c, Grown(c, S, s, t)
  PROVE  Does(CopyForward(ShiftUp(c, pos, Len(values)), values, OldCells(pos, pos + Len(values))),
              S, s, t, FALSE)
<1>0. PICK n \in Nat : n = Len(values)
  OBVIOUS
<1>a. PICK next \in Nat : next = pos + n
  OBVIOUS
<1>b. PICK last \in Nat : last = Len(s)
  OBVIOUS
<1>c. PICK size \in Nat : size = Len(t)
  OBVIOUS
<1>1. next = pos + n /\ last = Len(s) /\ size = Len(t)
  BY <1>a, <1>b, <1>c
<1>d. size = last + n /\ next <= last
  BY <1>0, <1>1 DEF Spliced
<1>2. /\ size = last + n /\ next <= last
      /\ \A i \in 1 .. pos : t[i] = s[i]
      /\ \A j \in 1 .. n : t[pos + j] = values[j]
      /\ \A j \in 1 .. last - pos : t[next + j] = s[pos + j]
  BY <1>0, <1>1, <1>d DEF Spliced
<1> DEFINE moved == Olds(c, pos, c.size - 2 * n)
           h == ShiftUp(c, pos, n)
           r == CopyForward(h, values, Cells("old", pos, next))
<1>3. Plain(c, S) /\ c \in States(S) /\ c.threw \in BOOLEAN /\ c.size \in Nat /\ Len(c.mem["old"]) \in Nat
      /\ c.size <= Len(c.mem["old"]) /\ \A i \in 1 .. Len(c.mem["old"]) : c.mem["old"][i] # Raw <=> i <= c.size
  BY StateParts DEF Grown, Plain, Alive
<1>4. CASE c.threw
  <2>1. h = c /\ r = c
    BY <1>4 DEF ShiftUp, CopyBackward, CopyForward
  <2> HIDE DEF r
  <2>2. Does(r, S, s, t, FALSE)
    BY <1>3, <1>4, <2>1 DEF Does, Grown
  <2>3. QED
    BY <2>2, <1>0, <1>1 DEF r, OldCells
<1>5. CASE ~ c.threw
  <2>1. /\ c.size = size
        /\ \A i \in 1 .. last : c.mem["old"][i] = s[i]
        /\ \A i \in last + 1 .. size : c.mem["old"][i] = t[i]
    BY <1>1, <1>5 DEF Grown
  <2>2. PICK end \in Nat : end = size - 2 * n
    BY <1>a, <1>d
  <2>3. pos <= end /\ end <= c.size /\ c.size - n = last /\ last - next = end - pos /\ c.size - 2 * n = end
    <3>1. c.size = size
      BY <2>1
    <3>2. QED
      BY <1>a, <1>d, <2>2, <3>1
  <2>4. IsOlds(moved, c, S, pos, end)
    <3>1. IsOlds(Olds(c, pos, end), c, S, pos, end)
      BY <1>3, <2>3, OldsAre DEF Alive
    <3>2. QED
      BY <2>3, <3>1
  <2>5. /\ moved \in Seq(S) /\ Len(moved) = end - pos
        /\ \A j \in 1 .. end - pos : moved[j] = c.mem["old"][pos + j]
    BY <2>4 DEF IsOlds
  <2>6. h = CopyBackward(c, moved, Cells("old", next, last))
    BY <1>1, <2>3 DEF ShiftUp, OldCells
  <2> HIDE DEF moved, h, r
  <2>7. Assigned(h, c, S, "old", next, last, moved)
    <3>1. Len(moved) = last - next /\ last <= Len(c.mem["old"])
      <4>1. c.size = size /\ Len(moved) = end - pos
        BY <2>1, <2>5
      <4>2. QED
        BY <1>d, <1>3, <2>3, <4>1
    <3>2. ASSUME NEW i \in next + 1 .. last PROVE c.mem["old"][i] # Raw
      <4>1. i \in 1 .. Len(c.mem["old"]) /\ i <= c.size
        BY <1>d, <1>3, <2>3
      <4>2. QED
        BY <1>3, <4>1
    <3>3. QED
      BY <1>3, <2>5, <2>6, <3>1, <3>2, StateParts, CopyBackwardDoes
  <2>8. Plain(h, S) /\ h.size = c.size /\ Len(h.mem["old"]) = Len(c.mem["old"])
    BY <1>3, <2>7, AssignedKeeps
  <2>9. h \in States(S) /\ h.threw \in BOOLEAN /\ \A i \in 1 .. Len(h.mem["old"]) : h.mem["old"][i] # Raw <=> i <= h.size
    BY <2>8, StateParts DEF Plain, Alive
  <2>10. Assigned(r, h, S, "old", pos, next, values)
    <3>1. Len(values) = next - pos /\ next <= Len(h.mem["old"])
      BY <1>0, <1>1, <1>2, <1>3, <2>1, <2>8
    <3>2. \A i \in pos + 1 .. next : h.mem["old"][i] # Raw
      BY <1>2, <1>3, <2>1, <2>8, <2>9
    <3>3. QED
      BY <2>9, <3>1, <3>2, StateParts, CopyForwardDoes DEF r
  <2>11. Plain(r, S) /\ r.size = size /\ r.threw \in BOOLEAN
    <3>1. Plain(r, S) /\ r.size = h.size
      BY <2>8, <2>10, AssignedKeeps
    <3>2. QED
      BY <2>1, <2>8, <3>1, StateParts DEF Plain
  <2>12. ASSUME ~ r.threw, NEW i \in 1 .. size PROVE r.mem["old"][i] = t[i]
    <3>1. ~ h.threw /\ Written(r, h, "old", pos, values)
      BY <2>10, <2>12 DEF Assigned
    <3>2. Written(h, c, "old", next, moved)
      BY <2>7, <3>1 DEF Assigned
    <3>3. i \in 1 .. Len(c.mem["old"]) /\ i \in 1 .. Len(h.mem["old"])
      BY <1>3, <2>1, <2>8
    <3>4. r.mem["old"][i] = IF pos < i /\ i <= pos + n THEN values[i - pos] ELSE h.mem["old"][i]
      BY <1>0, <3>1, <3>3 DEF Written
    <3>5. h.mem["old"][i] = IF next < i /\ i <= last THEN moved[i - next] ELSE c.mem["old"][i]
      <4>1. h.mem["old"][i] = IF next < i /\ i <= next + Len(moved) THEN moved[i - next] ELSE c.mem["old"][i]
        BY <3>2, <3>3 DEF Written
      <4>2. next + Len(moved) = last
        BY <1>2, <2>3, <2>5
      <4>3. QED
        BY <4>1, <4>2
    <3>6. CASE i <= pos
      <4>1. r.mem["old"][i] = c.mem["old"][i]
        BY <1>1, <3>4, <3>5, <3>6
      <4>2. i \in 1 .. pos /\ i \in 1 .. last
        BY <1>1, <1>2, <3>6
      <4>3. QED
        BY <1>2, <2>1, <4>1, <4>2
    <3>7. CASE pos < i /\ i <= next
      <4>1. i - pos \in 1 .. n /\ pos + (i - pos) = i
        BY <1>1, <3>7
      <4>2. r.mem["old"][i] = values[i - pos]
        BY <1>1, <3>4, <3>7
      <4>3. QED
        BY <1>2, <4>1, <4>2
    <3>8. CASE next < i /\ i <= last
      <4>1. r.mem["old"][i] = moved[i - next]
        BY <1>1, <3>4, <3>5, <3>8
      <4>2. PICK j \in 1 .. end - pos : j = i - next
        BY <1>2, <2>3, <3>8
      <4>3. pos + j \in 1 .. last /\ next + j = i /\ j \in 1 .. last - pos
        BY <1>1, <1>2, <2>3, <4>2
      <4>4. moved[j] = s[pos + j] /\ t[next + j] = s[pos + j]
        BY <1>2, <2>1, <2>5, <4>2, <4>3
      <4>5. QED
        BY <4>1, <4>2, <4>3, <4>4
    <3>9. CASE last < i
      <4>1. r.mem["old"][i] = c.mem["old"][i]
        BY <1>1, <1>2, <3>4, <3>5, <3>9
      <4>2. QED
        BY <2>1, <3>9, <4>1
    <3>10. QED
      BY <3>6, <3>7, <3>8, <3>9
  <2>13. ~ r.threw => Holds(r, t)
    BY <1>1, <2>11, <2>12 DEF Holds
  <2>14. Does(r, S, s, t, FALSE)
    BY <1>1, <1>2, <2>11, <2>13 DEF Does
  <2>15. QED
    BY <2>14, <1>0, <1>1 DEF r, h, OldCells
<1>6. QED
  BY <1>3, <1>4, <1>5

\* After an exception nothing more is constructed, copied or assigned.
LEMMA ThrownStays ==
  ASSUME NEW m, m.threw, NEW values, NEW at
  PROVE  /\ ConstructAtEnd(m, values) = m /\ CopyForward(m, values, at) = m
         /\ CopyBackward(m, values, at) = m /\ LocalCopy(m) = m
BY DEF ConstructAtEnd, UninitializedCopy, Finished, CopyForward, CopyBackward, LocalCopy

\* A local copy may throw, and does nothing else.
LEMMA LocalCopyDoes ==
  ASSUME NEW S, NEW m, Plain(m, S)
  PROVE  /\ Plain(LocalCopy(m), S) /\ LocalCopy(m).mem = m.mem /\ LocalCopy(m).size = m.size
         /\ LocalCopy(m).built = m.built /\ (m.threw => LocalCopy(m) = m)
<1> DEFINE r == LocalCopy(m)
<1>1. m \in States(S) /\ m.threw \in BOOLEAN
  BY StateParts DEF Plain
<1>2. CASE m.threw
  BY <1>2 DEF LocalCopy
<1>3. CASE ~ m.threw
  <2>1. IsSpent(Spend(m, 1), m, S, 1) /\ r = Spend(m, 1)
    BY <1>1, <1>3, SpendIs DEF LocalCopy
  <2> HIDE DEF r
  <2>2. r \in States(S) /\ r.mem = m.mem /\ Frame(r, m)
    BY <2>1 DEF IsSpent
  <2>3. Plain(r, S) /\ r.mem = m.mem /\ r.size = m.size /\ r.built = m.built
    BY <2>2 DEF Plain, Frame
  <2>4. QED
    BY <1>3, <2>3 DEF r
<1>4. QED
  BY <1>1, <1>2, <1>3

\* The last elements are copied behind the end before the others move.
LEMMA GrownDoes ==
  ASSUME NEW S, Raw \notin S, NEW m, NEW s, Ready(m, S, s), NEW t \in Seq(S), NEW values \in Seq(S),
         NEW pos \in Nat, pos + Len(values) <= Len(s), Spliced(t, s, pos, pos, values),
         m.size + Len(values) <= Capacity(m)
  PROVE  Grown(ConstructAtEnd(m, Olds(m, m.size - Len(values), m.size)), S, s, t)
<1>a. PICK last \in Nat : last = Len(s)
  BY DEF Ready
<1>b. PICK n \in Nat : n = Len(values)
  OBVIOUS
<1>0. pos + n <= last /\ s \in Seq(S)
  BY <1>a, <1>b DEF Ready
<1>c. PICK low \in Nat : low = last - n
  BY <1>0
<1> DEFINE w == Olds(m, low, last)
           r == ConstructAtEnd(m, w)
<1>1. Plain(m, S) /\ Holds(m, s) /\ m.size = last
  BY <1>a DEF Ready, Holds
<1>2. Len(t) = last + n
  BY <1>a, <1>b DEF Spliced
<1>3. w \in Seq(S) /\ Len(w) = n /\ \A j \in 1 .. n : w[j] = s[low + j]
  <2>1. PartOf(w, S, s, low, last)
    BY <1>a, <1>c, <1>0, <1>1, OldsHeld
  <2>2. last - low = n
    BY <1>0, <1>c
  <2> HIDE DEF w
  <2>3. QED
    BY <2>1, <2>2 DEF PartOf
<1>4. ConstructAtEnd(m, Olds(m, m.size - Len(values), m.size)) = r
  BY <1>b, <1>c, <1>1
<1> HIDE DEF w
<1>5. Appended(r, m, S, w)
  BY <1>b, <1>1, <1>3, ConstructAtEndDoes DEF Capacity
<1> HIDE DEF r
<1>6. /\ Plain(r, S)
      /\ r.threw => Holds(r, s)
      /\ ~ r.threw => /\ r.size = Len(s) + Len(w)
                      /\ \A i \in 1 .. Len(s) : r.mem["old"][i] = s[i]
                      /\ \A j \in 1 .. Len(w) : r.mem["old"][Len(s) + j] = w[j]
  <2>1. Plain(m, S) /\ Holds(m, s) /\ w \in Seq(S)
    BY <1>1, <1>3
  <2>2. QED
    BY <1>5, <2>1, AppendedHolds
<1>7. ASSUME ~ r.threw, NEW i \in last + 1 .. last + n PROVE r.mem["old"][i] = t[i]
  <2>1. PICK j \in 1 .. n : j = i - last
    <3>1. i - last \in 1 .. n
      OBVIOUS
    <3>2. QED
      BY <3>1
  <2>2. r.mem["old"][last + j] = w[j] /\ last + j = i
    BY <1>a, <1>3, <1>6, <1>7, <2>1
  <2>3. w[j] = s[low + j]
    BY <1>3
  <2>4. PICK k \in 1 .. last - pos : k = low + j - pos
    <3>1. low + j - pos \in 1 .. last - pos
      BY <1>0, <1>c
    <3>2. QED
      BY <3>1
  <2>5. t[pos + n + k] = s[pos + k]
    BY <1>a, <1>b, <2>4 DEF Spliced
  <2>6. pos + n + k = i /\ pos + k = low + j
    BY <1>c, <2>1, <2>4
  <2>7. QED
    BY <2>2, <2>3, <2>5, <2>6
<1>8. Grown(r, S, s, t)
  <2>1. r.threw => r.size = last
    BY <1>a, <1>6 DEF Holds
  <2>2. ~ r.threw => r.size = last + n
    BY <1>a, <1>3, <1>6
  <2>3. QED
    BY <1>a, <1>2, <1>6, <1>7, <2>1, <2>2 DEF Grown
<1>9. QED
  BY <1>4, <1>8

\* An insertion of less elements than come after the position: the last ones are copied
\* behind the end, the others move up, and the new ones take their places.
LEMMA InsertFewDoes ==
  ASSUME NEW S, Raw \notin S, NEW m, NEW s, Ready(m, S, s), NEW t \in Seq(S), NEW values \in Seq(S),
         NEW pos \in Nat, pos + Len(values) <= Len(s), Spliced(t, s, pos, pos, values),
         m.size + Len(values) <= Capacity(m)
  PROVE  Does(InsertFew(m, pos, values), S, s, t, FALSE)
<1> DEFINE c == ConstructAtEnd(m, Olds(m, m.size - Len(values), m.size))
<1>1. Grown(c, S, s, t) /\ s \in Seq(S)
  BY GrownDoes DEF Ready
<1> HIDE DEF c
<1>2. Does(CopyForward(ShiftUp(c, pos, Len(values)), values, OldCells(pos, pos + Len(values))),
           S, s, t, FALSE)
  BY <1>1, ShiftedDoes
<1>3. QED
  BY <1>2 DEF InsertFew, c

\* The same for one element, of which a local copy is made (_M_insert_aux).
LEMMA InsertInsideDoes ==
  ASSUME NEW S, Raw \notin S, NEW m, NEW s, Ready(m, S, s), NEW t \in Seq(S), NEW v \in S,
         NEW pos \in Nat, pos < Len(s), Spliced(t, s, pos, pos, << v >>), m.size < Capacity(m)
  PROVE  Does(InsertInside(m, pos, v), S, s, t, FALSE)
<1> DEFINE c == ConstructAtEnd(m, Olds(m, m.size - 1, m.size))
           l == LocalCopy(c)
<1>1. << v >> \in Seq(S) /\ Len(<< v >>) = 1 /\ s \in Seq(S) /\ m \in States(S)
  BY DEF Ready, Plain
<1> DEFINE values == << v >>
<1> HIDE DEF values
<1>2. Grown(c, S, s, t)
  <2>1. Len(m.mem["old"]) \in Nat /\ m.size \in Nat /\ Len(s) \in Nat
    BY <1>1, StateParts
  <2>2. pos + Len(values) <= Len(s) /\ m.size + Len(values) <= Capacity(m)
    BY <1>1, <2>1 DEF Capacity, values
  <2>3. Grown(ConstructAtEnd(m, Olds(m, m.size - Len(values), m.size)), S, s, t)
    BY <1>1, <2>2, GrownDoes DEF values
  <2>4. Len(values) = 1
    BY <1>1 DEF values
  <2>5. QED
    BY <2>3, <2>4
<1> HIDE DEF c
<1>3. Grown(l, S, s, t)
  <2>1. Plain(l, S) /\ l.mem = c.mem /\ l.size = c.size /\ (c.threw => l = c)
    BY <1>2, LocalCopyDoes DEF Grown
  <2> HIDE DEF l
  <2>2. CASE c.threw
    BY <1>2, <2>1, <2>2
  <2>3. CASE ~ c.threw
    <3>1. Len(s) <= Len(t)
      BY <1>1 DEF Spliced, values
    <3>2. QED
      BY <1>2, <2>1, <2>3, <3>1 DEF Grown
  <2>4. QED
    BY <2>2, <2>3
<1> HIDE DEF l
<1>4. Does(CopyForward(ShiftUp(l, pos, Len(values)), values, OldCells(pos, pos + Len(values))),
           S, s, t, FALSE)
  <2>1. pos + Len(values) <= Len(s) /\ values \in Seq(S)
    BY <1>1 DEF values
  <2>2. Spliced(t, s, pos, pos, values)
    BY DEF values
  <2>3. QED
    BY <1>1, <1>3, <2>1, <2>2, ShiftedDoes
<1>5. Len(values) = 1
  BY <1>1 DEF values
<1>6. Does(CopyForward(ShiftUp(l, pos, 1), << v >>, OldCells(pos, pos + 1)), S, s, t, FALSE)
  BY <1>4, <1>5 DEF values
<1>7. QED
  BY <1>6 DEF InsertInside, c, l

\* Values constructed behind the end are joined to what the vector holds, or it throws.
LEMMA AppendDoes ==
  ASSUME NEW S, Raw \notin S, NEW m, Plain(m, S), ~ m.threw, NEW s \in Seq(S), Holds(m, s), NEW w \in Seq(S),
         m.size + Len(w) <= Capacity(m)
  PROVE  /\ Plain(ConstructAtEnd(m, w), S) /\ Capacity(ConstructAtEnd(m, w)) = Capacity(m)
         /\ ConstructAtEnd(m, w).threw => Holds(ConstructAtEnd(m, w), s) /\ Len(w) > 0
         /\ ~ ConstructAtEnd(m, w).threw => Holds(ConstructAtEnd(m, w), s \o w)
<1> DEFINE r == ConstructAtEnd(m, w)
<1>1. Appended(r, m, S, w)
  BY ConstructAtEndDoes DEF Capacity
<1> HIDE DEF r
<1>2. /\ Plain(r, S) /\ Len(r.mem["old"]) = Len(m.mem["old"])
      /\ r.threw => Holds(r, s)
      /\ ~ r.threw => /\ r.size = Len(s) + Len(w)
                      /\ \A i \in 1 .. Len(s) : r.mem["old"][i] = s[i]
                      /\ \A j \in 1 .. Len(w) : r.mem["old"][Len(s) + j] = w[j]
  BY <1>1, AppendedHolds
<1>3. r.threw => Len(w) > 0
  BY <1>1 DEF Appended
<1>4. ASSUME ~ r.threw PROVE Holds(r, s \o w)
  <2>1. PICK t \in Seq(S) : t = s \o w
    BY JoinedAre DEF Joined
  <2>2. /\ Len(t) = Len(s) + Len(w)
        /\ \A i \in 1 .. Len(s) : t[i] = s[i]
        /\ \A j \in 1 .. Len(w) : t[Len(s) + j] = w[j]
    BY <2>1, JoinedAre DEF Joined
  <2>3. ASSUME NEW i \in 1 .. Len(t) PROVE r.mem["old"][i] = t[i]
    <3>1. CASE i <= Len(s)
      BY <1>2, <1>4, <2>2, <3>1
    <3>2. CASE ~ (i <= Len(s))
      <4>1. PICK j \in 1 .. Len(w) : Len(s) + j = i
        <5>1. i - Len(s) \in 1 .. Len(w) /\ Len(s) + (i - Len(s)) = i
          BY <2>2, <3>2
        <5>2. QED
          BY <5>1
      <4>2. QED
        BY <1>2, <1>4, <2>2, <4>1
    <3>3. QED
      BY <3>1, <3>2
  <2>4. QED
    BY <1>2, <1>4, <2>1, <2>2, <2>3 DEF Holds
<1>5. QED
  BY <1>2, <1>3, <1>4 DEF r, Capacity

\* A copy over the cells [from, to) of a block that holds s
Overwritten(r, m, S, s, from, to, values) ==
    /\ Plain(r, S) /\ r.size = Len(s) /\ Capacity(r) = Capacity(m)
    /\ r.threw => Len(values) > 0
    /\ ~ r.threw => \A i \in 1 .. Len(s) :
         r.mem["old"][i] = IF from < i /\ i <= to THEN values[i - from] ELSE s[i]

\* A copy over some of the elements changes these, and no others.
LEMMA OverwriteDoes ==
  ASSUME NEW S, Raw \notin S, NEW m, Plain(m, S), ~ m.threw, NEW s \in Seq(S), Holds(m, s),
         NEW from \in Nat, NEW to \in Nat, from <= to, to <= Len(s), NEW values \in Seq(S), Len(values) = to - from
  PROVE  Overwritten(CopyForward(m, values, OldCells(from, to)), m, S, s, from, to, values)
<1> DEFINE r == CopyForward(m, values, OldCells(from, to))
<1>1. m \in States(S) /\ Alive(m.mem["old"], m.size) /\ m.size = Len(s)
      /\ \A i \in 1 .. Len(s) : m.mem["old"][i] = s[i]
  BY DEF Plain, Holds
<1>2. Len(s) <= Len(m.mem["old"]) /\ Len(m.mem["old"]) \in Nat
      /\ \A i \in 1 .. Len(m.mem["old"]) : m.mem["old"][i] # Raw <=> i <= Len(s)
  BY <1>1, StateParts DEF Alive
<1>3. Assigned(r, m, S, "old", from, to, values)
  <2>1. ASSUME NEW i \in from + 1 .. to PROVE m.mem["old"][i] # Raw
    <3>1. i \in 1 .. Len(m.mem["old"]) /\ i <= Len(s)
      BY <1>2
    <3>2. QED
      BY <1>2, <3>1
  <2>2. to <= Len(m.mem["old"])
    BY <1>2
  <2>3. QED
    BY <1>1, <2>1, <2>2, StateParts, CopyForwardDoes DEF OldCells
<1> HIDE DEF r
<1>4. Plain(r, S) /\ r.size = m.size /\ Len(r.mem["old"]) = Len(m.mem["old"])
  BY <1>3, AssignedKeeps
<1>5. r.threw => Len(values) > 0
  BY <1>3 DEF Assigned
<1>6. ASSUME ~ r.threw, NEW i \in 1 .. Len(s)
      PROVE  r.mem["old"][i] = IF from < i /\ i <= to THEN values[i - from] ELSE s[i]
  <2>1. i \in 1 .. Len(m.mem["old"]) /\ from + Len(values) = to
    BY <1>2
  <2>2. Written(r, m, "old", from, values)
    BY <1>3, <1>6 DEF Assigned
  <2>3. r.mem["old"][i] = IF from < i /\ i <= from + Len(values) THEN values[i - from] ELSE m.mem["old"][i]
    BY <2>1, <2>2 DEF Written
  <2>4. QED
    BY <1>1, <2>1, <2>3
<1>7. QED
  BY <1>1, <1>4, <1>5, <1>6 DEF r, Capacity, Overwritten

\* An insertion of as many elements as come after the position, or more: the last new
\* ones are constructed behind the end, then the old ones, and the first new ones are
\* copied to where those were.  At the end of the vector it is all or nothing.
LEMMA InsertManyDoes ==
  ASSUME NEW S, Raw \notin S, NEW m, ~ m.threw, NEW s, Ready(m, S, s), NEW t \in Seq(S), NEW values \in Seq(S),
         NEW pos \in Nat, pos <= Len(s), Len(s) <= pos + Len(values), Spliced(t, s, pos, pos, values),
         m.size + Len(values) <= Capacity(m)
  PROVE  Does(InsertMany(m, pos, values), S, s, t, pos = Len(s))
<1>a. PICK last \in Nat : last = Len(s)
  BY DEF Ready
<1>b. PICK n \in Nat : n = Len(values)
  OBVIOUS
<1>0. pos <= last /\ last <= pos + n /\ s \in Seq(S) /\ Plain(m, S) /\ Holds(m, s) /\ m.size = last
  BY <1>a, <1>b DEF Ready, Holds
<1>c. PICK after \in Nat : after = last - pos
  BY <1>0
<1>d. after <= n
  BY <1>0, <1>c
<1>e. PICK more \in Nat : more = n - after
  BY <1>d
<1> DEFINE end == Last(values, more)
           moved == Olds(m, pos, last)
           front == First(values, after)
           s1 == s \o end
           s2 == s1 \o moved
           x == ConstructAtEnd(m, end)
           y == ConstructAtEnd(x, moved)
           r == CopyForward(y, front, OldCells(pos, last))
<1>1. end \in Seq(S) /\ Len(end) = more /\ \A j \in 1 .. more : end[j] = values[after + j]
  <2>1. Smaller(more, Len(values)) = more /\ Len(values) - more = after
    BY <1>b, <1>d, <1>e DEF Smaller
  <2>2. /\ end \in Seq(S) /\ Len(end) = Smaller(more, Len(values))
        /\ \A j \in 1 .. Smaller(more, Len(values)) : end[j] = values[Len(values) - Smaller(more, Len(values)) + j]
    BY LastAre
  <2> HIDE DEF end
  <2>3. QED
    BY <2>1, <2>2
<1>2. front \in Seq(S) /\ Len(front) = after /\ \A j \in 1 .. after : front[j] = values[j]
  <2>1. Smaller(after, Len(values)) = after
    BY <1>b, <1>d DEF Smaller
  <2>2. /\ front \in Seq(S) /\ Len(front) = Smaller(after, Len(values))
        /\ \A j \in 1 .. Smaller(after, Len(values)) : front[j] = values[j]
    BY FirstAre
  <2> HIDE DEF front
  <2>3. QED
    BY <2>1, <2>2
<1>3. moved \in Seq(S) /\ Len(moved) = after /\ \A j \in 1 .. after : moved[j] = s[pos + j]
  <2>1. PartOf(moved, S, s, pos, last)
    BY <1>a, <1>0, OldsHeld
  <2> HIDE DEF moved
  <2>2. QED
    BY <1>c, <2>1 DEF PartOf
<1>4. InsertMany(m, pos, values) = r
  <2>1. m.size - pos = after /\ Len(values) - after = more
    BY <1>b, <1>c, <1>e, <1>0
  <2>2. QED
    BY <1>0, <2>1 DEF InsertMany
<1> HIDE DEF end, front, moved
<1>5. /\ s1 \in Seq(S) /\ Len(s1) = last + more
      /\ \A i \in 1 .. last : s1[i] = s[i]
      /\ \A j \in 1 .. more : s1[last + j] = end[j]
  <2>1. Joined(s1, S, s, end)
    BY <1>0, <1>1, JoinedAre
  <2> HIDE DEF s1
  <2>2. QED
    BY <1>a, <1>1, <2>1 DEF Joined
<1> HIDE DEF s1
<1>6. /\ s2 \in Seq(S) /\ Len(s2) = last + more + after
      /\ \A i \in 1 .. last + more : s2[i] = s1[i]
      /\ \A j \in 1 .. after : s2[last + more + j] = moved[j]
  <2>1. Joined(s2, S, s1, moved)
    BY <1>3, <1>5, JoinedAre
  <2> HIDE DEF s2
  <2>2. QED
    BY <1>3, <1>5, <2>1 DEF Joined
<1> HIDE DEF s2
<1>7. Capacity(m) \in Nat /\ last + n <= Capacity(m)
  BY <1>b, <1>0, StateParts DEF Capacity, Plain
<1>8. last + more + after = last + n /\ Len(t) = last + n
  BY <1>a, <1>b, <1>0, <1>d, <1>e DEF Spliced
<1>9. /\ Plain(x, S) /\ Capacity(x) = Capacity(m)
      /\ x.threw => Holds(x, s)
      /\ ~ x.threw => Holds(x, s1)
  <2>1. m.size + Len(end) <= Capacity(m)
    BY <1>0, <1>1, <1>7, <1>8
  <2>2. QED
    BY <1>0, <1>1, <2>1, AppendDoes DEF s1
<1> HIDE DEF x
<1>10. CASE x.threw
  <2>1. y = x /\ r = x
    BY <1>10, ThrownStays
  <2> HIDE DEF r
  <2>2. Does(r, S, s, t, pos = Len(s))
    BY <1>a, <1>b, <1>8, <1>9, <1>10, <2>1 DEF Does, Holds
  <2>3. QED
    BY <1>4, <2>2
<1>11. CASE ~ x.threw
  <2>1. /\ Plain(y, S) /\ Capacity(y) = Capacity(m)
        /\ y.threw => Holds(y, s1) /\ after > 0
        /\ ~ y.threw => Holds(y, s2)
    <3>1. x.size + Len(moved) <= Capacity(x)
      BY <1>3, <1>5, <1>7, <1>8, <1>9, <1>11 DEF Holds
    <3>2. QED
      BY <1>3, <1>5, <1>9, <1>11, <3>1, AppendDoes DEF s2
  <2> HIDE DEF y
  <2>2. CASE y.threw
    <3>1. r = y
      BY <2>2, ThrownStays
    <3> HIDE DEF r
    <3>2. pos # Len(s)
      BY <1>a, <1>c, <2>1, <2>2
    <3>3. r.size = last + more
      BY <1>5, <2>1, <2>2, <3>1 DEF Holds
    <3>4. Len(s) <= r.size /\ r.size <= Len(t)
      BY <1>a, <1>8, <3>3
    <3>5. Does(r, S, s, t, pos = Len(s))
      BY <2>1, <2>2, <3>1, <3>2, <3>4 DEF Does
    <3>6. QED
      BY <1>4, <3>5
  <2>3. CASE ~ y.threw
    <3>1. /\ Plain(r, S) /\ r.size = Len(s2)
          /\ r.threw => Len(front) > 0
          /\ ~ r.threw => \A i \in 1 .. Len(s2) :
               r.mem["old"][i] = IF pos < i /\ i <= last THEN front[i - pos] ELSE s2[i]
      <4>1. last <= Len(s2) /\ Len(front) = last - pos
        BY <1>2, <1>6, <1>c
      <4>2. QED
        <5>1. Overwritten(r, y, S, s2, pos, last, front)
          BY <1>0, <1>2, <1>6, <2>1, <2>3, <4>1, OverwriteDoes
        <5>2. QED
          BY <5>1 DEF Overwritten
    <3> HIDE DEF r
    <3>2. r.size = Len(t) /\ Len(s2) = last + n /\ Len(s) <= Len(t)
      BY <1>a, <1>6, <1>8, <3>1
    <3>3. ASSUME ~ r.threw, NEW i \in 1 .. last + n PROVE r.mem["old"][i] = t[i]
      <4>0. r.mem["old"][i] = IF pos < i /\ i <= last THEN front[i - pos] ELSE s2[i]
        BY <3>1, <3>2, <3>3
      <4>1. CASE i <= pos
        <5>1. r.mem["old"][i] = s2[i] /\ i \in 1 .. last + more /\ i \in 1 .. last /\ i \in 1 .. pos
          BY <1>0, <4>0, <4>1
        <5>2. s2[i] = s1[i] /\ s1[i] = s[i] /\ t[i] = s[i]
          BY <1>5, <1>6, <5>1 DEF Spliced
        <5>3. QED
          BY <5>1, <5>2
      <4>2. CASE pos < i /\ i <= last
        <5>1. PICK j \in 1 .. after : j = i - pos
          <6>1. i - pos \in 1 .. after
            BY <1>c, <4>2
          <6>2. QED
            BY <6>1
        <5>2. j \in 1 .. n /\ pos + j = i
          BY <1>d, <5>1
        <5>3. front[j] = values[j] /\ t[pos + j] = values[j]
          BY <1>b, <1>2, <5>1, <5>2 DEF Spliced
        <5>4. QED
          BY <4>0, <4>2, <5>1, <5>2, <5>3
      <4>3. CASE last < i /\ i <= last + more
        <5>1. PICK j \in 1 .. more : j = i - last
          <6>1. i - last \in 1 .. more
            BY <4>3
          <6>2. QED
            BY <6>1
        <5>2. PICK k \in 1 .. n : k = after + j
          <6>1. after + j \in 1 .. n
            BY <1>d, <1>e
          <6>2. QED
            BY <6>1
        <5>3. last + j = i /\ pos + k = i /\ i \in 1 .. last + more
          BY <1>0, <1>c, <4>3, <5>1, <5>2
        <5>4. s2[i] = s1[i] /\ s1[last + j] = end[j] /\ end[j] = values[k] /\ t[pos + k] = values[k]
          BY <1>b, <1>1, <1>5, <1>6, <5>2, <5>3 DEF Spliced
        <5>5. r.mem["old"][i] = s2[i]
          BY <4>0, <4>3
        <5>6. QED
          BY <5>3, <5>4, <5>5
      <4>4. CASE last + more < i
        <5>1. PICK j \in 1 .. after : j = i - (last + more)
          <6>1. i - (last + more) \in 1 .. after
            BY <1>8, <4>4
          <6>2. QED
            BY <6>1
        <5>2. last + more + j = i /\ pos + n + j = i /\ j \in 1 .. last - pos
          BY <1>0, <1>c, <1>d, <1>e, <5>1
        <5>3. s2[last + more + j] = moved[j] /\ moved[j] = s[pos + j]
          BY <1>3, <1>6
        <5>4. t[pos + n + j] = s[pos + j]
          BY <1>a, <1>b, <5>2 DEF Spliced
        <5>5. r.mem["old"][i] = s2[i]
          BY <4>0, <4>4
        <5>6. QED
          BY <5>2, <5>3, <5>4, <5>5
      <4>5. QED
        BY <4>1, <4>2, <4>3, <4>4
    <3>4. ~ r.threw => Holds(r, t)
      BY <1>8, <3>2, <3>3 DEF Holds
    <3>5. r.threw => pos # Len(s)
      BY <1>a, <1>c, <1>2, <3>1
    <3>6. Does(r, S, s, t, pos = Len(s))
      BY <3>1, <3>2, <3>4, <3>5 DEF Does
    <3>7. QED
      BY <1>4, <3>6
  <2>4. QED
    BY <2>1, <2>2, <2>3, StateParts DEF Plain
<1>12. QED
  BY <1>9, <1>10, <1>11, StateParts DEF Plain

\* What is done with no effect if it throws is done.
LEMMA DoesWeaker ==
  ASSUME NEW r, NEW S, NEW s, NEW t, NEW more \in BOOLEAN, NEW less \in BOOLEAN, less => more,
         Does(r, S, s, t, more)
  PROVE  Does(r, S, s, t, less)
BY DEF Does

\* _M_range_insert inserts its range, and has no effect if it throws at the end of the
\* vector or while it replaces the block.
LEMMA InsertAllDoes ==
  ASSUME NEW S, Raw \notin S, NEW m, ~ m.threw, NEW s, Ready(m, S, s), NEW t \in Seq(S), NEW values \in Seq(S),
         NEW pos \in Nat, pos <= Len(s), Spliced(t, s, pos, pos, values)
  PROVE  Does(InsertAll(m, pos, values), S, s, t, pos = Len(s) \/ Len(s) + Len(values) > Capacity(m))
<1> DEFINE strong == pos = Len(s) \/ Len(s) + Len(values) > Capacity(m)
           r == InsertAll(m, pos, values)
<1>1. /\ m.size = Len(s) /\ Len(s) \in Nat /\ Capacity(m) \in Nat /\ m.size <= Capacity(m)
      /\ Plain(m, S) /\ Holds(m, s) /\ s \in Seq(S)
  BY StateParts DEF Ready, Plain, Alive, Holds, Capacity
<1>2. Len(t) = Len(s) + Len(values)
  BY <1>1 DEF Spliced
<1>3. strong \in BOOLEAN
  OBVIOUS
<1>4. CASE values = << >>
  <2>1. r = m
    BY <1>4 DEF InsertAll
  <2>2. ASSUME NEW i \in 1 .. Len(t) PROVE m.mem["old"][i] = t[i]
    <3>1. m.mem["old"][i] = s[i]
      BY <1>1, <1>2, <1>4 DEF Holds
    <3>2. CASE i <= pos
      BY <3>1, <3>2 DEF Spliced
    <3>3. CASE ~ (i <= pos)
      <4>1. PICK j \in 1 .. Len(s) - pos : j = i - pos
        <5>1. i - pos \in 1 .. Len(s) - pos
          BY <1>1, <1>2, <1>4, <3>3
        <5>2. QED
          BY <5>1
      <4>2. pos + Len(values) + j = i /\ pos + j = i
        BY <1>4, <4>1
      <4>3. t[pos + Len(values) + j] = s[pos + j]
        BY DEF Spliced
      <4>4. QED
        BY <3>1, <4>2, <4>3
    <3>4. QED
      BY <3>2, <3>3
  <2>3. Holds(m, t)
    BY <1>1, <1>2, <1>4, <2>2 DEF Holds
  <2>4. Does(m, S, s, t, strong)
    BY <1>1, <2>3 DEF Does
  <2>5. QED
    BY <2>1, <2>4
<1>5. CASE values # << >> /\ Room(m) < Len(values)
  <2>1. r = InsertInNew(m, pos, values, Enlarged(m, Len(values)))
    BY <1>5 DEF InsertAll
  <2>2. Enlarged(m, Len(values)) \in Nat /\ Len(t) <= Enlarged(m, Len(values))
    BY <1>1, <1>2 DEF Enlarged, Larger
  <2>3. Does(r, S, s, t, TRUE)
    BY <2>1, <2>2, InsertInNewDoes
  <2>4. QED
    BY <1>3, <2>3, DoesWeaker
<1>6. CASE values # << >> /\ ~ (Room(m) < Len(values)) /\ m.size - pos > Len(values)
  <2>1. r = InsertFew(m, pos, values)
    BY <1>6 DEF InsertAll
  <2>2. m.size + Len(values) <= Capacity(m) /\ pos + Len(values) <= Len(s) /\ pos # Len(s)
    BY <1>1, <1>6 DEF Room
  <2>3. Does(r, S, s, t, FALSE)
    BY <2>1, <2>2, InsertFewDoes
  <2>4. strong = FALSE
    BY <1>1, <2>2
  <2>5. QED
    BY <2>3, <2>4
<1>7. CASE values # << >> /\ ~ (Room(m) < Len(values)) /\ ~ (m.size - pos > Len(values))
  <2>1. r = InsertMany(m, pos, values)
    BY <1>7 DEF InsertAll
  <2>2. m.size + Len(values) <= Capacity(m) /\ Len(s) <= pos + Len(values)
    BY <1>1, <1>7 DEF Room
  <2>3. Does(r, S, s, t, pos = Len(s))
    BY <2>1, <2>2, InsertManyDoes
  <2>4. strong = (pos = Len(s))
    BY <1>1, <2>2
  <2>5. QED
    BY <2>3, <2>4
<1>8. QED
  BY <1>4, <1>5, <1>6, <1>7

\* After an exception an insertion with room does nothing.
LEMMA InsertThrown ==
  ASSUME NEW m, m.threw, NEW pos, NEW values, ~ (Room(m) < Len(values))
  PROVE  InsertAll(m, pos, values) = m
<1>1. \A v, at : ConstructAtEnd(m, v) = m /\ CopyForward(m, v, at) = m /\ CopyBackward(m, v, at) = m
  BY ThrownStays
<1>2. InsertFew(m, pos, values) = m
  <2>1. ConstructAtEnd(m, Olds(m, m.size - Len(values), m.size)) = m
    BY <1>1
  <2>2. ShiftUp(m, pos, Len(values)) = m
    BY <1>1 DEF ShiftUp
  <2>3. QED
    BY <1>1, <2>1, <2>2 DEF InsertFew
<1>3. InsertMany(m, pos, values) = m
  <2> DEFINE end == Last(values, Len(values) - (m.size - pos))
  <2>1. ConstructAtEnd(ConstructAtEnd(m, end), Olds(m, pos, m.size)) = m
    BY <1>1
  <2>2. CopyForward(m, First(values, m.size - pos), OldCells(pos, m.size)) = m
    BY <1>1
  <2>3. QED
    BY <2>1, <2>2 DEF InsertMany
<1>4. QED
  BY <1>2, <1>3 DEF InsertAll

\* _M_fill_insert inserts n copies of its argument as it was when the call began, also
\* where that is an element that moves.
LEMMA InsertFillDoes ==
  ASSUME NEW S, Raw \notin S, NEW m, ~ m.threw, NEW s, Ready(m, S, s), NEW t \in Seq(S), NEW n \in Nat, NEW arg,
         Times(n, Argument(m, arg)) \in Seq(S), NEW pos \in Nat, pos <= Len(s),
         Spliced(t, s, pos, pos, Times(n, Argument(m, arg)))
  PROVE  Does(InsertFill(m, pos, n, arg), S, s, t, pos = Len(s) \/ Len(s) + n > Capacity(m))
<1> DEFINE values == Times(n, Argument(m, arg))
           l == LocalCopy(m)
           strong == pos = Len(s) \/ Len(s) + n > Capacity(m)
<1>1. Len(values) = n /\ values \in Seq(S) /\ Spliced(t, s, pos, pos, values)
  BY DEF Times
<1>2. InsertFill(m, pos, n, arg) = InsertAll(IF n > 0 /\ Room(m) >= n THEN l ELSE m, pos, values)
  BY DEF InsertFill
<1> HIDE DEF values
<1>3. /\ m.size = Len(s) /\ Len(s) \in Nat /\ Capacity(m) \in Nat /\ m.size <= Capacity(m)
      /\ Plain(m, S) /\ Holds(m, s) /\ s \in Seq(S) /\ m.built = 0
  BY StateParts DEF Ready, Plain, Alive, Holds, Capacity
<1>4. CASE ~ (n > 0 /\ Room(m) >= n)
  BY <1>1, <1>2, <1>4, InsertAllDoes
<1>5. CASE n > 0 /\ Room(m) >= n
  <2>1. Plain(l, S) /\ l.mem = m.mem /\ l.size = m.size /\ l.built = m.built
    BY <1>3, LocalCopyDoes
  <2> HIDE DEF l
  <2>2. Holds(l, s) /\ Capacity(l) = Capacity(m) /\ Room(l) = Room(m) /\ l.threw \in BOOLEAN
    BY <1>3, <2>1, StateParts DEF Holds, Capacity, Room, Plain
  <2>3. CASE l.threw
    <3>1. ~ (Room(l) < Len(values))
      BY <1>1, <1>3, <1>5, <2>2 DEF Room
    <3>2. InsertAll(l, pos, values) = l
      BY <2>3, <3>1, InsertThrown
    <3>3. Len(s) <= Len(t)
      BY <1>1, <1>3 DEF Spliced
    <3>4. Does(l, S, s, t, strong)
      BY <1>3, <2>1, <2>2, <2>3, <3>3 DEF Does
    <3>5. QED
      BY <1>2, <1>5, <3>2, <3>4
  <2>4. CASE ~ l.threw
    <3>1. Ready(l, S, s)
      BY <1>3, <2>1, <2>2 DEF Ready
    <3>2. Does(InsertAll(l, pos, values), S, s, t, pos = Len(s) \/ Len(s) + Len(values) > Capacity(l))
      BY <1>1, <2>4, <3>1, InsertAllDoes
    <3>3. QED
      BY <1>1, <1>2, <1>5, <2>2, <3>2
  <2>5. QED
    BY <2>2, <2>3, <2>4
<1>6. QED
  BY <1>4, <1>5

\* push_back and insert of one element insert the argument as it was when the call began.
LEMMA InsertOneDoes ==
  ASSUME NEW S, Raw \notin S, NEW m, ~ m.threw, NEW s, Ready(m, S, s), NEW t \in Seq(S), NEW arg,
         Argument(m, arg) \in S, NEW pos \in Nat, pos <= Len(s), Spliced(t, s, pos, pos, << Argument(m, arg) >>)
  PROVE  Does(InsertOne(m, pos, arg), S, s, t, pos = Len(s) \/ Len(s) + 1 > Capacity(m))
<1> DEFINE v == Argument(m, arg)
           values == << v >>
           strong == pos = Len(s) \/ Len(s) + 1 > Capacity(m)
           r == InsertOne(m, pos, arg)
<1> HIDE DEF v
<1>1. v \in S /\ values \in Seq(S) /\ Len(values) = 1 /\ Spliced(t, s, pos, pos, values)
  BY DEF v
<1>2. r = IF m.size = Capacity(m) THEN InsertInNew(m, pos, values, Doubled(m))
          ELSE IF pos = m.size THEN ConstructAtEnd(m, values)
          ELSE InsertInside(m, pos, v)
  BY DEF InsertOne, v
<1> HIDE DEF r
<1>3. /\ m.size = Len(s) /\ Len(s) \in Nat /\ Capacity(m) \in Nat /\ m.size <= Capacity(m)
      /\ Plain(m, S) /\ Holds(m, s) /\ s \in Seq(S)
  BY StateParts DEF Ready, Plain, Alive, Holds, Capacity
<1>4. strong \in BOOLEAN
  OBVIOUS
<1>5. Len(t) = Len(s) + 1
  BY <1>1, <1>3 DEF Spliced
<1>6. CASE m.size = Capacity(m)
  <2>1. Doubled(m) \in Nat /\ Len(t) <= Doubled(m)
    BY <1>3, <1>5 DEF Doubled
  <2>2. Does(r, S, s, t, TRUE)
    BY <1>1, <1>2, <1>6, <2>1, InsertInNewDoes
  <2>3. QED
    BY <1>4, <2>2, DoesWeaker DEF r
<1>7. CASE m.size # Capacity(m) /\ pos = m.size
  <2>1. r = ConstructAtEnd(m, values)
    BY <1>2, <1>7
  <2> HIDE DEF values
  <2>2. m.size + Len(values) <= Capacity(m)
    BY <1>1, <1>3, <1>7
  <2>3. Plain(r, S) /\ (r.threw => Holds(r, s)) /\ (~ r.threw => Holds(r, s \o values))
    BY <1>1, <1>3, <2>1, <2>2, AppendDoes
  <2>4. PICK u \in Seq(S) : u = s \o values /\ Joined(u, S, s, values)
    <3>1. Joined(s \o values, S, s, values)
      BY <1>1, <1>3, JoinedAre
    <3>2. s \o values \in Seq(S)
      BY <3>1 DEF Joined
    <3>3. QED
      BY <3>1, <3>2
  <2>5. ASSUME NEW i \in 1 .. Len(t) PROVE t[i] = u[i]
    <3>1. CASE i <= Len(s)
      BY <1>1, <1>3, <1>7, <2>4, <3>1 DEF Joined, Spliced
    <3>2. CASE ~ (i <= Len(s))
      <4>1. i = Len(s) + 1 /\ 1 \in 1 .. Len(values)
        BY <1>1, <1>3, <1>5, <3>2
      <4>2. u[Len(s) + 1] = values[1]
        BY <2>4, <4>1 DEF Joined
      <4>3. t[pos + 1] = values[1]
        BY <1>1, <4>1 DEF Spliced
      <4>4. QED
        BY <1>3, <1>7, <4>1, <4>2, <4>3
    <3>3. QED
      BY <3>1, <3>2
  <2>6. Len(u) = Len(t)
    BY <1>1, <1>5, <2>4 DEF Joined
  <2>7. ~ r.threw => Holds(r, t)
    BY <2>3, <2>4, <2>5, <2>6 DEF Holds
  <2>8. r.threw => Len(s) <= r.size /\ r.size <= Len(t)
    BY <1>3, <1>5, <2>3 DEF Holds
  <2>9. Does(r, S, s, t, strong)
    BY <2>3, <2>7, <2>8 DEF Does
  <2>10. QED
    BY <2>9 DEF r
<1>8. CASE m.size # Capacity(m) /\ pos # m.size
  <2>1. r = InsertInside(m, pos, v)
    BY <1>2, <1>8
  <2>2. pos < Len(s) /\ m.size < Capacity(m)
    BY <1>3, <1>8
  <2>3. Does(r, S, s, t, FALSE)
    BY <1>1, <2>1, <2>2, InsertInsideDoes
  <2>4. strong = FALSE
    BY <1>3, <1>8
  <2>5. QED
    BY <2>3, <2>4 DEF r
<1>9. QED
  BY <1>6, <1>7, <1>8

-----------------------------------------------------------------------------
(* The other operations                                                     *)

\* erase: the elements behind move down, and the last ones are destroyed.
LEMMA EraseDoes ==
  ASSUME NEW S, Raw \notin S, NEW m, ~ m.threw, NEW s, Ready(m, S, s), NEW t \in Seq(S),
         NEW from \in Nat, NEW to \in Nat, from <= to, to <= Len(s), Spliced(t, s, from, to, << >>)
  PROVE  Does(Erase(m, from, to), S, s, t, to = Len(s))
<1>a. PICK last \in Nat : last = Len(s)
  BY DEF Ready
<1>0. from <= to /\ to <= last
  BY <1>a
<1>b. PICK n \in Nat : n = from + last - to
  BY <1>0
<1>c. PICK k \in Nat : k = last - to
  BY <1>0
<1> DEFINE moved == Olds(m, to, last)
           c == CopyForward(m, moved, OldCells(from, n))
           r == Truncate(c, n)
<1>1. Plain(m, S) /\ Holds(m, s) /\ s \in Seq(S) /\ m.size = last
  BY <1>a DEF Ready, Holds
<1>2. Erase(m, from, to) = r
  <2>1. from + m.size - to = n
    BY <1>1, <1>b
  <2>2. QED
    BY <1>1, <2>1 DEF Erase
<1>3. moved \in Seq(S) /\ Len(moved) = k /\ \A j \in 1 .. k : moved[j] = s[to + j]
  <2>1. PartOf(moved, S, s, to, last)
    BY <1>a, <1>0, <1>1, OldsHeld
  <2> HIDE DEF moved
  <2>2. QED
    BY <1>c, <2>1 DEF PartOf
<1> HIDE DEF moved
<1>4. from <= n /\ n <= last /\ n - from = k /\ n = from + k
  BY <1>0, <1>b, <1>c
<1>5. /\ Len(t) = n
      /\ \A i \in 1 .. from : t[i] = s[i]
      /\ \A j \in 1 .. k : t[from + j] = s[to + j]
  <2>1. Len(<< >>) = 0
    OBVIOUS
  <2>2. /\ Len(t) = from + 0 + (last - to)
        /\ \A i \in 1 .. from : t[i] = s[i]
        /\ \A j \in 1 .. last - to : t[from + 0 + j] = s[to + j]
    BY <1>a, <2>1 DEF Spliced
  <2>3. from + 0 + (last - to) = n /\ last - to = k /\ from + 0 = from
    BY <1>0, <1>b, <1>c
  <2>4. QED
    BY <2>2, <2>3
<1>6. Overwritten(c, m, S, s, from, n, moved)
  BY <1>a, <1>1, <1>3, <1>4, OverwriteDoes
<1> HIDE DEF c
<1>7. /\ Plain(c, S) /\ c.size = last
      /\ c.threw => k > 0
      /\ ~ c.threw => \A i \in 1 .. last :
           c.mem["old"][i] = IF from < i /\ i <= n THEN moved[i - from] ELSE s[i]
  BY <1>a, <1>3, <1>6 DEF Overwritten
<1>8. Truncated(r, c, S, n)
  BY <1>4, <1>7, TruncateDoes
<1> HIDE DEF r
<1>9. CASE c.threw
  <2>1. r = c
    BY <1>8, <1>9 DEF Truncated
  <2>2. to # Len(s)
    BY <1>a, <1>c, <1>7, <1>9
  <2>3. Does(r, S, s, t, to = Len(s))
    BY <1>a, <1>4, <1>5, <1>7, <1>9, <2>1, <2>2 DEF Does
  <2>4. QED
    BY <1>2, <2>3
<1>10. CASE ~ c.threw
  <2>1. /\ Plain(r, S) /\ ~ r.threw /\ r.size = n
        /\ \A i \in 1 .. n : r.mem["old"][i] = c.mem["old"][i]
    BY <1>8, <1>10 DEF Truncated
  <2>2. ASSUME NEW i \in 1 .. n PROVE r.mem["old"][i] = t[i]
    <3>1. c.mem["old"][i] = IF from < i /\ i <= n THEN moved[i - from] ELSE s[i]
      BY <1>4, <1>7, <1>10
    <3>2. CASE i <= from
      BY <1>5, <2>1, <3>1, <3>2
    <3>3. CASE from < i
      <4>1. PICK j \in 1 .. k : j = i - from
        <5>1. i - from \in 1 .. k
          BY <1>4, <3>3
        <5>2. QED
          BY <5>1
      <4>2. from + j = i
        BY <4>1
      <4>3. moved[j] = s[to + j] /\ t[from + j] = s[to + j]
        BY <1>3, <1>5
      <4>4. QED
        BY <2>1, <3>1, <3>3, <4>1, <4>2, <4>3
    <3>4. QED
      BY <3>2, <3>3
  <2>3. Holds(r, t)
    BY <1>5, <2>1, <2>2 DEF Holds
  <2>4. Does(r, S, s, t, to = Len(s))
    BY <2>1, <2>3 DEF Does
  <2>5. QED
    BY <1>2, <2>4
<1>11. QED
  BY <1>7, <1>9, <1>10, StateParts DEF Plain

\* operator= and assign leave the values they are given, with no effect if they throw while
\* they replace the block.
LEMMA AssignAllDoes ==
  ASSUME NEW S, Raw \notin S, NEW m, ~ m.threw, NEW s, Ready(m, S, s), NEW t \in Seq(S)
  PROVE  Does(AssignAll(m, t), S, s, t, Len(t) > Capacity(m))
<1> DEFINE strong == Len(t) > Capacity(m)
           r == AssignAll(m, t)
<1>1. /\ Plain(m, S) /\ Holds(m, s) /\ s \in Seq(S) /\ m.size = Len(s) /\ m.built = 0
      /\ Capacity(m) \in Nat /\ Len(s) <= Capacity(m)
  BY StateParts DEF Ready, Plain, Alive, Holds, Capacity
<1>2. PICK n \in Nat : n = Len(t)
  OBVIOUS
<1>3. PICK last \in Nat : last = Len(s)
  BY <1>1
<1>z. PICK zero \in Nat : zero = 0
  OBVIOUS
<1>4. CASE n > Capacity(m)
  <2>1. r = CopyToNew(m, n, t)
    BY <1>2, <1>4 DEF AssignAll
  <2>2. Len(t) <= n /\ Len(s) <= Len(t)
    BY <1>1, <1>2, <1>4
  <2>3. Does(r, S, s, t, TRUE)
    BY <1>1, <2>1, <2>2, CopyToNewDoes
  <2>4. strong \in BOOLEAN
    OBVIOUS
  <2>5. QED
    BY <2>3, <2>4, DoesWeaker
<1>5. CASE ~ (n > Capacity(m)) /\ n <= last
  <2> DEFINE c == CopyForward(m, t, OldCells(zero, n))
  <2>1. r = Truncate(c, n)
    BY <1>1, <1>2, <1>3, <1>z, <1>5 DEF AssignAll
  <2>2. Overwritten(c, m, S, s, zero, n, t)
    <3>1. zero <= n /\ n <= Len(s) /\ Len(t) = n - zero
      BY <1>2, <1>3, <1>z, <1>5
    <3>2. QED
      BY <1>1, <3>1, OverwriteDoes
  <2> HIDE DEF c, r
  <2>3. /\ Plain(c, S) /\ c.size = last
        /\ ~ c.threw => \A i \in 1 .. last :
             c.mem["old"][i] = IF zero < i /\ i <= n THEN t[i - zero] ELSE s[i]
    BY <1>3, <2>2 DEF Overwritten
  <2>4. Truncated(r, c, S, n)
    BY <1>5, <2>1, <2>3, TruncateDoes
  <2>5. ~ strong
    BY <1>2, <1>5
  <2>6. CASE c.threw
    <3>1. r = c
      BY <2>4, <2>6 DEF Truncated
    <3>2. Does(r, S, s, t, strong)
      BY <1>2, <1>3, <1>5, <2>3, <2>5, <2>6, <3>1 DEF Does
    <3>3. QED
      BY <3>2 DEF r
  <2>7. CASE ~ c.threw
    <3>1. /\ Plain(r, S) /\ ~ r.threw /\ r.size = n
          /\ \A i \in 1 .. n : r.mem["old"][i] = c.mem["old"][i]
      BY <2>4, <2>7 DEF Truncated
    <3>2. ASSUME NEW i \in 1 .. n PROVE c.mem["old"][i] = t[i]
      <4>1. zero < i /\ i <= n /\ i - zero = i /\ i \in 1 .. last
        BY <1>z, <1>5
      <4>2. QED
        BY <2>3, <2>7, <4>1
    <3>3. Holds(r, t)
      BY <1>2, <3>1, <3>2 DEF Holds
    <3>4. Does(r, S, s, t, strong)
      BY <3>1, <3>3 DEF Does
    <3>5. QED
      BY <3>4 DEF r
  <2>8. QED
    BY <2>3, <2>6, <2>7, StateParts DEF Plain
<1>6. CASE ~ (n > Capacity(m)) /\ ~ (n <= last)
  <2>0. PICK more \in Nat : more = n - last
    BY <1>6
  <2> DEFINE front == First(t, last)
             end == Last(t, more)
             c == CopyForward(m, front, OldCells(zero, last))
  <2>1. r = ConstructAtEnd(c, end)
    BY <1>1, <1>2, <1>3, <1>z, <1>6, <2>0 DEF AssignAll
  <2>2. front \in Seq(S) /\ Len(front) = last /\ \A j \in 1 .. last : front[j] = t[j]
    <3>1. Smaller(last, Len(t)) = last
      BY <1>2, <1>6 DEF Smaller
    <3>2. /\ front \in Seq(S) /\ Len(front) = Smaller(last, Len(t))
          /\ \A j \in 1 .. Smaller(last, Len(t)) : front[j] = t[j]
      BY FirstAre
    <3> HIDE DEF front
    <3>3. QED
      BY <3>1, <3>2
  <2>3. end \in Seq(S) /\ Len(end) = more /\ \A j \in 1 .. more : end[j] = t[last + j]
    <3>1. Smaller(more, Len(t)) = more /\ Len(t) - more = last
      BY <1>2, <1>6, <2>0 DEF Smaller
    <3>2. /\ end \in Seq(S) /\ Len(end) = Smaller(more, Len(t))
          /\ \A j \in 1 .. Smaller(more, Len(t)) : end[j] = t[Len(t) - Smaller(more, Len(t)) + j]
      BY LastAre
    <3> HIDE DEF end
    <3>3. QED
      BY <3>1, <3>2
  <2> HIDE DEF front, end
  <2>4. Overwritten(c, m, S, s, zero, last, front)
    <3>1. zero <= last /\ last <= Len(s) /\ Len(front) = last - zero
      BY <1>3, <1>z, <2>2
    <3>2. QED
      BY <1>1, <2>2, <3>1, OverwriteDoes
  <2> HIDE DEF c, r
  <2>5. /\ Plain(c, S) /\ c.size = last /\ Capacity(c) = Capacity(m)
        /\ ~ c.threw => \A i \in 1 .. last :
             c.mem["old"][i] = IF zero < i /\ i <= last THEN front[i - zero] ELSE s[i]
    BY <1>3, <2>4 DEF Overwritten
  <2>6. strong = FALSE
    BY <1>2, <1>6
  <2>7. CASE c.threw
    <3>1. r = c
      BY <2>1, <2>7, ThrownStays
    <3>2. Does(r, S, s, t, FALSE)
      BY <1>2, <1>3, <1>6, <2>5, <2>7, <3>1 DEF Does
    <3>3. QED
      BY <2>6, <3>2 DEF r
  <2>8. CASE ~ c.threw
    <3>1. ASSUME NEW i \in 1 .. last PROVE c.mem["old"][i] = front[i]
      <4>1. zero < i /\ i <= last /\ i - zero = i
        BY <1>z
      <4>2. QED
        BY <2>5, <2>8, <4>1
    <3>2. Holds(c, front)
      BY <2>2, <2>5, <3>1 DEF Holds
    <3>3. c.size + Len(end) <= Capacity(c)
      BY <1>1, <1>6, <2>0, <2>3, <2>5
    <3>4. Plain(r, S) /\ (r.threw => Holds(r, front)) /\ (~ r.threw => Holds(r, front \o end))
      BY <2>1, <2>2, <2>3, <2>5, <2>8, <3>2, <3>3, AppendDoes
    <3>5. Joined(front \o end, S, front, end)
      BY <2>2, <2>3, JoinedAre
    <3>6. PICK u \in Seq(S) : u = front \o end /\ Joined(u, S, front, end)
      <4>1. front \o end \in Seq(S)
        BY <3>5 DEF Joined
      <4>2. QED
        BY <3>5, <4>1
    <3>7. Len(u) = n
      BY <1>6, <2>0, <2>2, <2>3, <3>6 DEF Joined
    <3>8. ASSUME NEW i \in 1 .. n PROVE u[i] = t[i]
      <4>1. CASE i <= last
        BY <2>2, <3>6, <4>1 DEF Joined
      <4>2. CASE ~ (i <= last)
        <5>1. PICK j \in 1 .. more : j = i - last
          <6>1. i - last \in 1 .. more
            BY <2>0, <4>2
          <6>2. QED
            BY <6>1
        <5>2. last + j = i
          BY <5>1
        <5>3. u[last + j] = end[j] /\ end[j] = t[last + j]
          BY <2>2, <2>3, <3>6 DEF Joined
        <5>4. QED
          BY <5>2, <5>3
      <4>3. QED
        BY <4>1, <4>2
    <3>9. ~ r.threw => Holds(r, t)
      BY <1>2, <3>4, <3>6, <3>7, <3>8 DEF Holds
    <3>10. r.threw => r.size = last
      BY <2>2, <3>4 DEF Holds
    <3>11. Does(r, S, s, t, FALSE)
      BY <1>2, <1>3, <1>6, <3>4, <3>9, <3>10 DEF Does
    <3>12. QED
      BY <2>6, <3>11 DEF r
  <2>9. QED
    BY <2>5, <2>7, <2>8, StateParts DEF Plain
<1>7. QED
  BY <1>4, <1>5, <1>6

\* pop_back destroys the last element.
LEMMA PopBackDoes ==
  ASSUME NEW S, Raw \notin S, NEW m, ~ m.threw, NEW s, Ready(m, S, s), NEW t \in Seq(S),
         Len(s) > 0, Spliced(t, s, Len(s) - 1, Len(s), << >>)
  PROVE  Does(PopBack(m), S, s, t, TRUE)
<1>0. Plain(m, S) /\ Holds(m, s) /\ s \in Seq(S)
  BY DEF Ready
<1>1. PICK n \in Nat : n = Len(s) - 1
  BY <1>0
<1> DEFINE r == Truncate(m, n)
<1>2. PopBack(m) = r /\ n <= m.size /\ n + 1 = Len(s)
  BY <1>0, <1>1 DEF PopBack, Holds
<1>3. Truncated(r, m, S, n)
  BY <1>0, <1>2, TruncateDoes
<1> HIDE DEF r
<1>4. /\ Plain(r, S) /\ ~ r.threw /\ r.size = n
      /\ \A i \in 1 .. n : r.mem["old"][i] = m.mem["old"][i]
  BY <1>3 DEF Truncated
<1>5. Len(t) = n /\ \A i \in 1 .. n : t[i] = s[i]
  <2>1. Len(<< >>) = 0
    OBVIOUS
  <2>2. Len(t) = n + 0 + (Len(s) - Len(s)) /\ \A i \in 1 .. n : t[i] = s[i]
    BY <1>1, <2>1 DEF Spliced
  <2>3. QED
    BY <1>0, <2>2
<1>6. ASSUME NEW i \in 1 .. n PROVE r.mem["old"][i] = t[i]
  <2>1. m.mem["old"][i] = s[i]
    BY <1>0, <1>2 DEF Holds
  <2>2. QED
    BY <1>4, <1>5, <2>1
<1>7. Holds(r, t)
  BY <1>4, <1>5, <1>6 DEF Holds
<1>8. Does(r, S, s, t, TRUE)
  BY <1>4, <1>7 DEF Does
<1>9. QED
  BY <1>2, <1>8

\* reserve changes no element, also if it throws.
LEMMA ReserveDoes ==
  ASSUME NEW S, Raw \notin S, NEW m, ~ m.threw, NEW s, Ready(m, S, s), NEW n \in Nat
  PROVE  Does(Reserve(m, n), S, s, s, TRUE)
<1>1. /\ Plain(m, S) /\ Holds(m, s) /\ s \in Seq(S) /\ m.size = Len(s) /\ m.built = 0
      /\ Capacity(m) \in Nat /\ Len(s) <= Capacity(m)
  BY StateParts DEF Ready, Plain, Alive, Holds, Capacity
<1>2. CASE Capacity(m) < n
  <2>1. PICK zero \in Nat, last \in Nat : zero = 0 /\ last = Len(s)
    BY <1>1
  <2> DEFINE w == Olds(m, zero, last)
  <2>2. PartOf(w, S, s, zero, last)
    BY <1>1, <2>1, OldsHeld
  <2>3. Reserve(m, n) = CopyToNew(m, n, w)
    BY <1>1, <1>2, <2>1 DEF Reserve
  <2> HIDE DEF w
  <2>4. w \in Seq(S) /\ Len(w) = Len(s) /\ \A i \in 1 .. Len(s) : w[i] = s[i]
    BY <2>1, <2>2 DEF PartOf
  <2>5. w = s
    BY <1>1, <2>4
  <2>6. Len(s) <= n /\ Len(s) <= Len(s)
    BY <1>1, <1>2
  <2>7. Does(CopyToNew(m, n, s), S, s, s, TRUE)
    BY <1>1, <2>6, CopyToNewDoes
  <2>8. QED
    BY <2>3, <2>5, <2>7
<1>3. CASE ~ (Capacity(m) < n)
  <2>1. Reserve(m, n) = m
    BY <1>3 DEF Reserve
  <2>2. Does(m, S, s, s, TRUE)
    BY <1>1 DEF Does
  <2>3. QED
    BY <2>1, <2>2
<1>4. QED
  BY <1>2, <1>3

-----------------------------------------------------------------------------
(* Calls                                                                    *)

\* Raw is no value, and the bounds of the model are numbers.
VectorParameters == Raw \notin Value /\ Plenty \in Nat /\ MaxSize \in Nat

\* A vector between calls
Intact(v) == v \in [cells : Seq(Cellular(Value)), size : Nat] /\ Alive(v.cells, v.size)

\* The inductive invariant
IInv ==
    /\ vector \in [Vectors -> [cells : Seq(Cellular(Value)), size : Nat]]
    /\ \A x \in Vectors : Alive(vector[x].cells, vector[x].size)
    /\ bad = FALSE

\* What a call must make of the vector, and the values that it may use
Target(x, c) == Sequence!Replaced(Content(vector[x]), c)
Palette(x, c) == Sequence!Values(Content(vector[x])) \union Sequence!Values(Target(x, c))

\* The parts of a vector, as the provers need them
LEMMA IntactParts ==
  ASSUME NEW v, Intact(v)
  PROVE  /\ v.cells \in Seq(Cellular(Value)) /\ v.size \in Nat /\ Len(v.cells) \in Nat
         /\ v.size <= Len(v.cells) /\ \A i \in 1 .. Len(v.cells) : v.cells[i] # Raw <=> i <= v.size
BY DEF Intact, Alive

\* The content of a vector has values, and no raw cells.
LEMMA ContentAre ==
  ASSUME NEW v, Intact(v)
  PROVE  /\ Content(v) \in Seq(Value) /\ Len(Content(v)) = v.size
         /\ \A i \in 1 .. v.size : Content(v)[i] = v.cells[i] /\ v.cells[i] \in Value
<1>1. /\ v.cells \in Seq(Cellular(Value)) /\ v.size \in Nat /\ Len(v.cells) \in Nat
      /\ v.size <= Len(v.cells) /\ \A i \in 1 .. Len(v.cells) : v.cells[i] # Raw <=> i <= v.size
  BY IntactParts
<1>2. ASSUME NEW i \in 1 .. v.size PROVE v.cells[i] \in Value
  <2>1. i \in 1 .. Len(v.cells) /\ i <= v.size
    BY <1>1
  <2>2. v.cells[i] # Raw /\ v.cells[i] \in Cellular(Value)
    BY <1>1, <2>1
  <2>3. QED
    BY <2>2 DEF Cellular
<1>3. Content(v) = [i \in 1 .. v.size |-> v.cells[i]]
  <2>1. SubSeq(v.cells, 1, v.size) = [i \in 1 .. v.size |-> v.cells[i]]
    BY <1>1
  <2>2. QED
    BY <2>1 DEF Content
<1>4. [i \in 1 .. v.size |-> v.cells[i]] \in Seq(Value) /\ Len([i \in 1 .. v.size |-> v.cells[i]]) = v.size
  BY <1>1, <1>2
<1>5. QED
  BY <1>2, <1>3, <1>4

\* What AbstractSequences says of a replacement, element by element
LEMMA ReplacedAre ==
  ASSUME NEW V, NEW s \in Seq(V), NEW values \in Seq(V), NEW from \in Nat, NEW to \in Nat, from <= to,
         to <= Len(s), NEW strong
  PROVE  /\ Sequence!Replaced(s, Replaces(from, to, values, strong)) \in Seq(V)
         /\ Spliced(Sequence!Replaced(s, Replaces(from, to, values, strong)), s, from, to, values)
<1> DEFINE head == SubSeq(s, 1, from)
           tail == SubSeq(s, to + 1, Len(s))
           u == head \o values
           t == u \o tail
<1>1. Sequence!Replaced(s, Replaces(from, to, values, strong)) = t
  BY DEF Sequence!Replaced, Replaces
<1>2. head \in Seq(V) /\ Len(head) = from /\ \A i \in 1 .. from : head[i] = s[i]
  OBVIOUS
<1>3. tail \in Seq(V) /\ Len(tail) = Len(s) - to /\ \A j \in 1 .. Len(s) - to : tail[j] = s[to + j]
  OBVIOUS
<1> HIDE DEF head, tail
<1>4. Joined(u, V, head, values)
  BY <1>2, JoinedAre
<1>5. /\ u \in Seq(V) /\ Len(u) = from + Len(values) /\ \A i \in 1 .. from : u[i] = s[i]
      /\ \A j \in 1 .. Len(values) : u[from + j] = values[j]
  <2> HIDE DEF u
  <2>1. QED
    BY <1>2, <1>4 DEF Joined
<1> HIDE DEF u
<1>6. Joined(t, V, u, tail)
  BY <1>3, <1>5, JoinedAre
<1> HIDE DEF t
<1>7. t \in Seq(V) /\ Len(t) = from + Len(values) + (Len(s) - to)
  BY <1>3, <1>5, <1>6 DEF Joined
<1>8. ASSUME NEW i \in 1 .. from PROVE t[i] = s[i]
  <2>1. i \in 1 .. Len(u)
    BY <1>5
  <2>2. QED
    BY <1>5, <1>6, <2>1 DEF Joined
<1>9. ASSUME NEW j \in 1 .. Len(values) PROVE t[from + j] = values[j]
  <2>1. PICK i \in 1 .. Len(u) : i = from + j
    BY <1>5
  <2>2. t[i] = u[i]
    BY <1>6 DEF Joined
  <2>3. QED
    BY <1>5, <2>1, <2>2
<1>10. ASSUME NEW j \in 1 .. Len(s) - to PROVE t[from + Len(values) + j] = s[to + j]
  <2>1. t[Len(u) + j] = tail[j]
    BY <1>3, <1>6 DEF Joined
  <2>2. QED
    BY <1>3, <1>5, <2>1
<1>11. Spliced(t, s, from, to, values)
  BY <1>7, <1>8, <1>9, <1>10 DEF Spliced
<1>12. QED
  BY <1>1, <1>7, <1>11

\* What a call works on, and what it must make of it
Begun(m, x, c, from, to, values) ==
    /\ Ready(m, Palette(x, c), Content(vector[x])) /\ ~ m.threw /\ Raw \notin Palette(x, c)
    /\ Target(x, c) \in Seq(Palette(x, c)) /\ values \in Seq(Palette(x, c))
    /\ Spliced(Target(x, c), Content(vector[x]), from, to, values)
    /\ m.mem["old"] = vector[x].cells /\ m.size = Size(x) /\ Len(Content(vector[x])) = Size(x)

\* A call begins on a memory that holds the content of the vector, with values of what is
\* there before it or should be there after it.
LEMMA CallBegins ==
  ASSUME VectorParameters, IInv, NEW x \in Vectors, NEW from \in Nat, NEW to \in Nat, from <= to, to <= Size(x),
         NEW values \in Seq(Value), NEW strong, NEW fuel \in Nat
  PROVE  Begun(Start(vector[x], fuel), x, Replaces(from, to, values, strong), from, to, values)
<1> DEFINE v == vector[x]
           s == Content(v)
           c == Replaces(from, to, values, strong)
           t == Target(x, c)
           S == Palette(x, c)
           m == Start(v, fuel)
<1>1. Intact(v)
  BY DEF IInv, Intact
<1>2. /\ v.cells \in Seq(Cellular(Value)) /\ v.size \in Nat /\ Len(v.cells) \in Nat
      /\ v.size <= Len(v.cells) /\ \A i \in 1 .. Len(v.cells) : v.cells[i] # Raw <=> i <= v.size
  BY <1>1, IntactParts
<1>3. /\ s \in Seq(Value) /\ Len(s) = v.size
      /\ \A i \in 1 .. v.size : s[i] = v.cells[i] /\ v.cells[i] \in Value
  BY <1>1, ContentAre
<1>4. t \in Seq(Value) /\ Spliced(t, s, from, to, values)
  <2>1. to <= Len(s)
    BY <1>3 DEF Size
  <2>2. QED
    BY <1>3, <2>1, ReplacedAre DEF Target
<1>5. /\ S \subseteq Value /\ \A i \in 1 .. Len(s) : s[i] \in S
      /\ \A i \in 1 .. Len(t) : t[i] \in S
  BY <1>3, <1>4 DEF Palette, Sequence!Values
<1> HIDE DEF s, t, S, c
<1>6. s \in Seq(S) /\ t \in Seq(S) /\ Raw \notin S
  <2>1. \A T : \A q \in Seq(T) : (\A i \in 1 .. Len(q) : q[i] \in S) => q \in Seq(S)
    OBVIOUS
  <2>2. s \in Seq(S)
    BY <1>3, <1>5, <2>1
  <2>3. t \in Seq(S)
    BY <1>4, <1>5, <2>1
  <2>4. QED
    BY <1>5, <2>2, <2>3 DEF VectorParameters
<1>7. values \in Seq(S)
  <2>1. ASSUME NEW j \in 1 .. Len(values) PROVE values[j] \in S
    <3>1. t[from + j] = values[j] /\ Len(t) = from + Len(values) + (Len(s) - to)
      BY <1>4 DEF Spliced
    <3>2. from + j \in 1 .. Len(t)
      BY <1>3, <3>1 DEF Size
    <3>3. QED
      BY <1>5, <3>1, <3>2
  <2>2. QED
    BY <2>1
<1>8. v.cells \in Seq(Cellular(S))
  <2>1. ASSUME NEW i \in 1 .. Len(v.cells) PROVE v.cells[i] \in Cellular(S)
    <3>1. CASE i <= v.size
      <4>1. i \in 1 .. v.size /\ i \in 1 .. Len(s)
        BY <1>2, <1>3, <3>1
      <4>2. s[i] \in S /\ s[i] = v.cells[i]
        BY <1>3, <1>5, <4>1
      <4>3. QED
        BY <4>2 DEF Cellular
    <3>2. CASE ~ (i <= v.size)
      BY <1>2, <3>2 DEF Cellular
    <3>3. QED
      BY <3>1, <3>2
  <2>2. \A T, U : \A q \in Seq(T) : (\A i \in 1 .. Len(q) : q[i] \in U) => q \in Seq(U)
    OBVIOUS
  <2>3. QED
    BY <1>2, <2>1, <2>2
<1> DEFINE mem == [b \in {"old", "new"} |-> IF b = "old" THEN v.cells ELSE << >>]
<1>a. m = [mem |-> mem, size |-> v.size, built |-> 0, fuel |-> fuel, threw |-> FALSE, bad |-> FALSE]
  BY DEF Start
<1>10. mem \in [Blocks -> Seq(Cellular(S))] /\ mem["old"] = v.cells /\ mem["new"] = << >>
  <2>1. << >> \in Seq(Cellular(S))
    OBVIOUS
  <2>2. QED
    BY <1>8, <2>1 DEF Blocks
<1> HIDE DEF mem, m
<1>9. m.mem = mem /\ m.size = v.size /\ m.built = 0 /\ ~ m.threw /\ ~ m.bad
  BY <1>a
<1>11. m \in States(S)
  BY <1>2, <1>a, <1>10 DEF States
<1>12. Plain(m, S)
  BY <1>2, <1>9, <1>10, <1>11 DEF Plain, Alive
<1>13. Holds(m, s)
  BY <1>3, <1>9, <1>10 DEF Holds
<1>14. Ready(m, S, s) /\ ~ m.threw
  BY <1>6, <1>9, <1>12, <1>13 DEF Ready
<1>15. QED
  BY <1>3, <1>4, <1>6, <1>7, <1>9, <1>10, <1>14 DEF Begun, s, t, S, c, m, Size

\* The palette has values only.
LEMMA PaletteAre ==
  ASSUME IInv, NEW x \in Vectors, NEW from \in Nat, NEW to \in Nat, from <= to, to <= Size(x),
         NEW values \in Seq(Value), NEW strong
  PROVE  /\ Intact(vector[x]) /\ Content(vector[x]) \in Seq(Value)
         /\ Target(x, Replaces(from, to, values, strong)) \in Seq(Value)
         /\ Palette(x, Replaces(from, to, values, strong)) \subseteq Value
<1> DEFINE s == Content(vector[x])
           t == Target(x, Replaces(from, to, values, strong))
<1>1. Intact(vector[x])
  BY DEF IInv, Intact
<1>2. s \in Seq(Value) /\ Len(s) = vector[x].size
  BY <1>1, ContentAre
<1>3. t \in Seq(Value)
  <2>1. to <= Len(s)
    BY <1>2 DEF Size
  <2>2. QED
    BY <1>2, <2>1, ReplacedAre DEF Target
<1>4. Palette(x, Replaces(from, to, values, strong)) \subseteq Value
  BY <1>2, <1>3 DEF Palette, Sequence!Values
<1>5. QED
  BY <1>1, <1>2, <1>3, <1>4

\* The vector that a call leaves
Left(m) == [cells |-> m.mem["old"], size |-> m.size]

\* The vector that a call leaves has the elements of the memory it ends with.
LEMMA LeftAre ==
  ASSUME Raw \notin Value, NEW S, S \subseteq Value, NEW m, Plain(m, S)
  PROVE  /\ Intact(Left(m)) /\ Content(Left(m)) \in Seq(S) /\ Len(Content(Left(m))) = m.size
         /\ \A i \in 1 .. m.size : Content(Left(m))[i] = m.mem["old"][i]
<1> DEFINE v == Left(m)
           cells == m.mem["old"]
<1>1. m \in States(S) /\ Alive(cells, m.size)
  BY DEF Plain
<1>2. cells \in Seq(Cellular(S)) /\ m.size \in Nat
  BY <1>1, StateParts
<1>3. v.cells = cells /\ v.size = m.size
  BY DEF Left
<1>4. cells \in Seq(Cellular(Value))
  <2>1. Cellular(S) \subseteq Cellular(Value)
    BY DEF Cellular
  <2>2. QED
    BY <1>2, <2>1, WiderSequences
<1>5. Intact(v)
  BY <1>1, <1>2, <1>4 DEF Intact, Left
<1> HIDE DEF v, cells
<1>6. /\ Content(v) \in Seq(Value) /\ Len(Content(v)) = m.size
      /\ \A i \in 1 .. m.size : Content(v)[i] = cells[i]
  BY <1>3, <1>5, ContentAre
<1>7. ASSUME NEW i \in 1 .. m.size PROVE Content(v)[i] \in S
  <2>1. i \in 1 .. Len(cells) /\ cells[i] # Raw
    BY <1>1, <1>2 DEF Alive
  <2>2. cells[i] \in Cellular(S)
    BY <1>2, <2>1
  <2>3. QED
    BY <1>6, <2>1, <2>2 DEF Cellular
<1>8. Content(v) \in Seq(S)
  BY <1>2, <1>6, <1>7
<1>9. QED
  BY <1>5, <1>6, <1>8 DEF v, cells

\* A call that does what it should has the effect that AbstractSequences allows: all of
\* it, or none, or values and lengths between.
LEMMA EffectAre ==
  ASSUME Raw \notin Value, NEW s \in Seq(Value), NEW t \in Seq(Value), NEW m, NEW strong \in BOOLEAN,
         Does(m, Sequence!Values(s) \union Sequence!Values(t), s, t, strong)
  PROVE  IF ~ m.threw THEN Content(Left(m)) = t
         ELSE IF strong THEN Content(Left(m)) = s ELSE Sequence!Basic(s, t, Content(Left(m)))
<1> DEFINE S == Sequence!Values(s) \union Sequence!Values(t)
           r == Content(Left(m))
<1>1. S \subseteq Value
  BY DEF Sequence!Values
<1> HIDE DEF S
<1>2. Does(m, S, s, t, strong) /\ Plain(m, S)
  BY DEF S, Does
<1>3. r \in Seq(S) /\ Len(r) = m.size /\ \A i \in 1 .. m.size : r[i] = m.mem["old"][i]
  BY <1>1, <1>2, LeftAre
<1> HIDE DEF r
<1>4. ASSUME NEW q \in Seq(Value), Holds(m, q) PROVE r = q
  <2>1. Len(r) = Len(q) /\ \A i \in 1 .. Len(q) : r[i] = q[i]
    BY <1>3, <1>4 DEF Holds
  <2>2. r \in Seq(Value)
    BY <1>1, <1>3, WiderSequences
  <2>3. QED
    BY <2>1, <2>2
<1>5. ~ m.threw => r = t
  BY <1>2, <1>4 DEF Does
<1>6. m.threw /\ strong => r = s
  BY <1>2, <1>4 DEF Does
<1>7. ASSUME m.threw PROVE Sequence!Basic(s, t, r)
  <2>1. Sequence!Values(r) \subseteq S
    BY <1>3 DEF Sequence!Values
  <2>2. \/ Len(s) <= Len(r) /\ Len(r) <= Len(t)
        \/ Len(t) <= Len(r) /\ Len(r) <= Len(s)
    BY <1>2, <1>3, <1>7 DEF Does
  <2>3. Len(r) \in Nat /\ Len(s) \in Nat /\ Len(t) \in Nat
    BY <1>3
  <2>4. /\ Len(r) <= Len(s) \/ Len(r) <= Len(t)
        /\ Len(r) >= Len(s) \/ Len(r) >= Len(t)
    BY <2>2, <2>3
  <2>5. QED
    BY <2>1, <2>4 DEF Sequence!Basic, S
<1>8. QED
  BY <1>5, <1>6, <1>7 DEF r

\* What a call makes of the vector it is given
Good(m, x, c) == Does(m, Palette(x, c), Content(vector[x]), Target(x, c), c.strong)

\* A call that does what it should keeps the invariant, and is a call on sequences.
LEMMA FinishStep ==
  ASSUME VectorParameters, IInv, NEW x \in Vectors, NEW from \in Nat, NEW to \in Nat, from <= to,
         to <= Size(x), NEW values \in Seq(Value), NEW strong \in BOOLEAN, NEW m,
         Good(m, x, Replaces(from, to, values, strong)), Finish(x, m, Replaces(from, to, values, strong))
  PROVE  IInv' /\ Sequence!SequencesNext
<1> DEFINE c == Replaces(from, to, values, strong)
           s == Content(vector[x])
           t == Target(x, c)
           S == Palette(x, c)
           v == Left(m)
<1>0. c.from = from /\ c.to = to /\ c.values = values /\ c.strong = strong
  BY DEF Replaces
<1>1. /\ vector' = [vector EXCEPT ![x] = v]
      /\ bad' = (bad \/ m.bad \/ m.mem["new"] # << >>)
      /\ call' = [op |-> "replace", on |-> x, turn |-> 1 - call.turn, threw |-> m.threw,
                  from |-> c.from, to |-> c.to, values |-> c.values, strong |-> c.strong]
  BY DEF Finish, Left
<1>2. s \in Seq(Value) /\ t \in Seq(Value) /\ S \subseteq Value
  BY PaletteAre
<1>3. Does(m, S, s, t, strong)
  BY <1>0 DEF Good
<1> HIDE DEF c
<1>4. Raw \notin Value /\ Plain(m, S)
  BY <1>3 DEF VectorParameters, Does
<1>5. Intact(v)
  BY <1>2, <1>4, LeftAre
<1>6. IF ~ m.threw THEN Content(v) = t
      ELSE IF strong THEN Content(v) = s ELSE Sequence!Basic(s, t, Content(v))
  BY <1>2, <1>3, <1>4, EffectAre DEF Palette
<1>7. ~ m.bad /\ m.mem["new"] = << >>
  BY <1>4 DEF Plain
<1> HIDE DEF v
<1>8. IInv'
  <2>1. vector' \in [Vectors -> [cells : Seq(Cellular(Value)), size : Nat]]
    BY <1>1, <1>5 DEF IInv, Intact
  <2>2. \A y \in Vectors : Alive(vector'[y].cells, vector'[y].size)
    BY <1>1, <1>5 DEF IInv, Intact
  <2>3. bad' = FALSE
    BY <1>1, <1>7 DEF IInv
  <2>4. QED
    BY <2>1, <2>2, <2>3 DEF IInv
<1>9. Sequence!SequencesNext
  <2>1. /\ call'.turn = 1 - call.turn /\ call'.op = "replace" /\ call'.on = x
        /\ call'.threw = m.threw /\ call'.strong = strong
    BY <1>0, <1>1
  <2>2. Sequence!Replaced(s, call') = t
    <3>1. call'.from = c.from /\ call'.to = c.to /\ call'.values = c.values
      BY <1>1
    <3>2. QED
      BY <3>1 DEF Target, Sequence!Replaced
  <2>3. vector'[x] = v /\ \A y \in Vectors : y # x => vector'[y] = vector[y]
    BY <1>1 DEF IInv
  <2>4. Sequence!Effect(call', Content(vector[x]), Content(vector'[x]))
    BY <1>6, <2>1, <2>2, <2>3 DEF Sequence!Effect
  <2>5. ASSUME NEW y \in Vectors
        PROVE  IF y = call'.on
               THEN call'.op = "replace" /\ Sequence!Effect(call', Content(vector[y]), Content(vector'[y]))
               ELSE Content(vector'[y]) = Content(vector[y])
    BY <2>1, <2>3, <2>4
  <2>6. QED
    BY <2>1, <2>5 DEF Sequence!SequencesNext
<1>10. QED
  BY <1>8, <1>9

\* An argument of a call is a value, whichever it is.
LEMMA ArgumentAre ==
  ASSUME IInv, NEW x \in Vectors, NEW arg \in Arguments(x), NEW fuel \in Nat
  PROVE  Given(x, arg) \in Value /\ Argument(Start(vector[x], fuel), arg) = Given(x, arg)
<1> DEFINE v == vector[x]
           m == Start(v, fuel)
<1>1. Intact(v)
  BY DEF IInv, Intact
<1>2. /\ v.cells \in Seq(Cellular(Value)) /\ v.size \in Nat /\ Len(v.cells) \in Nat /\ v.size <= Len(v.cells)
      /\ \A i \in 1 .. v.size : v.cells[i] \in Value
  BY <1>1, IntactParts, ContentAre
<1>3. CASE arg \in Value
  BY <1>3 DEF Given, Argument
<1>4. CASE arg \notin Value
  <2>1. arg + 1 \in 1 .. v.size /\ arg + 1 \in DOMAIN v.cells
    BY <1>2, <1>4 DEF Arguments, Size
  <2>2. m.mem["old"] = v.cells
    BY DEF Start
  <2> HIDE DEF m
  <2>3. Cell(m, << "old", arg + 1 >>) = v.cells[arg + 1]
    BY <2>1, <2>2 DEF Cell, Inside
  <2>4. QED
    BY <1>2, <1>4, <2>1, <2>3 DEF Given, Argument, m
<1>5. QED
  BY <1>3, <1>4

\* A call runs with enough of everything, or with less than it needs.
LEMMA FuelLeft ==
  ASSUME VectorParameters, NEW x, NEW c, NEW r, Good(r, x, c), NEW k \in 0 .. Plenty - r.fuel
  PROVE  (IF k = 0 THEN Plenty ELSE k - 1) \in Nat
<1>1. r.fuel \in Nat
  BY StateParts DEF Good, Does, Plain
<1>2. QED
  BY <1>1 DEF VectorParameters

\* A call of erase keeps the invariant, and removes its range from the sequence.
LEMMA EraseStep ==
  ASSUME VectorParameters, IInv, NEW x \in Vectors, NEW from \in 0 .. Size(x), NEW to \in 0 .. Size(x), from <= to,
         CallErase(x, from, to)
  PROVE  IInv' /\ Sequence!SequencesNext
<1> DEFINE c == Replaces(from, to, << >>, to = Size(x))
<1>1. /\ from \in Nat /\ to \in Nat /\ from <= to /\ to <= Size(x) /\ << >> \in Seq(Value)
      /\ (to = Size(x)) \in BOOLEAN
  BY DEF IInv, Size
<1>2. ASSUME NEW fuel \in Nat PROVE Good(Erase(Start(vector[x], fuel), from, to), x, c)
  <2> DEFINE m == Start(vector[x], fuel)
  <2>1. Begun(m, x, c, from, to, << >>)
    BY <1>1, CallBegins
  <2> HIDE DEF m, c
  <2>2. /\ Ready(m, Palette(x, c), Content(vector[x])) /\ ~ m.threw /\ Raw \notin Palette(x, c)
        /\ Target(x, c) \in Seq(Palette(x, c))
        /\ Spliced(Target(x, c), Content(vector[x]), from, to, << >>) /\ Len(Content(vector[x])) = Size(x)
    BY <2>1 DEF Begun
  <2>3. Does(Erase(m, from, to), Palette(x, c), Content(vector[x]), Target(x, c),
             to = Len(Content(vector[x])))
    BY <1>1, <2>2, EraseDoes
  <2>4. c.strong = (to = Size(x))
    BY DEF c, Replaces
  <2>5. QED
    BY <2>2, <2>3, <2>4 DEF Good, m
<1>3. \A fuel \in Nat : Good(Erase(Start(vector[x], fuel), from, to), x, c)
  BY <1>2
<1>4. PICK k \in 0 .. Plenty - Erase(Start(vector[x], Plenty), from, to).fuel :
        Finish(x, Erase(Start(vector[x], IF k = 0 THEN Plenty ELSE k - 1), from, to), c)
  BY DEF CallErase, Call
<1>5. PICK fuel \in Nat : Finish(x, Erase(Start(vector[x], fuel), from, to), c)
  <2>1. Good(Erase(Start(vector[x], Plenty), from, to), x, c)
    BY <1>3 DEF VectorParameters
  <2>2. (IF k = 0 THEN Plenty ELSE k - 1) \in Nat
    BY <2>1, FuelLeft
  <2>3. QED
    BY <1>4, <2>2
<1>6. Good(Erase(Start(vector[x], fuel), from, to), x, c)
  BY <1>3
<1>7. QED
  BY <1>1, <1>5, <1>6, FinishStep

\* A call of insert or push_back, of a value or an element of the vector itself, keeps the
\* invariant, and inserts that value into the sequence.
LEMMA InsertStep ==
  ASSUME VectorParameters, IInv, NEW x \in Vectors, NEW arg \in Arguments(x), NEW pos \in 0 .. Size(x),
         CallInsert(x, pos, arg)
  PROVE  IInv' /\ Sequence!SequencesNext
<1> DEFINE c == Replaces(pos, pos, << Given(x, arg) >>, pos = Size(x) \/ Full(x, 1))
<1> DEFINE value == Given(x, arg)
           strong == pos = Size(x) \/ Full(x, 1)
<1>0. value \in Value
  BY ArgumentAre, 0 \in Nat
<1>1. /\ pos \in Nat /\ pos <= pos /\ pos <= Size(x) /\ << value >> \in Seq(Value) /\ strong \in BOOLEAN
  BY <1>0 DEF IInv, Size
<1> HIDE DEF value, strong
<1>2. ASSUME NEW fuel \in Nat PROVE Good(InsertOne(Start(vector[x], fuel), pos, arg), x, c)
  <2> DEFINE m == Start(vector[x], fuel)
  <2>0. Argument(m, arg) = value
    BY ArgumentAre DEF value
  <2>1. Begun(m, x, c, pos, pos, << value >>)
    BY <1>1, CallBegins DEF value, strong
  <2> HIDE DEF m, c
  <2>2. /\ Ready(m, Palette(x, c), Content(vector[x])) /\ ~ m.threw /\ Raw \notin Palette(x, c)
        /\ Target(x, c) \in Seq(Palette(x, c)) /\ << value >> \in Seq(Palette(x, c))
        /\ Spliced(Target(x, c), Content(vector[x]), pos, pos, << value >>)
        /\ Capacity(m) = Len(vector[x].cells) /\ m.size = Size(x) /\ Len(Content(vector[x])) = Size(x)
    BY <2>1 DEF Begun, Capacity
  <2>a. value \in Palette(x, c)
    BY <2>2
  <2>3. Does(InsertOne(m, pos, arg), Palette(x, c), Content(vector[x]), Target(x, c),
             pos = Len(Content(vector[x])) \/ Len(Content(vector[x])) + 1 > Capacity(m))
    BY <1>1, <2>0, <2>2, <2>a, InsertOneDoes
  <2>4. c.strong = (pos = Size(x) \/ Size(x) + 1 > Len(vector[x].cells))
    BY DEF c, Replaces, Full
  <2>5. QED
    BY <2>2, <2>3, <2>4 DEF Good, m
<1>3. \A fuel \in Nat : Good(InsertOne(Start(vector[x], fuel), pos, arg), x, c)
  BY <1>2
<1>4. PICK k \in 0 .. Plenty - InsertOne(Start(vector[x], Plenty), pos, arg).fuel :
        Finish(x, InsertOne(Start(vector[x], IF k = 0 THEN Plenty ELSE k - 1), pos, arg), c)
  BY DEF CallInsert, Call
<1>5. PICK fuel \in Nat : Finish(x, InsertOne(Start(vector[x], fuel), pos, arg), c)
  <2>1. Good(InsertOne(Start(vector[x], Plenty), pos, arg), x, c)
    BY <1>3 DEF VectorParameters
  <2>2. (IF k = 0 THEN Plenty ELSE k - 1) \in Nat
    BY <2>1, FuelLeft
  <2>3. QED
    BY <1>4, <2>2
<1>6. Good(InsertOne(Start(vector[x], fuel), pos, arg), x, c)
  BY <1>3
<1>7. QED
  BY <1>1, <1>5, <1>6, FinishStep DEF value, strong

\* A call of insert(pos, n, x) keeps the invariant, and inserts n times x.
LEMMA InsertFillStep ==
  ASSUME VectorParameters, IInv, NEW x \in Vectors, NEW arg \in Arguments(x), NEW pos \in 0 .. Size(x), NEW n \in Nat,
         CallInsertFill(x, pos, n, arg)
  PROVE  IInv' /\ Sequence!SequencesNext
<1> DEFINE c == Replaces(pos, pos, Times(n, Given(x, arg)), pos = Size(x) \/ Full(x, n))
<1> DEFINE values == Times(n, Given(x, arg))
           strong == pos = Size(x) \/ Full(x, n)
<1>0. Given(x, arg) \in Value
  BY ArgumentAre, 0 \in Nat
<1>1. /\ pos \in Nat /\ pos <= pos /\ pos <= Size(x) /\ values \in Seq(Value) /\ strong \in BOOLEAN
  BY <1>0 DEF IInv, Size, Times
<1> HIDE DEF values, strong
<1>2. ASSUME NEW fuel \in Nat PROVE Good(InsertFill(Start(vector[x], fuel), pos, n, arg), x, c)
  <2> DEFINE m == Start(vector[x], fuel)
  <2>0. Times(n, Argument(m, arg)) = values
    BY ArgumentAre DEF values
  <2>1. Begun(m, x, c, pos, pos, values)
    BY <1>1, CallBegins DEF values, strong
  <2> HIDE DEF m, c
  <2>2. /\ Ready(m, Palette(x, c), Content(vector[x])) /\ ~ m.threw /\ Raw \notin Palette(x, c)
        /\ Target(x, c) \in Seq(Palette(x, c)) /\ values \in Seq(Palette(x, c))
        /\ Spliced(Target(x, c), Content(vector[x]), pos, pos, values)
        /\ Capacity(m) = Len(vector[x].cells) /\ m.size = Size(x) /\ Len(Content(vector[x])) = Size(x)
    BY <2>1 DEF Begun, Capacity
  <2>3. Does(InsertFill(m, pos, n, arg), Palette(x, c), Content(vector[x]), Target(x, c),
             pos = Len(Content(vector[x])) \/ Len(Content(vector[x])) + n > Capacity(m))
    BY <1>1, <2>0, <2>2, InsertFillDoes
  <2>4. c.strong = (pos = Size(x) \/ Size(x) + n > Len(vector[x].cells))
    BY DEF c, Replaces, Full
  <2>5. QED
    BY <2>2, <2>3, <2>4 DEF Good, m
<1>3. \A fuel \in Nat : Good(InsertFill(Start(vector[x], fuel), pos, n, arg), x, c)
  BY <1>2
<1>4. PICK k \in 0 .. Plenty - InsertFill(Start(vector[x], Plenty), pos, n, arg).fuel :
        Finish(x, InsertFill(Start(vector[x], IF k = 0 THEN Plenty ELSE k - 1), pos, n, arg), c)
  BY DEF CallInsertFill, Call
<1>5. PICK fuel \in Nat : Finish(x, InsertFill(Start(vector[x], fuel), pos, n, arg), c)
  <2>1. Good(InsertFill(Start(vector[x], Plenty), pos, n, arg), x, c)
    BY <1>3 DEF VectorParameters
  <2>2. (IF k = 0 THEN Plenty ELSE k - 1) \in Nat
    BY <2>1, FuelLeft
  <2>3. QED
    BY <1>4, <2>2
<1>6. Good(InsertFill(Start(vector[x], fuel), pos, n, arg), x, c)
  BY <1>3
<1>7. QED
  BY <1>1, <1>5, <1>6, FinishStep DEF values, strong

\* A call of insert(pos, first, last) keeps the invariant, and inserts the range.
LEMMA InsertRangeStep ==
  ASSUME VectorParameters, IInv, NEW x \in Vectors, NEW pos \in 0 .. Size(x), NEW values \in Seq(Value),
         CallInsertRange(x, pos, values)
  PROVE  IInv' /\ Sequence!SequencesNext
<1> DEFINE c == Replaces(pos, pos, values, pos = Size(x) \/ Full(x, Len(values)))
<1> DEFINE strong == pos = Size(x) \/ Full(x, Len(values))
<1>1. /\ pos \in Nat /\ pos <= pos /\ pos <= Size(x) /\ strong \in BOOLEAN
  BY DEF IInv, Size
<1> HIDE DEF strong
<1>2. ASSUME NEW fuel \in Nat PROVE Good(InsertAll(Start(vector[x], fuel), pos, values), x, c)
  <2> DEFINE m == Start(vector[x], fuel)
  <2>1. Begun(m, x, c, pos, pos, values)
    BY <1>1, CallBegins DEF strong
  <2> HIDE DEF m, c
  <2>2. /\ Ready(m, Palette(x, c), Content(vector[x])) /\ ~ m.threw /\ Raw \notin Palette(x, c)
        /\ Target(x, c) \in Seq(Palette(x, c)) /\ values \in Seq(Palette(x, c))
        /\ Spliced(Target(x, c), Content(vector[x]), pos, pos, values)
        /\ Capacity(m) = Len(vector[x].cells) /\ m.size = Size(x) /\ Len(Content(vector[x])) = Size(x)
    BY <2>1 DEF Begun, Capacity
  <2>3. Does(InsertAll(m, pos, values), Palette(x, c), Content(vector[x]), Target(x, c),
             pos = Len(Content(vector[x])) \/ Len(Content(vector[x])) + Len(values) > Capacity(m))
    BY <1>1, <2>2, InsertAllDoes
  <2>4. c.strong = (pos = Size(x) \/ Size(x) + Len(values) > Len(vector[x].cells))
    BY DEF c, Replaces, Full
  <2>5. QED
    BY <2>2, <2>3, <2>4 DEF Good, m
<1>3. \A fuel \in Nat : Good(InsertAll(Start(vector[x], fuel), pos, values), x, c)
  BY <1>2
<1>4. PICK k \in 0 .. Plenty - InsertAll(Start(vector[x], Plenty), pos, values).fuel :
        Finish(x, InsertAll(Start(vector[x], IF k = 0 THEN Plenty ELSE k - 1), pos, values), c)
  BY DEF CallInsertRange, Call
<1>5. PICK fuel \in Nat : Finish(x, InsertAll(Start(vector[x], fuel), pos, values), c)
  <2>1. Good(InsertAll(Start(vector[x], Plenty), pos, values), x, c)
    BY <1>3 DEF VectorParameters
  <2>2. (IF k = 0 THEN Plenty ELSE k - 1) \in Nat
    BY <2>1, FuelLeft
  <2>3. QED
    BY <1>4, <2>2
<1>6. Good(InsertAll(Start(vector[x], fuel), pos, values), x, c)
  BY <1>3
<1>7. QED
  BY <1>1, <1>5, <1>6, FinishStep DEF strong

\* A call of pop_back keeps the invariant, and removes the last element.
LEMMA PopBackStep ==
  ASSUME VectorParameters, IInv, NEW x \in Vectors,
         CallPopBack(x)
  PROVE  IInv' /\ Sequence!SequencesNext
<1> DEFINE c == Replaces(Size(x) - 1, Size(x), << >>, TRUE)
<1>0. Size(x) \in Nat /\ Size(x) > 0
  BY DEF CallPopBack, IInv, Size
<1>1. Size(x) - 1 \in Nat /\ Size(x) \in Nat /\ Size(x) - 1 <= Size(x) /\ Size(x) <= Size(x) /\ << >> \in Seq(Value)
  BY <1>0
<1>2. ASSUME NEW fuel \in Nat PROVE Good(PopBack(Start(vector[x], fuel)), x, c)
  <2> DEFINE m == Start(vector[x], fuel)
  <2>1. Begun(m, x, c, Size(x) - 1, Size(x), << >>)
    BY <1>1, CallBegins
  <2> HIDE DEF m, c
  <2>2. /\ Ready(m, Palette(x, c), Content(vector[x])) /\ ~ m.threw /\ Raw \notin Palette(x, c)
        /\ Target(x, c) \in Seq(Palette(x, c)) /\ << >> \in Seq(Palette(x, c))
        /\ Spliced(Target(x, c), Content(vector[x]), Size(x) - 1, Size(x), << >>)
        /\ Capacity(m) = Len(vector[x].cells) /\ m.size = Size(x) /\ Len(Content(vector[x])) = Size(x)
    BY <2>1 DEF Begun, Capacity
  <2>3. Does(PopBack(m), Palette(x, c), Content(vector[x]), Target(x, c), TRUE)
    BY <1>0, <2>2, PopBackDoes
  <2>4. c.strong = TRUE
    BY DEF c, Replaces
  <2>5. QED
    BY <2>3, <2>4 DEF Good, m
<1>3. \A fuel \in Nat : Good(PopBack(Start(vector[x], fuel)), x, c)
  BY <1>2
<1>4. PICK k \in 0 .. Plenty - PopBack(Start(vector[x], Plenty)).fuel :
        Finish(x, PopBack(Start(vector[x], IF k = 0 THEN Plenty ELSE k - 1)), c)
  BY DEF CallPopBack, Call
<1>5. PICK fuel \in Nat : Finish(x, PopBack(Start(vector[x], fuel)), c)
  <2>1. Good(PopBack(Start(vector[x], Plenty)), x, c)
    BY <1>3 DEF VectorParameters
  <2>2. (IF k = 0 THEN Plenty ELSE k - 1) \in Nat
    BY <2>1, FuelLeft
  <2>3. QED
    BY <1>4, <2>2
<1>6. Good(PopBack(Start(vector[x], fuel)), x, c)
  BY <1>3
<1>7. QED
  BY <1>1, <1>5, <1>6, FinishStep

\* A call of reserve keeps the invariant, and leaves the sequence as it was.
LEMMA ReserveStep ==
  ASSUME VectorParameters, IInv, NEW x \in Vectors, NEW n \in Nat,
         CallReserve(x, n)
  PROVE  IInv' /\ Sequence!SequencesNext
<1> DEFINE c == Replaces(Size(x), Size(x), << >>, TRUE)
<1>1. Size(x) \in Nat /\ Size(x) <= Size(x) /\ << >> \in Seq(Value)
  BY DEF IInv, Size
<1>2. ASSUME NEW fuel \in Nat PROVE Good(Reserve(Start(vector[x], fuel), n), x, c)
  <2> DEFINE m == Start(vector[x], fuel)
  <2>1. Begun(m, x, c, Size(x), Size(x), << >>)
    BY <1>1, CallBegins
  <2> HIDE DEF m, c
  <2>2. /\ Ready(m, Palette(x, c), Content(vector[x])) /\ ~ m.threw /\ Raw \notin Palette(x, c)
        /\ Target(x, c) \in Seq(Palette(x, c)) /\ << >> \in Seq(Palette(x, c))
        /\ Spliced(Target(x, c), Content(vector[x]), Size(x), Size(x), << >>)
        /\ Capacity(m) = Len(vector[x].cells) /\ m.size = Size(x) /\ Len(Content(vector[x])) = Size(x)
    BY <2>1 DEF Begun, Capacity
  <2>3. Target(x, c) = Content(vector[x])
    BY <2>2, SplicedNone DEF Ready
  <2>4. Does(Reserve(m, n), Palette(x, c), Content(vector[x]), Content(vector[x]), TRUE)
    BY <2>2, ReserveDoes
  <2>5. c.strong = TRUE
    BY DEF c, Replaces
  <2>6. QED
    BY <2>3, <2>4, <2>5 DEF Good, m
<1>3. \A fuel \in Nat : Good(Reserve(Start(vector[x], fuel), n), x, c)
  BY <1>2
<1>4. PICK k \in 0 .. Plenty - Reserve(Start(vector[x], Plenty), n).fuel :
        Finish(x, Reserve(Start(vector[x], IF k = 0 THEN Plenty ELSE k - 1), n), c)
  BY DEF CallReserve, Call
<1>5. PICK fuel \in Nat : Finish(x, Reserve(Start(vector[x], fuel), n), c)
  <2>1. Good(Reserve(Start(vector[x], Plenty), n), x, c)
    BY <1>3 DEF VectorParameters
  <2>2. (IF k = 0 THEN Plenty ELSE k - 1) \in Nat
    BY <2>1, FuelLeft
  <2>3. QED
    BY <1>4, <2>2
<1>6. Good(Reserve(Start(vector[x], fuel), n), x, c)
  BY <1>3
<1>7. QED
  BY <1>1, <1>5, <1>6, FinishStep

\* A call of assign(n, x) keeps the invariant, and leaves n times x.
LEMMA AssignFillStep ==
  ASSUME VectorParameters, IInv, NEW x \in Vectors, NEW arg \in Arguments(x), NEW n \in Nat,
         CallAssignFill(x, n, arg)
  PROVE  IInv' /\ Sequence!SequencesNext
<1> DEFINE c == Replaces(0, Size(x), Times(n, Given(x, arg)), n > Len(vector[x].cells))
<1> DEFINE values == Times(n, Given(x, arg))
           strong == n > Len(vector[x].cells)
<1>0. Given(x, arg) \in Value
  BY ArgumentAre, 0 \in Nat
<1>1. /\ 0 \in Nat /\ Size(x) \in Nat /\ 0 <= Size(x) /\ Size(x) <= Size(x) /\ values \in Seq(Value)
      /\ Len(values) = n /\ strong \in BOOLEAN
  BY <1>0 DEF IInv, Size, Times
<1> HIDE DEF values, strong
<1>2. ASSUME NEW fuel \in Nat
      PROVE  Good(AssignAll(Start(vector[x], fuel), Times(n, Argument(Start(vector[x], fuel), arg))), x, c)
  <2> DEFINE m == Start(vector[x], fuel)
  <2>0. Times(n, Argument(m, arg)) = values
    BY ArgumentAre DEF values
  <2>1. Begun(m, x, c, 0, Size(x), values)
    BY <1>1, CallBegins DEF values, strong
  <2> HIDE DEF m, c
  <2>2. /\ Ready(m, Palette(x, c), Content(vector[x])) /\ ~ m.threw /\ Raw \notin Palette(x, c)
        /\ Target(x, c) \in Seq(Palette(x, c)) /\ values \in Seq(Palette(x, c))
        /\ Spliced(Target(x, c), Content(vector[x]), 0, Size(x), values)
        /\ Capacity(m) = Len(vector[x].cells) /\ m.size = Size(x) /\ Len(Content(vector[x])) = Size(x)
    BY <2>1 DEF Begun, Capacity
  <2>3. Target(x, c) = values
    BY <2>2, SplicedAll DEF Ready
  <2>4. Does(AssignAll(m, values), Palette(x, c), Content(vector[x]), values, Len(values) > Capacity(m))
    BY <2>2, AssignAllDoes
  <2>5. c.strong = (n > Len(vector[x].cells))
    BY DEF c, Replaces
  <2>6. QED
    BY <1>1, <2>0, <2>2, <2>3, <2>4, <2>5 DEF Good, m
<1>3. \A fuel \in Nat :
        Good(AssignAll(Start(vector[x], fuel), Times(n, Argument(Start(vector[x], fuel), arg))), x, c)
  BY <1>2
<1>4. PICK k \in 0 .. Plenty - AssignAll(Start(vector[x], Plenty),
                                        Times(n, Argument(Start(vector[x], Plenty), arg))).fuel :
        Finish(x, AssignAll(Start(vector[x], IF k = 0 THEN Plenty ELSE k - 1),
                            Times(n, Argument(Start(vector[x], IF k = 0 THEN Plenty ELSE k - 1), arg))), c)
  BY DEF CallAssignFill, Call
<1>5. PICK fuel \in Nat :
        Finish(x, AssignAll(Start(vector[x], fuel), Times(n, Argument(Start(vector[x], fuel), arg))), c)
  <2>1. Good(AssignAll(Start(vector[x], Plenty), Times(n, Argument(Start(vector[x], Plenty), arg))), x, c)
    BY <1>3 DEF VectorParameters
  <2>2. (IF k = 0 THEN Plenty ELSE k - 1) \in Nat
    BY <2>1, FuelLeft
  <2>3. QED
    BY <1>4, <2>2
<1>6. Good(AssignAll(Start(vector[x], fuel), Times(n, Argument(Start(vector[x], fuel), arg))), x, c)
  BY <1>3
<1>7. QED
  BY <1>1, <1>5, <1>6, FinishStep DEF values, strong

\* A call of operator= or assign(first, last) keeps the invariant, and leaves the range.
LEMMA AssignStep ==
  ASSUME VectorParameters, IInv, NEW x \in Vectors, NEW y \in Vectors,
         CallAssign(x, y)
  PROVE  IInv' /\ Sequence!SequencesNext
<1> DEFINE c == Replaces(0, Size(x), Content(vector[y]), Size(y) > Len(vector[x].cells))
<1> DEFINE values == Content(vector[y])
           strong == Size(y) > Len(vector[x].cells)
<1>0. values \in Seq(Value) /\ Len(values) = Size(y)
  BY ContentAre DEF IInv, Intact, Size
<1>1. /\ 0 \in Nat /\ Size(x) \in Nat /\ 0 <= Size(x) /\ Size(x) <= Size(x) /\ strong \in BOOLEAN
  BY DEF IInv, Size
<1> HIDE DEF values, strong
<1>2. ASSUME NEW fuel \in Nat PROVE Good(AssignAll(Start(vector[x], fuel), Content(vector[y])), x, c)
  <2> DEFINE m == Start(vector[x], fuel)
  <2>1. Begun(m, x, c, 0, Size(x), values)
    BY <1>0, <1>1, CallBegins DEF values, strong
  <2> HIDE DEF m, c
  <2>2. /\ Ready(m, Palette(x, c), Content(vector[x])) /\ ~ m.threw /\ Raw \notin Palette(x, c)
        /\ Target(x, c) \in Seq(Palette(x, c)) /\ values \in Seq(Palette(x, c))
        /\ Spliced(Target(x, c), Content(vector[x]), 0, Size(x), values)
        /\ Capacity(m) = Len(vector[x].cells) /\ m.size = Size(x) /\ Len(Content(vector[x])) = Size(x)
    BY <2>1 DEF Begun, Capacity
  <2>3. Target(x, c) = values
    BY <2>2, SplicedAll DEF Ready
  <2>4. Does(AssignAll(m, values), Palette(x, c), Content(vector[x]), values, Len(values) > Capacity(m))
    BY <2>2, AssignAllDoes
  <2>5. c.strong = (Size(y) > Len(vector[x].cells))
    BY DEF c, Replaces
  <2>6. QED
    BY <1>0, <2>2, <2>3, <2>4, <2>5 DEF Good, m, values
<1>3. \A fuel \in Nat : Good(AssignAll(Start(vector[x], fuel), Content(vector[y])), x, c)
  BY <1>2
<1>4. PICK k \in 0 .. Plenty - AssignAll(Start(vector[x], Plenty), Content(vector[y])).fuel :
        Finish(x, AssignAll(Start(vector[x], IF k = 0 THEN Plenty ELSE k - 1), Content(vector[y])), c)
  BY DEF CallAssign, Call
<1>5. PICK fuel \in Nat : Finish(x, AssignAll(Start(vector[x], fuel), Content(vector[y])), c)
  <2>1. Good(AssignAll(Start(vector[x], Plenty), Content(vector[y])), x, c)
    BY <1>3 DEF VectorParameters
  <2>2. (IF k = 0 THEN Plenty ELSE k - 1) \in Nat
    BY <2>1, FuelLeft
  <2>3. QED
    BY <1>4, <2>2
<1>6. Good(AssignAll(Start(vector[x], fuel), Content(vector[y])), x, c)
  BY <1>3
<1>7. QED
  BY <1>0, <1>1, <1>5, <1>6, FinishStep DEF values, strong

\* A call of resize keeps the invariant, and erases or appends at the end.
LEMMA ResizeStep ==
  ASSUME VectorParameters, IInv, NEW x \in Vectors, NEW arg \in Arguments(x), NEW n \in Nat,
         CallResize(x, n, arg)
  PROVE  IInv' /\ Sequence!SequencesNext
<1> DEFINE c == Replaces(Smaller(n, Size(x)), Size(x),
                         IF n < Size(x) THEN << >> ELSE Times(n - Size(x), Given(x, arg)), TRUE)
<1> DEFINE values == IF n < Size(x) THEN << >> ELSE Times(n - Size(x), Given(x, arg))
           low == Smaller(n, Size(x))
<1>0. Given(x, arg) \in Value /\ Size(x) \in Nat
  BY ArgumentAre, 0 \in Nat DEF IInv, Size
<1>1. low \in Nat /\ Size(x) \in Nat /\ low <= Size(x) /\ Size(x) <= Size(x) /\ values \in Seq(Value)
  <2>1. CASE n < Size(x)
    BY <1>0, <2>1 DEF Smaller
  <2>2. CASE ~ (n < Size(x))
    BY <1>0, <2>2 DEF Smaller, Times
  <2>3. QED
    BY <2>1, <2>2
<1> HIDE DEF values, low
<1>2. ASSUME NEW fuel \in Nat PROVE Good(Resize(Start(vector[x], fuel), n, arg), x, c)
  <2> DEFINE m == Start(vector[x], fuel)
  <2>0. Argument(m, arg) = Given(x, arg)
    BY ArgumentAre
  <2>1. Begun(m, x, c, low, Size(x), values)
    BY <1>1, CallBegins DEF values, low
  <2> HIDE DEF m, c
  <2>2. /\ Ready(m, Palette(x, c), Content(vector[x])) /\ ~ m.threw /\ Raw \notin Palette(x, c)
        /\ Target(x, c) \in Seq(Palette(x, c)) /\ values \in Seq(Palette(x, c))
        /\ Spliced(Target(x, c), Content(vector[x]), low, Size(x), values)
        /\ Capacity(m) = Len(vector[x].cells) /\ m.size = Size(x) /\ Len(Content(vector[x])) = Size(x)
    BY <2>1 DEF Begun, Capacity
  <2>3. Does(Resize(m, n, arg), Palette(x, c), Content(vector[x]), Target(x, c), TRUE)
    <3>1. CASE n < Size(x)
      <4>1. Resize(m, n, arg) = Erase(m, n, Size(x)) /\ low = n /\ values = << >>
        BY <1>0, <2>2, <3>1 DEF Resize, low, values, Smaller
      <4>2. Spliced(Target(x, c), Content(vector[x]), n, Size(x), << >>)
        BY <2>2, <4>1
      <4>3. n <= Size(x) /\ Size(x) <= Len(Content(vector[x]))
        BY <1>0, <2>2, <3>1
      <4>4. Does(Erase(m, n, Size(x)), Palette(x, c), Content(vector[x]), Target(x, c),
                 Size(x) = Len(Content(vector[x])))
        BY <1>0, <2>2, <4>2, <4>3, EraseDoes
      <4>5. QED
        BY <2>2, <4>1, <4>4
    <3>2. CASE ~ (n < Size(x))
      <4>0. PICK k \in Nat : k = n - Size(x)
        BY <1>0, <3>2
      <4>1. /\ Resize(m, n, arg) = InsertFill(m, Size(x), k, arg) /\ low = Size(x)
            /\ values = Times(k, Argument(m, arg))
        BY <1>0, <2>0, <2>2, <3>2, <4>0 DEF Resize, low, values, Smaller
      <4>2. /\ Spliced(Target(x, c), Content(vector[x]), Size(x), Size(x), Times(k, Argument(m, arg)))
            /\ Times(k, Argument(m, arg)) \in Seq(Palette(x, c))
        BY <2>2, <4>1
      <4>3. Size(x) <= Len(Content(vector[x]))
        BY <1>0, <2>2
      <4>4. Does(InsertFill(m, Size(x), k, arg), Palette(x, c), Content(vector[x]), Target(x, c),
                 Size(x) = Len(Content(vector[x])) \/ Len(Content(vector[x])) + k > Capacity(m))
        BY <1>0, <2>2, <4>2, <4>3, InsertFillDoes
      <4>5. (Size(x) = Len(Content(vector[x])) \/ Len(Content(vector[x])) + k > Capacity(m)) = TRUE
        BY <2>2
      <4>6. QED
        BY <4>1, <4>4, <4>5
    <3>3. QED
      BY <3>1, <3>2
  <2>4. c.strong = TRUE
    BY DEF c, Replaces
  <2>5. QED
    BY <2>3, <2>4 DEF Good, m
<1>3. \A fuel \in Nat : Good(Resize(Start(vector[x], fuel), n, arg), x, c)
  BY <1>2
<1>4. PICK k \in 0 .. Plenty - Resize(Start(vector[x], Plenty), n, arg).fuel :
        Finish(x, Resize(Start(vector[x], IF k = 0 THEN Plenty ELSE k - 1), n, arg), c)
  BY DEF CallResize, Call
<1>5. PICK fuel \in Nat : Finish(x, Resize(Start(vector[x], fuel), n, arg), c)
  <2>1. Good(Resize(Start(vector[x], Plenty), n, arg), x, c)
    BY <1>3 DEF VectorParameters
  <2>2. (IF k = 0 THEN Plenty ELSE k - 1) \in Nat
    BY <2>1, FuelLeft
  <2>3. QED
    BY <1>4, <2>2
<1>6. Good(Resize(Start(vector[x], fuel), n, arg), x, c)
  BY <1>3
<1>7. QED
  BY <1>1, <1>5, <1>6, FinishStep DEF values, low

\* swap exchanges two vectors, blocks and all.
LEMMA SwapStep ==
  ASSUME IInv, NEW x \in Vectors, NEW y \in Vectors, CallSwap(x, y)
  PROVE  IInv' /\ Sequence!SequencesNext
<1>1. /\ x # y /\ vector' = [vector EXCEPT ![x] = vector[y], ![y] = vector[x]] /\ bad' = bad
      /\ call' = [op |-> "swap", on |-> x, from |-> y, turn |-> 1 - call.turn]
  BY DEF CallSwap
<1>2. /\ vector'[x] = vector[y] /\ vector'[y] = vector[x]
      /\ \A z \in Vectors : z # x /\ z # y => vector'[z] = vector[z]
  BY <1>1 DEF IInv
<1>3. IInv'
  <2>1. vector' \in [Vectors -> [cells : Seq(Cellular(Value)), size : Nat]]
    BY <1>1 DEF IInv
  <2>2. \A z \in Vectors : Alive(vector'[z].cells, vector'[z].size)
    BY <1>2 DEF IInv
  <2>3. QED
    BY <1>1, <2>1, <2>2 DEF IInv
<1>4. Sequence!SequencesNext
  <2>1. call'.turn = 1 - call.turn /\ call'.op = "swap" /\ call'.on = x /\ call'.from = y
    BY <1>1
  <2>2. ASSUME NEW z \in Vectors
        PROVE  Content(vector'[z]) = Content(vector[IF z = x THEN y ELSE IF z = y THEN x ELSE z])
    BY <1>1, <1>2
  <2>3. ASSUME NEW z \in Vectors
        PROVE  [w \in Vectors |-> Content(vector'[w])][z] =
                 [w \in Vectors |-> Content(vector[w])][IF z = x THEN y ELSE IF z = y THEN x ELSE z]
    BY <2>2
  <2>4. QED
    BY <2>1, <2>3 DEF Sequence!SequencesNext
<1>5. QED
  BY <1>3, <1>4

\* Vectors are constructed empty.
LEMMA InitHolds ==
  ASSUME Init
  PROVE  IInv /\ Sequence!SequencesInit
<1>1. << >> \in Seq(Cellular(Value)) /\ Len(<< >>) = 0 /\ SubSeq(<< >>, 1, 0) = << >>
  OBVIOUS
<1>2. \A x \in Vectors : vector[x].cells = << >> /\ vector[x].size = 0
  BY DEF Init
<1>3. \A x \in Vectors : Alive(vector[x].cells, vector[x].size)
  BY <1>1, <1>2 DEF Alive
<1>4. vector \in [Vectors -> [cells : Seq(Cellular(Value)), size : Nat]]
  BY <1>1 DEF Init
<1>5. IInv
  BY <1>3, <1>4 DEF Init, IInv
<1>6. \A x \in Vectors : Content(vector[x]) = << >>
  BY <1>1, <1>2 DEF Content
<1>7. Sequence!SequencesInit
  BY <1>6 DEF Init, Sequence!SequencesInit
<1>8. QED
  BY <1>5, <1>7

\* Every step keeps the invariant, and does what a call on sequences does.
LEMMA NextHolds ==
  ASSUME VectorParameters, IInv, Next
  PROVE  IInv' /\ Sequence!SequencesNext
<1>1. PICK x \in Vectors :
        \/ \E arg \in Arguments(x) : \E pos \in 0 .. Size(x) :
             \/ Size(x) < MaxSize /\ CallInsert(x, pos, arg)
             \/ \E n \in 0 .. MaxSize - Size(x) : CallInsertFill(x, pos, n, arg)
        \/ \E arg \in Arguments(x) : \E n \in 0 .. MaxSize :
             CallResize(x, n, arg) \/ CallAssignFill(x, n, arg)
        \/ \E from, to \in 0 .. Size(x) : from <= to /\ CallErase(x, from, to)
        \/ CallPopBack(x)
        \/ \E n \in 0 .. MaxSize : CallReserve(x, n)
        \/ \E y \in Vectors :
             \/ CallAssign(x, y) \/ CallSwap(x, y)
             \/ \E pos \in 0 .. Size(x) :
                  /\ x # y /\ Size(x) + Size(y) <= MaxSize
                  /\ CallInsertRange(x, pos, Content(vector[y]))
  BY DEF Next
<1>0. Size(x) \in Nat /\ MaxSize \in Nat
  BY DEF IInv, Size, VectorParameters
<1>2. CASE \E arg \in Arguments(x) : \E pos \in 0 .. Size(x) : CallInsert(x, pos, arg)
  BY <1>2, InsertStep
<1>3. CASE \E arg \in Arguments(x) : \E pos \in 0 .. Size(x) : \E n \in 0 .. MaxSize - Size(x) :
             CallInsertFill(x, pos, n, arg)
  <2>1. PICK arg \in Arguments(x), pos \in 0 .. Size(x), n \in 0 .. MaxSize - Size(x) :
          CallInsertFill(x, pos, n, arg)
    BY <1>3
  <2>2. n \in Nat
    BY <1>0
  <2>3. QED
    BY <2>1, <2>2, InsertFillStep
<1>4. CASE \E arg \in Arguments(x) : \E n \in 0 .. MaxSize : CallResize(x, n, arg)
  <2>1. PICK arg \in Arguments(x), n \in 0 .. MaxSize : CallResize(x, n, arg)
    BY <1>4
  <2>2. n \in Nat
    BY <1>0
  <2>3. QED
    BY <2>1, <2>2, ResizeStep
<1>5. CASE \E arg \in Arguments(x) : \E n \in 0 .. MaxSize : CallAssignFill(x, n, arg)
  <2>1. PICK arg \in Arguments(x), n \in 0 .. MaxSize : CallAssignFill(x, n, arg)
    BY <1>5
  <2>2. n \in Nat
    BY <1>0
  <2>3. QED
    BY <2>1, <2>2, AssignFillStep
<1>6. CASE \E from, to \in 0 .. Size(x) : from <= to /\ CallErase(x, from, to)
  BY <1>6, EraseStep
<1>7. CASE CallPopBack(x)
  BY <1>7, PopBackStep
<1>8. CASE \E n \in 0 .. MaxSize : CallReserve(x, n)
  <2>1. PICK n \in 0 .. MaxSize : CallReserve(x, n)
    BY <1>8
  <2>2. n \in Nat
    BY <1>0
  <2>3. QED
    BY <2>1, <2>2, ReserveStep
<1>9. CASE \E y \in Vectors : CallAssign(x, y)
  BY <1>9, AssignStep
<1>10. CASE \E y \in Vectors : CallSwap(x, y)
  BY <1>10, SwapStep
<1>11. CASE \E y \in Vectors : \E pos \in 0 .. Size(x) : CallInsertRange(x, pos, Content(vector[y]))
  <2>1. PICK y \in Vectors, pos \in 0 .. Size(x) : CallInsertRange(x, pos, Content(vector[y]))
    BY <1>11
  <2>2. Content(vector[y]) \in Seq(Value)
    BY ContentAre DEF IInv, Intact
  <2>3. QED
    BY <2>1, <2>2, InsertRangeStep
<1>12. QED
  BY <1>1, <1>2, <1>3, <1>4, <1>5, <1>6, <1>7, <1>8, <1>9, <1>10, <1>11

\* What changes no vector changes no sequence.
LEMMA StutterHolds ==
  ASSUME IInv, UNCHANGED vars
  PROVE  IInv' /\ UNCHANGED << [x \in Vectors |-> Content(vector[x])], call >>
BY DEF IInv, vars, Alive

-----------------------------------------------------------------------------
(* Theorems                                                                 *)

\* Between calls, exactly the first cells of a block hold elements, and nothing is misused:
\* what every call of stl_vector.h keeps, wherever something throws.
THEOREM IInvHolds ==
  ASSUME VectorParameters
  PROVE  Spec => []IInv
<1>1. Init => IInv
  BY InitHolds
<1>2. IInv /\ [Next]_vars => IInv'
  BY NextHolds, StutterHolds
<1>3. QED
  BY <1>1, <1>2, PTL DEF Spec

\* The block has room for the elements, and its cells hold values or nothing.
THEOREM VectorTypeCorrect ==
  ASSUME VectorParameters
  PROVE  Spec => []TypeOK
<1>1. IInv => TypeOK
  <2>1. SUFFICES ASSUME IInv, NEW x \in Vectors
        PROVE  /\ vector[x].cells \in Seq(Value \union {Raw})
               /\ vector[x].size \in 0 .. Len(vector[x].cells) /\ bad \in BOOLEAN
    BY DEF TypeOK, IInv
  <2>2. Intact(vector[x])
    BY <2>1 DEF IInv, Intact
  <2>3. vector[x].cells \in Seq(Value \union {Raw})
    BY <2>2, IntactParts DEF Cellular
  <2>4. vector[x].size \in 0 .. Len(vector[x].cells)
    BY <2>2, IntactParts
  <2>5. bad \in BOOLEAN
    BY <2>1 DEF IInv
  <2>6. QED
    BY <2>3, <2>4, <2>5
<1>2. QED
  BY <1>1, IInvHolds, PTL

\* Exactly the cells before _M_finish hold elements.
THEOREM VectorsWellFormed ==
  ASSUME VectorParameters
  PROVE  Spec => []WellFormed
<1>1. IInv => WellFormed
  <2>1. SUFFICES ASSUME IInv, NEW x \in Vectors, NEW i \in DOMAIN vector[x].cells
        PROVE  (vector[x].cells[i] # Raw) <=> (i <= vector[x].size)
    BY DEF WellFormed
  <2>2. Intact(vector[x])
    BY <2>1 DEF IInv, Intact
  <2>3. i \in 1 .. Len(vector[x].cells)
    BY <2>1, <2>2, IntactParts
  <2>4. QED
    BY <2>2, <2>3, IntactParts
<1>2. QED
  BY <1>1, IInvHolds, PTL

\* No element is constructed over another, read, assigned to or destroyed where there is
\* none, and none is lost with its block.
THEOREM VectorsLoseNothing ==
  ASSUME VectorParameters
  PROVE  Spec => []NothingLost
<1>1. IInv => NothingLost
  BY DEF IInv, NothingLost
<1>2. QED
  BY <1>1, IInvHolds, PTL

\* The vectors are the sequences that their calls say: a call that ends has replaced what
\* it says, a strong one that throws has changed nothing, and another one keeps to the
\* values and the lengths between.
THEOREM VectorsImplementSequences ==
  ASSUME VectorParameters
  PROVE  Spec => ImplementsSequences
<1>1. Init => Sequence!SequencesInit
  BY InitHolds
<1>2. IInv /\ [Next]_vars => [Sequence!SequencesNext]_<< [x \in Vectors |-> Content(vector[x])], call >>
  BY NextHolds, StutterHolds
<1>3. QED
  BY <1>1, <1>2, IInvHolds, PTL DEF Spec, ImplementsSequences, Sequence!SequencesSpec
=============================================================================
