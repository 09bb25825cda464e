------------------------------ MODULE Tilings --------------------------------
(***************************************************************************)
(* Facts that the proofs about both node allocators rest on: sizes rounded *)
(* to a multiple of the alignment, free lists as sequences without         *)
(* repetition, and sets of places that tile the chunks of memory they were *)
(* cut from.  A place or a chunk is a record with an addr and a size.      *)
(***************************************************************************)
EXTENDS Integers, Sequences, FiniteSets, FiniteSetsExt, Functions,
        FiniteSetTheorems, SequenceTheorems, WellFoundedInduction, TLAPS

-----------------------------------------------------------------------------
(* Multiples, and division rounded up                                      *)

MultipleOf(m, a) == \E q \in Nat : m = q * a

Up(k, a) == (k + a - 1) \div a

\* The quotient is the number of whole a that fit into k, as the code uses it.
LEMMA DivBounds ==
  ASSUME NEW k \in Nat, NEW a \in Nat \ {0}
  PROVE  k \div a \in Nat /\ (k \div a) * a <= k /\ k < (k \div a) * a + a
<1>1. k \div a \in Int /\ (k \div a) * a <= k /\ k < (k \div a) * a + a
  OBVIOUS
<1>2. ASSUME k \div a < 0 PROVE FALSE
  <2>1. k \div a <= -1
    BY <1>1, <1>2
  <2>2. (k \div a) * a <= (-1) * a
    BY <1>1, <2>1
  <2>3. QED
    BY <1>1, <2>2
<1>3. QED
  BY <1>1, <1>2

\* Without a remainder nothing is lost by dividing and multiplying back.
LEMMA DivExact ==
  ASSUME NEW k \in Nat, NEW a \in Nat \ {0}, k % a = 0
  PROVE  k = (k \div a) * a
<1>1. k = a * (k \div a) + (k % a)
  OBVIOUS
<1>2. QED
  BY <1>1, DivBounds

\* What _S_round_up relies on: the least multiple that is not smaller.
LEMMA UpBounds ==
  ASSUME NEW k \in Nat, NEW a \in Nat \ {0}
  PROVE  Up(k, a) \in Nat /\ Up(k, a) * a >= k /\ Up(k, a) * a < k + a
<1>1. k + a - 1 \in Nat
  OBVIOUS
<1>2. QED
  BY <1>1, DivBounds DEF Up

\* Numbers of nodes and their bytes are in the same order.
LEMMA ProductOrder ==
  ASSUME NEW p \in Int, NEW q \in Int, NEW a \in Nat \ {0}
  PROVE  /\ p <= q <=> p * a <= q * a
         /\ p < q <=> p * a < q * a
         /\ p = q <=> p * a = q * a
OBVIOUS

\* Rounding up gives the least number of units that holds k bytes.
LEMMA UpLeast ==
  ASSUME NEW k \in Nat, NEW a \in Nat \ {0}, NEW q \in Nat, k <= q * a
  PROVE  Up(k, a) <= q
<1> DEFINE u == Up(k, a)
<1>1. u \in Nat /\ u * a < k + a
  BY UpBounds
<1> HIDE DEF u
<1>2. (q + 1) * a = q * a + a /\ q * a \in Nat
  OBVIOUS
<1>3. u * a < (q + 1) * a
  BY <1>1, <1>2
<1>4. u < q + 1
  BY <1>1, <1>3, ProductOrder
<1>5. QED
  BY <1>1, <1>4 DEF u

\* What is a multiple already is not rounded further.
LEMMA UpOfMultiple ==
  ASSUME NEW a \in Nat \ {0}, NEW q \in Nat
  PROVE  Up(q * a, a) = q
<1> DEFINE u == Up(q * a, a)
<1>1. q * a \in Nat
  OBVIOUS
<1>2. u \in Nat /\ u <= q /\ q * a <= u * a
  BY <1>1, UpBounds, UpLeast
<1> HIDE DEF u
<1>3. q <= u
  BY <1>2, ProductOrder
<1>4. QED
  BY <1>2, <1>3 DEF u

\* Multiples of the alignment are closed under sums and differences.
LEMMA MultipleSum ==
  ASSUME NEW a \in Nat \ {0}, NEW x, NEW y, MultipleOf(x, a), MultipleOf(y, a)
  PROVE  MultipleOf(x + y, a) /\ (y <= x => MultipleOf(x - y, a))
<1>1. PICK p \in Nat : x = p * a
  BY DEF MultipleOf
<1>2. PICK q \in Nat : y = q * a
  BY DEF MultipleOf
<1>3. MultipleOf(x + y, a)
  <2>1. x + y = (p + q) * a /\ p + q \in Nat
    BY <1>1, <1>2
  <2>2. QED
    BY <2>1 DEF MultipleOf
<1>4. ASSUME y <= x PROVE MultipleOf(x - y, a)
  <2>1. q <= p
    BY <1>1, <1>2, <1>4, ProductOrder
  <2>2. x - y = (p - q) * a /\ p - q \in Nat
    BY <1>1, <1>2, <2>1
  <2>3. QED
    BY <2>2 DEF MultipleOf
<1>5. QED
  BY <1>3, <1>4

\* Several nodes of an aligned size have an aligned size together.
LEMMA MultipleProduct ==
  ASSUME NEW a \in Nat \ {0}, NEW x, NEW y \in Nat, MultipleOf(x, a)
  PROVE  MultipleOf(y * x, a)
<1>1. PICK p \in Nat : x = p * a
  BY DEF MultipleOf
<1>2. y * x = (y * p) * a /\ y * p \in Nat
  BY <1>1
<1>3. QED
  BY <1>2 DEF MultipleOf

-----------------------------------------------------------------------------
(* The least of some numbers                                               *)

\* Min of some natural numbers is one of them, and none is smaller.
LEMMA MinExists ==
  ASSUME NEW S, S \subseteq Nat, S # {}
  PROVE  Min(S) \in S /\ \A y \in S : Min(S) <= y
<1>1. \E x \in S : \A y \in S : ~ (<< y, x >> \in OpToRel(<, Nat))
  BY NatLessThanWellFounded, WFMin
<1>2. PICK x \in S : \A y \in S : ~ (<< y, x >> \in OpToRel(<, Nat))
  BY <1>1
<1>3. ASSUME NEW y \in S PROVE x <= y
  <2>1. y < x => << y, x >> \in OpToRel(<, Nat)
    BY DEF OpToRel
  <2>2. ~ (<< y, x >> \in OpToRel(<, Nat))
    BY <1>2
  <2>3. x \in Nat /\ y \in Nat /\ ~ (y < x)
    BY <2>1, <2>2
  <2>4. QED
    BY <2>3
<1>4. QED
  BY <1>3 DEF Min

-----------------------------------------------------------------------------
(* What the sizes of nodes and chunks are, in both allocators              *)

\* What _S_round_up and _S_freelist_index compute for a size k that has a list:
\* with u the size in units, u * a is a multiple of the alignment a, not below k
\* and not above the largest size m, and u - 1 is the index of its list.
IsListOf(u, k, a, m) ==
    /\ u * a \in Nat \ {0} /\ k <= u * a /\ u * a <= m
    /\ MultipleOf(u * a, a)
    /\ u - 1 \in 0 .. (m \div a - 1)
    /\ (u - 1 + 1) * a = u * a

\* A size that is not too large has a list: the index is in range, and the nodes
\* of the list have the rounded size.
LEMMA SizeOfList ==
  ASSUME NEW a \in Nat \ {0}, NEW m \in Nat, m % a = 0, NEW k \in Nat \ {0}, k <= m
  PROVE  IsListOf(Up(k, a), k, a, m)
<1> DEFINE u == Up(k, a)
           q == m \div a
<1>1. u \in Nat /\ u * a >= k /\ u * a < k + a
  BY UpBounds
<1>2. q \in Nat /\ m = q * a
  BY DivBounds, DivExact
<1>3. u <= q
  BY <1>2, UpLeast
<1> HIDE DEF u, q
<1>4. u # 0
  BY <1>1
<1>5. u * a <= q * a
  BY <1>1, <1>2, <1>3, ProductOrder
<1>6. u * a \in Nat /\ u - 1 \in 0 .. q - 1 /\ (u - 1 + 1) * a = u * a
  BY <1>1, <1>2, <1>3, <1>4
<1>7. QED
  BY <1>1, <1>2, <1>5, <1>6 DEF MultipleOf, IsListOf, u, q

\* A run of nodes that the pool serves: at least one, at most as many as were
\* asked for, and no more than there is room for.
LEMMA ServedRun ==
  ASSUME NEW size \in Nat \ {0}, NEW asked \in Nat \ {0}, NEW left \in Nat, size <= left
  PROVE  /\ Min({asked, left \div size}) \in Nat \ {0}
         /\ Min({asked, left \div size}) <= asked
         /\ Min({asked, left \div size}) * size \in Nat \ {0}
         /\ Min({asked, left \div size}) * size <= left
<1> DEFINE has == left \div size
<1>1. has \in Nat /\ has * size <= left /\ left < has * size + size
  BY DivBounds
<1> HIDE DEF has
<1>2. has # 0
  BY <1>1
<1> DEFINE s == Min({asked, has})
<1>3. s \in {asked, has} /\ s <= asked /\ s <= has
  <2>1. {asked, has} \subseteq Nat /\ {asked, has} # {}
    BY <1>1
  <2>2. QED
    BY <2>1, MinExists
<1> HIDE DEF s
<1>4. s \in Nat \ {0}
  BY <1>1, <1>2, <1>3
<1>5. s * size <= has * size
  BY <1>1, <1>3, <1>4, ProductOrder
<1>6. s * size \in Nat \ {0} /\ has * size \in Nat
  BY <1>1, <1>4
<1>7. s * size <= left
  BY <1>1, <1>5, <1>6
<1>8. QED
  BY <1>3, <1>4, <1>6, <1>7 DEF s, has

\* What _S_chunk_alloc asks malloc for, twice the nodes it needs and the rounded
\* growth of the heap, is a positive number of whole units.
LEMMA WholeChunk ==
  ASSUME NEW a \in Nat \ {0}, NEW size \in Nat \ {0}, MultipleOf(size, a),
         NEW asked \in Nat \ {0}, NEW bytes \in Nat, NEW div \in Nat \ {0}
  PROVE  /\ 2 * size * asked + Up(bytes \div div, a) * a \in Nat \ {0}
         /\ MultipleOf(2 * size * asked + Up(bytes \div div, a) * a, a)
<1> DEFINE grow == Up(bytes \div div, a) * a
           m == 2 * asked
<1>1. grow \in Nat /\ MultipleOf(grow, a)
  <2>1. bytes \div div \in Nat
    BY DivBounds
  <2>2. Up(bytes \div div, a) \in Nat
    BY <2>1, UpBounds
  <2> DEFINE u == Up(bytes \div div, a)
  <2> HIDE DEF u
  <2>3. u * a \in Nat /\ MultipleOf(u * a, a)
    BY <2>2 DEF u, MultipleOf
  <2>4. QED
    BY <2>3 DEF u
<1> HIDE DEF grow
<1>2. m \in Nat \ {0} /\ 2 * size * asked = m * size /\ m * size \in Nat \ {0}
  OBVIOUS
<1> HIDE DEF m
<1>3. MultipleOf(m * size + grow, a)
  BY <1>1, <1>2, MultipleProduct, MultipleSum
<1>4. QED
  BY <1>1, <1>2, <1>3 DEF grow

-----------------------------------------------------------------------------
(* Free lists: sequences in which no address occurs twice                  *)

\* A node that was on no list is put in front of one: its address occurs once.
LEMMA PushFront ==
  ASSUME NEW S, NEW s \in Seq(S), IsInjective(s), NEW a \in S, a \notin Range(s)
  PROVE  /\ << a >> \o s \in Seq(S)
         /\ IsInjective(<< a >> \o s)
         /\ Range(<< a >> \o s) = Range(s) \union {a}
<1> DEFINE r == << a >> \o s
<1>1. /\ r \in Seq(S) /\ Len(r) = Len(s) + 1
      /\ \A i \in 1 .. Len(r) : r[i] = IF i = 1 THEN a ELSE s[i - 1]
  OBVIOUS
<1>2. \A i \in 1 .. Len(s) : s[i] = r[i + 1]
  BY <1>1
<1> HIDE DEF r
<1>3. Range(r) = Range(s) \union {a}
  <2>1. Range(r) \subseteq Range(s) \union {a}
    BY <1>1 DEF Range
  <2>2. Range(s) \subseteq Range(r)
    <3>1. SUFFICES ASSUME NEW i \in 1 .. Len(s) PROVE s[i] \in Range(r)
      BY DEF Range
    <3>2. s[i] = r[i + 1] /\ i + 1 \in DOMAIN r
      BY <1>1, <1>2
    <3>3. QED
      BY <3>2 DEF Range
  <2>3. a \in Range(r)
    BY <1>1 DEF Range
  <2>4. QED
    BY <2>1, <2>2, <2>3
<1>4. IsInjective(r)
  BY <1>1, <1>2 DEF IsInjective, Range
<1>5. QED
  BY <1>1, <1>3, <1>4 DEF r

\* Taking the first node leaves a list without its address.
LEMMA PopFront ==
  ASSUME NEW S, NEW s \in Seq(S), IsInjective(s), s # << >>
  PROVE  /\ Head(s) \in S /\ Head(s) \in Range(s)
         /\ Tail(s) \in Seq(S)
         /\ IsInjective(Tail(s))
         /\ Range(Tail(s)) = Range(s) \ {Head(s)}
<1> DEFINE r == Tail(s)
<1>1. /\ r \in Seq(S) /\ Len(s) >= 1 /\ Len(r) = Len(s) - 1
      /\ \A i \in 1 .. Len(r) : r[i] = s[i + 1]
  OBVIOUS
<1>2. \A i \in 2 .. Len(s) : s[i] = r[i - 1]
  BY <1>1
<1>3. Head(s) = s[1] /\ 1 \in DOMAIN s /\ s[1] \in S
  OBVIOUS
<1> HIDE DEF r
<1>4. Range(r) = Range(s) \ {s[1]}
  <2>1. Range(r) \subseteq Range(s) \ {s[1]}
    BY <1>1 DEF Range, IsInjective
  <2>2. Range(s) \ {s[1]} \subseteq Range(r)
    <3>1. SUFFICES ASSUME NEW i \in 2 .. Len(s) PROVE s[i] \in Range(r)
      BY DEF Range
    <3>2. s[i] = r[i - 1] /\ i - 1 \in DOMAIN r
      BY <1>1, <1>2
    <3>3. QED
      BY <3>2 DEF Range
  <2>3. QED
    BY <2>1, <2>2
<1>5. IsInjective(r)
  BY <1>1 DEF IsInjective
<1>6. QED
  BY <1>1, <1>3, <1>4, <1>5 DEF r, Range

\* The addresses of the nodes that a run of k nodes of size s is cut into,
\* without the first.
LEMMA RunOfNodes ==
  ASSUME NEW k \in Nat \ {0}, NEW s \in Nat \ {0}, NEW M \in Nat, NEW c \in 1 .. M,
         c + k * s <= M + 1
  PROVE  /\ [j \in 1 .. k - 1 |-> c + j * s] \in Seq(1 .. M)
         /\ IsInjective([j \in 1 .. k - 1 |-> c + j * s])
<1> DEFINE l == [j \in 1 .. k - 1 |-> c + j * s]
<1>1. ASSUME NEW j \in 1 .. k - 1 PROVE l[j] \in 1 .. M
  <2>1. (j + 1) * s <= k * s /\ (j + 1) * s = j * s + s /\ j * s \in Nat /\ k * s \in Nat
    BY ProductOrder
  <2>2. c + j * s \in 1 .. M
    BY <2>1
  <2>3. QED
    BY <2>2
<1>2. l \in Seq(1 .. M)
  <2>1. k - 1 \in Nat /\ l \in [1 .. k - 1 -> 1 .. M]
    BY <1>1
  <2> HIDE DEF l
  <2>2. l \in UNION {[1 .. m -> 1 .. M] : m \in Nat}
    BY <2>1
  <2>3. QED
    BY <2>2, SeqDef
<1>3. IsInjective(l)
  <2>1. ASSUME NEW g \in 1 .. k - 1, NEW h \in 1 .. k - 1, l[g] = l[h] PROVE g = h
    <3>1. g * s \in Nat /\ h * s \in Nat /\ c + g * s = c + h * s
      BY <2>1
    <3>2. g * s = h * s
      BY <3>1
    <3>3. QED
      BY <3>2, ProductOrder
  <2>2. QED
    BY <2>1 DEF IsInjective
<1>4. QED
  BY <1>2, <1>3

\* The empty list has no nodes and no address twice.
LEMMA NoNodes == Range(<< >>) = {} /\ IsInjective(<< >>)
BY DEF Range, IsInjective

-----------------------------------------------------------------------------
(* Places that tile chunks                                                 *)

Extent(b) == b.addr .. (b.addr + b.size - 1)
IsExtent(b) == b.addr \in Nat /\ b.size \in Nat \ {0}
Disjoint(b, c) == b.addr + b.size <= c.addr \/ c.addr + c.size <= b.addr
Within(b, c) == c.addr <= b.addr /\ b.addr + b.size <= c.addr + c.size

\* Every byte of the chunks C belongs to one place of P, and no other byte does.
Tiles(P, C) ==
    /\ \A b \in P \union C : IsExtent(b)
    /\ \A p, q \in P : p # q => Disjoint(p, q)
    /\ \A p \in P : \E c \in C : Within(p, c)
    /\ \A c \in C : \A x \in Extent(c) : \E p \in P : x \in Extent(p)

\* A place is cut up: the parts tile what it was.
LEMMA Cut ==
  ASSUME NEW P, NEW C, Tiles(P, C), NEW p \in P, NEW N, Tiles(N, {p})
  PROVE  Tiles((P \ {p}) \union N, C)
<1> DEFINE Q == (P \ {p}) \union N
<1>1. \A b \in Q \union C : IsExtent(b)
  BY DEF Tiles
<1>2. \A q \in N : Within(q, p)
  BY DEF Tiles
<1>3. ASSUME NEW q \in Q, NEW r \in Q, q # r PROVE Disjoint(q, r)
  <2>1. CASE q \in N /\ r \in N
    BY <2>1, <1>3 DEF Tiles
  <2>2. CASE q \in N /\ r \in P \ {p}
    <3>1. Disjoint(p, r) /\ Within(q, p)
      BY <2>2, <1>2 DEF Tiles
    <3>2. QED
      BY <3>1, <1>1, <2>2 DEF Disjoint, Within, IsExtent, Tiles
  <2>3. CASE q \in P \ {p} /\ r \in N
    <3>1. Disjoint(q, p) /\ Within(r, p)
      BY <2>3, <1>2 DEF Tiles
    <3>2. QED
      BY <3>1, <1>1, <2>3 DEF Disjoint, Within, IsExtent, Tiles
  <2>4. CASE q \in P \ {p} /\ r \in P \ {p}
    BY <2>4, <1>3 DEF Tiles
  <2>5. QED
    BY <2>1, <2>2, <2>3, <2>4
<1>4. ASSUME NEW q \in Q PROVE \E c \in C : Within(q, c)
  <2>1. CASE q \in N
    <3>1. PICK c \in C : Within(p, c)
      BY DEF Tiles
    <3>2. Within(q, c)
      BY <3>1, <1>2, <2>1, <1>1 DEF Within, IsExtent, Tiles
    <3>3. QED
      BY <3>2
  <2>2. QED
    BY <2>1 DEF Tiles
<1>5. ASSUME NEW c \in C, NEW x \in Extent(c) PROVE \E q \in Q : x \in Extent(q)
  <2>1. PICK q \in P : x \in Extent(q)
    BY DEF Tiles
  <2>2. CASE q = p
    BY <2>1, <2>2 DEF Tiles
  <2>3. QED
    BY <2>1, <2>2
<1>6. QED
  BY <1>1, <1>3, <1>4, <1>5 DEF Tiles

\* A new chunk is added, and with it the place that is all of it.
LEMMA Extend ==
  ASSUME NEW P, NEW C, Tiles(P, C), NEW c, IsExtent(c), \A d \in C : Disjoint(c, d),
         NEW n, n.addr = c.addr, n.size = c.size
  PROVE  Tiles(P \union {n}, C \union {c})
<1> DEFINE Q == P \union {n}
           D == C \union {c}
<1>1. \A b \in Q \union D : IsExtent(b)
  BY DEF Tiles, IsExtent
<1>2. ASSUME NEW p \in P PROVE Disjoint(p, n)
  <2>1. PICK d \in C : Within(p, d)
    BY DEF Tiles
  <2>2. QED
    BY <2>1, <1>1 DEF Within, Disjoint, IsExtent
<1>3. \A p, q \in Q : p # q => Disjoint(p, q)
  BY <1>2 DEF Tiles, Disjoint
<1>4. \A p \in Q : \E d \in D : Within(p, d)
  BY <1>1 DEF Tiles, Within, IsExtent
<1>5. \A d \in D : \A x \in Extent(d) : \E p \in Q : x \in Extent(p)
  BY DEF Tiles, Extent
<1>6. QED
  BY <1>1, <1>3, <1>4, <1>5 DEF Tiles

\* One place in another's stead.
LEMMA Relabel ==
  ASSUME NEW P, NEW C, Tiles(P, C), NEW p \in P, NEW q, q.addr = p.addr, q.size = p.size
  PROVE  Tiles((P \ {p}) \union {q}, C)
<1>1. Tiles({q}, {p})
  BY DEF Tiles, IsExtent, Extent, Within
<1>2. QED
  BY <1>1, Cut

\* A place is split in two.
LEMMA Split ==
  ASSUME NEW P, NEW C, Tiles(P, C), NEW p \in P, NEW q, NEW r, IsExtent(q), IsExtent(r),
         q.addr = p.addr, r.addr = q.addr + q.size, q.size + r.size = p.size
  PROVE  Tiles((P \ {p}) \union {q, r}, C)
<1>1. Tiles({q, r}, {p})
  BY DEF Tiles, IsExtent, Extent, Within, Disjoint
<1>2. QED
  BY <1>1, Cut

\* Q is P with the place p cut into k nodes of the same size: f lists them.
CutsUp(P, p, k, s, f, Q) ==
    /\ k \in Nat \ {0} /\ s \in Nat \ {0} /\ p.size = k * s
    /\ \A j \in 0 .. k - 1 : f[j].addr = p.addr + j * s /\ f[j].size = s
    /\ \A q : q \in Q <=> q \in P \ {p} \/ \E j \in 0 .. k - 1 : q = f[j]

\* A place is cut into nodes of the same size.
LEMMA CutRun ==
  ASSUME NEW P, NEW C, Tiles(P, C), NEW p \in P, NEW k, NEW s, NEW f, NEW Q,
         CutsUp(P, p, k, s, f, Q)
  PROVE  Tiles(Q, C)
<1>a. /\ k \in Nat \ {0} /\ s \in Nat \ {0} /\ p.size = k * s
      /\ \A j \in 0 .. k - 1 : f[j].addr = p.addr + j * s /\ f[j].size = s
      /\ \A q : q \in Q <=> q \in P \ {p} \/ \E j \in 0 .. k - 1 : q = f[j]
  BY DEF CutsUp
<1> DEFINE N == {f[j] : j \in 0 .. k - 1}
<1>1. IsExtent(p)
  BY DEF Tiles
<1>2. \A j \in 0 .. k - 1 : j * s \in Nat
  BY <1>a
<1>3. \A q \in N : IsExtent(q)
  BY <1>a, <1>1, <1>2 DEF IsExtent
<1>4. ASSUME NEW i \in 0 .. k - 1, NEW j \in 0 .. k - 1, i < j PROVE Disjoint(f[i], f[j])
  <2>1. (i + 1) * s = i * s + s /\ (i + 1) * s <= j * s
    BY <1>a, <1>4, ProductOrder
  <2>2. QED
    BY <2>1, <1>a, <1>1, <1>2 DEF Disjoint, IsExtent
<1>5. ASSUME NEW q \in N, NEW r \in N, q # r PROVE Disjoint(q, r)
  <2>1. PICK i \in 0 .. k - 1, j \in 0 .. k - 1 : q = f[i] /\ r = f[j]
    OBVIOUS
  <2>2. i < j \/ j < i
    BY <2>1, <1>5
  <2>3. QED
    BY <2>1, <2>2, <1>4 DEF Disjoint
<1>6. ASSUME NEW j \in 0 .. k - 1 PROVE Within(f[j], p)
  <2>1. (j + 1) * s = j * s + s /\ (j + 1) * s <= k * s
    BY <1>a, ProductOrder
  <2>2. QED
    BY <2>1, <1>a, <1>1, <1>2 DEF Within, IsExtent
<1>7. ASSUME NEW x \in Extent(p) PROVE \E q \in N : x \in Extent(q)
  <2> DEFINE y == x - p.addr
             j == y \div s
  <2>1. y \in Nat /\ y < k * s
    BY <1>a, <1>1 DEF Extent, IsExtent
  <2> HIDE DEF y
  <2>2. j \in Nat /\ j * s <= y /\ y < j * s + s
    BY <1>a, <2>1, DivBounds
  <2> HIDE DEF j
  <2>3. j < k
    BY <1>a, <2>1, <2>2, ProductOrder
  <2>4. j \in 0 .. k - 1 /\ x = p.addr + y
    BY <1>a, <2>2, <2>3, <1>1 DEF y, Extent, IsExtent
  <2>5. x \in Extent(f[j])
    BY <1>a, <2>1, <2>2, <2>4, <1>1, <1>2 DEF Extent, IsExtent
  <2>6. QED
    BY <2>4, <2>5
<1>8. Tiles(N, {p})
  BY <1>1, <1>3, <1>5, <1>6, <1>7 DEF Tiles
<1>9. Q = (P \ {p}) \union N
  BY <1>a
<1> HIDE DEF N
<1>10. QED
  BY <1>8, <1>9, Cut

-----------------------------------------------------------------------------
(* How many bytes disjoint chunks have                                     *)

Covered(C) == UNION {Extent(c) : c \in C}

\* A chunk that is disjoint from the others adds its size to the bytes covered:
\* what _S_heap_size counts.
LEMMA BytesAdded ==
  ASSUME NEW C, IsFiniteSet(Covered(C)), NEW c, IsExtent(c),
         \A d \in C : IsExtent(d) /\ Disjoint(c, d)
  PROVE  /\ IsFiniteSet(Covered(C \union {c}))
         /\ Cardinality(Covered(C \union {c})) = Cardinality(Covered(C)) + c.size
<1>1. Covered(C \union {c}) = Covered(C) \union Extent(c)
  BY DEF Covered
<1>2. IsFiniteSet(Extent(c)) /\ Cardinality(Extent(c)) = c.size
  <2> DEFINE last == c.addr + c.size - 1
  <2>1. c.addr \in Int /\ last \in Int /\ ~ (c.addr > last) /\ c.size = last - c.addr + 1
    BY DEF IsExtent
  <2> HIDE DEF last
  <2>2. IsFiniteSet(c.addr .. last) /\ Cardinality(c.addr .. last) = last - c.addr + 1
    BY <2>1, FS_Interval, ZenonT(30)
  <2>3. QED
    BY <2>1, <2>2 DEF Extent, last
<1>3. Covered(C) \cap Extent(c) = {}
  BY DEF Covered, Extent, Disjoint, IsExtent
<1>4. Cardinality({}) = 0 /\ Cardinality(Covered(C)) \in Nat
  BY FS_EmptySet, FS_CardinalityType
<1>5. QED
  BY <1>1, <1>2, <1>3, <1>4, FS_Union DEF IsExtent
==============================================================================
