------------------------------ MODULE VecProofs ------------------------------
(***************************************************************************)
(* For every set of values, arrays and allocators and every capacity: a    *)
(* vector is the sequence that its client's calls describe, its header is  *)
(* that of its block, and it keeps the allocator it was bound to.          *)
(***************************************************************************)
EXTENDS Vec, NatFacts, SequenceTheorems

-----------------------------------------------------------------------------
(* Vectors *)

Cells == Vals \cup {Junk}

Vector(m, c, n, a) == [mem |-> m, cap |-> c, count |-> n, alloc |-> a]

IsVec(v) ==
  \E c \in Nat \ {0} : \E m \in [0 .. c - 1 -> Cells], n \in 0 .. c, a \in Allocs :
    v = Vector(m, c, n, a)

\* What a variable of type Vec(T) may hold.
IsHandle(v) == v = NULL \/ IsVec(v)

\* A record with the fields of a vector is not the null pointer.
LEMMA NotNull == \A m, c, n, a : Vector(m, c, n, a) # NULL
<1>1. \A m, c, n, a : "cap" \in DOMAIN Vector(m, c, n, a)
  BY DEF Vector
<1>2. "cap" \notin DOMAIN NULL
  BY DEF NULL
<1>3. QED
  BY <1>1, <1>2

\* What is in the fields of a vector, and the sequence it stands for.
LEMMA VecIs ==
  ASSUME NEW v, IsVec(v)
  PROVE  /\ v # NULL /\ v = Vector(v.mem, v.cap, v.count, v.alloc)
         /\ v.cap \in Nat \ {0} /\ v.count \in 0 .. v.cap /\ v.count \in Nat
         /\ v.mem \in [0 .. v.cap - 1 -> Cells] /\ v.alloc \in Allocs
         /\ Count(v) = v.count /\ Cap(v) = v.cap
         /\ Contents(v) \in Seq(Cells) /\ Len(Contents(v)) = v.count
         /\ \A i \in 1 .. v.count : Contents(v)[i] = v.mem[i - 1]
<1>1. PICK c \in Nat \ {0} : \E m \in [0 .. c - 1 -> Cells], n \in 0 .. c, a \in Allocs :
               v = Vector(m, c, n, a)
  BY DEF IsVec
<1>2. PICK m \in [0 .. c - 1 -> Cells], n \in 0 .. c, a \in Allocs : v = Vector(m, c, n, a)
  BY <1>1
<1>3. v.mem = m /\ v.cap = c /\ v.count = n /\ v.alloc = a
  BY <1>2 DEF Vector
<1>4. v # NULL /\ Count(v) = n /\ Cap(v) = c
  BY <1>2, <1>3, NotNull DEF Count, Cap
<1>5. n \in Nat /\ n <= c
  OBVIOUS
<1>6. Contents(v) = [i \in 1 .. n |-> m[i - 1]]
  BY <1>3, <1>4 DEF Contents
<1>7. \A i \in 1 .. n : m[i - 1] \in Cells
  BY <1>5
<1>8. Contents(v) \in [1 .. n -> Cells]
  BY <1>6, <1>7
<1>9. Contents(v) \in Seq(Cells) /\ Len(Contents(v)) = n
  BY <1>5, <1>8
<1>10. QED
  BY <1>2, <1>3, <1>4, <1>5, <1>6, <1>9

\* Such a record is a vector.
LEMMA MakesVec ==
  ASSUME NEW c \in Nat \ {0}, NEW m \in [0 .. c - 1 -> Cells], NEW n \in 0 .. c, NEW a \in Allocs
  PROVE  /\ IsVec(Vector(m, c, n, a))
         /\ Vector(m, c, n, a).mem = m /\ Vector(m, c, n, a).cap = c
         /\ Vector(m, c, n, a).count = n /\ Vector(m, c, n, a).alloc = a
BY DEF IsVec, Vector

\* A NULL handle is an empty vector.
LEMMA NullIs == Count(NULL) = 0 /\ Cap(NULL) = 0 /\ Contents(NULL) = <<>>
BY DEF Count, Cap, Contents

\* A handle never counts more elements than its capacity.
LEMMA HandleIs ==
  ASSUME NEW v, IsHandle(v)
  PROVE  /\ Count(v) \in Nat /\ Cap(v) \in Nat /\ Count(v) <= Cap(v)
         /\ Contents(v) \in Seq(Cells) /\ Len(Contents(v)) = Count(v)
<1>1. CASE v = NULL
  BY <1>1, NullIs, EmptySeq
<1>2. CASE IsVec(v)
  BY <1>2, VecIs
<1>3. QED
  BY <1>1, <1>2 DEF IsHandle

\* Sequences are equal if they have the same length and elements.
LEMMA ContentsAre ==
  ASSUME NEW v, IsVec(v), NEW s \in Seq(Cells), Len(s) = v.count,
         \A i \in 1 .. v.count : v.mem[i - 1] = s[i]
  PROVE  Contents(v) = s
BY VecIs, SeqEqual

-----------------------------------------------------------------------------
(* What the helpers do *)

\* rk_vec_create makes an empty vector.
LEMMA NewVecIs ==
  ASSUME NEW c \in Nat \ {0}, NEW a \in Allocs
  PROVE  LET v == NewVec(c, a)
         IN  IsVec(v) /\ v.cap = c /\ v.count = 0 /\ v.alloc = a /\ Contents(v) = <<>>
<1> DEFINE m == [i \in 0 .. c - 1 |-> Junk]
<1>1. m \in [0 .. c - 1 -> Cells] /\ 0 \in 0 .. c
  BY DEF Cells
<1>2. NewVec(c, a) = Vector(m, c, 0, a)
  BY DEF NewVec, Vector
<1> HIDE DEF m
<1>3. IsVec(NewVec(c, a)) /\ NewVec(c, a).cap = c /\ NewVec(c, a).count = 0 /\ NewVec(c, a).alloc = a
  BY <1>1, <1>2, MakesVec
<1>4. Contents(NewVec(c, a)) = <<>>
  <2>1. Contents(NewVec(c, a)) \in Seq(Cells) /\ Len(Contents(NewVec(c, a))) = 0
    BY <1>3, VecIs
  <2>2. QED
    BY <2>1, EmptySeq
<1>5. QED
  BY <1>3, <1>4

\* alloc_reallocate keeps the elements, as long as the new block has room for them.
LEMMA ChangeCapIs ==
  ASSUME NEW v, IsVec(v), NEW c \in Nat \ {0}, v.count <= c
  PROVE  LET r == ChangeCap(v, c)
         IN  /\ IsVec(r) /\ r.cap = c /\ r.count = v.count /\ r.alloc = v.alloc
             /\ Contents(r) = Contents(v)
<1> DEFINE r == ChangeCap(v, c)
           m == [i \in 0 .. c - 1 |-> IF i < v.cap THEN v.mem[i] ELSE Junk]
<1>1. /\ v = Vector(v.mem, v.cap, v.count, v.alloc)
      /\ v.cap \in Nat \ {0} /\ v.count \in 0 .. v.cap /\ v.mem \in [0 .. v.cap - 1 -> Cells]
      /\ v.alloc \in Allocs /\ v.count \in Nat
  BY VecIs
<1>2. m \in [0 .. c - 1 -> Cells]
  BY <1>1 DEF Cells
<1>3. r = [v EXCEPT !.mem = m, !.cap = c]
  BY DEF ChangeCap
<1>4. v.count \in 0 .. c
  BY <1>1
<1>5. IsVec(r) /\ r.cap = c /\ r.count = v.count /\ r.alloc = v.alloc /\ r.mem = m
  <2> HIDE DEF m, r
  <2>1. r = Vector(m, c, v.count, v.alloc)
    BY <1>1, <1>3 DEF Vector
  <2>2. v.alloc \in Allocs
    BY <1>1
  <2>3. QED
    BY <1>2, <1>4, <2>1, <2>2, MakesVec
<1>6. \A i \in 1 .. v.count : r.mem[i - 1] = v.mem[i - 1]
  BY <1>1, <1>4, <1>5
<1>7. Contents(r) = Contents(v)
  <2>1. /\ Contents(v) \in Seq(Cells) /\ Len(Contents(v)) = v.count
        /\ \A i \in 1 .. v.count : Contents(v)[i] = v.mem[i - 1]
    BY VecIs
  <2> HIDE DEF r
  <2>2. QED
    BY <1>5, <1>6, <2>1, ContentsAre
<1>8. QED
  BY <1>5, <1>7

\* The slots change alone.
LEMMA RefillIs ==
  ASSUME NEW v, IsVec(v), NEW m, m \in [0 .. v.cap - 1 -> Cells], NEW r, r = [v EXCEPT !.mem = m]
  PROVE  IsVec(r) /\ r.cap = v.cap /\ r.count = v.count /\ r.alloc = v.alloc /\ r.mem = m
<1>1. v = Vector(v.mem, v.cap, v.count, v.alloc)
  BY VecIs
<1>2. v.cap \in Nat \ {0} /\ v.count \in 0 .. v.cap /\ v.alloc \in Allocs
  BY VecIs
<1>3. PICK k \in Nat \ {0} : k = v.cap
  BY <1>2
<1>4. PICK n \in 0 .. k : n = v.count
  BY <1>2, <1>3
<1>5. PICK a \in Allocs : a = v.alloc
  BY <1>2
<1>6. m \in [0 .. k - 1 -> Cells]
  BY <1>3
<1>7. r = Vector(m, k, n, a)
  BY <1>1, <1>3, <1>4, <1>5 DEF Vector
<1>8. IsVec(r)
  BY <1>6, <1>7, ZenonT(30) DEF IsVec
<1>9. r.cap = k /\ r.count = n /\ r.alloc = a /\ r.mem = m
  BY <1>7 DEF Vector
<1>10. QED
  BY <1>3, <1>4, <1>5, <1>8, <1>9

\* memcpy puts an array into the slots from i on and leaves the others alone.
LEMMA CopyToIs ==
  ASSUME NEW v, IsVec(v), NEW i \in Nat, NEW arr \in Seq(Cells)
  PROVE  LET r == CopyTo(v, i, arr)
         IN  /\ IsVec(r) /\ r.cap = v.cap /\ r.count = v.count /\ r.alloc = v.alloc
             /\ \A j \in 0 .. v.cap - 1 :
                  r.mem[j] = IF i <= j /\ j < i + Len(arr) THEN arr[j - i + 1] ELSE v.mem[j]
<1> DEFINE r == CopyTo(v, i, arr)
           m == [j \in DOMAIN v.mem |->
                   IF j \in i .. i + Len(arr) - 1 THEN arr[j - i + 1] ELSE v.mem[j]]
<1>1. /\ v = Vector(v.mem, v.cap, v.count, v.alloc)
      /\ v.cap \in Nat \ {0} /\ v.count \in 0 .. v.cap /\ v.mem \in [0 .. v.cap - 1 -> Cells]
      /\ v.alloc \in Allocs
  BY VecIs
<1>2. r = [v EXCEPT !.mem = m]
  BY DEF CopyTo
<1>3. Len(arr) \in Nat /\ \A k \in 1 .. Len(arr) : arr[k] \in Cells
  BY ElementOfSeq
<1>4. ASSUME NEW j \in 0 .. v.cap - 1
      PROVE  /\ m[j] = IF i <= j /\ j < i + Len(arr) THEN arr[j - i + 1] ELSE v.mem[j]
             /\ m[j] \in Cells
  <2>1. j \in DOMAIN v.mem /\ v.mem[j] \in Cells
    BY <1>1
  <2>2. m[j] = IF j \in i .. i + Len(arr) - 1 THEN arr[j - i + 1] ELSE v.mem[j]
    BY <2>1
  <2>3. j \in i .. i + Len(arr) - 1 <=> i <= j /\ j < i + Len(arr)
    BY <1>1, <1>3
  <2>4. j \in i .. i + Len(arr) - 1 => j - i + 1 \in 1 .. Len(arr)
    BY <1>1, <1>3
  <2> HIDE DEF m
  <2>5. QED
    BY <1>3, <2>1, <2>2, <2>3, <2>4
<1>5. m \in [0 .. v.cap - 1 -> Cells]
  BY <1>1, <1>4
<1> HIDE DEF m, r
<1>6. IsVec(r) /\ r.cap = v.cap /\ r.count = v.count /\ r.alloc = v.alloc /\ r.mem = m
  BY <1>2, <1>5, RefillIs
<1>7. QED
  BY <1>4, <1>6 DEF r

\* Elements move from slots of the vector to others, which may overlap.
LEMMA MoveToIs ==
  ASSUME NEW v, IsVec(v), NEW dst \in Nat, NEW src \in Nat, NEW n \in Nat, src + n <= v.cap
  PROVE  LET r == MoveTo(v, dst, src, n)
         IN  /\ IsVec(r) /\ r.cap = v.cap /\ r.count = v.count /\ r.alloc = v.alloc
             /\ \A j \in 0 .. v.cap - 1 :
                  r.mem[j] = IF dst <= j /\ j < dst + n THEN v.mem[src + (j - dst)] ELSE v.mem[j]
<1> DEFINE r == MoveTo(v, dst, src, n)
           m == [j \in DOMAIN v.mem |->
                   IF j \in dst .. dst + n - 1 THEN v.mem[src + (j - dst)] ELSE v.mem[j]]
<1>1. /\ v = Vector(v.mem, v.cap, v.count, v.alloc)
      /\ v.cap \in Nat \ {0} /\ v.count \in 0 .. v.cap /\ v.mem \in [0 .. v.cap - 1 -> Cells]
      /\ v.alloc \in Allocs
  BY VecIs
<1>2. r = [v EXCEPT !.mem = m]
  BY DEF MoveTo
<1>3. ASSUME NEW j \in 0 .. v.cap - 1
      PROVE  /\ m[j] = IF dst <= j /\ j < dst + n THEN v.mem[src + (j - dst)] ELSE v.mem[j]
             /\ m[j] \in Cells
  <2>1. j \in DOMAIN v.mem /\ v.mem[j] \in Cells
    BY <1>1
  <2>2. m[j] = IF j \in dst .. dst + n - 1 THEN v.mem[src + (j - dst)] ELSE v.mem[j]
    BY <2>1
  <2>3. j \in dst .. dst + n - 1 <=> dst <= j /\ j < dst + n
    BY <1>1
  <2>4. dst <= j /\ j < dst + n => src + (j - dst) \in 0 .. v.cap - 1
    BY <1>1
  <2> HIDE DEF m
  <2>5. QED
    BY <1>1, <2>1, <2>2, <2>3, <2>4
<1>4. m \in [0 .. v.cap - 1 -> Cells]
  BY <1>1, <1>3
<1> HIDE DEF m, r
<1>5. IsVec(r) /\ r.cap = v.cap /\ r.count = v.count /\ r.alloc = v.alloc /\ r.mem = m
  BY <1>2, <1>4, RefillIs
<1>6. QED
  BY <1>3, <1>5 DEF r

\* The count changes alone.
LEMMA RecountIs ==
  ASSUME NEW v, IsVec(v), NEW n \in 0 .. v.cap
  PROVE  LET r == [v EXCEPT !.count = n]
         IN  IsVec(r) /\ r.cap = v.cap /\ r.count = n /\ r.alloc = v.alloc /\ r.mem = v.mem
<1> DEFINE r == [v EXCEPT !.count = n]
<1>1. /\ v = Vector(v.mem, v.cap, v.count, v.alloc)
      /\ v.cap \in Nat \ {0} /\ v.mem \in [0 .. v.cap - 1 -> Cells] /\ v.alloc \in Allocs
  BY VecIs
<1>2. r = Vector(v.mem, v.cap, n, v.alloc)
  BY <1>1 DEF Vector
<1> HIDE DEF r
<1>3. IsVec(r) /\ r.cap = v.cap /\ r.count = n /\ r.alloc = v.alloc /\ r.mem = v.mem
  BY <1>1, <1>2, MakesVec
<1>4. QED
  BY <1>3 DEF r

-----------------------------------------------------------------------------
(* Sequences *)

\* The first i elements of a sequence, and those after the k-th.
LEMMA EndsAre ==
  ASSUME NEW S, NEW s \in Seq(S), NEW i \in Nat, NEW k \in Nat, i <= Len(s), k <= Len(s)
  PROVE  /\ SubSeq(s, 1, i) \in Seq(S) /\ Len(SubSeq(s, 1, i)) = i
         /\ \A j \in 1 .. i : SubSeq(s, 1, i)[j] = s[j]
         /\ SubSeq(s, k + 1, Len(s)) \in Seq(S) /\ Len(SubSeq(s, k + 1, Len(s))) = Len(s) - k
         /\ \A j \in 1 .. Len(s) - k : SubSeq(s, k + 1, Len(s))[j] = s[k + j]
<1> DEFINE n == Len(s)
           p == SubSeq(s, 1, i)
           q == SubSeq(s, k + 1, n)
<1>1. n \in Nat
  BY LenProperties
<1>2. p \in Seq(S) /\ Len(p) = i /\ \A j \in 1 .. i : p[j] = s[j]
  <2>1. 1 \in Int /\ i \in Int /\ \A j \in 1 .. i : s[j] \in S
    BY <1>1, ElementOfSeq
  <2>2. /\ p \in Seq(S) /\ Len(p) = (IF 1 <= i THEN i - 1 + 1 ELSE 0)
        /\ \A j \in 1 .. i - 1 + 1 : p[j] = s[1 + j - 1]
    BY <2>1, SubSeqProperties
  <2> HIDE DEF p
  <2>3. Len(p) = i
    BY <2>2
  <2>4. ASSUME NEW j \in 1 .. i
        PROVE  p[j] = s[j]
    <3>1. j \in 1 .. i - 1 + 1 /\ 1 + j - 1 = j
      OBVIOUS
    <3>2. p[j] = s[1 + j - 1]
      BY <2>2, <3>1
    <3>3. QED
      BY <3>1, <3>2
  <2>5. QED
    BY <2>2, <2>3, <2>4
<1>3. q \in Seq(S) /\ Len(q) = n - k /\ \A j \in 1 .. n - k : q[j] = s[k + j]
  <2>1. k + 1 \in Int /\ n \in Int /\ \A j \in k + 1 .. n : s[j] \in S
    BY <1>1, ElementOfSeq
  <2>2. /\ q \in Seq(S) /\ Len(q) = (IF k + 1 <= n THEN n - (k + 1) + 1 ELSE 0)
        /\ \A j \in 1 .. n - (k + 1) + 1 : q[j] = s[k + 1 + j - 1]
    BY <2>1, SubSeqProperties
  <2> HIDE DEF q
  <2>3. Len(q) = n - k
    BY <1>1, <2>2
  <2>4. ASSUME NEW j \in 1 .. n - k
        PROVE  q[j] = s[k + j]
    <3>1. j \in 1 .. n - (k + 1) + 1 /\ k + 1 + j - 1 = k + j
      BY <1>1
    <3>2. q[j] = s[k + 1 + j - 1]
      BY <2>2, <3>1
    <3>3. QED
      BY <3>1, <3>2
  <2>5. QED
    BY <2>2, <2>3, <2>4
<1>4. QED
  BY <1>2, <1>3

\* An array between the first i elements of a sequence and those from the f-th on.
Splice(s, i, arr, f) == SubSeq(s, 1, i) \o arr \o SubSeq(s, f, Len(s))

\* What the splice holds at each place.
LEMMA SpliceIs ==
  ASSUME NEW S, NEW s \in Seq(S), NEW arr \in Seq(S), NEW i \in Nat, NEW f \in Nat,
         i < f, f <= Len(s) + 1
  PROVE  LET t == Splice(s, i, arr, f)
         IN  /\ t \in Seq(S) /\ Len(t) = Len(s) + Len(arr) - (f - 1 - i)
             /\ \A j \in 1 .. Len(t) :
                  t[j] = IF j <= i THEN s[j]
                         ELSE IF j <= i + Len(arr) THEN arr[j - i] ELSE s[j - Len(arr) + (f - 1 - i)]
<1> DEFINE n == Len(s)
           a == Len(arr)
           p == SubSeq(s, 1, i)
           q == SubSeq(s, f, n)
           k == f - 1
           x == p \o arr
           t == x \o q
<1>1. n \in Nat /\ a \in Nat /\ k \in Nat /\ i <= k /\ k <= n /\ i <= n /\ f = k + 1
  BY LenProperties
<1>2. p \in Seq(S) /\ Len(p) = i /\ \A j \in 1 .. i : p[j] = s[j]
  BY <1>1, EndsAre
<1>3. q \in Seq(S) /\ Len(q) = n - k /\ n - k \in Nat /\ \A j \in 1 .. n - k : q[j] = s[k + j]
  BY <1>1, EndsAre, SMTT(30)
<1> HIDE DEF n, a, p, q, k
<1>4. /\ x \in Seq(S) /\ Len(x) = i + a
      /\ \A j \in 1 .. i + a : x[j] = IF j <= i THEN p[j] ELSE arr[j - i]
  BY <1>2, ConcatProperties DEF a
<1> HIDE DEF x
<1>5. /\ t \in Seq(S) /\ Len(t) = i + a + (n - k)
      /\ \A j \in 1 .. i + a + (n - k) : t[j] = IF j <= i + a THEN x[j] ELSE q[j - (i + a)]
  <2>1. /\ t \in Seq(S) /\ Len(t) = Len(x) + Len(q)
        /\ \A j \in 1 .. Len(x) + Len(q) : t[j] = IF j <= Len(x) THEN x[j] ELSE q[j - Len(x)]
    BY <1>3, <1>4, ConcatProperties
  <2> HIDE DEF t
  <2>2. Len(x) = i + a /\ Len(q) = n - k
    BY <1>3, <1>4
  <2>3. QED
    BY <2>1, <2>2
<1> HIDE DEF t
<1>6. Len(t) = n + a - (k - i)
  BY <1>1, <1>5
<1>7. ASSUME NEW j \in 1 .. i + a + (n - k)
      PROVE  t[j] = IF j <= i THEN s[j]
                    ELSE IF j <= i + a THEN arr[j - i] ELSE s[j - a + (k - i)]
  <2>1. CASE j <= i
    <3>1. j \in 1 .. i /\ j \in 1 .. i + a /\ j <= i + a
      BY <1>1, <2>1
    <3>2. t[j] = x[j]
      BY <1>5, <3>1
    <3>3. x[j] = p[j]
      BY <1>4, <2>1, <3>1
    <3>4. p[j] = s[j]
      BY <1>2, <3>1
    <3>5. QED
      BY <2>1, <3>2, <3>3, <3>4
  <2>2. CASE ~ (j <= i) /\ j <= i + a
    <3>1. j \in 1 .. i + a /\ j <= i + a
      BY <1>1, <2>2
    <3>2. t[j] = x[j]
      BY <1>5, <3>1
    <3>3. x[j] = arr[j - i]
      BY <1>4, <2>2, <3>1
    <3>4. QED
      BY <2>2, <3>2, <3>3
  <2>3. CASE ~ (j <= i) /\ ~ (j <= i + a)
    <3>1. t[j] = q[j - (i + a)]
      BY <1>1, <1>5, <2>3
    <3>2. j - (i + a) \in 1 .. n - k /\ k + (j - (i + a)) = j - a + (k - i)
      BY <1>1, <2>3
    <3>3. q[j - (i + a)] = s[k + (j - (i + a))]
      BY <1>3, <3>2
    <3>4. QED
      BY <2>3, <3>1, <3>2, <3>3
  <2>4. QED
    BY <2>1, <2>2, <2>3
<1>8. QED
  BY <1>5, <1>6, <1>7 DEF Splice, t, x, p, q, n, a, k

\* The same as a property of the splice t.
IsSplice(t, S, s, i, arr, f) ==
  /\ t \in Seq(S) /\ Len(t) = Len(s) + Len(arr) - (f - 1 - i)
  /\ \A j \in 1 .. Len(t) :
       t[j] = IF j <= i THEN s[j]
              ELSE IF j <= i + Len(arr) THEN arr[j - i] ELSE s[j - Len(arr) + (f - 1 - i)]

\* The splice has it.
LEMMA SpliceFits ==
  ASSUME NEW S, NEW s \in Seq(S), NEW arr \in Seq(S), NEW i \in Nat, NEW f \in Nat,
         i < f, f <= Len(s) + 1
  PROVE  IsSplice(Splice(s, i, arr, f), S, s, i, arr, f)
<1> DEFINE t == Splice(s, i, arr, f)
<1>1. /\ t \in Seq(S) /\ Len(t) = Len(s) + Len(arr) - (f - 1 - i)
      /\ \A j \in 1 .. Len(t) :
           t[j] = IF j <= i THEN s[j]
                  ELSE IF j <= i + Len(arr) THEN arr[j - i] ELSE s[j - Len(arr) + (f - 1 - i)]
  BY SpliceIs
<1> HIDE DEF t
<1>2. IsSplice(t, S, s, i, arr, f)
  BY <1>1 DEF IsSplice
<1>3. QED
  BY <1>2 DEF t

\* An array put into a sequence, of which nothing is left out.
IsInserted(t, s, arr, i) ==
  /\ t \in Seq(Cells) /\ Len(t) = Len(s) + Len(arr)
  /\ \A j \in 1 .. Len(t) :
       t[j] = IF j <= i THEN s[j] ELSE IF j <= i + Len(arr) THEN arr[j - i] ELSE s[j - Len(arr)]

\* The splice that takes up again where it left off inserts the array.
LEMMA InsertedIs ==
  ASSUME NEW s \in Seq(Cells), NEW arr \in Seq(Cells), NEW i \in Nat, i <= Len(s)
  PROVE  IsInserted(Splice(s, i, arr, i + 1), s, arr, i)
<1>1. PICK f \in Nat : f = i + 1
  OBVIOUS
<1> DEFINE t == Splice(s, i, arr, f)
<1>2. Len(s) \in Nat /\ Len(arr) \in Nat
  BY LenProperties
<1>3. IsSplice(t, Cells, s, i, arr, f)
  <2>1. i < f /\ f <= Len(s) + 1
    BY <1>1, <1>2
  <2>2. QED
    BY <2>1, SpliceFits
<1> HIDE DEF t
<1>4. /\ t \in Seq(Cells) /\ Len(t) = Len(s) + Len(arr) - (f - 1 - i)
      /\ \A j \in 1 .. Len(t) :
           t[j] = IF j <= i THEN s[j]
                  ELSE IF j <= i + Len(arr) THEN arr[j - i] ELSE s[j - Len(arr) + (f - 1 - i)]
  BY <1>3 DEF IsSplice
<1>5. Len(t) = Len(s) + Len(arr)
  BY <1>1, <1>2, <1>4
<1>6. \A j \in 1 .. Len(t) : j - Len(arr) + (f - 1 - i) = j - Len(arr)
  BY <1>1, <1>2, <1>5
<1>7. IsInserted(t, s, arr, i)
  BY <1>4, <1>5, <1>6 DEF IsInserted
<1>8. QED
  BY <1>1, <1>7 DEF t

\* An empty array changes nothing.
LEMMA InsertedNothing ==
  ASSUME NEW s \in Seq(Cells), NEW arr \in Seq(Cells), Len(arr) = 0, NEW i \in Nat, i <= Len(s)
  PROVE  Splice(s, i, arr, i + 1) = s
<1> DEFINE t == Splice(s, i, arr, i + 1)
<1>1. IsInserted(t, s, arr, i)
  BY InsertedIs
<1> HIDE DEF t
<1>2. Len(s) \in Nat /\ Len(t) = Len(s) /\ t \in Seq(Cells)
  BY <1>1, LenProperties DEF IsInserted
<1>3. ASSUME NEW j \in 1 .. Len(t)
      PROVE  t[j] = s[j]
  <2>1. j - Len(arr) = j /\ (j <= i + Len(arr) <=> j <= i)
    BY <1>2
  <2>2. QED
    BY <1>1, <2>1 DEF IsInserted
<1>4. t = s
  BY <1>2, <1>3, SeqEqual
<1>5. QED
  BY <1>4 DEF t

\* The same without an array in between.
Cut(s, i, f) == SubSeq(s, 1, i) \o SubSeq(s, f, Len(s))

\* What is left at each place.
LEMMA CutIs ==
  ASSUME NEW S, NEW s \in Seq(S), NEW i \in Nat, NEW f \in Nat,
         i < f, f <= Len(s) + 1
  PROVE  LET t == Cut(s, i, f)
         IN  /\ t \in Seq(S) /\ Len(t) = Len(s) - (f - 1 - i)
             /\ \A j \in 1 .. Len(t) : t[j] = IF j <= i THEN s[j] ELSE s[j + (f - 1 - i)]
<1> DEFINE n == Len(s)
           p == SubSeq(s, 1, i)
           q == SubSeq(s, f, n)
           k == f - 1
           t == p \o q
<1>1. n \in Nat /\ k \in Nat /\ i <= k /\ k <= n /\ i <= n /\ f = k + 1
  BY LenProperties
<1>2. p \in Seq(S) /\ Len(p) = i /\ \A j \in 1 .. i : p[j] = s[j]
  BY <1>1, EndsAre
<1>3. q \in Seq(S) /\ Len(q) = n - k /\ n - k \in Nat /\ \A j \in 1 .. n - k : q[j] = s[k + j]
  BY <1>1, EndsAre
<1> HIDE DEF n, p, q, k
<1>4. /\ t \in Seq(S) /\ Len(t) = i + (n - k)
      /\ \A j \in 1 .. i + (n - k) : t[j] = IF j <= i THEN p[j] ELSE q[j - i]
  <2>1. /\ t \in Seq(S) /\ Len(t) = Len(p) + Len(q)
        /\ \A j \in 1 .. Len(p) + Len(q) : t[j] = IF j <= Len(p) THEN p[j] ELSE q[j - Len(p)]
    BY <1>2, <1>3, ConcatProperties
  <2> HIDE DEF t
  <2>2. Len(p) = i /\ Len(q) = n - k
    BY <1>2, <1>3
  <2>3. QED
    BY <2>1, <2>2
<1> HIDE DEF t
<1>5. Len(t) = n - (k - i)
  BY <1>1, <1>4
<1>6. ASSUME NEW j \in 1 .. i + (n - k)
      PROVE  t[j] = IF j <= i THEN s[j] ELSE s[j + (k - i)]
  <2>1. CASE j <= i
    <3>1. t[j] = p[j] /\ p[j] = s[j]
      BY <1>1, <1>2, <1>4, <2>1
    <3>2. QED
      BY <2>1, <3>1
  <2>2. CASE ~ (j <= i)
    <3>1. t[j] = q[j - i]
      BY <1>1, <1>4, <2>2
    <3>2. j - i \in 1 .. n - k /\ k + (j - i) = j + (k - i)
      BY <1>1, <2>2
    <3>3. q[j - i] = s[k + (j - i)]
      BY <1>3, <3>2
    <3>4. QED
      BY <2>2, <3>1, <3>2, <3>3
  <2>3. QED
    BY <2>1, <2>2
<1>7. QED
  BY <1>4, <1>5, <1>6 DEF Cut, t, p, q, n, k

-----------------------------------------------------------------------------
(* Room *)

SameAlloc(v, w) == v # NULL => w # NULL /\ w.alloc = v.alloc

\* RKI_VEC_RESERVE: there is room for c, unless nothing was asked of no vector.
LEMMA ReserveIs ==
  ASSUME NEW v, IsHandle(v), NEW c \in Nat, NEW a \in Allocs
  PROVE  LET r == Reserve(v, c, a)
         IN  /\ IsHandle(r) /\ SameAlloc(v, r) /\ Contents(r) = Contents(v)
             /\ Count(r) = Count(v) /\ Cap(r) >= c /\ (r = NULL => c = 0)
<1>1. CASE v = NULL /\ c = 0
  BY <1>1, NullIs DEF Reserve, IsHandle, SameAlloc
<1>2. CASE v = NULL /\ c # 0
  <2> DEFINE r == NewVec(c, a)
  <2>1. c \in Nat \ {0} /\ Reserve(v, c, a) = r
    BY <1>2 DEF Reserve
  <2>2. IsVec(r) /\ r.cap = c /\ r.count = 0 /\ Contents(r) = <<>>
    BY <2>1, NewVecIs
  <2> HIDE DEF r
  <2>3. r # NULL /\ Count(r) = 0 /\ Cap(r) = c
    BY <2>2, VecIs
  <2>4. QED
    BY <1>2, <2>1, <2>2, <2>3, NullIs DEF IsHandle, SameAlloc
<1>3. CASE v # NULL /\ c > v.cap
  <2> DEFINE r == ChangeCap(v, c)
  <2>1. IsVec(v)
    BY <1>3 DEF IsHandle
  <2>2. v.cap \in Nat \ {0} /\ v.count \in 0 .. v.cap /\ Count(v) = v.count
    BY <2>1, VecIs
  <2>3. c \in Nat \ {0} /\ v.count <= c /\ Reserve(v, c, a) = r
    BY <1>3, <2>2 DEF Reserve
  <2>4. /\ IsVec(r) /\ r.cap = c /\ r.count = v.count /\ r.alloc = v.alloc
        /\ Contents(r) = Contents(v)
    BY <2>1, <2>3, ChangeCapIs
  <2> HIDE DEF r
  <2>5. r # NULL /\ Count(r) = r.count /\ Cap(r) = r.cap
    BY <2>4, VecIs
  <2>6. QED
    BY <2>2, <2>3, <2>4, <2>5 DEF IsHandle, SameAlloc
<1>4. CASE v # NULL /\ ~ (c > v.cap)
  <2>1. IsVec(v) /\ Reserve(v, c, a) = v
    BY <1>4 DEF IsHandle, Reserve
  <2>2. v.cap \in Nat /\ Cap(v) = v.cap
    BY <2>1, VecIs
  <2>3. QED
    BY <1>4, <2>1, <2>2 DEF SameAlloc
<1>5. QED
  BY <1>1, <1>2, <1>3, <1>4

\* RKI_VEC_RESERVE_1: there is room for one more.
LEMMA Reserve1Is ==
  ASSUME NEW v, IsHandle(v), NEW a \in Allocs
  PROVE  LET r == Reserve1(v, a)
         IN  /\ IsVec(r) /\ SameAlloc(v, r) /\ Contents(r) = Contents(v)
             /\ r.count = Count(v) /\ r.count < r.cap
<1>1. CASE v = NULL
  <2> DEFINE r == NewVec(1, a)
  <2>1. IsVec(r) /\ r.cap = 1 /\ r.count = 0 /\ Contents(r) = <<>>
    BY NewVecIs
  <2>2. Reserve1(v, a) = r
    BY <1>1 DEF Reserve1
  <2> HIDE DEF r
  <2>3. QED
    BY <1>1, <2>1, <2>2, NullIs DEF SameAlloc
<1>2. CASE v # NULL /\ v.count = v.cap
  <2> DEFINE r == ChangeCap(v, 2 * v.cap)
  <2>1. IsVec(v)
    BY <1>2 DEF IsHandle
  <2>2. v.cap \in Nat \ {0} /\ v.count \in 0 .. v.cap /\ Count(v) = v.count
    BY <2>1, VecIs
  <2>3. 2 * v.cap \in Nat \ {0} /\ v.count <= 2 * v.cap /\ v.count < 2 * v.cap
    BY <1>2, <2>2
  <2>4. Reserve1(v, a) = r
    BY <1>2 DEF Reserve1
  <2>5. /\ IsVec(r) /\ r.cap = 2 * v.cap /\ r.count = v.count /\ r.alloc = v.alloc
        /\ Contents(r) = Contents(v)
    BY <2>1, <2>3, ChangeCapIs
  <2> HIDE DEF r
  <2>6. r # NULL
    BY <2>5, VecIs
  <2>7. QED
    BY <2>2, <2>3, <2>4, <2>5, <2>6 DEF SameAlloc
<1>3. CASE v # NULL /\ v.count # v.cap
  <2>1. IsVec(v) /\ Reserve1(v, a) = v
    BY <1>3 DEF IsHandle, Reserve1
  <2>2. v.cap \in Nat /\ v.count \in 0 .. v.cap /\ Count(v) = v.count
    BY <2>1, VecIs
  <2>3. QED
    BY <1>3, <2>1, <2>2 DEF SameAlloc
<1>4. QED
  BY <1>1, <1>2, <1>3

\* RKI_VEC_SHRINK_TO_FIT, to a capacity that the elements fit in.
LEMMA ShrinkToIs ==
  ASSUME NEW v, IsHandle(v), NEW c \in Nat \ {0}, Count(v) <= c
  PROVE  LET r == ShrinkTo(v, c)
         IN  IsHandle(r) /\ SameAlloc(v, r) /\ Contents(r) = Contents(v)
<1>1. CASE v # NULL /\ c < v.cap
  <2> DEFINE r == ChangeCap(v, c)
  <2>1. IsVec(v) /\ ShrinkTo(v, c) = r
    BY <1>1 DEF IsHandle, ShrinkTo
  <2>2. v.count <= c
    BY <2>1, VecIs
  <2>3. /\ IsVec(r) /\ r.alloc = v.alloc /\ Contents(r) = Contents(v)
    BY <2>1, <2>2, ChangeCapIs
  <2> HIDE DEF r
  <2>4. r # NULL
    BY <2>3, VecIs
  <2>5. QED
    BY <2>1, <2>3, <2>4 DEF IsHandle, SameAlloc
<1>2. CASE ~ (v # NULL /\ c < v.cap)
  BY <1>2 DEF ShrinkTo, SameAlloc
<1>3. QED
  BY <1>1, <1>2

\* stdc_bit_ceil is not below its argument, nor zero.
LEMMA BitCeilIs ==
  ASSUME NEW n \in Nat
  PROVE  BitCeil(n) \in Nat \ {0} /\ n <= BitCeil(n)
<1> DEFINE P == {p \in PowersUpTo(2 * n + 1) : n <= p}
<1>1. P \subseteq Nat \ {0} /\ P # {}
  BY PowerAbove DEF PowersUpTo
<1>2. PICK p \in P : \A q \in P : p <= q
  <2> HIDE DEF P
  <2>1. QED
    BY <1>1, LeastExists
<1>3. p \in PowersUpTo(2 * n + 1) /\ n <= p /\ \A q \in PowersUpTo(2 * n + 1) : n <= q => p <= q
  BY <1>2
<1>4. BitCeil(n) \in PowersUpTo(2 * n + 1) /\ n <= BitCeil(n)
  BY <1>3 DEF BitCeil
<1>5. QED
  BY <1>4 DEF PowersUpTo

-----------------------------------------------------------------------------
(* What each operation does to the sequence *)

\* The client's arrays are sequences of what slots hold.
LEMMA ArraysFit == \A arr \in Seq(Vals) : arr \in Seq(Cells)
<1>1. SUFFICES ASSUME NEW arr \in Seq(Vals)
               PROVE  arr \in Seq(Cells)
  OBVIOUS
<1>2. Len(arr) \in Nat /\ arr \in [1 .. Len(arr) -> Vals]
  BY LenProperties
<1>3. arr \in [1 .. Len(arr) -> Cells]
  BY <1>2 DEF Cells
<1>4. QED
  BY <1>2, <1>3

\* The slots hold the elements of s in order, and the count becomes their number.
LEMMA ResultIs ==
  ASSUME NEW x, IsVec(x), NEW s \in Seq(Cells), Len(s) <= x.cap,
         \A j \in 1 .. Len(s) : x.mem[j - 1] = s[j], NEW n, n = Len(s)
  PROVE  LET w == [x EXCEPT !.count = n]
         IN  IsHandle(w) /\ w # NULL /\ w.alloc = x.alloc /\ w.cap = x.cap /\ Contents(w) = s
<1> DEFINE w == [x EXCEPT !.count = n]
<1>1. x.cap \in Nat \ {0}
  BY VecIs
<1>2. n \in 0 .. x.cap
  BY <1>1, LenProperties
<1>3. IsVec(w) /\ w.cap = x.cap /\ w.count = n /\ w.alloc = x.alloc /\ w.mem = x.mem
  BY <1>2, RecountIs
<1> HIDE DEF w
<1>4. Contents(w) = s
  BY <1>3, ContentsAre
<1>5. w # NULL /\ IsHandle(w)
  BY <1>3, VecIs DEF IsHandle
<1>6. QED
  BY <1>3, <1>4, <1>5 DEF w

\* An array written behind the last element.
LEMMA AppendIs ==
  ASSUME NEW r, IsVec(r), NEW arr \in Seq(Cells), r.count + Len(arr) <= r.cap
  PROVE  LET w == [CopyTo(r, r.count, arr) EXCEPT !.count = @ + Len(arr)]
         IN  /\ IsHandle(w) /\ w # NULL /\ w.alloc = r.alloc
             /\ Contents(w) = Contents(r) \o arr
<1> DEFINE c == Contents(r)
           s == c \o arr
           x == CopyTo(r, r.count, arr)
           w == [x EXCEPT !.count = @ + Len(arr)]
<1>1. /\ r.count \in Nat /\ r.cap \in Nat /\ c \in Seq(Cells) /\ Len(c) = r.count
      /\ \A j \in 1 .. r.count : c[j] = r.mem[j - 1]
  BY VecIs
<1>2. Len(arr) \in Nat
  BY LenProperties
<1>3. /\ IsVec(x) /\ x.cap = r.cap /\ x.count = r.count /\ x.alloc = r.alloc
      /\ \A j \in 0 .. r.cap - 1 :
           x.mem[j] = IF r.count <= j /\ j < r.count + Len(arr)
                      THEN arr[j - r.count + 1] ELSE r.mem[j]
  BY <1>1, CopyToIs
<1> HIDE DEF x, c
<1>4. /\ s \in Seq(Cells) /\ Len(s) = r.count + Len(arr)
      /\ \A j \in 1 .. r.count + Len(arr) : s[j] = IF j <= r.count THEN c[j] ELSE arr[j - r.count]
  <2>1. /\ s \in Seq(Cells) /\ Len(s) = Len(c) + Len(arr)
        /\ \A j \in 1 .. Len(c) + Len(arr) : s[j] = IF j <= Len(c) THEN c[j] ELSE arr[j - Len(c)]
    BY <1>1, ConcatProperties
  <2> HIDE DEF s
  <2>2. QED
    BY <1>1, <2>1
<1> HIDE DEF s
<1>5. ASSUME NEW j \in 1 .. Len(s)
      PROVE  x.mem[j - 1] = s[j]
  <2>1. j - 1 \in 0 .. r.cap - 1
    BY <1>1, <1>2, <1>4
  <2>2. CASE j <= r.count
    <3>1. j \in 1 .. r.count /\ ~ (r.count <= j - 1)
      BY <1>1, <2>2
    <3>2. x.mem[j - 1] = r.mem[j - 1]
      BY <1>3, <2>1, <3>1
    <3>3. s[j] = c[j] /\ c[j] = r.mem[j - 1]
      BY <1>1, <1>4, <2>2, <3>1
    <3>4. QED
      BY <3>2, <3>3
  <2>3. CASE ~ (j <= r.count)
    <3>1. r.count <= j - 1 /\ j - 1 < r.count + Len(arr) /\ (j - 1) - r.count + 1 = j - r.count
      BY <1>1, <1>2, <1>4, <2>3
    <3>2. x.mem[j - 1] = arr[j - r.count]
      BY <1>3, <2>1, <3>1
    <3>3. s[j] = arr[j - r.count]
      BY <1>4, <2>3
    <3>4. QED
      BY <3>2, <3>3
  <2>4. QED
    BY <2>2, <2>3
<1>6. w = [x EXCEPT !.count = Len(s)]
  BY <1>3, <1>4
<1>7. IsHandle(w) /\ w # NULL /\ w.alloc = r.alloc /\ Contents(w) = s
  <2> DEFINE u == [x EXCEPT !.count = Len(s)]
  <2>1. Len(s) <= x.cap
    BY <1>3, <1>4
  <2>2. IsHandle(u) /\ u # NULL /\ u.alloc = x.alloc /\ Contents(u) = s
    BY <1>3, <1>4, <1>5, <2>1, ResultIs
  <2> HIDE DEF w, u
  <2>3. w = u
    BY <1>6 DEF u
  <2>4. QED
    BY <1>3, <2>2, <2>3
<1>8. QED
  BY <1>7 DEF w, x, s, c

\* RKI_VEC_PUSH_ARR adds the array.
LEMMA PushNIs ==
  ASSUME NEW v, IsHandle(v), NEW arr \in Seq(Cells), NEW a \in Allocs
  PROVE  LET w == PushN(v, arr, a)
         IN  IsHandle(w) /\ SameAlloc(v, w) /\ Contents(w) = Contents(v) \o arr
<1>1. Count(v) \in Nat /\ Contents(v) \in Seq(Cells) /\ Len(arr) \in Nat
  BY HandleIs, LenProperties
<1>2. CASE arr = <<>>
  <2>1. PushN(v, arr, a) = v
    BY <1>2 DEF PushN
  <2>2. Contents(v) \o arr = Contents(v)
    BY <1>1, <1>2, ConcatEmptySeq
  <2>3. QED
    BY <2>1, <2>2 DEF SameAlloc
<1>3. CASE arr # <<>>
  <2> DEFINE c == Count(v) + Len(arr)
             r == Reserve(v, c, a)
             w == [CopyTo(r, r.count, arr) EXCEPT !.count = @ + Len(arr)]
  <2>1. Len(arr) # 0
    BY <1>3, EmptySeq
  <2>2. c \in Nat /\ c # 0
    BY <1>1, <2>1
  <2>3. PushN(v, arr, a) = w
    BY <1>3 DEF PushN
  <2> HIDE DEF c
  <2>4. /\ IsHandle(r) /\ SameAlloc(v, r) /\ Contents(r) = Contents(v)
        /\ Count(r) = Count(v) /\ Cap(r) >= c /\ r # NULL
    BY <2>2, ReserveIs
  <2> HIDE DEF r
  <2>5. IsVec(r)
    BY <2>4 DEF IsHandle
  <2>6. r.count = Count(v) /\ r.cap = Cap(r)
    BY <2>4, <2>5, VecIs
  <2>7. r.count + Len(arr) <= r.cap
    BY <2>4, <2>6 DEF c
  <2>8. IsHandle(w) /\ w # NULL /\ w.alloc = r.alloc /\ Contents(w) = Contents(r) \o arr
    BY <2>5, <2>7, AppendIs
  <2> HIDE DEF w
  <2>9. QED
    BY <2>3, <2>4, <2>8 DEF SameAlloc
<1>4. QED
  BY <1>2, <1>3

\* An element makes a sequence of its own.
LEMMA OneIs == ASSUME NEW x \in Cells PROVE <<x>> \in Seq(Cells) /\ Len(<<x>>) = 1 /\ <<x>>[1] = x
OBVIOUS

\* RKI_VEC_PUSH adds the element.
LEMMA PushIs ==
  ASSUME NEW v, IsHandle(v), NEW e \in Cells, NEW a \in Allocs
  PROVE  LET w == Push(v, e, a)
         IN  IsHandle(w) /\ SameAlloc(v, w) /\ Contents(w) = Contents(v) \o <<e>>
<1> DEFINE r == Reserve1(v, a)
           arr == <<e>>
           w == [CopyTo(r, r.count, arr) EXCEPT !.count = @ + Len(arr)]
<1>1. arr \in Seq(Cells) /\ Len(arr) = 1
  BY OneIs
<1>2. /\ IsVec(r) /\ SameAlloc(v, r) /\ Contents(r) = Contents(v)
      /\ r.count = Count(v) /\ r.count < r.cap
  BY Reserve1Is
<1>3. Push(v, e, a) = w
  BY <1>1 DEF Push
<1> HIDE DEF r, arr
<1>4. r.count \in Nat /\ r.cap \in Nat
  BY <1>2, VecIs
<1>5. r.count + Len(arr) <= r.cap
  BY <1>1, <1>2, <1>4
<1>6. IsHandle(w) /\ w # NULL /\ w.alloc = r.alloc /\ Contents(w) = Contents(r) \o arr
  BY <1>1, <1>2, <1>5, AppendIs
<1> HIDE DEF w
<1>7. r # NULL
  BY <1>2, VecIs
<1>8. QED
  BY <1>2, <1>3, <1>6, <1>7 DEF SameAlloc, arr

\* rki_vec_insert_arr_at puts the array before the element at i.
LEMMA InsertArrIs ==
  ASSUME NEW r, IsVec(r), NEW arr \in Seq(Cells), NEW i \in Nat, i <= r.count,
         r.count + Len(arr) <= r.cap
  PROVE  LET w == InsertArr(r, i, arr)
         IN  /\ IsHandle(w) /\ w # NULL /\ w.alloc = r.alloc
             /\ Contents(w) = SubSeq(Contents(r), 1, i) \o arr
                                \o SubSeq(Contents(r), i + 1, Len(Contents(r)))
<1> DEFINE c == Contents(r)
           a == Len(arr)
           s == SubSeq(c, 1, i) \o arr \o SubSeq(c, i + 1, Len(c))
<1>1. /\ r.count \in Nat /\ r.cap \in Nat /\ c \in Seq(Cells) /\ Len(c) = r.count
      /\ r.count <= r.cap
      /\ \A j \in 1 .. r.count : c[j] = r.mem[j - 1]
  BY VecIs
<1>2. PICK d \in Nat : d = i + a
  BY LenProperties
<1>3. PICK tail \in Nat : tail = r.count - i
  BY <1>1
<1> DEFINE y == MoveTo(r, d, i, tail)
           x == CopyTo(y, i, arr)
           w == [x EXCEPT !.count = @ + a]
<1>4. InsertArr(r, i, arr) = w
  BY <1>2, <1>3 DEF InsertArr
<1> HIDE DEF c, a, s, w, x
<1>5. a \in Nat /\ i + tail = r.count /\ i + tail <= r.cap
  BY <1>1, <1>3, LenProperties DEF a
<1>6. /\ IsVec(y) /\ y.cap = r.cap /\ y.count = r.count /\ y.alloc = r.alloc
      /\ \A j \in 0 .. r.cap - 1 :
           y.mem[j] = IF d <= j /\ j < d + tail THEN r.mem[i + (j - d)] ELSE r.mem[j]
  <2>1. i + tail <= r.cap
    BY <1>5
  <2>2. QED
    BY <2>1, MoveToIs, SMTT(30)
<1> HIDE DEF y
<1>7. /\ IsVec(x) /\ x.cap = r.cap /\ x.count = r.count /\ x.alloc = r.alloc
      /\ \A j \in 0 .. r.cap - 1 :
           x.mem[j] = IF i <= j /\ j < d THEN arr[j - i + 1] ELSE y.mem[j]
  <2>1. /\ IsVec(x) /\ x.cap = y.cap /\ x.count = y.count /\ x.alloc = y.alloc
        /\ \A j \in 0 .. y.cap - 1 :
             x.mem[j] = IF i <= j /\ j < i + Len(arr) THEN arr[j - i + 1] ELSE y.mem[j]
    BY <1>6, CopyToIs DEF x
  <2>2. QED
    BY <1>2, <1>6, <2>1 DEF a
<1>8. /\ s \in Seq(Cells) /\ Len(s) = r.count + a
      /\ \A j \in 1 .. Len(s) :
           s[j] = IF j <= i THEN c[j] ELSE IF j <= d THEN arr[j - i] ELSE c[j - a]
  <2> DEFINE u == Splice(c, i, arr, i + 1)
  <2>1. /\ u \in Seq(Cells) /\ Len(u) = Len(c) + Len(arr)
        /\ \A j \in 1 .. Len(u) :
             u[j] = IF j <= i THEN c[j]
                    ELSE IF j <= i + Len(arr) THEN arr[j - i] ELSE c[j - Len(arr)]
    <3>1. i <= Len(c) /\ c \in Seq(Cells)
      BY <1>1
    <3>2. IsInserted(u, c, arr, i)
      BY <3>1, InsertedIs
    <3> HIDE DEF u
    <3>3. QED
      BY <3>2 DEF IsInserted
  <2>2. u = s /\ Len(arr) = a
    BY DEF s, a, Splice
  <2> HIDE DEF u
  <2>3. QED
    BY <1>1, <1>2, <1>5, <2>1, <2>2
<1>9. ASSUME NEW j \in 1 .. Len(s)
      PROVE  x.mem[j - 1] = s[j]
  <2>1. j - 1 \in 0 .. r.cap - 1
    BY <1>1, <1>8 DEF a
  <2>2. CASE j <= i
    <3>1. j \in 1 .. r.count /\ ~ (i <= j - 1) /\ ~ (d <= j - 1)
      BY <1>1, <1>2, <1>5, <2>2
    <3>2. x.mem[j - 1] = r.mem[j - 1]
      BY <1>6, <1>7, <2>1, <3>1
    <3>3. s[j] = c[j] /\ c[j] = r.mem[j - 1]
      BY <1>1, <1>8, <2>2, <3>1
    <3>4. QED
      BY <3>2, <3>3
  <2>3. CASE ~ (j <= i) /\ j <= d
    <3>1. i <= j - 1 /\ j - 1 < d /\ (j - 1) - i + 1 = j - i
      BY <1>1, <1>2, <2>3
    <3>2. x.mem[j - 1] = arr[j - i]
      BY <1>7, <2>1, <3>1
    <3>3. s[j] = arr[j - i]
      BY <1>8, <2>3
    <3>4. QED
      BY <3>2, <3>3
  <2>4. CASE ~ (j <= i) /\ ~ (j <= d)
    <3>1. Len(s) = i + tail + a
      BY <1>8, <1>5
    <3>2. /\ ~ (j - 1 < d) /\ d <= j - 1 /\ j - 1 < d + tail /\ i + ((j - 1) - d) = (j - a) - 1
          /\ j - a \in 1 .. r.count
      BY <1>2, <1>5, <2>4, <3>1
    <3>3. x.mem[j - 1] = y.mem[j - 1]
      BY <1>7, <2>1, <3>2
    <3>4. y.mem[j - 1] = r.mem[(j - a) - 1]
      BY <1>6, <2>1, <3>2
    <3>5. s[j] = c[j - a]
      BY <1>8, <2>4
    <3>6. c[j - a] = r.mem[(j - a) - 1]
      BY <1>1, <3>2
    <3>7. QED
      BY <3>3, <3>4, <3>5, <3>6
  <2>5. QED
    BY <2>2, <2>3, <2>4
<1>10. IsHandle(w) /\ w # NULL /\ w.alloc = r.alloc /\ Contents(w) = s
  <2> DEFINE u == [x EXCEPT !.count = Len(s)]
  <2>1. Len(s) <= x.cap
    BY <1>7, <1>8 DEF a
  <2>2. IsHandle(u) /\ u # NULL /\ u.alloc = x.alloc /\ Contents(u) = s
    BY <1>7, <1>8, <1>9, <2>1, ResultIs
  <2>3. w = u
    BY <1>7, <1>8 DEF w
  <2> HIDE DEF u
  <2>4. QED
    BY <1>7, <2>2, <2>3
<1>11. QED
  BY <1>10, <1>4 DEF s, c, a

\* rki_vec_erase_at_n takes n elements out.
LEMMA EraseAtNIs ==
  ASSUME NEW v, IsVec(v), NEW i \in Nat, NEW n \in Nat, i + n <= v.count
  PROVE  LET w == EraseAtN(v, i, n)
         IN  /\ IsHandle(w) /\ w # NULL /\ w.alloc = v.alloc
             /\ Contents(w) = SubSeq(Contents(v), 1, i)
                                \o SubSeq(Contents(v), i + n + 1, Len(Contents(v)))
<1> DEFINE c == Contents(v)
           k == i + n
           s == SubSeq(c, 1, i) \o SubSeq(c, k + 1, Len(c))
           l == v.count - n - i
           x == MoveTo(v, i, k, l)
<1>1. /\ v.count \in Nat /\ v.cap \in Nat /\ c \in Seq(Cells) /\ Len(c) = v.count
      /\ v.count <= v.cap /\ v # NULL
      /\ \A j \in 1 .. v.count : c[j] = v.mem[j - 1]
  BY VecIs
<1>2. k \in Nat /\ l \in Nat /\ i <= k /\ k <= Len(c) /\ k + l = v.count /\ k + l <= v.cap /\ k - i = n
  BY <1>1
<1> HIDE DEF c, k, l
<1>3. /\ s \in Seq(Cells) /\ Len(s) = v.count - n
      /\ \A j \in 1 .. Len(s) : s[j] = IF j <= i THEN c[j] ELSE c[j + n]
  <2>1. PICK f \in Nat : f = k + 1
    BY <1>2
  <2>2. i < f /\ f <= Len(c) + 1 /\ c \in Seq(Cells) /\ f - 1 - i = n
    BY <1>1, <1>2, <2>1
  <2>3. LET u == Cut(c, i, f)
        IN  /\ u \in Seq(Cells) /\ Len(u) = Len(c) - (f - 1 - i)
            /\ \A j \in 1 .. Len(u) : u[j] = IF j <= i THEN c[j] ELSE c[j + (f - 1 - i)]
    BY <2>2, CutIs
  <2>4. QED
    BY <1>1, <2>1, <2>2, <2>3 DEF Cut
<1> HIDE DEF s
<1>4. CASE n = 0
  <2>1. EraseAtN(v, i, n) = v
    BY <1>4 DEF EraseAtN
  <2>2. Len(s) = Len(c) /\ \A j \in 1 .. Len(s) : s[j] = c[j]
    BY <1>1, <1>3, <1>4
  <2>3. s = c
    BY <1>1, <1>3, <2>2, SeqEqual
  <2>4. QED
    BY <1>1, <2>1, <2>3 DEF s, c, k, IsHandle
<1>5. CASE n # 0
  <2>1. EraseAtN(v, i, n) = [x EXCEPT !.count = @ - n]
    BY <1>5 DEF EraseAtN, k, l
  <2>2. /\ IsVec(x) /\ x.cap = v.cap /\ x.count = v.count /\ x.alloc = v.alloc
        /\ \A j \in 0 .. v.cap - 1 :
             x.mem[j] = IF i <= j /\ j < i + l THEN v.mem[k + (j - i)] ELSE v.mem[j]
    <3>1. i \in Nat /\ k \in Nat /\ l \in Nat /\ k + l <= v.cap
      BY <1>2
    <3>2. QED
      BY <3>1, MoveToIs, SMTT(30)
  <2> HIDE DEF x
  <2>3. ASSUME NEW j \in 1 .. Len(s)
        PROVE  x.mem[j - 1] = s[j]
    <3>1. j - 1 \in 0 .. v.cap - 1 /\ j <= v.count - n /\ j >= 1
      <4>1. /\ Len(s) = v.count - n /\ v.count \in Nat /\ v.cap \in Nat
            /\ v.count <= v.cap
        BY <1>1, <1>3
      <4>2. j \in 1 .. v.count - n
        BY <4>1
      <4>3. QED
        BY <4>1, <4>2
    <3>2. CASE j <= i
      <4>1. j \in 1 .. v.count /\ ~ (i <= j - 1)
        BY <1>1, <1>2, <3>1, <3>2
      <4>2. x.mem[j - 1] = v.mem[j - 1]
        BY <2>2, <3>1, <4>1
      <4>3. s[j] = c[j] /\ c[j] = v.mem[j - 1]
        BY <1>1, <1>3, <3>2, <4>1
      <4>4. QED
        BY <4>2, <4>3
    <3>3. CASE ~ (j <= i)
      <4>1. /\ i <= j - 1 /\ j - 1 < i + l /\ k + ((j - 1) - i) = (j + n) - 1
            /\ j + n \in 1 .. v.count
        BY <1>1, <1>2, <3>1, <3>3
      <4>2. x.mem[j - 1] = v.mem[(j + n) - 1]
        BY <2>2, <3>1, <4>1
      <4>3. s[j] = c[j + n]
        BY <1>3, <3>3
      <4>4. c[j + n] = v.mem[(j + n) - 1]
        BY <1>1, <4>1
      <4>5. QED
        BY <4>2, <4>3, <4>4
    <3>4. QED
      BY <3>2, <3>3
  <2> DEFINE u == [x EXCEPT !.count = Len(s)]
  <2>4. Len(s) <= x.cap
    BY <1>1, <1>3, <2>2
  <2>5. IsHandle(u) /\ u # NULL /\ u.alloc = x.alloc /\ Contents(u) = s
    BY <1>3, <2>2, <2>3, <2>4, ResultIs
  <2>6. EraseAtN(v, i, n) = u
    BY <1>3, <2>1, <2>2
  <2> HIDE DEF u
  <2>7. QED
    BY <2>2, <2>5, <2>6 DEF s, c, k
<1>6. QED
  BY <1>4, <1>5

\* An array written over the first slots, which then is all the vector has.
LEMMA OverwriteIs ==
  ASSUME NEW r, IsVec(r), NEW arr \in Seq(Cells), Len(arr) <= r.cap
  PROVE  LET w == [CopyTo(r, 0, arr) EXCEPT !.count = Len(arr)]
         IN  IsHandle(w) /\ w # NULL /\ w.alloc = r.alloc /\ Contents(w) = arr
<1> DEFINE x == CopyTo(r, 0, arr)
           w == [x EXCEPT !.count = Len(arr)]
<1>1. 0 \in Nat /\ Len(arr) \in Nat /\ r.cap \in Nat
  BY VecIs, LenProperties
<1>2. /\ IsVec(x) /\ x.cap = r.cap /\ x.alloc = r.alloc
      /\ \A j \in 0 .. r.cap - 1 :
           x.mem[j] = IF 0 <= j /\ j < 0 + Len(arr) THEN arr[j - 0 + 1] ELSE r.mem[j]
  BY <1>1, CopyToIs
<1> HIDE DEF x
<1>3. ASSUME NEW j \in 1 .. Len(arr)
      PROVE  x.mem[j - 1] = arr[j]
  <2>1. /\ j - 1 \in 0 .. r.cap - 1 /\ 0 <= j - 1 /\ j - 1 < 0 + Len(arr)
        /\ (j - 1) - 0 + 1 = j
    BY <1>1
  <2>2. QED
    BY <1>2, <2>1
<1>4. IsHandle(w) /\ w # NULL /\ w.alloc = x.alloc /\ Contents(w) = arr
  <2>1. Len(arr) <= x.cap
    BY <1>2
  <2>2. QED
    BY <1>2, <1>3, <2>1, ResultIs
<1> HIDE DEF w
<1>5. QED
  BY <1>2, <1>4 DEF w, x

\* RKI_VEC_ASSIGN leaves the array.
LEMMA AssignIs ==
  ASSUME NEW v, IsHandle(v), NEW arr \in Seq(Cells), NEW a \in Allocs
  PROVE  LET w == Assign(v, arr, a)
         IN  IsHandle(w) /\ SameAlloc(v, w) /\ Contents(w) = arr
<1>1. PICK c \in Nat : c = Len(arr)
  BY LenProperties
<1> DEFINE r == Reserve(v, c, a)
<1>2. /\ IsHandle(r) /\ SameAlloc(v, r) /\ Cap(r) >= c /\ (r = NULL => c = 0)
  BY ReserveIs
<1> HIDE DEF r
<1>3. CASE r = NULL
  <2>1. Assign(v, arr, a) = r
    BY <1>1, <1>3 DEF Assign, r
  <2>2. arr = <<>>
    BY <1>1, <1>2, <1>3, EmptySeq
  <2>3. QED
    BY <1>2, <1>3, <2>1, <2>2, NullIs
<1>4. CASE r # NULL
  <2> DEFINE w == [CopyTo(r, 0, arr) EXCEPT !.count = Len(arr)]
  <2>1. Assign(v, arr, a) = w
    BY <1>1, <1>4 DEF Assign, r
  <2>2. IsVec(r)
    BY <1>2, <1>4 DEF IsHandle
  <2>3. Len(arr) <= r.cap
    BY <1>1, <1>2, <2>2, VecIs
  <2>4. IsHandle(w) /\ w # NULL /\ w.alloc = r.alloc /\ Contents(w) = arr
    BY <2>2, <2>3, OverwriteIs
  <2> HIDE DEF w
  <2>5. QED
    BY <1>2, <2>1, <2>4 DEF SameAlloc
<1>5. QED
  BY <1>3, <1>4

\* The slots after the first n are given up: vec_pop_n and vec_clear.
LEMMA TakeIs ==
  ASSUME NEW v, IsVec(v), NEW n \in Nat, n <= v.count
  PROVE  LET w == [v EXCEPT !.count = n]
         IN  /\ IsHandle(w) /\ w # NULL /\ w.alloc = v.alloc
             /\ Contents(w) = SubSeq(Contents(v), 1, n) /\ Len(Contents(w)) = n
<1> DEFINE c == Contents(v)
           s == SubSeq(c, 1, n)
           w == [v EXCEPT !.count = n]
<1>1. /\ v.count \in Nat /\ v.cap \in Nat /\ v.count <= v.cap /\ c \in Seq(Cells)
      /\ Len(c) = v.count /\ \A j \in 1 .. v.count : c[j] = v.mem[j - 1]
  BY VecIs
<1> HIDE DEF c
<1>2. s \in Seq(Cells) /\ Len(s) = n /\ \A j \in 1 .. n : s[j] = c[j]
  BY <1>1, EndsAre
<1> HIDE DEF s
<1>3. Len(s) <= v.cap /\ \A j \in 1 .. Len(s) : v.mem[j - 1] = s[j]
  <2>1. \A j \in 1 .. n : j \in 1 .. v.count
    BY <1>1
  <2>2. QED
    BY <1>1, <1>2, <2>1
<1>4. IsHandle(w) /\ w # NULL /\ w.alloc = v.alloc /\ Contents(w) = s
  BY <1>2, <1>3, ResultIs
<1> HIDE DEF w
<1>5. QED
  BY <1>2, <1>4 DEF w, s, c

\* RKI_VEC_RESIZE keeps the elements that fit; what follows them is any.
LEMMA ResizeIs ==
  ASSUME NEW v, IsHandle(v), NEW n \in Nat, NEW a \in Allocs
  PROVE  LET w == Resize(v, n, a)
             t == Contents(w)
         IN  /\ IsHandle(w) /\ SameAlloc(v, w) /\ Len(t) = n /\ t \in Seq(Cells)
             /\ \A j \in 1 .. n : j <= Count(v) => t[j] = Contents(v)[j]
<1> DEFINE r == Reserve(v, n, a)
<1>1. /\ IsHandle(r) /\ SameAlloc(v, r) /\ Contents(r) = Contents(v)
      /\ Count(r) = Count(v) /\ Cap(r) >= n /\ (r = NULL => n = 0)
  BY ReserveIs
<1> HIDE DEF r
<1>2. CASE r = NULL
  <2>1. Resize(v, n, a) = r
    BY <1>2 DEF Resize, r
  <2>2. n = 0
    BY <1>1, <1>2
  <2>3. Contents(r) = <<>>
    BY <1>2, NullIs
  <2>4. QED
    BY <1>1, <2>1, <2>2, <2>3, EmptySeq
<1>3. CASE r # NULL
  <2> DEFINE w == [r EXCEPT !.count = n]
  <2>1. Resize(v, n, a) = w
    BY <1>3 DEF Resize, r
  <2>2. IsVec(r)
    BY <1>1, <1>3 DEF IsHandle
  <2>3. /\ r.cap \in Nat /\ r.count \in Nat /\ n <= r.cap /\ r.count = Count(v)
        /\ \A j \in 1 .. r.count : Contents(r)[j] = r.mem[j - 1]
    BY <1>1, <2>2, VecIs
  <2>4. n \in 0 .. r.cap
    BY <2>3
  <2>5. IsVec(w) /\ w.cap = r.cap /\ w.count = n /\ w.alloc = r.alloc /\ w.mem = r.mem
    BY <2>2, <2>4, RecountIs
  <2> HIDE DEF w
  <2>6. /\ w # NULL /\ Contents(w) \in Seq(Cells) /\ Len(Contents(w)) = n
        /\ \A j \in 1 .. n : Contents(w)[j] = r.mem[j - 1]
    BY <2>5, VecIs
  <2>7. ASSUME NEW j \in 1 .. n, j <= Count(v)
        PROVE  Contents(w)[j] = Contents(v)[j]
    <3>1. j \in 1 .. r.count
      BY <2>3, <2>7
    <3>2. QED
      BY <1>1, <2>3, <2>6, <3>1
  <2>8. QED
    BY <1>1, <2>1, <2>5, <2>6, <2>7 DEF SameAlloc, IsHandle
<1>4. QED
  BY <1>2, <1>3

\* vec_reverse turns the elements round.
LEMMA ReversedIs ==
  ASSUME NEW v, IsHandle(v)
  PROVE  LET w == Reversed(v)
             c == Contents(v)
         IN  /\ IsHandle(w) /\ SameAlloc(v, w)
             /\ Contents(w) = [j \in DOMAIN c |-> c[Len(c) + 1 - j]]
<1> DEFINE c == Contents(v)
           s == [j \in DOMAIN c |-> c[Len(c) + 1 - j]]
<1>1. CASE v = NULL
  <2>1. Reversed(v) = v /\ c = <<>>
    BY <1>1, NullIs DEF Reversed
  <2>2. DOMAIN c = {}
    BY <2>1
  <2>3. s = c
    BY <2>1, <2>2
  <2>4. QED
    BY <2>1, <2>3 DEF SameAlloc
<1>2. CASE v # NULL
  <2>1. IsVec(v)
    BY <1>2 DEF IsHandle
  <2>2. /\ v = Vector(v.mem, v.cap, v.count, v.alloc)
        /\ v.cap \in Nat \ {0} /\ v.count \in 0 .. v.cap /\ v.count \in Nat
        /\ v.mem \in [0 .. v.cap - 1 -> Cells] /\ v.alloc \in Allocs
        /\ c \in Seq(Cells) /\ Len(c) = v.count /\ \A j \in 1 .. v.count : c[j] = v.mem[j - 1]
    BY <2>1, VecIs
  <2> DEFINE m == [j \in DOMAIN v.mem |->
                     IF j < v.count THEN v.mem[v.count - 1 - j] ELSE v.mem[j]]
             w == [v EXCEPT !.mem = m]
  <2>3. Reversed(v) = w
    BY <1>2 DEF Reversed
  <2> HIDE DEF c
  <2>4. ASSUME NEW j \in 0 .. v.cap - 1
        PROVE  /\ m[j] = IF j < v.count THEN v.mem[v.count - 1 - j] ELSE v.mem[j]
               /\ m[j] \in Cells
    <3>1. m[j] = IF j < v.count THEN v.mem[v.count - 1 - j] ELSE v.mem[j]
      BY <2>2
    <3>2. j < v.count => v.count - 1 - j \in 0 .. v.cap - 1
      BY <2>2
    <3> HIDE DEF m
    <3>3. QED
      BY <2>2, <3>1, <3>2
  <2>5. m \in [0 .. v.cap - 1 -> Cells]
    BY <2>2, <2>4
  <2>6. w = Vector(m, v.cap, v.count, v.alloc)
    <3> HIDE DEF m
    <3>1. QED
      BY <2>2 DEF Vector
  <2> HIDE DEF m, w
  <2>7. IsVec(w) /\ w.mem = m /\ w.count = v.count /\ w.alloc = v.alloc
    <3>1. v.cap \in Nat \ {0} /\ v.count \in 0 .. v.cap /\ v.alloc \in Allocs
      BY <2>2
    <3>2. QED
      BY <2>5, <2>6, <3>1, MakesVec
  <2>8. DOMAIN c = 1 .. v.count
    BY <2>2
  <2>9. ASSUME NEW j \in 1 .. v.count
        PROVE  s[j] = c[v.count + 1 - j] /\ s[j] \in Cells /\ w.mem[j - 1] = s[j]
    <3>1. v.count + 1 - j \in 1 .. v.count
      BY <2>2
    <3>2. s[j] = c[v.count + 1 - j]
      BY <2>2, <2>8
    <3> HIDE DEF s
    <3>3. j - 1 \in 0 .. v.cap - 1 /\ j - 1 < v.count /\ v.count - 1 - (j - 1) = (v.count + 1 - j) - 1
      BY <2>2
    <3>4. m[j - 1] = v.mem[(v.count + 1 - j) - 1]
      BY <2>4, <3>3
    <3>5. c[v.count + 1 - j] = v.mem[(v.count + 1 - j) - 1] /\ c[v.count + 1 - j] \in Cells
      BY <2>2, <3>1, ElementOfSeq
    <3>6. QED
      BY <2>7, <3>2, <3>4, <3>5
  <2>10. s \in Seq(Cells) /\ Len(s) = v.count
    <3>1. s \in [1 .. v.count -> Cells]
      BY <2>8, <2>9
    <3>2. v.count \in Nat
      BY <2>2
    <3> HIDE DEF s
    <3>3. QED
      BY <3>1, <3>2
  <2> HIDE DEF s
  <2>11. Contents(w) = s
    BY <2>7, <2>9, <2>10, ContentsAre
  <2>12. w # NULL
    BY <2>7, VecIs
  <2>13. QED
    BY <2>3, <2>7, <2>11, <2>12 DEF SameAlloc, IsHandle, s, c
<1>3. QED
  BY <1>1, <1>2

\* A sequence with another element at one place.
LEMMA ChangedIs ==
  ASSUME NEW c \in Seq(Cells), NEW k \in Nat, k >= 1, k <= Len(c), NEW e \in Cells
  PROVE  LET p == [c EXCEPT ![k] = e]
         IN  /\ p \in Seq(Cells) /\ Len(p) = Len(c)
             /\ \A j \in 1 .. Len(c) : p[j] = IF j = k THEN e ELSE c[j]
<1> DEFINE n == Len(c)
           p == [c EXCEPT ![k] = e]
<1>1. n \in Nat /\ c \in [1 .. n -> Cells]
  BY LenProperties
<1> HIDE DEF n
<1>2. p \in [1 .. n -> Cells]
  BY <1>1
<1>3. \A j \in 1 .. n : p[j] = IF j = k THEN e ELSE c[j]
  BY <1>1
<1> HIDE DEF p
<1>4. p \in Seq(Cells) /\ Len(p) = n
  BY <1>1, <1>2
<1>5. QED
  BY <1>3, <1>4 DEF p, n

\* One slot is written.
LEMMA WriteIs ==
  ASSUME NEW v, IsVec(v), NEW i \in Nat, NEW e \in Cells
  PROVE  LET r == CopyTo(v, i, <<e>>)
         IN  /\ IsVec(r) /\ r.cap = v.cap /\ r.count = v.count /\ r.alloc = v.alloc
             /\ \A j \in 0 .. v.cap - 1 : r.mem[j] = IF j = i THEN e ELSE v.mem[j]
<1> DEFINE arr == <<e>>
           r == CopyTo(v, i, arr)
<1>1. arr \in Seq(Cells) /\ Len(arr) = 1 /\ arr[1] = e
  BY OneIs
<1> HIDE DEF arr
<1>2. /\ IsVec(r) /\ r.cap = v.cap /\ r.count = v.count /\ r.alloc = v.alloc
      /\ \A j \in 0 .. v.cap - 1 :
           r.mem[j] = IF i <= j /\ j < i + Len(arr) THEN arr[j - i + 1] ELSE v.mem[j]
  BY <1>1, CopyToIs
<1> HIDE DEF r
<1>3. ASSUME NEW j \in 0 .. v.cap - 1
      PROVE  r.mem[j] = IF j = i THEN e ELSE v.mem[j]
  <2>1. v.cap \in Nat
    BY VecIs
  <2>2. (i <= j /\ j < i + Len(arr)) <=> j = i
    BY <1>1, <2>1
  <2>3. CASE j = i
    <3>1. j - i + 1 = 1
      BY <2>1, <2>3
    <3>2. r.mem[j] = arr[j - i + 1]
      BY <1>2, <2>2, <2>3
    <3>3. QED
      BY <1>1, <2>3, <3>1, <3>2
  <2>4. CASE j # i
    BY <1>2, <2>2, <2>4
  <2>5. QED
    BY <2>3, <2>4
<1>4. QED
  BY <1>2, <1>3 DEF r, arr

\* rki_vec_insert_at_unordered puts the element at i, and what was there at the end.
LEMMA InsertUnorderedIs ==
  ASSUME NEW r, IsVec(r), r.count < r.cap, NEW i \in Nat, i <= r.count, NEW e \in Cells
  PROVE  LET w == InsertUnordered(r, i, e)
             c == Contents(r)
         IN  /\ IsHandle(w) /\ w # NULL /\ w.alloc = r.alloc
             /\ Contents(w) = IF i = Len(c) THEN c \o <<e>>
                              ELSE [c EXCEPT ![i + 1] = e] \o <<c[i + 1]>>
<1> DEFINE c == Contents(r)
           n == r.count
<1>1. /\ n \in Nat /\ r.cap \in Nat /\ n < r.cap /\ i <= n /\ c \in Seq(Cells) /\ Len(c) = n
      /\ \A j \in 1 .. n : c[j] = r.mem[j - 1] /\ c[j] \in Cells
  BY VecIs, ElementOfSeq
<1>2. CASE i = n
  <2> DEFINE arr == <<e>>
             w == [CopyTo(r, n, arr) EXCEPT !.count = @ + Len(arr)]
  <2>1. arr \in Seq(Cells) /\ Len(arr) = 1
    BY OneIs
  <2>2. InsertUnordered(r, i, e) = w
    BY <1>1, <1>2, <2>1 DEF InsertUnordered
  <2> HIDE DEF arr
  <2>3. n + Len(arr) <= r.cap
    BY <1>1, <2>1
  <2>4. IsHandle(w) /\ w # NULL /\ w.alloc = r.alloc /\ Contents(w) = c \o arr
    BY <2>1, <2>3, AppendIs
  <2> HIDE DEF w
  <2>5. QED
    BY <1>1, <1>2, <2>2, <2>4 DEF arr
<1>3. CASE i # n
  <2>1. PICK k \in Nat : k = i + 1
    OBVIOUS
  <2>2. k >= 1 /\ k <= Len(c) /\ k \in 1 .. n /\ i < n /\ c[k] = r.mem[i] /\ c[k] \in Cells
    <3>1. k \in 1 .. n /\ k - 1 = i
      BY <1>1, <1>3, <2>1
    <3>2. QED
      BY <1>1, <3>1
  <2>3. PICK f \in Cells : f = c[k]
    BY <2>2
  <2> DEFINE y == CopyTo(r, n, <<f>>)
             x == CopyTo(y, i, <<e>>)
             w == [x EXCEPT !.count = @ + 1]
             p == [c EXCEPT ![k] = e]
             q == <<f>>
             s == p \o q
  <2>4. InsertUnordered(r, i, e) = w
    BY <2>2, <2>3 DEF InsertUnordered
  <2> HIDE DEF c
  <2>5. /\ p \in Seq(Cells) /\ Len(p) = n
        /\ \A j \in 1 .. n : p[j] = IF j = k THEN e ELSE c[j]
    BY <1>1, <2>2, ChangedIs
  <2>6. q \in Seq(Cells) /\ Len(q) = 1 /\ q[1] = f
    BY OneIs
  <2>7. /\ IsVec(y) /\ y.cap = r.cap /\ y.count = n /\ y.alloc = r.alloc
        /\ \A j \in 0 .. r.cap - 1 : y.mem[j] = IF j = n THEN f ELSE r.mem[j]
    BY <1>1, WriteIs, ZenonT(30)
  <2> HIDE DEF y, p, q
  <2>8. /\ IsVec(x) /\ x.cap = r.cap /\ x.count = n /\ x.alloc = r.alloc
        /\ \A j \in 0 .. r.cap - 1 : x.mem[j] = IF j = i THEN e ELSE y.mem[j]
    <3>1. /\ IsVec(x) /\ x.cap = y.cap /\ x.count = y.count /\ x.alloc = y.alloc
          /\ \A j \in 0 .. y.cap - 1 : x.mem[j] = IF j = i THEN e ELSE y.mem[j]
      <4>1. IsVec(y)
        BY <2>7
      <4>2. QED
        BY <4>1, WriteIs, ZenonT(30)
    <3> HIDE DEF x
    <3>2. QED
      BY <2>7, <3>1
  <2> HIDE DEF x
  <2>9. /\ s \in Seq(Cells) /\ Len(s) = n + 1
        /\ \A j \in 1 .. n + 1 : s[j] = IF j <= n THEN p[j] ELSE q[j - n]
    <3>1. /\ s \in Seq(Cells) /\ Len(s) = Len(p) + Len(q)
          /\ \A j \in 1 .. Len(p) + Len(q) : s[j] = IF j <= Len(p) THEN p[j] ELSE q[j - Len(p)]
      BY <2>5, <2>6, ConcatProperties
    <3> HIDE DEF s
    <3>2. QED
      BY <2>5, <2>6, <3>1
  <2> HIDE DEF s
  <2>10. ASSUME NEW j \in 1 .. n + 1
         PROVE  x.mem[j - 1] = s[j]
    <3>1. j - 1 \in 0 .. r.cap - 1 /\ (j - 1 = i <=> j = k) /\ (j - 1 = n <=> ~ (j <= n))
      BY <1>1, <2>1
    <3>2. CASE j = k
      <4>1. s[j] = e
        BY <2>2, <2>5, <2>9, <3>2
      <4>2. QED
        BY <2>8, <3>1, <3>2, <4>1
    <3>3. CASE j # k /\ j <= n
      <4>1. j \in 1 .. n
        BY <1>1, <3>3
      <4>2. s[j] = c[j] /\ c[j] = r.mem[j - 1]
        BY <1>1, <2>5, <2>9, <3>3, <4>1
      <4>3. x.mem[j - 1] = r.mem[j - 1]
        BY <2>7, <2>8, <3>1, <3>3
      <4>4. QED
        BY <4>2, <4>3
    <3>4. CASE ~ (j <= n)
      <4>1. j - n = 1 /\ j # k
        BY <1>1, <2>2, <3>4
      <4>2. s[j] = f
        BY <2>6, <2>9, <3>4, <4>1
      <4>3. x.mem[j - 1] = f
        BY <2>7, <2>8, <3>1, <3>4, <4>1
      <4>4. QED
        BY <4>2, <4>3
    <3>5. QED
      BY <3>2, <3>3, <3>4
  <2> DEFINE u == [x EXCEPT !.count = Len(s)]
  <2>11. Len(s) <= x.cap /\ \A j \in 1 .. Len(s) : x.mem[j - 1] = s[j]
    BY <1>1, <2>8, <2>9, <2>10
  <2>12. IsHandle(u) /\ u # NULL /\ u.alloc = x.alloc /\ Contents(u) = s
    <3>1. IsVec(x) /\ s \in Seq(Cells)
      BY <2>8, <2>9
    <3>2. QED
      BY <2>11, <3>1, ResultIs, ZenonT(30)
  <2>13. w = u
    BY <2>8, <2>9
  <2> HIDE DEF w, u
  <2>14. Contents(r) = c /\ i # Len(c)
    BY <1>1, <1>3 DEF c
  <2>15. s = [c EXCEPT ![i + 1] = e] \o <<c[i + 1]>>
    BY <2>1, <2>3 DEF s, p, q
  <2>16. QED
    BY <2>4, <2>8, <2>12, <2>13, <2>14, <2>15
<1>4. QED
  BY <1>2, <1>3

\* vec_erase_at_unordered puts the last element in the place of the one at i.
LEMMA EraseUnorderedIs ==
  ASSUME NEW v, IsVec(v), NEW i \in Nat, i < v.count
  PROVE  LET w == EraseUnordered(v, i)
             c == Contents(v)
         IN  /\ IsHandle(w) /\ w # NULL /\ w.alloc = v.alloc
             /\ Contents(w) = SubSeq([c EXCEPT ![i + 1] = c[Len(c)]], 1, Len(c) - 1)
<1> DEFINE c == Contents(v)
           n == v.count
<1>1. /\ n \in Nat /\ n >= 1 /\ v.cap \in Nat /\ n <= v.cap /\ i < n
      /\ c \in Seq(Cells) /\ Len(c) = n
      /\ \A j \in 1 .. n : c[j] = v.mem[j - 1] /\ c[j] \in Cells
  BY VecIs, ElementOfSeq
<1>2. PICK k \in Nat : k = i + 1
  OBVIOUS
<1>3. PICK l \in Nat : l = n - 1
  BY <1>1
<1>4. PICK e \in Cells : e = c[n] /\ e = v.mem[l]
  <2>1. n \in 1 .. n
    BY <1>1
  <2>2. QED
    BY <1>1, <1>3, <2>1
<1> DEFINE x == CopyTo(v, i, <<e>>)
           w == [x EXCEPT !.count = @ - 1]
           p == [c EXCEPT ![k] = e]
           s == SubSeq(p, 1, l)
<1>5. EraseUnordered(v, i) = w
  BY <1>3, <1>4 DEF EraseUnordered
<1> HIDE DEF c
<1>6. /\ p \in Seq(Cells) /\ Len(p) = n
      /\ \A j \in 1 .. n : p[j] = IF j = k THEN e ELSE c[j]
  <2>1. k >= 1 /\ k <= Len(c)
    BY <1>1, <1>2
  <2>2. QED
    BY <1>1, <2>1, ChangedIs
<1> HIDE DEF p
<1>7. s \in Seq(Cells) /\ Len(s) = l /\ \A j \in 1 .. l : s[j] = p[j]
  <2>1. l <= Len(p)
    BY <1>1, <1>3, <1>6
  <2>2. QED
    BY <1>6, <2>1, EndsAre
<1> HIDE DEF s
<1>8. /\ IsVec(x) /\ x.cap = v.cap /\ x.count = n /\ x.alloc = v.alloc
      /\ \A j \in 0 .. v.cap - 1 : x.mem[j] = IF j = i THEN e ELSE v.mem[j]
  BY WriteIs, ZenonT(30)
<1> HIDE DEF x
<1>9. ASSUME NEW j \in 1 .. l
      PROVE  x.mem[j - 1] = s[j]
  <2>1. j \in 1 .. n /\ j - 1 \in 0 .. v.cap - 1 /\ (j - 1 = i <=> j = k)
    BY <1>1, <1>2, <1>3
  <2>2. QED
    BY <1>1, <1>6, <1>7, <1>8, <2>1
<1> DEFINE u == [x EXCEPT !.count = Len(s)]
<1>10. Len(s) <= x.cap /\ \A j \in 1 .. Len(s) : x.mem[j - 1] = s[j]
  BY <1>1, <1>3, <1>7, <1>8, <1>9
<1>11. IsHandle(u) /\ u # NULL /\ u.alloc = x.alloc /\ Contents(u) = s
  BY <1>7, <1>8, <1>10, ResultIs
<1>12. w = u
  BY <1>3, <1>7, <1>8
<1> HIDE DEF w, u
<1>13. s = SubSeq([c EXCEPT ![i + 1] = c[Len(c)]], 1, Len(c) - 1)
  BY <1>1, <1>2, <1>3, <1>4 DEF s, p
<1>14. QED
  BY <1>5, <1>8, <1>11, <1>12, <1>13 DEF c

-----------------------------------------------------------------------------
(* What RKI_VEC_ERASE_IF spares *)

\* An element counts towards the rank of those after it.
LEMMA RankIs ==
  ASSUME NEW n \in Nat, NEW S \in SUBSET (0 .. n - 1)
  PROVE  /\ \A i \in 0 .. n : Rank(S, i) \in Nat
         /\ Rank(S, 0) = 0 /\ Rank(S, n) = Cardinality(S) /\ Cardinality(S) \in 0 .. n
         /\ \A i \in 1 .. n :
              Rank(S, i) = IF i - 1 \in S THEN Rank(S, i - 1) + 1 ELSE Rank(S, i - 1)
<1> DEFINE B(i) == {j \in S : j < i}
<1>1. IsFiniteSet(0 .. n - 1) /\ Cardinality(0 .. n - 1) = n
  BY FS_Interval
<1>2. IsFiniteSet(S) /\ Cardinality(S) \in Nat /\ Cardinality(S) <= n
  BY <1>1, FS_Subset, FS_CardinalityType
<1>3. \A i : IsFiniteSet(B(i)) /\ Cardinality(B(i)) \in Nat
  <2>1. ASSUME NEW i
        PROVE  IsFiniteSet(B(i))
    <3>1. B(i) \in SUBSET S
      OBVIOUS
    <3> HIDE DEF B
    <3>2. QED
      BY <1>2, <3>1, FS_Subset
  <2> HIDE DEF B
  <2>2. QED
    BY <2>1, FS_CardinalityType
<1>4. \A j \in S : j \in Int /\ 0 <= j /\ j < n
  <2>1. \A j \in 0 .. n - 1 : j \in Int /\ 0 <= j /\ j < n
    OBVIOUS
  <2>2. QED
    BY <2>1
<1>5. B(0) = {} /\ B(n) = S
  <2>1. \A j \in S : j < n /\ ~ (j < 0)
    BY <1>4
  <2>2. QED
    BY <2>1
<1>6. ASSUME NEW i \in 1 .. n
      PROVE  Cardinality(B(i)) = IF i - 1 \in S THEN Cardinality(B(i - 1)) + 1 ELSE Cardinality(B(i - 1))
  <2>1. i - 1 \notin B(i - 1)
    OBVIOUS
  <2>2. CASE i - 1 \in S
    <3>1. B(i) = B(i - 1) \cup {i - 1}
      <4>1. \A j \in S : j < i <=> j < i - 1 \/ j = i - 1
        BY <1>4
      <4>2. QED
        BY <2>2, <4>1
    <3> HIDE DEF B
    <3>2. IsFiniteSet(B(i - 1))
      BY <1>3
    <3>3. Cardinality(B(i - 1) \cup {i - 1}) = Cardinality(B(i - 1)) + 1
      BY <2>1, <3>2, FS_AddElement
    <3>4. QED
      BY <2>2, <3>1, <3>3
  <2>3. CASE i - 1 \notin S
    <3>1. B(i) = B(i - 1)
      <4>1. \A j \in S : j < i <=> j < i - 1 \/ j = i - 1
        BY <1>4
      <4>2. QED
        BY <2>3, <4>1
    <3>2. QED
      BY <2>3, <3>1
  <2>4. QED
    BY <2>2, <2>3
<1>7. \A i : Rank(S, i) = Cardinality(B(i))
  BY DEF Rank
<1> HIDE DEF B
<1>8. Cardinality(B(0)) = 0
  BY <1>5, FS_EmptySet
<1>9. QED
  BY <1>2, <1>3, <1>5, <1>6, <1>7, <1>8

\* No two elements of a set have the same rank.
LEMMA RankUnique ==
  ASSUME NEW n \in Nat, NEW S \in SUBSET (0 .. n - 1), NEW k \in S, NEW l \in S,
         Rank(S, k) = Rank(S, l)
  PROVE  k = l
<1>1. ASSUME NEW x \in S, NEW y \in S, x < y
      PROVE  Rank(S, x) # Rank(S, y)
  <2> DEFINE B == {j \in S : j < x}
             C == {j \in S : j < y}
  <2>1. IsFiniteSet(S)
    <3>1. IsFiniteSet(0 .. n - 1)
      BY FS_Interval
    <3>2. QED
      BY <3>1, FS_Subset
  <2>2. C \in SUBSET S /\ B \in SUBSET C
    <3>1. \A j \in S : j \in Nat
      OBVIOUS
    <3>2. \A j \in S : j < x => j < y
      BY <1>1, <3>1
    <3>3. QED
      BY <3>2
  <2>3. x \in C /\ x \notin B
    BY <1>1
  <2>4. Rank(S, x) = Cardinality(B) /\ Rank(S, y) = Cardinality(C)
    BY DEF Rank
  <2> HIDE DEF B, C
  <2>5. IsFiniteSet(C)
    BY <2>1, <2>2, FS_Subset
  <2>6. Cardinality(C) = Cardinality(B) => C = B
    BY <2>2, <2>5, FS_Subset
  <2>7. QED
    BY <2>3, <2>4, <2>6
<1>2. k \in Nat /\ l \in Nat
  OBVIOUS
<1>3. QED
  BY <1>1, <1>2

\* Every number below the size of a set is the rank of an element.
LEMMA RankReached ==
  ASSUME NEW n \in Nat, NEW S \in SUBSET (0 .. n - 1), NEW j \in Nat, j < Cardinality(S)
  PROVE  \E k \in S : Rank(S, k) = j
<1> DEFINE T == {i \in 0 .. n : Rank(S, i) > j}
<1>1. /\ \A i \in 0 .. n : Rank(S, i) \in Nat
      /\ Rank(S, 0) = 0 /\ Rank(S, n) = Cardinality(S)
      /\ \A i \in 1 .. n :
           Rank(S, i) = IF i - 1 \in S THEN Rank(S, i - 1) + 1 ELSE Rank(S, i - 1)
  BY RankIs, SMTT(30)
<1>2. n \in 0 .. n /\ Rank(S, n) > j
  BY <1>1
<1>3. T \subseteq Nat /\ T # {}
  BY <1>2
<1>4. PICK i \in T : \A x \in T : i <= x
  <2> HIDE DEF T
  <2>1. QED
    BY <1>3, LeastExists
<1>5. i \in 0 .. n /\ Rank(S, i) > j
  OBVIOUS
<1>6. i \in 1 .. n
  BY <1>1, <1>5
<1>7. i - 1 \in 0 .. n /\ ~ (i <= i - 1)
  BY <1>6
<1>8. ~ (Rank(S, i - 1) > j)
  BY <1>4, <1>7
<1>9. i - 1 \in S /\ Rank(S, i) = Rank(S, i - 1) + 1
  BY <1>1, <1>5, <1>6, <1>8
<1>10. Rank(S, i - 1) \in Nat
  BY <1>1, <1>7
<1>11. Rank(S, i - 1) = j
  BY <1>5, <1>8, <1>9, <1>10
<1>12. QED
  BY <1>9, <1>11

\* The element of a set that has rank j.
At(S, j) == CHOOSE k \in S : Rank(S, k) = j

\* Ranks and places belong together.
LEMMA AtIs ==
  ASSUME NEW n \in Nat, NEW S \in SUBSET (0 .. n - 1)
  PROVE  /\ \A j \in Nat : j < Cardinality(S) => At(S, j) \in S
         /\ \A k \in S : At(S, Rank(S, k)) = k
<1>1. ASSUME NEW j \in Nat, j < Cardinality(S)
      PROVE  At(S, j) \in S
  BY <1>1, RankReached DEF At
<1>2. ASSUME NEW k \in S
      PROVE  At(S, Rank(S, k)) = k
  <2> DEFINE l == At(S, Rank(S, k))
  <2>1. l \in S /\ Rank(S, l) = Rank(S, k)
    BY DEF At
  <2> HIDE DEF l
  <2>2. l = k
    BY <2>1, RankUnique
  <2>3. QED
    BY <2>2 DEF l
<1>3. QED
  BY <1>1, <1>2

\* The recursion that defines Keeping.
KeepsTo(s, keep, f) ==
  f = [i \in 0 .. Len(s) |->
         IF i = 0 THEN <<>>
         ELSE IF s[i] \in keep THEN Append(f[i - 1], s[i]) ELSE f[i - 1]]

\* It has at most one solution.
LEMMA KeepsToUnique ==
  ASSUME NEW s, Len(s) \in Nat, NEW keep, NEW f, NEW g, KeepsTo(s, keep, f), KeepsTo(s, keep, g)
  PROVE  f[Len(s)] = g[Len(s)]
<1> DEFINE n == Len(s)
           T == {i \in 0 .. n : f[i] # g[i]}
           F(h, i) == IF i = 0 THEN <<>>
                      ELSE IF s[i] \in keep THEN Append(h[i - 1], s[i]) ELSE h[i - 1]
<1>1. n \in Nat
  OBVIOUS
<1>2. \A i \in 0 .. n : f[i] = F(f, i)
  <2>1. f = [i \in 0 .. n |-> F(f, i)]
    BY DEF KeepsTo
  <2> HIDE DEF F, n
  <2>2. QED
    BY <2>1
<1>3. \A i \in 0 .. n : g[i] = F(g, i)
  <2>1. g = [i \in 0 .. n |-> F(g, i)]
    BY DEF KeepsTo
  <2> HIDE DEF F, n
  <2>2. QED
    BY <2>1
<1> HIDE DEF n
<1>4. SUFFICES ASSUME T # {}
               PROVE  FALSE
  <2>1. n \in 0 .. n
    BY <1>1
  <2>2. QED
    BY <2>1 DEF n
<1>5. T \subseteq Nat
  OBVIOUS
<1>6. PICK i \in T : \A x \in T : i <= x
  <2> HIDE DEF T
  <2>1. QED
    BY <1>4, <1>5, LeastExists
<1>7. i \in 0 .. n /\ f[i] # g[i]
  OBVIOUS
<1>8. CASE i = 0
  BY <1>2, <1>3, <1>7, <1>8
<1>9. CASE i # 0
  <2>1. i - 1 \in 0 .. n /\ ~ (i <= i - 1)
    BY <1>1, <1>7, <1>9
  <2>2. f[i - 1] = g[i - 1]
    BY <1>6, <2>1
  <2>3. F(f, i) = F(g, i)
    BY <2>2
  <2>4. QED
    BY <1>2, <1>3, <1>7, <2>3
<1>10. QED
  BY <1>8, <1>9

\* The elements of c that are spared, by their rank, are what Keeping makes of c.
LEMMA KeepingIs ==
  ASSUME NEW c \in Seq(Cells), NEW keep, NEW n \in Nat, n = Len(c), NEW S \in SUBSET (0 .. n - 1),
         \A i \in 0 .. n - 1 : i \in S <=> c[i + 1] \in keep
  PROVE  Abstract!Keeping(c, keep) = [j \in 1 .. Cardinality(S) |-> c[At(S, j - 1) + 1]]
<1> DEFINE e == [j \in Nat \ {0} |-> c[At(S, j - 1) + 1]]
           g == [i \in 0 .. n |-> [j \in 1 .. Rank(S, i) |-> e[j]]]
<1>1. /\ \A i \in 0 .. n : Rank(S, i) \in Nat
      /\ Rank(S, 0) = 0 /\ Rank(S, n) = Cardinality(S)
      /\ \A i \in 1 .. n :
           Rank(S, i) = IF i - 1 \in S THEN Rank(S, i - 1) + 1 ELSE Rank(S, i - 1)
  BY RankIs
<1>2. \A i \in 0 .. n : g[i] = [j \in 1 .. Rank(S, i) |-> e[j]]
  OBVIOUS
<1>3. \A i \in 1 .. n : i - 1 \in S => e[Rank(S, i)] = c[i]
  <2>1. ASSUME NEW i \in 1 .. n, i - 1 \in S
        PROVE  e[Rank(S, i)] = c[i]
    <3>1. i - 1 \in 0 .. n /\ (i - 1) + 1 = i
      OBVIOUS
    <3>2. Rank(S, i) \in Nat \ {0} /\ Rank(S, i) - 1 = Rank(S, i - 1)
      BY <1>1, <2>1, <3>1
    <3>3. At(S, Rank(S, i - 1)) = i - 1
      BY <2>1, AtIs
    <3>4. QED
      BY <3>1, <3>2, <3>3
  <2>2. QED
    BY <2>1
<1>4. \A i \in 0 .. n : g[i] = IF i = 0 THEN <<>>
                               ELSE IF c[i] \in keep THEN Append(g[i - 1], c[i]) ELSE g[i - 1]
  <2>1. ASSUME NEW i \in 0 .. n
        PROVE  g[i] = IF i = 0 THEN <<>>
                      ELSE IF c[i] \in keep THEN Append(g[i - 1], c[i]) ELSE g[i - 1]
    <3>1. CASE i = 0
      <4>1. g[i] = [j \in 1 .. 0 |-> e[j]]
        BY <1>1, <1>2, <3>1
      <4> HIDE DEF g, e
      <4>2. QED
        BY <3>1, <4>1
    <3>2. CASE i # 0
      <4>1. /\ i \in 1 .. n /\ i - 1 \in 0 .. n /\ i - 1 \in 0 .. n - 1 /\ (i - 1) + 1 = i
        BY <3>2
      <4>2. i - 1 \in S <=> c[i] \in keep
        BY <4>1
      <4>3. PICK r \in Nat : r = Rank(S, i - 1)
        BY <1>1, <4>1
      <4>4. g[i - 1] = [j \in 1 .. r |-> e[j]]
        BY <1>2, <4>1, <4>3
      <4>5. CASE i - 1 \in S
        <5>1. Rank(S, i) = r + 1
          BY <1>1, <4>1, <4>3, <4>5
        <5>2. g[i] = [j \in 1 .. r + 1 |-> e[j]] /\ e[r + 1] = c[i]
          BY <1>2, <1>3, <4>1, <4>5, <5>1
        <5> HIDE DEF g, e
        <5>3. Append([j \in 1 .. r |-> e[j]], e[r + 1]) = [j \in 1 .. r + 1 |-> e[j]]
          OBVIOUS
        <5>4. QED
          BY <3>2, <4>2, <4>4, <4>5, <5>2, <5>3
      <4>6. CASE i - 1 \notin S
        <5>1. Rank(S, i) = r
          BY <1>1, <4>1, <4>3, <4>6
        <5>2. g[i] = [j \in 1 .. r |-> e[j]]
          BY <1>2, <5>1
        <5> HIDE DEF g, e
        <5>3. QED
          BY <3>2, <4>2, <4>4, <4>6, <5>2
      <4>7. QED
        BY <4>5, <4>6
    <3>3. QED
      BY <3>1, <3>2
  <2>2. QED
    BY <2>1
<1>5. DOMAIN g = 0 .. n /\ g = [i \in 0 .. n |-> g[i]]
  OBVIOUS
<1>6. g[n] = [j \in 1 .. Cardinality(S) |-> e[j]]
  BY <1>1, <1>2
<1> HIDE DEF g
<1>7. KeepsTo(c, keep, g)
  BY <1>4, <1>5 DEF KeepsTo
<1> DEFINE f == CHOOSE h : KeepsTo(c, keep, h)
<1>8. KeepsTo(c, keep, f)
  BY <1>7
<1>9. Abstract!Keeping(c, keep) = f[Len(c)]
  BY DEF Abstract!Keeping, KeepsTo
<1> HIDE DEF f
<1>10. f[Len(c)] = g[Len(c)]
  BY <1>7, <1>8, KeepsToUnique
<1>11. [j \in 1 .. Cardinality(S) |-> e[j]]
         = [j \in 1 .. Cardinality(S) |-> c[At(S, j - 1) + 1]]
  OBVIOUS
<1>12. QED
  BY <1>6, <1>9, <1>10, <1>11

\* RKI_VEC_ERASE_IF leaves the elements that are spared, in order.
LEMMA EraseIfIs ==
  ASSUME NEW v, IsHandle(v), NEW keep
  PROVE  LET w == EraseIf(v, keep)
         IN  /\ IsHandle(w) /\ SameAlloc(v, w)
             /\ Contents(w) = Abstract!Keeping(Contents(v), keep)
<1> DEFINE c == Contents(v)
<1>1. Count(v) \in Nat /\ c \in Seq(Cells) /\ Len(c) = Count(v)
  BY HandleIs
<1>2. PICK n \in Nat : n = Count(v)
  BY <1>1
<1>3. CASE n = 0
  <2>1. EraseIf(v, keep) = v
    BY <1>2, <1>3 DEF EraseIf
  <2> DEFINE S == {}
  <2>2. S \in SUBSET (0 .. n - 1) /\ Cardinality(S) = 0 /\ n = Len(c)
        /\ \A i \in 0 .. n - 1 : i \in S <=> c[i + 1] \in keep
    BY <1>1, <1>2, <1>3, FS_EmptySet
  <2> HIDE DEF S, c
  <2>3. Abstract!Keeping(c, keep) = [j \in 1 .. Cardinality(S) |-> c[At(S, j - 1) + 1]]
    BY <1>1, <2>2, KeepingIs
  <2>4. [j \in 1 .. 0 |-> c[At(S, j - 1) + 1]] = <<>>
    OBVIOUS
  <2>5. c = <<>>
    BY <1>1, <1>2, <1>3, EmptySeq
  <2>6. QED
    BY <2>1, <2>2, <2>3, <2>4, <2>5 DEF SameAlloc, c
<1>4. CASE n # 0
  <2>1. IsVec(v) /\ v # NULL
    BY <1>2, <1>4, NullIs DEF IsHandle
  <2>2. /\ v = Vector(v.mem, v.cap, v.count, v.alloc)
        /\ v.cap \in Nat \ {0} /\ v.count \in 0 .. v.cap /\ v.count = n
        /\ v.mem \in [0 .. v.cap - 1 -> Cells] /\ v.alloc \in Allocs
        /\ \A i \in 1 .. n : c[i] = v.mem[i - 1]
    BY <1>2, <2>1, VecIs
  <2> DEFINE S == Kept(v, keep)
             l == Cardinality(S)
             m == [j \in DOMAIN v.mem |-> IF j < l THEN v.mem[At(S, j)] ELSE v.mem[j]]
             w == [v EXCEPT !.mem = m, !.count = l]
  <2>3. EraseIf(v, keep) = w
    BY <1>2, <1>4 DEF EraseIf, At
  <2>4. S \in SUBSET (0 .. n - 1) /\ \A i \in 0 .. n - 1 : i \in S <=> v.mem[i] \in keep
    BY <2>2 DEF Kept
  <2> HIDE DEF S, c
  <2>5. l \in 0 .. n /\ \A j \in Nat : j < l => At(S, j) \in S
    BY <2>4, RankIs, AtIs
  <2>6. l \in Nat /\ l <= n /\ l \in 0 .. v.cap
    BY <2>2, <2>5
  <2> HIDE DEF l
  <2>7. ASSUME NEW j \in 0 .. v.cap - 1
        PROVE  /\ m[j] = IF j < l THEN v.mem[At(S, j)] ELSE v.mem[j]
               /\ m[j] \in Cells
    <3>1. m[j] = IF j < l THEN v.mem[At(S, j)] ELSE v.mem[j]
      BY <2>2
    <3>2. \A i \in 0 .. n - 1 : i \in 0 .. v.cap - 1
      BY <2>2
    <3>3. j < l => At(S, j) \in 0 .. v.cap - 1
      <4>1. j \in Nat
        BY <2>2
      <4>2. j < l => At(S, j) \in S
        BY <2>5, <4>1
      <4>3. QED
        BY <2>4, <3>2, <4>2
    <3> HIDE DEF m
    <3>4. QED
      BY <2>2, <3>1, <3>3
  <2>8. m \in [0 .. v.cap - 1 -> Cells]
    BY <2>2, <2>7
  <2>9. w = Vector(m, v.cap, l, v.alloc)
    <3> HIDE DEF m
    <3> DEFINE x == [v EXCEPT !.mem = m]
    <3>1. x = Vector(m, v.cap, v.count, v.alloc)
      BY <2>2 DEF Vector
    <3>2. w = [x EXCEPT !.count = l]
      BY <2>2
    <3> HIDE DEF x, w
    <3>3. QED
      BY <3>1, <3>2 DEF Vector
  <2> HIDE DEF m, w
  <2>10. IsVec(w) /\ w.mem = m /\ w.count = l /\ w.alloc = v.alloc
    <3>1. v.cap \in Nat \ {0} /\ v.alloc \in Allocs
      BY <2>2
    <3>2. QED
      BY <2>6, <2>8, <2>9, <3>1, MakesVec
  <2> DEFINE s == [j \in 1 .. l |-> c[At(S, j - 1) + 1]]
  <2>11. Abstract!Keeping(c, keep) = s
    <3>1. n = Len(c) /\ \A i \in 0 .. n - 1 : i \in S <=> c[i + 1] \in keep
      <4>1. \A i \in 0 .. n - 1 : i + 1 \in 1 .. n /\ (i + 1) - 1 = i
        OBVIOUS
      <4>2. \A i \in 0 .. n - 1 : c[i + 1] = v.mem[i]
        BY <2>2, <4>1
      <4>3. QED
        BY <1>1, <1>2, <2>4, <4>2
    <3>2. QED
      BY <1>1, <2>4, <3>1, KeepingIs DEF l
  <2>12. ASSUME NEW j \in 1 .. l
         PROVE  s[j] = w.mem[j - 1] /\ s[j] \in Cells
    <3>1. j - 1 \in 0 .. v.cap - 1 /\ j - 1 \in Nat /\ j - 1 < l
      BY <2>2, <2>6
    <3>2. m[j - 1] = v.mem[At(S, j - 1)] /\ m[j - 1] \in Cells
      BY <2>7, <3>1
    <3>3. At(S, j - 1) \in 0 .. n - 1
      BY <2>4, <2>5, <3>1
    <3>4. \A i \in 0 .. n - 1 : i + 1 \in 1 .. n /\ (i + 1) - 1 = i
      OBVIOUS
    <3>5. \A i \in 0 .. n - 1 : c[i + 1] = v.mem[i]
      BY <2>2, <3>4
    <3>6. c[At(S, j - 1) + 1] = v.mem[At(S, j - 1)]
      BY <3>3, <3>5
    <3>7. s[j] = c[At(S, j - 1) + 1]
      OBVIOUS
    <3> HIDE DEF s
    <3>8. QED
      BY <2>10, <3>2, <3>6, <3>7
  <2>13. s \in Seq(Cells) /\ Len(s) = l
    <3>1. s \in [1 .. l -> Cells]
      BY <2>12
    <3> HIDE DEF s
    <3>2. QED
      BY <2>6, <3>1
  <2> HIDE DEF s
  <2>14. Contents(w) = s
    BY <2>10, <2>12, <2>13, ContentsAre
  <2>15. w # NULL
    BY <2>10, VecIs
  <2>16. QED
    BY <2>3, <2>10, <2>11, <2>14, <2>15 DEF SameAlloc, IsHandle, c
<1>5. QED
  BY <1>3, <1>4

-----------------------------------------------------------------------------
(* The steps *)

\* What the invariants hold on to: vec is a vector or NULL, within MaxCap.
IInv ==
  alloc_ctx \in Allocs /\ IsHandle(vec) /\ Cap(vec) <= MaxCap

\* t is what the call c may make of the sequence s.
Does(c, s, t) ==
  /\ CASE c.op = "resize" -> Abstract!Resized(c, s, t)
       [] c.op \in {"insert_at_unordered", "erase_at_unordered"} -> t = Abstract!Unordered(c, s)
       [] OTHER -> t = Abstract!Effect(c, s)
  /\ c.op = "pop_n" /\ c.n = 1 => c.val = s[Len(s)]

\* The cases of Does.
LEMMA DoesIs ==
  ASSUME NEW c, NEW s, NEW t
  PROVE  /\ c.op \in {"from", "assign"} /\ t = c.arr => Does(c, s, t)
         /\ c.op = "push_n" /\ t = s \o c.arr => Does(c, s, t)
         /\ c.op = "insert_arr_at" /\ t = SubSeq(s, 1, c.i) \o c.arr \o SubSeq(s, c.i + 1, Len(s))
              => Does(c, s, t)
         /\ c.op = "erase_at_n" /\ t = SubSeq(s, 1, c.i) \o SubSeq(s, c.i + c.n + 1, Len(s))
              => Does(c, s, t)
         /\ c.op = "pop_n" /\ t = SubSeq(s, 1, Len(s) - c.n) /\ (c.n = 1 => c.val = s[Len(s)])
              => Does(c, s, t)
         /\ c.op = "erase_if" /\ t = Abstract!Keeping(s, c.keep) => Does(c, s, t)
         /\ c.op = "reverse" /\ t = [i \in DOMAIN s |-> s[Len(s) + 1 - i]] => Does(c, s, t)
         /\ c.op \in {"clear", "release"} /\ t = <<>> => Does(c, s, t)
         /\ c.op \in {"init", "reserve", "shrink"} /\ t = s => Does(c, s, t)
         /\ c.op = "resize" /\ Abstract!Resized(c, s, t) => Does(c, s, t)
         /\ c.op \in {"insert_at_unordered", "erase_at_unordered"} /\ t = Abstract!Unordered(c, s)
              => Does(c, s, t)
<1>1. c.op \in {"from", "assign"} /\ t = c.arr => Does(c, s, t)
  BY DEF Does, Abstract!Effect
<1>2. c.op = "push_n" /\ t = s \o c.arr => Does(c, s, t)
  BY DEF Does, Abstract!Effect
<1>3. c.op = "insert_arr_at" /\ t = SubSeq(s, 1, c.i) \o c.arr \o SubSeq(s, c.i + 1, Len(s))
        => Does(c, s, t)
  BY DEF Does, Abstract!Effect
<1>4. c.op = "erase_at_n" /\ t = SubSeq(s, 1, c.i) \o SubSeq(s, c.i + c.n + 1, Len(s))
        => Does(c, s, t)
  BY DEF Does, Abstract!Effect
<1>5. c.op = "pop_n" /\ t = SubSeq(s, 1, Len(s) - c.n) /\ (c.n = 1 => c.val = s[Len(s)])
        => Does(c, s, t)
  BY DEF Does, Abstract!Effect
<1>6. c.op = "erase_if" /\ t = Abstract!Keeping(s, c.keep) => Does(c, s, t)
  BY DEF Does, Abstract!Effect
<1>7. c.op = "reverse" /\ t = [i \in DOMAIN s |-> s[Len(s) + 1 - i]] => Does(c, s, t)
  BY DEF Does, Abstract!Effect
<1>8. c.op \in {"clear", "release"} /\ t = <<>> => Does(c, s, t)
  BY DEF Does, Abstract!Effect
<1>9. c.op \in {"init", "reserve", "shrink"} /\ t = s => Does(c, s, t)
  BY DEF Does, Abstract!Effect
<1>10. c.op = "resize" /\ Abstract!Resized(c, s, t) => Does(c, s, t)
  BY DEF Does
<1>11. c.op \in {"insert_at_unordered", "erase_at_unordered"} /\ t = Abstract!Unordered(c, s)
         => Does(c, s, t)
  BY DEF Does
<1>12. QED
  BY <1>1, <1>2, <1>3, <1>4, <1>5, <1>6, <1>7, <1>8, <1>9, <1>10, <1>11

\* What every step keeps, is to the abstract sequence, and does to the allocator.
AllocStep ==
  vec # NULL => IF call' # Nothing /\ call'.op = "release" THEN vec' = NULL
                ELSE vec' # NULL /\ vec'.alloc = vec.alloc

StepIs == IInv' /\ [Abstract!Next]_<<Contents(vec), call>> /\ AllocStep

\* A call named op may leave w: only the release gives the allocator up.
Fits(w, op) == IF op = "release" THEN w = NULL ELSE SameAlloc(vec, w)

\* Whatever its arguments, a call named op may leave w.
Suits(w, op) == \A c : c.op = op => Does(c, Contents(vec), Contents(w))

\* A call that leaves w.
LEMMA ReturnsIs ==
  ASSUME IInv, NEW w, IsHandle(w), NEW op \in Kinds, NEW i \in Nat, NEW n \in Nat,
         NEW arr \in Seq(Vals), NEW keep \in SUBSET Cells, NEW val \in Cells,
         Returns(w, op, i, n, arr, keep, val),
         Fits(w, op),
         Does([op |-> op, i |-> i, n |-> n, arr |-> arr, keep |-> keep, val |-> val],
              Contents(vec), Contents(w))
  PROVE  StepIs
<1> DEFINE c == [op |-> op, i |-> i, n |-> n, arr |-> arr, keep |-> keep, val |-> val]
<1>1. call = Nothing /\ Cap(w) <= MaxCap /\ vec' = w /\ call' = c /\ alloc_ctx' = alloc_ctx
  BY DEF Returns
<1>2. c \in Calls /\ c.op = op
  BY DEF Calls, Cells
<1> HIDE DEF c
<1>3. c # Nothing
  BY <1>2, VecAssumption
<1>4. IInv'
  BY <1>1 DEF IInv
<1>5. Abstract!Next
  <2>1. Does(call', Contents(vec), Contents(vec'))
    BY <1>1 DEF c
  <2>2. call = Nothing /\ call' # Nothing
    BY <1>1, <1>3
  <2>3. QED
    BY <2>1, <2>2 DEF Does, Abstract!Next
<1>6. AllocStep
  BY <1>1, <1>2, <1>3 DEF AllocStep, SameAlloc, Fits
<1>7. QED
  BY <1>4, <1>5, <1>6 DEF StepIs

\* A call without arguments.
LEMMA PlainIs ==
  ASSUME IInv, NEW w, IsHandle(w), NEW op \in Kinds, Plain(w, op),
         Fits(w, op), Suits(w, op)
  PROVE  StepIs
<1>1. <<>> \in Seq(Vals) /\ {} \in SUBSET Cells /\ Junk \in Cells /\ 0 \in Nat
  BY EmptySeq DEF Cells
<1>2. Returns(w, op, 0, 0, <<>>, {}, Junk)
  BY DEF Plain
<1>3. Does([op |-> op, i |-> 0, n |-> 0, arr |-> <<>>, keep |-> {}, val |-> Junk],
           Contents(vec), Contents(w))
  BY DEF Suits
<1>4. QED
  BY <1>1, <1>2, <1>3, ReturnsIs

\* The kinds of calls.
LEMMA KindsAre ==
  /\ "init" \in Kinds /\ "from" \in Kinds /\ "release" \in Kinds /\ "clear" \in Kinds
  /\ "reverse" \in Kinds /\ "reserve" \in Kinds /\ "shrink" \in Kinds /\ "resize" \in Kinds
  /\ "push_n" \in Kinds /\ "insert_arr_at" \in Kinds /\ "insert_at_unordered" \in Kinds
  /\ "erase_at_n" \in Kinds /\ "erase_at_unordered" \in Kinds /\ "erase_if" \in Kinds
  /\ "assign" \in Kinds /\ "pop_n" \in Kinds
BY DEF Kinds

\* rki_vec_cap_min1
LEMMA CapMin1Is == \A n \in Nat : CapMin1(n) \in Nat \ {0} /\ n <= CapMin1(n)
BY DEF CapMin1

\* vec_init
LEMMA InitVecKeeps ==
  ASSUME IInv, NEW c \in Sizes, NEW a \in Allocs, InitVec(c, a)
  PROVE  StepIs
<1> DEFINE k == CapMin1(c)
           w == NewVec(k, a)
<1>1. k \in Nat \ {0}
  <2>1. c \in Nat
    BY VecAssumption DEF Sizes
  <2>2. QED
    BY <2>1, CapMin1Is
<1>2. vec = NULL /\ Plain(w, "init")
  BY DEF InitVec
<1> HIDE DEF k
<1>3. IsVec(w) /\ Contents(w) = <<>>
  BY <1>1, NewVecIs
<1> HIDE DEF w
<1>4. IsHandle(w) /\ SameAlloc(vec, w) /\ Contents(w) = Contents(vec)
  BY <1>2, <1>3, NullIs DEF IsHandle, SameAlloc
<1>5. Suits(w, "init")
  BY <1>4, DoesIs DEF Suits
<1>6. Fits(w, "init")
  BY <1>4 DEF Fits
<1>7. QED
  BY <1>2, <1>4, <1>5, <1>6, PlainIs, KindsAre

\* vec_from
LEMMA FromKeeps ==
  ASSUME IInv, NEW arr \in Arrays, NEW a \in Allocs, From(arr, a)
  PROVE  StepIs
<1> DEFINE k == CapMin1(Len(arr))
           v == NewVec(k, a)
           w == [CopyTo(v, 0, arr) EXCEPT !.count = Len(arr)]
           d == [op |-> "from", i |-> 0, n |-> 0, arr |-> arr, keep |-> {}, val |-> Junk]
<1>1. arr \in Seq(Vals) /\ arr \in Seq(Cells) /\ Len(arr) \in Nat
  BY VecAssumption, ArraysFit, LenProperties
<1>2. k \in Nat \ {0} /\ Len(arr) <= k
  BY <1>1, CapMin1Is
<1>3. vec = NULL /\ Returns(w, "from", 0, 0, arr, {}, Junk)
  BY DEF From
<1> HIDE DEF k
<1>4. IsVec(v) /\ v.cap = k
  BY <1>2, NewVecIs
<1> HIDE DEF v
<1>5. IsHandle(w) /\ Contents(w) = arr
  <2>1. Len(arr) <= v.cap
    BY <1>2, <1>4
  <2>2. QED
    BY <1>1, <1>4, <2>1, OverwriteIs
<1> HIDE DEF w
<1>6. Fits(w, "from")
  BY <1>3 DEF Fits, SameAlloc
<1>7. Does(d, Contents(vec), Contents(w))
  BY <1>5, DoesIs
<1>8. {} \in SUBSET Cells /\ Junk \in Cells /\ 0 \in Nat
  BY DEF Cells
<1>9. QED
  BY <1>1, <1>3, <1>5, <1>6, <1>7, <1>8, ReturnsIs, KindsAre

\* vec_deinit
LEMMA ReleaseKeeps == ASSUME IInv, Release PROVE StepIs
<1>1. Suits(NULL, "release")
  BY NullIs, DoesIs DEF Suits
<1>2. Fits(NULL, "release")
  BY NullIs DEF Fits
<1>3. IsHandle(NULL)
  BY DEF IsHandle
<1>4. QED
  BY <1>1, <1>3, <1>2, PlainIs, KindsAre DEF Release

\* vec_clear
LEMMA ClearKeeps == ASSUME IInv, Clear PROVE StepIs
<1> DEFINE w == IF vec = NULL THEN vec ELSE [vec EXCEPT !.count = 0]
<1>1. Plain(w, "clear")
  BY DEF Clear
<1>2. IsHandle(w) /\ SameAlloc(vec, w) /\ Contents(w) = <<>>
  <2>1. CASE vec = NULL
    BY <2>1, NullIs DEF IsHandle, SameAlloc
  <2>2. CASE vec # NULL
    <3> DEFINE u == [vec EXCEPT !.count = 0]
    <3>1. IsVec(vec)
      BY <2>2 DEF IInv, IsHandle
    <3>2. 0 \in Nat /\ 0 <= vec.count
      BY <3>1, VecIs
    <3>3. /\ IsHandle(u) /\ u # NULL /\ u.alloc = vec.alloc /\ Len(Contents(u)) = 0
      BY <3>1, <3>2, TakeIs
    <3> HIDE DEF u
    <3>4. w = u
      BY <2>2 DEF u
    <3>5. Contents(u) = <<>>
      BY <3>3, HandleIs, EmptySeq
    <3>6. QED
      BY <3>3, <3>4, <3>5 DEF SameAlloc
  <2>3. QED
    BY <2>1, <2>2
<1> HIDE DEF w
<1>3. Suits(w, "clear")
  BY <1>2, DoesIs DEF Suits
<1>4. Fits(w, "clear")
  BY <1>2 DEF Fits
<1>5. QED
  BY <1>1, <1>2, <1>3, <1>4, PlainIs, KindsAre

\* vec_reverse
LEMMA ReverseAllKeeps == ASSUME IInv, ReverseAll PROVE StepIs
<1> DEFINE w == Reversed(vec)
           c == Contents(vec)
<1>1. Plain(w, "reverse")
  BY DEF ReverseAll
<1>2. /\ IsHandle(w) /\ SameAlloc(vec, w)
      /\ Contents(w) = [j \in DOMAIN c |-> c[Len(c) + 1 - j]]
  BY ReversedIs DEF IInv
<1> HIDE DEF w
<1>3. Suits(w, "reverse")
  BY <1>2, DoesIs DEF Suits
<1>4. Fits(w, "reverse")
  BY <1>2 DEF Fits
<1>5. QED
  BY <1>1, <1>2, <1>3, <1>4, PlainIs, KindsAre

\* vec_reserve
LEMMA ReserveCapKeeps == ASSUME IInv, NEW c \in Sizes, ReserveCap(c) PROVE StepIs
<1> DEFINE w == Reserve(vec, c, alloc_ctx)
<1>1. Plain(w, "reserve")
  BY DEF ReserveCap
<1>2. PICK a \in Allocs : a = alloc_ctx
  BY DEF IInv
<1>3. c \in Nat
  BY VecAssumption DEF Sizes
<1>4. IsHandle(w) /\ SameAlloc(vec, w) /\ Contents(w) = Contents(vec)
  BY <1>2, <1>3, ReserveIs DEF IInv
<1> HIDE DEF w
<1>5. Suits(w, "reserve")
  BY <1>4, DoesIs DEF Suits
<1>6. Fits(w, "reserve")
  BY <1>4 DEF Fits
<1>7. QED
  BY <1>1, <1>4, <1>5, <1>6, PlainIs, KindsAre

\* vec_shrink_to_fit and vec_shrink_to_fit_exact
LEMMA ShrinkKeeps == ASSUME IInv, Shrink PROVE StepIs
<1>1. PICK c \in Nat \ {0} : Count(vec) <= c /\ Plain(ShrinkTo(vec, c), "shrink")
  <2>1. Count(vec) \in Nat
    BY HandleIs DEF IInv
  <2>2. BitCeil(Count(vec)) \in Nat \ {0} /\ Count(vec) <= BitCeil(Count(vec))
    BY <2>1, BitCeilIs
  <2>3. CapMin1(Count(vec)) \in Nat \ {0} /\ Count(vec) <= CapMin1(Count(vec))
    BY <2>1, CapMin1Is
  <2>4. QED
    BY <2>2, <2>3 DEF Shrink
<1> DEFINE w == ShrinkTo(vec, c)
<1>2. IsHandle(w) /\ SameAlloc(vec, w) /\ Contents(w) = Contents(vec)
  BY <1>1, ShrinkToIs DEF IInv
<1> HIDE DEF w
<1>3. Suits(w, "shrink")
  BY <1>2, DoesIs DEF Suits
<1>4. Fits(w, "shrink")
  BY <1>2 DEF Fits
<1>5. Plain(w, "shrink")
  BY <1>1 DEF w
<1>6. QED
  BY <1>2, <1>3, <1>5, <1>4, PlainIs, KindsAre

\* vec_resize
LEMMA ResizeToKeeps == ASSUME IInv, NEW n \in Sizes, ResizeTo(n) PROVE StepIs
<1> DEFINE w == Resize(vec, n, alloc_ctx)
           d == [op |-> "resize", i |-> 0, n |-> n, arr |-> <<>>, keep |-> {}, val |-> Junk]
           s == Contents(vec)
           t == Contents(w)
<1>1. Returns(w, "resize", 0, n, <<>>, {}, Junk)
  BY DEF ResizeTo
<1>2. PICK a \in Allocs : a = alloc_ctx
  BY DEF IInv
<1>3. n \in Nat
  BY VecAssumption DEF Sizes
<1>4. /\ IsHandle(w) /\ SameAlloc(vec, w) /\ Len(t) = n /\ t \in Seq(Cells)
      /\ \A j \in 1 .. n : j <= Count(vec) => t[j] = s[j]
  BY <1>2, <1>3, ResizeIs DEF IInv
<1>5. Len(s) = Count(vec)
  BY HandleIs DEF IInv
<1> HIDE DEF w, s, t
<1>6. DOMAIN t = 1 .. n /\ \A j \in 1 .. n : t[j] \in Cells
  BY <1>3, <1>4, ElementOfSeq
<1>7. d.op = "resize" /\ d.n = n
  OBVIOUS
<1> HIDE DEF d
<1>8. Abstract!Resized(d, s, t)
  BY <1>4, <1>5, <1>6, <1>7 DEF Abstract!Resized, Cells
<1>9. Does(d, s, t)
  BY <1>7, <1>8, DoesIs
<1>10. <<>> \in Seq(Vals) /\ {} \in SUBSET Cells /\ Junk \in Cells /\ 0 \in Nat
  BY EmptySeq DEF Cells
<1>11. Fits(w, "resize")
  BY <1>4 DEF Fits
<1>12. QED
  BY <1>1, <1>3, <1>4, <1>9, <1>10, <1>11, ReturnsIs, KindsAre DEF d, s, t

\* The arguments a call does not have.
LEMMA NoArguments ==
  /\ <<>> \in Seq(Vals) /\ {} \in SUBSET Cells /\ Junk \in Cells /\ 0 \in Nat
  /\ \A n \in Sizes : n \in Nat
  /\ \A x \in Vals : x \in Cells /\ <<x>> \in Seq(Vals)
<1>1. \A n \in Sizes : n \in Nat
  BY VecAssumption DEF Sizes
<1>2. QED
  BY <1>1, EmptySeq DEF Cells

\* vec_push_arr, and vec_push of one element.
LEMMA PushArrKeeps == ASSUME IInv, NEW arr \in Arrays, PushArr(arr) PROVE StepIs
<1> DEFINE w == PushN(vec, arr, alloc_ctx)
           d == [op |-> "push_n", i |-> 0, n |-> 0, arr |-> arr, keep |-> {}, val |-> Junk]
<1>1. Returns(w, "push_n", 0, 0, arr, {}, Junk)
  BY DEF PushArr
<1>2. arr \in Seq(Vals) /\ arr \in Seq(Cells)
  BY VecAssumption, ArraysFit
<1>3. PICK a \in Allocs : a = alloc_ctx
  BY DEF IInv
<1>4. IsHandle(w) /\ SameAlloc(vec, w) /\ Contents(w) = Contents(vec) \o arr
  BY <1>2, <1>3, PushNIs DEF IInv
<1> HIDE DEF w
<1>5. Fits(w, "push_n")
  BY <1>4 DEF Fits
<1>6. Does(d, Contents(vec), Contents(w))
  BY <1>4, DoesIs
<1>7. QED
  BY <1>1, <1>2, <1>4, <1>5, <1>6, NoArguments, ReturnsIs, KindsAre

\* vec_push
LEMMA PushOneKeeps == ASSUME IInv, NEW x \in Vals, PushOne(x) PROVE StepIs
<1> DEFINE w == Push(vec, x, alloc_ctx)
           arr == <<x>>
           d == [op |-> "push_n", i |-> 0, n |-> 0, arr |-> arr, keep |-> {}, val |-> Junk]
<1>1. Returns(w, "push_n", 0, 0, arr, {}, Junk)
  BY DEF PushOne
<1>2. x \in Cells /\ arr \in Seq(Vals)
  BY NoArguments
<1>3. PICK a \in Allocs : a = alloc_ctx
  BY DEF IInv
<1>4. IsHandle(w) /\ SameAlloc(vec, w) /\ Contents(w) = Contents(vec) \o arr
  BY <1>2, <1>3, PushIs DEF IInv
<1> HIDE DEF w, arr
<1>5. Fits(w, "push_n")
  BY <1>4 DEF Fits
<1>6. Does(d, Contents(vec), Contents(w))
  BY <1>4, DoesIs
<1>7. QED
  BY <1>1, <1>2, <1>4, <1>5, <1>6, NoArguments, ReturnsIs, KindsAre

\* rki_vec_insert_arr_at, into a vector that has the room.
LEMMA InsertsKeep ==
  ASSUME IInv, NEW r, IsVec(r), SameAlloc(vec, r), Contents(r) = Contents(vec),
         r.count = Count(vec), NEW arr \in Seq(Vals), r.count + Len(arr) <= r.cap,
         NEW i \in Nat, i <= Count(vec),
         Returns(InsertArr(r, i, arr), "insert_arr_at", i, 0, arr, {}, Junk)
  PROVE  StepIs
<1> DEFINE w == InsertArr(r, i, arr)
           s == Contents(vec)
           d == [op |-> "insert_arr_at", i |-> i, n |-> 0, arr |-> arr, keep |-> {}, val |-> Junk]
<1>1. arr \in Seq(Cells) /\ i <= r.count
  BY ArraysFit
<1>2. /\ IsHandle(w) /\ w # NULL /\ w.alloc = r.alloc
      /\ Contents(w) = SubSeq(Contents(r), 1, i) \o arr
                         \o SubSeq(Contents(r), i + 1, Len(Contents(r)))
  BY <1>1, InsertArrIs
<1>3. Returns(w, "insert_arr_at", i, 0, arr, {}, Junk)
  OBVIOUS
<1> HIDE DEF w, s
<1>4. Contents(w) = SubSeq(s, 1, i) \o arr \o SubSeq(s, i + 1, Len(s))
  BY <1>2 DEF s
<1>5. Fits(w, "insert_arr_at")
  BY <1>2 DEF Fits, SameAlloc
<1>6. Does(d, s, Contents(w))
  BY <1>4, DoesIs
<1>7. QED
  BY <1>2, <1>3, <1>5, <1>6, NoArguments, ReturnsIs, KindsAre DEF s

\* vec_insert_at
LEMMA InsertOneKeeps == ASSUME IInv, NEW i \in Sizes, NEW x \in Vals, InsertOne(i, x) PROVE StepIs
<1> DEFINE r == Reserve1(vec, alloc_ctx)
           arr == <<x>>
<1>1. i <= Count(vec) /\ Returns(InsertArr(r, i, arr), "insert_arr_at", i, 0, arr, {}, Junk)
  BY DEF InsertOne
<1>2. x \in Cells /\ arr \in Seq(Vals) /\ Len(arr) = 1 /\ i \in Nat
  BY NoArguments, OneIs
<1>3. PICK a \in Allocs : a = alloc_ctx
  BY DEF IInv
<1>4. /\ IsVec(r) /\ SameAlloc(vec, r) /\ Contents(r) = Contents(vec)
      /\ r.count = Count(vec) /\ r.count < r.cap
  BY <1>3, Reserve1Is DEF IInv
<1> HIDE DEF r, arr
<1>5. r.count + Len(arr) <= r.cap
  BY <1>2, <1>4, VecIs
<1>6. QED
  BY <1>1, <1>2, <1>4, <1>5, InsertsKeep

\* vec_insert_arr_at
LEMMA InsertManyKeeps ==
  ASSUME IInv, NEW i \in Sizes, NEW arr \in Arrays, InsertMany(i, arr)
  PROVE  StepIs
<1>1. arr \in Seq(Vals) /\ Len(arr) \in Nat /\ i \in Nat /\ i <= Count(vec) /\ Count(vec) \in Nat
  BY VecAssumption, NoArguments, LenProperties, HandleIs DEF InsertMany, IInv
<1>2. CASE arr = <<>>
  <2> DEFINE d == [op |-> "insert_arr_at", i |-> i, n |-> 0, arr |-> arr, keep |-> {}, val |-> Junk]
             s == Contents(vec)
             u == Splice(s, i, arr, i + 1)
  <2>1. Returns(vec, "insert_arr_at", i, 0, arr, {}, Junk)
    BY <1>2 DEF InsertMany
  <2>2. s \in Seq(Cells) /\ Len(s) = Count(vec)
    BY HandleIs DEF IInv
  <2>3. u = s
    <3> HIDE DEF s
    <3>1. arr \in Seq(Cells) /\ Len(arr) = 0 /\ i <= Len(s)
      BY <1>1, <1>2, <2>2, EmptySeq
    <3>2. QED
      BY <1>1, <2>2, <3>1, InsertedNothing
  <2>4. u = SubSeq(s, 1, i) \o arr \o SubSeq(s, i + 1, Len(s))
    BY DEF Splice
  <2> HIDE DEF u
  <2>5. Does(d, s, Contents(vec))
    BY <2>3, <2>4, DoesIs
  <2>6. Fits(vec, "insert_arr_at") /\ IsHandle(vec)
    BY DEF Fits, SameAlloc, IInv
  <2>7. QED
    BY <1>1, <2>1, <2>5, <2>6, NoArguments, ReturnsIs, KindsAre
<1>3. CASE arr # <<>>
  <2>1. PICK c \in Nat : c = Count(vec) + Len(arr)
    BY <1>1
  <2> DEFINE r == Reserve(vec, c, alloc_ctx)
  <2>2. Returns(InsertArr(r, i, arr), "insert_arr_at", i, 0, arr, {}, Junk)
    BY <1>3, <2>1 DEF InsertMany
  <2>3. PICK a \in Allocs : a = alloc_ctx
    BY DEF IInv
  <2>4. /\ IsHandle(r) /\ SameAlloc(vec, r) /\ Contents(r) = Contents(vec)
        /\ Count(r) = Count(vec) /\ Cap(r) >= c /\ (r = NULL => c = 0)
    BY <2>3, ReserveIs DEF IInv
  <2> HIDE DEF r
  <2>5. Len(arr) # 0
    BY <1>1, <1>3, EmptySeq
  <2>6. c # 0
    BY <1>1, <2>1, <2>5
  <2>7. IsVec(r)
    BY <2>4, <2>6 DEF IsHandle
  <2>8. r.count = Count(vec) /\ r.count + Len(arr) <= r.cap
    BY <2>1, <2>4, <2>7, VecIs
  <2>9. QED
    BY <1>1, <2>2, <2>4, <2>7, <2>8, InsertsKeep
<1>4. QED
  BY <1>2, <1>3

\* vec_insert_at_unordered
LEMMA InsertAnywhereKeeps ==
  ASSUME IInv, NEW i \in Sizes, NEW x \in Vals, InsertAnywhere(i, x)
  PROVE  StepIs
<1> DEFINE r == Reserve1(vec, alloc_ctx)
           w == InsertUnordered(r, i, x)
           s == Contents(vec)
           d == [op |-> "insert_at_unordered", i |-> i, n |-> 0, arr |-> <<x>>, keep |-> {}, val |-> Junk]
<1>1. i <= Count(vec) /\ Returns(w, "insert_at_unordered", i, 0, <<x>>, {}, Junk)
  BY DEF InsertAnywhere
<1>2. x \in Cells /\ <<x>> \in Seq(Vals) /\ i \in Nat /\ <<x>>[1] = x
  BY NoArguments
<1>3. PICK a \in Allocs : a = alloc_ctx
  BY DEF IInv
<1>4. /\ IsVec(r) /\ SameAlloc(vec, r) /\ Contents(r) = s
      /\ r.count = Count(vec) /\ r.count < r.cap
  BY <1>3, Reserve1Is DEF IInv
<1> HIDE DEF r, s
<1>5. i <= r.count
  BY <1>1, <1>4
<1>6. /\ IsHandle(w) /\ w # NULL /\ w.alloc = r.alloc
      /\ Contents(w) = IF i = Len(Contents(r)) THEN Contents(r) \o <<x>>
                       ELSE [Contents(r) EXCEPT ![i + 1] = x] \o <<Contents(r)[i + 1]>>
  BY <1>2, <1>4, <1>5, InsertUnorderedIs
<1> HIDE DEF w
<1>7. Contents(w) = IF i = Len(s) THEN s \o <<x>> ELSE [s EXCEPT ![i + 1] = x] \o <<s[i + 1]>>
  BY <1>4, <1>6
<1>8. d.op = "insert_at_unordered" /\ d.i = i /\ d.arr = <<x>> /\ d.arr[1] = x
  BY <1>2
<1> HIDE DEF d
<1>9. Contents(w) = Abstract!Unordered(d, s)
  BY <1>7, <1>8 DEF Abstract!Unordered
<1>10. Does(d, s, Contents(w))
  BY <1>8, <1>9, DoesIs
<1>11. Fits(w, "insert_at_unordered")
  BY <1>4, <1>6 DEF Fits, SameAlloc
<1>12. QED
  BY <1>1, <1>2, <1>6, <1>10, <1>11, NoArguments, ReturnsIs, KindsAre DEF s, d

\* Cutting nothing off the empty sequence.
LEMMA NoneLeft ==
  /\ SubSeq(<<>>, 1, 0) = <<>> /\ Len(<<>>) = 0
  /\ \A m : m = 0 => SubSeq(<<>>, 1, m) \o SubSeq(<<>>, m + m + 1, Len(<<>>)) = <<>>
<1>1. SubSeq(<<>>, 1, 0) = <<>> /\ Len(<<>>) = 0 /\ <<>> \o <<>> = <<>>
  OBVIOUS
<1>2. QED
  BY <1>1

\* vec_erase_at_n and vec_erase_at
LEMMA EraseRangeKeeps ==
  ASSUME IInv, NEW i \in Sizes, NEW n \in Sizes, EraseRange(i, n)
  PROVE  StepIs
<1> DEFINE w == EraseAtN(vec, i, n)
           s == Contents(vec)
           d == [op |-> "erase_at_n", i |-> i, n |-> n, arr |-> <<>>, keep |-> {}, val |-> Junk]
<1>1. i + n <= Count(vec) /\ Returns(w, "erase_at_n", i, n, <<>>, {}, Junk)
  BY DEF EraseRange
<1>2. i \in Nat /\ n \in Nat
  BY NoArguments
<1>3. /\ IsHandle(w) /\ SameAlloc(vec, w)
      /\ Contents(w) = SubSeq(s, 1, i) \o SubSeq(s, i + n + 1, Len(s))
  <2>1. CASE vec = NULL
    <3>1. i = 0 /\ n = 0
      BY <1>1, <1>2, <2>1, NullIs
    <3>2. w = NULL /\ s = <<>>
      BY <2>1, <3>1, NullIs DEF EraseAtN
    <3>3. <<>> = SubSeq(s, 1, i) \o SubSeq(s, i + n + 1, Len(s))
      BY <3>1, <3>2, NoneLeft
    <3>4. QED
      BY <2>1, <3>2, <3>3, NullIs DEF IsHandle, SameAlloc
  <2>2. CASE vec # NULL
    <3>1. IsVec(vec)
      BY <2>2 DEF IInv, IsHandle
    <3>2. i + n <= vec.count
      BY <1>1, <3>1, VecIs
    <3>3. QED
      BY <1>2, <3>1, <3>2, EraseAtNIs DEF SameAlloc
  <2>3. QED
    BY <2>1, <2>2
<1> HIDE DEF w, s
<1>4. Fits(w, "erase_at_n")
  BY <1>3 DEF Fits
<1>5. Does(d, s, Contents(w))
  BY <1>3, DoesIs
<1>6. QED
  BY <1>1, <1>2, <1>3, <1>4, <1>5, NoArguments, ReturnsIs, KindsAre DEF s

\* vec_erase_at_unordered
LEMMA EraseAnywhereKeeps ==
  ASSUME IInv, NEW i \in Sizes, EraseAnywhere(i)
  PROVE  StepIs
<1> DEFINE w == EraseUnordered(vec, i)
           s == Contents(vec)
           d == [op |-> "erase_at_unordered", i |-> i, n |-> 0, arr |-> <<>>, keep |-> {}, val |-> Junk]
<1>1. i < Count(vec) /\ Returns(w, "erase_at_unordered", i, 0, <<>>, {}, Junk)
  BY DEF EraseAnywhere
<1>2. i \in Nat
  BY NoArguments
<1>3. vec # NULL
  BY <1>1, <1>2, NullIs
<1>4. IsVec(vec) /\ i < vec.count
  BY <1>1, <1>3, VecIs DEF IInv, IsHandle
<1>5. /\ IsHandle(w) /\ w # NULL /\ w.alloc = vec.alloc
      /\ Contents(w) = SubSeq([s EXCEPT ![i + 1] = s[Len(s)]], 1, Len(s) - 1)
  BY <1>2, <1>4, EraseUnorderedIs
<1> HIDE DEF w, s
<1>6. d.op = "erase_at_unordered" /\ d.i = i
  OBVIOUS
<1> HIDE DEF d
<1>7. Contents(w) = Abstract!Unordered(d, s)
  BY <1>5, <1>6 DEF Abstract!Unordered
<1>8. Does(d, s, Contents(w))
  BY <1>6, <1>7, DoesIs
<1>9. Fits(w, "erase_at_unordered")
  BY <1>5 DEF Fits, SameAlloc
<1>10. QED
  BY <1>1, <1>2, <1>5, <1>8, <1>9, NoArguments, ReturnsIs, KindsAre DEF s, d

\* vec_erase_if
LEMMA EraseWhereKeeps ==
  ASSUME IInv, NEW keep \in SUBSET (Vals \cup {Junk}), EraseWhere(keep)
  PROVE  StepIs
<1> DEFINE w == EraseIf(vec, keep)
           s == Contents(vec)
           d == [op |-> "erase_if", i |-> 0, n |-> 0, arr |-> <<>>, keep |-> keep, val |-> Junk]
<1>1. Returns(w, "erase_if", 0, 0, <<>>, keep, Junk)
  BY DEF EraseWhere
<1>2. keep \in SUBSET Cells
  BY DEF Cells
<1>3. IsHandle(w) /\ SameAlloc(vec, w) /\ Contents(w) = Abstract!Keeping(s, keep)
  BY EraseIfIs DEF IInv
<1> HIDE DEF w, s
<1>4. Does(d, s, Contents(w))
  BY <1>3, DoesIs
<1>5. Fits(w, "erase_if")
  BY <1>3 DEF Fits
<1>6. QED
  BY <1>1, <1>2, <1>3, <1>4, <1>5, NoArguments, ReturnsIs, KindsAre DEF s

\* vec_assign
LEMMA AssignArrKeeps == ASSUME IInv, NEW arr \in Arrays, AssignArr(arr) PROVE StepIs
<1> DEFINE w == Assign(vec, arr, alloc_ctx)
           d == [op |-> "assign", i |-> 0, n |-> 0, arr |-> arr, keep |-> {}, val |-> Junk]
<1>1. Returns(w, "assign", 0, 0, arr, {}, Junk)
  BY DEF AssignArr
<1>2. arr \in Seq(Vals) /\ arr \in Seq(Cells)
  BY VecAssumption, ArraysFit
<1>3. PICK a \in Allocs : a = alloc_ctx
  BY DEF IInv
<1>4. IsHandle(w) /\ SameAlloc(vec, w) /\ Contents(w) = arr
  BY <1>2, <1>3, AssignIs DEF IInv
<1> HIDE DEF w
<1>5. Does(d, Contents(vec), Contents(w))
  BY <1>4, DoesIs
<1>6. Fits(w, "assign")
  BY <1>4 DEF Fits
<1>7. QED
  BY <1>1, <1>2, <1>4, <1>5, <1>6, NoArguments, ReturnsIs, KindsAre

\* vec_pop and vec_pop_n
LEMMA PopKeeps == ASSUME IInv, NEW n \in Sizes, Pop(n) PROVE StepIs
<1>1. n <= Count(vec) /\ n \in Nat /\ Count(vec) \in Nat
  BY NoArguments, HandleIs DEF Pop, IInv
<1>2. PICK left \in Nat : left = Count(vec) - n
  BY <1>1
<1> DEFINE w == IF vec = NULL THEN NULL ELSE [vec EXCEPT !.count = left]
           s == Contents(vec)
           x == IF n = 1 THEN vec.mem[left] ELSE Junk
           d == [op |-> "pop_n", i |-> 0, n |-> n, arr |-> <<>>, keep |-> {}, val |-> x]
<1>3. Returns(w, "pop_n", 0, n, <<>>, {}, x)
  BY <1>2 DEF Pop
<1>4. /\ IsHandle(w) /\ SameAlloc(vec, w) /\ Contents(w) = SubSeq(s, 1, Len(s) - n)
      /\ x \in Cells /\ (n = 1 => x = s[Len(s)])
  <2>1. CASE vec = NULL
    <3>1. n = 0 /\ s = <<>> /\ w = NULL
      BY <1>1, <2>1, NullIs
    <3>2. x = Junk /\ Len(s) - n = 0 /\ SubSeq(s, 1, 0) = <<>>
      BY <3>1, NoneLeft
    <3>3. QED
      BY <2>1, <3>1, <3>2, NullIs, NoArguments DEF IsHandle, SameAlloc
  <2>2. CASE vec # NULL
    <3> DEFINE u == [vec EXCEPT !.count = left]
    <3>1. IsVec(vec)
      BY <2>2 DEF IInv, IsHandle
    <3>2. /\ vec.count \in Nat /\ vec.cap \in Nat /\ vec.count <= vec.cap /\ n <= vec.count
          /\ Count(vec) = vec.count /\ vec.mem \in [0 .. vec.cap - 1 -> Cells]
          /\ Len(s) = vec.count
          /\ \A i \in 1 .. vec.count : s[i] = vec.mem[i - 1]
      BY <1>1, <3>1, VecIs
    <3>3. n = 1 => left \in 0 .. vec.cap - 1 /\ s[Len(s)] = vec.mem[left]
      <4>1. n = 1 => left \in 0 .. vec.cap - 1 /\ left = vec.count - 1 /\ vec.count \in 1 .. vec.count
        BY <1>2, <3>2
      <4>2. QED
        BY <3>2, <4>1
    <3>4. x \in Cells /\ (n = 1 => x = s[Len(s)])
      BY <3>2, <3>3, NoArguments
    <3>5. left <= vec.count
      BY <1>1, <1>2, <3>2
    <3>6. IsHandle(u) /\ u # NULL /\ u.alloc = vec.alloc /\ Contents(u) = SubSeq(s, 1, left)
      BY <3>1, <3>5, TakeIs
    <3> HIDE DEF u, x, s
    <3>7. w = u /\ left = Len(s) - n
      BY <1>2, <2>2, <3>2 DEF u
    <3> HIDE DEF w
    <3>8. QED
      BY <3>4, <3>6, <3>7 DEF SameAlloc
  <2>3. QED
    BY <2>1, <2>2
<1> HIDE DEF x, w, s
<1>5. d.op = "pop_n" /\ d.n = n /\ d.val = x
  OBVIOUS
<1> HIDE DEF d
<1>6. Does(d, s, Contents(w))
  BY <1>4, <1>5, DoesIs
<1>7. Fits(w, "pop_n")
  BY <1>4 DEF Fits
<1>8. QED
  BY <1>1, <1>3, <1>4, <1>6, <1>7, NoArguments, ReturnsIs, KindsAre DEF s, d

\* The client changes the default allocator, which no vector notices.
LEMMA SetContextKeeps == ASSUME IInv, NEW a \in Allocs, SetContext(a) PROVE StepIs
<1>1. alloc_ctx' = a /\ vec' = vec /\ call' = call /\ call = Nothing
  BY DEF SetContext
<1>2. IInv'
  BY <1>1 DEF IInv
<1>3. UNCHANGED <<Contents(vec), call>>
  BY <1>1
<1>4. AllocStep
  BY <1>1 DEF AllocStep
<1>5. QED
  BY <1>2, <1>3, <1>4 DEF StepIs

\* The client takes the answer.
LEMMA ReturnKeeps == ASSUME IInv, Return PROVE StepIs
<1>1. alloc_ctx' = alloc_ctx /\ vec' = vec /\ call' = Nothing /\ call # Nothing
  BY DEF Return
<1>2. IInv'
  BY <1>1 DEF IInv
<1>3. Contents(vec)' = Contents(vec)
  BY <1>1
<1>4. Abstract!Next
  BY <1>1, <1>3 DEF Abstract!Next
<1>5. AllocStep
  BY <1>1 DEF AllocStep
<1>6. QED
  BY <1>2, <1>4, <1>5 DEF StepIs

\* Nothing happens.
LEMMA StutterKeeps ==
  ASSUME IInv, UNCHANGED vars
  PROVE  IInv' /\ UNCHANGED <<Contents(vec), call>>
<1>1. alloc_ctx' = alloc_ctx /\ vec' = vec /\ call' = call
  BY DEF vars
<1>2. IInv'
  BY <1>1 DEF IInv
<1>3. UNCHANGED <<Contents(vec), call>>
  BY <1>1
<1>4. QED
  BY <1>2, <1>3

\* Every step keeps the invariant, is a step of the list or leaves it alone, and
\* leaves the vector with its allocator.
LEMMA NextIs == ASSUME IInv, Next PROVE StepIs
<1>1. CASE Release \/ Clear \/ ReverseAll \/ Shrink \/ Return
  BY <1>1, ReleaseKeeps, ClearKeeps, ReverseAllKeeps, ShrinkKeeps, ReturnKeeps
<1>2. CASE \E a \in Allocs : SetContext(a) \/ \E c \in Sizes : InitVec(c, a)
  BY <1>2, SetContextKeeps, InitVecKeeps
<1>3. CASE \E arr \in Arrays : PushArr(arr) \/ AssignArr(arr) \/ \E a \in Allocs : From(arr, a)
  BY <1>3, PushArrKeeps, AssignArrKeeps, FromKeeps
<1>4. CASE \E c \in Sizes : ReserveCap(c) \/ ResizeTo(c) \/ Pop(c)
  BY <1>4, ReserveCapKeeps, ResizeToKeeps, PopKeeps
<1>5. CASE \E x \in Vals : PushOne(x)
  BY <1>5, PushOneKeeps
<1>6. CASE \E i \in Sizes :
             \/ EraseAnywhere(i)
             \/ \E x \in Vals : InsertOne(i, x) \/ InsertAnywhere(i, x)
             \/ \E arr \in Arrays : InsertMany(i, arr)
             \/ \E n \in Sizes : EraseRange(i, n)
  BY <1>6, EraseAnywhereKeeps, InsertOneKeeps, InsertAnywhereKeeps, InsertManyKeeps,
     EraseRangeKeeps
<1>7. CASE \E keep \in SUBSET (Vals \cup {Junk}) : EraseWhere(keep)
  BY <1>7, EraseWhereKeeps
<1>8. QED
  BY <1>1, <1>2, <1>3, <1>4, <1>5, <1>6, <1>7 DEF Next

\* There is no vector at first.
LEMMA InitIs == Init => IInv /\ Abstract!Init
<1>1. ASSUME Init
      PROVE  IInv /\ Abstract!Init
  <2>1. vec = NULL /\ alloc_ctx \in Allocs /\ call = Nothing
    BY <1>1 DEF Init
  <2>2. Cap(vec) = 0 /\ Contents(vec) = <<>>
    BY <2>1, NullIs
  <2>3. 0 <= MaxCap
    BY VecAssumption
  <2>4. QED
    BY <2>1, <2>2, <2>3 DEF IInv, IsHandle, Abstract!Init
<1>2. QED
  BY <1>1

\* The invariant holds of every state.
LEMMA Invariant == Spec => []IInv
<1>1. IInv /\ [Next]_vars => IInv'
  <2>1. ASSUME IInv, Next
        PROVE  IInv'
    BY <2>1, NextIs DEF StepIs
  <2>2. ASSUME IInv, UNCHANGED vars
        PROVE  IInv'
    BY <2>2, StutterKeeps
  <2>3. QED
    BY <2>1, <2>2
<1>2. QED
  BY InitIs, <1>1, PTL DEF Spec

\* The header describes the block, which is never empty nor above MaxCap, whatever
\* calls the client makes.
THEOREM VecTypeOK == Spec => []TypeOK
<1>1. IInv => TypeOK
  <2>1. ASSUME IInv, vec # NULL
        PROVE  /\ DOMAIN vec.mem = 0 .. vec.cap - 1 /\ vec.cap \in 1 .. MaxCap
               /\ vec.count \in 0 .. vec.cap /\ vec.alloc \in Allocs
    <3>1. IsVec(vec) /\ Cap(vec) <= MaxCap
      BY <2>1 DEF IInv, IsHandle
    <3>2. /\ vec.cap \in Nat \ {0} /\ vec.cap <= MaxCap /\ vec.count \in 0 .. vec.cap
          /\ vec.mem \in [0 .. vec.cap - 1 -> Cells] /\ vec.alloc \in Allocs
      BY <3>1, VecIs
    <3>3. vec.cap \in 1 .. MaxCap
      BY <3>2, VecAssumption
    <3>4. QED
      BY <3>2, <3>3
  <2>2. QED
    BY <2>1 DEF TypeOK, IInv
<1>2. QED
  BY Invariant, <1>1, PTL

\* A vector keeps the allocator it was bound to until it is released.
THEOREM VecAllocatorKept == Spec => AllocatorKept
<1>1. IInv /\ [Next]_vars
        => [vec # NULL => IF call' # Nothing /\ call'.op = "release" THEN vec' = NULL
                          ELSE vec' # NULL /\ vec'.alloc = vec.alloc]_vars
  <2>1. ASSUME IInv, Next
        PROVE  AllocStep
    BY <2>1, NextIs DEF StepIs
  <2>2. QED
    BY <2>1 DEF AllocStep
<1>2. QED
  BY Invariant, <1>1, PTL DEF Spec, AllocatorKept

\* Every call does to the sequence what its name says.
THEOREM VecImplementsList == Spec => ImplementsList
<1>1. IInv /\ [Next]_vars => [Abstract!Next]_<<Contents(vec), call>>
  <2>1. ASSUME IInv, Next
        PROVE  [Abstract!Next]_<<Contents(vec), call>>
    BY <2>1, NextIs DEF StepIs
  <2>2. ASSUME IInv, UNCHANGED vars
        PROVE  UNCHANGED <<Contents(vec), call>>
    BY <2>2, StutterKeeps
  <2>3. QED
    BY <2>1, <2>2
<1>2. QED
  BY InitIs, Invariant, <1>1, PTL DEF Spec, ImplementsList, Abstract!Spec
=============================================================================
